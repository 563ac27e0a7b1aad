----------------------------- MODULE SandboxProofs -----------------------------
(* What the service host of a sandbox keeps to for any calls, attempts, kept  *)
(* ends and starts of a worker, with proofs: a call id runs once until its    *)
(* run is forgotten, and the attempts of a call are told the same.  Then what *)
(* holds of the files of a sandbox, for any containers, files and versions    *)
(* and any number of failed pushes.                                           *)
EXTENDS SandboxHost, SandboxDisk, FiniteSetTheorems, SequenceTheorems, TLAPS

-----------------------------------------------------------------------------
(* The invariant.                                                          *)

Running == {c \in Calls : entry[c] = "running"}

\* What is kept of the calls that ended, in an order that names each once.
KeptInv ==
    /\ kept \in Seq(Calls) /\ IsInjective(kept)
    /\ Range(kept) = {c \in Calls : entry[c] \in Ends}
    /\ IsFiniteSet(Running)

\* The other variables but the count of entries.
PlainTypes ==
    /\ att \in [Calls -> [Ids -> {"idle", "out", "gone"} \cup Ends]]
    /\ net \subseteq Requests
    /\ held \subseteq Calls \X Ids
    /\ entry \in [Calls -> {"none", "running"} \cup Ends]
    /\ task \in [Calls -> {"none", "placing", "worker", "dying", "opening", "method"}]
    /\ \A c \in Calls : task[c] = "none" <=> entry[c] # "running"
    /\ cancelling \subseteq {c \in Calls : task[c] = "method"}
    /\ opened \in {"none", "opening", "cancelling", "ready"}
    /\ slot \in {"empty", "starting", "alive"}
    /\ starts \in 0 .. Starts
    /\ proc \in {"up", "down"}
    /\ wcall \in [Calls -> {"none", "sent", "opening", "method"} \cup Ends]
    /\ wcancel \subseteq Calls
    /\ wopened \in {"none", "opening", "ready"}
    /\ entered \in [Calls -> Nat]
    /\ forgot \subseteq Calls

\* A worker has calls only while it holds the slot, and a run that waits for a worker
\* or for the instance in the host is in no worker.
Placed ==
    /\ slot # "alive" => \A c \in Calls : wcall[c] = "none"
    /\ \A c \in Calls : task[c] = "placing" => slot = "starting"
    /\ \A c \in Calls : task[c] \in {"placing", "opening"} => wcall[c] = "none"

\* A run that may still enter the method.
ToEnter(c) == task[c] \in {"placing", "opening"} \/ wcall[c] \in {"sent", "opening"}
Ready(c)   == IF ToEnter(c) THEN 1 ELSE 0

\* The attempts of a call whose request the host has taken: each lets the method be
\* entered once at most.
Used(c) == {a \in Ids : att[c][a] # "idle" /\ Call(c, a) \notin net}
Counted ==
    \A c \in Calls :
        /\ \A a \in Ids : Call(c, a) \in net => att[c][a] # "idle"
        /\ entered[c] + Ready(c) <= Cardinality(Used(c))

\* Of a call the host has not forgotten: it was not entered before its run was known,
\* nor before its one run was ready to.
Fresh ==
    \A c \in Calls \ forgot :
        /\ entry[c] = "none" => entered[c] = 0 /\ wcall[c] = "none"
        /\ ToEnter(c) => entered[c] = 0
        /\ entered[c] <= 1

\* What the attempts of such a call were told is how its run ended.
Answers ==
    \A c \in Calls \ forgot : \A a \in Ids : att[c][a] \in Ends => entry[c] = att[c][a]

KnownInv == PlainTypes /\ Placed /\ Fresh /\ Answers
CallsInv == KnownInv /\ KeptInv /\ Counted
-----------------------------------------------------------------------------
(* What is kept, as a sequence.                                            *)

USE HostAssumption

\* The members of a finite set in some order: each occurs, and once.
LEMMA SetInOrder ==
    ASSUME NEW S, IsFiniteSet(S)
    PROVE  /\ SetToSeq(S) \in Seq(S) /\ IsInjective(SetToSeq(S))
           /\ Range(SetToSeq(S)) = S
<1> DEFINE n == Cardinality(S)
<1>1. n \in Nat /\ ExistsBijection(1 .. n, S)
    BY FS_CardinalityType
<1>2. PICK f \in [1 .. n -> S] : IsInjective(f)
    BY <1>1 DEF ExistsBijection, Bijection, Injection, Surjection
<1>3. SetToSeq(S) \in [1 .. n -> S] /\ IsInjective(SetToSeq(S))
    BY <1>2 DEF SetToSeq
<1> DEFINE s == SetToSeq(S)
<1>4. s \in Injection(1 .. n, S)
    BY <1>3 DEF Injection
<1>5. IsFiniteSet(1 .. n) /\ Cardinality(1 .. n) = n
    BY <1>1, FS_Interval
<1>6. s \in Surjection(1 .. n, S)
    BY <1>4, <1>5, FS_Injection
<1>7. Range(s) = S
    BY <1>6 DEF Surjection, Range
<1>8. s \in Seq(S)
    BY <1>1, <1>3, SeqDef
<1> QED BY <1>3, <1>7, <1>8

\* Ends put behind the kept ones that name other calls: all of both, each once.
LEMMA KeepMore ==
    ASSUME NEW s \in Seq(Calls), NEW t \in Seq(Calls), IsInjective(s), IsInjective(t),
           Range(s) \cap Range(t) = {}
    PROVE  /\ s \o t \in Seq(Calls) /\ IsInjective(s \o t)
           /\ Range(s \o t) = Range(s) \cup Range(t)
<1>1. /\ s \o t \in Seq(Calls) /\ DOMAIN (s \o t) = 1 .. Len(s) + Len(t)
      /\ \A i \in 1 .. Len(s) + Len(t) :
           (s \o t)[i] = IF i <= Len(s) THEN s[i] ELSE t[i - Len(s)]
      /\ DOMAIN s = 1 .. Len(s) /\ DOMAIN t = 1 .. Len(t) /\ Len(s) \in Nat /\ Len(t) \in Nat
    BY ConcatProperties, LenProperties
<1>2. \A i \in DOMAIN s : s[i] \in Range(s)
    BY DEF Range
<1>3. \A i \in DOMAIN t : t[i] \in Range(t)
    BY DEF Range
<1>4. IsInjective(s \o t)
  <2> SUFFICES ASSUME NEW i \in 1 .. Len(s) + Len(t), NEW j \in 1 .. Len(s) + Len(t),
                      (s \o t)[i] = (s \o t)[j]
               PROVE  i = j
      BY <1>1 DEF IsInjective
  <2>1. CASE i <= Len(s) /\ j <= Len(s)
      BY <2>1, <1>1 DEF IsInjective
  <2>2. CASE i > Len(s) /\ j > Len(s)
      BY <2>2, <1>1 DEF IsInjective
  <2>3. CASE i <= Len(s) /\ j > Len(s)
      BY <2>3, <1>1, <1>2, <1>3
  <2>4. CASE i > Len(s) /\ j <= Len(s)
      BY <2>4, <1>1, <1>2, <1>3
  <2> QED BY <1>1, <2>1, <2>2, <2>3, <2>4
<1>5. Range(s \o t) = Range(s) \cup Range(t)
  <2>1. Range(s \o t) \subseteq Range(s) \cup Range(t)
      BY <1>1, <1>2, <1>3 DEF Range
  <2>2. \A i \in DOMAIN s : s[i] = (s \o t)[i] /\ i \in DOMAIN (s \o t)
      BY <1>1
  <2>3. \A i \in DOMAIN t : t[i] = (s \o t)[i + Len(s)] /\ i + Len(s) \in DOMAIN (s \o t)
      BY <1>1
  <2> QED BY <2>1, <2>2, <2>3, ZenonT(40) DEF Range
<1> QED BY <1>1, <1>4, <1>5

\* Forgetting the oldest leaves the others, each once.
LEMMA ForgetOldest ==
    ASSUME KeptInv, NEW n \in Excess .. Len(kept)
    PROVE  /\ Younger(n) \in Seq(Calls) /\ IsInjective(Younger(n))
           /\ Range(Younger(n)) = Range(kept) \ Dropped(n)
           /\ Dropped(n) \subseteq Range(kept)
<1>1. /\ kept \in Seq(Calls) /\ Len(kept) \in Nat /\ DOMAIN kept = 1 .. Len(kept)
      /\ \A i, j \in 1 .. Len(kept) : kept[i] = kept[j] => i = j
    BY LenProperties DEF KeptInv, IsInjective
<1>2. n \in Nat /\ n <= Len(kept)
    BY <1>1 DEF Excess
<1> DEFINE y == Younger(n)
<1>3. \A i \in n + 1 .. Len(kept) : kept[i] \in Calls
    BY <1>1, <1>2, ElementOfSeq
<1>4. /\ y \in Seq(Calls) /\ Len(y) = Len(kept) - n
      /\ \A i \in 1 .. Len(kept) - n : y[i] = kept[i + n]
  <2>1. n + 1 \in Int /\ Len(kept) \in Int
      BY <1>1, <1>2
  <2>2. /\ SubSeq(kept, n + 1, Len(kept)) \in Seq(Calls)
        /\ Len(SubSeq(kept, n + 1, Len(kept)))
             = IF n + 1 <= Len(kept) THEN Len(kept) - (n + 1) + 1 ELSE 0
        /\ \A i \in 1 .. Len(kept) - (n + 1) + 1 :
             SubSeq(kept, n + 1, Len(kept))[i] = kept[n + 1 + i - 1]
      BY <2>1, <1>3, SubSeqProperties
  <2>3. Len(kept) - (n + 1) + 1 = Len(kept) - n /\ \A i \in Int : n + 1 + i - 1 = i + n
      BY <1>1, <1>2
  <2>4. Len(y) = Len(kept) - n
      BY <2>2, <1>1, <1>2 DEF Younger
  <2>5. ASSUME NEW i \in 1 .. Len(kept) - n PROVE y[i] = kept[i + n]
      BY <2>2, <2>3 DEF Younger
  <2> QED BY <2>2, <2>4, <2>5 DEF Younger
<1>5. DOMAIN y = 1 .. Len(kept) - n
    BY <1>4, LenProperties
<1> HIDE DEF y
<1>6. IsInjective(y)
  <2> SUFFICES ASSUME NEW i \in 1 .. Len(kept) - n, NEW j \in 1 .. Len(kept) - n, y[i] = y[j]
               PROVE  i = j
      BY <1>5 DEF IsInjective
  <2>1. kept[i + n] = kept[j + n] /\ i + n \in 1 .. Len(kept) /\ j + n \in 1 .. Len(kept)
      BY <1>1, <1>2, <1>4
  <2> QED BY <1>1, <1>2, <2>1
<1>7. Range(y) = Range(kept) \ Dropped(n)
  <2>1. ASSUME NEW x \in Range(y) PROVE x \in Range(kept) \ Dropped(n)
    <3>1. PICK i \in 1 .. Len(kept) - n : x = kept[i + n]
        BY <2>1, <1>4, <1>5 DEF Range
    <3>2. i + n \in 1 .. Len(kept) /\ i + n > n
        BY <1>1, <1>2
    <3> QED BY <3>1, <3>2, <1>1, <1>2 DEF Range, Dropped
  <2>2. ASSUME NEW x \in Range(kept) \ Dropped(n) PROVE x \in Range(y)
    <3>1. PICK i \in 1 .. Len(kept) : x = kept[i]
        BY <2>2, <1>1 DEF Range
    <3>2. i > n
        BY <3>1, <2>2, <1>1, <1>2 DEF Dropped
    <3>3. i - n \in 1 .. Len(kept) - n /\ (i - n) + n = i
        BY <3>2, <1>1, <1>2
    <3>4. y[i - n] = x
        BY <3>1, <3>3, <1>4
    <3> QED BY <3>3, <3>4, <1>5 DEF Range
  <2> QED BY <2>1, <2>2
<1>8. Dropped(n) \subseteq Range(kept)
    BY <1>1, <1>2 DEF Dropped, Range
<1> QED BY <1>4, <1>6, <1>7, <1>8 DEF y
-----------------------------------------------------------------------------
(* The host's calls, the workers, and what the callers were told.          *)

\* A run that is not over is finite business: the members of S are among the runs, and
\* what is kept after they end is what it should be.
LEMMA FinishKeeps ==
    ASSUME PlainTypes, KeptInv, NEW S \in SUBSET Running, NEW e \in Ends, Finish(S, e)
    PROVE  KeptInv'
<1>1. IsFiniteSet(S) /\ S \subseteq Calls
    BY FS_Subset DEF KeptInv, Running
<1> DEFINE t == SetToSeq(S)
<1>2. t \in Seq(S) /\ IsInjective(t) /\ Range(t) = S
    BY <1>1, SetInOrder
<1>3. t \in Seq(Calls)
    BY <1>1, <1>2, SeqMonotonic
<1>4. Range(kept) \cap S = {}
    BY DEF KeptInv, Running, Ends
<1> HIDE DEF t
<1>5. kept \o t \in Seq(Calls) /\ IsInjective(kept \o t) /\ Range(kept \o t) = Range(kept) \cup S
    BY <1>2, <1>3, <1>4, KeepMore DEF KeptInv
<1>6. kept' = kept \o t /\ \A c \in Calls : entry'[c] = IF c \in S THEN e ELSE entry[c]
    BY DEF Finish, t
<1>7. {c \in Calls : entry'[c] \in Ends} = Range(kept) \cup S
    BY <1>1, <1>6 DEF KeptInv
<1>8. Running' \subseteq Running
    BY <1>6 DEF Running, Ends
<1>9. IsFiniteSet(Running')
    BY <1>8, FS_Subset DEF KeptInv
<1> QED BY <1>5, <1>6, <1>7, <1>9 DEF KeptInv

\* The initial state.
LEMMA CallsInit == Init => CallsInv
<1> SUFFICES ASSUME Init PROVE CallsInv
    OBVIOUS
<1>1. KnownInv
    BY DEF Init, KnownInv, PlainTypes, Placed, Fresh, Answers, ToEnter, Ends
<1>2. KeptInv
  <2>1. Range(kept) = {} /\ IsInjective(kept) /\ kept \in Seq(Calls)
      BY DEF Init, Range, IsInjective
  <2>2. Running = {} /\ {c \in Calls : entry[c] \in Ends} = {}
      BY DEF Init, Running, Ends
  <2> QED BY <2>1, <2>2, FS_EmptySet DEF KeptInv
<1>3. Counted
  <2>1. \A c \in Calls : Used(c) = {}
      BY DEF Init, Used
  <2> QED BY <2>1, FS_EmptySet DEF Init, Counted, Ready, ToEnter
<1> QED BY <1>1, <1>2, <1>3 DEF CallsInv

\* Runs that end: their callers are told how, and so is what is known of them.
LEMMA FinishKnown ==
    ASSUME KnownInv, NEW S \in SUBSET Running, NEW e \in Ends, Finish(S, e),
           UNCHANGED <<net, slot, starts, proc, wcall, wopened, entered, forgot>>,
           opened' \in {"none", "opening", "cancelling", "ready"}, wcancel' \subseteq Calls
    PROVE  KnownInv'
<1> USE DEF KnownInv, PlainTypes, Ends, Finish, Running
<1>1. PlainTypes'
    OBVIOUS
<1>2. Placed' /\ Fresh'
    BY DEF Placed, Fresh, ToEnter
<1>3. Answers'
    BY DEF Answers
<1> QED BY <1>1, <1>2, <1>3

\* Every step keeps the types, where the runs are, and what was told.
LEMMA KnownStep == KnownInv /\ KeptInv /\ [Next]_vars => KnownInv'
<1> SUFFICES ASSUME KnownInv, KeptInv, [Next]_vars PROVE KnownInv'
    OBVIOUS
<1> USE DEF KnownInv, PlainTypes, Placed, Fresh, Answers, ToEnter, Ends
<1>0. CASE UNCHANGED vars
    BY <1>0 DEF vars, callers, runs, workers
<1>1. ASSUME NEW c \in Calls, NEW a \in Ids, SendCall(c, a) PROVE KnownInv'
    BY <1>1 DEF SendCall, runs, workers, Call, Requests
<1>2. ASSUME NEW c \in Calls, NEW a \in Ids, GiveUp(c, a) PROVE KnownInv'
    BY <1>2 DEF GiveUp, runs, workers, Cancel, Requests
<1>4. ASSUME NEW c \in Calls, NEW a \in Ids, CallAttaches(c, a) PROVE KnownInv'
    BY <1>4 DEF CallAttaches, runs, workers
<1>5. ASSUME NEW c \in Calls, NEW a \in Ids, CallAnswered(c, a) PROVE KnownInv'
    BY <1>5 DEF CallAnswered, runs, workers, Known
<1>7. ASSUME NEW c \in Calls, CancelTooLate(c) PROVE KnownInv'
    BY <1>7 DEF CancelTooLate, runs, workers
<1>3. ASSUME NEW c \in Calls, NEW a \in Ids, CallArrives(c, a) PROVE KnownInv'
  <2>1. PICK n \in Excess .. Len(kept) :
          /\ entry' = [d \in Calls |-> IF d = c THEN "running"
                                       ELSE IF d \in Dropped(n) THEN "none" ELSE entry[d]]
          /\ forgot' = forgot \cup Dropped(n)
      BY <1>3 DEF CallArrives
  <2>2. Dropped(n) \subseteq {d \in Calls : entry[d] \in Ends}
      BY ForgetOldest DEF KeptInv
  <2>3. /\ entry[c] = "none" /\ Place(c) /\ UNCHANGED <<att, cancelling>>
        /\ net' \subseteq net /\ held' = held \cup {<<c, a>>}
      BY <1>3 DEF CallArrives, Known
  <2>4. Answers' /\ att' = att /\ net' \subseteq Requests /\ held' \subseteq Calls \X Ids
      BY <2>1, <2>2, <2>3
  <2>8. /\ entry' \in [Calls -> {"none", "running"} \cup Ends] /\ forgot' \subseteq Calls
        /\ \A d \in Calls \ {c} : entry'[d] = "running" <=> entry[d] = "running"
        /\ entry'[c] = "running" /\ task[c] = "none" /\ c \notin cancelling
        /\ cancelling' = cancelling
      BY <2>1, <2>2, <2>3, ZenonT(40)
  <2>5. CASE slot = "alive" /\ task' = [task EXCEPT ![c] = "worker"]
             /\ wcall' = [wcall EXCEPT ![c] = IF @ = "none" THEN "sent" ELSE @]
             /\ UNCHANGED <<opened, slot, starts, proc, wcancel, wopened, entered>>
    <3>1. PlainTypes'
        BY <2>4, <2>8, <2>5
    <3>2. Placed'
        BY <2>1, <2>2, <2>3, <2>4, <2>5
    <3>3. Fresh'
        BY <2>1, <2>2, <2>3, <2>4, <2>5
    <3> QED BY <3>1, <3>2, <3>3, <2>4
  <2>6. CASE /\ slot = "starting" \/ (slot = "empty" /\ starts < Starts)
             /\ task' = [task EXCEPT ![c] = "placing"]
             /\ slot' = "starting"
             /\ starts' = IF slot = "empty" THEN starts + 1 ELSE starts
             /\ UNCHANGED <<opened, proc, wcall, wcancel, wopened, entered>>
    <3>1. PlainTypes'
        BY <2>4, <2>8, <2>6
    <3>2. Placed'
        BY <2>1, <2>2, <2>3, <2>4, <2>6
    <3>3. Fresh'
        BY <2>1, <2>2, <2>3, <2>4, <2>6
    <3> QED BY <3>1, <3>2, <3>3, <2>4
  <2>7. CASE slot = "empty" /\ ServeInHost({c}) /\ UNCHANGED workers
    <3>1. PlainTypes'
        BY <2>4, <2>8, <2>7 DEF ServeInHost, workers
    <3>2. Placed'
        BY <2>1, <2>2, <2>3, <2>4, <2>7 DEF ServeInHost, workers
    <3>3. Fresh'
        BY <2>1, <2>2, <2>3, <2>4, <2>7 DEF ServeInHost, workers
    <3> QED BY <3>1, <3>2, <3>3, <2>4
  <2> QED BY <2>3, <2>5, <2>6, <2>7 DEF Place
<1>6. ASSUME NEW c \in Calls, CancelUnknown(c) PROVE KnownInv'
  <2>1. PICK n \in Excess .. Len(kept) :
          /\ entry' = [d \in Calls |-> IF d = c THEN "cancelled"
                                       ELSE IF d \in Dropped(n) THEN "none" ELSE entry[d]]
          /\ forgot' = forgot \cup Dropped(n)
      BY <1>6 DEF CancelUnknown
  <2>2. Dropped(n) \subseteq {d \in Calls : entry[d] \in Ends}
      BY ForgetOldest DEF KeptInv
  <2>3. PlainTypes'
      BY <2>1, <2>2, <1>6, ZenonT(40) DEF CancelUnknown, workers
  <2>4. Placed' /\ Fresh'
      BY <2>1, <2>2, <1>6 DEF CancelUnknown, workers
  <2>5. Answers'
      BY <2>1, <2>2, <1>6 DEF CancelUnknown, workers
  <2> QED BY <2>3, <2>4, <2>5
<1>8. ASSUME NEW c \in Calls, CancelRun(c) PROVE KnownInv'
  <2>1. CASE /\ Finish({c}, "cancelled")
             /\ wcancel' = IF task[c] = "worker" THEN wcancel \cup {c} ELSE wcancel
             /\ UNCHANGED opened
      BY <2>1, <1>8, FinishKnown DEF CancelRun, Running, Finish
  <2>2. CASE task[c] = "opening" /\ opened' = "cancelling" /\ UNCHANGED <<att, held, runs, wcancel>>
      BY <2>2, <1>8 DEF CancelRun, runs
  <2>3. CASE /\ task[c] = "method" /\ cancelling' = cancelling \cup {c}
             /\ UNCHANGED <<att, held, entry, task, kept, opened, wcancel>>
      BY <2>3, <1>8 DEF CancelRun
  <2> QED BY <1>8, <2>1, <2>2, <2>3 DEF CancelRun
<1>9. ASSUME NEW c \in Calls, MethodEnds(c) PROVE KnownInv'
    BY <1>9, FinishKnown DEF MethodEnds, Running, workers
<1>10. CASE Opened
    BY <1>10 DEF Opened, Opening, callers, workers
<1>11. CASE OpenFailed
    BY <1>11, SMTT(25) DEF OpenFailed, Opening, Finish, workers
<1>12. CASE WorkerStarted
    BY <1>12 DEF WorkerStarted, Placing, callers
<1>13. CASE StartFails
    BY <1>13 DEF StartFails, ServeInHost, Placing, callers
<1>14. CASE WorkerOpens
    BY <1>14 DEF WorkerOpens, WOpening, callers, runs
<1>15. CASE WorkerExits
    BY <1>15 DEF WorkerExits, callers, runs
<1>16. CASE ListenEnds
    BY <1>16 DEF ListenEnds, AtWorker, callers
<1>17. CASE Reaped
    BY <1>17 DEF Reaped, Dying, Finish, workers
<1>18. ASSUME NEW c \in Calls, WorkerReceives(c) PROVE KnownInv'
    BY <1>18 DEF WorkerReceives, callers, runs
<1>19. ASSUME NEW c \in Calls, WorkerCancels(c) PROVE KnownInv'
    BY <1>19 DEF WorkerCancels, WOpening, callers, runs
<1>20. ASSUME NEW c \in Calls, WorkerAnswers(c) PROVE KnownInv'
    BY <1>20 DEF WorkerAnswers, callers, runs
<1>21. ASSUME NEW c \in Calls, HostHears(c) PROVE KnownInv'
    BY <1>21 DEF HostHears, Finish, workers
<1> HIDE DEF KnownInv
<1> QED BY <1>0, <1>1, <1>2, <1>3, <1>4, <1>5, <1>6, <1>7, <1>8, <1>9, <1>10, <1>11, <1>12, <1>13,
           <1>14, <1>15, <1>16, <1>17, <1>18, <1>19, <1>20, <1>21 DEF Next, CancelArrives
-----------------------------------------------------------------------------
(* What is kept.                                                           *)

\* Every step keeps the ends it does not forget, in order and each once.
LEMMA KeptStep == KnownInv /\ KeptInv /\ [Next]_vars => KeptInv'
<1> SUFFICES ASSUME PlainTypes, KeptInv, [Next]_vars PROVE KeptInv'
    BY DEF KnownInv
<1>1. ASSUME UNCHANGED <<entry, kept>> PROVE KeptInv'
    BY <1>1 DEF KeptInv, Running
<1>2. ASSUME NEW S \in SUBSET Running, NEW e \in Ends, Finish(S, e) PROVE KeptInv'
    BY <1>2, FinishKeeps
<1>3. ASSUME NEW c \in Calls, NEW a \in Ids, CallArrives(c, a) PROVE KeptInv'
  <2>1. PICK n \in Excess .. Len(kept) :
          /\ kept' = Younger(n)
          /\ entry' = [d \in Calls |-> IF d = c THEN "running"
                                       ELSE IF d \in Dropped(n) THEN "none" ELSE entry[d]]
      BY <1>3 DEF CallArrives
  <2>2. entry[c] = "none"
      BY <1>3 DEF CallArrives, Known
  <2>3. IsFiniteSet(Running \cup {c})
      BY FS_AddElement DEF KeptInv
  <2>4. Running' = Running \cup {c}
      BY <2>1, ForgetOldest DEF Running, KeptInv, Ends
  <2>5. {d \in Calls : entry'[d] \in Ends} = Range(kept) \ Dropped(n)
      BY <2>1, <2>2 DEF KeptInv, Ends
  <2> QED BY <2>1, <2>3, <2>4, <2>5, ForgetOldest DEF KeptInv
<1>4. ASSUME NEW c \in Calls, CancelUnknown(c) PROVE KeptInv'
  <2>1. PICK n \in Excess .. Len(kept) :
          /\ kept' = Append(Younger(n), c)
          /\ entry' = [d \in Calls |-> IF d = c THEN "cancelled"
                                       ELSE IF d \in Dropped(n) THEN "none" ELSE entry[d]]
      BY <1>4 DEF CancelUnknown
  <2>2. entry[c] = "none"
      BY <1>4 DEF CancelUnknown
  <2>3. Running' = Running
      BY <2>1, <2>2, ForgetOldest DEF Running, KeptInv, Ends
  <2>4. {d \in Calls : entry'[d] \in Ends} = (Range(kept) \ Dropped(n)) \cup {c}
      BY <2>1, <2>2 DEF KeptInv, Ends
  <2>5. /\ <<c>> \in Seq(Calls) /\ IsInjective(<<c>>) /\ Range(<<c>>) = {c}
        /\ kept' = Younger(n) \o <<c>>
      BY <2>1, ForgetOldest, AppendIsConcat DEF IsInjective, Range
  <2>6. Range(Younger(n)) \cap {c} = {}
      BY <2>2, ForgetOldest DEF KeptInv, Ends
  <2>7. Younger(n) \in Seq(Calls) /\ IsInjective(Younger(n))
        /\ Range(Younger(n)) = Range(kept) \ Dropped(n)
      BY ForgetOldest
  <2>8. /\ kept' \in Seq(Calls) /\ IsInjective(kept')
        /\ Range(kept') = (Range(kept) \ Dropped(n)) \cup {c}
      BY <2>5, <2>6, <2>7, KeepMore
  <2> QED BY <2>3, <2>4, <2>8 DEF KeptInv
<1>5. CASE UNCHANGED vars
    BY <1>1, <1>5 DEF vars, runs
<1>6. ASSUME NEW c \in Calls, NEW a \in Ids,
             SendCall(c, a) \/ GiveUp(c, a) \/ CallAttaches(c, a) \/ CallAnswered(c, a)
      PROVE  KeptInv'
    BY <1>1, <1>6 DEF SendCall, GiveUp, CallAttaches, CallAnswered, runs
<1>7. ASSUME NEW c \in Calls, CancelArrives(c) PROVE KeptInv'
    BY <1>1, <1>2, <1>4, <1>7 DEF CancelArrives, CancelTooLate, CancelRun, runs, Running, Ends
<1>8. ASSUME NEW c \in Calls, MethodEnds(c) \/ HostHears(c) PROVE KeptInv'
    BY <1>2, <1>8 DEF MethodEnds, HostHears, Running, Ends, PlainTypes
<1>9. CASE OpenFailed \/ Reaped
    BY <1>2, <1>9 DEF OpenFailed, Reaped, Opening, Dying, Running, Ends, PlainTypes
<1>10. CASE \/ Opened \/ WorkerStarted \/ StartFails \/ WorkerOpens \/ WorkerExits \/ ListenEnds
            \/ \E c \in Calls : WorkerReceives(c) \/ WorkerCancels(c) \/ WorkerAnswers(c)
    BY <1>1, <1>10 DEF Opened, WorkerStarted, StartFails, WorkerOpens, WorkerExits, ListenEnds,
                       WorkerReceives, WorkerCancels, WorkerAnswers, runs
<1> QED BY <1>3, <1>5, <1>6, <1>7, <1>8, <1>9, <1>10 DEF Next
-----------------------------------------------------------------------------
(* How often a method is entered.                                          *)

\* Requests sent, taken or answered: none is taken back, and only a new attempt is new.
Delivered ==
    \A c \in Calls, a \in Ids :
        /\ att[c][a] # "idle" => att'[c][a] # "idle"
        /\ Call(c, a) \in net' => Call(c, a) \in net \/ (att[c][a] = "idle" /\ att'[c][a] # "idle")

\* Requests are only ever taken: what was used stays used, and the sets are finite.
LEMMA UsedGrows ==
    ASSUME Counted, Delivered, NEW c \in Calls
    PROVE  /\ Used(c) \subseteq Used(c)' /\ Cardinality(Used(c)) <= Cardinality(Used(c)')
           /\ IsFiniteSet(Used(c)) /\ IsFiniteSet(Used(c)')
           /\ Cardinality(Used(c)) \in Nat /\ Cardinality(Used(c)') \in Nat
           /\ \A a \in Ids : Call(c, a) \in net' => att'[c][a] # "idle"
<1>1. Used(c) \subseteq Used(c)' /\ \A a \in Ids : Call(c, a) \in net' => att'[c][a] # "idle"
    BY DEF Counted, Delivered, Used
<1>2. IsFiniteSet(Ids)
    BY FS_Interval DEF Ids
<1>3. IsFiniteSet(Used(c)) /\ IsFiniteSet(Used(c)')
    BY <1>2, FS_Subset DEF Used
<1> QED BY <1>1, <1>3, FS_Subset, FS_CardinalityType

\* Each entry is of a request that was taken: a step that readies no call for more
\* entries keeps the count.
LEMMA CountKept ==
    ASSUME KnownInv, Counted, Delivered, entered' \in [Calls -> Nat],
           \A c \in Calls : entered'[c] + Ready(c)' <= entered[c] + Ready(c)
    PROVE  Counted'
<1> SUFFICES ASSUME NEW c \in Calls
             PROVE  /\ \A a \in Ids : Call(c, a) \in net' => att'[c][a] # "idle"
                    /\ entered'[c] + Ready(c)' <= Cardinality(Used(c)')
    BY DEF Counted
<1>1. entered[c] + Ready(c) <= Cardinality(Used(c))
    BY DEF Counted
<1>2. entered[c] \in Nat /\ entered'[c] \in Nat /\ Ready(c) \in Nat /\ Ready(c)' \in Nat
    BY DEF KnownInv, PlainTypes, Ready
<1> QED BY <1>1, <1>2, UsedGrows

\* Every step keeps the count.
LEMMA CountStep == KnownInv /\ Counted /\ KnownInv' /\ [Next]_vars => Counted'
<1> SUFFICES ASSUME KnownInv, Counted, KnownInv', [Next]_vars PROVE Counted'
    OBVIOUS
<1>1. entered' \in [Calls -> Nat] /\ entered \in [Calls -> Nat]
    BY DEF KnownInv, PlainTypes
<1>2. ASSUME UNCHANGED <<task, wcall, entered>>, Delivered PROVE Counted'
  <2>1. \A c \in Calls : entered'[c] + Ready(c)' <= entered[c] + Ready(c)
      BY <1>1, <1>2 DEF Ready, ToEnter
  <2> QED BY <1>1, <1>2, <2>1, CountKept
<1>3. ASSUME UNCHANGED <<net, att>> PROVE Delivered
    BY <1>3 DEF Delivered
<1>4. ASSUME NEW S, NEW e \in Ends, Finish(S, e), UNCHANGED <<wcall, entered>>, net' \subseteq net
      PROVE  Counted'
  <2>1. \A c \in Calls : entered'[c] + Ready(c)' <= entered[c] + Ready(c)
      BY <1>1, <1>4 DEF Ready, ToEnter, Finish
  <2>2. Delivered
      BY <1>4 DEF Delivered, Finish, Ends
  <2> QED BY <1>1, <2>1, <2>2, CountKept
<1>5. ASSUME UNCHANGED <<net, att>>,
             \A c \in Calls : entered'[c] + Ready(c)' <= entered[c] + Ready(c)
      PROVE  Counted'
    BY <1>1, <1>3, <1>5, CountKept
<1> USE DEF KnownInv, PlainTypes, Placed, Ready, ToEnter
<1>6. CASE UNCHANGED vars
    BY <1>2, <1>3, <1>6 DEF vars, runs, workers, callers
<1>7. ASSUME NEW c \in Calls, NEW a \in Ids, SendCall(c, a) PROVE Counted'
  <2>1. Delivered
      BY <1>7 DEF SendCall, Delivered, Call
  <2> QED BY <1>2, <1>7, <2>1 DEF SendCall, runs, workers
<1>8. ASSUME NEW c \in Calls, NEW a \in Ids, GiveUp(c, a) PROVE Counted'
  <2>1. Delivered
      BY <1>8 DEF GiveUp, Delivered, Call, Cancel
  <2> QED BY <1>2, <1>8, <2>1 DEF GiveUp, runs, workers
<1>9. ASSUME NEW c \in Calls, NEW a \in Ids, CallArrives(c, a) PROVE Counted'
  <2>1. /\ Call(c, a) \in net /\ net' = net \ {Call(c, a)} /\ att' = att /\ Place(c)
        /\ task[c] = "none"
      BY <1>9 DEF CallArrives, Known
  <2>2. Delivered
      BY <2>1 DEF Delivered
  <2>3. a \in Used(c)' /\ a \notin Used(c)
      BY <2>1 DEF Used, Counted
  <2>4. IsFiniteSet(Used(c)' \ {a}) /\ Cardinality(Used(c)' \ {a}) = Cardinality(Used(c)') - 1
      BY <2>2, <2>3, UsedGrows, FS_RemoveElement
  <2>5. Used(c) \subseteq Used(c)' \ {a}
      BY <2>2, <2>3, UsedGrows
  <2>6. Cardinality(Used(c)) + 1 <= Cardinality(Used(c)')
      BY <2>2, <2>4, <2>5, UsedGrows, FS_Subset, SMTT(25)
  <2>7. /\ entered'[c] + Ready(c)' <= entered[c] + Ready(c) + 1
        /\ \A d \in Calls \ {c} : entered'[d] = entered[d] /\ Ready(d)' = Ready(d)
      BY <1>1, <2>1 DEF Place, ServeInHost, workers
  <2> HIDE DEF KnownInv, Ready, ToEnter, PlainTypes, Placed
  <2>8. ASSUME NEW d \in Calls
        PROVE  /\ entered[d] \in Nat /\ entered'[d] \in Nat /\ Ready(d) \in Nat /\ Ready(d)' \in Nat
               /\ entered[d] + Ready(d) <= Cardinality(Used(d))
               /\ Cardinality(Used(d)) \in Nat /\ Cardinality(Used(d)') \in Nat
               /\ Cardinality(Used(d)) <= Cardinality(Used(d)')
               /\ \A b \in Ids : Call(d, b) \in net' => att'[d][b] # "idle"
      BY <1>1, <2>2, UsedGrows DEF Ready, Counted
  <2>9. ASSUME NEW d \in Calls PROVE entered'[d] + Ready(d)' <= Cardinality(Used(d)')
      BY <2>6, <2>7, <2>8
  <2> QED BY <2>8, <2>9 DEF Counted
<1>10. ASSUME NEW c \in Calls, NEW a \in Ids, CallAttaches(c, a) \/ CallAnswered(c, a)
       PROVE  Counted'
  <2>1. Delivered
      BY <1>10 DEF CallAttaches, CallAnswered, Delivered, Ends
  <2> QED BY <1>2, <1>10, <2>1 DEF CallAttaches, CallAnswered, runs, workers
<1>11. ASSUME NEW c \in Calls, CancelUnknown(c) \/ CancelTooLate(c) PROVE Counted'
  <2>1. Delivered
      BY <1>11 DEF CancelUnknown, CancelTooLate, Delivered
  <2> QED BY <1>2, <1>11, <2>1 DEF CancelUnknown, CancelTooLate, runs, workers
<1>12. ASSUME NEW c \in Calls, CancelRun(c) PROVE Counted'
  <2>1. net' \subseteq net /\ UNCHANGED <<wcall, entered>>
      BY <1>12 DEF CancelRun
  <2>2. CASE Finish({c}, "cancelled")
      BY <1>4, <2>1, <2>2 DEF Ends
  <2>3. CASE UNCHANGED <<att, task>>
    <3>1. Delivered
        BY <2>1, <2>3 DEF Delivered
    <3> QED BY <1>2, <2>1, <2>3, <3>1
  <2> QED BY <1>12, <2>2, <2>3 DEF CancelRun, runs
<1>13. ASSUME NEW c \in Calls, MethodEnds(c) \/ HostHears(c) PROVE Counted'
    BY <1>4, <1>13 DEF MethodEnds, HostHears, workers, Ends
<1>14. CASE OpenFailed \/ Reaped
    BY <1>4, <1>14 DEF OpenFailed, Reaped, workers, Ends
<1>15. CASE Opened
  <2>1. \A d \in Calls : entered'[d] + Ready(d)' <= entered[d] + Ready(d)
      BY <1>1, <1>15 DEF Opened, Opening, callers, workers
  <2> QED BY <1>5, <1>15, <2>1 DEF Opened, callers
<1>16. CASE WorkerStarted
  <2>1. \A d \in Calls : entered'[d] + Ready(d)' <= entered[d] + Ready(d)
      BY <1>1, <1>16 DEF WorkerStarted, Placing, callers
  <2> QED BY <1>5, <1>16, <2>1 DEF WorkerStarted, callers
<1>17. CASE StartFails
  <2>1. \A d \in Calls : entered'[d] + Ready(d)' <= entered[d] + Ready(d)
      BY <1>1, <1>17 DEF StartFails, ServeInHost, Placing, callers
  <2> QED BY <1>5, <1>17, <2>1 DEF StartFails, callers
<1>18. CASE WorkerOpens
  <2>1. \A d \in Calls : entered'[d] + Ready(d)' <= entered[d] + Ready(d)
      BY <1>1, <1>18 DEF WorkerOpens, WOpening, callers, runs
  <2> QED BY <1>5, <1>18, <2>1 DEF WorkerOpens, callers, runs
<1>19. CASE WorkerExits \/ ListenEnds
  <2>1. \A d \in Calls : entered'[d] + Ready(d)' <= entered[d] + Ready(d)
      BY <1>1, <1>19 DEF WorkerExits, ListenEnds, AtWorker, callers, runs
  <2> QED BY <1>5, <1>19, <2>1 DEF WorkerExits, ListenEnds, callers, runs
<1>20. ASSUME NEW c \in Calls, WorkerReceives(c) PROVE Counted'
  <2>1. \A d \in Calls : entered'[d] + Ready(d)' <= entered[d] + Ready(d)
      BY <1>1, <1>20 DEF WorkerReceives, callers, runs
  <2> QED BY <1>5, <1>20, <2>1 DEF WorkerReceives, callers, runs
<1>21. ASSUME NEW c \in Calls, WorkerCancels(c) PROVE Counted'
  <2>1. \A d \in Calls : entered'[d] + Ready(d)' <= entered[d] + Ready(d)
      BY <1>1, <1>21 DEF WorkerCancels, WOpening, callers, runs
  <2> QED BY <1>5, <1>21, <2>1 DEF WorkerCancels, callers, runs
<1>22. ASSUME NEW c \in Calls, WorkerAnswers(c) PROVE Counted'
  <2>1. \A d \in Calls : entered'[d] + Ready(d)' <= entered[d] + Ready(d)
      BY <1>1, <1>22 DEF WorkerAnswers, callers, runs
  <2> QED BY <1>5, <1>22, <2>1 DEF WorkerAnswers, callers, runs
<1> QED BY <1>6, <1>7, <1>8, <1>9, <1>10, <1>11, <1>12, <1>13, <1>14, <1>15, <1>16, <1>17, <1>18,
           <1>19, <1>20, <1>21, <1>22 DEF Next, CancelArrives
-----------------------------------------------------------------------------
(* What follows.                                                           *)

\* The invariant holds of every state of the host.
LEMMA CallsThen == Spec => []CallsInv
<1>1. CallsInv /\ [Next]_vars => CallsInv'
    BY KnownStep, KeptStep, CountStep DEF CallsInv
<1> QED BY <1>1, CallsInit, PTL DEF Spec

\* Entries are bounded by the attempts, as each is of a request that was taken.
LEMMA EntriesBounded == CallsInv => entered \in [Calls -> 0 .. Attempts]
<1> SUFFICES ASSUME CallsInv, NEW c \in Calls PROVE entered[c] \in 0 .. Attempts
    BY DEF CallsInv, KnownInv, PlainTypes
<1>1. IsFiniteSet(Ids) /\ Cardinality(Ids) = Attempts
    BY FS_Interval DEF Ids
<1>2. Cardinality(Used(c)) <= Attempts /\ Cardinality(Used(c)) \in Nat
    BY <1>1, FS_Subset, FS_CardinalityType DEF Used
<1>3. entered[c] \in Nat /\ Ready(c) \in Nat /\ entered[c] + Ready(c) <= Cardinality(Used(c))
    BY DEF CallsInv, KnownInv, PlainTypes, Counted, Ready
<1> QED BY <1>2, <1>3

\* The calls, runs, handlers and kept ends of the host (Host.calls, Host.finished) fit
\* together whatever arrives in whatever order, and the attempts of a call that is not
\* forgotten are told the same, for any calls, attempts, kept ends and starts.
THEOREM HostCorrect == Spec => []HostInv
<1>1. CallsInv => TypeOK
    BY EntriesBounded DEF CallsInv, KnownInv, KeptInv, PlainTypes, TypeOK
<1>2. CallsInv => OneAnswer
    BY DEF CallsInv, KnownInv, Answers, OneAnswer
<1> QED BY <1>1, <1>2, CallsThen, PTL DEF HostInv

\* The method of a call id is entered a second time only after the host forgot its run
\* (Host.call, Host._run and the worker's Host), for any attempts and worker deaths.
THEOREM HostRunsOnce == Spec => []RunsOnce
<1>1. CallsInv => RunsOnce
    BY DEF CallsInv, KnownInv, PlainTypes, Fresh, RunsOnce
<1> QED BY <1>1, CallsThen, PTL
-----------------------------------------------------------------------------
(* The stored files.  The types hold of containers that are open together    *)
(* too; the rest of one after another.                                       *)


Booting == {"pull", "seed", "unseeded"}

\* What a container has under way goes with how far it is; before it serves no call
\* has ended in it.
Stages ==
    \A b \in Boxes :
        /\ todo[b] # {} => phase[b] \in {"pull", "seed"}
        /\ copying[b] # {} => Seeding(b)
        /\ pushing[b] => Answering(b)
        /\ phase[b] \in Booting \cup {"off"} =>
              ~pending[b] /\ \A f \in Files : done[b][f] = 0
        /\ phase[b] = "off" => \A f \in Files : disk[b][f] = 0

TypeInv == DiskTypeOK /\ Stages

\* One container is open at a time.
OneOpen == \A b, c \in Boxes : Live(b) /\ Live(c) => b = c

\* The marker is beside a whole seed only.
Marked ==
    /\ marker => \A f \in Files : bucket[f] > 0
    /\ \A b \in Boxes : checked[b] = "marked" => marker

\* The disk of a container that boots has what was fetched; while the seed is copied
\* nothing else is in the bucket.
Fetched ==
    \A b \in Boxes, f \in Files :
        /\ phase[b] = "pull" /\ f \notin todo[b] => disk[b][f] = bucket[f]
        /\ phase[b] = "seed" /\ f \notin todo[b] => disk[b][f] = 1
        /\ Seeding(b) => bucket[f] = IF f \in copying[b] THEN 0 ELSE 1

\* The disk of one that answers is never behind the bucket.
Ahead ==
    \A b \in Boxes, f \in Files : Answering(b) => disk[b][f] > 0 /\ disk[b][f] >= bucket[f]

\* What a call has done and the bucket lacks is pending, or about to be sent.
Sent ==
    \A b \in Boxes, f \in Files :
        /\ Answering(b) /\ done[b][f] > bucket[f] => pending[b] \/ f \in sending[b]
        /\ phase[b] \in {"close", "push"} => asked[b][f] <= done[b][f]
        /\ phase[b] = "push" /\ asked[b][f] > bucket[f] => f \in sending[b]
        /\ phase[b] = "closed" => asked[b][f] <= bucket[f]

FilesInv == TypeInv /\ OneOpen /\ Marked /\ Fetched /\ Ahead /\ Sent
-----------------------------------------------------------------------------
(* Types, whether containers are open one after another or together.       *)

USE DiskAssumption

\* The initial state has the types, and no container in it has begun anything.
LEMMA TypeInit == DiskInit => TypeInv
<1> SUFFICES ASSUME DiskInit PROVE TypeInv
    OBVIOUS
<1> USE DEF DiskInit, None, Versions, Phases
<1>1. DiskTypeOK
  <2>1. None \in [Files -> 0 .. MaxVersion]
      OBVIOUS
  <2>2. \A b \in Boxes, f \in Files : done[b][f] <= disk[b][f]
      OBVIOUS
  <2>3. 0 \in 0 .. MaxFailures
      OBVIOUS
  <2> HIDE DEF None
  <2> QED BY <2>1, <2>2, <2>3 DEF DiskTypeOK
<1>2. Stages
    BY DEF Stages, Booting, Answering, Seeding
<1> QED BY <1>1, <1>2 DEF TypeInv

\* Every step keeps the types and what goes with each stage of a container.
LEMMA TypeStep == TypeInv /\ [DiskNext]_diskVars => TypeInv'
<1> SUFFICES ASSUME TypeInv, [DiskNext]_diskVars PROVE TypeInv'
    OBVIOUS
<1> USE DEF TypeInv, DiskTypeOK, Stages, Versions, Phases, Booting, Answering, Seeding
<1>0. CASE UNCHANGED diskVars
    BY <1>0 DEF diskVars, boxVars
<1>1. ASSUME NEW b \in Boxes, Boot(b) PROVE TypeInv'
    BY <1>1 DEF Boot, Stored
<1>2. ASSUME NEW b \in Boxes, CheckMarker(b) PROVE TypeInv'
    BY <1>2 DEF CheckMarker
<1>3. ASSUME NEW b \in Boxes, WriteMarker(b) PROVE TypeInv'
    BY <1>3 DEF WriteMarker, Seeded, boxVars
<1>4. ASSUME NEW b \in Boxes, Serve(b) PROVE TypeInv'
    BY <1>4 DEF Serve, MayServe, Seeded
<1>5. ASSUME NEW b \in Boxes, PushDue(b) PROVE TypeInv'
    BY <1>5 DEF PushDue, StartPush, Differing
<1>6. ASSUME NEW b \in Boxes, PushSucceeds(b) PROVE TypeInv'
    BY <1>6 DEF PushSucceeds, StillPending
<1>7. ASSUME NEW b \in Boxes, PushFails(b) PROVE TypeInv'
    BY <1>7 DEF PushFails, PendingAgain, Unsent
<1>8. ASSUME NEW b \in Boxes, Shutdown(b) PROVE TypeInv'
    BY <1>8 DEF Shutdown
<1>9. ASSUME NEW b \in Boxes, FinalPush(b) PROVE TypeInv'
  <2>1. /\ phase[b] = "close" /\ phase' = [phase EXCEPT ![b] = "push"]
        /\ pushing' = [pushing EXCEPT ![b] = TRUE] /\ pending' = [pending EXCEPT ![b] = FALSE]
        /\ sending' = [sending EXCEPT ![b] = Differing(b)]
        /\ UNCHANGED <<bucket, marker, disk, todo, copying, checked, writing, done, failures,
                       asked>>
      BY <1>9 DEF FinalPush, FinalPushes, StartPush
  <2> QED BY <2>1 DEF Differing
<1>10. ASSUME NEW b \in Boxes, Exit(b) PROVE TypeInv'
    BY <1>10 DEF Exit
<1>11. ASSUME NEW b \in Boxes, Die(b) PROVE TypeInv'
    BY <1>11 DEF Die, Live
<1>12. ASSUME NEW b \in Boxes, NEW f \in Files, PullFile(b, f) PROVE TypeInv'
    BY <1>12 DEF PullFile
<1>13. ASSUME NEW b \in Boxes, NEW f \in Files, CopyFile(b, f) PROVE TypeInv'
    BY <1>13 DEF CopyFile
<1>14. ASSUME NEW b \in Boxes, NEW f \in Files, CallWrites(b, f) PROVE TypeInv'
    BY <1>14 DEF CallWrites
<1>15. ASSUME NEW b \in Boxes, NEW f \in Files, CallEnds(b, f) PROVE TypeInv'
    BY <1>15 DEF CallEnds
<1>16. ASSUME NEW b \in Boxes, NEW f \in Files, PushFile(b, f) PROVE TypeInv'
    BY <1>16 DEF PushFile
<1>17. ASSUME NEW b \in Boxes, SeedPullFails(b) PROVE TypeInv'
    BY <1>17 DEF SeedPullFails
<1>18. ASSUME NEW b \in Boxes, NEW f \in Files, CallCancelled(b, f) PROVE TypeInv'
    BY <1>18 DEF CallCancelled
<1> HIDE DEF TypeInv
<1> QED BY <1>0, <1>1, <1>2, <1>3, <1>4, <1>5, <1>6, <1>7, <1>8, <1>9, <1>10,
           <1>11, <1>12, <1>13, <1>14, <1>15, <1>16, <1>17, <1>18 DEF DiskNext

-----------------------------------------------------------------------------
(* One container after another.                                            *)

\* The initial state: an empty prefix and no container.
LEMMA FilesInit == DiskInit => FilesInv
<1> SUFFICES ASSUME DiskInit PROVE FilesInv
    OBVIOUS
<1>1. TypeInv
    BY TypeInit
<1>2. OneOpen /\ Marked /\ Fetched /\ Ahead /\ Sent
    BY DEF DiskInit, None, OneOpen, Marked, Fetched, Ahead, Sent, Live, Answering, Seeding
<1> QED BY <1>1, <1>2 DEF FilesInv

\* Every step of containers that are opened one after another keeps the invariant.
LEMMA FilesStep ==
    ASSUME ~Together
    PROVE  FilesInv /\ [DiskNext]_diskVars => FilesInv'
<1> SUFFICES ASSUME FilesInv, [DiskNext]_diskVars PROVE FilesInv'
    OBVIOUS
<1> USE DEF FilesInv
<1>t. TypeInv'
    BY TypeStep
<1> DEFINE Rest == OneOpen /\ Marked /\ Fetched /\ Ahead /\ Sent
<1> SUFFICES Rest'
    BY <1>t
<1> USE DEF TypeInv, DiskTypeOK, Stages, Versions, Phases, Booting, Answering,
            OneOpen, Marked, Fetched, Ahead, Sent, Live, Seeding
<1>0. CASE UNCHANGED diskVars
    BY <1>0 DEF diskVars, boxVars
<1>1. ASSUME NEW b \in Boxes, Boot(b) PROVE Rest'
    BY <1>1 DEF Boot, Stored
<1>2. ASSUME NEW b \in Boxes, CheckMarker(b) PROVE Rest'
    BY <1>2 DEF CheckMarker
<1>3. ASSUME NEW b \in Boxes, WriteMarker(b) PROVE Rest'
    BY <1>3 DEF WriteMarker, Seeded, boxVars
<1>4. ASSUME NEW b \in Boxes, Serve(b) PROVE Rest'
  <2> USE <1>4 DEF Serve
  <2>1. \A f \in Files : disk[b][f] > 0 /\ disk[b][f] >= bucket[f]
      BY DEF MayServe, Seeded
  <2>2. OneOpen' /\ Marked' /\ Fetched'
      OBVIOUS
  <2>3. Ahead'
      BY <2>1
  <2>4. Sent'
      OBVIOUS
  <2> QED BY <2>2, <2>3, <2>4
<1>5. ASSUME NEW b \in Boxes, PushDue(b) PROVE Rest'
    BY <1>5 DEF PushDue, StartPush, Differing
<1>6. ASSUME NEW b \in Boxes, PushSucceeds(b) PROVE Rest'
    BY <1>6 DEF PushSucceeds, StillPending
<1>7. ASSUME NEW b \in Boxes, PushFails(b) PROVE Rest'
    BY <1>7 DEF PushFails, PendingAgain, Unsent
<1>8. ASSUME NEW b \in Boxes, Shutdown(b) PROVE Rest'
    BY <1>8 DEF Shutdown
<1>9. ASSUME NEW b \in Boxes, FinalPush(b) PROVE Rest'
    BY <1>9 DEF FinalPush, FinalPushes, StartPush, Differing
<1>10. ASSUME NEW b \in Boxes, Exit(b) PROVE Rest'
    BY <1>10 DEF Exit
<1>11. ASSUME NEW b \in Boxes, Die(b) PROVE Rest'
    BY <1>11 DEF Die
<1>12. ASSUME NEW b \in Boxes, NEW f \in Files, PullFile(b, f) PROVE Rest'
    BY <1>12 DEF PullFile
<1>13. ASSUME NEW b \in Boxes, NEW f \in Files, CopyFile(b, f) PROVE Rest'
  <2> USE <1>13 DEF CopyFile
  <2>1. Seeding(b) /\ bucket[f] = 0 /\ \A c \in Boxes : Live(c) => c = b
      OBVIOUS
  <2>2. OneOpen'
      OBVIOUS
  <2>3. Marked'
      BY <2>1
  <2>4. Fetched'
    <3>1. \A c \in Boxes : c # b => ~(phase[c] \in Booting)
        BY <2>1
    <3>2. /\ Fetched /\ phase' = phase /\ todo' = todo /\ disk' = disk
          /\ copying[b]' = copying[b] \ {f}
          /\ bucket' = [bucket EXCEPT ![f] = 1] /\ bucket \in [Files -> Nat]
        OBVIOUS
    <3> HIDE DEF FilesInv, TypeInv, DiskTypeOK, Stages, OneOpen, Marked, Ahead, Sent, CopyFile
    <3> QED BY <2>1, <3>1, <3>2
  <2>5. Ahead'
      BY <2>1
  <2>6. \A g \in Files : bucket'[g] >= bucket[g] /\ bucket[g] \in Nat /\ bucket'[g] \in Nat
      BY <2>1
  <2>7. \A c \in Boxes : ~Answering(c) /\ ~(phase[c] \in {"close", "push"})
      BY <2>1
  <2>8. Sent /\ (\A c \in Boxes, g \in Files : asked[c][g] \in Nat) /\ phase' = phase /\ asked' = asked
      OBVIOUS
  <2>9. Sent'
    <3> HIDE DEF FilesInv, TypeInv, DiskTypeOK, Stages, OneOpen, Marked, Fetched, Ahead, CopyFile
    <3> QED BY <2>6, <2>7, <2>8
  <2> QED BY <2>2, <2>3, <2>4, <2>5, <2>9
<1>14. ASSUME NEW b \in Boxes, NEW f \in Files, CallWrites(b, f) PROVE Rest'
    BY <1>14 DEF CallWrites
<1>15. ASSUME NEW b \in Boxes, NEW f \in Files, CallEnds(b, f) PROVE Rest'
    BY <1>15 DEF CallEnds
<1>16. ASSUME NEW b \in Boxes, NEW f \in Files, PushFile(b, f) PROVE Rest'
  <2> USE <1>16 DEF PushFile
  <2>1. Answering(b) /\ disk[b][f] >= bucket[f] /\ \A c \in Boxes : Live(c) => c = b
      OBVIOUS
  <2>2. OneOpen'
      OBVIOUS
  <2>3. Marked'
      BY <2>1
  <2>4. Fetched'
    <3>1. \A c \in Boxes : ~(phase'[c] \in Booting)
        BY <2>1
    <3> HIDE DEF FilesInv, TypeInv, DiskTypeOK, Stages, OneOpen, Marked, Ahead, Sent, PushFile
    <3> QED BY <3>1
  <2>5. Ahead'
    <3>1. Ahead /\ disk' = disk /\ phase' = phase /\ bucket' = [bucket EXCEPT ![f] = disk[b][f]]
        OBVIOUS
    <3>2. bucket \in [Files -> Nat] /\ \A c \in Boxes, g \in Files : disk[c][g] \in Nat
        OBVIOUS
    <3>3. \A c \in Boxes : Answering(c) => c = b
        BY <2>1
    <3> HIDE DEF FilesInv, TypeInv, DiskTypeOK, Stages, OneOpen, Marked, Fetched, Sent, PushFile
    <3> QED BY <3>1, <3>2, <3>3
  <2>6. \A g \in Files : bucket'[g] >= bucket[g] /\ bucket[g] \in Nat /\ bucket'[g] \in Nat
    <3>1. bucket' = [bucket EXCEPT ![f] = disk[b][f]] /\ bucket \in [Files -> Nat]
          /\ disk[b][f] \in Nat
        OBVIOUS
    <3> HIDE DEF FilesInv, PushFile
    <3> QED BY <2>1, <3>1
  <2>7. bucket'[f] = disk[b][f] /\ disk[b][f] >= done[b][f] /\ sending[b]' = sending[b] \ {f}
      BY <2>1
  <2>8. \A g \in Files : g # f => bucket'[g] = bucket[g]
      OBVIOUS
  <2>9. \A c \in Boxes : phase[c] # "off" /\ ~(phase[c] \in {"closed", "unsaved", "dead"}) => c = b
      BY <2>1
  <2>10. /\ Sent /\ phase' = phase /\ asked' = asked /\ done' = done /\ pending' = pending
         /\ \A c \in Boxes, g \in Files : asked[c][g] \in Nat /\ done[c][g] \in Nat
      OBVIOUS
  <2>11. Sent'
    <3> HIDE DEF FilesInv, TypeInv, DiskTypeOK, Stages, OneOpen, Marked, Fetched, Ahead, PushFile
    <3> QED BY <2>6, <2>7, <2>8, <2>9, <2>10
  <2> QED BY <2>2, <2>3, <2>4, <2>5, <2>11
<1>17. ASSUME NEW b \in Boxes, SeedPullFails(b) PROVE Rest'
    BY <1>17 DEF SeedPullFails
<1>18. ASSUME NEW b \in Boxes, NEW f \in Files, CallCancelled(b, f) PROVE Rest'
    BY <1>18 DEF CallCancelled
<1> HIDE DEF Rest
<1> QED BY <1>0, <1>1, <1>2, <1>3, <1>4, <1>5, <1>6, <1>7, <1>8, <1>9, <1>10,
           <1>11, <1>12, <1>13, <1>14, <1>15, <1>16, <1>17, <1>18 DEF DiskNext

\* With the invariant no step puts an older version of a file into the bucket: a seed
\* is copied into an empty prefix only, and a push sends what is not behind it.
LEMMA NeverOlderStep ==
    FilesInv /\ [DiskNext]_diskVars => \A f \in Files : bucket'[f] >= bucket[f]
<1> SUFFICES ASSUME FilesInv, [DiskNext]_diskVars, NEW f \in Files
             PROVE  bucket'[f] >= bucket[f]
    OBVIOUS
<1> USE DEF FilesInv
<1>1. bucket \in [Files -> Nat] /\ bucket[f] >= bucket[f]
    BY DEF TypeInv, DiskTypeOK, Versions
<1>2. CASE UNCHANGED bucket
    BY <1>1, <1>2
<1>3. ASSUME NEW b \in Boxes, NEW g \in Files, CopyFile(b, g) PROVE bucket'[f] >= bucket[f]
  <2>1. bucket[g] = 0
      BY <1>3 DEF CopyFile, Fetched, TypeInv, Stages, Seeding
  <2> QED BY <1>1, <1>3, <2>1 DEF CopyFile
<1>4. ASSUME NEW b \in Boxes, NEW g \in Files, PushFile(b, g) PROVE bucket'[f] >= bucket[f]
  <2>1. disk[b][g] >= bucket[g]
      BY <1>4 DEF PushFile, Ahead, TypeInv, DiskTypeOK, Stages
  <2> QED BY <1>1, <1>4, <2>1 DEF PushFile
<1>5. CASE \E b \in Boxes, g \in Files : CopyFile(b, g) \/ PushFile(b, g)
    BY <1>3, <1>4, <1>5
<1> QED
    BY <1>2, <1>5 DEF DiskNext, diskVars, boxVars, Boot, CheckMarker, WriteMarker, Serve, PushDue,
       PushSucceeds, PushFails, Shutdown, FinalPush, Exit, Die, PullFile, CallWrites, CallEnds,
       CallCancelled, SeedPullFails

\* The invariant says what the runs check: what is neither pending nor being pushed is
\* stored, and so is all that was done in a container whose final push exited 0.
LEMMA FilesThen == FilesInv => DiskInv /\ ServesWhole
<1> SUFFICES ASSUME FilesInv PROVE DiskInv /\ ServesWhole
    OBVIOUS
<1> USE DEF FilesInv, TypeInv
<1>1. \A f \in Files, b \in Boxes :
         bucket[f] \in Nat /\ done[b][f] \in Nat /\ asked[b][f] \in Nat
    BY DEF DiskTypeOK, Versions
<1>2. PendingIsHonest
  <2>1. \A b \in Boxes, f \in Files : f \in sending[b] => pushing[b]
      BY DEF DiskTypeOK
  <2> QED BY <1>1, <2>1 DEF PendingIsHonest, Sent, Answering
<1>3. CloseStores
    BY <1>1 DEF CloseStores, StoredSinceAsked, Sent
<1>4. ServesWhole
    BY DEF ServesWhole, Ahead
<1> QED BY <1>2, <1>3, <1>4 DEF DiskInv

-----------------------------------------------------------------------------
(* Theorems.                                                               *)

\* sandbox/host.py, sandbox/entry.py: the state of the bucket and of every container
\* stays well formed, for containers that are open together too.
THEOREM DiskTypes == DiskSpec => []DiskTypeOK
<1>1. TypeInv => DiskTypeOK
    BY DEF TypeInv
<1> QED BY <1>1, TypeInit, TypeStep, PTL DEF DiskSpec

\* Host._pending and Host.shutdown, for containers opened one after another: "nothing
\* pending" means that all calls that ended by themselves are stored, and a host whose
\* final push exited 0 has stored what was done when its shutdown began.
THEOREM StoredAndHonest ==
    ASSUME ~Together
    PROVE  DiskSpec => []DiskInv
<1> QED BY FilesInit, FilesStep, FilesThen, PTL DEF DiskSpec

\* entry.restore, for containers opened one after another: one that serves holds every file
\* of the workspace, wherever an earlier one was cut off.
THEOREM WholeWorkspace ==
    ASSUME ~Together
    PROVE  DiskSpec => []ServesWhole
<1> QED BY FilesInit, FilesStep, FilesThen, PTL DEF DiskSpec

\* entry.restore and Host.push_now, for containers opened one after another: no object of
\* the prefix is ever replaced by an older version.
THEOREM NoStepBack ==
    ASSUME ~Together
    PROVE  DiskSpec => NeverOlder
<1>1. FilesInv /\ [DiskNext]_diskVars => [\A f \in Files : bucket'[f] >= bucket[f]]_diskVars
    BY NeverOlderStep
<1> QED BY <1>1, FilesInit, FilesStep, PTL DEF DiskSpec, NeverOlder
=============================================================================
