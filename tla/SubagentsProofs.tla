---------------------------- MODULE SubagentsProofs ----------------------------
(* What holds of a thread that delegates for any children, messages and stops, *)
(* with proofs: no report goes before the end it tells of, and a cancel that    *)
(* returns has reached the children that were at work when it was called.       *)
EXTENDS Subagents, TLAPS

-----------------------------------------------------------------------------
(* The invariant.                                                          *)

Wheres    == {"closed", "waiting", "recorded", "cascading"} \cup Working \cup Final
Ats       == {"off", "ask", "record", "list", "next", "done"}
CancelSet == [at : Ats, of : Threads, todo : SUBSET Kids]
Mail      == Reports \cup {Brief}

\* The types; a child counts its messages: each of its runs takes one at least, and it
\* was given a brief and what it was told since.
Shapes ==
    /\ status \in [Threads -> {"none", "idle", "active", "cancelled"}]
    /\ linked \subseteq {k \in Kids : status[k] # "none"}
    /\ finished \subseteq Reports
    /\ stored \subseteq Mail /\ fresh \subseteq Mail /\ dropped \subseteq Reports
    /\ wf \in [Threads -> Wheres]
    /\ wf[Root] # "notify" /\ \A k \in Kids : wf[k] # "cascading"
    /\ recording \subseteq {t \in Threads : wf[t] \in Final \cup {"recorded", "cascading"}}
    /\ asked \in [Threads -> {"no", "yes", "seen"}]
    /\ \A t \in Threads : wf[t] = "closed" => asked[t] = "no"
    /\ inbox \in [kid : [Kids -> Nat], root : SUBSET Mail]
    /\ run \in [Kids -> Nat]
    /\ spawning \subseteq linked
    /\ sent \in 0 .. MaxUser /\ told \in 0 .. MaxTold /\ hit \subseteq Threads

CancelTypes == cancel \in [Cancels -> CancelSet]

Sending(k) == IF k \in spawning THEN 1 ELSE 0
Counted == \A k \in Kids : run[k] + inbox.kid[k] + Sending(k) <= 1 + told

\* A child at work is in a run of its own, that its row says; one at its handler has
\* finished that run.
AtWork ==
    \A k \in Kids :
        /\ wf[k] \in Working \cup Final => run[k] > 0
        /\ wf[k] \in Working => k \in linked
        /\ wf[k] = "notify" => <<k, run[k]>> \in finished
        /\ wf[k] # "closed" => run[k] > 0 \/ inbox.kid[k] > 0

Told == (inbox.root \cup fresh \cup stored \cup dropped) \ {Brief} \subseteq finished

TypeInv == Shapes /\ CancelTypes /\ Counted /\ AtWork /\ Told

\* A child whose row is written and whose brief is not sent has not begun, and no cancel
\* follows it.
Unbegun ==
    \A k \in spawning :
        /\ status[k] = "idle" /\ wf[k] = "closed" /\ run[k] = 0
        /\ \A p \in Cancels : k \notin cancel[p].todo /\ cancel[p].of # k

\* Where the three cancels stand: the user's begins with Root, Root's own with its list,
\* and stop_subagent names a child of its own.
Cancelling ==
    /\ cancel["user"].at \in {"off", "ask", "list"} => cancel["user"].of = Root
    /\ cancel["user"].at = "off" => open = {}
    /\ cancel["cascade"].at \in {"off", "list", "next", "record"}
    /\ cancel["cascade"].at \in {"off", "list"} => cancel["cascade"].of = Root
    /\ cancel["cascade"].at = "record" => cancel["cascade"].of # Root
    /\ cancel["cascade"].at = "off" <=> wf[Root] # "cascading"
    /\ cancel["stop"].at \in {"off", "ask", "record", "next"}
    /\ cancel["stop"].at # "off" => cancel["stop"].of \in stopped
    /\ cancel["stop"].todo = {} /\ stopped \subseteq Kids
    /\ \A p \in Cancels : /\ cancel[p].todo \subseteq linked
                          /\ cancel[p].of = Root \/ status[cancel[p].of] # "none"

\* The child Root's own cancel has come to is asked, or has no execution; while Root
\* cascades nobody opens one.
Cascaded ==
    cancel["cascade"].at = "record" =>
        LET k == cancel["cascade"].of IN wf[k] = "closed" \/ asked[k] # "no"

\* A child at work that no cancel has reached is active in its row, so that a list of
\* the rows finds it.
Unasked(k) == wf[k] \in Working /\ asked[k] = "no" /\ k \notin stopped
Found == cancel["user"].at = "off" => \A k \in Kids : Unasked(k) => status[k] = "active"

\* Of the children that were open when the user's cancel began, one that is at work on
\* that run and not yet asked is still to be listed, or is on the list.
Listing  == \/ cancel["user"].at \in {"ask", "list"}
            \/ cancel["user"].at = "record" /\ cancel["user"].of = Root
Listed   == cancel["user"].at \in {"next", "record"} /\ ~Listing
Followed ==
    \A o \in open :
        /\ o.kid \in Kids /\ o.run \in Nat /\ o.run <= run[o.kid]
        /\ Unasked(o.kid) /\ run[o.kid] = o.run /\ o.phase \in Working =>
              \/ Listing /\ status[o.kid] = "active"
              \/ Listed /\ o.kid \in cancel["user"].todo
              \/ cancel["user"].at = "done"

CancelInv == Unbegun /\ Cancelling /\ Cascaded /\ Found /\ Followed
DelegateInv == TypeInv /\ CancelInv
-----------------------------------------------------------------------------
(* Types and reports.                                                      *)

USE SubagentAssumption

\* A run of a child is one its messages account for.
LEMMA RunsBounded ==
    ASSUME Shapes, Counted, NEW k \in Kids
    PROVE  /\ run[k] \in 0 .. 1 + MaxTold /\ inbox.kid[k] \in 0 .. 1 + MaxTold
           /\ run[k] > 0 => <<k, run[k]>> \in Reports
<1>1. run[k] \in Nat /\ inbox.kid[k] \in Nat /\ Sending(k) \in Nat /\ told \in 0 .. MaxTold
    BY DEF Shapes, Sending
<1>2. run[k] + inbox.kid[k] + Sending(k) <= 1 + told
    BY DEF Counted
<1>3. run[k] \in 0 .. 1 + MaxTold /\ inbox.kid[k] \in 0 .. 1 + MaxTold
    BY <1>1, <1>2
<1> QED BY <1>3 DEF Reports

\* The initial state.
LEMMA TypeInit == Init => TypeInv
<1> SUFFICES ASSUME Init PROVE TypeInv
    OBVIOUS
<1> USE DEF Init, Threads
<1>1. Shapes /\ CancelTypes
    BY DEF Shapes, CancelTypes, Off, CancelSet, Ats, Wheres, Mail, Reports, Working, Final
<1>2. Counted /\ AtWork /\ Told
    BY DEF Counted, Sending, AtWork, Told, Working, Final
<1> QED BY <1>1, <1>2 DEF TypeInv

\* Every step keeps the shapes.
LEMMA ShapesStep == TypeInv /\ [Next]_vars => Shapes'
<1> SUFFICES ASSUME Shapes, CancelTypes, Counted, AtWork, [Next]_vars PROVE Shapes'
    BY DEF TypeInv
<1>c. ASSUME NEW p \in Cancels PROVE cancel[p].of \in Threads /\ cancel[p].todo \subseteq Kids
    BY DEF CancelTypes, CancelSet
<1>r. ASSUME NEW k \in Kids, run[k] > 0 PROVE <<k, run[k]>> \in Reports
    BY <1>r, RunsBounded
<1>l. \A m \in SUBSET Mail : m \ {Brief} \subseteq Reports
    BY DEF Mail
<1> USE DEF Shapes, Threads, Working, Final, Wheres, rows, clients, history
<1>0. CASE UNCHANGED vars
    BY <1>0 DEF vars
<1>1. ASSUME NEW t \in Threads, StartRun(t) PROVE Shapes'
    BY <1>1, <1>l DEF StartRun, Loses, ActiveRow, HasMail
<1>2. ASSUME NEW t \in Threads, TurnEnds(t) PROVE Shapes'
    BY <1>2 DEF TurnEnds
<1>21. ASSUME NEW t \in Threads, TurnFails(t) PROVE Shapes'
  <2>1. TurnStops(t) /\ UNCHANGED <<status, linked, finished, recording, asked, inbox, run, clients, hit>>
      BY <1>21 DEF TurnFails
  <2>2. stored' \subseteq Mail /\ fresh' \subseteq Mail /\ dropped' \subseteq Reports
      BY <2>1, <1>l DEF TurnStops, Loses
  <2> QED BY <2>1, <2>2 DEF TurnStops
<1>3. ASSUME NEW t \in Threads, ToolsEnd(t) PROVE Shapes'
    BY <1>3 DEF ToolsEnd
<1>4. ASSUME NEW t \in Threads, FinishRun(t) PROVE Shapes'
    BY <1>4, <1>r DEF AtWork, FinishRun, AfterRun, Reaches, Onward, HasMail, Ended
<1>26. ASSUME NEW t \in Threads, StartAborted(t) PROVE Shapes'
    BY <1>26 DEF StartAborted, ActiveRow, HasMail, NoMail
<1>5. ASSUME NEW t \in Threads, SeeCancel(t) PROVE Shapes'
  <2>1. CASE wf[t] = "turn"
    <3>1. /\ TurnStops(t) /\ asked' = [asked EXCEPT ![t] = "seen"]
          /\ UNCHANGED <<status, linked, finished, recording, inbox, run, clients, hit>>
        BY <1>5, <2>1 DEF SeeCancel
    <3>2. stored' \subseteq Mail /\ fresh' \subseteq Mail /\ dropped' \subseteq Reports
        BY <3>1, <1>l DEF TurnStops, Loses
    <3> QED BY <2>1, <3>1, <3>2 DEF TurnStops
  <2>2. CASE wf[t] # "turn"
      BY <1>5, <2>2 DEF SeeCancel, NoMail
  <2> QED BY <2>1, <2>2
<1>6. ASSUME NEW t \in Threads, ApplyCancellation(t) PROVE Shapes'
    BY <1>6 DEF ApplyCancellation, NoMail, Goes
<1>7. ASSUME NEW k \in Kids, HandlerReports(k) PROVE Shapes'
    BY <1>7, <1>r DEF AtWork, Mail, HandlerReports, AfterRun, Reaches, Onward, HasMail
<1>8. ASSUME NEW k \in Kids, FinalizeAgain(k) PROVE Shapes'
    BY <1>8 DEF FinalizeAgain
<1>9. ASSUME NEW k \in Kids, SpawnRow(k) PROVE Shapes'
    BY <1>9 DEF SpawnRow, Delegates, Unspawned
<1>10. ASSUME NEW k \in Kids, SpawnStart(k) PROVE Shapes'
    BY <1>10 DEF SpawnStart, Tell, Opens
<1>11. ASSUME NEW k \in Kids, SpawnDies(k) PROVE Shapes'
    BY <1>11 DEF SpawnDies
<1>12. ASSUME NEW k \in Kids, SpawnDirect(k) PROVE Shapes'
    BY <1>12 DEF SpawnDirect, Delegates, Unspawned, Tell, Opens
<1>13. ASSUME NEW k \in Kids, MessageKid(k) PROVE Shapes'
    BY <1>13 DEF MessageKid, Tell, Opens
<1>14. ASSUME NEW k \in Kids, StopKid(k) PROVE Shapes'
    BY <1>14 DEF StopKid
<1>15. ASSUME NEW p \in Cancels, CancelAsk(p) PROVE Shapes'
    BY <1>15, <1>c DEF CancelAsk, Goes, Ask
<1>16. ASSUME NEW p \in Cancels, CancelRecord(p) PROVE Shapes'
    BY <1>16, <1>c DEF CancelRecord, Goes
<1>17. ASSUME NEW p \in Cancels, CancelList(p) PROVE Shapes'
    BY <1>17 DEF CancelList, ActiveKids
<1>18. ASSUME NEW p \in Cancels, CancelReturns(p) PROVE Shapes'
    BY <1>18, <1>c DEF CancelReturns, Returns
<1>19. CASE UserSends
  <2>1. /\ inbox' = [inbox EXCEPT !.root = @ \cup {Brief}] /\ sent < MaxUser /\ sent' = sent + 1
        /\ wf' = [wf EXCEPT ![Root] = IF @ = "closed" THEN "waiting" ELSE @]
        /\ UNCHANGED <<rows, recording, asked, fresh, run, spawning, cancel, told, history>>
      BY <1>19 DEF UserSends, Opens
  <2>2. inbox' \in [kid : [Kids -> Nat], root : SUBSET Mail] /\ sent' \in 0 .. MaxUser
      BY <2>1 DEF Mail
  <2> QED BY <2>1, <2>2
<1>20. CASE UserCancels
    BY <1>20 DEF UserCancels, Goes
<1>22. ASSUME NEW t \in Threads, Workflow(t) PROVE Shapes'
    BY <1>22, <1>1, <1>2, <1>21, <1>3, <1>4, <1>5, <1>6, <1>26 DEF Workflow
<1>23. ASSUME NEW k \in Kids, Handler(k) PROVE Shapes'
    BY <1>23, <1>7, <1>8 DEF Handler
<1>24. ASSUME NEW k \in Kids, Tool(k) PROVE Shapes'
    BY <1>24, <1>9, <1>10, <1>11, <1>12, <1>13, <1>14 DEF Tool
<1>25. ASSUME NEW p \in Cancels, Cancel(p) PROVE Shapes'
    BY <1>25, <1>15, <1>16, <1>17, <1>18 DEF Cancel
<1> QED BY <1>0, <1>19, <1>20, <1>22, <1>23, <1>24, <1>25 DEF Next

\* What a step does to the cancels: one is changed, to a cancel.
LEMMA OneCancel ==
    ASSUME CancelTypes, NEW p \in Cancels, NEW c \in CancelSet, cancel' = [cancel EXCEPT ![p] = c]
    PROVE  /\ CancelTypes' /\ cancel'[p] = c
           /\ \A q \in Cancels \ {p} : cancel'[q] = cancel[q]
BY DEF CancelTypes

\* A cancel that only goes on.
LEMMA CancelGoes ==
    ASSUME CancelTypes, NEW p \in Cancels, NEW to \in Ats, Goes(p, to)
    PROVE  /\ CancelTypes' /\ cancel'[p] = [at |-> to, of |-> cancel[p].of, todo |-> cancel[p].todo]
           /\ \A q \in Cancels \ {p} : cancel'[q] = cancel[q]
BY DEF CancelTypes, CancelSet, Goes

\* Every step keeps the count.
LEMMA CountStep == Shapes /\ Counted /\ [Next]_vars => Counted'
<1> SUFFICES ASSUME Shapes, Counted, [Next]_vars PROVE Counted'
    OBVIOUS
<1> USE DEF Shapes, Counted, Sending, Threads, rows, clients, history
<1>0. CASE UNCHANGED vars
    BY <1>0 DEF vars
<1>1. ASSUME NEW t \in Threads, StartRun(t) PROVE Counted'
    BY <1>1 DEF StartRun, Loses, ActiveRow, HasMail
<1>2. ASSUME NEW t \in Threads, TurnEnds(t) PROVE Counted'
    BY <1>2 DEF TurnEnds
<1>21. ASSUME NEW t \in Threads, TurnFails(t) PROVE Counted'
    BY <1>21 DEF TurnFails, TurnStops, Loses
<1>3. ASSUME NEW t \in Threads, ToolsEnd(t) PROVE Counted'
    BY <1>3 DEF ToolsEnd
<1>4. ASSUME NEW t \in Threads, FinishRun(t) PROVE Counted'
    BY <1>4 DEF FinishRun, AfterRun, Reaches, Onward, HasMail, Ended
<1>26. ASSUME NEW t \in Threads, StartAborted(t) PROVE Counted'
    BY <1>26 DEF StartAborted, ActiveRow, HasMail, NoMail
<1>5. ASSUME NEW t \in Threads, SeeCancel(t) PROVE Counted'
    BY <1>5 DEF SeeCancel, TurnStops, Loses, NoMail
<1>6. ASSUME NEW t \in Threads, ApplyCancellation(t) PROVE Counted'
    BY <1>6 DEF ApplyCancellation, NoMail, Goes
<1>7. ASSUME NEW k \in Kids, HandlerReports(k) PROVE Counted'
    BY <1>7 DEF HandlerReports, AfterRun, Reaches, Onward, HasMail
<1>8. ASSUME NEW k \in Kids, FinalizeAgain(k) PROVE Counted'
    BY <1>8 DEF FinalizeAgain
<1>9. ASSUME NEW k \in Kids, SpawnRow(k) PROVE Counted'
    BY <1>9 DEF SpawnRow, Delegates, Unspawned
<1>10. ASSUME NEW k \in Kids, SpawnStart(k) PROVE Counted'
    BY <1>10 DEF SpawnStart, Tell, Opens
<1>11. ASSUME NEW k \in Kids, SpawnDies(k) PROVE Counted'
    BY <1>11 DEF SpawnDies
<1>12. ASSUME NEW k \in Kids, SpawnDirect(k) PROVE Counted'
    BY <1>12 DEF SpawnDirect, Delegates, Unspawned, Tell, Opens
<1>13. ASSUME NEW k \in Kids, MessageKid(k) PROVE Counted'
    BY <1>13 DEF MessageKid, Tell, Opens
<1>14. ASSUME NEW k \in Kids, StopKid(k) PROVE Counted'
    BY <1>14 DEF StopKid
<1>15. ASSUME NEW p \in Cancels, CancelAsk(p) PROVE Counted'
    BY <1>15 DEF CancelAsk, Goes, Ask
<1>16. ASSUME NEW p \in Cancels, CancelRecord(p) PROVE Counted'
    BY <1>16 DEF CancelRecord, Goes
<1>17. ASSUME NEW p \in Cancels, CancelList(p) PROVE Counted'
    BY <1>17 DEF CancelList, ActiveKids
<1>18. ASSUME NEW p \in Cancels, CancelReturns(p) PROVE Counted'
    BY <1>18 DEF CancelReturns, Returns
<1>19. CASE UserSends
    BY <1>19 DEF UserSends, Opens
<1>20. CASE UserCancels
    BY <1>20 DEF UserCancels, Goes
<1>22. ASSUME NEW t \in Threads, Workflow(t) PROVE Counted'
    BY <1>22, <1>1, <1>2, <1>21, <1>3, <1>4, <1>5, <1>6, <1>26 DEF Workflow
<1>23. ASSUME NEW k \in Kids, Handler(k) PROVE Counted'
    BY <1>23, <1>7, <1>8 DEF Handler
<1>24. ASSUME NEW k \in Kids, Tool(k) PROVE Counted'
    BY <1>24, <1>9, <1>10, <1>11, <1>12, <1>13, <1>14 DEF Tool
<1>25. ASSUME NEW p \in Cancels, Cancel(p) PROVE Counted'
    BY <1>25, <1>15, <1>16, <1>17, <1>18 DEF Cancel
<1> QED BY <1>0, <1>19, <1>20, <1>22, <1>23, <1>24, <1>25 DEF Next

\* Every step keeps children at work in their runs.
LEMMA WorkStep == Shapes /\ AtWork /\ [Next]_vars => AtWork'
<1> SUFFICES ASSUME Shapes, AtWork, [Next]_vars PROVE AtWork'
    OBVIOUS
<1> USE DEF Shapes, AtWork, Threads, Working, Final, rows, clients, history
<1>0. CASE UNCHANGED vars
    BY <1>0 DEF vars
<1>1. ASSUME NEW t \in Threads, StartRun(t) PROVE AtWork'
    BY <1>1 DEF StartRun, Loses, ActiveRow, HasMail
<1>2. ASSUME NEW t \in Threads, TurnEnds(t) PROVE AtWork'
    BY <1>2 DEF TurnEnds
<1>21. ASSUME NEW t \in Threads, TurnFails(t) PROVE AtWork'
    BY <1>21 DEF TurnFails, TurnStops, Loses
<1>3. ASSUME NEW t \in Threads, ToolsEnd(t) PROVE AtWork'
    BY <1>3 DEF ToolsEnd
<1>4. ASSUME NEW t \in Threads, FinishRun(t) PROVE AtWork'
    BY <1>4 DEF FinishRun, AfterRun, Reaches, Onward, HasMail, Ended
<1>26. ASSUME NEW t \in Threads, StartAborted(t) PROVE AtWork'
    BY <1>26 DEF StartAborted, ActiveRow, HasMail, NoMail
<1>5. ASSUME NEW t \in Threads, SeeCancel(t) PROVE AtWork'
    BY <1>5 DEF SeeCancel, TurnStops, Loses, NoMail
<1>6. ASSUME NEW t \in Threads, ApplyCancellation(t) PROVE AtWork'
    BY <1>6 DEF ApplyCancellation, NoMail, Goes
<1>7. ASSUME NEW k \in Kids, HandlerReports(k) PROVE AtWork'
    BY <1>7 DEF HandlerReports, AfterRun, Reaches, Onward, HasMail
<1>8. ASSUME NEW k \in Kids, FinalizeAgain(k) PROVE AtWork'
    BY <1>8 DEF FinalizeAgain
<1>9. ASSUME NEW k \in Kids, SpawnRow(k) PROVE AtWork'
    BY <1>9 DEF SpawnRow, Delegates, Unspawned
<1>10. ASSUME NEW k \in Kids, SpawnStart(k) PROVE AtWork'
    BY <1>10 DEF SpawnStart, Tell, Opens
<1>11. ASSUME NEW k \in Kids, SpawnDies(k) PROVE AtWork'
    BY <1>11 DEF SpawnDies
<1>12. ASSUME NEW k \in Kids, SpawnDirect(k) PROVE AtWork'
    BY <1>12 DEF SpawnDirect, Delegates, Unspawned, Tell, Opens
<1>13. ASSUME NEW k \in Kids, MessageKid(k) PROVE AtWork'
    BY <1>13 DEF MessageKid, Tell, Opens
<1>14. ASSUME NEW k \in Kids, StopKid(k) PROVE AtWork'
    BY <1>14 DEF StopKid
<1>15. ASSUME NEW p \in Cancels, CancelAsk(p) PROVE AtWork'
    BY <1>15 DEF CancelAsk, Goes, Ask
<1>16. ASSUME NEW p \in Cancels, CancelRecord(p) PROVE AtWork'
    BY <1>16 DEF CancelRecord, Goes
<1>17. ASSUME NEW p \in Cancels, CancelList(p) PROVE AtWork'
    BY <1>17 DEF CancelList, ActiveKids
<1>18. ASSUME NEW p \in Cancels, CancelReturns(p) PROVE AtWork'
    BY <1>18 DEF CancelReturns, Returns
<1>19. CASE UserSends
    BY <1>19 DEF UserSends, Opens
<1>20. CASE UserCancels
    BY <1>20 DEF UserCancels, Goes
<1>22. ASSUME NEW t \in Threads, Workflow(t) PROVE AtWork'
    BY <1>22, <1>1, <1>2, <1>21, <1>3, <1>4, <1>5, <1>6, <1>26 DEF Workflow
<1>23. ASSUME NEW k \in Kids, Handler(k) PROVE AtWork'
    BY <1>23, <1>7, <1>8 DEF Handler
<1>24. ASSUME NEW k \in Kids, Tool(k) PROVE AtWork'
    BY <1>24, <1>9, <1>10, <1>11, <1>12, <1>13, <1>14 DEF Tool
<1>25. ASSUME NEW p \in Cancels, Cancel(p) PROVE AtWork'
    BY <1>25, <1>15, <1>16, <1>17, <1>18 DEF Cancel
<1> QED BY <1>0, <1>19, <1>20, <1>22, <1>23, <1>24, <1>25 DEF Next

\* Every step keeps to reports of runs that are over.
LEMMA ToldStep == Shapes /\ AtWork /\ Told /\ [Next]_vars => Told'
<1> SUFFICES ASSUME Shapes, AtWork, Told, [Next]_vars PROVE Told'
    OBVIOUS
<1> USE DEF Shapes, AtWork, Told, Threads, rows, clients, history
<1>0. CASE UNCHANGED vars
    BY <1>0 DEF vars
<1>1. ASSUME NEW t \in Threads, StartRun(t) PROVE Told'
    BY <1>1 DEF StartRun, Loses, ActiveRow, HasMail
<1>2. ASSUME NEW t \in Threads, TurnEnds(t) PROVE Told'
    BY <1>2 DEF TurnEnds
<1>21. ASSUME NEW t \in Threads, TurnFails(t) PROVE Told'
    BY <1>21 DEF TurnFails, TurnStops, Loses
<1>3. ASSUME NEW t \in Threads, ToolsEnd(t) PROVE Told'
    BY <1>3 DEF ToolsEnd
<1>4. ASSUME NEW t \in Threads, FinishRun(t) PROVE Told'
    BY <1>4 DEF FinishRun, AfterRun, Reaches, Onward, HasMail, Ended
<1>26. ASSUME NEW t \in Threads, StartAborted(t) PROVE Told'
    BY <1>26 DEF StartAborted, ActiveRow, HasMail, NoMail
<1>5. ASSUME NEW t \in Threads, SeeCancel(t) PROVE Told'
    BY <1>5 DEF SeeCancel, TurnStops, Loses, NoMail
<1>6. ASSUME NEW t \in Threads, ApplyCancellation(t) PROVE Told'
    BY <1>6 DEF ApplyCancellation, NoMail, Goes
<1>7. ASSUME NEW k \in Kids, HandlerReports(k) PROVE Told'
    BY <1>7 DEF HandlerReports, AfterRun, Reaches, Onward, HasMail
<1>8. ASSUME NEW k \in Kids, FinalizeAgain(k) PROVE Told'
    BY <1>8 DEF FinalizeAgain
<1>9. ASSUME NEW k \in Kids, SpawnRow(k) PROVE Told'
    BY <1>9 DEF SpawnRow, Delegates, Unspawned
<1>10. ASSUME NEW k \in Kids, SpawnStart(k) PROVE Told'
    BY <1>10 DEF SpawnStart, Tell, Opens
<1>11. ASSUME NEW k \in Kids, SpawnDies(k) PROVE Told'
    BY <1>11 DEF SpawnDies
<1>12. ASSUME NEW k \in Kids, SpawnDirect(k) PROVE Told'
    BY <1>12 DEF SpawnDirect, Delegates, Unspawned, Tell, Opens
<1>13. ASSUME NEW k \in Kids, MessageKid(k) PROVE Told'
    BY <1>13 DEF MessageKid, Tell, Opens
<1>14. ASSUME NEW k \in Kids, StopKid(k) PROVE Told'
    BY <1>14 DEF StopKid
<1>15. ASSUME NEW p \in Cancels, CancelAsk(p) PROVE Told'
    BY <1>15 DEF CancelAsk, Goes, Ask
<1>16. ASSUME NEW p \in Cancels, CancelRecord(p) PROVE Told'
    BY <1>16 DEF CancelRecord, Goes
<1>17. ASSUME NEW p \in Cancels, CancelList(p) PROVE Told'
    BY <1>17 DEF CancelList, ActiveKids
<1>18. ASSUME NEW p \in Cancels, CancelReturns(p) PROVE Told'
    BY <1>18 DEF CancelReturns, Returns
<1>19. CASE UserSends
    BY <1>19 DEF UserSends, Opens
<1>20. CASE UserCancels
    BY <1>20 DEF UserCancels, Goes
<1>22. ASSUME NEW t \in Threads, Workflow(t) PROVE Told'
    BY <1>22, <1>1, <1>2, <1>21, <1>3, <1>4, <1>5, <1>6, <1>26 DEF Workflow
<1>23. ASSUME NEW k \in Kids, Handler(k) PROVE Told'
    BY <1>23, <1>7, <1>8 DEF Handler
<1>24. ASSUME NEW k \in Kids, Tool(k) PROVE Told'
    BY <1>24, <1>9, <1>10, <1>11, <1>12, <1>13, <1>14 DEF Tool
<1>25. ASSUME NEW p \in Cancels, Cancel(p) PROVE Told'
    BY <1>25, <1>15, <1>16, <1>17, <1>18 DEF Cancel
<1> QED BY <1>0, <1>19, <1>20, <1>22, <1>23, <1>24, <1>25 DEF Next
-----------------------------------------------------------------------------
(* Cancels.                                                                *)

\* The cancel p is c after the step; the others are as they were.
Moved(p, c) == CancelTypes' /\ cancel'[p] = c /\ \A q \in Cancels \ {p} : cancel'[q] = cancel[q]

\* What each step makes of the cancel it is about.
LEMMA CancelMoves ==
    ASSUME Shapes, CancelTypes, NEW p \in Cancels
    PROVE  /\ CancelAsk(p) =>
                \/ /\ cancel[p].at = "ask" /\ Ask(cancel[p].of)
                   /\ Moved(p, [at |-> "record", of |-> cancel[p].of, todo |-> cancel[p].todo])
                \/ /\ cancel[p].at = "next"
                   /\ \E k \in cancel[p].todo :
                        Ask(k) /\ Moved(p, [at |-> "record", of |-> k, todo |-> cancel[p].todo \ {k}])
           /\ CancelRecord(p) =>
                Moved(p, [at |-> IF cancel[p].of = Root THEN "list" ELSE "next",
                          of |-> cancel[p].of, todo |-> cancel[p].todo])
           /\ CancelList(p) => Moved(p, [at |-> "next", of |-> cancel[p].of, todo |-> ActiveKids])
           /\ CancelReturns(p) =>
                Moved(p, [at |-> IF p = "user" THEN "done" ELSE "off", of |-> Root, todo |-> {}])
<1> DEFINE c == cancel[p]
<1>1. c \in CancelSet /\ c.at \in Ats /\ c.of \in Threads /\ c.todo \subseteq Kids /\ Root \in Threads
      /\ Kids \subseteq Threads /\ ActiveKids \subseteq Kids
    BY DEF CancelTypes, CancelSet, Threads, ActiveKids, Shapes
<1>2. ASSUME NEW d \in CancelSet, cancel' = [cancel EXCEPT ![p] = d] PROVE Moved(p, d)
    BY <1>2, OneCancel DEF Moved
<1>3. ASSUME NEW to \in Ats, Goes(p, to) PROVE Moved(p, [at |-> to, of |-> c.of, todo |-> c.todo])
    BY <1>1, <1>3, CancelGoes DEF Moved, CancelSet
<1>4. ASSUME CancelAsk(p), c.at = "ask"
      PROVE  Ask(c.of) /\ Moved(p, [at |-> "record", of |-> c.of, todo |-> c.todo])
    BY <1>3, <1>4 DEF CancelAsk, Ats
<1>5. ASSUME CancelAsk(p), c.at # "ask"
      PROVE  /\ c.at = "next"
             /\ \E k \in c.todo :
                  Ask(k) /\ Moved(p, [at |-> "record", of |-> k, todo |-> c.todo \ {k}])
  <2>1. PICK k \in c.todo :
          /\ c.at = "next" /\ Ask(k)
          /\ cancel' = [cancel EXCEPT ![p] = [at |-> "record", of |-> k, todo |-> @.todo \ {k}]]
      BY <1>5 DEF CancelAsk
  <2>2. [at |-> "record", of |-> k, todo |-> c.todo \ {k}] \in CancelSet
      BY <1>1 DEF CancelSet, Ats
  <2> QED BY <1>2, <2>1, <2>2
<1>6. CancelRecord(p) => Moved(p, [at |-> IF c.of = Root THEN "list" ELSE "next",
                                   of |-> c.of, todo |-> c.todo])
    BY <1>3 DEF CancelRecord, Ats
<1>7. ASSUME CancelList(p) PROVE Moved(p, [at |-> "next", of |-> c.of, todo |-> ActiveKids])
  <2> DEFINE d == [at |-> "next", of |-> c.of, todo |-> ActiveKids]
  <2>1. d \in CancelSet
      BY <1>1 DEF CancelSet, Ats
  <2>2. cancel' = [cancel EXCEPT ![p].at = "next", ![p].todo = ActiveKids]
      BY <1>7 DEF CancelList
  <2>3. cancel \in [Cancels -> CancelSet] /\ c = [at |-> c.at, of |-> c.of, todo |-> c.todo]
      BY <1>1 DEF CancelTypes, CancelSet
  <2>5. cancel' \in [Cancels -> CancelSet]
      BY <2>1, <2>2, <2>3
  <2>4. cancel'[p] = d /\ \A q \in Cancels \ {p} : cancel'[q] = cancel[q]
      BY <2>2, <2>3
  <2> QED BY <2>4, <2>5 DEF Moved, CancelTypes
<1>8. ASSUME CancelReturns(p)
      PROVE  Moved(p, [at |-> IF p = "user" THEN "done" ELSE "off", of |-> Root, todo |-> {}])
  <2> DEFINE d == [at |-> IF p = "user" THEN "done" ELSE "off", of |-> Root, todo |-> {}]
  <2>1. d \in CancelSet
      BY <1>1 DEF CancelSet, Ats
  <2>2. cancel' = [cancel EXCEPT ![p] = [Off EXCEPT !.at = d.at]]
      BY <1>8 DEF CancelReturns
  <2>3. [Off EXCEPT !.at = d.at] = d
      BY DEF Off
  <2> QED BY <1>2, <2>1, <2>2, <2>3
<1> QED BY <1>4, <1>5, <1>6, <1>7, <1>8

\* And of the steps that begin one.
LEMMA CancelBegins ==
    ASSUME CancelTypes
    PROVE  /\ UserCancels => Moved("user", [at |-> "ask", of |-> Root, todo |-> {}])
           /\ \A k \in Kids : StopKid(k) => Moved("stop", [at |-> "ask", of |-> k, todo |-> {}])
           /\ ApplyCancellation(Root) => Moved("cascade", [at |-> "list", of |-> Root, todo |-> {}])
           /\ \A k \in Kids : ApplyCancellation(k) => cancel' = cancel
<1>1. ASSUME NEW p \in Cancels, NEW to \in Ats, cancel[p] = Off, Goes(p, to)
      PROVE  Moved(p, [at |-> to, of |-> Root, todo |-> {}])
    BY <1>1, CancelGoes DEF Moved, CancelSet, Off, Threads
<1>2. UserCancels => Moved("user", [at |-> "ask", of |-> Root, todo |-> {}])
    BY <1>1 DEF UserCancels, Cancels, Ats
<1>3. ApplyCancellation(Root) => Moved("cascade", [at |-> "list", of |-> Root, todo |-> {}])
    BY <1>1 DEF ApplyCancellation, Cancels, Ats
<1>4. ASSUME NEW k \in Kids, StopKid(k) PROVE Moved("stop", [at |-> "ask", of |-> k, todo |-> {}])
  <2>1. [at |-> "ask", of |-> k, todo |-> {}] \in CancelSet
      BY DEF CancelSet, Ats, Threads
  <2> QED BY <1>4, <2>1, OneCancel DEF StopKid, Moved, Cancels
<1>5. \A k \in Kids : ApplyCancellation(k) => cancel' = cancel
    BY DEF ApplyCancellation
<1> QED BY <1>2, <1>3, <1>4, <1>5

\* Every step leaves the cancels cancels.
LEMMA CancelTypesStep == Shapes /\ CancelTypes /\ [Next]_vars => CancelTypes'
<1> SUFFICES ASSUME Shapes, CancelTypes, [Next]_vars PROVE CancelTypes'
    OBVIOUS
<1>1. ASSUME cancel' = cancel PROVE CancelTypes'
    BY <1>1 DEF CancelTypes
<1> USE DEF vars, clients
<1>2. CASE UNCHANGED vars \/ UserSends
    BY <1>1, <1>2 DEF UserSends
<1>3. CASE UserCancels
    BY <1>3, CancelBegins DEF Moved
<1>4. ASSUME NEW t \in Threads, Workflow(t) PROVE CancelTypes'
  <2>1. CASE ApplyCancellation(t)
      BY <2>1, <1>1, CancelBegins DEF Moved, Threads
  <2>2. CASE StartRun(t) \/ TurnEnds(t) \/ TurnFails(t) \/ ToolsEnd(t) \/ FinishRun(t) \/ SeeCancel(t)
                 \/ StartAborted(t)
      BY <2>2, <1>1 DEF StartRun, TurnEnds, TurnFails, ToolsEnd, FinishRun, SeeCancel, StartAborted
  <2> QED BY <1>4, <2>1, <2>2 DEF Workflow
<1>5. ASSUME NEW k \in Kids, Handler(k) \/ Tool(k) PROVE CancelTypes'
  <2>1. CASE StopKid(k)
      BY <2>1, CancelBegins DEF Moved
  <2>2. CASE ~StopKid(k)
      BY <1>5, <2>2, <1>1 DEF Handler, Tool, HandlerReports, FinalizeAgain, SpawnRow, SpawnStart,
                              SpawnDies, SpawnDirect, MessageKid
  <2> QED BY <2>1, <2>2
<1>6. ASSUME NEW p \in Cancels, Cancel(p) PROVE CancelTypes'
    BY <1>6, CancelMoves DEF Cancel, Moved
<1> QED BY <1>2, <1>3, <1>4, <1>5, <1>6 DEF Next

\* Every step leaves each cancel where it may stand.
LEMMA CancellingStep == Shapes /\ CancelTypes /\ Cancelling /\ [Next]_vars => Cancelling'
<1> SUFFICES ASSUME Shapes, CancelTypes, Cancelling, [Next]_vars,
                    \A p \in Cancels : cancel[p].of \in Threads /\ cancel[p].todo \subseteq Kids
             PROVE  Cancelling'
    BY DEF CancelTypes, CancelSet
<1> USE DEF Shapes, Cancelling, Threads, Working, Final, rows, clients, history, Cancels
<1>0. CASE UNCHANGED vars
    BY <1>0 DEF vars
<1>1. ASSUME NEW t \in Threads, StartRun(t) PROVE Cancelling'
    BY <1>1 DEF StartRun, Loses, ActiveRow, HasMail
<1>2. ASSUME NEW t \in Threads, TurnEnds(t) PROVE Cancelling'
    BY <1>2 DEF TurnEnds
<1>21. ASSUME NEW t \in Threads, TurnFails(t) PROVE Cancelling'
    BY <1>21 DEF TurnFails, TurnStops, Loses
<1>3. ASSUME NEW t \in Threads, ToolsEnd(t) PROVE Cancelling'
    BY <1>3 DEF ToolsEnd
<1>4. ASSUME NEW t \in Threads, FinishRun(t) PROVE Cancelling'
    BY <1>4 DEF FinishRun, AfterRun, Reaches, Onward, HasMail, Ended
<1>26. ASSUME NEW t \in Threads, StartAborted(t) PROVE Cancelling'
    BY <1>26 DEF StartAborted, ActiveRow, HasMail, NoMail
<1>5. ASSUME NEW t \in Threads, SeeCancel(t) PROVE Cancelling'
    BY <1>5 DEF SeeCancel, TurnStops, Loses, NoMail
<1>7. ASSUME NEW k \in Kids, HandlerReports(k) PROVE Cancelling'
    BY <1>7 DEF HandlerReports, AfterRun, Reaches, Onward, HasMail
<1>8. ASSUME NEW k \in Kids, FinalizeAgain(k) PROVE Cancelling'
    BY <1>8 DEF FinalizeAgain
<1>9. ASSUME NEW k \in Kids, SpawnRow(k) PROVE Cancelling'
    BY <1>9 DEF SpawnRow, Delegates, Unspawned
<1>10. ASSUME NEW k \in Kids, SpawnStart(k) PROVE Cancelling'
    BY <1>10 DEF SpawnStart, Tell, Opens
<1>11. ASSUME NEW k \in Kids, SpawnDies(k) PROVE Cancelling'
    BY <1>11 DEF SpawnDies
<1>12. ASSUME NEW k \in Kids, SpawnDirect(k) PROVE Cancelling'
    BY <1>12 DEF SpawnDirect, Delegates, Unspawned, Tell, Opens
<1>13. ASSUME NEW k \in Kids, MessageKid(k) PROVE Cancelling'
    BY <1>13 DEF MessageKid, Tell, Opens
<1>6. ASSUME NEW t \in Threads, ApplyCancellation(t) PROVE Cancelling'
  <2>1. CASE t = Root
      BY <1>6, <2>1, CancelBegins DEF ApplyCancellation, Moved, NoMail
  <2>2. CASE t \in Kids
      BY <1>6, <2>2, CancelBegins DEF ApplyCancellation, Moved, NoMail
  <2> QED BY <2>1, <2>2
<1>14. ASSUME NEW k \in Kids, StopKid(k) PROVE Cancelling'
    BY <1>14, CancelBegins DEF StopKid, Moved
<1>15. ASSUME NEW p \in Cancels, CancelAsk(p) PROVE Cancelling'
  <2>1. UNCHANGED <<rows, wf, recording, inbox, fresh, run, spawning, sent, told, open, stopped>>
      BY <1>15 DEF CancelAsk
  <2>2. CASE /\ cancel[p].at = "ask" /\ Ask(cancel[p].of)
             /\ Moved(p, [at |-> "record", of |-> cancel[p].of, todo |-> cancel[p].todo])
      BY <2>1, <2>2 DEF Moved, Ask
  <2>3. ASSUME NEW k \in cancel[p].todo, cancel[p].at = "next", Ask(k),
               Moved(p, [at |-> "record", of |-> k, todo |-> cancel[p].todo \ {k}])
        PROVE  Cancelling'
      BY <2>1, <2>3 DEF Moved, Ask
  <2>4. CASE \E k \in cancel[p].todo :
               /\ cancel[p].at = "next" /\ Ask(k)
               /\ Moved(p, [at |-> "record", of |-> k, todo |-> cancel[p].todo \ {k}])
      BY <2>3, <2>4
  <2>5. \/ /\ cancel[p].at = "ask" /\ Ask(cancel[p].of)
           /\ Moved(p, [at |-> "record", of |-> cancel[p].of, todo |-> cancel[p].todo])
        \/ \E k \in cancel[p].todo :
             /\ cancel[p].at = "next" /\ Ask(k)
             /\ Moved(p, [at |-> "record", of |-> k, todo |-> cancel[p].todo \ {k}])
      BY <1>15, CancelMoves
  <2> QED BY <2>2, <2>4, <2>5
<1>16. ASSUME NEW p \in Cancels, CancelRecord(p) PROVE Cancelling'
  <2>1. /\ status' = [status EXCEPT ![cancel[p].of] = "cancelled"] /\ cancel[p].at = "record"
        /\ UNCHANGED <<linked, finished, stored, wf, recording, asked, inbox, fresh, run, spawning,
                       sent, told, history>>
      BY <1>16 DEF CancelRecord
  <2>2. Moved(p, [at |-> IF cancel[p].of = Root THEN "list" ELSE "next",
                  of |-> cancel[p].of, todo |-> cancel[p].todo])
      BY <1>16, CancelMoves
  <2> QED BY <2>1, <2>2 DEF Moved
<1>17. ASSUME NEW p \in Cancels, CancelList(p) PROVE Cancelling'
  <2>1. /\ cancel[p].at = "list" /\ UNCHANGED <<rows, wf, recording, asked, inbox, fresh, run,
                                                spawning, sent, told, history>>
      BY <1>17 DEF CancelList
  <2>2. Moved(p, [at |-> "next", of |-> cancel[p].of, todo |-> ActiveKids])
      BY <1>17, CancelMoves
  <2> QED BY <2>1, <2>2 DEF Moved, ActiveKids
<1>18. ASSUME NEW p \in Cancels, CancelReturns(p) PROVE Cancelling'
  <2>1. Moved(p, [at |-> IF p = "user" THEN "done" ELSE "off", of |-> Root, todo |-> {}])
      BY <1>18, CancelMoves
  <2> QED BY <1>18, <2>1 DEF CancelReturns, Moved, Returns
<1>19. CASE UserSends
    BY <1>19 DEF UserSends, Opens
<1>20. CASE UserCancels
    BY <1>20, CancelBegins DEF UserCancels, Moved
<1>22. ASSUME NEW t \in Threads, Workflow(t) PROVE Cancelling'
    BY <1>22, <1>1, <1>2, <1>21, <1>3, <1>4, <1>5, <1>6, <1>26 DEF Workflow
<1>23. ASSUME NEW k \in Kids, Handler(k) PROVE Cancelling'
    BY <1>23, <1>7, <1>8 DEF Handler
<1>24. ASSUME NEW k \in Kids, Tool(k) PROVE Cancelling'
    BY <1>24, <1>9, <1>10, <1>11, <1>12, <1>13, <1>14 DEF Tool
<1>25. ASSUME NEW p \in Cancels, Cancel(p) PROVE Cancelling'
    BY <1>25, <1>15, <1>16, <1>17, <1>18 DEF Cancel
<1> QED BY <1>0, <1>19, <1>20, <1>22, <1>23, <1>24, <1>25 DEF Next

\* Every step keeps what is not begun from being cancelled.
LEMMA UnbegunStep == Shapes /\ CancelTypes /\ AtWork /\ Cancelling /\ Unbegun /\ [Next]_vars => Unbegun'
<1> SUFFICES ASSUME Shapes, CancelTypes, AtWork, Cancelling, Unbegun, [Next]_vars,
                    \A p \in Cancels : cancel[p].of \in Threads /\ cancel[p].todo \subseteq Kids
             PROVE  Unbegun'
    BY DEF CancelTypes, CancelSet
<1> USE DEF Shapes, AtWork, Cancelling, Unbegun, Threads, Working, Final, rows, clients, history, Cancels
<1>0. CASE UNCHANGED vars
    BY <1>0 DEF vars
<1>1. ASSUME NEW t \in Threads, StartRun(t) PROVE Unbegun'
    BY <1>1 DEF StartRun, Loses, ActiveRow, HasMail
<1>2. ASSUME NEW t \in Threads, TurnEnds(t) PROVE Unbegun'
    BY <1>2 DEF TurnEnds
<1>21. ASSUME NEW t \in Threads, TurnFails(t) PROVE Unbegun'
    BY <1>21 DEF TurnFails, TurnStops, Loses
<1>3. ASSUME NEW t \in Threads, ToolsEnd(t) PROVE Unbegun'
    BY <1>3 DEF ToolsEnd
<1>4. ASSUME NEW t \in Threads, FinishRun(t) PROVE Unbegun'
    BY <1>4 DEF FinishRun, AfterRun, Reaches, Onward, HasMail, Ended
<1>26. ASSUME NEW t \in Threads, StartAborted(t) PROVE Unbegun'
    BY <1>26 DEF StartAborted, ActiveRow, HasMail, NoMail
<1>5. ASSUME NEW t \in Threads, SeeCancel(t) PROVE Unbegun'
    BY <1>5 DEF SeeCancel, TurnStops, Loses, NoMail
<1>7. ASSUME NEW k \in Kids, HandlerReports(k) PROVE Unbegun'
    BY <1>7 DEF HandlerReports, AfterRun, Reaches, Onward, HasMail
<1>8. ASSUME NEW k \in Kids, FinalizeAgain(k) PROVE Unbegun'
    BY <1>8 DEF FinalizeAgain
<1>9. ASSUME NEW k \in Kids, SpawnRow(k) PROVE Unbegun'
  <2>1. /\ status' = [status EXCEPT ![k] = "idle"] /\ spawning' = spawning \cup {k}
        /\ status[k] = "none" /\ run[k] = 0 /\ inbox.kid[k] = 0
        /\ wf' = wf /\ run' = run /\ cancel' = cancel
      BY <1>9 DEF SpawnRow, Delegates, Unspawned
  <2>2. wf[k] = "closed"
    <3>1. ~(run[k] > 0) /\ ~(inbox.kid[k] > 0)
        BY ONLY <2>1
    <3>2. wf[k] # "closed" => run[k] > 0 \/ inbox.kid[k] > 0
        BY DEF AtWork
    <3> QED BY <3>1, <3>2
  <2>3. \A p \in Cancels : k \notin cancel[p].todo /\ cancel[p].of # k
      BY <2>1
  <2>4. \A i \in spawning : i # k
      BY <2>1
  <2>5. ASSUME NEW i \in spawning'
        PROVE  /\ status'[i] = "idle" /\ wf'[i] = "closed" /\ run'[i] = 0
               /\ \A p \in Cancels : i \notin cancel'[p].todo /\ cancel'[p].of # i
    <3>1. CASE i = k
        BY <3>1, <2>1, <2>2, <2>3
    <3>2. CASE i \in spawning
        BY <3>2, <2>1, <2>4
    <3> QED BY <2>1, <3>1, <3>2
  <2> QED BY <2>5
<1>10. ASSUME NEW k \in Kids, SpawnStart(k) PROVE Unbegun'
    BY <1>10 DEF SpawnStart, Tell, Opens
<1>11. ASSUME NEW k \in Kids, SpawnDies(k) PROVE Unbegun'
    BY <1>11 DEF SpawnDies
<1>12. ASSUME NEW k \in Kids, SpawnDirect(k) PROVE Unbegun'
    BY <1>12 DEF SpawnDirect, Delegates, Unspawned, Tell, Opens
<1>13. ASSUME NEW k \in Kids, MessageKid(k) PROVE Unbegun'
    BY <1>13 DEF MessageKid, Tell, Opens
<1>6. ASSUME NEW t \in Threads, ApplyCancellation(t) PROVE Unbegun'
  <2>1. CASE t = Root
      BY <1>6, <2>1, CancelBegins DEF ApplyCancellation, Moved, NoMail
  <2>2. CASE t \in Kids
      BY <1>6, <2>2, CancelBegins DEF ApplyCancellation, Moved, NoMail
  <2> QED BY <2>1, <2>2
<1>14. ASSUME NEW k \in Kids, StopKid(k) PROVE Unbegun'
    BY <1>14, CancelBegins DEF StopKid, Moved
<1>15. ASSUME NEW p \in Cancels, CancelAsk(p) PROVE Unbegun'
  <2>1. UNCHANGED <<rows, wf, recording, inbox, fresh, run, spawning, sent, told, open, stopped>>
      BY <1>15 DEF CancelAsk
  <2>2. CASE /\ cancel[p].at = "ask" /\ Ask(cancel[p].of)
             /\ Moved(p, [at |-> "record", of |-> cancel[p].of, todo |-> cancel[p].todo])
      BY <2>1, <2>2 DEF Moved, Ask
  <2>3. ASSUME NEW k \in cancel[p].todo, cancel[p].at = "next", Ask(k),
               Moved(p, [at |-> "record", of |-> k, todo |-> cancel[p].todo \ {k}])
        PROVE  Unbegun'
      BY <2>1, <2>3 DEF Moved, Ask
  <2>4. CASE \E k \in cancel[p].todo :
               /\ cancel[p].at = "next" /\ Ask(k)
               /\ Moved(p, [at |-> "record", of |-> k, todo |-> cancel[p].todo \ {k}])
      BY <2>3, <2>4
  <2>5. \/ /\ cancel[p].at = "ask" /\ Ask(cancel[p].of)
           /\ Moved(p, [at |-> "record", of |-> cancel[p].of, todo |-> cancel[p].todo])
        \/ \E k \in cancel[p].todo :
             /\ cancel[p].at = "next" /\ Ask(k)
             /\ Moved(p, [at |-> "record", of |-> k, todo |-> cancel[p].todo \ {k}])
      BY <1>15, CancelMoves
  <2> QED BY <2>2, <2>4, <2>5
<1>16. ASSUME NEW p \in Cancels, CancelRecord(p) PROVE Unbegun'
  <2>1. /\ status' = [status EXCEPT ![cancel[p].of] = "cancelled"] /\ cancel[p].at = "record"
        /\ UNCHANGED <<linked, finished, stored, wf, recording, asked, inbox, fresh, run, spawning,
                       sent, told, history>>
      BY <1>16 DEF CancelRecord
  <2>2. Moved(p, [at |-> IF cancel[p].of = Root THEN "list" ELSE "next",
                  of |-> cancel[p].of, todo |-> cancel[p].todo])
      BY <1>16, CancelMoves
  <2> QED BY <2>1, <2>2 DEF Moved
<1>17. ASSUME NEW p \in Cancels, CancelList(p) PROVE Unbegun'
  <2>1. /\ cancel[p].at = "list" /\ UNCHANGED <<rows, wf, recording, asked, inbox, fresh, run,
                                                spawning, sent, told, history>>
      BY <1>17 DEF CancelList
  <2>2. Moved(p, [at |-> "next", of |-> cancel[p].of, todo |-> ActiveKids])
      BY <1>17, CancelMoves
  <2> QED BY <2>1, <2>2 DEF Moved, ActiveKids
<1>18. ASSUME NEW p \in Cancels, CancelReturns(p) PROVE Unbegun'
  <2>1. Moved(p, [at |-> IF p = "user" THEN "done" ELSE "off", of |-> Root, todo |-> {}])
      BY <1>18, CancelMoves
  <2> QED BY <1>18, <2>1 DEF CancelReturns, Moved, Returns
<1>19. CASE UserSends
    BY <1>19 DEF UserSends, Opens
<1>20. CASE UserCancels
    BY <1>20, CancelBegins DEF UserCancels, Moved
<1>22. ASSUME NEW t \in Threads, Workflow(t) PROVE Unbegun'
    BY <1>22, <1>1, <1>2, <1>21, <1>3, <1>4, <1>5, <1>6, <1>26 DEF Workflow
<1>23. ASSUME NEW k \in Kids, Handler(k) PROVE Unbegun'
    BY <1>23, <1>7, <1>8 DEF Handler
<1>24. ASSUME NEW k \in Kids, Tool(k) PROVE Unbegun'
    BY <1>24, <1>9, <1>10, <1>11, <1>12, <1>13, <1>14 DEF Tool
<1>25. ASSUME NEW p \in Cancels, Cancel(p) PROVE Unbegun'
    BY <1>25, <1>15, <1>16, <1>17, <1>18 DEF Cancel
<1> QED BY <1>0, <1>19, <1>20, <1>22, <1>23, <1>24, <1>25 DEF Next

\* Every step keeps the child Root's cancel has come to asked.
LEMMA CascadedStep == Shapes /\ CancelTypes /\ Cancelling /\ Unbegun /\ Cascaded /\ [Next]_vars => Cascaded'
<1> SUFFICES ASSUME Shapes, CancelTypes, Cancelling, Unbegun, Cascaded, [Next]_vars,
                    \A p \in Cancels : cancel[p].of \in Threads /\ cancel[p].todo \subseteq Kids
             PROVE  Cascaded'
    BY DEF CancelTypes, CancelSet
<1>50. \A p \in Cancels : CancelReturns(p) =>
         Moved(p, [at |-> IF p = "user" THEN "done" ELSE "off", of |-> Root, todo |-> {}])
    BY CancelMoves
<1> USE DEF Shapes, Cancelling, Unbegun, Cascaded, Threads, Working, Final, rows, clients, history, Cancels
<1>0. CASE UNCHANGED vars
    BY <1>0 DEF vars
<1>1. ASSUME NEW t \in Threads, StartRun(t) PROVE Cascaded'
    BY <1>1 DEF StartRun, Loses, ActiveRow, HasMail
<1>2. ASSUME NEW t \in Threads, TurnEnds(t) PROVE Cascaded'
    BY <1>2 DEF TurnEnds
<1>21. ASSUME NEW t \in Threads, TurnFails(t) PROVE Cascaded'
    BY <1>21 DEF TurnFails, TurnStops, Loses
<1>3. ASSUME NEW t \in Threads, ToolsEnd(t) PROVE Cascaded'
    BY <1>3 DEF ToolsEnd
<1>4. ASSUME NEW t \in Threads, FinishRun(t) PROVE Cascaded'
    BY <1>4 DEF FinishRun, AfterRun, Reaches, Onward, HasMail, Ended
<1>26. ASSUME NEW t \in Threads, StartAborted(t) PROVE Cascaded'
    BY <1>26 DEF StartAborted, ActiveRow, HasMail, NoMail
<1>5. ASSUME NEW t \in Threads, SeeCancel(t) PROVE Cascaded'
    BY <1>5 DEF SeeCancel, TurnStops, Loses, NoMail
<1>7. ASSUME NEW k \in Kids, HandlerReports(k) PROVE Cascaded'
    BY <1>7 DEF HandlerReports, AfterRun, Reaches, Onward, HasMail
<1>8. ASSUME NEW k \in Kids, FinalizeAgain(k) PROVE Cascaded'
    BY <1>8 DEF FinalizeAgain
<1>9. ASSUME NEW k \in Kids, SpawnRow(k) PROVE Cascaded'
    BY <1>9 DEF SpawnRow, Delegates, Unspawned
<1>10. ASSUME NEW k \in Kids, SpawnStart(k) PROVE Cascaded'
    BY <1>10 DEF SpawnStart, Tell, Opens
<1>11. ASSUME NEW k \in Kids, SpawnDies(k) PROVE Cascaded'
    BY <1>11 DEF SpawnDies
<1>12. ASSUME NEW k \in Kids, SpawnDirect(k) PROVE Cascaded'
    BY <1>12 DEF SpawnDirect, Delegates, Unspawned, Tell, Opens
<1>13. ASSUME NEW k \in Kids, MessageKid(k) PROVE Cascaded'
    BY <1>13 DEF MessageKid, Tell, Opens
<1>6. ASSUME NEW t \in Threads, ApplyCancellation(t) PROVE Cascaded'
  <2>1. CASE t = Root
      BY <1>6, <2>1, CancelBegins DEF ApplyCancellation, Moved, NoMail
  <2>2. CASE t \in Kids
      BY <1>6, <2>2, CancelBegins DEF ApplyCancellation, Moved, NoMail
  <2> QED BY <2>1, <2>2
<1>14. ASSUME NEW k \in Kids, StopKid(k) PROVE Cascaded'
    BY <1>14, CancelBegins DEF StopKid, Moved
<1>15. ASSUME NEW p \in Cancels, CancelAsk(p) PROVE Cascaded'
  <2>1. UNCHANGED <<rows, wf, recording, inbox, fresh, run, spawning, sent, told, open, stopped>>
      BY <1>15 DEF CancelAsk
  <2>2. CASE /\ cancel[p].at = "ask" /\ Ask(cancel[p].of)
             /\ Moved(p, [at |-> "record", of |-> cancel[p].of, todo |-> cancel[p].todo])
      BY <2>1, <2>2 DEF Moved, Ask
  <2>3. ASSUME NEW k \in cancel[p].todo, cancel[p].at = "next", Ask(k),
               Moved(p, [at |-> "record", of |-> k, todo |-> cancel[p].todo \ {k}])
        PROVE  Cascaded'
      BY <2>1, <2>3 DEF Moved, Ask
  <2>4. CASE \E k \in cancel[p].todo :
               /\ cancel[p].at = "next" /\ Ask(k)
               /\ Moved(p, [at |-> "record", of |-> k, todo |-> cancel[p].todo \ {k}])
      BY <2>3, <2>4
  <2>5. \/ /\ cancel[p].at = "ask" /\ Ask(cancel[p].of)
           /\ Moved(p, [at |-> "record", of |-> cancel[p].of, todo |-> cancel[p].todo])
        \/ \E k \in cancel[p].todo :
             /\ cancel[p].at = "next" /\ Ask(k)
             /\ Moved(p, [at |-> "record", of |-> k, todo |-> cancel[p].todo \ {k}])
      BY <1>15, CancelMoves, ZenonT(40)
  <2> QED BY <2>2, <2>4, <2>5
<1>16. ASSUME NEW p \in Cancels, CancelRecord(p) PROVE Cascaded'
  <2>1. /\ status' = [status EXCEPT ![cancel[p].of] = "cancelled"] /\ cancel[p].at = "record"
        /\ UNCHANGED <<linked, finished, stored, wf, recording, asked, inbox, fresh, run, spawning,
                       sent, told, history>>
      BY <1>16 DEF CancelRecord
  <2>2. Moved(p, [at |-> IF cancel[p].of = Root THEN "list" ELSE "next",
                  of |-> cancel[p].of, todo |-> cancel[p].todo])
      BY <1>16, CancelMoves
  <2> QED BY <2>1, <2>2 DEF Moved
<1>17. ASSUME NEW p \in Cancels, CancelList(p) PROVE Cascaded'
  <2>1. /\ cancel[p].at = "list" /\ UNCHANGED <<rows, wf, recording, asked, inbox, fresh, run,
                                                spawning, sent, told, history>>
      BY <1>17 DEF CancelList
  <2>2. Moved(p, [at |-> "next", of |-> cancel[p].of, todo |-> ActiveKids])
      BY <1>17, CancelMoves
  <2> QED BY <2>1, <2>2 DEF Moved, ActiveKids
<1>18. ASSUME NEW p \in Cancels, CancelReturns(p) PROVE Cascaded'
  <2>1. Moved(p, [at |-> IF p = "user" THEN "done" ELSE "off", of |-> Root, todo |-> {}])
      BY ONLY <1>18, <1>50
  <2>2. p # "cascade" => UNCHANGED <<wf, asked>>
      BY <1>18 DEF CancelReturns
  <2>3. p = "cascade" => cancel'["cascade"].at # "record"
      BY <2>1 DEF Moved
  <2> QED BY <2>1, <2>2, <2>3 DEF Moved
<1>19. CASE UserSends
    BY <1>19 DEF UserSends, Opens
<1>20. CASE UserCancels
    BY <1>20, CancelBegins DEF UserCancels, Moved
<1>22. ASSUME NEW t \in Threads, Workflow(t) PROVE Cascaded'
    BY <1>22, <1>1, <1>2, <1>21, <1>3, <1>4, <1>5, <1>6, <1>26 DEF Workflow
<1>23. ASSUME NEW k \in Kids, Handler(k) PROVE Cascaded'
    BY <1>23, <1>7, <1>8 DEF Handler
<1>24. ASSUME NEW k \in Kids, Tool(k) PROVE Cascaded'
    BY <1>24, <1>9, <1>10, <1>11, <1>12, <1>13, <1>14 DEF Tool
<1>25. ASSUME NEW p \in Cancels, Cancel(p) PROVE Cascaded'
    BY <1>25, <1>15, <1>16, <1>17, <1>18 DEF Cancel
<1> QED BY <1>0, <1>19, <1>20, <1>22, <1>23, <1>24, <1>25 DEF Next

\* Every step keeps what no cancel has reached active in its row.
LEMMA FoundStep == Shapes /\ CancelTypes /\ AtWork /\ Cancelling /\ Cascaded /\ Found /\ [Next]_vars => Found'
<1> SUFFICES ASSUME Shapes, CancelTypes, AtWork, Cancelling, Cascaded, Found, [Next]_vars,
                    \A p \in Cancels : cancel[p].of \in Threads /\ cancel[p].todo \subseteq Kids
             PROVE  Found'
    BY DEF CancelTypes, CancelSet
<1> USE DEF Shapes, AtWork, Cancelling, Cascaded, Found, Unasked, Threads, Working, Final, rows, clients, history, Cancels
<1>0. CASE UNCHANGED vars
    BY <1>0 DEF vars
<1>1. ASSUME NEW t \in Threads, StartRun(t) PROVE Found'
    BY <1>1 DEF StartRun, Loses, ActiveRow, HasMail
<1>2. ASSUME NEW t \in Threads, TurnEnds(t) PROVE Found'
    BY <1>2 DEF TurnEnds
<1>21. ASSUME NEW t \in Threads, TurnFails(t) PROVE Found'
    BY <1>21 DEF TurnFails, TurnStops, Loses
<1>3. ASSUME NEW t \in Threads, ToolsEnd(t) PROVE Found'
    BY <1>3 DEF ToolsEnd
<1>4. ASSUME NEW t \in Threads, FinishRun(t) PROVE Found'
    BY <1>4 DEF FinishRun, AfterRun, Reaches, Onward, HasMail, Ended
<1>26. ASSUME NEW t \in Threads, StartAborted(t) PROVE Found'
    BY <1>26 DEF StartAborted, ActiveRow, HasMail, NoMail
<1>5. ASSUME NEW t \in Threads, SeeCancel(t) PROVE Found'
    BY <1>5 DEF SeeCancel, TurnStops, Loses, NoMail
<1>7. ASSUME NEW k \in Kids, HandlerReports(k) PROVE Found'
    BY <1>7 DEF HandlerReports, AfterRun, Reaches, Onward, HasMail
<1>8. ASSUME NEW k \in Kids, FinalizeAgain(k) PROVE Found'
    BY <1>8 DEF FinalizeAgain
<1>9. ASSUME NEW k \in Kids, SpawnRow(k) PROVE Found'
    BY <1>9 DEF SpawnRow, Delegates, Unspawned
<1>10. ASSUME NEW k \in Kids, SpawnStart(k) PROVE Found'
    BY <1>10 DEF SpawnStart, Tell, Opens
<1>11. ASSUME NEW k \in Kids, SpawnDies(k) PROVE Found'
    BY <1>11 DEF SpawnDies
<1>12. ASSUME NEW k \in Kids, SpawnDirect(k) PROVE Found'
    BY <1>12 DEF SpawnDirect, Delegates, Unspawned, Tell, Opens
<1>13. ASSUME NEW k \in Kids, MessageKid(k) PROVE Found'
    BY <1>13 DEF MessageKid, Tell, Opens
<1>6. ASSUME NEW t \in Threads, ApplyCancellation(t) PROVE Found'
  <2>1. CASE t = Root
      BY <1>6, <2>1, CancelBegins DEF ApplyCancellation, Moved, NoMail
  <2>2. CASE t \in Kids
      BY <1>6, <2>2, CancelBegins DEF ApplyCancellation, Moved, NoMail
  <2> QED BY <2>1, <2>2
<1>14. ASSUME NEW k \in Kids, StopKid(k) PROVE Found'
    BY <1>14, CancelBegins DEF StopKid, Moved
<1>15. ASSUME NEW p \in Cancels, CancelAsk(p) PROVE Found'
  <2>1. UNCHANGED <<rows, wf, recording, inbox, fresh, run, spawning, sent, told, open, stopped>>
      BY <1>15 DEF CancelAsk
  <2>2. CASE /\ cancel[p].at = "ask" /\ Ask(cancel[p].of)
             /\ Moved(p, [at |-> "record", of |-> cancel[p].of, todo |-> cancel[p].todo])
      BY <2>1, <2>2 DEF Moved, Ask
  <2>3. ASSUME NEW k \in cancel[p].todo, cancel[p].at = "next", Ask(k),
               Moved(p, [at |-> "record", of |-> k, todo |-> cancel[p].todo \ {k}])
        PROVE  Found'
      BY <2>1, <2>3 DEF Moved, Ask
  <2>4. CASE \E k \in cancel[p].todo :
               /\ cancel[p].at = "next" /\ Ask(k)
               /\ Moved(p, [at |-> "record", of |-> k, todo |-> cancel[p].todo \ {k}])
      BY <2>3, <2>4
  <2>5. \/ /\ cancel[p].at = "ask" /\ Ask(cancel[p].of)
           /\ Moved(p, [at |-> "record", of |-> cancel[p].of, todo |-> cancel[p].todo])
        \/ \E k \in cancel[p].todo :
             /\ cancel[p].at = "next" /\ Ask(k)
             /\ Moved(p, [at |-> "record", of |-> k, todo |-> cancel[p].todo \ {k}])
      BY <1>15, CancelMoves
  <2> QED BY <2>2, <2>4, <2>5
<1>16. ASSUME NEW p \in Cancels, CancelRecord(p) PROVE Found'
  <2>1. /\ status' = [status EXCEPT ![cancel[p].of] = "cancelled"] /\ cancel[p].at = "record"
        /\ UNCHANGED <<linked, finished, stored, wf, recording, asked, inbox, fresh, run, spawning,
                       sent, told, history>>
      BY <1>16 DEF CancelRecord
  <2>2. Moved(p, [at |-> IF cancel[p].of = Root THEN "list" ELSE "next",
                  of |-> cancel[p].of, todo |-> cancel[p].todo])
      BY <1>16, CancelMoves
  <2> QED BY <2>1, <2>2 DEF Moved
<1>17. ASSUME NEW p \in Cancels, CancelList(p) PROVE Found'
  <2>1. /\ cancel[p].at = "list" /\ UNCHANGED <<rows, wf, recording, asked, inbox, fresh, run,
                                                spawning, sent, told, history>>
      BY <1>17 DEF CancelList
  <2>2. Moved(p, [at |-> "next", of |-> cancel[p].of, todo |-> ActiveKids])
      BY <1>17, CancelMoves
  <2> QED BY <2>1, <2>2 DEF Moved, ActiveKids
<1>18. ASSUME NEW p \in Cancels, CancelReturns(p) PROVE Found'
  <2>1. Moved(p, [at |-> IF p = "user" THEN "done" ELSE "off", of |-> Root, todo |-> {}])
      BY <1>18, CancelMoves
  <2> QED BY <1>18, <2>1 DEF CancelReturns, Moved, Returns
<1>19. CASE UserSends
    BY <1>19 DEF UserSends, Opens
<1>20. CASE UserCancels
    BY <1>20, CancelBegins DEF UserCancels, Moved
<1>22. ASSUME NEW t \in Threads, Workflow(t) PROVE Found'
    BY <1>22, <1>1, <1>2, <1>21, <1>3, <1>4, <1>5, <1>6, <1>26 DEF Workflow
<1>23. ASSUME NEW k \in Kids, Handler(k) PROVE Found'
    BY <1>23, <1>7, <1>8 DEF Handler
<1>24. ASSUME NEW k \in Kids, Tool(k) PROVE Found'
    BY <1>24, <1>9, <1>10, <1>11, <1>12, <1>13, <1>14 DEF Tool
<1>25. ASSUME NEW p \in Cancels, Cancel(p) PROVE Found'
    BY <1>25, <1>15, <1>16, <1>17, <1>18 DEF Cancel
<1> QED BY <1>0, <1>19, <1>20, <1>22, <1>23, <1>24, <1>25 DEF Next

\* Every step keeps the children the user's cancel must reach in its reach.
LEMMA FollowedStep == Shapes /\ CancelTypes /\ AtWork /\ Cancelling /\ Cascaded /\ Found /\ Followed /\ [Next]_vars => Followed'
<1> SUFFICES ASSUME Shapes, CancelTypes, AtWork, Cancelling, Cascaded, Found, Followed, [Next]_vars,
                    \A p \in Cancels : cancel[p].of \in Threads /\ cancel[p].todo \subseteq Kids
             PROVE  Followed'
    BY DEF CancelTypes, CancelSet
<1> USE DEF Shapes, AtWork, Cancelling, Cascaded, Found, Followed, Unasked, Listing, Listed, Threads, Working, Final, rows, clients, history, Cancels
<1>0. CASE UNCHANGED vars
    BY <1>0 DEF vars
<1>1. ASSUME NEW t \in Threads, StartRun(t) PROVE Followed'
    BY <1>1 DEF StartRun, Loses, ActiveRow, HasMail
<1>2. ASSUME NEW t \in Threads, TurnEnds(t) PROVE Followed'
    BY <1>2 DEF TurnEnds
<1>21. ASSUME NEW t \in Threads, TurnFails(t) PROVE Followed'
    BY <1>21 DEF TurnFails, TurnStops, Loses
<1>3. ASSUME NEW t \in Threads, ToolsEnd(t) PROVE Followed'
    BY <1>3 DEF ToolsEnd
<1>4. ASSUME NEW t \in Threads, FinishRun(t) PROVE Followed'
    BY <1>4 DEF FinishRun, AfterRun, Reaches, Onward, HasMail, Ended
<1>26. ASSUME NEW t \in Threads, StartAborted(t) PROVE Followed'
    BY <1>26 DEF StartAborted, ActiveRow, HasMail, NoMail
<1>5. ASSUME NEW t \in Threads, SeeCancel(t) PROVE Followed'
    BY <1>5 DEF SeeCancel, TurnStops, Loses, NoMail
<1>7. ASSUME NEW k \in Kids, HandlerReports(k) PROVE Followed'
    BY <1>7 DEF HandlerReports, AfterRun, Reaches, Onward, HasMail
<1>8. ASSUME NEW k \in Kids, FinalizeAgain(k) PROVE Followed'
    BY <1>8 DEF FinalizeAgain
<1>9. ASSUME NEW k \in Kids, SpawnRow(k) PROVE Followed'
    BY <1>9 DEF SpawnRow, Delegates, Unspawned
<1>10. ASSUME NEW k \in Kids, SpawnStart(k) PROVE Followed'
    BY <1>10 DEF SpawnStart, Tell, Opens
<1>11. ASSUME NEW k \in Kids, SpawnDies(k) PROVE Followed'
    BY <1>11 DEF SpawnDies
<1>12. ASSUME NEW k \in Kids, SpawnDirect(k) PROVE Followed'
    BY <1>12 DEF SpawnDirect, Delegates, Unspawned, Tell, Opens
<1>13. ASSUME NEW k \in Kids, MessageKid(k) PROVE Followed'
    BY <1>13 DEF MessageKid, Tell, Opens
<1>6. ASSUME NEW t \in Threads, ApplyCancellation(t) PROVE Followed'
  <2>1. CASE t = Root
      BY <1>6, <2>1, CancelBegins DEF ApplyCancellation, Moved, NoMail
  <2>2. CASE t \in Kids
      BY <1>6, <2>2, CancelBegins DEF ApplyCancellation, Moved, NoMail
  <2> QED BY <2>1, <2>2
<1>14. ASSUME NEW k \in Kids, StopKid(k) PROVE Followed'
    BY <1>14, CancelBegins DEF StopKid, Moved
<1>15. ASSUME NEW p \in Cancels, CancelAsk(p) PROVE Followed'
  <2>1. UNCHANGED <<rows, wf, recording, inbox, fresh, run, spawning, sent, told, open, stopped>>
      BY <1>15 DEF CancelAsk
  <2>2. CASE /\ cancel[p].at = "ask" /\ Ask(cancel[p].of)
             /\ Moved(p, [at |-> "record", of |-> cancel[p].of, todo |-> cancel[p].todo])
      BY <2>1, <2>2 DEF Moved, Ask
  <2>3. ASSUME NEW k \in cancel[p].todo, cancel[p].at = "next", Ask(k),
               Moved(p, [at |-> "record", of |-> k, todo |-> cancel[p].todo \ {k}])
        PROVE  Followed'
      BY <2>1, <2>3 DEF Moved, Ask
  <2>4. CASE \E k \in cancel[p].todo :
               /\ cancel[p].at = "next" /\ Ask(k)
               /\ Moved(p, [at |-> "record", of |-> k, todo |-> cancel[p].todo \ {k}])
      BY <2>3, <2>4
  <2>5. \/ /\ cancel[p].at = "ask" /\ Ask(cancel[p].of)
           /\ Moved(p, [at |-> "record", of |-> cancel[p].of, todo |-> cancel[p].todo])
        \/ \E k \in cancel[p].todo :
             /\ cancel[p].at = "next" /\ Ask(k)
             /\ Moved(p, [at |-> "record", of |-> k, todo |-> cancel[p].todo \ {k}])
      BY <1>15, CancelMoves
  <2> QED BY <2>2, <2>4, <2>5
<1>16. ASSUME NEW p \in Cancels, CancelRecord(p) PROVE Followed'
  <2>1. /\ status' = [status EXCEPT ![cancel[p].of] = "cancelled"] /\ cancel[p].at = "record"
        /\ UNCHANGED <<linked, finished, stored, wf, recording, asked, inbox, fresh, run, spawning,
                       sent, told, history>>
      BY <1>16 DEF CancelRecord
  <2>2. Moved(p, [at |-> IF cancel[p].of = Root THEN "list" ELSE "next",
                  of |-> cancel[p].of, todo |-> cancel[p].todo])
      BY <1>16, CancelMoves
  <2> QED BY <2>1, <2>2 DEF Moved
<1>17. ASSUME NEW p \in Cancels, CancelList(p) PROVE Followed'
  <2>1. /\ cancel[p].at = "list" /\ UNCHANGED <<rows, wf, recording, asked, inbox, fresh, run,
                                                spawning, sent, told, history>>
      BY <1>17 DEF CancelList
  <2>2. Moved(p, [at |-> "next", of |-> cancel[p].of, todo |-> ActiveKids])
      BY <1>17, CancelMoves
  <2>3. \A k \in Kids : wf[k] \in Working /\ status[k] = "active" => k \in ActiveKids
      BY DEF ActiveKids
  <2>4. CASE p = "user"
      BY <2>1, <2>2, <2>3, <2>4 DEF Moved
  <2>5. CASE p # "user"
    <3>1. cancel'["user"] = cancel["user"]
        BY <2>2, <2>5 DEF Moved
    <3> QED BY <2>1, <3>1
  <2> QED BY <2>4, <2>5
<1>18. ASSUME NEW p \in Cancels, CancelReturns(p) PROVE Followed'
  <2>1. Moved(p, [at |-> IF p = "user" THEN "done" ELSE "off", of |-> Root, todo |-> {}])
      BY <1>18, CancelMoves
  <2> QED BY <1>18, <2>1 DEF CancelReturns, Moved, Returns
<1>19. CASE UserSends
    BY <1>19 DEF UserSends, Opens
<1>20. CASE UserCancels
  <2> DEFINE O(k) == [kid |-> k, run |-> run[k], phase |-> wf[k]]
  <2>1. /\ cancel["user"].at = "off" /\ open' = {O(k) : k \in {k \in linked : wf[k] # "closed"}}
        /\ UNCHANGED <<rows, wf, recording, asked, inbox, fresh, run, spawning, sent, told, hit, stopped>>
      BY <1>20 DEF UserCancels, Off
  <2>2. cancel'["user"].at = "ask"
      BY <1>20, CancelBegins DEF Moved
  <2>3. ASSUME NEW k \in linked
        PROVE  /\ O(k).kid \in Kids /\ O(k).run \in Nat /\ O(k).run <= run[O(k).kid]
               /\ Unasked(k) => status[k] = "active"
      BY <2>1
  <2>4. ASSUME NEW o \in open' PROVE \E k \in linked : o = O(k)
      BY <2>1, <2>4
  <2> HIDE DEF O
  <2>5. ASSUME NEW o \in open'
        PROVE  /\ o.kid \in Kids /\ o.run \in Nat /\ o.run <= run'[o.kid]
               /\ Unasked(o.kid)' => Listing' /\ status'[o.kid] = "active"
    <3>1. PICK k \in linked : o = O(k)
        BY <2>4
    <3>2. o.kid = k
        BY <3>1 DEF O
    <3> QED BY <2>1, <2>2, <2>3, <3>1, <3>2
  <2> QED BY <2>5
<1>22. ASSUME NEW t \in Threads, Workflow(t) PROVE Followed'
    BY <1>22, <1>1, <1>2, <1>21, <1>3, <1>4, <1>5, <1>6, <1>26 DEF Workflow
<1>23. ASSUME NEW k \in Kids, Handler(k) PROVE Followed'
    BY <1>23, <1>7, <1>8 DEF Handler
<1>24. ASSUME NEW k \in Kids, Tool(k) PROVE Followed'
    BY <1>24, <1>9, <1>10, <1>11, <1>12, <1>13, <1>14 DEF Tool
<1>25. ASSUME NEW p \in Cancels, Cancel(p) PROVE Followed'
    BY <1>25, <1>15, <1>16, <1>17, <1>18 DEF Cancel
<1> QED BY <1>0, <1>19, <1>20, <1>22, <1>23, <1>24, <1>25 DEF Next
-----------------------------------------------------------------------------
(* The theorems.                                                           *)

\* Every step keeps the invariant.
LEMMA DelegateThen == DelegateInv /\ [Next]_vars => DelegateInv'
BY ShapesStep, CancelTypesStep, CountStep, WorkStep, ToldStep, CancellingStep, UnbegunStep,
   CascadedStep, FoundStep, FollowedStep DEF DelegateInv, TypeInv, CancelInv

\* No cancel is under way at the start.
LEMMA DelegateInit == Init => DelegateInv
<1> SUFFICES ASSUME Init PROVE DelegateInv
    OBVIOUS
<1>1. \A p \in Cancels : cancel[p] = [at |-> "off", of |-> Root, todo |-> {}]
    BY DEF Init, Off
<1>2. CancelInv
    BY <1>1 DEF Init, CancelInv, Unbegun, Cancelling, Cascaded, Found, Followed, Unasked, Cancels,
                Threads, Working
<1> QED BY <1>2, TypeInit DEF DelegateInv

\* The invariant holds in every state.
LEMMA DelegateAlways == Spec => []DelegateInv
<1> QED BY DelegateInit, DelegateThen, PTL DEF Spec

\* For any children and any bounds, the state is well formed, and nothing tells the
\* parent of a run that is still open in the stores: finalize_run writes the rows, and
\* only then calls the handler that reports.
THEOREM DelegationCorrect == Spec => []DelegationInv
<1>1. ASSUME DelegateInv PROVE DelegationInv
  <2>1. Shapes /\ CancelTypes /\ Counted /\ AtWork /\ Told
      BY <1>1 DEF DelegateInv, TypeInv
  <2>2. /\ inbox.kid \in [Kids -> 0 .. 1 + MaxTold] /\ inbox.root \subseteq Mail
        /\ run \in [Kids -> 0 .. 1 + MaxTold]
    <3>1. /\ inbox \in [kid : [Kids -> Nat], root : SUBSET Mail] /\ run \in [Kids -> Nat]
          /\ \A k \in Kids : run[k] \in 0 .. 1 + MaxTold /\ inbox.kid[k] \in 0 .. 1 + MaxTold
        BY <2>1, RunsBounded DEF Shapes
    <3>2. /\ inbox.kid \in [Kids -> Nat] /\ inbox.root \subseteq Mail
        BY <3>1
    <3> QED BY <3>1, <3>2
  <2>3. \A p \in Cancels : cancel[p].at \in {"off", "ask", "record", "list", "next", "done"}
      BY <2>1 DEF CancelTypes, CancelSet, Ats
  <2>4. TypeOK
      BY <2>1, <2>2, <2>3 DEF TypeOK, Shapes, Wheres, Mail
  <2> QED BY <2>1, <2>4 DEF DelegationInv, ReportAfterFinish, Told
<1> QED BY <1>1, DelegateAlways, PTL

\* For any children and any bounds, when cancel_thread returns it has asked every child
\* that was at work when it was called and is at work on that run still: the rows it read
\* once named each of them, and it left none of the list.
THEOREM CancelReaches == Spec => RunningChildrenStop
<1> DEFINE Ret == cancel["user"].at = "next" /\ cancel'["user"].at = "done"
           Held == \A o \in open :
             /\ o.phase \in Working /\ o.kid \notin stopped
             /\ run[o.kid] = o.run /\ wf[o.kid] \in Working
             => asked[o.kid] # "no"
<1>1. ASSUME DelegateInv, [Next]_vars, Ret PROVE Held
  <2>1. Shapes /\ CancelTypes
      BY <1>1 DEF DelegateInv, TypeInv
  <2>2. ASSUME NEW p \in Cancels, Cancel(p) PROVE p = "user" /\ CancelReturns(p)
    <3>1. p = "user"
        BY <2>1, <2>2, <1>1, CancelMoves DEF Cancel, Moved, Cancels
    <3>0. ASSUME NEW a, NEW o, NEW w, Moved(p, [at |-> a, of |-> o, todo |-> w])
          PROVE  cancel'[p].at = a
        BY <3>0 DEF Moved
    <3>2. CancelAsk(p) => cancel'[p].at = "record"
        BY <2>1, <3>0, CancelMoves
    <3>3. CancelRecord(p) => cancel'[p].at \in {"list", "next"}
        BY <2>1, <3>0, CancelMoves
    <3>4. CancelList(p) => cancel'[p].at = "next"
        BY <2>1, <3>0, CancelMoves
    <3> QED BY <1>1, <2>2, <3>1, <3>2, <3>3, <3>4 DEF Cancel
  <2>3. \E p \in Cancels : Cancel(p)
    <3>1. ~UNCHANGED vars /\ ~UserSends
        BY <1>1 DEF vars, clients, UserSends
    <3>2. ~UserCancels
        BY <1>1, <2>1, CancelBegins DEF Moved
    <3>3. ASSUME NEW t \in Threads, Workflow(t) PROVE FALSE
      <4>1. CASE ApplyCancellation(t)
          BY <4>1, <1>1, <2>1, CancelBegins DEF Moved, Threads, Cancels
      <4>2. CASE StartRun(t) \/ TurnEnds(t) \/ TurnFails(t) \/ ToolsEnd(t) \/ FinishRun(t) \/ SeeCancel(t)
                     \/ StartAborted(t)
          BY <4>2, <1>1 DEF StartRun, TurnEnds, TurnFails, ToolsEnd, FinishRun, SeeCancel, StartAborted, clients
      <4> QED BY <3>3, <4>1, <4>2 DEF Workflow
    <3>4. ASSUME NEW k \in Kids, Handler(k) \/ Tool(k) PROVE FALSE
      <4>1. CASE StopKid(k)
          BY <4>1, <1>1, <2>1, CancelBegins DEF Moved, Cancels
      <4>2. CASE ~StopKid(k)
          BY <3>4, <4>2, <1>1 DEF Handler, Tool, HandlerReports, FinalizeAgain, SpawnRow, SpawnStart,
                                  SpawnDies, SpawnDirect, MessageKid, clients
      <4> QED BY <4>1, <4>2
    <3> QED BY <1>1, <3>1, <3>2, <3>3, <3>4 DEF Next
  <2>4. cancel["user"].todo = {}
      BY <2>2, <2>3 DEF CancelReturns, Returns
  <2> QED BY <1>1, <2>4 DEF DelegateInv, CancelInv, Followed, Unasked, Listing, Listed
<1> QED BY <1>1, DelegateAlways, PTL DEF Spec, RunningChildrenStop

=============================================================================
