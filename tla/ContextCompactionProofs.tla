------------------------ MODULE ContextCompactionProofs ------------------------
(* What holds of a thread that compacts, for any limits and any number of      *)
(* messages and turns, with proofs: nothing is hidden, every request is valid, *)
(* and the compaction rows are one chain.                                      *)
EXTENDS ContextCompaction, FiniteSetTheorems, SequenceTheorems, WellFoundedInduction, TLAPS

-----------------------------------------------------------------------------
(* The invariant.                                                          *)

Row     == MessageRow \cup CompactionRow
Wfs     == {"closed", "open", "store", "row", "gate", "measure", "model", "group", "wait",
            "compact", "write", "compactRow", "resend", "last", "lastRow"}
Storing == {"row", "compactRow", "lastRow"}
Stages  == {"none", "start", "write", "signal", "store", "append"}

\* The types.
Shapes ==
    /\ caller \in Callers /\ rows \in Seq(Row) /\ wf \in Wfs
    /\ compacted \in BOOLEAN /\ admitted \in BOOLEAN /\ waited \in BOOLEAN
    /\ ahead \in Nat /\ job \in BOOLEAN
    /\ summary \in Summary /\ ready \in Summary /\ childText \in Summary
    /\ plan \in CompactionRow \cup {NoRow} /\ childPlan \in CompactionRow \cup {NoRow}
    /\ wf \in Storing <=> plan # NoRow
    /\ child \in Stages
    /\ child = "append" <=> childPlan # NoRow
    /\ ready # NoSummary => child = "none"

\* Every message the user sent is in one place; a thread that is closed holds none.
Counted ==
    /\ inbox \in Nat /\ fresh \in Nat /\ gated \in Nat /\ failed \in Nat
    /\ sent = inbox + fresh + gated + failed + Cardinality(Positions("user"))
    /\ sent \in 0 .. MaxMessages
    /\ wf = "closed" => inbox = 0

\* While a summary is stored for it, the thread does not run unless it opened beside it;
\* and then nothing comes between the read and the append of a row.
Apart ==
    /\ beside \in BOOLEAN
    /\ ~beside =>
          /\ child \in {"store", "append"} => wf = "closed"
          /\ wf \in Storing => plan.read = Len(rows)
          /\ child = "append" => childPlan.read = Len(rows)

Speaks == {"answer", "call"}

\* The positions of one kind, the call of an open group, and what rows have missed.
At(r, k)    == {p \in DOMAIN r : r[p].kind = k}
OpenCall(r) == Max(At(r, "call"))
Gap(r)      == UNION {(r[p].read + 1) .. (p - 1) : p \in At(r, "compaction")}

\* Every call but the one of an open group has a result, and every result its call.
Answered(r, w) ==
    /\ w = "group" => At(r, "call") # {}
    /\ \A p \in At(r, "call") :
          (w = "group" /\ p = OpenCall(r)) \/ \E q \in At(r, "result") : r[q].of = p
    /\ \A q \in At(r, "result") : r[q].of \in At(r, "call") /\ r[q].of < q
    /\ w = "group" => \A p \in DOMAIN r : r[p].kind \in Speaks => p <= OpenCall(r)

\* What of r may be kept, beside what was missed: no call without its result, and no
\* result without its call but one of an earlier turn.
Fit(V, M, r, w) ==
    /\ w = "group" => OpenCall(r) \in V \cup M
    /\ \A p \in V \cap At(r, "call") :
          (w = "group" /\ p = OpenCall(r)) \/ \E q \in (V \cup M) \cap At(r, "result") : r[q].of = p
    /\ \A q \in V \cap At(r, "result") :
          r[q].of \in V \cup M \/ \E p \in DOMAIN r : r[p].kind \in Speaks /\ r[q].of < p

\* A boundary before the open turn: an answer or a call follows it, or it is an answer.
Past(r, t) ==
    \/ t = 0
    \/ \E q \in DOMAIN r : r[q].kind \in Speaks /\ t <= q /\ (t = q => r[q].kind = "answer")

\* A summary that is not stale covers what it replaces.
Written(s, n, latest, covered, view) ==
    /\ s.through <= n /\ s.base <= n
    /\ s.base = latest => covered \cup {p \in view : p <= s.through} \subseteq s.covers

WrittenNow(s) == Written(s, Len(rows), Latest, Covered, View)

Texts ==
    /\ Past(rows, ahead) /\ Past(rows, summary.through) /\ Past(rows, ready.through)
    /\ Past(rows, childText.through)
    /\ WrittenNow(summary) /\ WrittenNow(ready)
    /\ child \in {"signal", "store", "append"} => WrittenNow(childText)

\* A row that is planned, of the rows it was planned from: it replaces the latest of
\* them, hides none, and is fit to be kept beside what comes before it is appended.
Planned(c, r, w) ==
    /\ c.read <= Len(r)
    /\ c.base = Max({0} \cup {q \in At(r, "compaction") : q <= c.read})
    /\ \A p \in DOMAIN r : p <= c.read =>
          r[p].kind = "compaction" \/ p \in c.kept \cup c.covers \cup Gap(r)
    /\ Fit(c.kept, Gap(r) \cup ((c.read + 1) .. Len(r)), r, w)

Plans ==
    /\ wf \in Storing => Planned(plan, rows, wf)
    /\ child = "append" => Planned(childPlan, rows, wf)

RowsInv ==
    /\ Answered(rows, wf) /\ Fit(View, Missed, rows, wf)
    /\ \A p \in Positions("compaction") : rows[p].read < p
    /\ NothingHidden /\ OneChain /\ NoneBetween

ContextInv == Shapes /\ Counted /\ Apart /\ RowsInv /\ Texts /\ Plans
-----------------------------------------------------------------------------
(* Positions.                                                              *)

USE CompactionAssumption

\* The greatest of a set of naturals that has a bound.
LEMMA GreatestOf ==
    ASSUME NEW S, S \subseteq Nat, S # {}, NEW n \in Nat, \A x \in S : x <= n
    PROVE  Max(S) \in S /\ \A x \in S : x <= Max(S)
<1> DEFINE R == {ss \in Nat \X Nat : ss[1] < ss[2]}
           U == {m \in Nat : \A x \in S : x <= m}
<1>1. IsWellFoundedOn(R, Nat)
    BY NatLessThanWellFounded DEF OpToRel
<1>2. U \subseteq Nat /\ U # {}
    OBVIOUS
<1>3. \E x \in U : \A y \in U : ~(<<y, x>> \in R)
  <2> HIDE DEF R, U
  <2> QED BY <1>1, <1>2, WFMin
<1>4. PICK m \in U : \A y \in U : ~(y < m)
    BY <1>3, <1>2
<1>5. m \in S
  <2>1. ASSUME m \notin S PROVE FALSE
    <3>1. \A x \in S : x < m
        BY <2>1
    <3>2. PICK x \in S : TRUE
        OBVIOUS
    <3>3. m > 0
        BY <3>1, <3>2
    <3>4. m - 1 \in U
        BY <3>1, <3>3
    <3> QED BY <1>4, <3>4
  <2> QED BY <2>1
<1>6. \E x \in S : \A y \in S : x >= y
    BY <1>4, <1>5
<1>7. Max(S) \in S /\ \A y \in S : Max(S) >= y
    BY <1>6 DEF Max
<1> QED BY <1>7

\* The greatest of a set of positions, when it is known.
LEMMA GreatestIs ==
    ASSUME NEW S, S \subseteq Nat, NEW m \in S, \A x \in S : x <= m
    PROVE  Max(S) = m
<1>1. \E x \in S : \A y \in S : x >= y
    OBVIOUS
<1>2. Max(S) \in S /\ \A y \in S : Max(S) >= y
    BY <1>1 DEF Max
<1>3. Max(S) >= m /\ Max(S) <= m /\ Max(S) \in Nat /\ m \in Nat
    BY <1>2
<1> QED BY <1>3

\* Where the rows are, and the latest compaction row among them.
LEMMA RowsThere ==
    ASSUME rows \in Seq(Row)
    PROVE  /\ Len(rows) \in Nat /\ DOMAIN rows = 1 .. Len(rows)
           /\ \A p \in DOMAIN rows : rows[p] \in Row
           /\ \A p \in DOMAIN rows : rows[p].kind = "compaction" <=> rows[p] \in CompactionRow
           /\ Latest \in Nat /\ Latest <= Len(rows)
           /\ Latest # 0 => Latest \in DOMAIN rows /\ rows[Latest].kind = "compaction"
           /\ \A p \in DOMAIN rows : rows[p].kind = "compaction" => p <= Latest
           /\ Messages = {p \in DOMAIN rows : rows[p].kind # "compaction"}
           /\ View = {p \in Messages : Latest = 0 \/ p > Latest \/ p \in rows[Latest].kept}
           /\ Covered \subseteq Nat
<1>1. Len(rows) \in Nat /\ DOMAIN rows = 1 .. Len(rows) /\ \A p \in DOMAIN rows : rows[p] \in Row
    OBVIOUS
<1>2. \A p \in DOMAIN rows : rows[p].kind = "compaction" <=> rows[p] \in CompactionRow
    BY <1>1 DEF Row, MessageRow, CompactionRow
<1> DEFINE S == {0} \cup Positions("compaction")
<1>3. S \subseteq Nat /\ S # {} /\ \A x \in S : x <= Len(rows)
    BY <1>1 DEF Positions
<1>4. Latest \in S /\ \A x \in S : x <= Latest
    BY <1>1, <1>3, GreatestOf DEF Latest
<1>5. Latest \in Nat /\ Latest <= Len(rows)
    BY <1>3, <1>4
<1>6. Latest # 0 => Latest \in DOMAIN rows /\ rows[Latest].kind = "compaction"
    BY <1>4 DEF Positions
<1>7. \A p \in DOMAIN rows : rows[p].kind = "compaction" => p <= Latest
    BY <1>4 DEF Positions
<1>8. Messages = {p \in DOMAIN rows : rows[p].kind # "compaction"}
    BY DEF Messages, Positions
<1>9. View = {p \in Messages : Latest = 0 \/ p > Latest \/ p \in rows[Latest].kept}
    BY DEF View
<1>10. Covered \subseteq Nat
    BY <1>2, <1>6 DEF Covered, CompactionRow
<1> QED BY <1>1, <1>2, <1>5, <1>6, <1>7, <1>8, <1>9, <1>10

\* Messages are appended: the latest compaction row is the same, and all of them are
\* in the view.
LEMMA MoreMessages ==
    ASSUME rows \in Seq(Row), NEW more \in Seq(MessageRow), rows' = rows \o more
    PROVE  /\ rows' \in Seq(Row) /\ Len(rows') = Len(rows) + Len(more)
           /\ \A p \in DOMAIN rows : rows'[p] = rows[p]
           /\ \A i \in 1 .. Len(more) : rows'[Len(rows) + i] = more[i]
           /\ Positions("compaction")' = Positions("compaction")
           /\ Latest' = Latest /\ Covered' = Covered /\ Missed' = Missed
           /\ Messages' = Messages \cup (Len(rows) + 1 .. Len(rows'))
           /\ View' = View \cup (Len(rows) + 1 .. Len(rows'))
<1>1. /\ rows' \in Seq(Row) /\ Len(rows') = Len(rows) + Len(more) /\ Len(more) \in Nat
      /\ \A p \in DOMAIN rows : rows'[p] = rows[p]
      /\ \A i \in 1 .. Len(more) : rows'[Len(rows) + i] = more[i] /\ more[i] \in MessageRow
  <2>1. more \in Seq(Row)
      BY DEF Row
  <2> QED BY <2>1
<1>2. DOMAIN rows' = 1 .. Len(rows')
    BY <1>1
<1> DEFINE new == Len(rows) + 1 .. Len(rows')
<1>3. ASSUME NEW p \in new PROVE p \in DOMAIN rows' /\ rows'[p].kind # "compaction"
  <2>1. p - Len(rows) \in 1 .. Len(more) /\ p = Len(rows) + (p - Len(rows)) /\ p \in DOMAIN rows'
      BY <1>1, <1>2, RowsThere
  <2>2. rows'[p] \in MessageRow
      BY <1>1, <2>1
  <2> QED BY <2>1, <2>2 DEF MessageRow
<1>4. DOMAIN rows' = DOMAIN rows \cup new /\ \A p \in DOMAIN rows : p \notin new
    BY <1>1, <1>2, RowsThere
<1>5. Positions("compaction")' = Positions("compaction")
    BY <1>1, <1>3, <1>4 DEF Positions
<1>6. Latest' = Latest
    BY <1>5 DEF Latest
<1>7. Messages' = Messages \cup new
    BY <1>4, <1>5, <1>3 DEF Messages, Positions
<1>8. Latest # 0 => rows'[Latest] = rows[Latest]
    BY <1>1, RowsThere
<1>9. Covered' = Covered
    BY <1>6, <1>8 DEF Covered
<1>10. View' = View \cup new
  <2>1. \A p \in new : p > Latest
      BY <1>1, RowsThere
  <2> QED BY <2>1, <1>6, <1>7, <1>8 DEF View
<1>11. Missed' = Missed
  <2>1. \A p \in Positions("compaction") : rows'[p] = rows[p]
      BY <1>1 DEF Positions
  <2> QED BY <1>5, <2>1 DEF Missed
<1> QED BY <1>1, <1>5, <1>6, <1>7, <1>9, <1>10, <1>11

\* A compaction row is appended: it is the latest, and the view is what it kept.
LEMMA NextCompaction ==
    ASSUME rows \in Seq(Row), NEW c \in CompactionRow, rows' = Append(rows, c)
    PROVE  /\ rows' \in Seq(Row) /\ Len(rows') = Len(rows) + 1
           /\ \A p \in DOMAIN rows : rows'[p] = rows[p]
           /\ rows'[Len(rows')] = c
           /\ Positions("compaction")' = Positions("compaction") \cup {Len(rows')}
           /\ Latest' = Len(rows') /\ Covered' = c.covers
           /\ Messages' = Messages
           /\ View' = Messages \cap c.kept
           /\ Missed' = Missed \cup ((c.read + 1) .. Len(rows))
<1>1. /\ rows' \in Seq(Row) /\ Len(rows') = Len(rows) + 1
      /\ \A p \in DOMAIN rows : rows'[p] = rows[p]
      /\ rows'[Len(rows')] = c
    BY DEF Row
<1>2. Len(rows) \in Nat /\ DOMAIN rows = 1 .. Len(rows) /\ DOMAIN rows' = DOMAIN rows \cup {Len(rows')}
    BY <1>1
<1>3. c.kind = "compaction"
    BY DEF CompactionRow
<1>4. Positions("compaction")' = Positions("compaction") \cup {Len(rows')}
    BY <1>1, <1>2, <1>3 DEF Positions
<1>5. Latest' = Len(rows')
  <2> DEFINE S == {0} \cup Positions("compaction")'
  <2>1. S \subseteq Nat /\ Len(rows') \in S /\ \A x \in S : x <= Len(rows')
      BY <1>1, <1>2, <1>4 DEF Positions
  <2> HIDE DEF S
  <2>2. Max(S) = Len(rows')
      BY <2>1, GreatestIs
  <2> QED BY <2>2 DEF S, Latest
<1>6. Messages' = Messages
    BY <1>1, <1>2, <1>3 DEF Messages, Positions
<1>7. Covered' = c.covers /\ View' = {p \in Messages : p > Len(rows') \/ p \in c.kept}
    BY <1>1, <1>2, <1>5, <1>6 DEF Covered, View
<1>8. \A p \in Messages : ~(p > Len(rows'))
    BY <1>1, <1>2 DEF Messages
<1>9. Missed' = Missed \cup ((c.read + 1) .. Len(rows))
  <2>1. \A p \in Positions("compaction") : rows'[p] = rows[p]
      BY <1>1 DEF Positions
  <2>2. Len(rows') - 1 = Len(rows)
      BY <1>1, <1>2
  <2> DEFINE last == Len(rows')
             new(p) == (rows'[p].read + 1) .. (p - 1)
             P == Positions("compaction")
  <2>3. Missed' = UNION {new(p) : p \in P \cup {last}}
      BY <1>4 DEF Missed
  <2>4. new(last) = (c.read + 1) .. Len(rows)
      BY <1>1, <2>2
  <2>5. \A p \in P : new(p) = (rows[p].read + 1) .. (p - 1)
      BY <2>1
  <2> HIDE DEF new, last, P
  <2>6. Missed' = (UNION {new(p) : p \in P}) \cup new(last)
      BY <2>3
  <2>7. UNION {new(p) : p \in P} = UNION {(rows[p].read + 1) .. (p - 1) : p \in P}
      BY <2>5
  <2> QED BY <2>4, <2>6, <2>7 DEF Missed, P
<1> QED BY <1>1, <1>4, <1>5, <1>6, <1>7, <1>8, <1>9
-----------------------------------------------------------------------------
(* What a step does to the rows.                                           *)

\* The rows after the step: as they were, with what the user said, with an answer, with
\* a call's result, or with a compaction row that was planned.
SameRows  == rows' = rows /\ (wf' = "group" <=> wf = "group")
Inbound   == /\ \E n \in Nat : rows' = StoreInbound(n)
             /\ wf \in {"measure", "resend"} /\ wf' = "model"
Spoken(k) == /\ rows' = Append(rows, Message(k, 0)) /\ wf = "model" /\ wf' \in {"group", "last"}
             /\ wf' = "group" <=> k = "call"
Result    == /\ rows' = Append(rows, Message("result", Max(Positions("call"))))
             /\ wf = "group" /\ wf' = "open"
Compacted == \/ rows' = Append(rows, plan) /\ wf \in Storing /\ wf' \notin {"group"} \cup Storing
             \/ rows' = Append(rows, childPlan) /\ child = "append" /\ child' = "none" /\ wf' = wf

\* Every step is one of these.
LEMMA RowsChange ==
    Shapes /\ Counted /\ [Next]_vars =>
        SameRows \/ Inbound \/ (\E k \in Speaks : Spoken(k)) \/ Result \/ Compacted
<1> SUFFICES ASSUME Shapes, Counted, [Next]_vars
             PROVE  SameRows \/ Inbound \/ (\E k \in Speaks : Spoken(k)) \/ Result \/ Compacted
    OBVIOUS
<1> USE DEF turnVars, childVars, history, SameRows
<1>1. CASE UNCHANGED vars
    BY <1>1 DEF vars
<1>2. CASE UserSends
    BY <1>2 DEF UserSends
<1>3. CASE LocalRun
    BY <1>3 DEF LocalRun
<1>4. CASE AttemptLost
    BY <1>4 DEF AttemptLost
<1>5. CASE StartTurn
    BY <1>5 DEF StartTurn
<1>6. CASE TurnStores
    BY <1>6 DEF TurnStores, ReadToStore, AppendRow, Compacted, Storing
<1>7. CASE Admits
    BY <1>7 DEF Admits
<1>8. CASE Refuses
    BY <1>8 DEF Refuses
<1>9. CASE MeasureBelow
    BY <1>9 DEF MeasureBelow, Inbound, Counted
<1>10. CASE MeasureAbove
    BY <1>10 DEF MeasureAbove
<1>11. CASE TakeSummary
    BY <1>11 DEF TakeSummary
<1>12. CASE CompactSummarizes
    BY <1>12 DEF CompactSummarizes
<1>13. CASE CompactStores
    BY <1>13 DEF CompactStores, ReadToStore
<1>14. CASE CompactAppends
    BY <1>14 DEF CompactAppends, AppendRow, Compacted, Storing
<1>15. CASE CompactFails
    BY <1>15 DEF CompactFails
<1>16. CASE Resend
    BY <1>16 DEF Resend, Inbound, Counted
<1>17. ASSUME NEW k \in Speaks, ModelAnswers(k) PROVE Spoken(k)
    BY <1>17 DEF ModelAnswers, Spoken, Speaks
<1>18. CASE ModelFails
    BY <1>18 DEF ModelFails
<1>19. CASE GroupEnds
    BY <1>19 DEF GroupEnds, Result
<1>20. CASE LastSummary
    BY <1>20 DEF LastSummary
<1>21. CASE LastAppends
    BY <1>21 DEF LastAppends, AppendRow, Compacted, Storing
<1>22. CASE NextRun \/ Stop
    BY <1>22 DEF NextRun, Stop
<1>23. CASE Child
    BY <1>23 DEF Child, ChildSummarizes, LocalSummarizes, ChildFails, ChildSignals, ChildFindsClosed,
                 ChildReads, ChildAppends, Compacted
<1> QED BY <1>1, <1>2, <1>3, <1>4, <1>5, <1>6, <1>7, <1>8, <1>9, <1>10, <1>11, <1>12, <1>13, <1>14,
           <1>15, <1>16, <1>17, <1>18, <1>19, <1>20, <1>21, <1>22, <1>23 DEF Next, Thread, Speaks


\* Messages that are appended hide nothing, and start no chain.
LEMMA MessagesShow ==
    ASSUME rows \in Seq(Row), NEW more \in Seq(MessageRow), rows' = rows \o more,
           NothingHidden, OneChain
    PROVE  NothingHidden' /\ OneChain'
<1>1. NothingHidden'
    BY MoreMessages DEF NothingHidden
<1>2. ASSUME NEW p \in Positions("compaction")
      PROVE  rows'[p].base = Max({0} \cup {q \in Positions("compaction")' : q <= rows'[p].read})
  <2>1. rows'[p] = rows[p]
      BY MoreMessages DEF Positions
  <2>2. Positions("compaction")' = Positions("compaction")
      BY MoreMessages
  <2>3. rows[p].base = Max({0} \cup {q \in Positions("compaction") : q <= rows[p].read})
      BY DEF OneChain
  <2> HIDE DEF Positions
  <2> QED BY <2>1, <2>2, <2>3
<1>3. OneChain'
    BY <1>2, MoreMessages DEF OneChain
<1> QED BY <1>1, <1>3

-----------------------------------------------------------------------------
(* The rows grow, and what was kept, or is planned to be, stays fit.       *)

\* What a step makes of the rows r, with the thread at w and then at w2: what the user
\* said or a compaction row, an answer or a call, or the result of the open call.
Grows(r, w, r2, w2) ==
    /\ r2 \in Seq(Row) /\ Len(r) <= Len(r2) /\ \A p \in DOMAIN r : r2[p] = r[p]
    /\ \/ /\ w2 = "group" <=> w = "group"
          /\ \A p \in DOMAIN r2 : p \notin DOMAIN r => r2[p].kind \in {"user", "compaction"}
       \/ /\ w # "group" /\ Len(r2) = Len(r) + 1 /\ r2[Len(r2)].kind \in Speaks
          /\ w2 = "group" <=> r2[Len(r2)].kind = "call"
       \/ /\ w = "group" /\ w2 # "group" /\ Len(r2) = Len(r) + 1
          /\ r2[Len(r2)].kind = "result" /\ r2[Len(r2)].of = OpenCall(r)

\* The open call of a group is the last of the calls.
LEMMA OpenCallIs ==
    ASSUME NEW r \in Seq(Row), At(r, "call") # {}
    PROVE  OpenCall(r) \in At(r, "call") /\ \A p \in At(r, "call") : p <= OpenCall(r)
<1> DEFINE S == At(r, "call")
<1>1. S \subseteq Nat /\ Len(r) \in Nat /\ \A x \in S : x <= Len(r)
    BY DEF At
<1> HIDE DEF S
<1>2. S # {}
    BY DEF S
<1>3. Max(S) \in S /\ \A x \in S : x <= Max(S)
    BY <1>1, <1>2, GreatestOf
<1> QED BY <1>3 DEF S, OpenCall

\* A call that was added is the open one; without one, the open call is the same.
LEMMA OpenCallGrows ==
    ASSUME NEW r \in Seq(Row), NEW w, NEW r2, NEW w2, Grows(r, w, r2, w2)
    PROVE  /\ DOMAIN r = 1 .. Len(r) /\ DOMAIN r2 = 1 .. Len(r2)
           /\ Len(r) \in Nat /\ Len(r2) \in Nat /\ DOMAIN r \subseteq DOMAIN r2
           /\ \A k : At(r, k) \subseteq At(r2, k)
           /\ w = "group" => At(r2, "call") = At(r, "call") /\ OpenCall(r2) = OpenCall(r)
           /\ w2 = "group" /\ w # "group" => OpenCall(r2) = Len(r2)
<1>1. /\ DOMAIN r = 1 .. Len(r) /\ DOMAIN r2 = 1 .. Len(r2) /\ Len(r) \in Nat /\ Len(r2) \in Nat
      /\ DOMAIN r \subseteq DOMAIN r2
    BY DEF Grows
<1>2. \A k : At(r, k) \subseteq At(r2, k)
    BY <1>1 DEF At, Grows
<1>3. ASSUME w = "group" PROVE At(r2, "call") = At(r, "call")
  <2>1. ASSUME NEW p \in DOMAIN r2, p \notin DOMAIN r PROVE r2[p].kind # "call"
    <3>1. CASE Len(r2) = Len(r) + 1 /\ r2[Len(r2)].kind = "result"
      <4>1. p = Len(r2)
          BY <1>1, <2>1, <3>1
      <4> QED BY <3>1, <4>1
    <3>2. CASE \A x \in DOMAIN r2 : x \notin DOMAIN r => r2[x].kind \in {"user", "compaction"}
        BY <2>1, <3>2
    <3> QED BY <1>3, <3>1, <3>2 DEF Grows
  <2>2. \A p \in DOMAIN r : r2[p] = r[p]
      BY DEF Grows
  <2> QED BY <1>1, <2>1, <2>2 DEF At
<1>4. ASSUME w2 = "group", w # "group" PROVE OpenCall(r2) = Len(r2)
  <2> DEFINE S == At(r2, "call")
  <2>1. Len(r2) = Len(r) + 1 /\ r2[Len(r2)].kind = "call"
      BY <1>4 DEF Grows
  <2>2. S \subseteq Nat /\ Len(r2) \in S /\ \A x \in S : x <= Len(r2)
      BY <1>1, <2>1 DEF At
  <2> HIDE DEF S
  <2>3. Max(S) = Len(r2)
      BY <2>2, GreatestIs
  <2> QED BY <2>3 DEF S, OpenCall
<1> QED BY <1>1, <1>2, <1>3, <1>4 DEF OpenCall

\* The calls stay answered.
LEMMA AnsweredGrows ==
    ASSUME NEW r \in Seq(Row), NEW w, NEW r2, NEW w2, Grows(r, w, r2, w2), Answered(r, w)
    PROVE  Answered(r2, w2)
<1> DEFINE n == Len(r2)
<1>1. /\ DOMAIN r = 1 .. Len(r) /\ DOMAIN r2 = 1 .. n /\ Len(r) \in Nat /\ n \in Nat
      /\ DOMAIN r \subseteq DOMAIN r2 /\ \A k : At(r, k) \subseteq At(r2, k)
      /\ w = "group" => At(r2, "call") = At(r, "call") /\ OpenCall(r2) = OpenCall(r)
      /\ w2 = "group" /\ w # "group" => OpenCall(r2) = n
    BY OpenCallGrows
<1>2. /\ \A p \in At(r, "call") :
            (w = "group" /\ p = OpenCall(r)) \/ \E q \in At(r, "result") : r[q].of = p
      /\ \A q \in At(r, "result") : r[q].of \in At(r, "call") /\ r[q].of < q
    BY DEF Answered
<1>3. \A p \in DOMAIN r : r2[p] = r[p]
    BY DEF Grows
<1>4. \A k : \A p \in At(r2, k) : p \in DOMAIN r => p \in At(r, k)
    BY <1>3 DEF At
<1>5. \A q \in At(r, "result") : r2[q] = r[q] /\ q \in At(r2, "result")
    BY <1>1, <1>3 DEF At
<1>6. CASE /\ w2 = "group" <=> w = "group"
           /\ \A p \in DOMAIN r2 : p \notin DOMAIN r => r2[p].kind \in {"user", "compaction"}
  <2>1. \A k \in {"call", "result", "answer"} : At(r2, k) = At(r, k)
      BY <1>1, <1>4, <1>6 DEF At
  <2>2. \A p \in DOMAIN r2 : r2[p].kind \in Speaks => p \in DOMAIN r
      BY <1>6 DEF Speaks
  <2> HIDE DEF n
  <2>3. w2 = "group" => \A p \in DOMAIN r2 : r2[p].kind \in Speaks => p <= OpenCall(r2)
      BY <1>1, <1>3, <1>6, <2>2 DEF Answered
  <2>4. \A p \in At(r2, "call") :
           (w2 = "group" /\ p = OpenCall(r2)) \/ \E q \in At(r2, "result") : r2[q].of = p
      BY <1>1, <1>2, <1>5, <1>6, <2>1
  <2>5. \A q \in At(r2, "result") : r2[q].of \in At(r2, "call") /\ r2[q].of < q
      BY <1>2, <1>5, <2>1
  <2>6. w2 = "group" => At(r2, "call") # {}
      BY <1>6, <2>1 DEF Answered
  <2> QED BY <2>3, <2>4, <2>5, <2>6 DEF Answered
<1>7. CASE /\ w # "group" /\ n = Len(r) + 1 /\ r2[n].kind \in Speaks
           /\ w2 = "group" <=> r2[n].kind = "call"
  <2>1. DOMAIN r2 = DOMAIN r \cup {n} /\ n \in DOMAIN r2 /\ r2[n].kind # "result"
      BY <1>1, <1>7 DEF Speaks
  <2>2. At(r2, "result") = At(r, "result")
      BY <1>1, <1>4, <2>1 DEF At
  <2>3. \A p \in At(r2, "call") : p \in At(r, "call") \/ (p = n /\ w2 = "group")
      BY <1>4, <1>7, <2>1 DEF At
  <2>4. \A q \in At(r2, "result") : r2[q].of \in At(r2, "call") /\ r2[q].of < q
      BY <1>1, <1>2, <1>5, <2>2
  <2>5. w2 = "group" => n \in At(r2, "call")
      BY <1>7, <2>1 DEF At
  <2>6. \A p \in DOMAIN r2 : p <= n
      BY <1>1
  <2>7. \A p \in At(r2, "call") :
           (w2 = "group" /\ p = OpenCall(r2)) \/ \E q \in At(r2, "result") : r2[q].of = p
      BY <1>1, <1>2, <1>5, <1>7, <2>3
  <2> QED BY <1>1, <1>7, <2>4, <2>5, <2>6, <2>7 DEF Answered
<1>8. CASE /\ w = "group" /\ w2 # "group" /\ n = Len(r) + 1
           /\ r2[n].kind = "result" /\ r2[n].of = OpenCall(r)
  <2>1. DOMAIN r2 = DOMAIN r \cup {n} /\ n \in At(r2, "result") /\ n \notin DOMAIN r
      BY <1>1, <1>8 DEF At
  <2>2. \A q \in At(r2, "result") : q \in At(r, "result") \/ q = n
      BY <1>4, <2>1 DEF At
  <2>3. OpenCall(r) \in At(r, "call") /\ OpenCall(r) < n
    <3>1. OpenCall(r) \in At(r, "call")
        BY <1>8, OpenCallIs DEF Answered
    <3> QED BY <1>1, <1>8, <3>1 DEF At
  <2>4. \A q \in At(r2, "result") : r2[q].of \in At(r2, "call") /\ r2[q].of < q
      BY <1>1, <1>2, <1>5, <1>8, <2>2, <2>3
  <2>5. \A p \in At(r2, "call") : \E q \in At(r2, "result") : r2[q].of = p
      BY <1>1, <1>2, <1>5, <1>8, <2>1
  <2> QED BY <1>8, <2>4, <2>5 DEF Answered
<1> QED BY <1>6, <1>7, <1>8 DEF Grows

\* What is kept or missed of r is so of r2, and what is added is kept or missed.
Keeps(r, r2, V, M, V2, M2) ==
    /\ \A p \in V \cup M : p \in V2 \cup M2
    /\ \A p \in V2 : p \in V \/ p \notin DOMAIN r
    /\ \A p \in DOMAIN r2 : p \notin DOMAIN r =>
          p \in V2 \cup M2 \/ r2[p].kind = "compaction"

\* What was fit stays fit, when what is added is kept or missed.
LEMMA FitGrows ==
    ASSUME NEW r \in Seq(Row), NEW w, NEW r2, NEW w2, Grows(r, w, r2, w2), Answered(r, w),
           NEW V, NEW M, Fit(V, M, r, w), NEW V2, NEW M2, Keeps(r, r2, V, M, V2, M2)
    PROVE  Fit(V2, M2, r2, w2)
<1> USE DEF Keeps
<1> DEFINE n == Len(r2)
<1>1. /\ DOMAIN r = 1 .. Len(r) /\ DOMAIN r2 = 1 .. n /\ Len(r) \in Nat /\ n \in Nat
      /\ DOMAIN r \subseteq DOMAIN r2 /\ \A k : At(r, k) \subseteq At(r2, k)
      /\ w = "group" => OpenCall(r2) = OpenCall(r)
      /\ w2 = "group" /\ w # "group" => OpenCall(r2) = n
    BY OpenCallGrows
<1>2. \A p \in DOMAIN r : r2[p] = r[p]
    BY DEF Grows
<1>3. \A k : \A p \in At(r2, k) : p \in DOMAIN r => p \in At(r, k)
    BY <1>2 DEF At
<1>4. /\ w = "group" => OpenCall(r) \in V \cup M
      /\ \A p \in V \cap At(r, "call") :
            (w = "group" /\ p = OpenCall(r)) \/ \E q \in (V \cup M) \cap At(r, "result") : r[q].of = p
      /\ \A q \in V \cap At(r, "result") :
            r[q].of \in V \cup M \/ \E p \in DOMAIN r : r[p].kind \in Speaks /\ r[q].of < p
    BY DEF Fit
<1>5. \A q \in At(r, "result") : r2[q] = r[q] /\ q \in At(r2, "result")
    BY <1>1, <1>2 DEF At
<1>6. ASSUME NEW q \in V2 \cap At(r2, "result"), q \in DOMAIN r
      PROVE  r2[q].of \in V2 \cup M2 \/ \E p \in DOMAIN r2 : r2[p].kind \in Speaks /\ r2[q].of < p
  <2>1. q \in V \cap At(r, "result") /\ r2[q] = r[q]
      BY <1>2, <1>3, <1>6
  <2>2. CASE r[q].of \in V \cup M
      BY <2>1, <2>2
  <2>3. CASE \E p \in DOMAIN r : r[p].kind \in Speaks /\ r[q].of < p
      BY <1>1, <1>2, <2>1, <2>3
  <2> QED BY <1>4, <2>1, <2>2, <2>3
<1>7. ASSUME NEW p \in V2 \cap At(r2, "call"), p \in DOMAIN r, ~(w = "group" /\ p = OpenCall(r))
      PROVE  \E q \in (V2 \cup M2) \cap At(r2, "result") : r2[q].of = p
  <2>1. p \in V \cap At(r, "call")
      BY <1>3, <1>7
  <2>2. PICK q \in (V \cup M) \cap At(r, "result") : r[q].of = p
      BY <1>4, <1>7, <2>1
  <2> QED BY <1>5, <2>2
<1>8. CASE /\ w2 = "group" <=> w = "group"
           /\ \A p \in DOMAIN r2 : p \notin DOMAIN r => r2[p].kind \in {"user", "compaction"}
  <2>1. \A k \in {"call", "result"} : \A p \in At(r2, k) : p \in DOMAIN r
      BY <1>8 DEF At
  <2>2. w2 = "group" => OpenCall(r2) \in V2 \cup M2
      BY <1>1, <1>4, <1>8
  <2>3. \A p \in V2 \cap At(r2, "call") :
           \/ w2 = "group" /\ p = OpenCall(r2)
           \/ \E q \in (V2 \cup M2) \cap At(r2, "result") : r2[q].of = p
      BY <1>1, <1>7, <1>8, <2>1
  <2> QED BY <1>6, <2>1, <2>2, <2>3 DEF Fit
<1>9. CASE /\ w # "group" /\ n = Len(r) + 1 /\ r2[n].kind \in Speaks
           /\ w2 = "group" <=> r2[n].kind = "call"
  <2>1. DOMAIN r2 = DOMAIN r \cup {n} /\ n \notin DOMAIN r /\ r2[n].kind \notin {"result", "compaction"}
      BY <1>1, <1>9 DEF Speaks
  <2>2. w2 = "group" => OpenCall(r2) \in V2 \cup M2
      BY <1>1, <1>9, <2>1
  <2>3. \A q \in At(r2, "result") : q \in DOMAIN r
      BY <2>1 DEF At
  <2>4. \A p \in At(r2, "call") : p \in DOMAIN r \/ (w2 = "group" /\ p = OpenCall(r2))
      BY <1>1, <1>9, <2>1 DEF At
  <2>5. \A p \in V2 \cap At(r2, "call") :
           \/ w2 = "group" /\ p = OpenCall(r2)
           \/ \E q \in (V2 \cup M2) \cap At(r2, "result") : r2[q].of = p
      BY <1>7, <1>9, <2>4
  <2> QED BY <1>6, <2>2, <2>3, <2>5 DEF Fit
<1>10. CASE /\ w = "group" /\ w2 # "group" /\ n = Len(r) + 1
            /\ r2[n].kind = "result" /\ r2[n].of = OpenCall(r)
  <2>1. DOMAIN r2 = DOMAIN r \cup {n} /\ n \notin DOMAIN r /\ n \in At(r2, "result")
        /\ n \in V2 \cup M2
      BY <1>1, <1>10 DEF At
  <2>2. \A q \in V2 \cap At(r2, "result") :
           r2[q].of \in V2 \cup M2 \/ \E p \in DOMAIN r2 : r2[p].kind \in Speaks /\ r2[q].of < p
    <3>1. r2[n].of \in V2 \cup M2
        BY <1>4, <1>10
    <3> QED BY <1>6, <2>1, <3>1 DEF At
  <2>3. \A p \in At(r2, "call") : p \in DOMAIN r
      BY <1>10, <2>1 DEF At
  <2>4. \A p \in V2 \cap At(r2, "call") : \E q \in (V2 \cup M2) \cap At(r2, "result") : r2[q].of = p
    <3>1. \A p : p = OpenCall(r) => \E q \in (V2 \cup M2) \cap At(r2, "result") : r2[q].of = p
        BY <1>10, <2>1
    <3> QED BY <1>7, <2>3, <3>1
  <2> QED BY <1>10, <2>2, <2>4 DEF Fit
<1> QED BY <1>8, <1>9, <1>10 DEF Grows

\* A row that is planned stays so: what comes meanwhile is what it will have missed.
LEMMA PlannedGrows ==
    ASSUME NEW r \in Seq(Row), NEW w, NEW r2, NEW w2, Grows(r, w, r2, w2), Answered(r, w),
           NEW c \in CompactionRow, Planned(c, r, w)
    PROVE  Planned(c, r2, w2)
<1>1. /\ DOMAIN r = 1 .. Len(r) /\ DOMAIN r2 = 1 .. Len(r2) /\ Len(r) \in Nat /\ Len(r2) \in Nat
      /\ DOMAIN r \subseteq DOMAIN r2 /\ \A k : At(r, k) \subseteq At(r2, k) /\ Len(r) <= Len(r2)
      /\ \A p \in DOMAIN r : r2[p] = r[p]
  <2>1. Len(r) <= Len(r2) /\ \A p \in DOMAIN r : r2[p] = r[p]
      BY DEF Grows
  <2> QED BY <2>1, OpenCallGrows
<1>2. c.read \in Nat /\ c.read <= Len(r)
    BY DEF CompactionRow, Planned
<1>3. Gap(r) \subseteq Gap(r2)
  <2>1. \A p \in At(r, "compaction") : p \in At(r2, "compaction") /\ r2[p] = r[p]
      BY <1>1 DEF At
  <2> QED BY <2>1 DEF Gap
<1>4. {q \in At(r2, "compaction") : q <= c.read} = {q \in At(r, "compaction") : q <= c.read}
    BY <1>1, <1>2 DEF At
<1>5. \A p \in DOMAIN r2 : p <= c.read =>
         r2[p].kind = "compaction" \/ p \in c.kept \cup c.covers \cup Gap(r2)
    BY <1>1, <1>2, <1>3 DEF Planned
<1> DEFINE M == Gap(r) \cup ((c.read + 1) .. Len(r))
           M2 == Gap(r2) \cup ((c.read + 1) .. Len(r2))
<1>6. Fit(c.kept, M2, r2, w2)
  <2>1. \A p \in c.kept \cup M : p \in c.kept \cup M2
      BY <1>1, <1>2, <1>3
  <2>2. \A p \in DOMAIN r2 : p \notin DOMAIN r => p \in c.kept \cup M2
      BY <1>1, <1>2
  <2>3. Fit(c.kept, M, r, w)
      BY DEF Planned
  <2> HIDE DEF M, M2
  <2>4. Keeps(r, r2, c.kept, M, c.kept, M2)
      BY <2>1, <2>2 DEF Keeps
  <2> QED BY <2>3, <2>4, FitGrows
<1> HIDE DEF M
<1>7. c.read <= Len(r2)
    BY <1>1, <1>2
<1>8. c.base = Max({0} \cup {q \in At(r2, "compaction") : q <= c.read})
    BY <1>4 DEF Planned
<1> QED BY <1>5, <1>6, <1>7, <1>8 DEF Planned

\* Every step but a compaction row adds what the rows may grow by.
LEMMA StepGrows ==
    ASSUME Shapes, RowsInv, SameRows \/ Inbound \/ (\E k \in Speaks : Spoken(k)) \/ Result
    PROVE  /\ \E more \in Seq(MessageRow) : rows' = rows \o more
           /\ Grows(rows, wf, rows', wf')
<1>0. rows \in Seq(Row) /\ Len(rows) \in Nat /\ DOMAIN rows = 1 .. Len(rows)
    BY DEF Shapes
<1>1. CASE SameRows
  <2>1. <<>> \in Seq(MessageRow) /\ rows' = rows \o <<>>
      BY <1>0, <1>1 DEF SameRows
  <2>2. rows' = rows /\ (wf' = "group" <=> wf = "group") /\ Len(rows) <= Len(rows)
      BY <1>0, <1>1 DEF SameRows
  <2>3. Grows(rows, wf, rows', wf')
      BY <1>0, <2>2 DEF Grows
  <2> QED BY <2>1, <2>3
<1>2. CASE Inbound
  <2>1. PICK n \in Nat : rows' = StoreInbound(n)
      BY <1>2 DEF Inbound
  <2> DEFINE more == [i \in 1 .. n |-> Message("user", 0)]
  <2>2. more \in Seq(MessageRow) /\ Len(more) = n /\ \A i \in 1 .. n : more[i].kind = "user"
      BY DEF Message, MessageRow
  <2>3. rows' = rows \o more
      BY <2>1 DEF StoreInbound
  <2> HIDE DEF more
  <2>4. /\ rows' \in Seq(Row) /\ Len(rows') = Len(rows) + n
        /\ \A p \in DOMAIN rows : rows'[p] = rows[p]
        /\ \A i \in 1 .. n : rows'[Len(rows) + i] = more[i]
      BY <1>0, <2>2, <2>3, MoreMessages
  <2>5. ASSUME NEW p \in DOMAIN rows', p \notin DOMAIN rows PROVE rows'[p].kind = "user"
    <3>1. DOMAIN rows' = 1 .. Len(rows) + n
        BY <2>4
    <3>2. p - Len(rows) \in 1 .. n /\ p = Len(rows) + (p - Len(rows))
        BY <1>0, <2>5, <3>1
    <3> QED BY <2>2, <2>4, <3>2
  <2>6. wf # "group" /\ wf' # "group" /\ Len(rows) <= Len(rows')
      BY <1>0, <1>2, <2>4 DEF Inbound
  <2> QED BY <2>2, <2>3, <2>4, <2>5, <2>6 DEF Grows
<1>3. ASSUME NEW k \in Speaks, Spoken(k)
      PROVE  /\ \E more \in Seq(MessageRow) : rows' = rows \o more
             /\ Grows(rows, wf, rows', wf')
  <2>1. Message(k, 0) \in MessageRow /\ Message(k, 0) \in Row /\ Message(k, 0).kind = k
      BY DEF Message, MessageRow, Row, Speaks
  <2>2. /\ rows' \in Seq(Row) /\ Len(rows') = Len(rows) + 1 /\ rows'[Len(rows')] = Message(k, 0)
        /\ \A p \in DOMAIN rows : rows'[p] = rows[p]
      BY <1>0, <1>3, <2>1 DEF Spoken
  <2>3. <<Message(k, 0)>> \in Seq(MessageRow) /\ rows' = rows \o <<Message(k, 0)>>
      BY <1>0, <1>3, <2>1 DEF Spoken
  <2>4. wf # "group" /\ (wf' = "group" <=> k = "call")
      BY <1>3 DEF Spoken
  <2>5. /\ Len(rows) <= Len(rows') /\ rows'[Len(rows')].kind \in Speaks
        /\ rows'[Len(rows')].kind = k
      BY <1>0, <2>1, <2>2
  <2> QED BY <2>2, <2>3, <2>4, <2>5 DEF Grows
<1>4. CASE Result
  <2>1. OpenCall(rows) = Max(Positions("call")) /\ OpenCall(rows) \in Nat
    <3>1. At(rows, "call") # {}
        BY <1>4 DEF Result, RowsInv, Answered
    <3>2. OpenCall(rows) \in At(rows, "call")
        BY <1>0, <3>1, OpenCallIs
    <3> QED BY <1>0, <3>2 DEF OpenCall, At, Positions
  <2> DEFINE m == Message("result", OpenCall(rows))
  <2>2. m \in MessageRow /\ m \in Row /\ m.kind = "result" /\ m.of = OpenCall(rows)
      BY <2>1 DEF Message, MessageRow, Row
  <2>3. rows' = Append(rows, m) /\ wf = "group" /\ wf' # "group"
      BY <1>4, <2>1 DEF Result
  <2> HIDE DEF m
  <2>4. /\ rows' \in Seq(Row) /\ Len(rows') = Len(rows) + 1 /\ rows'[Len(rows')] = m
        /\ \A p \in DOMAIN rows : rows'[p] = rows[p]
      BY <1>0, <2>2, <2>3
  <2>5. <<m>> \in Seq(MessageRow) /\ rows' = rows \o <<m>>
      BY <1>0, <2>2, <2>3
  <2>6. /\ Len(rows) <= Len(rows') /\ rows'[Len(rows')].kind = "result"
        /\ rows'[Len(rows')].of = OpenCall(rows)
      BY <1>0, <2>2, <2>4
  <2> QED BY <2>3, <2>4, <2>5, <2>6 DEF Grows
<1> QED BY <1>1, <1>2, <1>3, <1>4

\* A compaction row that is appended is what the rows may grow by, too.
LEMMA CompactionGrows ==
    ASSUME Shapes, NEW c \in CompactionRow, rows' = Append(rows, c), wf' = "group" <=> wf = "group"
    PROVE  Grows(rows, wf, rows', wf')
<1>1. /\ rows \in Seq(Row) /\ Len(rows') = Len(rows) + 1 /\ rows' \in Seq(Row)
      /\ \A p \in DOMAIN rows : rows'[p] = rows[p]
      /\ rows'[Len(rows')] = c /\ c.kind = "compaction"
    BY NextCompaction DEF Shapes, CompactionRow
<1>2. Len(rows) \in Nat /\ DOMAIN rows = 1 .. Len(rows) /\ DOMAIN rows' = DOMAIN rows \cup {Len(rows')}
    BY <1>1
<1> QED BY <1>1, <1>2 DEF Grows

\* The rows grow in every step.
LEMMA NextGrows ==
    ASSUME Shapes, Counted, RowsInv, [Next]_vars
    PROVE  Grows(rows, wf, rows', wf')
<1>1. CASE Compacted
  <2>1. CASE rows' = Append(rows, plan) /\ wf \in Storing /\ wf' \notin {"group"} \cup Storing
      BY <2>1, CompactionGrows DEF Shapes, Storing
  <2>2. CASE rows' = Append(rows, childPlan) /\ child = "append" /\ child' = "none" /\ wf' = wf
      BY <2>2, CompactionGrows DEF Shapes
  <2> QED BY <1>1, <2>1, <2>2 DEF Compacted
<1> QED BY <1>1, RowsChange, StepGrows

\* A compaction row that was planned keeps what is fit, and goes on with the chain.
LEMMA CompactedFits ==
    ASSUME Shapes, RowsInv, NEW c \in CompactionRow, Planned(c, rows, wf),
           rows' = Append(rows, c), wf' = "group" <=> wf = "group"
    PROVE  /\ Fit(View, Missed, rows, wf)' /\ NothingHidden' /\ OneChain'
           /\ \A p \in Positions("compaction")' : rows'[p].read < p
<1>1. /\ rows \in Seq(Row) /\ c.read \in Nat /\ c.read <= Len(rows)
      /\ c.base = Max({0} \cup {q \in At(rows, "compaction") : q <= c.read})
      /\ \A p \in DOMAIN rows : p <= c.read =>
            rows[p].kind = "compaction" \/ p \in c.kept \cup c.covers \cup Gap(rows)
      /\ Fit(c.kept, Gap(rows) \cup ((c.read + 1) .. Len(rows)), rows, wf)
    BY DEF Shapes, CompactionRow, Planned
<1>2. /\ rows' \in Seq(Row) /\ Len(rows') = Len(rows) + 1
      /\ \A p \in DOMAIN rows : rows'[p] = rows[p]
      /\ rows'[Len(rows')] = c /\ c.kind = "compaction"
      /\ Positions("compaction")' = Positions("compaction") \cup {Len(rows')}
      /\ Covered' = c.covers /\ Messages' = Messages /\ View' = Messages \cap c.kept
      /\ Missed' = Missed \cup ((c.read + 1) .. Len(rows))
    BY <1>1, NextCompaction DEF CompactionRow
<1>3. Len(rows) \in Nat /\ DOMAIN rows = 1 .. Len(rows) /\ DOMAIN rows' = DOMAIN rows \cup {Len(rows')}
    BY <1>1, <1>2
<1>4. Missed = Gap(rows) /\ Positions("compaction") = At(rows, "compaction")
    BY DEF Missed, Gap, Positions, At
<1>5. \A p \in Messages : p \in DOMAIN rows /\ rows[p].kind # "compaction"
    BY <1>1, RowsThere
<1>6. NothingHidden'
  <2>1. \A p \in Messages : p <= c.read \/ p \in (c.read + 1) .. Len(rows)
      BY <1>1, <1>3, <1>5
  <2> QED BY <1>1, <1>2, <1>4, <1>5, <2>1 DEF NothingHidden
<1>7. \A p \in Positions("compaction")' : rows'[p].read < p
  <2>1. \A p \in Positions("compaction") : rows'[p] = rows[p] /\ rows[p].read < p
      BY <1>2 DEF Positions, RowsInv
  <2>2. c.read < Len(rows')
      BY <1>1, <1>2, <1>3
  <2> QED BY <1>2, <2>1, <2>2
<1>8. OneChain'
  <2> DEFINE P == Positions("compaction")
  <2>1. \A p \in P : p \in DOMAIN rows /\ rows'[p] = rows[p] /\ rows[p].read \in Nat /\ rows[p].read < p
      BY <1>1, <1>2, RowsThere DEF Positions, RowsInv, CompactionRow
  <2>2. ASSUME NEW p \in P
        PROVE  rows'[p].base = Max({0} \cup {q \in P \cup {Len(rows')} : q <= rows'[p].read})
    <3>1. {q \in P \cup {Len(rows')} : q <= rows[p].read} = {q \in P : q <= rows[p].read}
        BY <1>2, <1>3, <2>1
    <3> QED BY <2>1, <3>1 DEF RowsInv, OneChain
  <2>3. c.base = Max({0} \cup {q \in P \cup {Len(rows')} : q <= c.read})
    <3>1. {q \in P \cup {Len(rows')} : q <= c.read} = {q \in P : q <= c.read}
        BY <1>1, <1>2, <1>3
    <3> QED BY <1>1, <1>4, <3>1
  <2> HIDE DEF P
  <2>4. ASSUME NEW p \in P \cup {Len(rows')}
        PROVE  rows'[p].base = Max({0} \cup {q \in P \cup {Len(rows')} : q <= rows'[p].read})
      BY <1>2, <2>2, <2>3
  <2> QED BY <1>2, <2>4 DEF OneChain, P
<1>9. Fit(View', Missed', rows', wf')
  <2> DEFINE M == Gap(rows) \cup ((c.read + 1) .. Len(rows))
  <2>1. Missed' = M
      BY <1>2, <1>4
  <2>2. Fit(c.kept, M, rows, wf)
      BY <1>1
  <2>3. Grows(rows, wf, rows', wf') /\ Answered(rows, wf)
      BY CompactionGrows DEF RowsInv
  <2>4. \A p \in c.kept : p \in DOMAIN rows => p \in View' \/ rows[p].kind = "compaction"
      BY <1>1, <1>2, RowsThere
  <2>5. \A p \in DOMAIN rows' : p \notin DOMAIN rows => rows'[p].kind = "compaction"
      BY <1>2, <1>3
  <2>6. View' \subseteq c.kept
      BY <1>2
  <2> HIDE DEF M
  <2>7. Fit(c.kept, M, rows', wf')
    <3>1. Keeps(rows, rows', c.kept, M, c.kept, M)
        BY <2>5 DEF Keeps
    <3> QED BY <1>1, <2>2, <2>3, <3>1, FitGrows
  <2>8. \A p \in c.kept : (\E k \in {"call", "result"} : p \in At(rows', k)) => p \in View'
    <3>1. ASSUME NEW p \in c.kept, NEW k \in {"call", "result"}, p \in At(rows', k) PROVE p \in View'
      <4>1. p \in DOMAIN rows' /\ rows'[p].kind = k
          BY <3>1 DEF At
      <4>2. p \in DOMAIN rows /\ rows[p].kind # "compaction"
          BY <1>2, <2>5, <4>1
      <4> QED BY <2>4, <4>2
    <3> QED BY <3>1
  <2>9. wf' = "group" => OpenCall(rows') \in View' \cup M
    <3>1. ASSUME wf' = "group" PROVE OpenCall(rows') \in At(rows', "call")
      <4>1. Answered(rows', wf')
          BY <1>1, <2>3, AnsweredGrows
      <4> QED BY <1>2, <3>1, <4>1, OpenCallIs DEF Answered
    <3> QED BY <2>7, <2>8, <3>1 DEF Fit
  <2>10. \A p \in View' \cap At(rows', "call") :
            \/ wf' = "group" /\ p = OpenCall(rows')
            \/ \E q \in (View' \cup M) \cap At(rows', "result") : rows'[q].of = p
      BY <2>6, <2>7, <2>8 DEF Fit
  <2>11. \A q \in View' \cap At(rows', "result") :
            rows'[q].of \in View' \cup M \/ \E p \in DOMAIN rows' : rows'[p].kind \in Speaks /\ rows'[q].of < p
    <3>1. \A q \in At(rows', "result") : rows'[q].of \in At(rows', "call")
      <4>1. Answered(rows', wf')
          BY <1>1, <2>3, AnsweredGrows
      <4> QED BY <4>1 DEF Answered
    <3> QED BY <2>6, <2>7, <2>8, <3>1 DEF Fit
  <2>12. Fit(View', M, rows', wf')
      BY <2>9, <2>10, <2>11 DEF Fit
  <2> QED BY <2>1, <2>12
<1> QED BY <1>6, <1>7, <1>8, <1>9

\* What is said leaves the rows as they have to be.
LEMMA SaidFits ==
    ASSUME Shapes, RowsInv, NEW more \in Seq(MessageRow), rows' = rows \o more,
           Grows(rows, wf, rows', wf')
    PROVE  /\ Fit(View, Missed, rows, wf)' /\ NothingHidden' /\ OneChain'
           /\ \A p \in Positions("compaction")' : rows'[p].read < p
<1>1. /\ rows \in Seq(Row) /\ Len(rows') = Len(rows) + Len(more)
      /\ \A p \in DOMAIN rows : rows'[p] = rows[p]
      /\ Positions("compaction")' = Positions("compaction")
      /\ View' = View \cup (Len(rows) + 1 .. Len(rows')) /\ Missed' = Missed
      /\ rows' \in Seq(Row)
    BY MoreMessages DEF Shapes
<1>2. NothingHidden' /\ OneChain'
    BY <1>1, MessagesShow DEF RowsInv
<1>3. \A p \in Positions("compaction")' : rows'[p].read < p
    BY <1>1 DEF Positions, RowsInv
<1>4. Fit(View', Missed', rows', wf')
  <2>1. DOMAIN rows = 1 .. Len(rows) /\ DOMAIN rows' = 1 .. Len(rows') /\ Len(rows) \in Nat
      BY <1>1
  <2>2. \A p \in DOMAIN rows' : p \notin DOMAIN rows => p \in View'
      BY <1>1, <2>1
  <2>3. \A p \in View' : p \in View \/ p \notin DOMAIN rows
      BY <1>1, <2>1
  <2>4. Answered(rows, wf) /\ Fit(View, Missed, rows, wf)
      BY DEF RowsInv
  <2>5. \A p \in View \cup Missed : p \in View' \cup Missed'
      BY <1>1
  <2>6. \A p \in DOMAIN rows' : p \notin DOMAIN rows =>
           p \in View' \cup Missed' \/ rows'[p].kind = "compaction"
      BY <2>2
  <2>7. Keeps(rows, rows', View, Missed, View', Missed')
      BY <2>3, <2>5, <2>6 DEF Keeps
  <2>8. rows \in Seq(Row)
      BY <1>1
  <2> QED BY <2>4, <2>7, <2>8, FitGrows
<1> QED BY <1>2, <1>3, <1>4

\* A thread that opened beside the storing of its summary has done so for good.
LEMMA BesideGrows == [Next]_vars /\ beside \in BOOLEAN => beside' \in BOOLEAN /\ (beside => beside')
<1> SUFFICES ASSUME [Next]_vars, beside \in BOOLEAN PROVE beside' \in BOOLEAN /\ (beside => beside')
    OBVIOUS
<1> USE DEF turnVars, childVars, history, Opens
<1>1. CASE UNCHANGED vars
    BY <1>1 DEF vars
<1>2. CASE UserSends \/ LocalRun \/ AttemptLost
    BY <1>2 DEF UserSends, LocalRun, AttemptLost
<1>3. CASE StartTurn \/ TurnStores \/ Admits \/ Refuses \/ MeasureBelow \/ MeasureAbove
    BY <1>3 DEF StartTurn, TurnStores, ReadToStore, AppendRow, Admits, Refuses, MeasureBelow,
                MeasureAbove
<1>4. CASE TakeSummary \/ CompactSummarizes \/ CompactStores \/ CompactAppends \/ CompactFails
    BY <1>4 DEF TakeSummary, CompactSummarizes, CompactStores, CompactAppends, CompactFails,
                ReadToStore, AppendRow
<1>5. CASE Resend \/ ModelFails \/ GroupEnds \/ LastSummary \/ LastAppends \/ NextRun \/ Stop
    BY <1>5 DEF Resend, ModelFails, GroupEnds, LastSummary, LastAppends, AppendRow, NextRun, Stop
<1>6. ASSUME NEW k \in Speaks, ModelAnswers(k) PROVE beside' = beside
    BY <1>6 DEF ModelAnswers
<1>7. CASE Child
    BY <1>7 DEF Child, ChildSummarizes, LocalSummarizes, ChildFails, ChildSignals, ChildFindsClosed,
                ChildReads, ChildAppends
<1> QED BY <1>1, <1>2, <1>3, <1>4, <1>5, <1>6, <1>7 DEF Next, Thread, Speaks

\* Nothing comes between the read and the append of a row that did not open so.
LEMMA NoneBetweenStep ==
    ASSUME Shapes, Counted, Apart, RowsInv, Plans, [Next]_vars
    PROVE  NoneBetween'
<1> SUFFICES ASSUME ~beside' PROVE \A p \in Positions("compaction")' : rows'[p].read = p - 1
    BY DEF NoneBetween
<1>1. rows \in Seq(Row) /\ ~beside /\ \A p \in Positions("compaction") : rows[p].read = p - 1
    BY BesideGrows DEF Apart, RowsInv, NoneBetween, Shapes
<1>2. ASSUME NEW more \in Seq(MessageRow), rows' = rows \o more
      PROVE  \A p \in Positions("compaction")' : rows'[p].read = p - 1
  <2>1. /\ Positions("compaction")' = Positions("compaction")
        /\ \A p \in DOMAIN rows : rows'[p] = rows[p]
      BY <1>1, <1>2, MoreMessages
  <2> QED BY <1>1, <2>1 DEF Positions
<1>3. ASSUME NEW c \in CompactionRow, rows' = Append(rows, c), c.read = Len(rows)
      PROVE  \A p \in Positions("compaction")' : rows'[p].read = p - 1
  <2>1. /\ Positions("compaction")' = Positions("compaction") \cup {Len(rows')}
        /\ \A p \in DOMAIN rows : rows'[p] = rows[p]
        /\ rows'[Len(rows')] = c /\ Len(rows') = Len(rows) + 1 /\ Len(rows) \in Nat
      BY <1>1, <1>3, NextCompaction
  <2>2. \A p \in Positions("compaction") : rows'[p] = rows[p]
      BY <2>1 DEF Positions
  <2>3. rows'[Len(rows')].read = Len(rows') - 1
      BY <1>3, <2>1
  <2> QED BY <1>1, <2>1, <2>2, <2>3
<1>4. CASE Compacted
  <2>1. CASE rows' = Append(rows, plan) /\ wf \in Storing
      BY <1>1, <1>3, <2>1 DEF Apart, Shapes
  <2>2. CASE rows' = Append(rows, childPlan) /\ child = "append"
      BY <1>1, <1>3, <2>2 DEF Apart, Shapes
  <2> QED BY <1>4, <2>1, <2>2 DEF Compacted
<1> QED BY <1>2, <1>4, RowsChange, StepGrows

\* Every step keeps the calls answered, the view fit and whole, and the chain.
LEMMA RowsStep == Shapes /\ Counted /\ Apart /\ RowsInv /\ Plans /\ [Next]_vars => RowsInv'
<1> SUFFICES ASSUME Shapes, Counted, Apart, RowsInv, Plans, [Next]_vars PROVE RowsInv'
    OBVIOUS
<1> DEFINE Rest == /\ Fit(View, Missed, rows, wf)' /\ NothingHidden' /\ OneChain'
                   /\ \A p \in Positions("compaction")' : rows'[p].read < p
<1>1. Answered(rows', wf')
    BY NextGrows, AnsweredGrows DEF Shapes, RowsInv
<1>2. NoneBetween'
    BY NoneBetweenStep
<1>3. CASE Compacted
  <2>1. CASE rows' = Append(rows, plan) /\ wf \in Storing /\ wf' \notin {"group"} \cup Storing
    <3>1. plan \in CompactionRow /\ Planned(plan, rows, wf) /\ wf # "group" /\ wf' # "group"
        BY <2>1 DEF Shapes, Plans, Storing
    <3>2. Rest
        BY <2>1, <3>1, CompactedFits
    <3> QED BY <1>1, <1>2, <3>2 DEF RowsInv
  <2>2. CASE rows' = Append(rows, childPlan) /\ child = "append" /\ child' = "none" /\ wf' = wf
    <3>1. childPlan \in CompactionRow /\ Planned(childPlan, rows, wf)
        BY <2>2 DEF Shapes, Plans
    <3>2. Rest
        BY <2>2, <3>1, CompactedFits
    <3> QED BY <1>1, <1>2, <3>2 DEF RowsInv
  <2> QED BY <1>3, <2>1, <2>2 DEF Compacted
<1>4. CASE SameRows \/ Inbound \/ (\E k \in Speaks : Spoken(k)) \/ Result
  <2>1. PICK more \in Seq(MessageRow) : rows' = rows \o more
      BY <1>4, StepGrows
  <2>2. Rest
      BY <2>1, NextGrows, SaidFits
  <2> QED BY <1>1, <1>2, <2>2 DEF RowsInv
<1> QED BY <1>3, <1>4, RowsChange

-----------------------------------------------------------------------------
(* Summaries, and the rows they become.                                    *)

\* A summary that has just been written covers what it replaces.
LEMMA SummarizedIs ==
    ASSUME rows \in Seq(Row), NEW t \in View
    PROVE  Summarized(t) \in Summary /\ Summarized(t).through = t /\ WrittenNow(Summarized(t))
<1>1. View \subseteq Nat /\ Covered \subseteq Nat /\ Latest \in Nat /\ t \in Nat /\ t <= Len(rows)
      /\ Latest <= Len(rows)
    BY RowsThere
<1> DEFINE c == Covered \cup {p \in View : p <= t}
           s == [through |-> t, base |-> Latest, covers |-> c]
<1>2. Summarized(t) = s
    BY DEF Summarized
<1>3. s \in Summary
    BY <1>1 DEF Summary
<1>4. WrittenNow(s)
    BY <1>1 DEF WrittenNow, Written
<1> QED BY <1>2, <1>3, <1>4

\* The boundary a measure finds is in the view, and before the open turn.
LEMMA BoundaryIs ==
    ASSUME rows \in Seq(Row), Replaceable(View) # {}
    PROVE  Max(Replaceable(View)) \in View /\ Past(rows, Max(Replaceable(View)))
<1> DEFINE said == View \cap (Positions("answer") \cup Positions("call"))
           last == Max(said)
           R == Replaceable(View)
           m == Max(R)
<1>1. View \subseteq Nat /\ Len(rows) \in Nat /\ \A p \in View : p <= Len(rows)
    BY RowsThere
<1>2. said # {} /\ R = {p \in View : p < last \/ (p = last /\ rows[p].kind = "answer")}
    BY DEF Replaceable
<1>3. last \in said
  <2>1. said \subseteq Nat /\ \A p \in said : p <= Len(rows)
      BY <1>1
  <2> HIDE DEF said
  <2> QED BY <1>1, <1>2, <2>1, GreatestOf
<1>4. m \in R
  <2>1. R \subseteq Nat /\ R # {} /\ \A p \in R : p <= Len(rows)
      BY <1>1, <1>2
  <2> HIDE DEF R
  <2> QED BY <1>1, <2>1, GreatestOf
<1>5. last \in DOMAIN rows /\ rows[last].kind \in Speaks
    BY <1>3 DEF Positions, Speaks
<1>6. m \in View /\ (m < last \/ (m = last /\ rows[m].kind = "answer")) /\ m \in Nat /\ last \in Nat
    BY <1>1, <1>2, <1>3, <1>4
<1>7. m <= last /\ (m = last => rows[last].kind = "answer")
    BY <1>6
<1> QED BY <1>5, <1>6, <1>7 DEF Past

\* The row that stores a summary which is not stale is planned, of all of the rows: what
\* the summary does not cover is kept, calls with their results.
LEMMA KeptPlanned ==
    ASSUME rows \in Seq(Row), RowsInv, NEW s \in Summary, WrittenNow(s),
           Past(rows, s.through), ~Stale(s)
    PROVE  /\ Compaction(Kept(s), s) \in CompactionRow
           /\ Compaction(Kept(s), s).read = Len(rows)
           /\ Planned(Compaction(Kept(s), s), rows, wf)
<1> DEFINE t == s.through
           results == {p \in Positions("result") : p <= t}
           after == {p \in View : p > t}
<1>1. /\ Len(rows) \in Nat /\ DOMAIN rows = 1 .. Len(rows) /\ t \in Nat /\ s.base = Latest
      /\ View \subseteq DOMAIN rows /\ Messages \subseteq View \cup Covered \cup Missed
    BY RowsThere DEF Summary, Stale, RowsInv, NothingHidden
<1>2. Kept(s) = Tagged(t) \cup after
    BY DEF Kept
<1>3. ASSUME NEW p \in Tagged(t) PROVE p \in DOMAIN rows /\ rows[p].kind = "result" /\ p <= t
  <2>1. results # {} /\ p = Max(results)
      BY <1>3 DEF Tagged
  <2>2. results \subseteq Nat /\ \A q \in results : q <= Len(rows)
      BY <1>1 DEF Positions
  <2>3. Max(results) \in results
    <3> HIDE DEF results
    <3> QED BY <1>1, <2>1, <2>2, GreatestOf
  <2> QED BY <2>1, <2>3 DEF Positions
<1>4. Kept(s) \subseteq DOMAIN rows
    BY <1>1, <1>2, <1>3
<1> DEFINE c == Compaction(Kept(s), s)
           n == Len(rows)
<1>5. c.base = Latest /\ c.kept = Kept(s) /\ c.covers = s.covers /\ c.read = n /\ c \in CompactionRow
  <2>1. Kept(s) \subseteq Nat /\ s.base \in Nat /\ s.covers \subseteq Nat
      BY <1>1, <1>4 DEF Summary
  <2>2. c = [kind |-> "compaction", kept |-> Kept(s), base |-> s.base, covers |-> s.covers,
             read |-> n]
      BY DEF Compaction
  <2> HIDE DEF c
  <2> QED BY <1>1, <2>1, <2>2 DEF CompactionRow
<1>6. Missed = Gap(rows) /\ Gap(rows) \cup ((n + 1) .. n) = Missed
  <2>1. Missed = Gap(rows)
      BY DEF Missed, Gap, Positions, At
  <2>2. (n + 1) .. n = {}
      BY <1>1
  <2> QED BY <2>1, <2>2
<1>7. \A p \in DOMAIN rows : rows[p].kind = "compaction" \/ p \in Kept(s) \cup s.covers \cup Missed
  <2>1. Covered \cup {p \in View : p <= t} \subseteq s.covers
      BY <1>1 DEF WrittenNow, Written
  <2>2. \A p \in View : p <= t \/ p > t
      BY <1>1
  <2>3. \A p \in DOMAIN rows : rows[p].kind = "compaction" \/ p \in Messages
      BY RowsThere
  <2> QED BY <1>1, <1>2, <2>1, <2>2, <2>3
<1>8. c.base = Max({0} \cup {q \in At(rows, "compaction") : q <= c.read})
  <2>1. {q \in At(rows, "compaction") : q <= n} = Positions("compaction")
      BY <1>1 DEF At, Positions
  <2> QED BY <1>5, <2>1 DEF Latest
<1>9. Answered(rows, wf) /\ Fit(View, Missed, rows, wf)
    BY DEF RowsInv
<1>10. ASSUME NEW p \in At(rows, "call"), p <= t
       PROVE  \E x \in DOMAIN rows : rows[x].kind \in Speaks /\ p < x
  <2>1. PICK x \in DOMAIN rows : rows[x].kind \in Speaks /\ t <= x /\ (t = x => rows[x].kind = "answer")
    <3>1. t # 0
        BY <1>1, <1>10 DEF At
    <3> QED BY <3>1 DEF Past
  <2>2. p # x
      BY <1>1, <1>10, <2>1 DEF At
  <2>3. p <= x
      BY <1>1, <1>10, <2>1 DEF At
  <2>4. p < x
      BY <1>1, <2>2, <2>3 DEF At
  <2> QED BY <2>1, <2>4
<1>11. wf = "group" => OpenCall(rows) \in Kept(s) \cup Missed
  <2> SUFFICES ASSUME wf = "group" PROVE OpenCall(rows) \in Kept(s) \cup Missed
      OBVIOUS
  <2>1. OpenCall(rows) \in View \cup Missed
      BY <1>9 DEF Fit
  <2>2. OpenCall(rows) \in At(rows, "call") /\ OpenCall(rows) \in Nat
    <3>1. OpenCall(rows) \in At(rows, "call")
        BY <1>9, OpenCallIs DEF Answered
    <3> QED BY <1>1, <3>1 DEF At
  <2>3. ASSUME OpenCall(rows) <= t PROVE FALSE
    <3>1. PICK x \in DOMAIN rows : rows[x].kind \in Speaks /\ OpenCall(rows) < x
        BY <1>10, <2>2, <2>3
    <3>2. x <= OpenCall(rows)
        BY <1>9, <3>1 DEF Answered
    <3> QED BY <1>1, <2>2, <3>1, <3>2
  <2>4. OpenCall(rows) > t
      BY <1>1, <2>2, <2>3
  <2> QED BY <1>2, <2>1, <2>4
<1>12. ASSUME NEW p \in Kept(s) \cap At(rows, "call"), ~(wf = "group" /\ p = OpenCall(rows))
       PROVE  \E q \in (Kept(s) \cup Missed) \cap At(rows, "result") : rows[q].of = p
  <2>1. p \in View /\ p > t
      BY <1>2, <1>3 DEF At
  <2>2. PICK q \in (View \cup Missed) \cap At(rows, "result") : rows[q].of = p
      BY <1>9, <1>12, <2>1 DEF Fit
  <2>3. p < q
      BY <1>9, <2>2 DEF Answered
  <2>4. q > t
      BY <1>1, <2>1, <2>2, <2>3 DEF At
  <2> QED BY <1>2, <2>2, <2>4
<1>13. ASSUME NEW q \in Kept(s) \cap At(rows, "result")
       PROVE  \/ rows[q].of \in Kept(s) \cup Missed
              \/ \E x \in DOMAIN rows : rows[x].kind \in Speaks /\ rows[q].of < x
  <2>1. rows[q].of \in At(rows, "call") /\ rows[q].of < q /\ rows[q].of \in Nat
      BY <1>1, <1>9 DEF Answered, At
  <2>2. CASE rows[q].of <= t
      BY <1>10, <2>1, <2>2
  <2>3. CASE rows[q].of > t
    <3>1. q > t
        BY <1>1, <2>1, <2>3 DEF At
    <3>2. q \in View
        BY <1>1, <1>2, <1>3, <3>1
    <3>3. \/ rows[q].of \in View \cup Missed
          \/ \E x \in DOMAIN rows : rows[x].kind \in Speaks /\ rows[q].of < x
        BY <1>9, <3>2 DEF Fit
    <3> QED BY <1>2, <2>3, <3>3
  <2> QED BY <1>1, <2>1, <2>2, <2>3
<1>14. Fit(Kept(s), Missed, rows, wf)
    BY <1>11, <1>12, <1>13 DEF Fit
<1> HIDE DEF c
<1>15. Planned(c, rows, wf)
  <2>1. Gap(rows) = Missed /\ Gap(rows) \cup ((c.read + 1) .. Len(rows)) = Missed
      BY <1>5, <1>6
  <2>2. Fit(c.kept, Gap(rows) \cup ((c.read + 1) .. Len(rows)), rows, wf)
      BY <1>5, <1>14, <2>1
  <2>3. \A p \in DOMAIN rows : p <= c.read =>
           rows[p].kind = "compaction" \/ p \in c.kept \cup c.covers \cup Gap(rows)
      BY <1>5, <1>7, <2>1
  <2>4. c.read <= Len(rows)
      BY <1>1, <1>5
  <2> QED BY <1>8, <2>2, <2>3, <2>4 DEF Planned
<1> QED BY <1>5, <1>15 DEF c

\* The rows only grow, by messages or by a compaction row.
LEMMA RowsGrow ==
    ASSUME Shapes, Counted, RowsInv, [Next]_vars
    PROVE  \/ \E more \in Seq(MessageRow) : rows' = rows \o more
           \/ \E c \in CompactionRow : rows' = Append(rows, c)
<1>1. CASE Compacted
    BY <1>1 DEF Compacted, Shapes
<1> QED BY <1>1, StepGrows, RowsChange

\* A boundary before the open turn stays before it, and a summary stays true or is stale.
LEMMA TextsGrow ==
    ASSUME Shapes, Counted, RowsInv, [Next]_vars
    PROVE  /\ rows' \in Seq(Row)
           /\ \A t \in Nat : Past(rows, t) => Past(rows', t)
           /\ \A s \in Summary : WrittenNow(s) => Written(s, Len(rows)', Latest', Covered', View')
<1>0. rows \in Seq(Row)
    BY DEF Shapes
<1> DEFINE G == /\ rows' \in Seq(Row)
                /\ \A t \in Nat : Past(rows, t) => Past(rows', t)
                /\ \A s \in Summary : WrittenNow(s) => Written(s, Len(rows)', Latest', Covered', View')
<1>p. ASSUME \A p \in DOMAIN rows : p \in DOMAIN rows' /\ rows'[p] = rows[p], NEW t \in Nat, Past(rows, t)
      PROVE  Past(rows', t)
    BY <1>p DEF Past
<1>2. ASSUME NEW more \in Seq(MessageRow), rows' = rows \o more PROVE G
  <2>1. /\ rows' \in Seq(Row) /\ Len(rows') = Len(rows) + Len(more) /\ Len(more) \in Nat
        /\ \A p \in DOMAIN rows : rows'[p] = rows[p]
        /\ Latest' = Latest /\ Covered' = Covered
        /\ View' = View \cup (Len(rows) + 1 .. Len(rows'))
      BY <1>0, <1>2, MoreMessages
  <2>2. Len(rows) \in Nat /\ \A p \in DOMAIN rows : p \in DOMAIN rows'
      BY <1>0, <2>1
  <2>3. ASSUME NEW s \in Summary, WrittenNow(s) PROVE Written(s, Len(rows)', Latest', Covered', View')
    <3>1. s.through \in Nat /\ s.base \in Nat /\ s.through <= Len(rows) /\ s.base <= Len(rows)
          /\ (s.base = Latest => Covered \cup {p \in View : p <= s.through} \subseteq s.covers)
        BY <2>3 DEF WrittenNow, Written, Summary
    <3>2. {p \in View' : p <= s.through} = {p \in View : p <= s.through}
        BY <2>1, <2>2, <3>1
    <3>3. s.through <= Len(rows') /\ s.base <= Len(rows')
        BY <2>1, <2>2, <3>1
    <3> QED BY <2>1, <3>1, <3>2, <3>3 DEF Written
  <2> QED BY <1>p, <2>1, <2>2, <2>3
<1>3. ASSUME NEW c \in CompactionRow, rows' = Append(rows, c) PROVE G
  <2>1. /\ rows' \in Seq(Row) /\ Len(rows') = Len(rows) + 1
        /\ \A p \in DOMAIN rows : rows'[p] = rows[p]
        /\ Latest' = Len(rows')
      BY <1>0, <1>3, NextCompaction
  <2>2. Len(rows) \in Nat /\ \A p \in DOMAIN rows : p \in DOMAIN rows'
      BY <1>0, <2>1
  <2>3. ASSUME NEW s \in Summary, WrittenNow(s) PROVE Written(s, Len(rows)', Latest', Covered', View')
    <3>1. s.through \in Nat /\ s.base \in Nat /\ s.through <= Len(rows) /\ s.base <= Len(rows)
        BY <2>3 DEF WrittenNow, Written, Summary
    <3>2. s.through <= Len(rows') /\ s.base <= Len(rows') /\ s.base # Latest'
        BY <2>1, <2>2, <3>1
    <3> QED BY <3>2 DEF Written
  <2> QED BY <1>p, <2>1, <2>2, <2>3
<1> QED BY <1>2, <1>3, RowsGrow

\* What a step makes of the boundary and of the summaries.
LEMMA TextsChange ==
    ASSUME Shapes, [Next]_vars
    PROVE  /\ \/ ahead' \in {ahead, 0}
              \/ Replaceable(View) # {} /\ ahead' = Max(Replaceable(View))
           /\ \/ summary' \in {summary, NoSummary, ready}
              \/ \E t \in View : summary' = Summarized(t) /\ t = ahead
           /\ \/ ready' \in {ready, NoSummary}
              \/ child = "signal" /\ ready' = childText
              \/ \E t \in View : ready' = Summarized(t) /\ t = childText.through
           /\ \/ childText' = childText /\ (child' \in {"signal", "store", "append"} =>
                                              child \in {"signal", "store", "append"})
              \/ childText' = [NoSummary EXCEPT !.through = ahead] /\ child' = "start"
              \/ \E t \in View : childText' = Summarized(t) /\ t = childText.through
<1> USE DEF turnVars, childVars, history, Shapes
<1>1. CASE UNCHANGED vars
    BY <1>1 DEF vars
<1>2. CASE UserSends \/ LocalRun \/ AttemptLost
    BY <1>2 DEF UserSends, LocalRun, AttemptLost
<1>3. CASE StartTurn \/ TurnStores \/ Admits \/ Refuses \/ MeasureBelow \/ MeasureAbove
    BY <1>3 DEF StartTurn, TurnStores, ReadToStore, AppendRow, Admits, Refuses, MeasureBelow,
                MeasureAbove, Crosses
<1>4. CASE TakeSummary \/ CompactSummarizes \/ CompactStores \/ CompactAppends \/ CompactFails
    BY <1>4 DEF TakeSummary, CompactSummarizes, CompactStores, CompactAppends, CompactFails,
                ReadToStore, AppendRow
<1>5. CASE Resend \/ ModelFails \/ GroupEnds \/ LastSummary \/ LastAppends \/ NextRun \/ Stop
    BY <1>5 DEF Resend, ModelFails, GroupEnds, LastSummary, LastAppends, AppendRow, NextRun, Stop
<1>6. ASSUME NEW k \in Speaks, ModelAnswers(k)
      PROVE  /\ ahead' = 0 /\ summary' = summary /\ ready' = ready
             /\ \/ childText' = childText /\ child' = child
                \/ childText' = [NoSummary EXCEPT !.through = ahead] /\ child' = "start"
    BY <1>6 DEF ModelAnswers
<1>7. CASE Child
    BY <1>7 DEF Child, ChildSummarizes, LocalSummarizes, ChildFails, ChildSignals, ChildFindsClosed,
                ChildReads, ChildAppends
<1> QED BY <1>1, <1>2, <1>3, <1>4, <1>5, <1>6, <1>7 DEF Next, Thread, Speaks

\* Every step keeps the summaries true or stale.
LEMMA TextsStep ==
    ASSUME Shapes, Counted, RowsInv, Texts, [Next]_vars
    PROVE  /\ Texts' /\ ahead' \in Nat
           /\ summary' \in Summary /\ ready' \in Summary /\ childText' \in Summary
<1> DEFINE Good(s) == s \in Summary /\ Past(rows, s.through) /\ WrittenNow(s)
           Good2(s) == s \in Summary /\ Past(rows', s.through) /\ Written(s, Len(rows)', Latest', Covered', View')
<1>0. rows \in Seq(Row) /\ View \subseteq Nat /\ Latest \in Nat /\ Covered \subseteq Nat /\ Len(rows) \in Nat
    BY RowsThere DEF Shapes
<1>1. Good(NoSummary)
  <2>1. NoSummary \in Summary /\ NoSummary.through = 0 /\ NoSummary.base = 0
      BY DEF NoSummary, Summary
  <2>2. Latest = 0 => Covered = {}
      BY DEF Covered
  <2>3. \A p \in View : ~(p <= 0)
      BY <1>0, RowsThere
  <2>4. NoSummary.base = Latest => Covered \cup {p \in View : p <= NoSummary.through} = {}
    <3> HIDE DEF NoSummary
    <3> QED BY <2>1, <2>2, <2>3
  <2>5. WrittenNow(NoSummary)
    <3> HIDE DEF NoSummary
    <3> QED BY <1>0, <2>1, <2>4 DEF WrittenNow, Written
  <2> QED BY <2>1, <2>5 DEF Past
<1>2. ASSUME NEW t \in View, Past(rows, t) PROVE Good(Summarized(t))
    BY <1>0, <1>2, SummarizedIs
<1>3. ASSUME NEW s, Good(s) PROVE Good2(s)
    BY <1>3, TextsGrow DEF Summary
<1>4. Good(summary) /\ Good(ready) /\ Past(rows, ahead) /\ Past(rows, childText.through)
      /\ (child \in {"signal", "store", "append"} => Good(childText))
    BY DEF Texts, Shapes
<1> HIDE DEF Good, Good2
<1>5. ahead' \in Nat /\ Past(rows', ahead')
  <2>1. CASE ahead' \in {ahead, 0}
      BY <2>1, <1>4, TextsGrow DEF Shapes, Past
  <2>2. CASE Replaceable(View) # {} /\ ahead' = Max(Replaceable(View))
      BY <2>2, <1>0, BoundaryIs, TextsGrow
  <2> QED BY <2>1, <2>2, TextsChange
<1>6. Good2(summary')
    BY <1>1, <1>2, <1>3, <1>4, TextsChange
<1>7. Good2(ready')
    BY <1>1, <1>2, <1>3, <1>4, TextsChange
<1>8. childText' \in Summary /\ Past(rows', childText'.through)
      /\ (child' \in {"signal", "store", "append"} => Good2(childText'))
  <2>1. CASE childText' = childText /\ (child' \in {"signal", "store", "append"} =>
                                          child \in {"signal", "store", "append"})
    <3>1. childText \in Summary /\ childText.through \in Nat
        BY DEF Shapes, Summary
    <3> QED BY <2>1, <3>1, <1>3, <1>4, TextsGrow
  <2>2. CASE childText' = [NoSummary EXCEPT !.through = ahead] /\ child' = "start"
    <3>1. childText' \in Summary /\ childText'.through = ahead /\ ahead \in Nat
        BY <2>2 DEF NoSummary, Summary, Shapes
    <3> QED BY <2>2, <3>1, <1>4, TextsGrow
  <2>3. ASSUME NEW t \in View, childText' = Summarized(t), t = childText.through
        PROVE  Good2(childText')
      BY <2>3, <1>2, <1>3, <1>4
  <2> QED BY <2>1, <2>2, <2>3, TextsChange DEF Good2
<1> QED BY <1>5, <1>6, <1>7, <1>8 DEF Good2, Texts, WrittenNow


\* While a row is planned, the others stay as they are.
LEMMA PlansChange ==
    ASSUME Shapes, [Next]_vars
    PROVE  /\ wf' \in Storing =>
                \/ wf \in Storing /\ plan' = plan
                \/ /\ rows' = rows /\ wf \in {"store", "write", "last"}
                   /\ \E s \in {summary, ready} : ~Stale(s) /\ plan' = Compaction(Kept(s), s)
           /\ child' = "append" =>
                \/ child = "append" /\ childPlan' = childPlan
                \/ /\ rows' = rows /\ child = "store"
                   /\ ~Stale(childText) /\ childPlan' = Compaction(Kept(childText), childText)
<1> USE DEF turnVars, childVars, history, Storing
<1>1. CASE UNCHANGED vars
    BY <1>1 DEF vars
<1>2. CASE UserSends \/ LocalRun \/ AttemptLost
    BY <1>2 DEF UserSends, LocalRun, AttemptLost
<1>3. CASE StartTurn \/ TurnStores \/ Admits \/ Refuses \/ MeasureBelow \/ MeasureAbove
    BY <1>3 DEF StartTurn, TurnStores, ReadToStore, AppendRow, Admits, Refuses, MeasureBelow,
                MeasureAbove
<1>4. CASE TakeSummary \/ CompactSummarizes \/ CompactStores \/ CompactAppends \/ CompactFails
    BY <1>4 DEF TakeSummary, CompactSummarizes, CompactStores, CompactAppends, CompactFails,
                ReadToStore, AppendRow
<1>5. CASE Resend \/ ModelFails \/ GroupEnds \/ LastSummary \/ LastAppends \/ NextRun \/ Stop
    BY <1>5 DEF Resend, ModelFails, GroupEnds, LastSummary, LastAppends, AppendRow, NextRun, Stop
<1>6. ASSUME NEW k \in Speaks, ModelAnswers(k)
      PROVE  wf' \notin Storing /\ childPlan' = childPlan /\ child' \in {child, "start"}
    BY <1>6 DEF ModelAnswers
<1>7. CASE Child
    BY <1>7 DEF Child, ChildSummarizes, LocalSummarizes, ChildFails, ChildSignals, ChildFindsClosed,
                ChildReads, ChildAppends
<1> QED BY <1>1, <1>2, <1>3, <1>4, <1>5, <1>6, <1>7 DEF Next, Thread, Speaks

\* Every step keeps the thread closed while its summary is stored for it, unless it opens
\* beside that; and then nothing is appended between a read and its append.
LEMMA ApartStep == Shapes /\ Counted /\ Apart /\ [Next]_vars => Apart'
<1> SUFFICES ASSUME Shapes, Counted, Apart, [Next]_vars PROVE Apart'
    OBVIOUS
<1>1. beside \in BOOLEAN /\ beside' \in BOOLEAN /\ (beside => beside')
    BY BesideGrows DEF Apart
<1> SUFFICES ASSUME ~beside'
             PROVE  /\ child' \in {"store", "append"} => wf' = "closed"
                    /\ wf' \in Storing => plan'.read = Len(rows)'
                    /\ child' = "append" => childPlan'.read = Len(rows)'
    BY <1>1 DEF Apart
<1>2. /\ ~beside
      /\ child \in {"store", "append"} => wf = "closed"
      /\ wf \in Storing => plan.read = Len(rows)
      /\ child = "append" => childPlan.read = Len(rows)
    BY <1>1 DEF Apart
<1>3. child' \in {"store", "append"} => wf' = "closed"
  <2> DEFINE Closed == child' \in {"store", "append"} => wf' = "closed"
  <2> USE DEF turnVars, childVars, history
  <2>1. CASE UNCHANGED vars
      BY <1>2, <2>1 DEF vars
  <2>2. CASE UserSends \/ LocalRun \/ AttemptLost
      BY <1>2, <2>2 DEF UserSends, LocalRun, AttemptLost, Opens
  <2>3. CASE StartTurn \/ TurnStores \/ Admits \/ Refuses \/ MeasureBelow \/ MeasureAbove
      BY <1>2, <2>3 DEF StartTurn, TurnStores, ReadToStore, AppendRow, Admits, Refuses, MeasureBelow,
                  MeasureAbove
  <2>4. CASE TakeSummary \/ CompactSummarizes \/ CompactStores \/ CompactAppends \/ CompactFails
      BY <1>2, <2>4 DEF TakeSummary, CompactSummarizes, CompactStores, CompactAppends, CompactFails,
                  ReadToStore, AppendRow
  <2>5. CASE Resend \/ ModelFails \/ GroupEnds \/ LastSummary \/ LastAppends \/ NextRun \/ Stop
      BY <1>2, <2>5 DEF Resend, ModelFails, GroupEnds, LastSummary, LastAppends, AppendRow, NextRun,
                  Stop
  <2>6. ASSUME NEW k \in Speaks, ModelAnswers(k) PROVE Closed
      BY <1>2, <2>6 DEF ModelAnswers
  <2>7. CASE Child
      BY <1>2, <2>7 DEF Child, ChildSummarizes, LocalSummarizes, ChildFails, ChildSignals,
                  ChildFindsClosed, ChildReads, ChildAppends
  <2> QED BY <2>1, <2>2, <2>3, <2>4, <2>5, <2>6, <2>7 DEF Next, Thread, Speaks
<1>4. wf \in Storing /\ wf' \in Storing => rows' = rows
    BY <1>2, RowsChange DEF SameRows, Inbound, Spoken, Result, Compacted, Storing
<1>5. child = "append" /\ child' = "append" => rows' = rows
    BY <1>2, RowsChange DEF SameRows, Inbound, Spoken, Result, Compacted, Storing
<1>6. \A s : Compaction(Kept(s), s).read = Len(rows)
    BY DEF Compaction
<1>7. ASSUME wf' \in Storing PROVE plan'.read = Len(rows')
  <2>1. CASE wf \in Storing /\ plan' = plan
      BY <1>2, <1>4, <1>7, <2>1
  <2>2. CASE rows' = rows /\ \E s \in {summary, ready} : plan' = Compaction(Kept(s), s)
      BY <1>6, <2>2
  <2> QED BY <1>7, <2>1, <2>2, PlansChange
<1>8. ASSUME child' = "append" PROVE childPlan'.read = Len(rows')
  <2>1. CASE child = "append" /\ childPlan' = childPlan
      BY <1>2, <1>5, <1>8, <2>1
  <2>2. CASE rows' = rows /\ childPlan' = Compaction(Kept(childText), childText)
      BY <1>6, <2>2
  <2> QED BY <1>8, <2>1, <2>2, PlansChange
<1> QED BY <1>3, <1>7, <1>8

\* Every step keeps the planned rows fit: what is appended between the read and the append
\* is what the row will have missed.
LEMMA PlansStep ==
    ASSUME Shapes, Counted, RowsInv, Texts, Plans, [Next]_vars
    PROVE  /\ Plans'
           /\ wf' \in Storing => plan' \in CompactionRow
           /\ child' = "append" => childPlan' \in CompactionRow
<1>1. ASSUME NEW c \in CompactionRow, Planned(c, rows, wf) PROVE Planned(c, rows', wf')
  <2>1. Grows(rows, wf, rows', wf') /\ Answered(rows, wf) /\ rows \in Seq(Row)
      BY NextGrows DEF RowsInv, Shapes
  <2> QED BY <1>1, <2>1, PlannedGrows
<1>2. ASSUME NEW s \in Summary, ~Stale(s), Past(rows, s.through), WrittenNow(s)
      PROVE  /\ Compaction(Kept(s), s) \in CompactionRow
             /\ Planned(Compaction(Kept(s), s), rows', wf')
    BY <1>1, <1>2, KeptPlanned DEF Shapes
<1>3. ASSUME wf' \in Storing PROVE plan' \in CompactionRow /\ Planned(plan', rows', wf')
  <2>1. CASE wf \in Storing /\ plan' = plan
      BY <2>1, <1>1 DEF Plans, Shapes
  <2>2. ASSUME NEW s \in {summary, ready}, ~Stale(s), plan' = Compaction(Kept(s), s)
        PROVE  plan' \in CompactionRow /\ Planned(plan', rows', wf')
    <3>1. s \in Summary /\ Past(rows, s.through) /\ WrittenNow(s)
        BY <2>2 DEF Texts, Shapes
    <3> QED BY <1>2, <2>2, <3>1
  <2> QED BY <1>3, <2>1, <2>2, PlansChange
<1>4. ASSUME child' = "append" PROVE childPlan' \in CompactionRow /\ Planned(childPlan', rows', wf')
  <2>1. CASE child = "append" /\ childPlan' = childPlan
      BY <2>1, <1>1 DEF Plans, Shapes
  <2>2. CASE child = "store" /\ ~Stale(childText) /\ childPlan' = Compaction(Kept(childText), childText)
    <3>1. childText \in Summary /\ Past(rows, childText.through) /\ WrittenNow(childText)
        BY <2>2 DEF Texts, Shapes
    <3> QED BY <1>2, <2>2, <3>1
  <2> QED BY <1>4, <2>1, <2>2, PlansChange
<1> QED BY <1>3, <1>4 DEF Plans

-----------------------------------------------------------------------------
(* Types, and the messages the user sent.                                  *)

\* Every step keeps the types.
LEMMA ShapesStep ==
    ASSUME Shapes, Counted, Apart, RowsInv, Texts, Plans, [Next]_vars
    PROVE  Shapes'
<1> DEFINE Moves == /\ caller' = caller /\ wf' \in Wfs /\ child' \in Stages
                    /\ compacted' \in BOOLEAN /\ admitted' \in BOOLEAN /\ waited' \in BOOLEAN
                    /\ job' \in BOOLEAN
                    /\ wf' \notin Storing => plan' = NoRow
                    /\ child' # "append" => childPlan' = NoRow
                    /\ ready' # NoSummary => child' = "none"
<1>m. Moves
  <2> USE DEF turnVars, childVars, history, Shapes, Storing, Wfs, Stages
  <2>1. CASE UNCHANGED vars
      BY <2>1 DEF vars
  <2>2. CASE /\ UNCHANGED caller
             /\ UserSends \/ LocalRun \/ AttemptLost
      BY <2>2 DEF UserSends, LocalRun, AttemptLost
  <2>3. CASE /\ UNCHANGED caller
             /\ StartTurn \/ TurnStores \/ Admits \/ Refuses \/ MeasureBelow \/ MeasureAbove
      BY <2>3, ZenonT(40) DEF StartTurn, Taken, TurnStores, ReadToStore, AppendRow, Admits, Refuses, MeasureBelow,
                  MeasureAbove
  <2>4. CASE UNCHANGED caller /\ (TakeSummary \/ CompactSummarizes \/ CompactFails)
      BY <2>4 DEF TakeSummary, CompactSummarizes, CompactFails, ReadToStore
  <2>9. CASE UNCHANGED caller /\ (CompactStores \/ CompactAppends)
      BY <2>9 DEF CompactStores, CompactAppends, ReadToStore, AppendRow
  <2>5. CASE /\ UNCHANGED caller
             /\ Resend \/ ModelFails \/ GroupEnds \/ LastSummary \/ LastAppends \/ NextRun \/ Stop
      BY <2>5, ZenonT(40) DEF Resend, ModelFails, GroupEnds, LastSummary, Taken, LastAppends, AppendRow, NextRun,
                  Stop, Outlives
  <2>6. ASSUME NEW k \in Speaks, ModelAnswers(k), UNCHANGED caller PROVE Moves
      BY <2>6 DEF ModelAnswers, StartsChild
  <2>7. CASE UNCHANGED caller /\ Child
    <3>1. CASE ChildSummarizes \/ ChildFails \/ ChildSignals \/ ChildFindsClosed
        BY <2>7, <3>1, ZenonT(40) DEF ChildSummarizes, ChildFails, ChildSignals, ChildFindsClosed
    <3>2. CASE LocalSummarizes
        BY <2>7, <3>2 DEF LocalSummarizes
    <3>3. CASE ChildReads \/ ChildAppends
        BY <2>7, <3>3 DEF ChildReads, ChildAppends
    <3> QED BY <2>7, <3>1, <3>2, <3>3 DEF Child
  <2> QED BY <2>1, <2>2, <2>3, <2>4, <2>5, <2>6, <2>7, <2>9 DEF Next, Thread, Speaks
<1>1. rows' \in Seq(Row)
    BY TextsGrow
<1>2. ahead' \in Nat /\ summary' \in Summary /\ ready' \in Summary /\ childText' \in Summary
    BY TextsStep
<1>3. /\ wf' \in Storing => plan' \in CompactionRow
      /\ child' = "append" => childPlan' \in CompactionRow
    BY PlansStep
<1>4. NoRow \notin CompactionRow
    BY DEF NoRow, CompactionRow
<1> QED BY <1>m, <1>1, <1>2, <1>3, <1>4 DEF Shapes

\* What the user said is counted as it is stored.
LEMMA InboundCounts ==
    ASSUME rows \in Seq(Row), NEW n \in Nat, rows' = StoreInbound(n)
    PROVE  Cardinality(Positions("user")') = Cardinality(Positions("user")) + n
<1> DEFINE more == [i \in 1 .. n |-> Message("user", 0)]
           U == Positions("user")
           new == Len(rows) + 1 .. Len(rows) + n
<1>1. more \in Seq(MessageRow) /\ Len(more) = n /\ \A i \in 1 .. n : more[i].kind = "user"
    BY DEF Message, MessageRow
<1>2. rows' = rows \o more
    BY DEF StoreInbound
<1> HIDE DEF more
<1>3. /\ rows' \in Seq(Row) /\ Len(rows') = Len(rows) + n
      /\ \A p \in DOMAIN rows : rows'[p] = rows[p]
      /\ \A i \in 1 .. n : rows'[Len(rows) + i] = more[i]
    BY <1>1, <1>2, MoreMessages
<1>4. Len(rows) \in Nat /\ DOMAIN rows = 1 .. Len(rows) /\ DOMAIN rows' = DOMAIN rows \cup new
    BY <1>3
<1>5. ASSUME NEW p \in new PROVE rows'[p].kind = "user"
  <2>1. p - Len(rows) \in 1 .. n /\ p = Len(rows) + (p - Len(rows))
      BY <1>4
  <2> QED BY <1>1, <1>3, <2>1
<1>6. Positions("user")' = U \cup new
    BY <1>3, <1>4, <1>5 DEF Positions
<1>7. IsFiniteSet(U) /\ U \cap new = {}
  <2>1. U \subseteq 1 .. Len(rows) /\ IsFiniteSet(1 .. Len(rows))
      BY <1>4, FS_Interval DEF Positions
  <2>2. IsFiniteSet(U)
      BY <2>1, FS_Subset
  <2> QED BY <1>4, <2>1, <2>2
<1>8. IsFiniteSet(new) /\ Cardinality(new) = n
  <2>1. Len(rows) + 1 \in Int /\ Len(rows) + n \in Int
      BY <1>4
  <2>2. IsFiniteSet(new) /\ Cardinality(new) = IF Len(rows) + 1 > Len(rows) + n THEN 0
                                               ELSE (Len(rows) + n) - (Len(rows) + 1) + 1
      BY <2>1, FS_Interval
  <2> QED BY <1>4, <2>2
<1> HIDE DEF U, new
<1>9. Cardinality(U \cup new) = Cardinality(U) + Cardinality(new) - Cardinality({})
    BY <1>7, <1>8, FS_Union
<1>10. Cardinality({}) = 0 /\ Cardinality(U) \in Nat
    BY <1>7, FS_EmptySet, FS_CardinalityType
<1>11. Cardinality(U \cup new) = Cardinality(U) + n
    BY <1>8, <1>9, <1>10
<1> QED BY <1>6, <1>11 DEF U

\* Nothing else is one of the user's messages.
LEMMA OthersCount ==
    ASSUME Shapes, [Next]_vars, Counted, ~Inbound
    PROVE  Positions("user")' = Positions("user")
<1>1. ASSUME NEW x, x.kind # "user", rows' = Append(rows, x)
      PROVE  Positions("user")' = Positions("user")
  <2>1. /\ DOMAIN rows' = 1 .. Len(rows) + 1 /\ Len(rows) \in Nat /\ DOMAIN rows = 1 .. Len(rows)
        /\ \A p \in DOMAIN rows : rows'[p] = rows[p]
        /\ rows'[Len(rows) + 1] = x
    <3>1. rows \in Seq(Row \cup {x})
        BY DEF Shapes
    <3> QED BY <1>1, <3>1
  <2> QED BY <1>1, <2>1 DEF Positions
<1>2. CASE SameRows
    BY <1>2 DEF SameRows, Positions
<1>3. CASE \E k \in Speaks : Spoken(k)
    BY <1>1, <1>3 DEF Spoken, Speaks, Message
<1>4. CASE Result
    BY <1>1, <1>4 DEF Result, Message
<1>5. CASE Compacted
  <2>1. \A c \in CompactionRow : c.kind # "user"
      BY DEF CompactionRow
  <2> QED BY <1>1, <1>5, <2>1 DEF Compacted, Shapes
<1> QED BY <1>2, <1>3, <1>4, <1>5, RowsChange


\* Every step keeps the user's messages counted.
LEMMA CountedStep ==
    ASSUME Shapes, Counted, [Next]_vars
    PROVE  Counted'
<1> DEFINE C == Cardinality(Positions("user"))
           C2 == Cardinality(Positions("user")')
<1>1. rows \in Seq(Row) /\ C \in Nat
  <2>1. rows \in Seq(Row) /\ Positions("user") \subseteq 1 .. Len(rows) /\ Len(rows) \in Nat
      BY DEF Shapes, Positions
  <2>2. IsFiniteSet(1 .. Len(rows))
      BY <2>1, FS_Interval
  <2> QED BY <2>1, <2>2, FS_Subset, FS_CardinalityType
<1>2. /\ inbox \in Nat /\ fresh \in Nat /\ gated \in Nat /\ failed \in Nat
      /\ sent = inbox + fresh + gated + failed + C /\ sent \in 0 .. MaxMessages
      /\ wf = "closed" => inbox = 0
    BY DEF Counted
<1> DEFINE Sum == /\ inbox' \in Nat /\ fresh' \in Nat /\ gated' \in Nat /\ failed' \in Nat
                  /\ sent' = inbox' + fresh' + gated' + failed' + C2 /\ sent' \in 0 .. MaxMessages
                  /\ wf' = "closed" => inbox' = 0
<1>3. CASE Inbound
  <2>1. CASE MeasureBelow
    <3>1. C2 = C + fresh
        BY <1>1, <1>2, <2>1, InboundCounts DEF MeasureBelow
    <3> HIDE DEF C, C2
    <3>2. Sum
        BY <1>1, <1>2, <2>1, <3>1 DEF MeasureBelow, childVars, history
    <3> QED BY <3>2 DEF Counted, C2
  <2>2. CASE Resend
    <3>1. C2 = C + (fresh + inbox)
        BY <1>1, <1>2, <2>2, InboundCounts DEF Resend
    <3> HIDE DEF C, C2
    <3>2. Sum
        BY <1>1, <1>2, <2>2, <3>1 DEF Resend, childVars, history
    <3> QED BY <3>2 DEF Counted, C2
  <2>3. MeasureBelow \/ Resend
    <3>1. wf \in {"measure", "resend"} /\ wf' = "model"
        BY <1>3 DEF Inbound
    <3>2. ~UNCHANGED vars /\ ~UserSends /\ ~LocalRun /\ ~AttemptLost
        BY <3>1 DEF vars, UserSends, LocalRun, AttemptLost
    <3>3. ~Child
        BY <3>1 DEF Child, ChildSummarizes, LocalSummarizes, ChildFails, ChildSignals,
                    ChildFindsClosed, ChildReads, ChildAppends, turnVars
    <3>4. Thread => MeasureBelow \/ Resend
        BY <3>1 DEF Thread, StartTurn, TurnStores, ReadToStore, AppendRow, Admits, Refuses,
              MeasureAbove, TakeSummary, CompactSummarizes, CompactStores, CompactAppends,
              CompactFails, ModelAnswers, ModelFails, GroupEnds, LastSummary, LastAppends,
              NextRun, Stop
    <3> QED BY <3>2, <3>3, <3>4 DEF Next
  <2> QED BY <2>1, <2>2, <2>3
<1>4. CASE ~Inbound
  <2>1. C2 = C
      BY <1>4, OthersCount
  <2> HIDE DEF C, C2
  <2>2. Sum
    <3> USE DEF turnVars, childVars, history
    <3>1. CASE UNCHANGED vars
        BY <1>1, <1>2, <2>1, <3>1 DEF vars
    <3>2. CASE UserSends \/ AttemptLost
        BY <1>1, <1>2, <2>1, <3>2, SMTT(25) DEF UserSends, AttemptLost
    <3>9. CASE LocalRun
      <4>1. PICK n \in 1 .. MaxMessages - sent : sent' = sent + n /\ inbox' = n
          BY <3>9 DEF LocalRun
      <4>2. wf = "closed" /\ wf' = "open" /\ fresh' = fresh /\ gated' = gated /\ failed' = failed
          BY <3>9 DEF LocalRun
      <4> QED BY <1>1, <1>2, <2>1, <4>1, <4>2
    <3>3. CASE StartTurn \/ TurnStores \/ Admits \/ Refuses \/ MeasureAbove
        BY <1>1, <1>2, <2>1, <3>3 DEF StartTurn, TurnStores, ReadToStore, AppendRow, Admits, Refuses,
                                      MeasureAbove
    <3>4. CASE TakeSummary \/ CompactSummarizes \/ CompactStores \/ CompactAppends \/ CompactFails
        BY <1>1, <1>2, <2>1, <3>4 DEF TakeSummary, CompactSummarizes, CompactStores, CompactAppends,
                                      CompactFails, ReadToStore, AppendRow
    <3>5. CASE ModelFails \/ GroupEnds \/ LastSummary \/ LastAppends \/ NextRun \/ Stop
        BY <1>1, <1>2, <2>1, <3>5 DEF ModelFails, GroupEnds, LastSummary, LastAppends, AppendRow,
                                      NextRun, Stop
    <3>6. ASSUME NEW k \in Speaks, ModelAnswers(k) PROVE Sum
        BY <1>1, <1>2, <2>1, <3>6 DEF ModelAnswers
    <3>7. CASE Child
        BY <1>1, <1>2, <2>1, <3>7 DEF Child, ChildSummarizes, LocalSummarizes, ChildFails,
                                      ChildSignals, ChildFindsClosed, ChildReads, ChildAppends
    <3>8. ~MeasureBelow /\ ~Resend
        BY <1>2, <1>4 DEF MeasureBelow, Resend, Inbound
    <3> QED BY <3>1, <3>2, <3>3, <3>4, <3>5, <3>6, <3>7, <3>8, <3>9 DEF Next, Thread, Speaks
  <2> QED BY <2>2 DEF Counted, C2
<1> QED BY <1>3, <1>4
-----------------------------------------------------------------------------
(* The theorems.                                                           *)

\* The invariant holds at the start.
LEMMA ContextInit == Init => ContextInv
<1> SUFFICES ASSUME Init PROVE ContextInv
    OBVIOUS
<1>1. rows = <<>> /\ DOMAIN rows = {} /\ Len(rows) = 0 /\ rows \in Seq(Row)
    BY DEF Init
<1>2. \A k : Positions(k) = {}
    BY <1>1 DEF Positions
<1>3. Messages = {} /\ View = {}
    BY <1>1, <1>2, RowsThere DEF Messages
<1>4. Latest = 0 /\ Covered = {}
    BY <1>1, RowsThere DEF Covered
<1>5. Shapes
  <2>1. NoSummary \in Summary
      BY DEF NoSummary, Summary
  <2> QED BY <1>1, <2>1 DEF Init, Shapes, Wfs, Storing, Stages
<1>6. Counted
  <2>1. Cardinality(Positions("user")) = 0
      BY <1>2, FS_EmptySet
  <2> QED BY <2>1 DEF Init, Counted
<1>7. RowsInv
  <2>1. \A k : At(rows, k) = {}
      BY <1>1 DEF At
  <2> QED BY <1>1, <1>2, <1>3, <2>1 DEF Init, RowsInv, Answered, Fit, NothingHidden, OneChain,
                                        NoneBetween
<1>8. Texts
  <2>1. WrittenNow(NoSummary)
      BY <1>1, <1>3, <1>4 DEF WrittenNow, Written, NoSummary
  <2> QED BY <2>1 DEF Init, Texts, Past, NoSummary
<1> QED BY <1>5, <1>6, <1>7, <1>8 DEF Init, ContextInv, Apart, Plans, Storing

\* Every step keeps it.
LEMMA ContextStep == ContextInv /\ [Next]_vars => ContextInv'
BY ShapesStep, CountedStep, ApartStep, RowsStep, TextsStep, PlansStep DEF ContextInv

\* It holds in every state.
LEMMA ContextAlways == Spec => []ContextInv
<1>1. ContextInv /\ [Next]_vars => ContextInv'
    BY ContextStep
<1> QED BY <1>1, ContextInit, PTL DEF Spec

\* Every message of the transcript is in the model's view, was read by a summary the view
\* begins with, or came between the read and the append of a row: for any limits, however
\* the summaries are written, lost, repeated or late, and whatever is said meanwhile.
THEOREM NothingIsHidden == Spec => []NothingHidden
<1>1. ContextInv => NothingHidden
    BY DEF ContextInv, RowsInv
<1> QED BY <1>1, ContextAlways, PTL

\* Each compaction row replaces the context its summary was written from, nothing comes
\* between its read and its append unless the thread opened beside the storing of its
\* summary, and every message the user sent is in exactly one place.
THEOREM CompactionCorrect == Spec => []CompactionInv
<1>1. ASSUME ContextInv PROVE CompactionInv
  <2>1. Shapes /\ Counted /\ OneChain /\ NoneBetween /\ beside \in BOOLEAN
      BY <1>1 DEF ContextInv, RowsInv, Apart
  <2>2. Cardinality(Positions("user")) \in Nat
    <3>1. Positions("user") \subseteq 1 .. Len(rows) /\ Len(rows) \in Nat
        BY <2>1 DEF Shapes, Positions
    <3>2. IsFiniteSet(1 .. Len(rows))
        BY <3>1, FS_Interval
    <3> QED BY <3>1, <3>2, FS_Subset, FS_CardinalityType
  <2>3. inbox \in 0 .. MaxMessages /\ fresh \in 0 .. MaxMessages
    <3> DEFINE C == Cardinality(Positions("user"))
    <3>1. /\ inbox \in Nat /\ fresh \in Nat /\ gated \in Nat /\ failed \in Nat /\ C \in Nat
          /\ sent = inbox + fresh + gated + failed + C /\ sent <= MaxMessages
        BY <2>1, <2>2 DEF Counted
    <3> HIDE DEF C
    <3> QED BY <3>1
  <2>4. TypeOK
      BY <2>1, <2>3 DEF TypeOK, Shapes, Counted, Row, Wfs, Stages, Storing
  <2> QED BY <2>1, <2>4 DEF CompactionInv
<1> QED BY <1>1, ContextAlways, PTL

\* And every request is one a provider takes, but for what a row has missed: a call goes
\* with its result, and a result whose call was replaced is of an earlier turn than the last.
THEOREM RequestsAreValid == Spec => []ValidRequest
<1>1. ASSUME ContextInv PROVE ValidRequest
  <2> SUFFICES ASSUME wf = "model" PROVE ValidRequest
      BY DEF ValidRequest
  <2>1. rows \in Seq(Row) /\ Answered(rows, wf) /\ Fit(View, Missed, rows, wf) /\ wf # "group"
      BY <1>1 DEF ContextInv, RowsInv, Shapes
  <2>2. DOMAIN rows = 1 .. Len(rows) /\ Len(rows) \in Nat /\ \A k : At(rows, k) = Positions(k)
      BY <2>1 DEF At, Positions
  <2>3. ASSUME NEW c \in View \cap Positions("call")
        PROVE  \E r \in (View \cup Missed) \cap Positions("result") : rows[r].of = c
      BY <2>1, <2>2 DEF Fit
  <2>4. ASSUME NEW r \in View \cap Positions("result")
        PROVE  \/ rows[r].of \in View \cup Missed
               \/ rows[r].of < Max(Positions("call") \cup Positions("answer"))
    <3> DEFINE S == Positions("call") \cup Positions("answer")
    <3>1. rows[r].of \in Nat
        BY <2>1, <2>2 DEF Answered, Positions
    <3>2. ASSUME NEW q \in DOMAIN rows, rows[q].kind \in Speaks, rows[r].of < q
          PROVE  rows[r].of < Max(S)
      <4>1. q \in S /\ S \subseteq Nat /\ \A x \in S : x <= Len(rows)
          BY <2>2, <3>2 DEF Positions, Speaks
      <4>2. Max(S) \in S /\ q <= Max(S)
        <5> HIDE DEF S
        <5> QED BY <2>2, <4>1, GreatestOf
      <4>3. Max(S) \in Nat
          BY <4>1, <4>2
      <4> HIDE DEF S
      <4> QED BY <2>2, <3>1, <3>2, <4>2, <4>3
    <3>3. \/ rows[r].of \in View \cup Missed
          \/ \E q \in DOMAIN rows : rows[q].kind \in Speaks /\ rows[r].of < q
        BY <2>1, <2>2 DEF Fit
    <3> QED BY <3>2, <3>3
  <2> QED BY <2>3, <2>4 DEF ValidRequest
<1> QED BY <1>1, ContextAlways, PTL

=============================================================================
