------------------------ MODULE SubscriptionsProofs ------------------------
(***************************************************************************)
(* For any number of subscriptions, modules, rows and concurrent requests: *)
(* the rows stay unique through everything that is delivered, repeated,    *)
(* reconciled, resurrected or rolled back.  The argument is about the      *)
(* transactions that are open: each has checked the two unique indexes for *)
(* the row it will commit, and no other step can spoil that check, because *)
(* two open transactions never share a row or a slot.  The quotas follow   *)
(* the rows, because one open refresh at a time holds them and commits,    *)
(* with its row, what it has computed for that row.  And the rows agree    *)
(* with Stripe as long as events are processed in order, because what a    *)
(* handler is about to write is then what Stripe has said last.            *)
(***************************************************************************)
EXTENDS Subscriptions, TLAPS

Open == {"refreshing", "waiting", "beaten", "committing", "aborted"}

-----------------------------------------------------------------------------
(* The inductive invariant *)

\* What a session holds, by where it is.
SessionAgrees(h) ==
  /\ h \in Handler /\ phase[h] # "idle" => ev[h] \in sent /\ sub[h] = ev[h].sub
  /\ h = Refresher => phase[h] \in Open \cup {"idle"} /\ row[h] = None
  /\ h = Reconciler => /\ phase[h] \in Open \cup {"idle", "inserting"}
                       /\ phase[h] # "idle" => sub[h] \in Sub
  /\ phase[h] \in {"looking", "inserting", "updating"} => seen[h] \in LocalStatus
  /\ phase[h] \in Open /\ row[h] # None => seen[h] \in LocalStatus

\* A row that a session has found is there and keeps its slot.
FoundRow(h) ==
  /\ phase[h] \in {"updating", "canceling"} =>
       row[h] \in Row /\ rowStatus[row[h]] # "absent"
  /\ phase[h] = "updating" => SlotOf[rowSub[row[h]]] = SlotOf[sub[h]]

\* Events are of subscriptions that exist.
SentAgrees == \A e \in sent : stripe[e.sub] # "none"

RowsHaveSub == \A r \in Row : rowStatus[r] # "absent" => rowSub[r] \in Sub

\* An open write: its row is new or of its slot, and the indexes allow it.
WriteAllowed(h) ==
  phase[h] \in Open /\ row[h] # None =>
    /\ IndexesAllow(row[h], sub[h], seen[h])
    /\ rowStatus[row[h]] # "absent" => SlotOf[rowSub[row[h]]] = SlotOf[sub[h]]

\* Two open writes share neither a row nor a slot.
WritesApart ==
  \A g, h \in Writing : g # h => row[g] # row[h] /\ SlotOf[sub[g]] # SlotOf[sub[h]]

TableInv ==
  /\ TypeOK
  /\ SentAgrees
  /\ \A h \in Session : SessionAgrees(h)
  /\ \A h \in Session : FoundRow(h)
  /\ RowsHaveSub
  /\ \A h \in Session : WriteAllowed(h)
  /\ WritesApart
  /\ OneRowEach

-----------------------------------------------------------------------------
(* What a step does, in the words the proofs need *)

\* mapStripeStatus has a local status for each of Stripe's,
LEMMA StatusMapType == \A s \in DOMAIN StatusMap : StatusMap[s] \in LocalStatus
BY SMT DEF StatusMap, LocalStatus

\* and so has the handler of each event.
LEMMA NewStatusType ==
  ASSUME NEW e \in Event PROVE NewStatus(e) \in LocalStatus
<1>1. e.status \in DOMAIN StatusMap
  BY SubscriptionsConstants, SMT DEF Event
<1> HIDE DEF StatusMap
<1>2. StatusMap[e.status] \in LocalStatus
  BY <1>1, StatusMapType
<1> QED BY <1>2 DEF NewStatus, LocalStatus

\* The table is empty at first, and nobody writes.
LEMMA InitTable == Init => TableInv
<1> SUFFICES ASSUME Init PROVE TableInv
  OBVIOUS
<1>1. TypeOK
  BY SubscriptionsConstants, SMT DEF Init, TypeOK, DataTypes, Session, Slot, Event
<1>2. \A h \in Session : SessionAgrees(h) /\ FoundRow(h) /\ WriteAllowed(h)
  BY SMT DEF Init, SessionAgrees, FoundRow, WriteAllowed, Open, Session
<1>3. SentAgrees /\ RowsHaveSub /\ WritesApart
  BY SMT DEF Init, SentAgrees, RowsHaveSub, WritesApart, Writing
<1>4. OneRowEach
  BY SMT DEF Init, OneRowEach, RowOf, Live, Terminal
<1> QED BY <1>1, <1>2, <1>3, <1>4 DEF TableInv

-----------------------------------------------------------------------------
(* Every step keeps the types *)

\* Every handler, transaction and job keeps the types.
LEMMA StepTypes == TableInv /\ [Next]_vars => DataTypes'
<1> SUFFICES ASSUME TableInv, [Next]_vars PROVE DataTypes'
  OBVIOUS
<1> USE SubscriptionsConstants DEF TableInv, TypeOK, DataTypes, Session, PhaseTo, Slot, Open
<1>1. ASSUME NEW s \in Sub, Checkout(s) PROVE DataTypes'
  BY <1>1, SMT DEF Checkout, Event, tableVars, jobVars, history
<1>2. ASSUME NEW s \in Sub, Change(s) PROVE DataTypes'
  BY <1>2, SMT DEF Change, EventsOf, Event, tableVars, jobVars, history
<1>3. ASSUME NEW s \in Sub, Reconcile(s) PROVE DataTypes'
  BY <1>3, StatusMapType, SMT DEF Reconcile, Listed, Disturb, stripeVars, tableVars
<1>4. ASSUME NEW h \in Handler, NEW e \in sent, Receive(h, e) PROVE DataTypes'
  BY <1>4, SMT DEF Receive, DisturbIf, Event, stripeVars, tableVars
<1>5. ASSUME NEW h \in Handler, Retrieve(h) PROVE DataTypes'
  <2>1. stripe[sub[h]] \in Statuses
    BY <1>5, SMT DEF Retrieve, SessionAgrees, SentAgrees, Event
  <2>2. StatusMap[stripe[sub[h]]] \in LocalStatus
    BY <2>1, StatusMapType
  <2> QED BY <1>5, <2>2, SMT DEF Retrieve, stripeVars, tableVars, history
<1>6. ASSUME NEW h \in Handler, Skip(h) PROVE DataTypes'
  BY <1>6, SMT DEF Skip, Disturb, stripeVars, tableVars, jobVars
<1>7. ASSUME NEW h \in Handler, Look(h) PROVE DataTypes'
  BY <1>7, SMT DEF Look, stripeVars, tableVars, history
<1>8. ASSUME NEW h \in Handler, FindDeleted(h) PROVE DataTypes'
  BY <1>8, SMT DEF FindDeleted, RowOf, stripeVars, tableVars, history
<1>9. ASSUME NEW h \in Handler, CancelRow(h) PROVE DataTypes'
  <2>1. /\ rowStatus' = [rowStatus EXCEPT ![row[h]] = "canceled"]
        /\ phase' = [phase EXCEPT ![h] = "marking"]
        /\ row' = [row EXCEPT ![h] = None]
        /\ UNCHANGED <<stripeVars, processed, rowSub, quota, ev, sub, seen, computed>>
    BY <1>9, Zenon DEF CancelRow
  <2>2. "canceled" \in LocalStatus
    BY DEF LocalStatus
  <2>3. rowStatus' \in [Row -> LocalStatus \cup {"absent"}]
    <3>1. phase[h] = "canceling"
      BY <1>9, Zenon DEF CancelRow
    <3>2. row[h] \in Row
      BY <3>1, Zenon DEF FoundRow
    <3>3. rowStatus \in [Row -> LocalStatus \cup {"absent"}]
      OBVIOUS
    <3> HIDE DEF TableInv
    <3> QED BY <2>1, <2>2, <3>2, <3>3
  <2> QED BY <2>1, <2>3, SMT DEF stripeVars
<1>10. ASSUME NEW h \in Handler, Apply(h) PROVE DataTypes'
  <2>1. ev[h] \in Event
    BY <1>10 DEF Apply, SessionAgrees
  <2>2. NewStatus(ev[h]) \in LocalStatus
    BY <2>1, NewStatusType
  <2> QED BY <1>10, <2>2, SMT DEF Apply, stripeVars, jobVars
<1>11. ASSUME NEW h \in Session, Fail(h) PROVE DataTypes'
  BY <1>11, SMT DEF Fail, Release, Forget, Disturb, stripeVars, tableVars
<1>12. ASSUME NEW h \in Handler, Mark(h) PROVE DataTypes'
  BY <1>12, SMT DEF Mark, Forget, SessionAgrees, stripeVars, tableVars, history
<1>13. ASSUME NEW h \in Session, UpdateRow(h) PROVE DataTypes'
  BY <1>13, SMT DEF UpdateRow, DisturbIf, stripeVars, tableVars, jobVars
<1>14. ASSUME NEW h \in Session, InsertRow(h) PROVE DataTypes'
  BY <1>14, SMT DEF InsertRow, stripeVars, tableVars, history
<1>15. ASSUME NEW h \in Session, InsertConflict(h) PROVE DataTypes'
  BY <1>15, SMT DEF InsertConflict, DisturbIf, EndSession, AfterSession, Release, Forget,
                    stripeVars, tableVars
<1>16. ASSUME NEW h \in Session, Refresh(h) \/ RefreshBeaten(h) PROVE DataTypes'
  <2>1. Entitled(h) \subseteq Slot
    <3>1. \A r \in Row : Live(r) => SlotOf[rowSub[r]] \in Slot
      BY SMT DEF RowsHaveSub, Live
    <3>2. row[h] # None => SlotOf[sub[h]] \in Slot
      BY <1>16, SMT DEF Refresh, RefreshBeaten, SessionAgrees, Event
    <3> QED BY <3>1, <3>2, SMT DEF Entitled
  <2> QED BY <1>16, <2>1, SMT DEF Refresh, RefreshBeaten, Disturb, stripeVars, tableVars
<1>17. ASSUME NEW h \in Session, RefreshWaits(h) PROVE DataTypes'
  BY <1>17, SMT DEF RefreshWaits, stripeVars, tableVars, jobVars, history
<1>18. ASSUME NEW h \in Session, Commit(h) PROVE DataTypes'
  BY <1>18, SMT DEF Commit, Beaten, AfterSession, Release, Forget, SessionAgrees, stripeVars,
                    history
<1>19. ASSUME NEW h \in Session, CommitAborted(h) PROVE DataTypes'
  BY <1>19, SMT DEF CommitAborted, EndSession, AfterSession, Release, Forget, stripeVars,
                    tableVars, history
<1>20. ASSUME StartRefresh PROVE DataTypes'
  BY <1>20, SMT DEF StartRefresh, stripeVars, tableVars, jobVars, history
<1>21. ASSUME TrialExpiry PROVE DataTypes'
  BY <1>21, SMT DEF TrialExpiry, LocalStatus, stripeVars, jobVars
<1>22. CASE UNCHANGED vars
  BY <1>22, SMT DEF vars, stripeVars, tableVars, jobVars, history
<1> QED
  BY <1>1, <1>2, <1>3, <1>4, <1>5, <1>6, <1>7, <1>8, <1>9, <1>10, <1>11, <1>12, <1>13, <1>14,
     <1>15, <1>16, <1>17, <1>18, <1>19, <1>20, <1>21, <1>22
  DEF Next, HandlerStep, SessionStep, HandlerThrows, ApplyThrows, UpdateThrows

\* The histories stay truth values.
LEMMA StepHistory == TypeOK /\ [Next]_vars => (calm \in BOOLEAN /\ fresh \in BOOLEAN)'
<1> SUFFICES ASSUME TypeOK, [Next]_vars PROVE calm' \in BOOLEAN /\ fresh' \in BOOLEAN
  OBVIOUS
<1> QED
  BY Zenon
  DEF TypeOK, Next, vars, history, HandlerStep, SessionStep, Checkout, Change, Reconcile,
      Receive, Retrieve, Skip, Look, FindDeleted, CancelRow, Apply, ApplyThrows, Mark,
      HandlerThrows, UpdateRow, UpdateThrows, InsertRow, InsertConflict, Refresh, RefreshWaits,
      RefreshBeaten, Commit, CommitAborted, StartRefresh, TrialExpiry, Fail, Disturb, DisturbIf

-----------------------------------------------------------------------------
(* Every step keeps what the sessions hold *)

\* The UPDATE of customer.subscription.deleted cancels one row, in a free slot.
LEMMA CancelRowDoes ==
  ASSUME NEW h \in Handler, CancelRow(h)
  PROVE  /\ phase[h] = "canceling"
         /\ SlotFree(SlotOf[rowSub[row[h]]])
         /\ rowStatus' = [rowStatus EXCEPT ![row[h]] = "canceled"]
         /\ phase' = [phase EXCEPT ![h] = "marking"]
         /\ row' = [row EXCEPT ![h] = None]
         /\ UNCHANGED <<stripeVars, processed, rowSub, quota, ev, sub, seen, computed>>
BY Zenon DEF CancelRow, PhaseTo

\* Every step keeps what sessions hold and the rows they have found.
LEMMA StepSessions ==
  TableInv /\ [Next]_vars =>
    SentAgrees' /\ RowsHaveSub' /\ \A g \in Session : SessionAgrees(g)' /\ FoundRow(g)'
<1> DEFINE Goal ==
  SentAgrees' /\ RowsHaveSub' /\ \A g \in Session : SessionAgrees(g)' /\ FoundRow(g)'
<1> SUFFICES ASSUME TableInv, [Next]_vars PROVE Goal
  OBVIOUS
<1>t. DataTypes /\ SentAgrees /\ RowsHaveSub /\ \A g \in Session : SessionAgrees(g) /\ FoundRow(g)
  BY DEF TableInv, TypeOK
<1> USE SubscriptionsConstants, <1>t
    DEF DataTypes, Session, SentAgrees, RowsHaveSub, SessionAgrees, FoundRow, PhaseTo, Open, Event
<1>1. ASSUME NEW s \in Sub, Checkout(s) PROVE Goal
  BY <1>1, SMT DEF Checkout, Event, tableVars, jobVars
<1>2. ASSUME NEW s \in Sub, Change(s) PROVE Goal
  <2>0. "none" \notin Statuses
    BY SMT DEF StatusMap
  <2>1. /\ sent \subseteq sent'
        /\ \A e \in sent' : e \in sent \/ e.sub = s
        /\ stripe'[s] # "none" /\ \A x \in Sub : stripe[x] # "none" => stripe'[x] # "none"
        /\ UNCHANGED <<tableVars, phase, jobVars>>
    BY <1>2, <2>0, SMT DEF Change, EventsOf
  <2>2. SentAgrees'
    BY <2>1, SMT
  <2>3. RowsHaveSub'
    BY <2>1, SMT DEF tableVars
  <2>4. \A g \in Session : SessionAgrees(g)'
    BY <2>1, SMT DEF tableVars, jobVars
  <2>5. \A g \in Session : FoundRow(g)'
    BY <2>1, SMT DEF tableVars, jobVars
  <2> QED BY <2>2, <2>3, <2>4, <2>5
<1>3. ASSUME NEW s \in Sub, Reconcile(s) PROVE Goal
  <2>1. StatusMap[stripe[s]] \in LocalStatus
    BY <1>3, StatusMapType, SMT DEF Reconcile, Listed
  <2> QED BY <1>3, <2>1, SMT DEF Reconcile, Listed, stripeVars, tableVars
<1>4. ASSUME NEW h \in Handler, NEW e \in sent, Receive(h, e) PROVE Goal
  BY <1>4, SMT DEF Receive, stripeVars, tableVars
<1>5. ASSUME NEW h \in Handler, Retrieve(h) PROVE Goal
  <2>1. StatusMap[stripe[sub[h]]] \in LocalStatus
    BY <1>5, StatusMapType, SMT DEF Retrieve
  <2> QED BY <1>5, <2>1, SMT DEF Retrieve, stripeVars, tableVars
<1>6. ASSUME NEW h \in Handler, Skip(h) PROVE Goal
  BY <1>6, SMT DEF Skip, stripeVars, tableVars, jobVars
<1>7. ASSUME NEW h \in Handler, Look(h) PROVE Goal
  BY <1>7, SMT DEF Look, Live, stripeVars, tableVars
<1>8. ASSUME NEW h \in Handler, FindDeleted(h) PROVE Goal
  BY <1>8, SMT DEF FindDeleted, RowOf, stripeVars, tableVars
<1>9. ASSUME NEW h \in Handler, Apply(h) PROVE Goal
  <2>1. NewStatus(ev[h]) \in LocalStatus /\ "absent" \notin LocalStatus
    BY <1>9, NewStatusType DEF Apply, LocalStatus
  <2> QED BY <1>9, <2>1, SMT DEF Apply, RowOf, stripeVars, jobVars
<1>10. ASSUME NEW h \in Session, Fail(h) PROVE Goal
  BY <1>10, SMT DEF Fail, Release, Forget, stripeVars, tableVars
<1>11. ASSUME NEW h \in Handler, Mark(h) PROVE Goal
  BY <1>11, SMT DEF Mark, Forget, stripeVars, tableVars
<1>12. ASSUME NEW h \in Session, UpdateRow(h) PROVE Goal
  BY <1>12, SMT DEF UpdateRow, stripeVars, tableVars, jobVars
<1>13. ASSUME NEW h \in Session, InsertRow(h) PROVE Goal
  BY <1>13, SMT DEF InsertRow, stripeVars, tableVars
<1>14. ASSUME NEW h \in Session, InsertConflict(h) PROVE Goal
  BY <1>14, SMT DEF InsertConflict, EndSession, AfterSession, Release, Forget, stripeVars, tableVars
<1>15. ASSUME NEW h \in Session, Refresh(h) PROVE Goal
  BY <1>15, SMT DEF Refresh, stripeVars, tableVars
<1>16. ASSUME NEW h \in Session, RefreshWaits(h) PROVE Goal
  BY <1>16, SMT DEF RefreshWaits, stripeVars, tableVars, jobVars
<1>17. ASSUME NEW h \in Session, RefreshBeaten(h) PROVE Goal
  BY <1>17, SMT DEF RefreshBeaten, stripeVars, tableVars
<1>18. ASSUME NEW h \in Session, Commit(h) PROVE Goal
  <2>1. "absent" \notin LocalStatus
    BY DEF LocalStatus
  <2>2. WriteAllowed(h)
    BY DEF TableInv
  <2> QED BY <1>18, <2>1, <2>2, SMT DEF Commit, WriteAllowed, Beaten, AfterSession, Release, Forget, stripeVars
<1>19. ASSUME NEW h \in Session, CommitAborted(h) PROVE Goal
  BY <1>19, SMT DEF CommitAborted, EndSession, AfterSession, Release, Forget, stripeVars, tableVars
<1>20. ASSUME StartRefresh PROVE Goal
  BY <1>20, SMT DEF StartRefresh, stripeVars, tableVars, jobVars
<1>21. ASSUME TrialExpiry PROVE Goal
  BY <1>21, SMT DEF TrialExpiry, stripeVars, jobVars
<1>22. ASSUME NEW h \in Handler, CancelRow(h) PROVE Goal
  BY <1>22, CancelRowDoes, SMT DEF stripeVars
<1>23. CASE UNCHANGED vars
  BY <1>23, SMT DEF vars, stripeVars, tableVars, jobVars
<1> HIDE DEF Goal
<1> QED
  BY <1>1, <1>2, <1>3, <1>4, <1>5, <1>6, <1>7, <1>8, <1>9, <1>10, <1>11, <1>12, <1>13, <1>14,
     <1>15, <1>16, <1>17, <1>18, <1>19, <1>20, <1>21, <1>22, <1>23
  DEF Next, HandlerStep, SessionStep, HandlerThrows, ApplyThrows, UpdateThrows

-----------------------------------------------------------------------------
(* Every step keeps what the open writes have checked *)

WritesKept ==
  \A g \in Session : g \in Writing' =>
    g \in Writing /\ row'[g] = row[g] /\ sub'[g] = sub[g] /\ seen'[g] = seen[g]

\* The step leaves the table alone and opens no write.
Quiet == UNCHANGED <<rowSub, rowStatus>> /\ WritesKept

\* A step that leaves the table alone and opens no write spoils none,
LEMMA QuietKeeps ==
  ASSUME TableInv, Quiet
  PROVE  (\A g \in Session : WriteAllowed(g)') /\ WritesApart' /\ OneRowEach'
<1>1. \A g \in Session : WriteAllowed(g)'
  <2> SUFFICES ASSUME NEW g \in Session, g \in Writing'
               PROVE  /\ IndexesAllow(row[g], sub[g], seen[g])'
                      /\ (rowStatus[row[g]] # "absent"
                            => SlotOf[rowSub[row[g]]] = SlotOf[sub[g]])'
    BY DEF WriteAllowed, Writing, Open
  <2>1. WriteAllowed(g) /\ phase[g] \in Open /\ row[g] # None
    BY DEF Quiet, WritesKept, TableInv, Writing, Open
  <2> QED BY <2>1, SMT DEF Quiet, WritesKept, WriteAllowed, IndexesAllow, RowOf, Live
<1>2. WritesApart'
  BY SMT DEF Quiet, WritesKept, TableInv, WritesApart, Writing
<1>3. OneRowEach'
  BY SMT DEF Quiet, WritesKept, TableInv, OneRowEach, RowOf, Live
<1> QED BY <1>1, <1>2, <1>3

\* The step only writes statuses, and none in the slot of an open write that
\* makes a row live.
StatusesOnly ==
  /\ UNCHANGED rowSub /\ WritesKept
  /\ \A r \in Row : rowStatus'[r] = "absent" <=> rowStatus[r] = "absent"
  /\ \A r \in Row : Live(r)' => Live(r) \/ SlotFree(SlotOf[rowSub[r]])

\* nor does one that only changes statuses between writes,
LEMMA StatusesKeep ==
  ASSUME TableInv, StatusesOnly
  PROVE  (\A g \in Session : WriteAllowed(g)') /\ WritesApart'
<1>1. \A g \in Session : WriteAllowed(g)'
  <2> SUFFICES ASSUME NEW g \in Session, g \in Writing'
               PROVE  /\ IndexesAllow(row[g], sub[g], seen[g])'
                      /\ (rowStatus[row[g]] # "absent"
                            => SlotOf[rowSub[row[g]]] = SlotOf[sub[g]])'
    BY DEF WriteAllowed, Writing, Open
  <2>1. /\ g \in Writing /\ WriteAllowed(g) /\ phase[g] \in Open /\ row[g] # None
        /\ row'[g] = row[g] /\ sub'[g] = sub[g] /\ seen'[g] = seen[g]
    BY DEF StatusesOnly, WritesKept, TableInv, Writing, Open
  <2>2. row[g] \in Row
    BY <2>1, SMT DEF TableInv, TypeOK, DataTypes
  <2>3. RowOf(sub[g])' = RowOf(sub[g])
    BY <2>1, SMT DEF StatusesOnly, RowOf
  <2>4. \A x \in Row : Live(x)' => Live(x) \/ SlotOf[rowSub[x]] # SlotOf[sub[g]]
    BY <2>1, SMT DEF StatusesOnly, SlotFree
  <2> QED BY <2>1, <2>2, <2>3, <2>4, SMT DEF StatusesOnly, WriteAllowed, IndexesAllow
<1>2. WritesApart'
  BY SMT DEF StatusesOnly, WritesKept, TableInv, WritesApart, Writing
<1> QED BY <1>1, <1>2

\* nor one by which rows are live no more;
LEMMA CancelKeepsRows ==
  ASSUME TableInv, UNCHANGED rowSub,
         \A r \in Row : rowStatus'[r] = "absent" <=> rowStatus[r] = "absent",
         \A r \in Row : Live(r)' => Live(r)
  PROVE  OneRowEach'
<1>1. \A s \in Sub : RowOf(s)' = RowOf(s)
  BY SMT DEF RowOf
<1> QED BY <1>1, SMT DEF TableInv, OneRowEach

\* The step opens a write of h, which the indexes allow.
Opens(h) ==
  /\ UNCHANGED <<rowSub, rowStatus, sub, seen>>
  /\ SlotFree(SlotOf[sub[h]])
  /\ row'[h] \in Row /\ IndexesAllow(row'[h], sub[h], seen[h])
  /\ \/ rowStatus[row'[h]] = "absent" /\ \A g \in Writing : row[g] # row'[h]
     \/ rowStatus[row'[h]] # "absent" /\ SlotOf[rowSub[row'[h]]] = SlotOf[sub[h]]
  /\ \A g \in Session \ {h} : row'[g] = row[g] /\ phase'[g] = phase[g]

\* a write that is opened has checked both indexes,
LEMMA OpensKeeps ==
  ASSUME TableInv, NEW h \in Session, Opens(h)
  PROVE  (\A g \in Session : WriteAllowed(g)') /\ WritesApart' /\ OneRowEach'
<1>1. \A g \in Session : WriteAllowed(g)'
  <2>1. WriteAllowed(h)'
    BY SMT DEF Opens, WriteAllowed, IndexesAllow, RowOf, Live
  <2>2. ASSUME NEW g \in Session \ {h} PROVE WriteAllowed(g)'
    <3>1. WriteAllowed(g)
      BY DEF TableInv
    <3> QED BY <2>2, <3>1, SMT DEF Opens, WriteAllowed, IndexesAllow, RowOf, Live
  <2> QED BY <2>1, <2>2
<1>2. ASSUME NEW g \in Writing \ {h}
      PROVE  row[g] # row'[h] /\ SlotOf[sub[g]] # SlotOf[sub[h]]
  <2>1. SlotOf[sub[g]] # SlotOf[sub[h]]
    BY SMT DEF Opens, SlotFree
  <2>2. rowStatus[row[g]] # "absent" => SlotOf[rowSub[row[g]]] = SlotOf[sub[g]]
    BY SMT DEF TableInv, WriteAllowed, Writing, Open
  <2> QED BY <2>1, <2>2, SMT DEF Opens
<1>3. WritesApart'
  <2>1. \A g \in Session \ {h} : g \in Writing' => g \in Writing
    BY SMT DEF Opens, Writing
  <2> SUFFICES ASSUME NEW f \in Writing', NEW g \in Writing', f # g
               PROVE  row'[f] # row'[g] /\ SlotOf[sub'[f]] # SlotOf[sub'[g]]
    BY DEF WritesApart
  <2>2. f \in Session /\ g \in Session
    BY DEF Writing
  <2>3. CASE f = h
    BY <2>1, <2>2, <2>3, <1>2, SMT DEF Opens
  <2>4. CASE g = h
    BY <2>1, <2>2, <2>4, <1>2, SMT DEF Opens
  <2>5. CASE f # h /\ g # h
    BY <2>1, <2>2, <2>5, SMT DEF Opens, TableInv, WritesApart
  <2> QED BY <2>3, <2>4, <2>5
<1>4. OneRowEach'
  BY SMT DEF Opens, TableInv, OneRowEach, RowOf, Live
<1> QED BY <1>1, <1>3, <1>4

\* and its COMMIT leaves them unique.
LEMMA CommitKeeps ==
  ASSUME TableInv, NEW h \in Session, Commit(h), row[h] # None
  PROVE  (\A g \in Session : WriteAllowed(g)') /\ WritesApart' /\ OneRowEach'
<1>1. /\ h \in Writing /\ row[h] \in Row /\ WriteAllowed(h)
      /\ IndexesAllow(row[h], sub[h], seen[h])
      /\ rowStatus[row[h]] # "absent" => SlotOf[rowSub[row[h]]] = SlotOf[sub[h]]
  BY SMT DEF Commit, TableInv, TypeOK, DataTypes, Writing, WriteAllowed, Open
<1>2. /\ rowSub' = [rowSub EXCEPT ![row[h]] = sub[h]]
      /\ rowStatus' = [rowStatus EXCEPT ![row[h]] = seen[h]]
      /\ seen[h] # "absent"
  BY SMT DEF Commit, TableInv, SessionAgrees, Open, LocalStatus
<1>3. \A g \in Session : g \in Writing' =>
        /\ g \in Writing /\ g # h
        /\ row'[g] = row[g] /\ sub'[g] = sub[g] /\ seen'[g] = seen[g]
  BY SMT DEF Commit, Beaten, AfterSession, Release, Forget, Writing, TableInv, TypeOK, DataTypes
<1>4. /\ \A r \in Row \ {row[h]} : rowSub'[r] = rowSub[r] /\ rowStatus'[r] = rowStatus[r]
      /\ rowSub'[row[h]] = sub[h] /\ rowStatus'[row[h]] = seen[h]
  BY <1>1, <1>2, SMT DEF TableInv, TypeOK, DataTypes
<1>5. ASSUME NEW g \in Writing' PROVE WriteAllowed(g)'
  <2>1. /\ g \in Writing /\ g # h /\ g \in Session
        /\ row'[g] = row[g] /\ sub'[g] = sub[g] /\ seen'[g] = seen[g]
    BY <1>3, <1>5 DEF Writing
  <2>2. /\ IndexesAllow(row[g], sub[g], seen[g])
        /\ rowStatus[row[g]] # "absent" => SlotOf[rowSub[row[g]]] = SlotOf[sub[g]]
        /\ row[g] # row[h] /\ SlotOf[sub[g]] # SlotOf[sub[h]] /\ row[g] \in Row
    BY <1>1, <2>1, SMT DEF TableInv, TypeOK, DataTypes, Writing, WriteAllowed, Open, WritesApart
  <2>3. RowOf(sub[g])' \subseteq {row[g]}
    BY <1>4, <2>1, <2>2, SMT DEF RowOf, IndexesAllow
  <2>4. seen[g] \notin Terminal =>
          \A x \in Row \ {row[g]} : Live(x)' => SlotOf[rowSub'[x]] # SlotOf[sub[g]]
    BY <1>4, <2>1, <2>2, SMT DEF Live, IndexesAllow
  <2> QED BY <1>4, <2>1, <2>2, <2>3, <2>4, SMT DEF WriteAllowed, IndexesAllow
<1>6. \A g \in Session : WriteAllowed(g)'
  BY <1>5 DEF WriteAllowed, Writing, Open
<1>7. WritesApart'
  <2> SUFFICES ASSUME NEW f \in Writing', NEW g \in Writing', f # g
               PROVE  row'[f] # row'[g] /\ SlotOf[sub'[f]] # SlotOf[sub'[g]]
    BY DEF WritesApart
  <2>1. f \in Session /\ g \in Session
    BY DEF Writing
  <2> QED BY <2>1, <1>3, SMT DEF TableInv, WritesApart
<1>8. OneRowEach'
  BY <1>1, <1>4, SMT DEF TableInv, OneRowEach, RowOf, Live, IndexesAllow
<1> QED BY <1>6, <1>7, <1>8

\* Every step keeps what the open writes have checked, and the rows unique.
LEMMA StepWrites ==
  TableInv /\ [Next]_vars =>
    (\A g \in Session : WriteAllowed(g)') /\ WritesApart' /\ OneRowEach'
<1> DEFINE Goal == (\A g \in Session : WriteAllowed(g)') /\ WritesApart' /\ OneRowEach'
<1> SUFFICES ASSUME TableInv, [Next]_vars PROVE Goal
  OBVIOUS
<1>q. Quiet => Goal
  BY QuietKeeps
<1>t. TypeOK /\ \A h \in Session : SessionAgrees(h) /\ FoundRow(h)
  BY DEF TableInv
<1> HIDE DEF Goal
<1>1. ASSUME NEW s \in Sub, Checkout(s) PROVE Goal
  <2>1. Quiet
    BY <1>1, <1>t, SMT DEF Checkout, Quiet, WritesKept, Writing, TypeOK, DataTypes, PhaseTo,
       Session, SessionAgrees, tableVars, jobVars
  <2> QED BY <2>1, <1>q
<1>2. ASSUME NEW s \in Sub, Change(s) PROVE Goal
  <2>1. Quiet
    BY <1>2, <1>t, SMT DEF Change, Quiet, WritesKept, Writing, TypeOK, DataTypes, PhaseTo,
       Session, SessionAgrees, tableVars, jobVars
  <2> QED BY <2>1, <1>q
<1>3. ASSUME NEW s \in Sub, Reconcile(s) PROVE Goal
  <2>1. Quiet
    BY <1>3, <1>t, SMT DEF Reconcile, Quiet, WritesKept, Writing, TypeOK, DataTypes, PhaseTo,
       Session, SessionAgrees, tableVars
  <2> QED BY <2>1, <1>q
<1>4. ASSUME NEW h \in Handler, NEW e \in sent, Receive(h, e) PROVE Goal
  <2>1. Quiet
    BY <1>4, <1>t, SMT DEF Receive, Quiet, WritesKept, Writing, TypeOK, DataTypes, PhaseTo,
       Session, SessionAgrees, tableVars
  <2> QED BY <2>1, <1>q
<1>5. ASSUME NEW h \in Handler, Retrieve(h) PROVE Goal
  <2>1. Quiet
    BY <1>5, <1>t, SMT DEF Retrieve, Quiet, WritesKept, Writing, TypeOK, DataTypes, PhaseTo,
       Session, SessionAgrees, tableVars
  <2> QED BY <2>1, <1>q
<1>6. ASSUME NEW h \in Handler, Skip(h) PROVE Goal
  <2>1. Quiet
    BY <1>6, <1>t, SMT DEF Skip, Quiet, WritesKept, Writing, TypeOK, DataTypes, PhaseTo,
       Session, SessionAgrees, tableVars, jobVars
  <2> QED BY <2>1, <1>q
<1>7. ASSUME NEW h \in Handler, Look(h) PROVE Goal
  <2>1. Quiet
    BY <1>7, <1>t, SMT DEF Look, Quiet, WritesKept, Writing, TypeOK, DataTypes, PhaseTo,
       Session, SessionAgrees, tableVars
  <2> QED BY <2>1, <1>q
<1>8. ASSUME NEW h \in Handler, FindDeleted(h) PROVE Goal
  <2>1. Quiet
    BY <1>8, <1>t, SMT DEF FindDeleted, Quiet, WritesKept, Writing, TypeOK, DataTypes, PhaseTo,
       Session, SessionAgrees, tableVars
  <2> QED BY <2>1, <1>q
<1>9. ASSUME NEW h \in Session, Fail(h) PROVE Goal
  <2>1. Quiet
    BY <1>9, <1>t, SMT DEF Fail, Quiet, WritesKept, Writing, TypeOK, DataTypes, PhaseTo,
       Session, SessionAgrees, Release, Forget, tableVars
  <2> QED BY <2>1, <1>q
<1>10. ASSUME NEW h \in Handler, Mark(h) PROVE Goal
  <2>1. Quiet
    BY <1>10, <1>t, SMT DEF Mark, Quiet, WritesKept, Writing, TypeOK, DataTypes, PhaseTo,
       Session, SessionAgrees, Forget, tableVars
  <2> QED BY <2>1, <1>q
<1>11. ASSUME NEW h \in Session, InsertConflict(h) PROVE Goal
  <2>1. Quiet
    BY <1>11, <1>t, SMT DEF InsertConflict, Quiet, WritesKept, Writing, TypeOK, DataTypes, PhaseTo,
       Session, SessionAgrees, EndSession, AfterSession, Release, Forget, tableVars
  <2> QED BY <2>1, <1>q
<1>12. ASSUME NEW h \in Session, Refresh(h) PROVE Goal
  <2>1. Quiet
    BY <1>12, <1>t, SMT DEF Refresh, Quiet, WritesKept, Writing, TypeOK, DataTypes, PhaseTo,
       Session, SessionAgrees, tableVars
  <2> QED BY <2>1, <1>q
<1>13. ASSUME NEW h \in Session, RefreshWaits(h) PROVE Goal
  <2>1. Quiet
    BY <1>13, <1>t, SMT DEF RefreshWaits, Quiet, WritesKept, Writing, TypeOK, DataTypes, PhaseTo,
       Session, SessionAgrees, tableVars, jobVars
  <2> QED BY <2>1, <1>q
<1>14. ASSUME NEW h \in Session, RefreshBeaten(h) PROVE Goal
  <2>1. Quiet
    BY <1>14, <1>t, SMT DEF RefreshBeaten, Quiet, WritesKept, Writing, TypeOK, DataTypes, PhaseTo,
       Session, SessionAgrees, tableVars
  <2> QED BY <2>1, <1>q
<1>15. ASSUME NEW h \in Session, CommitAborted(h) PROVE Goal
  <2>1. Quiet
    BY <1>15, <1>t, SMT DEF CommitAborted, Quiet, WritesKept, Writing, TypeOK, DataTypes, PhaseTo,
       Session, SessionAgrees, EndSession, AfterSession, Release, Forget, tableVars
  <2> QED BY <2>1, <1>q
<1>16. ASSUME StartRefresh PROVE Goal
  <2>1. Quiet
    BY <1>16, <1>t, SMT DEF StartRefresh, Quiet, WritesKept, Writing, TypeOK, DataTypes, PhaseTo,
       Session, SessionAgrees, tableVars, jobVars
  <2> QED BY <2>1, <1>q
<1>17. ASSUME NEW h \in Handler, Apply(h) PROVE Goal
  <2>1. NewStatus(ev[h]) # "absent" /\ ev[h].sub \in Sub /\ h \in Session
    <3>1. ev[h] \in Event
      BY <1>17, <1>t, SMT DEF Apply, SessionAgrees, Session, TypeOK, DataTypes
    <3> QED BY <3>1, NewStatusType, SMT DEF Event, LocalStatus, Session
  <2>2. /\ SlotFree(SlotOf[ev[h].sub])
        /\ \A r \in RowOf(ev[h].sub) : IndexesAllow(r, ev[h].sub, NewStatus(ev[h]))
        /\ rowStatus' = [r \in Row |-> IF r \in RowOf(ev[h].sub) THEN NewStatus(ev[h])
                                                               ELSE rowStatus[r]]
        /\ phase' = [phase EXCEPT ![h] = "marking"]
        /\ UNCHANGED <<rowSub, jobVars>>
    BY <1>17, Zenon DEF Apply, PhaseTo
  <2> DEFINE st == NewStatus(ev[h])
             s == ev[h].sub
  <2>3. WritesKept
    BY <2>1, <2>2, <1>t, SMT DEF WritesKept, Writing, jobVars, TypeOK, DataTypes
  <2>4. \A r \in Row : rowStatus'[r] = "absent" <=> rowStatus[r] = "absent"
    BY <2>1, <2>2, SMT DEF RowOf
  <2>5. \A r \in Row : Live(r)' => Live(r) \/ SlotFree(SlotOf[rowSub[r]])
    BY <2>1, <2>2, SMT DEF RowOf, Live
  <2>6. (\A g \in Session : WriteAllowed(g)') /\ WritesApart'
    BY <2>2, <2>3, <2>4, <2>5, StatusesKeep DEF StatusesOnly
  <2>7. OneRowEach'
    <3>1. \A x \in Sub : RowOf(x)' = RowOf(x)
      BY <2>2, <2>4, SMT DEF RowOf
    <3>2. \A r \in Row : Live(r)' => Live(r) \/ (r \in RowOf(s) /\ st \notin Terminal)
      BY <2>1, <2>2, SMT DEF Live
    <3>3. ASSUME NEW r1 \in Row, NEW r2 \in Row, Live(r1)', Live(r2)',
                 SlotOf[rowSub[r1]] = SlotOf[rowSub[r2]]
          PROVE  r1 = r2
      BY <2>2, <3>2, <3>3, SMT DEF TableInv, OneRowEach, IndexesAllow, RowOf
    <3> QED BY <2>2, <3>1, <3>3, SMT DEF TableInv, OneRowEach
  <2> QED BY <2>6, <2>7 DEF Goal
<1>18. ASSUME NEW h \in Handler, CancelRow(h) PROVE Goal
  <2>1. row[h] \in Row /\ rowStatus[row[h]] # "absent"
    BY <1>18, <1>t, CancelRowDoes, SMT DEF FoundRow, Session
  <2>2. WritesKept
    BY <1>18, <1>t, CancelRowDoes, SMT DEF WritesKept, Writing, TypeOK, DataTypes, Session
  <2>3. UNCHANGED rowSub
    BY <1>18, CancelRowDoes
  <2>4. \A r \in Row : rowStatus'[r] = "absent" <=> rowStatus[r] = "absent"
    BY <1>18, <1>t, <2>1, CancelRowDoes, SMT DEF TypeOK, DataTypes
  <2>5. \A r \in Row : Live(r)' => Live(r)
    BY <1>18, <1>t, <2>1, CancelRowDoes, SMT DEF Live, Terminal, TypeOK, DataTypes
  <2> QED BY <2>2, <2>3, <2>4, <2>5, StatusesKeep, CancelKeepsRows DEF StatusesOnly, Goal
<1>19. ASSUME TrialExpiry PROVE Goal
  <2>1. PICK over \in SUBSET {r \in Row : /\ rowStatus[r] = "trialing"
                                         /\ stripe[rowSub[r]] # "trialing"} :
          rowStatus' = [r \in Row |-> IF r \in over THEN "canceled" ELSE rowStatus[r]]
    BY <1>19, Zenon DEF TrialExpiry
  <2>2. UNCHANGED <<rowSub, phase, jobVars>>
    BY <1>19, Zenon DEF TrialExpiry
  <2>3. WritesKept
    BY <2>2, SMT DEF WritesKept, Writing, jobVars
  <2>4. \A r \in Row : rowStatus'[r] = "absent" <=> rowStatus[r] = "absent"
    BY <2>1, SMT
  <2>5. \A r \in Row : Live(r)' => Live(r)
    BY <2>1, SMT DEF Live, Terminal
  <2> QED BY <2>2, <2>3, <2>4, <2>5, StatusesKeep, CancelKeepsRows DEF StatusesOnly, Goal
<1>20. ASSUME NEW h \in Session, UpdateRow(h) PROVE Goal
  <2>1. Opens(h)
    BY <1>20, <1>t, SMT DEF UpdateRow, Opens, FoundRow, PhaseTo, tableVars, jobVars, TypeOK,
                            DataTypes
  <2> QED BY <2>1, OpensKeeps DEF Goal
<1>21. ASSUME NEW h \in Session, InsertRow(h) PROVE Goal
  <2>1. Opens(h)
    BY <1>21, <1>t, SMT DEF InsertRow, Opens, PhaseTo, tableVars, TypeOK, DataTypes
  <2> QED BY <2>1, OpensKeeps DEF Goal
<1>22. ASSUME NEW h \in Session, Commit(h) PROVE Goal
  <2>1. CASE row[h] # None
    BY <1>22, <2>1, CommitKeeps DEF Goal
  <2>2. CASE row[h] = None
    <3>1. Quiet
      BY <1>22, <2>2, <1>t, SMT DEF Commit, Quiet, WritesKept, Writing, Beaten, AfterSession,
         Release, Forget, TypeOK, DataTypes
    <3> QED BY <3>1, <1>q
  <2> QED BY <2>1, <2>2
<1>23. CASE UNCHANGED vars
  <2>1. Quiet
    BY <1>23, SMT DEF vars, Quiet, WritesKept, Writing, tableVars, jobVars
  <2> QED BY <2>1, <1>q
<1> QED
  BY <1>1, <1>2, <1>3, <1>4, <1>5, <1>6, <1>7, <1>8, <1>9, <1>10, <1>11, <1>12, <1>13,
     <1>14, <1>15, <1>16, <1>17, <1>18, <1>19, <1>20, <1>21, <1>22, <1>23
  DEF Next, Session, HandlerStep, SessionStep, HandlerThrows, ApplyThrows, UpdateThrows

-----------------------------------------------------------------------------
(* The theorems *)

\* The invariant of the table holds always.
LEMMA TableInvariant == Spec => []TableInv
<1>1. TableInv /\ [Next]_vars => TableInv'
  BY StepTypes, StepHistory, StepSessions, StepWrites DEF TableInv, TypeOK
<1> QED BY InitTable, <1>1, PTL DEF Spec

\* Stripe's events, the table and the sessions keep their types through every
\* order, repetition and failure of the webhooks.
THEOREM TypeOKAlways == Spec => []TypeOK
BY TableInvariant, PTL DEF TableInv

\* One row per subscription and one live row per module of the account, for
\* concurrent webhooks and the reconciliation alike.
THEOREM OneRowEachAlways == Spec => []OneRowEach
BY TableInvariant, PTL DEF TableInv

-----------------------------------------------------------------------------
(* The quotas follow the rows *)

\* One refresh at a time has written the quotas, and what it will commit is what
\* the table will entitle the account to.
QuotasCommitted ==
  /\ \A g, h \in Refreshed : g = h
  /\ fresh => IF Refreshed = {} THEN quota = LiveSlots
                                ELSE \A h \in Refreshed : computed[h] = Entitled(h)

\* The step leaves the table and the refresh that holds the quotas alone.
QuotasApart ==
  /\ UNCHANGED <<rowSub, rowStatus, quota>>
  /\ fresh' => fresh
  /\ Refreshed' = Refreshed
  /\ \A g \in Refreshed :
       /\ row'[g] = row[g] /\ sub'[g] = sub[g]
       /\ seen'[g] = seen[g] /\ computed'[g] = computed[g]

\* Such a step keeps what the refresh will commit.
LEMMA QuotasApartKeeps ==
  ASSUME QuotasCommitted, QuotasApart PROVE QuotasCommitted'
<1>1. \A r \in Row : Live(r)' <=> Live(r)
  BY DEF QuotasApart, Live
<1>2. LiveSlots' = LiveSlots
  BY <1>1, SMT DEF QuotasApart, LiveSlots
<1>3. \A g \in Refreshed : Entitled(g)' = Entitled(g) /\ computed'[g] = computed[g]
  BY <1>1, SMT DEF QuotasApart, Entitled
<1> QED BY <1>2, <1>3, SMT DEF QuotasApart, QuotasCommitted

\* A refresh begins: nobody else holds the quotas.
LEMMA RefreshCommits ==
  ASSUME TypeOK, NEW h \in Session, Refresh(h) PROVE QuotasCommitted'
<1>1. Refreshed' = {h}
  BY SMT DEF Refresh, Refreshed, PhaseTo, TypeOK, DataTypes
<1>2. computed'[h] = Entitled(h)
  BY SMT DEF Refresh, TypeOK, DataTypes
<1>3. Entitled(h)' = Entitled(h)
  BY SMT DEF Refresh, tableVars, Entitled, Live
<1> QED BY <1>1, <1>2, <1>3, SMT DEF QuotasCommitted

\* What a refresh commits with its row is what the table then says.
LEMMA CommitFollows ==
  ASSUME TableInv, QuotasCommitted, NEW h \in Session, Commit(h)
  PROVE  QuotasCommitted'
<1>t. TypeOK
  BY DEF TableInv
<1>1. h \in Refreshed /\ Refreshed' = {}
  <2>1. h \in Refreshed
    BY DEF Commit, Refreshed
  <2>2. \A g \in Session : phase'[g] = "committing" => g # h /\ phase[g] = "committing"
    BY <1>t, SMT DEF Commit, Beaten, AfterSession
  <2> QED BY <2>1, <2>2, SMT DEF QuotasCommitted, Refreshed
<1>2. SUFFICES ASSUME fresh' PROVE quota' = LiveSlots'
  BY <1>1 DEF QuotasCommitted
<1>3. quota' = Entitled(h)
  BY <1>1, <1>2, SMT DEF Commit, history, QuotasCommitted
<1>4. CASE row[h] = None
  <2>1. LiveSlots' = LiveSlots
    BY <1>4, SMT DEF Commit, LiveSlots, Live
  <2>2. Row \ {row[h]} = Row
    BY <1>4, SubscriptionsConstants
  <2>3. Entitled(h) = LiveSlots
    BY <1>4, <2>2, SMT DEF Entitled, LiveSlots
  <2> QED BY <1>3, <2>1, <2>3
<1>5. CASE row[h] # None
  <2>1. /\ row[h] \in Row
        /\ seen[h] # "absent"
        /\ rowSub'[row[h]] = sub[h] /\ rowStatus'[row[h]] = seen[h]
        /\ \A r \in Row \ {row[h]} : rowSub'[r] = rowSub[r] /\ rowStatus'[r] = rowStatus[r]
    BY <1>t, <1>5, SMT DEF Commit, TableInv, TypeOK, DataTypes, SessionAgrees, Open, LocalStatus
  <2>2. \A r \in Row \ {row[h]} : Live(r)' <=> Live(r)
    BY <2>1, SMT DEF Live
  <2>3. rowStatus'[row[h]] \notin Terminal \cup {"absent"} <=> seen[h] \notin Terminal
    BY <2>1
  <2>4. {x \in Row : Live(x)}' =
          {x \in Row \ {row[h]} : Live(x)} \cup
          (IF seen[h] \notin Terminal THEN {row[h]} ELSE {})
    BY <2>1, <2>2, <2>3, SMT DEF Live
  <2>5. LiveSlots' = Entitled(h)
    BY <1>5, <2>1, <2>4, SMT DEF LiveSlots, Entitled
  <2> QED BY <1>3, <2>5
<1> QED BY <1>4, <1>5

\* Every step keeps the quotas and the refresh that writes them together.
LEMMA StepQuotas == TableInv /\ QuotasCommitted /\ [Next]_vars => QuotasCommitted'
<1> SUFFICES ASSUME TableInv, QuotasCommitted, [Next]_vars PROVE QuotasCommitted'
  OBVIOUS
<1>t. TypeOK /\ \A h \in Session : SessionAgrees(h)
  BY DEF TableInv
<1>a. QuotasApart => QuotasCommitted'
  BY QuotasApartKeeps
<1>1. ASSUME NEW s \in Sub, Checkout(s) \/ Change(s) PROVE QuotasCommitted'
  <2>1. QuotasApart
    BY <1>1, SMT DEF Checkout, Change, QuotasApart, Refreshed, tableVars, jobVars, history
  <2> QED BY <2>1, <1>a
<1>2. ASSUME NEW s \in Sub, Reconcile(s) PROVE QuotasCommitted'
  <2>1. QuotasApart
    BY <1>2, <1>t, SMT DEF Reconcile, QuotasApart, Refreshed, PhaseTo, Disturb, tableVars,
       TypeOK, DataTypes
  <2> QED BY <2>1, <1>a
<1>3. ASSUME NEW h \in Handler, NEW e \in sent, Receive(h, e) PROVE QuotasCommitted'
  <2>1. QuotasApart
    BY <1>3, <1>t, SMT DEF Receive, QuotasApart, Refreshed, PhaseTo, DisturbIf, tableVars,
       TypeOK, DataTypes, Session
  <2> QED BY <2>1, <1>a
<1>4. ASSUME NEW h \in Handler, Retrieve(h) PROVE QuotasCommitted'
  <2>1. QuotasApart
    BY <1>4, <1>t, SMT DEF Retrieve, QuotasApart, Refreshed, PhaseTo, history, tableVars,
       TypeOK, DataTypes, Session
  <2> QED BY <2>1, <1>a
<1>5. ASSUME NEW h \in Handler, Skip(h) PROVE QuotasCommitted'
  <2>1. QuotasApart
    BY <1>5, <1>t, SMT DEF Skip, QuotasApart, Refreshed, PhaseTo, Disturb, tableVars, jobVars,
       TypeOK, DataTypes, Session
  <2> QED BY <2>1, <1>a
<1>6. ASSUME NEW h \in Handler, Look(h) PROVE QuotasCommitted'
  <2>1. QuotasApart
    BY <1>6, <1>t, SMT DEF Look, QuotasApart, Refreshed, PhaseTo, history, tableVars,
       TypeOK, DataTypes, Session
  <2> QED BY <2>1, <1>a
<1>7. ASSUME NEW h \in Handler, FindDeleted(h) PROVE QuotasCommitted'
  <2>1. QuotasApart
    BY <1>7, <1>t, SMT DEF FindDeleted, QuotasApart, Refreshed, PhaseTo, history, tableVars,
       TypeOK, DataTypes, Session
  <2> QED BY <2>1, <1>a
<1>8. ASSUME NEW h \in Handler, CancelRow(h) PROVE QuotasCommitted'
  <2>1. fresh' = FALSE
    BY <1>8, Zenon DEF CancelRow
  <2>2. Refreshed' = Refreshed
    BY <1>8, <1>t, CancelRowDoes, SMT DEF Refreshed, TypeOK, DataTypes, Session
  <2> QED BY <2>1, <2>2 DEF QuotasCommitted
<1>9. ASSUME NEW h \in Handler, Apply(h) PROVE QuotasCommitted'
  <2>1. Refreshed' = Refreshed
    BY <1>9, <1>t, SMT DEF Apply, Refreshed, PhaseTo, TypeOK, DataTypes, Session
  <2>2. CASE RowOf(ev[h].sub) # {}
    <3>1. ~fresh'
      BY <1>9, <2>2, Zenon DEF Apply
    <3> QED BY <2>1, <3>1 DEF QuotasCommitted
  <2>3. CASE RowOf(ev[h].sub) = {}
    <3>1. rowStatus' = rowStatus
      BY <1>9, <1>t, <2>3, SMT DEF Apply, TypeOK, DataTypes
    <3>2. fresh' => fresh
      BY <1>9, Zenon DEF Apply
    <3>3. QuotasApart
      BY <1>9, <2>1, <3>1, <3>2, SMT DEF Apply, QuotasApart, jobVars
    <3> QED BY <3>3, <1>a
  <2> QED BY <2>2, <2>3
<1>10. ASSUME NEW h \in Handler, Mark(h) PROVE QuotasCommitted'
  <2>1. QuotasApart
    BY <1>10, <1>t, SMT DEF Mark, QuotasApart, Refreshed, PhaseTo, Forget, history, tableVars,
       TypeOK, DataTypes, Session
  <2> QED BY <2>1, <1>a
<1>11. ASSUME NEW h \in Session, Fail(h), h \notin Refreshed PROVE QuotasCommitted'
  <2>1. QuotasApart
    BY <1>11, <1>t, SMT DEF Fail, QuotasApart, Refreshed, PhaseTo, Release, Forget, Disturb,
       tableVars, TypeOK, DataTypes
  <2> QED BY <2>1, <1>a
<1>12. ASSUME NEW h \in Session, UpdateRow(h) PROVE QuotasCommitted'
  <2>1. QuotasApart
    BY <1>12, <1>t, SMT DEF UpdateRow, QuotasApart, Refreshed, PhaseTo, DisturbIf, tableVars,
       jobVars, TypeOK, DataTypes
  <2> QED BY <2>1, <1>a
<1>13. ASSUME NEW h \in Session, InsertRow(h) PROVE QuotasCommitted'
  <2>1. QuotasApart
    BY <1>13, <1>t, SMT DEF InsertRow, QuotasApart, Refreshed, PhaseTo, history, tableVars,
       TypeOK, DataTypes
  <2> QED BY <2>1, <1>a
<1>14. ASSUME NEW h \in Session, InsertConflict(h) PROVE QuotasCommitted'
  <2>1. QuotasApart
    BY <1>14, <1>t, SMT DEF InsertConflict, QuotasApart, Refreshed, PhaseTo, EndSession,
       AfterSession, Release, Forget, DisturbIf, tableVars, TypeOK, DataTypes
  <2> QED BY <2>1, <1>a
<1>15. ASSUME NEW h \in Session, Refresh(h) PROVE QuotasCommitted'
  BY <1>15, <1>t, RefreshCommits
<1>16. ASSUME NEW h \in Session, RefreshWaits(h) PROVE QuotasCommitted'
  <2>1. QuotasApart
    BY <1>16, <1>t, SMT DEF RefreshWaits, QuotasApart, Refreshed, PhaseTo, history, tableVars,
       jobVars, TypeOK, DataTypes
  <2> QED BY <2>1, <1>a
<1>17. ASSUME NEW h \in Session, RefreshBeaten(h) PROVE QuotasCommitted'
  <2>1. CASE Entitled(h) \cap quota = {}
    <3>1. ~fresh' /\ phase' = [phase EXCEPT ![h] = "committing"] /\ Refreshed = {}
      BY <1>17, <2>1, Zenon DEF RefreshBeaten, PhaseTo
    <3>2. Refreshed' = {h}
      BY <1>t, <3>1, SMT DEF Refreshed, TypeOK, DataTypes
    <3> QED BY <3>1, <3>2, SMT DEF QuotasCommitted
  <2>2. CASE Entitled(h) \cap quota # {}
    <3>1. /\ UNCHANGED <<tableVars, fresh, computed, sub, seen, row>>
          /\ phase[h] = "beaten" /\ phase' = [phase EXCEPT ![h] = "aborted"]
      BY <1>17, <2>2, Zenon DEF RefreshBeaten, PhaseTo, Disturb
    <3>2. QuotasApart
      BY <1>t, <3>1, SMT DEF QuotasApart, Refreshed, tableVars, TypeOK, DataTypes
    <3> QED BY <3>2, <1>a
  <2> QED BY <2>1, <2>2
<1>18. ASSUME NEW h \in Session, Commit(h) PROVE QuotasCommitted'
  BY <1>18, CommitFollows
<1>19. ASSUME NEW h \in Session, CommitAborted(h) PROVE QuotasCommitted'
  <2>1. QuotasApart
    BY <1>19, <1>t, SMT DEF CommitAborted, QuotasApart, Refreshed, PhaseTo, EndSession,
       AfterSession, Release, Forget, history, tableVars, TypeOK, DataTypes
  <2> QED BY <2>1, <1>a
<1>20. ASSUME StartRefresh PROVE QuotasCommitted'
  <2>1. QuotasApart
    BY <1>20, <1>t, SMT DEF StartRefresh, QuotasApart, Refreshed, PhaseTo, history, tableVars,
       jobVars, TypeOK, DataTypes
  <2> QED BY <2>1, <1>a
<1>21. ASSUME TrialExpiry PROVE QuotasCommitted'
  <2>1. ~fresh' /\ UNCHANGED phase
    BY <1>21, Zenon DEF TrialExpiry
  <2> QED BY <2>1, SMT DEF QuotasCommitted, Refreshed
<1>22. CASE UNCHANGED vars
  <2>1. QuotasApart
    BY <1>22, SMT DEF vars, QuotasApart, Refreshed, tableVars, jobVars, history
  <2> QED BY <2>1, <1>a
<1>23. ASSUME NEW h \in Session,
              phase[h] \in {"retrieving", "looking", "applying", "canceling", "marking", "updating"}
       PROVE  h \notin Refreshed
  BY <1>23 DEF Refreshed
<1>24. Handler \subseteq Session
  BY DEF Session
<1>25. ASSUME NEW h \in Session, HandlerThrows(h) \/ ApplyThrows(h) \/ UpdateThrows(h)
       PROVE  QuotasCommitted'
  BY <1>11, <1>23, <1>25 DEF HandlerThrows, ApplyThrows, UpdateThrows
<1> QED
  BY <1>1, <1>2, <1>3, <1>4, <1>5, <1>6, <1>7, <1>8, <1>9, <1>10, <1>12, <1>13, <1>14, <1>15,
     <1>16, <1>17, <1>18, <1>19, <1>20, <1>21, <1>22, <1>24, <1>25
  DEF Next, HandlerStep, SessionStep

\* Before anything is sold there are no rows and no quotas.
LEMMA InitQuotas == Init => QuotasCommitted
BY SMT DEF Init, QuotasCommitted, Refreshed, LiveSlots, Live, Terminal, Session

\* The quotas hold exactly the modules with a live row whenever no transaction is
\* open and no status was updated by itself since the last refresh, for any
\* number of refreshes that wait for, beat or abort each other.
THEOREM QuotaFollowsRowsAlways == Spec => []QuotaFollowsRows
<1>1. QuotasCommitted => QuotaFollowsRows
  BY SMT DEF QuotasCommitted, QuotaFollowsRows, Refreshed
<1>2. Init => QuotasCommitted
  BY InitQuotas
<1>3. TableInv /\ QuotasCommitted /\ [Next]_vars => QuotasCommitted'
  BY StepQuotas
<1> QED BY <1>1, <1>2, <1>3, TableInvariant, PTL DEF Spec

-----------------------------------------------------------------------------
(* Stripe's events and the requests that work on them *)

\* An event's number; what the last one of a subscription says, and which is the
\* first.
EventAgrees(e) ==
  /\ e.n <= changes[e.sub]
  /\ e.n = changes[e.sub] => e.status = stripe[e.sub]
  /\ e.kind = "checkout" <=> e.n = 0
  /\ e.kind = "deleted" => e.status = "canceled"
  /\ e.kind = "payment_failed" => e.status = "past_due"

SubAgrees(s) ==
  /\ stripe[s] = "none" => changes[s] = 0
  /\ stripe[s] # "none" =>
       /\ \E e \in sent : e.sub = s /\ e.n = changes[s]
       /\ \E e \in sent : e.sub = s /\ e.kind = "checkout"
  /\ \A d, e \in sent :
       d.sub = s /\ e.sub = s /\ d.kind = "checkout" /\ e.kind = "checkout" => d = e

EventsAgree == (\A e \in sent : EventAgrees(e)) /\ (\A s \in Sub : SubAgrees(s))

\* What a request works on, by where it is.
HandlerAgrees(h) ==
  /\ phase[h] \in {"retrieving", "looking", "inserting", "updating"} \cup Open
       => ev[h].kind = "checkout"
  /\ phase[h] \in {"applying", "canceling"} => ev[h].kind # "checkout"
  /\ phase[h] = "canceling" => ev[h].kind = "deleted"
  /\ phase[h] \in Open => row[h] \in Row

HandlersAgree == \A h \in Handler : HandlerAgrees(h)

\* What the events of a status change say.
LEMMA EventsOfSays ==
  ASSUME NEW s, NEW n, NEW status
  PROVE  /\ \A e \in EventsOf(s, n, status) :
              /\ e.sub = s /\ e.n = n /\ e.status = status
              /\ e.kind # "checkout"
              /\ e.kind = "deleted" => status = "canceled"
              /\ e.kind = "payment_failed" => status = "past_due"
         /\ \E e \in EventsOf(s, n, status) : TRUE
<1> DEFINE kinds == CASE status = "canceled" -> {"deleted"}
                      [] status = "past_due" -> {"updated", "payment_failed"}
                      [] OTHER -> {"updated"}
<1>1. kinds = IF status = "canceled" THEN {"deleted"}
              ELSE IF status = "past_due" THEN {"updated", "payment_failed"} ELSE {"updated"}
  <2>1. CASE status = "canceled"
    BY <2>1, Zenon
  <2>2. CASE status = "past_due"
    BY <2>2, Zenon
  <2>3. CASE status # "canceled" /\ status # "past_due"
    BY <2>3, Zenon
  <2> QED BY <2>1, <2>2, <2>3
<1>2. EventsOf(s, n, status) =
        {[sub |-> s, n |-> n, status |-> status, kind |-> kind] : kind \in kinds}
  BY DEF EventsOf
<1> HIDE DEF kinds
<1>3. ASSUME NEW e \in EventsOf(s, n, status)
      PROVE  /\ e.sub = s /\ e.n = n /\ e.status = status
             /\ e.kind # "checkout"
             /\ e.kind = "deleted" => status = "canceled"
             /\ e.kind = "payment_failed" => status = "past_due"
  <2>1. PICK kind \in kinds : e = [sub |-> s, n |-> n, status |-> status, kind |-> kind]
    BY <1>2
  <2>2. e.sub = s /\ e.n = n /\ e.status = status /\ e.kind = kind
    BY <2>1
  <2> QED BY <1>1, <2>2
<1>4. \E kind \in kinds : TRUE
  BY <1>1
<1> QED BY <1>2, <1>3, <1>4

\* Every status change sends its events, numbered in order.
LEMMA StepEvents == TypeOK /\ SentAgrees /\ EventsAgree /\ [Next]_vars => EventsAgree'
<1> SUFFICES ASSUME TypeOK, SentAgrees, EventsAgree, [Next]_vars PROVE EventsAgree'
  OBVIOUS
<1>0. "none" \notin Statuses
  BY SubscriptionsConstants, SMT DEF StatusMap
<1>1. ASSUME NEW s \in Sub, Checkout(s) PROVE EventsAgree'
  <2>1. PICK status \in Statuses \cap {"trialing", "active"} :
          /\ stripe' = [stripe EXCEPT ![s] = status]
          /\ sent' = sent \cup
                       {[sub |-> s, n |-> 0, kind |-> "checkout", status |-> status]}
    BY <1>1, Zenon DEF Checkout
  <2>2. stripe[s] = "none" /\ UNCHANGED changes
    BY <1>1, Zenon DEF Checkout
  <2> DEFINE new == [sub |-> s, n |-> 0, kind |-> "checkout", status |-> status]
  <2>3. /\ \A e \in sent : e.sub # s
        /\ changes[s] = 0 /\ stripe'[s] = status
        /\ \A x \in Sub \ {s} : stripe'[x] = stripe[x]
        /\ new.sub = s /\ new.n = 0 /\ new.kind = "checkout" /\ new.status = status
    BY <2>1, <2>2, SMT DEF TypeOK, DataTypes, SentAgrees, EventsAgree, SubAgrees
  <2>s. sent' = sent \cup {new}
    BY <2>1
  <2> HIDE DEF new
  <2>4. ASSUME NEW e \in sent PROVE EventAgrees(e)'
    BY <2>2, <2>3, SMT DEF EventsAgree, EventAgrees, TypeOK, DataTypes, Event
  <2>5. EventAgrees(new)'
    BY <2>2, <2>3, SMT DEF EventAgrees
  <2>6. ASSUME NEW x \in Sub PROVE SubAgrees(x)'
    <3>1. CASE x = s
      <4>1. stripe'[x] # "none" /\ changes'[x] = 0
        BY <1>0, <3>1, <2>2, <2>3
      <4>2. new \in sent' /\ new.sub = x /\ new.n = changes'[x] /\ new.kind = "checkout"
        BY <3>1, <2>2, <2>3, <2>s
      <4>3. \A e \in sent' : e.sub = x => e = new
        BY <3>1, <2>3, <2>s
      <4> QED BY <4>1, <4>2, <4>3 DEF SubAgrees
    <3>2. CASE x # s
      BY <3>2, <2>2, <2>3, <2>s, SMT DEF EventsAgree, SubAgrees
    <3> QED BY <3>1, <3>2
  <2> QED BY <2>s, <2>4, <2>5, <2>6 DEF EventsAgree
<1>2. ASSUME NEW s \in Sub, Change(s) PROVE EventsAgree'
  <2>1. PICK status \in Statuses \ {"trialing", stripe[s]} :
          /\ stripe' = [stripe EXCEPT ![s] = status]
          /\ sent' = sent \cup EventsOf(s, changes[s] + 1, status)
    BY <1>2, Zenon DEF Change
  <2>2. stripe[s] # "none" /\ changes' = [changes EXCEPT ![s] = @ + 1]
    BY <1>2, Zenon DEF Change
  <2> DEFINE new == EventsOf(s, changes[s] + 1, status)
  <2>3. /\ changes[s] \in Nat /\ changes'[s] = changes[s] + 1 /\ stripe'[s] = status
        /\ \A x \in Sub \ {s} : stripe'[x] = stripe[x] /\ changes'[x] = changes[x]
    BY <2>1, <2>2, SMT DEF TypeOK, DataTypes
  <2>4. /\ \A e \in new : /\ e.sub = s /\ e.n = changes[s] + 1 /\ e.status = status
                          /\ e.kind # "checkout"
                          /\ e.kind = "deleted" => status = "canceled"
                          /\ e.kind = "payment_failed" => status = "past_due"
        /\ \E e \in new : TRUE
    BY EventsOfSays
  <2> HIDE DEF new
  <2>5. ASSUME NEW e \in sent PROVE EventAgrees(e)'
    <3>1. EventAgrees(e) /\ e.sub \in Sub /\ e.n \in Nat /\ changes[e.sub] \in Nat
      BY SMT DEF EventsAgree, TypeOK, DataTypes, Event
    <3> QED BY <2>3, <3>1, SMT DEF EventAgrees
  <2>6. ASSUME NEW e \in new PROVE EventAgrees(e)'
    BY <2>3, <2>4, SMT DEF EventAgrees
  <2>7. ASSUME NEW x \in Sub PROVE SubAgrees(x)'
    <3>1. SubAgrees(x)
      BY DEF EventsAgree
    <3>2. sent' = sent \cup new
      BY <2>1 DEF new
    <3>3. CASE x = s
      BY <1>0, <2>2, <2>3, <2>4, <3>1, <3>2, <3>3, SMT DEF SubAgrees
    <3>4. CASE x # s
      BY <2>3, <2>4, <3>1, <3>2, <3>4, SMT DEF SubAgrees
    <3> QED BY <3>3, <3>4
  <2> QED BY <2>1, <2>5, <2>6, <2>7 DEF EventsAgree, new
<1>3. CASE UNCHANGED stripeVars
  BY <1>3, SMT DEF stripeVars, EventsAgree, EventAgrees, SubAgrees
<1>4. [Next]_vars => \/ \E s \in Sub : Checkout(s) \/ Change(s)
                     \/ UNCHANGED stripeVars
  BY Zenon
  DEF Next, vars, HandlerStep, SessionStep, Reconcile,
      Receive, Retrieve, Skip, Look, FindDeleted, CancelRow, Apply, ApplyThrows, Mark,
      HandlerThrows, UpdateRow, UpdateThrows, InsertRow, InsertConflict, Refresh, RefreshWaits,
      RefreshBeaten, Commit, CommitAborted, StartRefresh, TrialExpiry, Fail
<1> QED BY <1>1, <1>2, <1>3, <1>4

\* A request stays with the kind of event it works on.
LEMMA StepHandlers == TableInv /\ HandlersAgree /\ [Next]_vars => HandlersAgree'
<1> SUFFICES ASSUME TableInv, HandlersAgree, [Next]_vars, NEW g \in Handler
             PROVE  HandlerAgrees(g)'
  BY DEF HandlersAgree
<1>t. DataTypes /\ g \in Session /\ HandlerAgrees(g) /\ SessionAgrees(g) /\ FoundRow(g)
  BY DEF TableInv, TypeOK, Session, HandlersAgree
<1> USE SubscriptionsConstants, <1>t DEF DataTypes, Session, HandlerAgrees, PhaseTo, Open
<1>1. ASSUME NEW s \in Sub, Checkout(s) \/ Change(s) \/ Reconcile(s) PROVE HandlerAgrees(g)'
  BY <1>1, SMT DEF Checkout, Change, Reconcile, jobVars
<1>2. ASSUME NEW h \in Handler, NEW e \in sent, Receive(h, e) PROVE HandlerAgrees(g)'
  BY <1>2, SMT DEF Receive
<1>3. ASSUME NEW h \in Handler, Retrieve(h) \/ Skip(h) \/ Look(h) PROVE HandlerAgrees(g)'
  BY <1>3, SMT DEF Retrieve, Skip, Look, jobVars
<1>4. ASSUME NEW h \in Handler, FindDeleted(h) PROVE HandlerAgrees(g)'
  BY <1>4, SMT DEF FindDeleted
<1>5. ASSUME NEW h \in Handler, CancelRow(h) PROVE HandlerAgrees(g)'
  BY <1>5, CancelRowDoes, SMT
<1>6. ASSUME NEW h \in Handler, Apply(h) PROVE HandlerAgrees(g)'
  BY <1>6, SMT DEF Apply, jobVars
<1>7. ASSUME NEW h \in Session, Fail(h) PROVE HandlerAgrees(g)'
  BY <1>7, SMT DEF Fail, Release, Forget
<1>8. ASSUME NEW h \in Handler, Mark(h) PROVE HandlerAgrees(g)'
  BY <1>8, SMT DEF Mark, Forget
<1>9. ASSUME NEW h \in Session, UpdateRow(h) PROVE HandlerAgrees(g)'
  BY <1>9, SMT DEF UpdateRow, FoundRow, jobVars
<1>10. ASSUME NEW h \in Session, InsertRow(h) PROVE HandlerAgrees(g)'
  BY <1>10, SMT DEF InsertRow
<1>11. ASSUME NEW h \in Session, InsertConflict(h) PROVE HandlerAgrees(g)'
  BY <1>11, SMT DEF InsertConflict, EndSession, AfterSession, Release, Forget
<1>12. ASSUME NEW h \in Session, Refresh(h) \/ RefreshWaits(h) PROVE HandlerAgrees(g)'
  BY <1>12, SMT DEF Refresh, RefreshWaits, jobVars
<1>13. ASSUME NEW h \in Session, RefreshBeaten(h) PROVE HandlerAgrees(g)'
  BY <1>13, SMT DEF RefreshBeaten
<1>14. ASSUME NEW h \in Session, Commit(h) PROVE HandlerAgrees(g)'
  BY <1>14, SMT DEF Commit, Beaten, AfterSession, Release, Forget
<1>15. ASSUME NEW h \in Session, CommitAborted(h) PROVE HandlerAgrees(g)'
  BY <1>15, SMT DEF CommitAborted, EndSession, AfterSession, Release, Forget
<1>16. ASSUME StartRefresh \/ TrialExpiry PROVE HandlerAgrees(g)'
  BY <1>16, SMT DEF StartRefresh, TrialExpiry, jobVars
<1>17. CASE UNCHANGED vars
  BY <1>17, SMT DEF vars, jobVars
<1> QED
  BY <1>1, <1>2, <1>3, <1>4, <1>5, <1>6, <1>7, <1>8, <1>9, <1>10, <1>11, <1>12, <1>13, <1>14,
     <1>15, <1>16, <1>17
  DEF Next, HandlerStep, SessionStep, HandlerThrows, ApplyThrows, UpdateThrows

\* Events and requests agree all the time.
LEMMA EventsInvariant == Spec => [](EventsAgree /\ HandlersAgree)
<1>1. Init => EventsAgree /\ HandlersAgree
  <2> SUFFICES ASSUME Init PROVE EventsAgree /\ HandlersAgree
    OBVIOUS
  <2>1. EventsAgree
    BY SMT DEF Init, EventsAgree, SubAgrees
  <2>2. HandlersAgree
    BY SMT DEF Init, HandlersAgree, HandlerAgrees, Open, Session
  <2> QED BY <2>1, <2>2
<1>2. TableInv => TypeOK /\ SentAgrees
  BY DEF TableInv
<1>3. TypeOK /\ SentAgrees /\ EventsAgree /\ [Next]_vars => EventsAgree'
  BY StepEvents
<1>4. TableInv /\ HandlersAgree /\ [Next]_vars => HandlersAgree'
  BY StepHandlers
<1> QED BY <1>1, <1>2, <1>3, <1>4, TableInvariant, PTL DEF Spec

-----------------------------------------------------------------------------
(* Nothing out of order, failed, overtaken or replaced *)

Working == {h \in Handler : phase[h] # "idle"}

\* The events whose work is done.
Applied ==
  {e \in sent : e \in processed \/ \E h \in Handler : phase[h] = "marking" /\ ev[h] = e}

\* Requests come one at a time for a subscription, and in the order of its events.
OneByOne ==
  /\ \A g, h \in Working : sub[g] = sub[h] => g = h
  /\ \A h \in Working : ev[h] \notin processed
  /\ \A e \in processed \cup {ev[h] : h \in Working} :
       \A d \in sent : d.sub = e.sub /\ d.n < e.n => d \in processed

\* Only webhooks write rows, and no refresh has failed.
OnlyWebhooks == phase[Reconciler] = "idle" /\ \A h \in Session : phase[h] # "aborted"

\* The row that a checkout writes is new.
NewRows == \A h \in Handler : phase[h] \in Open => rowStatus[row[h]] = "absent"

\* A subscription has its row from the end of its checkout on, and not before.
RowsOfCheckouts ==
  /\ \A r \in Row : rowStatus[r] # "absent" => stripe[rowSub[r]] # "none"
  /\ \A e \in Applied : RowOf(e.sub) # {}
  /\ \A e \in sent \ Applied : e.kind = "checkout" => RowOf(e.sub) = {}

\* A checkout works with the first status until that changes.
SeenAgrees ==
  \A h \in Handler :
    phase[h] \in {"looking", "inserting", "updating"} \cup Open /\ changes[sub[h]] = 0
      => seen[h] = StatusMap[stripe[sub[h]]]

\* A row says what the last event says, once that is applied.
LastApplied ==
  \A e \in Applied : e.n = changes[e.sub] =>
    \A r \in RowOf(e.sub) : rowStatus[r] = StatusMap[stripe[e.sub]]

InOrder ==
  OneByOne /\ OnlyWebhooks /\ NewRows /\ RowsOfCheckouts /\ SeenAgrees /\ LastApplied

\* What holds in any order.
Known == TableInv /\ EventsAgree /\ HandlersAgree

\* A request that is at work has an event whose work is not done, and the
\* subscription has its row unless that event is its checkout.
LEMMA AtWork ==
  ASSUME Known, InOrder, NEW h \in Handler, phase[h] \notin {"idle", "marking"}
  PROVE  /\ ev[h] \in sent /\ sub[h] = ev[h].sub /\ sub[h] \in Sub
         /\ ev[h] \notin Applied
         /\ ev[h].kind = "checkout" => ev[h].n = 0 /\ RowOf(sub[h]) = {}
         /\ ev[h].kind # "checkout" => RowOf(sub[h]) # {}
         /\ \A f \in Applied : f.sub = sub[h] /\ f.n = changes[sub[h]]
                                 => ev[h].n = changes[sub[h]]
<1>t. TypeOK /\ h \in Session /\ h \in Working
  BY DEF Known, TableInv, Session, Working
<1>1. ev[h] \in sent /\ sub[h] = ev[h].sub /\ sub[h] \in Sub
  BY <1>t, SMT DEF Known, TableInv, SessionAgrees, TypeOK, DataTypes, Event
<1>2. ev[h] \notin Applied
  <2>1. ev[h] \notin processed
    BY <1>t DEF InOrder, OneByOne
  <2>2. ASSUME NEW g \in Handler, phase[g] = "marking", ev[g] = ev[h] PROVE FALSE
    <3>1. sub[g] = sub[h] /\ g \in Working
      BY <1>1, <2>2 DEF Known, TableInv, SessionAgrees, Working, Session
    <3> QED BY <1>t, <2>2, <3>1 DEF InOrder, OneByOne
  <2> QED BY <2>1, <2>2 DEF Applied
<1>3. EventAgrees(ev[h]) /\ ev[h].n \in Nat /\ changes[sub[h]] \in Nat
  BY <1>1, <1>t, SMT DEF Known, EventsAgree, TypeOK, DataTypes, Event
<1>4. ev[h].kind = "checkout" => ev[h].n = 0 /\ RowOf(sub[h]) = {}
  BY <1>1, <1>2, <1>3, SMT DEF InOrder, RowsOfCheckouts, EventAgrees
<1>5. \A d \in sent : d.sub = sub[h] /\ d.n < ev[h].n => d \in Applied
  BY <1>t, <1>1, SMT DEF InOrder, OneByOne, Applied
<1>6. ASSUME ev[h].kind # "checkout" PROVE RowOf(sub[h]) # {}
  <2>1. PICK d \in sent : d.sub = sub[h] /\ d.kind = "checkout"
    BY <1>1, SMT DEF Known, EventsAgree, SubAgrees, TableInv, SentAgrees
  <2>2. d.n = 0 /\ ev[h].n # 0
    BY <1>3, <1>6, <2>1 DEF Known, EventsAgree, EventAgrees
  <2>3. d \in Applied
    BY <1>3, <1>5, <2>1, <2>2, SMT
  <2> QED BY <2>1, <2>3, SMT DEF InOrder, RowsOfCheckouts
<1>7. ASSUME NEW f \in Applied, f.sub = sub[h], f.n = changes[sub[h]], ev[h].n # changes[sub[h]]
      PROVE  FALSE
  <2>1. ev[h].n < f.n
    BY <1>1, <1>3, <1>7, SMT DEF EventAgrees
  <2>2. f \in processed \cup {ev[g] : g \in Working}
    BY <1>7 DEF Applied, Working
  <2>3. ev[h] \in processed
    BY <1>1, <1>7, <2>1, <2>2 DEF InOrder, OneByOne
  <2> QED BY <1>t, <2>3 DEF InOrder, OneByOne
<1> QED BY <1>1, <1>2, <1>4, <1>6, <1>7

\* The step moves h on and leaves Stripe, the table and all other requests alone.
Moves(h) ==
  /\ UNCHANGED <<stripe, changes, sent, processed, rowSub, rowStatus>>
  /\ \A g \in Session \ {h} :
       /\ phase'[g] = phase[g] \/ (phase[g] = "waiting" /\ phase'[g] = "beaten")
       /\ row'[g] = row[g] /\ seen'[g] = seen[g]
  /\ \A g \in Handler : ev'[g] = ev[g] /\ sub'[g] = sub[g]
  /\ phase'[h] # "aborted" /\ h # Reconciler
  /\ h \in Handler =>
       /\ phase[h] \notin {"idle", "marking"} /\ phase'[h] \notin {"idle", "marking"}
       /\ phase'[h] \in Open => rowStatus[row'[h]] = "absent"
       /\ phase'[h] \in {"looking", "inserting", "updating"} \cup Open /\ changes[sub[h]] = 0
            => seen'[h] = StatusMap[stripe[sub[h]]]

\* Such a step keeps the order.
LEMMA MovesKeeps ==
  ASSUME Known, InOrder, NEW h \in Session, Moves(h) PROVE InOrder'
<1>1. \A g \in Handler : /\ phase'[g] = "idle" <=> phase[g] = "idle"
                         /\ phase'[g] = "marking" <=> phase[g] = "marking"
                         /\ ev'[g] = ev[g] /\ sub'[g] = sub[g]
  BY SMT DEF Moves, Session
<1>2. /\ Working' = Working
      /\ \A s \in Sub : RowOf(s)' = RowOf(s)
  BY <1>1 DEF Working, Moves, RowOf
<1>3. Applied' = Applied
  BY <1>1, SMT DEF Applied, Moves
<1>4. OneByOne'
  BY <1>1, <1>2, SMT DEF InOrder, OneByOne, Moves, Working
<1>5. OnlyWebhooks'
  BY SMT DEF InOrder, OnlyWebhooks, Moves, Session
<1>6. NewRows'
  BY SMT DEF InOrder, NewRows, Moves, Session, Open
<1>7. RowsOfCheckouts'
  BY <1>3, SMT DEF InOrder, RowsOfCheckouts, Moves, RowOf
<1>8. SeenAgrees'
  BY SMT DEF InOrder, SeenAgrees, Moves, Session, Open
<1>9. LastApplied'
  BY <1>3, SMT DEF InOrder, LastApplied, Moves, RowOf
<1> QED BY <1>4, <1>5, <1>6, <1>7, <1>8, <1>9 DEF InOrder

\* A subscription that is sold has had no events and no row.
LEMMA CheckoutKeeps ==
  ASSUME Known, InOrder, NEW s \in Sub, Checkout(s) PROVE InOrder'
<1>t. TypeOK /\ \A h \in Session : SessionAgrees(h)
  BY DEF Known, TableInv
<1>1. PICK status \in Statuses \cap {"trialing", "active"} :
        /\ stripe' = [stripe EXCEPT ![s] = status]
        /\ sent' = sent \cup {[sub |-> s, n |-> 0, kind |-> "checkout", status |-> status]}
  BY Zenon DEF Checkout
<1> DEFINE new == [sub |-> s, n |-> 0, kind |-> "checkout", status |-> status]
<1>2. /\ stripe[s] = "none"
      /\ UNCHANGED <<changes, processed, rowSub, rowStatus, phase, ev, sub, seen, row>>
  BY Zenon DEF Checkout, tableVars, jobVars
<1>3. /\ sent' = sent \cup {new} /\ new.sub = s /\ new.n = 0
      /\ stripe'[s] = status /\ \A x \in Sub \ {s} : stripe'[x] = stripe[x]
  BY <1>1, <1>t, SMT DEF TypeOK, DataTypes
<1> HIDE DEF new
<1>4. \A e \in sent : e.sub \in Sub /\ e.sub # s /\ e.n \in Nat
  BY <1>2, <1>t, SMT DEF Known, TableInv, SentAgrees, TypeOK, DataTypes, Event
<1>5. /\ \A h \in Handler : phase[h] # "idle" => ev[h] \in sent /\ sub[h] = ev[h].sub
      /\ processed \subseteq sent
  BY <1>t, SMT DEF SessionAgrees, Session, TypeOK, DataTypes
<1>6. "none" \notin Statuses
  BY SubscriptionsConstants, SMT DEF StatusMap
<1>7. Applied' = Applied
  BY <1>2, <1>3, <1>4, <1>5, SMT DEF Applied
<1>8. OneByOne'
  BY <1>2, <1>3, <1>4, <1>5, SMT DEF InOrder, OneByOne, Working
<1>9. OnlyWebhooks' /\ NewRows'
  BY <1>2 DEF InOrder, OnlyWebhooks, NewRows
<1>10. RowsOfCheckouts'
  <2>1. RowOf(s) = {}
    BY <1>2, SMT DEF InOrder, RowsOfCheckouts, RowOf
  <2>2. \A x \in Sub : RowOf(x)' = RowOf(x)
    BY <1>2 DEF RowOf
  <2>3. \A r \in Row : rowStatus[r] # "absent" => stripe'[rowSub[r]] # "none"
    BY <1>1, <1>3, <1>6, SMT DEF InOrder, RowsOfCheckouts, Known, TableInv, RowsHaveSub
  <2>4. \A e \in Applied : e \in sent
    BY DEF Applied
  <2> QED BY <1>2, <1>3, <1>4, <1>7, <2>1, <2>2, <2>3, <2>4, SMT DEF InOrder, RowsOfCheckouts
<1>11. SeenAgrees'
  BY <1>2, <1>3, <1>4, <1>5, SMT DEF InOrder, SeenAgrees, Open
<1>12. LastApplied'
  BY <1>2, <1>3, <1>4, <1>7, SMT DEF InOrder, LastApplied, Applied, RowOf
<1> QED BY <1>8, <1>9, <1>10, <1>11, <1>12 DEF InOrder

\* A status change sends events after all others of the subscription.
LEMMA ChangeKeeps ==
  ASSUME Known, InOrder, NEW s \in Sub, Change(s) PROVE InOrder'
<1>t. TypeOK /\ \A h \in Session : SessionAgrees(h)
  BY DEF Known, TableInv
<1>1. PICK status \in Statuses \ {"trialing", stripe[s]} :
        /\ stripe' = [stripe EXCEPT ![s] = status]
        /\ sent' = sent \cup EventsOf(s, changes[s] + 1, status)
  BY Zenon DEF Change
<1> DEFINE new == EventsOf(s, changes[s] + 1, status)
<1>2. /\ changes' = [changes EXCEPT ![s] = @ + 1]
      /\ UNCHANGED <<processed, rowSub, rowStatus, phase, ev, sub, seen, row>>
  BY Zenon DEF Change, tableVars, jobVars
<1>3. /\ sent' = sent \cup new
      /\ changes[s] \in Nat /\ changes'[s] = changes[s] + 1 /\ stripe'[s] = status
      /\ \A x \in Sub \ {s} : stripe'[x] = stripe[x] /\ changes'[x] = changes[x]
  BY <1>1, <1>2, <1>t, SMT DEF TypeOK, DataTypes
<1>4. \A e \in new : e.sub = s /\ e.n = changes[s] + 1 /\ e.kind # "checkout"
  BY EventsOfSays
<1> HIDE DEF new
<1>5. \A e \in sent : e.sub \in Sub /\ e.n \in Nat /\ changes[e.sub] \in Nat
                      /\ e.n <= changes[e.sub]
  BY <1>t, SMT DEF Known, EventsAgree, EventAgrees, TypeOK, DataTypes, Event
<1>6. /\ \A h \in Handler : phase[h] # "idle" => ev[h] \in sent /\ sub[h] = ev[h].sub
      /\ processed \subseteq sent
  BY <1>t, SMT DEF SessionAgrees, Session, TypeOK, DataTypes
<1>7. "none" \notin Statuses
  BY SubscriptionsConstants, SMT DEF StatusMap
<1>8. \A e \in new : e \notin sent
  BY <1>3, <1>4, <1>5, SMT
<1>9. Applied' = Applied
  BY <1>2, <1>3, <1>6, <1>8, SMT DEF Applied
<1>10. OneByOne'
  <2>1. ASSUME NEW e \in processed \cup {ev[h] : h \in Working}, NEW d \in sent',
               d.sub = e.sub, d.n < e.n
        PROVE  d \in processed
    <3>1. e \in sent
      BY <1>6 DEF Working
    <3>2. d \in sent
      BY <1>3, <1>4, <1>5, <2>1, <3>1, SMT
    <3> QED BY <2>1, <3>2 DEF InOrder, OneByOne
  <2>2. Working' = Working
    BY <1>2 DEF Working
  <2> QED BY <1>2, <2>1, <2>2 DEF InOrder, OneByOne
<1>11. OnlyWebhooks' /\ NewRows'
  BY <1>2 DEF InOrder, OnlyWebhooks, NewRows
<1>12. RowsOfCheckouts'
  <2>1. \A x \in Sub : RowOf(x)' = RowOf(x)
    BY <1>2 DEF RowOf
  <2>2. \A r \in Row : rowStatus[r] # "absent" => stripe'[rowSub[r]] # "none"
    BY <1>1, <1>3, <1>7, SMT DEF InOrder, RowsOfCheckouts, Known, TableInv, RowsHaveSub
  <2>3. \A e \in Applied : e \in sent
    BY DEF Applied
  <2> QED BY <1>2, <1>3, <1>4, <1>5, <1>9, <2>1, <2>2, <2>3, SMT DEF InOrder, RowsOfCheckouts
<1>13. SeenAgrees'
  <2>1. \A h \in Handler : phase[h] # "idle" => sub[h] \in Sub
    BY <1>5, <1>6
  <2> QED BY <1>2, <1>3, <2>1, SMT DEF InOrder, SeenAgrees, Open
<1>14. LastApplied'
  BY <1>2, <1>3, <1>5, <1>9, SMT DEF InOrder, LastApplied, Applied, RowOf
<1> QED BY <1>10, <1>11, <1>12, <1>13, <1>14 DEF InOrder

\* The next event of a subscription that nobody works on.
LEMMA ReceiveKeeps ==
  ASSUME Known, InOrder, NEW h \in Handler, NEW e \in sent, Receive(h, e), ~OutOfOrder(h, e)
  PROVE  InOrder'
<1>t. TypeOK /\ h \in Session /\ \A g \in Session : SessionAgrees(g)
  BY DEF Known, TableInv, Session
<1>1. /\ phase[h] = "idle" /\ e \notin processed
      /\ ev' = [ev EXCEPT ![h] = e] /\ sub' = [sub EXCEPT ![h] = e.sub]
      /\ phase' = [phase EXCEPT ![h] = IF e.kind = "checkout" THEN "retrieving" ELSE "applying"]
      /\ UNCHANGED <<stripe, changes, sent, processed, rowSub, rowStatus, seen, row>>
  BY Zenon DEF Receive, PhaseTo, stripeVars, tableVars
<1>2. /\ phase'[h] \in {"retrieving", "applying"} /\ ev'[h] = e /\ sub'[h] = e.sub
      /\ \A g \in Session \ {h} : phase'[g] = phase[g] /\ ev'[g] = ev[g] /\ sub'[g] = sub[g]
  BY <1>1, <1>t, SMT DEF TypeOK, DataTypes
<1>3. \A g \in Handler \ {h} : phase[g] # "idle" => sub[g] # e.sub
  BY DEF OutOfOrder
<1>4. \A d \in sent : d.sub = e.sub /\ d.n < e.n => d \in processed
  BY DEF OutOfOrder
<1>5. Applied' = Applied
  BY <1>1, <1>2, SMT DEF Applied, Session
<1>6. Working' = Working \cup {h}
  BY <1>2, SMT DEF Working, Session
<1>7. OneByOne'
  <2>1. \A f, g \in Working' : sub'[f] = sub'[g] => f = g
    BY <1>2, <1>3, <1>6, SMT DEF InOrder, OneByOne, Working, Session
  <2>2. \A g \in Working' : ev'[g] \notin processed
    BY <1>1, <1>2, <1>6, SMT DEF InOrder, OneByOne, Working, Session
  <2>3. ASSUME NEW f \in processed' \cup {ev'[g] : g \in Working'}, NEW d \in sent,
               d.sub = f.sub, d.n < f.n
        PROVE  d \in processed
    <3>1. f = e \/ f \in processed \cup {ev[g] : g \in Working}
      BY <1>1, <1>2, <1>6, SMT DEF Working, Session
    <3> QED BY <1>4, <2>3, <3>1 DEF InOrder, OneByOne
  <2> QED BY <1>1, <2>1, <2>2, <2>3 DEF OneByOne
<1>8. OnlyWebhooks'
  BY <1>2, SubscriptionsConstants, SMT DEF InOrder, OnlyWebhooks, Session
<1>9. NewRows'
  BY <1>1, <1>2, SMT DEF InOrder, NewRows, Session, Open
<1>10. RowsOfCheckouts'
  BY <1>1, <1>5, SMT DEF InOrder, RowsOfCheckouts, RowOf
<1>11. SeenAgrees'
  BY <1>1, <1>2, SMT DEF InOrder, SeenAgrees, Session, Open
<1>12. LastApplied'
  BY <1>1, <1>5, SMT DEF InOrder, LastApplied, RowOf
<1> QED BY <1>7, <1>8, <1>9, <1>10, <1>11, <1>12 DEF InOrder

\* An event is marked when its work is done.
LEMMA MarkKeeps ==
  ASSUME Known, InOrder, NEW h \in Handler, Mark(h) PROVE InOrder'
<1>t. TypeOK /\ h \in Session /\ \A g \in Session : SessionAgrees(g)
  BY DEF Known, TableInv, Session
<1>1. /\ phase[h] = "marking" /\ processed' = processed \cup {ev[h]}
      /\ phase' = [phase EXCEPT ![h] = "idle"]
      /\ ev' = [ev EXCEPT ![h] = None] /\ sub' = [sub EXCEPT ![h] = None]
      /\ UNCHANGED <<stripe, changes, sent, rowSub, rowStatus, seen, row>>
  BY Zenon DEF Mark, Forget, PhaseTo, stripeVars, tableVars
<1>2. /\ phase'[h] = "idle"
      /\ \A g \in Session \ {h} : phase'[g] = phase[g] /\ ev'[g] = ev[g] /\ sub'[g] = sub[g]
  BY <1>1, <1>t, SMT DEF TypeOK, DataTypes
<1>3. \A g \in Handler : phase[g] # "idle" => ev[g] \in sent /\ sub[g] = ev[g].sub
  BY <1>t, SMT DEF SessionAgrees, Session
<1>4. h \in Working /\ Working' = Working \ {h}
  BY <1>1, <1>2, SMT DEF Working, Session
<1>5. Applied' = Applied
  BY <1>1, <1>2, <1>3, SMT DEF Applied, Session
<1>6. OneByOne'
  <2>1. \A f, g \in Working' : sub'[f] = sub'[g] => f = g
    BY <1>2, <1>4, SMT DEF InOrder, OneByOne, Working, Session
  <2>2. ASSUME NEW g \in Working' PROVE ev'[g] \notin processed'
    <3>1. g \in Working /\ g # h /\ ev'[g] = ev[g]
      BY <1>2, <1>4 DEF Working, Session
    <3>2. ev[g] # ev[h]
      BY <1>1, <1>3, <1>4, <3>1 DEF InOrder, OneByOne, Working
    <3> QED BY <1>1, <3>1, <3>2 DEF InOrder, OneByOne
  <2>3. ASSUME NEW f \in processed' \cup {ev'[g] : g \in Working'}, NEW d \in sent,
               d.sub = f.sub, d.n < f.n
        PROVE  d \in processed
    <3>1. f \in processed \cup {ev[g] : g \in Working}
      BY <1>1, <1>2, <1>4, SMT DEF Working, Session
    <3> QED BY <2>3, <3>1 DEF InOrder, OneByOne
  <2> QED BY <1>1, <2>1, <2>2, <2>3 DEF OneByOne
<1>7. OnlyWebhooks'
  BY <1>2, SubscriptionsConstants, SMT DEF InOrder, OnlyWebhooks, Session
<1>8. NewRows'
  BY <1>1, <1>2, SMT DEF InOrder, NewRows, Session, Open
<1>9. RowsOfCheckouts'
  BY <1>1, <1>5, SMT DEF InOrder, RowsOfCheckouts, RowOf
<1>10. SeenAgrees'
  BY <1>1, <1>2, SMT DEF InOrder, SeenAgrees, Session, Open
<1>11. LastApplied'
  BY <1>1, <1>5, SMT DEF InOrder, LastApplied, RowOf
<1> QED BY <1>6, <1>7, <1>8, <1>9, <1>10, <1>11 DEF InOrder

\* The step finishes the work of h: the rows of its subscription take the status,
\* which is Stripe's if no later event was sent.
Says(h, status) ==
  /\ phase[h] \notin {"idle", "marking"} /\ phase' = [phase EXCEPT ![h] = "marking"]
  /\ ev[h].kind # "checkout"
  /\ status \in LocalStatus
  /\ ev[h].n = changes[sub[h]] => status = StatusMap[stripe[sub[h]]]
  /\ \A r \in Row : rowStatus'[r] = IF r \in RowOf(sub[h]) THEN status ELSE rowStatus[r]
  /\ \A g \in Session \ {h} : row'[g] = row[g]
  /\ UNCHANGED <<stripe, changes, sent, processed, rowSub, ev, sub, seen>>

\* A later event of the subscription would have been out of order.
LEMMA SaysKeeps ==
  ASSUME Known, InOrder, NEW h \in Handler, NEW status, Says(h, status) PROVE InOrder'
<1>t. TypeOK /\ h \in Session /\ \A g \in Session : SessionAgrees(g)
  BY DEF Known, TableInv, Session
<1>1. /\ ev[h] \in sent /\ sub[h] = ev[h].sub /\ sub[h] \in Sub
      /\ RowOf(sub[h]) # {}
      /\ \A f \in Applied : f.sub = sub[h] /\ f.n = changes[sub[h]]
                              => ev[h].n = changes[sub[h]]
  BY AtWork DEF Says
<1>2. /\ phase'[h] = "marking" /\ \A g \in Session \ {h} : phase'[g] = phase[g]
  BY <1>t, SMT DEF Says, TypeOK, DataTypes
<1>3. /\ \A r \in Row : rowStatus'[r] = "absent" <=> rowStatus[r] = "absent"
      /\ \A s \in Sub : RowOf(s)' = RowOf(s)
  <2>1. \A r \in Row : rowStatus'[r] = "absent" <=> rowStatus[r] = "absent"
    BY SMT DEF Says, RowOf, LocalStatus
  <2> QED BY <2>1, SMT DEF Says, RowOf
<1>4. Applied' = Applied \cup {ev[h]}
  BY <1>1, <1>2, SMT DEF Applied, Says, Session
<1>5. Working' = Working /\ h \in Working
  BY <1>2, SMT DEF Working, Says, Session
<1>6. OneByOne'
  BY <1>5, SMT DEF InOrder, OneByOne, Says
<1>7. OnlyWebhooks'
  BY <1>2, SubscriptionsConstants, SMT DEF InOrder, OnlyWebhooks, Session
<1>8. NewRows'
  <2>1. ASSUME NEW g \in Handler, phase'[g] \in Open PROVE rowStatus'[row'[g]] = "absent"
    <3>1. g # h /\ g \in Session /\ phase[g] \in Open /\ row'[g] = row[g]
      BY <1>2, <2>1, SMT DEF Says, Session, Open
    <3>2. row[g] \in Row
      BY <3>1 DEF Known, HandlersAgree, HandlerAgrees
    <3> QED BY <1>3, <3>1, <3>2, SMT DEF InOrder, NewRows
  <2> QED BY <2>1 DEF NewRows
<1>9. \A e \in sent : e.sub \in Sub
  BY <1>t, SMT DEF TypeOK, DataTypes, Event
<1>10. RowsOfCheckouts'
  <2>1. \A e \in Applied : e \in sent
    BY DEF Applied
  <2> QED BY <1>1, <1>3, <1>4, <1>9, <2>1, SMT DEF InOrder, RowsOfCheckouts, Says
<1>11. SeenAgrees'
  BY <1>2, SMT DEF InOrder, SeenAgrees, Says, Session, Open
<1>12. LastApplied'
  <2>1. ASSUME NEW e \in Applied \cup {ev[h]}, e.n = changes[e.sub], NEW r \in RowOf(e.sub)
        PROVE  rowStatus'[r] = StatusMap[stripe[e.sub]]
    <3>1. CASE e.sub = sub[h]
      <4>1. ev[h].n = changes[sub[h]]
        BY <1>1, <2>1, <3>1
      <4> QED BY <2>1, <3>1, <4>1 DEF Says, RowOf
    <3>2. CASE e.sub # sub[h]
      <4>1. e \in Applied /\ r \notin RowOf(sub[h])
        BY <1>1, <2>1, <3>2 DEF RowOf
      <4>2. rowStatus[r] = StatusMap[stripe[e.sub]]
        BY <2>1, <4>1 DEF InOrder, LastApplied
      <4> QED BY <4>1, <4>2 DEF Says, RowOf
    <3> QED BY <3>1, <3>2
  <2>2. \A e \in Applied \cup {ev[h]} : e.sub \in Sub
    BY <1>1, <1>9 DEF Applied
  <2> QED BY <1>3, <1>4, <2>1, <2>2, SMT DEF LastApplied, Says
<1> QED BY <1>6, <1>7, <1>8, <1>10, <1>11, <1>12 DEF InOrder

\* A checkout commits its new row.
LEMMA CheckoutCommits ==
  ASSUME Known, InOrder, NEW h \in Handler, Commit(h) PROVE InOrder'
<1>t. TypeOK /\ h \in Session /\ \A g \in Session : SessionAgrees(g)
  BY DEF Known, TableInv, Session
<1>0. phase[h] = "committing" /\ phase[h] \in Open /\ row[h] \in Row /\ ev[h].kind = "checkout"
  BY DEF Commit, Open, Known, HandlersAgree, HandlerAgrees
<1>1. /\ ev[h] \in sent /\ sub[h] = ev[h].sub /\ sub[h] \in Sub
      /\ ev[h] \notin Applied /\ ev[h].n = 0 /\ RowOf(sub[h]) = {}
  BY <1>0, AtWork
<1>2. /\ phase' = Beaten(h)
      /\ seen' = [seen EXCEPT ![h] = None] /\ row' = [row EXCEPT ![h] = None]
      /\ rowSub' = [rowSub EXCEPT ![row[h]] = sub[h]]
      /\ rowStatus' = [rowStatus EXCEPT ![row[h]] = seen[h]]
      /\ UNCHANGED <<stripe, changes, sent, processed, ev, sub>>
  BY <1>0, SubscriptionsConstants, SMT DEF Commit, Release, stripeVars
<1>3. /\ phase'[h] = "marking"
      /\ \A g \in Session \ {h} :
           /\ row'[g] = row[g] /\ seen'[g] = seen[g]
           /\ phase'[g] = phase[g] \/ (phase[g] = "waiting" /\ phase'[g] = "beaten")
  BY <1>2, <1>t, SMT DEF Beaten, AfterSession, TypeOK, DataTypes
<1>4. /\ rowStatus[row[h]] = "absent" /\ seen[h] \in LocalStatus
      /\ rowSub'[row[h]] = sub[h] /\ rowStatus'[row[h]] = seen[h]
      /\ \A r \in Row \ {row[h]} : rowSub'[r] = rowSub[r] /\ rowStatus'[r] = rowStatus[r]
  <2>1. row[h] # None
    BY <1>0, SubscriptionsConstants
  <2> QED BY <1>0, <1>2, <1>t, <2>1, SMT DEF InOrder, NewRows, SessionAgrees, TypeOK, DataTypes
<1>5. /\ RowOf(sub[h])' = {row[h]}
      /\ \A s \in Sub \ {sub[h]} : RowOf(s)' = RowOf(s)
  <2>1. "absent" \notin LocalStatus
    BY DEF LocalStatus
  <2>2. RowOf(sub[h])' = {r \in Row : rowSub'[r] = sub[h] /\ rowStatus'[r] # "absent"}
    BY <1>2 DEF RowOf
  <2>3. ASSUME NEW r \in Row, rowSub'[r] = sub[h], rowStatus'[r] # "absent"
        PROVE  r = row[h]
    BY <1>1, <1>4, <2>3 DEF RowOf
  <2>4. ASSUME NEW s \in Sub \ {sub[h]} PROVE RowOf(s)' = RowOf(s)
    BY <1>4, SMT DEF RowOf
  <2> QED BY <1>0, <1>4, <2>1, <2>2, <2>3, <2>4
<1>6. Applied' = Applied \cup {ev[h]}
  BY <1>1, <1>2, <1>3, SMT DEF Applied, Session
<1>7. Working' = Working /\ h \in Working
  BY <1>0, <1>3, SMT DEF Working, Session
<1>8. OneByOne'
  BY <1>2, <1>7, SMT DEF InOrder, OneByOne
<1>9. OnlyWebhooks'
  BY <1>3, SubscriptionsConstants, SMT DEF InOrder, OnlyWebhooks, Session
<1>10. NewRows'
  <2>1. ASSUME NEW g \in Handler, phase'[g] \in Open PROVE rowStatus'[row'[g]] = "absent"
    <3>1. g # h /\ g \in Session /\ phase[g] \in Open /\ row'[g] = row[g]
      BY <1>3, <2>1, SMT DEF Session, Open
    <3>2. row[g] \in Row /\ row[g] # None /\ row[h] # None
      BY <1>0, <3>1, SubscriptionsConstants DEF Known, HandlersAgree, HandlerAgrees
    <3>3. g \in Writing /\ h \in Writing
      BY <1>0, <1>t, <3>1, <3>2 DEF Writing, Open
    <3>4. row[g] # row[h]
      BY <3>1, <3>3 DEF Known, TableInv, WritesApart
    <3>5. rowStatus[row[g]] = "absent"
      BY <3>1 DEF InOrder, NewRows
    <3> QED BY <1>4, <3>1, <3>2, <3>4, <3>5
  <2> QED BY <2>1 DEF NewRows
<1>11. \A e \in sent : e.sub \in Sub
  BY <1>t, SMT DEF TypeOK, DataTypes, Event
<1>12. \A e \in Applied : e.sub # sub[h]
  BY <1>1, SMT DEF InOrder, RowsOfCheckouts
<1>13. \A e \in sent : e.kind = "checkout" /\ e.sub = sub[h] => e = ev[h]
  BY <1>0, <1>1 DEF Known, EventsAgree, SubAgrees
<1>14. Applied \subseteq sent
  BY DEF Applied
<1>15. RowsOfCheckouts'
  <2>1. ASSUME NEW r \in Row, rowStatus'[r] # "absent" PROVE stripe[rowSub'[r]] # "none"
    <3>1. CASE r = row[h]
      BY <1>1, <1>4, <3>1, SMT DEF Known, TableInv, SentAgrees
    <3>2. CASE r # row[h]
      BY <1>4, <2>1, <3>2 DEF InOrder, RowsOfCheckouts
    <3> QED BY <3>1, <3>2
  <2>2. ASSUME NEW e \in Applied \cup {ev[h]} PROVE RowOf(e.sub)' # {}
    <3>1. CASE e = ev[h]
      BY <1>1, <1>2, <1>5, <3>1
    <3>2. CASE e # ev[h]
      <4>1. e \in Applied /\ e.sub \in Sub \ {sub[h]}
        BY <1>11, <1>12, <1>14, <2>2, <3>2
      <4>2. RowOf(e.sub) # {}
        BY <4>1 DEF InOrder, RowsOfCheckouts
      <4> QED BY <1>5, <4>1, <4>2
    <3> QED BY <3>1, <3>2
  <2>3. ASSUME NEW e \in sent, e \notin Applied, e # ev[h], e.kind = "checkout"
        PROVE  RowOf(e.sub)' = {}
    <3>1. e.sub \in Sub \ {sub[h]}
      BY <1>11, <1>13, <2>3
    <3>2. RowOf(e.sub) = {}
      BY <2>3 DEF InOrder, RowsOfCheckouts
    <3> QED BY <1>5, <3>1, <3>2
  <2> QED BY <1>2, <1>6, <2>1, <2>2, <2>3 DEF RowsOfCheckouts
<1>16. SeenAgrees'
  BY <1>2, <1>3, SMT DEF InOrder, SeenAgrees, Session, Open
<1>17. LastApplied'
  <2>1. ASSUME NEW e \in Applied \cup {ev[h]}, e.n = changes[e.sub], NEW r \in RowOf(e.sub)'
        PROVE  rowStatus'[r] = StatusMap[stripe[e.sub]]
    <3>1. CASE e = ev[h]
      <4>1. r = row[h]
        BY <1>1, <1>2, <1>5, <2>1, <3>1
      <4>2. seen[h] = StatusMap[stripe[sub[h]]]
        BY <1>0, <1>1, <2>1, <3>1, SMT DEF InOrder, SeenAgrees
      <4> QED BY <1>1, <1>4, <3>1, <4>1, <4>2
    <3>2. CASE e # ev[h]
      <4>1. e \in Applied /\ e.sub \in Sub \ {sub[h]}
        BY <1>11, <1>12, <1>14, <2>1, <3>2
      <4>2. r \in RowOf(e.sub)
        BY <1>5, <2>1, <4>1
      <4>3. r # row[h] /\ r \in Row
        BY <1>4, <4>2 DEF RowOf
      <4>4. rowStatus[r] = StatusMap[stripe[e.sub]]
        BY <2>1, <4>1, <4>2 DEF InOrder, LastApplied
      <4> QED BY <1>4, <4>3, <4>4
    <3> QED BY <3>1, <3>2
  <2> QED BY <1>2, <1>6, <2>1, SMT DEF LastApplied
<1> QED BY <1>8, <1>9, <1>10, <1>15, <1>16, <1>17 DEF InOrder

\* The calm is over for good when it is.
LEMMA CalmEnds == [Next]_vars /\ calm' => calm
<1> SUFFICES ASSUME [Next]_vars, calm' PROVE calm
  OBVIOUS
<1> QED
  BY Zenon
  DEF Next, vars, history, HandlerStep, SessionStep, Checkout, Change, Reconcile,
      Receive, Retrieve, Skip, Look, FindDeleted, CancelRow, Apply, ApplyThrows, Mark,
      HandlerThrows, UpdateRow, UpdateThrows, InsertRow, InsertConflict, Refresh, RefreshWaits,
      RefreshBeaten, Commit, CommitAborted, StartRefresh, TrialExpiry, Fail, Disturb, DisturbIf

\* Whatever does not end the calm keeps the order.
LEMMA StepInOrder == Known /\ InOrder /\ [Next]_vars /\ calm' => InOrder'
<1> SUFFICES ASSUME Known, InOrder, [Next]_vars, calm' PROVE InOrder'
  OBVIOUS
<1>t. TypeOK /\ \A h \in Session : SessionAgrees(h) /\ FoundRow(h)
  BY DEF Known, TableInv
<1>m. \A h \in Session : Moves(h) => InOrder'
  BY MovesKeeps
<1>o. /\ phase[Reconciler] = "idle"
      /\ \A h \in Session : phase[h] # "idle" => h # Reconciler
      /\ \A h \in Session : phase[h] # "aborted"
  BY DEF InOrder, OnlyWebhooks
<1>h. /\ Handler \subseteq Session /\ Refresher \in Session
      /\ Refresher \notin Handler /\ Refresher # Reconciler /\ Reconciler \notin Handler
      /\ \A h \in Session : h \in Handler \/ h = Reconciler \/ h = Refresher
  BY SubscriptionsConstants DEF Session
<1>1. ASSUME NEW s \in Sub, Checkout(s) \/ Change(s) PROVE InOrder'
  BY <1>1, CheckoutKeeps, ChangeKeeps
<1>2. ASSUME NEW s \in Sub, Reconcile(s) PROVE InOrder'
  BY <1>2, Zenon DEF Reconcile, Disturb
<1>3. ASSUME NEW h \in Handler, NEW e \in sent, Receive(h, e) PROVE InOrder'
  <2>1. ~OutOfOrder(h, e)
    BY <1>3, Zenon DEF Receive, DisturbIf
  <2> QED BY <1>3, <2>1, ReceiveKeeps
<1>4. ASSUME NEW h \in Handler, Retrieve(h) PROVE InOrder'
  <2>1. Moves(h)
    BY <1>4, <1>t, <1>h, SMT DEF Retrieve, Moves, PhaseTo, stripeVars, tableVars, TypeOK,
       DataTypes, Open
  <2> QED BY <1>h, <1>m, <2>1
<1>5. ASSUME NEW h \in Handler, Look(h) PROVE InOrder'
  <2>1. changes[sub[h]] = 0 => seen[h] = StatusMap[stripe[sub[h]]]
    BY <1>5, SMT DEF Look, InOrder, SeenAgrees
  <2>2. Moves(h)
    BY <1>5, <1>t, <1>h, <2>1, SMT DEF Look, Moves, PhaseTo, stripeVars, tableVars, TypeOK,
       DataTypes, Open
  <2> QED BY <1>h, <1>m, <2>2
<1>6. ASSUME NEW h \in Handler, FindDeleted(h) PROVE InOrder'
  <2>1. RowOf(sub[h]) # {}
    <3>1. ev[h].kind # "checkout" /\ phase[h] \notin {"idle", "marking"}
      BY <1>6, SMT DEF FindDeleted
    <3> QED BY <3>1, AtWork
  <2>2. Moves(h)
    BY <1>6, <1>t, <1>h, <2>1, SMT DEF FindDeleted, Moves, PhaseTo, stripeVars, tableVars,
       TypeOK, DataTypes, Open
  <2> QED BY <1>h, <1>m, <2>2
<1>7. ASSUME NEW h \in Handler, CancelRow(h) PROVE InOrder'
  <2>1. /\ phase[h] = "canceling" /\ rowSub[row[h]] = sub[h]
        /\ row[h] \in Row /\ rowStatus[row[h]] # "absent"
    BY <1>7, <1>t, <1>h, Zenon DEF CancelRow, FoundRow
  <2>2. ev[h].kind = "deleted"
    BY <2>1 DEF Known, HandlersAgree, HandlerAgrees
  <2>3. ev[h] \in sent /\ sub[h] = ev[h].sub /\ sub[h] \in Sub
    BY <2>1, AtWork
  <2>4. EventAgrees(ev[h])
    BY <2>3 DEF Known, EventsAgree
  <2>5. StatusMap["canceled"] = "canceled" /\ "canceled" \in LocalStatus
    BY SMT DEF StatusMap, LocalStatus
  <2>6. \A r \in RowOf(sub[h]) : r = row[h]
    BY <2>1, <2>3, SMT DEF Known, TableInv, OneRowEach, RowOf
  <2>7. \A r \in Row : rowStatus'[r] = IF r \in RowOf(sub[h]) THEN "canceled" ELSE rowStatus[r]
    <3>1. /\ rowStatus'[row[h]] = "canceled"
          /\ \A r \in Row \ {row[h]} : rowStatus'[r] = rowStatus[r]
      BY <1>7, <1>t, <2>1, CancelRowDoes, SMT DEF TypeOK, DataTypes
    <3>2. row[h] \in RowOf(sub[h])
      BY <2>1 DEF RowOf
    <3> QED BY <2>6, <3>1, <3>2
  <2>8. Says(h, "canceled")
    <3>1. ev[h].n = changes[sub[h]] => "canceled" = StatusMap[stripe[sub[h]]]
      BY <2>2, <2>3, <2>4, <2>5 DEF EventAgrees
    <3>2. \A g \in Session \ {h} : row'[g] = row[g]
      BY <1>7, <1>t, CancelRowDoes, SMT DEF TypeOK, DataTypes
    <3> QED BY <1>7, <2>1, <2>2, <2>5, <2>7, <3>1, <3>2, CancelRowDoes DEF Says, stripeVars
  <2> QED BY <2>8, SaysKeeps
<1>8. ASSUME NEW h \in Handler, Apply(h) PROVE InOrder'
  <2>1. phase[h] = "applying" /\ ev[h].kind # "deleted"
    BY <1>8, Zenon DEF Apply
  <2>2. ev[h].kind # "checkout"
    BY <2>1 DEF Known, HandlersAgree, HandlerAgrees
  <2>3. ev[h] \in sent /\ ev[h] \in Event /\ sub[h] = ev[h].sub /\ sub[h] \in Sub
    BY <1>t, <2>1, AtWork DEF TypeOK, DataTypes
  <2>4. EventAgrees(ev[h]) /\ NewStatus(ev[h]) \in LocalStatus
    BY <2>3, NewStatusType DEF Known, EventsAgree
  <2>5. StatusMap["past_due"] = "past_due"
    BY SMT DEF StatusMap
  <2>6. ev[h].n = changes[sub[h]] => NewStatus(ev[h]) = StatusMap[stripe[sub[h]]]
    BY <2>3, <2>4, <2>5 DEF EventAgrees, NewStatus
  <2>7. Says(h, NewStatus(ev[h]))
    <3>1. /\ phase' = [phase EXCEPT ![h] = "marking"]
          /\ rowStatus' = [r \in Row |-> IF r \in RowOf(sub[h]) THEN NewStatus(ev[h])
                                                               ELSE rowStatus[r]]
          /\ UNCHANGED <<stripe, changes, sent, processed, rowSub, ev, sub, seen, row>>
      BY <1>8, <2>3, Zenon DEF Apply, PhaseTo, stripeVars, jobVars
    <3> QED BY <2>1, <2>2, <2>4, <2>6, <3>1 DEF Says
  <2> QED BY <2>7, SaysKeeps
<1>9. ASSUME NEW h \in Session, Fail(h) PROVE InOrder'
  BY <1>9, Zenon DEF Fail, Disturb
<1>10. ASSUME NEW h \in Handler, Mark(h) PROVE InOrder'
  BY <1>10, MarkKeeps
<1>11. ASSUME NEW h \in Handler, Skip(h) PROVE InOrder'
  BY <1>11, Zenon DEF Skip, Disturb
<1>12. ASSUME NEW h \in Session, phase[h] \in {"inserting", "updating"}
       PROVE  h \in Handler /\ RowOf(sub[h]) = {} /\ sub[h] \in Sub
  <2>1. h \in Handler
    BY <1>12, <1>t, <1>o, <1>h, SMT DEF SessionAgrees, Open
  <2>2. ev[h].kind = "checkout"
    BY <1>12, <2>1 DEF Known, HandlersAgree, HandlerAgrees
  <2> QED BY <1>12, <2>1, <2>2, AtWork
<1>13. ASSUME NEW h \in Session, UpdateRow(h) PROVE InOrder'
  <2>1. phase[h] = "updating" /\ rowSub[row[h]] = sub[h]
    BY <1>13, Zenon DEF UpdateRow, DisturbIf
  <2>2. row[h] \in RowOf(sub[h])
    BY <1>t, <2>1 DEF FoundRow, RowOf
  <2> QED BY <1>12, <2>1, <2>2
<1>14. ASSUME NEW h \in Session, InsertConflict(h) PROVE InOrder'
  <2>1. phase[h] = "inserting" /\ RowOf(sub[h]) # {}
    BY <1>14, Zenon DEF InsertConflict, DisturbIf
  <2> QED BY <1>12, <2>1
<1>15. ASSUME NEW h \in Session, InsertRow(h) PROVE InOrder'
  <2>1. phase[h] = "inserting" /\ h \in Handler
    BY <1>12, <1>15 DEF InsertRow
  <2>2. changes[sub[h]] = 0 => seen[h] = StatusMap[stripe[sub[h]]]
    BY <2>1, SMT DEF InOrder, SeenAgrees
  <2>3. Moves(h)
    BY <1>15, <1>t, <1>h, <2>1, <2>2, SMT DEF InsertRow, Moves, PhaseTo, stripeVars,
       tableVars, TypeOK, DataTypes
  <2> QED BY <1>m, <2>3
<1>16. ASSUME NEW h \in Session, NEW place \in Open \ {"aborted"}, phase[h] \in Open,
              PhaseTo(h, place),
              UNCHANGED <<stripeVars, processed, rowSub, rowStatus, ev, sub, seen, row>>
       PROVE  InOrder'
  <2>1. h # Reconciler
    BY <1>o, <1>16 DEF Open
  <2>2. /\ phase'[h] = place /\ \A g \in Session \ {h} : phase'[g] = phase[g]
    BY <1>t, <1>16, SMT DEF PhaseTo, TypeOK, DataTypes
  <2>3. h \in Handler => /\ rowStatus[row[h]] = "absent"
                         /\ changes[sub[h]] = 0 => seen[h] = StatusMap[stripe[sub[h]]]
    BY <1>16 DEF InOrder, NewRows, SeenAgrees
  <2>4. Moves(h)
    BY <1>16, <2>1, <2>2, <2>3, SMT DEF Moves, stripeVars, Open
  <2> QED BY <1>m, <2>4
<1>17. ASSUME NEW h \in Session, Refresh(h) \/ RefreshWaits(h) PROVE InOrder'
  <2>1. /\ phase[h] \in Open
        /\ PhaseTo(h, "committing") \/ PhaseTo(h, "waiting")
        /\ UNCHANGED <<stripeVars, processed, rowSub, rowStatus, ev, sub, seen, row>>
    BY <1>17, Zenon DEF Refresh, RefreshWaits, Open, tableVars, jobVars
  <2> QED BY <1>16, <2>1 DEF Open
<1>18. ASSUME NEW h \in Session, RefreshBeaten(h) PROVE InOrder'
  <2>1. Entitled(h) \cap quota = {}
    BY <1>18, Zenon DEF RefreshBeaten, Disturb
  <2>2. /\ phase[h] = "beaten" /\ PhaseTo(h, "committing")
        /\ UNCHANGED <<stripeVars, processed, rowSub, rowStatus, ev, sub, seen, row>>
    BY <1>18, <2>1, Zenon DEF RefreshBeaten, tableVars
  <2> QED BY <1>16, <2>2 DEF Open
<1>19. ASSUME NEW h \in Session, Commit(h) PROVE InOrder'
  <2>1. CASE h \in Handler
    BY <1>19, <2>1, CheckoutCommits
  <2>2. CASE h = Refresher
    <3>1. row[h] = None
      BY <1>t, <2>2 DEF SessionAgrees
    <3>2. /\ phase' = Beaten(h)
          /\ seen' = [seen EXCEPT ![h] = None] /\ row' = [row EXCEPT ![h] = None]
          /\ ev' = [ev EXCEPT ![h] = None] /\ sub' = [sub EXCEPT ![h] = None]
          /\ UNCHANGED <<stripe, changes, sent, processed, rowSub, rowStatus>>
      BY <1>19, <1>h, <2>2, <3>1, SMT DEF Commit, Release, Forget, stripeVars
    <3>3. Moves(h)
      BY <1>t, <1>h, <2>2, <3>2, SMT DEF Moves, Beaten, AfterSession, TypeOK, DataTypes
    <3> QED BY <1>m, <3>3
  <2>3. CASE h = Reconciler
    BY <1>19, <1>o, <2>3 DEF Commit
  <2> QED BY <1>h, <2>1, <2>2, <2>3
<1>20. ASSUME NEW h \in Session, CommitAborted(h) PROVE InOrder'
  BY <1>o, <1>20 DEF CommitAborted
<1>21. ASSUME StartRefresh PROVE InOrder'
  <2>1. Moves(Refresher)
    BY <1>21, <1>t, <1>h, SMT DEF StartRefresh, Moves, PhaseTo, stripeVars, tableVars, jobVars,
       TypeOK, DataTypes
  <2> QED BY <1>h, <1>m, <2>1
<1>22. ASSUME TrialExpiry PROVE InOrder'
  BY <1>22, Zenon DEF TrialExpiry
<1>23. CASE UNCHANGED vars
  <2>1. phase[Refresher] # "aborted"
    BY <1>h, <1>o
  <2>2. Moves(Refresher)
    BY <1>23, <1>h, <2>1, SMT DEF vars, Moves, stripeVars, tableVars, jobVars
  <2> QED BY <1>h, <1>m, <2>2
<1>24. ASSUME NEW h \in Session, HandlerThrows(h) \/ ApplyThrows(h) \/ UpdateThrows(h)
       PROVE  InOrder'
  BY <1>9, <1>24 DEF HandlerThrows, ApplyThrows, UpdateThrows
<1> QED
  BY <1>h, <1>1, <1>2, <1>3, <1>4, <1>5, <1>6, <1>7, <1>8, <1>10, <1>11, <1>13, <1>14, <1>15,
     <1>17, <1>18, <1>19, <1>20, <1>21, <1>22, <1>23, <1>24
  DEF Next, HandlerStep, SessionStep

\* Before the first checkout nothing is out of order.
LEMMA InitInOrder == Init => InOrder
<1> SUFFICES ASSUME Init PROVE InOrder
  OBVIOUS
<1>1. Working = {} /\ Applied = {} /\ OnlyWebhooks
  BY SMT DEF Init, Working, Applied, OnlyWebhooks, Session
<1>2. OneByOne
  BY <1>1, SMT DEF Init, OneByOne
<1>3. NewRows /\ SeenAgrees
  BY SMT DEF Init, NewRows, SeenAgrees, Session, Open
<1>4. RowsOfCheckouts /\ LastApplied
  BY <1>1, SMT DEF Init, RowsOfCheckouts, LastApplied
<1> QED BY <1>1, <1>2, <1>3, <1>4 DEF InOrder

\* When all events are processed the last one was applied.
LEMMA OrderAgrees == Known /\ (calm => InOrder) => InOrderAgrees
<1> SUFFICES ASSUME Known, InOrder, NEW s \in Sub, stripe[s] # "none",
                    \A e \in sent : e.sub = s => e \in processed
             PROVE  \E r \in RowOf(s) : rowStatus[r] = StatusMap[stripe[s]]
  BY DEF InOrderAgrees
<1>1. PICK e \in sent : e.sub = s /\ e.n = changes[s]
  BY DEF Known, EventsAgree, SubAgrees
<1>2. e \in Applied
  BY <1>1 DEF Applied
<1>3. RowOf(s) # {}
  BY <1>1, <1>2 DEF InOrder, RowsOfCheckouts
<1>4. \A r \in RowOf(s) : rowStatus[r] = StatusMap[stripe[s]]
  BY <1>1, <1>2 DEF InOrder, LastApplied
<1> QED BY <1>3, <1>4

\* Once all events of a subscription have been processed in order and undisturbed
\* its row says what Stripe says, for any number of status changes, subscriptions
\* and webhooks that run at the same time.
THEOREM InOrderAgreesAlways == Spec => []InOrderAgrees
<1>1. Init => (calm => InOrder)
  BY InitInOrder
<1>2. Known /\ (calm => InOrder) /\ [Next]_vars => (calm => InOrder)'
  BY CalmEnds, StepInOrder
<1>3. TableInv /\ EventsAgree /\ HandlersAgree => Known
  BY DEF Known
<1>4. Known /\ (calm => InOrder) => InOrderAgrees
  BY OrderAgrees
<1> QED BY <1>1, <1>2, <1>3, <1>4, TableInvariant, EventsInvariant, PTL DEF Spec
=============================================================================
