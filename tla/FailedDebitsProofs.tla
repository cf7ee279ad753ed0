------------------------- MODULE FailedDebitsProofs -------------------------
(***************************************************************************)
(* What FailedDebits guarantees for any number of requests, accounts,      *)
(* overlapping passes and every combination of faults, and what it         *)
(* guarantees besides as long as no passes have overlapped and nothing has *)
(* failed between a debit and the record of it.                            *)
(***************************************************************************)
EXTENDS FailedDebits, TLAPS

-----------------------------------------------------------------------------
(* The inductive invariants *)

\* A pass at a row holds the lock of the row's account.
HoldsLock(q) ==
  /\ AtRow(q) => current[q] \in Request /\ lock[AccountOf[current[q]]] = q
  /\ ~AtRow(q) => current[q] = None

\* What a pass works on, or is going to, are rows; a debit it is about to
\* mark has been charged.
WorksOnRows(q) ==
  /\ \A r \in batch[q] : row[r] # "absent"
  /\ AtRow(q) => row[current[q]] # "absent"
  /\ phase[q] = "debited" => charged[current[q]] > 0

\* How far the handler is decides whether there is a row and a charge.
HandlerAgrees(r) ==
  /\ row[r] # "absent" => handler[r] = "recorded"
  /\ handler[r] \in {"answering", "debiting"} => charged[r] = 0
  /\ handler[r] = "settled" => charged[r] = 1
  /\ row[r] = "reconciled" => charged[r] > 0

FaultInv ==
  /\ TypeOK
  /\ \A q \in Reconciler : HoldsLock(q)
  /\ \A q \in Reconciler : WorksOnRows(q)
  /\ \A r \in Request : HandlerAgrees(r)

\* While there was no mishap, a pass that is under way is the only one.
Serial ==
  \A q1, q2 \in Reconciler : phase[q1] # "idle" /\ phase[q2] # "idle" => q1 = q2

\* Without overlap, what a pass selected is still pending when it gets there.
Undisturbed(q) ==
  /\ phase[q] = "idle" => batch[q] = {}
  /\ \A r \in batch[q] : row[r] = "pending" /\ current[q] # r
  /\ AtRow(q) => row[current[q]] = "pending"

\* Exactly-once charging, row by row.
Agrees(r) ==
  /\ charged[r] <= 1
  /\ handler[r] \in {"recording", "lost"} => charged[r] = 0
  /\ handler[r] = "recorded" =>
       (charged[r] = 1 <=> row[r] = "reconciled" \/ BeingMarked(r))
  /\ handler[r] = "recorded" => row[r] # "absent"

SerialInv ==
  /\ Serial
  /\ \A q \in Reconciler : Undisturbed(q)
  /\ \A r \in Request : Agrees(r)

-----------------------------------------------------------------------------
(* Every fault and every overlap *)

\* Nothing has failed at first.
LEMMA FaultInit == Init => FaultInv
BY FailedDebitsConstants
DEF Init, FaultInv, TypeOK, HoldsLock, WorksOnRows, HandlerAgrees, AtRow

\* A handler touches no pass, and gives no row or charge away.
LEMMA HandlerKeeps ==
  ASSUME FaultInv, NEW r \in Request,
         (HandlerStep(r) /\ UNCHANGED mishaps) \/ HandlerFault(r)
  PROVE  FaultInv'
<1> USE DEF FaultInv, TypeOK, HoldsLock, WorksOnRows, HandlerAgrees, AtRow,
            HandlerTo, Mishap, passVars
<1>1. CASE BeginDebit(r) /\ UNCHANGED mishaps BY <1>1 DEF BeginDebit
<1>2. CASE LiveDebitOk(r) /\ UNCHANGED mishaps
  BY <1>2, FailedDebitsConstants DEF LiveDebitOk, Charge
<1>3. CASE LiveDebitFails(r) /\ UNCHANGED mishaps BY <1>3 DEF LiveDebitFails
<1>4. CASE LiveDebitAckLost(r)
  BY <1>4, FailedDebitsConstants DEF LiveDebitAckLost, Charge
<1>5. CASE RecordFailedDebit(r) /\ UNCHANGED mishaps
  BY <1>5 DEF RecordFailedDebit
<1>6. CASE RecordLost(r) /\ UNCHANGED mishaps BY <1>6 DEF RecordLost
<1>7. CASE HandlerDies(r) BY <1>7 DEF HandlerDies
<1> QED BY <1>1, <1>2, <1>3, <1>4, <1>5, <1>6, <1>7
        DEF HandlerStep, HandlerFault

\* A pass takes only a free lock, releases only its own and marks only the
\* row it debited.
LEMMA PassKeeps ==
  ASSUME FaultInv, NEW q \in Reconciler,
         \/ PassStep(q) /\ UNCHANGED mishaps
         \/ SelectPending(q)
         \/ PassFault(q)
  PROVE  FaultInv'
<1> USE FailedDebitsConstants
    DEF FaultInv, TypeOK, HoldsLock, WorksOnRows, HandlerAgrees, AtRow, PhaseTo,
        Mishap
<1>1. CASE SelectPending(q) BY <1>1 DEF SelectPending, Pending
<1>2. ASSUME NEW r \in Request, LockAccount(q, r), UNCHANGED mishaps
      PROVE  FaultInv'
  BY <1>2 DEF LockAccount
<1>3. ASSUME NEW r \in Request, SkipRow(q, r), UNCHANGED mishaps
      PROVE  FaultInv'
  BY <1>3 DEF SkipRow
<1>4. CASE ReplayOk(q) /\ UNCHANGED mishaps BY <1>4 DEF ReplayOk, Charge
<1>5. CASE ReplayRefused(q) /\ UNCHANGED mishaps BY <1>5 DEF ReplayRefused
<1>6. CASE ReplayFails(q) /\ UNCHANGED mishaps
  BY <1>6 DEF ReplayFails, LeaveRow, Unlocked
<1>7. CASE ReplayAckLost(q)
  BY <1>7 DEF ReplayAckLost, Charge, LeaveRow, Unlocked
<1>8. CASE MarkRow(q) /\ UNCHANGED mishaps
  BY <1>8 DEF MarkRow, Outcome, LeaveRow, Unlocked
<1>9. CASE MarkFails(q) BY <1>9 DEF MarkFails, LeaveRow, Unlocked
<1>10. CASE EndPass(q) /\ UNCHANGED mishaps BY <1>10 DEF EndPass
<1>11. CASE PassDies(q) BY <1>11 DEF PassDies, Unlocked
<1> QED BY <1>1, <1>2, <1>3, <1>4, <1>5, <1>6, <1>7, <1>8, <1>9, <1>10, <1>11
        DEF PassStep, PassFault

\* The types, the locks and the link between handler, row and charge hold in
\* every behaviour, whatever the faults.
THEOREM FaultInvariant == Spec => []FaultInv
<1>1. FaultInv /\ UNCHANGED vars => FaultInv'
  BY DEF vars, FaultInv, TypeOK, HoldsLock, WorksOnRows, HandlerAgrees, AtRow
<1>2. FaultInv /\ [Next]_vars => FaultInv'
  BY <1>1, HandlerKeeps, PassKeeps DEF Next
<1> QED BY <1>2, FaultInit, PTL DEF Spec

\* The rows, the handlers and the passes keep their types.
THEOREM TypeOKAlways == Spec => []TypeOK
<1>1. FaultInv => TypeOK BY DEF FaultInv
<1> QED BY <1>1, FaultInvariant, PTL

\* Two passes never work on rows of one account at the same time.
THEOREM OnePassPerAccountAlways == Spec => []OnePassPerAccount
<1>1. FaultInv => OnePassPerAccount
  BY DEF FaultInv, HoldsLock, OnePassPerAccount
<1> QED BY <1>1, FaultInvariant, PTL

\* No debt is written off as paid.
THEOREM ReconciledWasChargedAlways == Spec => []ReconciledWasCharged
<1>1. FaultInv => ReconciledWasCharged
  BY DEF FaultInv, HandlerAgrees, ReconciledWasCharged
<1> QED BY <1>1, FaultInvariant, PTL

\* A live debit that succeeded is the request's only charge.
THEOREM SettledOnceAlways == Spec => []SettledOnce
<1>1. FaultInv => SettledOnce
  BY DEF FaultInv, TypeOK, HandlerAgrees, SettledOnce
<1> QED BY <1>1, FaultInvariant, PTL

-----------------------------------------------------------------------------
(* Before the first mishap *)

\* No invocation has started at first.
LEMMA SerialInit == Init => SerialInv
BY DEF Init, SerialInv, Serial, Undisturbed, Agrees, AtRow

\* A handler leaves the selected rows pending and the books in agreement.
LEMMA HandlerAgreesStill ==
  ASSUME FaultInv, SerialInv, NEW r \in Request, HandlerStep(r)
  PROVE  SerialInv'
<1> USE DEF Serial, FaultInv, SerialInv, TypeOK, HandlerAgrees, WorksOnRows,
            HoldsLock, Undisturbed, Agrees, AtRow, BeingMarked, HandlerTo, passVars
<1>1. CASE BeginDebit(r) BY <1>1 DEF BeginDebit
<1>2. CASE LiveDebitOk(r) BY <1>2, FailedDebitsConstants DEF LiveDebitOk, Charge
<1>3. CASE LiveDebitFails(r) BY <1>3 DEF LiveDebitFails
<1>4. CASE RecordFailedDebit(r) BY <1>4 DEF RecordFailedDebit
<1>5. CASE RecordLost(r) BY <1>5 DEF RecordLost
<1> QED BY <1>1, <1>2, <1>3, <1>4, <1>5 DEF HandlerStep

\* The pass charges only what is pending, and marks what it charged.
LEMMA PassAgreesStill ==
  ASSUME FaultInv, SerialInv, NEW q \in Reconciler,
         PassStep(q) \/ (SelectPending(q) /\ mishaps' = {})
  PROVE  SerialInv'
<1> USE FailedDebitsConstants
    DEF Serial, FaultInv, SerialInv, TypeOK, HandlerAgrees, HoldsLock, WorksOnRows,
        Undisturbed, Agrees, AtRow, BeingMarked, PhaseTo
<1>1. CASE SelectPending(q) /\ mishaps' = {}
  BY <1>1 DEF SelectPending, Pending, Mishap
<1>2. ASSUME NEW r \in Request, LockAccount(q, r) PROVE SerialInv'
  BY <1>2 DEF LockAccount
<1>3. ASSUME NEW r \in Request, SkipRow(q, r) PROVE SerialInv' BY <1>3 DEF SkipRow
<1>4. CASE ReplayOk(q) BY <1>4 DEF ReplayOk, Charge
<1>5. CASE ReplayRefused(q) BY <1>5 DEF ReplayRefused
<1>6. CASE ReplayFails(q) BY <1>6 DEF ReplayFails, LeaveRow, Unlocked
<1>7. CASE MarkRow(q) BY <1>7 DEF MarkRow, Outcome, LeaveRow, Unlocked
<1>8. CASE EndPass(q) BY <1>8 DEF EndPass
<1> QED BY <1>1, <1>2, <1>3, <1>4, <1>5, <1>6, <1>7, <1>8 DEF PassStep

\* Until passes have overlapped, or a lost COMMIT answer, a failing UPDATE or
\* a stop has come between a debit and its record, every request is charged
\* at most once and its row tells whether it was.
THEOREM BooksAgreeAlways == Spec => []BooksAgree
<1> DEFINE Books == mishaps = {} => SerialInv
<1>1. FaultInv /\ Books => BooksAgree
  BY DEF FaultInv, TypeOK, SerialInv, Agrees, BooksAgree
<1>2. Init => Books
  BY SerialInit
<1>3. FaultInv /\ Books /\ [Next]_vars => Books'
  <2> SUFFICES ASSUME FaultInv, Books, [Next]_vars, mishaps' = {}
               PROVE  SerialInv'
    OBVIOUS
  <2>1. CASE UNCHANGED vars
    BY <2>1 DEF vars, SerialInv, Serial, Undisturbed, Agrees, AtRow, BeingMarked
  <2>2. ASSUME NEW r \in Request, HandlerStep(r), UNCHANGED mishaps
        PROVE  SerialInv'
    BY <2>2, HandlerAgreesStill
  <2>3. ASSUME NEW r \in Request, HandlerFault(r) PROVE FALSE
    BY <2>3 DEF HandlerFault, LiveDebitAckLost, HandlerDies, Mishap
  <2>4. ASSUME NEW q \in Reconciler, PassStep(q), UNCHANGED mishaps
        PROVE  SerialInv'
    BY <2>4, PassAgreesStill
  <2>5. ASSUME NEW q \in Reconciler, SelectPending(q) PROVE SerialInv'
    <3>1. mishaps = {} BY <2>5 DEF SelectPending, Mishap
    <3> QED BY <2>5, <3>1, PassAgreesStill
  <2>6. ASSUME NEW q \in Reconciler, PassFault(q) PROVE FALSE
    BY <2>6 DEF PassFault, ReplayAckLost, MarkFails, PassDies, Mishap
  <2> QED BY <2>1, <2>2, <2>3, <2>4, <2>5, <2>6 DEF Next
<1> HIDE DEF Books
<1> QED BY <1>1, <1>2, <1>3, FaultInvariant, PTL DEF Spec
=============================================================================
