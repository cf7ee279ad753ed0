---------------------------- MODULE FailedDebits ----------------------------
(***************************************************************************)
(* Charging an AI request after its answer went out, and replaying the     *)
(* debits that failed: the chat and knowledge-base handlers, the rows of   *)
(* ai_wallet_failed_debits, and reconcileFailedDebits as an administrator  *)
(* invokes it, possibly several times at once and on several servers.      *)
(*                                                                         *)
(* A debit is one atomic step here: module Wallet runs debitWallet         *)
(* statement by statement and WalletProofs shows it equivalent.  Which     *)
(* outcome a debit has depends on the wallet's balance and cap, which      *)
(* anything else may move at any time, so each outcome is possible.        *)
(***************************************************************************)
EXTENDS Naturals

CONSTANTS
  Request,    \* AI requests that cost money
  Account,    \* accounts
  AccountOf,  \* the account a request is charged to
  Reconciler, \* invocations of reconcileFailedDebits that may overlap
  None,       \* no request, no reconciler
  Faults,     \* the faults a behaviour may meet, of those below
  MaxCharges  \* bound: debits per request

\* The answer to a COMMIT lost, the status UPDATE failing after the debit,
\* the server stopping, a pass starting while another is under way.
AllFaults == {"ackLost", "markFails", "crash", "overlap"}

ASSUME FailedDebitsConstants ==
  /\ AccountOf \in [Request -> Account]
  /\ None \notin Request /\ None \notin Reconciler
  /\ Faults \subseteq AllFaults
  /\ MaxCharges \in Nat

VARIABLES
  charged, \* committed debits of each request
  row,     \* status of the request's ai_wallet_failed_debits row
  handler, \* where the request's handler is
  phase,   \* where each reconciler is
  batch,   \* the rows it selected and has not come to yet
  current, \* the row at hand
  lock,    \* the reconciler holding the account's advisory lock
  mishaps  \* history: the faults met so far

vars == <<charged, row, handler, phase, batch, current, lock, mishaps>>
passVars == <<phase, batch, current, lock>>

Init ==
  /\ charged = [r \in Request |-> 0]
  /\ row = [r \in Request |-> "absent"]
  /\ handler = [r \in Request |-> "answering"]
  /\ phase = [q \in Reconciler |-> "idle"]
  /\ batch = [q \in Reconciler |-> {}]
  /\ current = [q \in Reconciler |-> None]
  /\ lock = [a \in Account |-> None]
  /\ mishaps = {}

Mishap(f) == f \in Faults /\ mishaps' = mishaps \cup {f}

\* The debit transaction of r commits.
Charge(r) ==
  /\ charged[r] < MaxCharges
  /\ charged' = [charged EXCEPT ![r] = @ + 1]

-----------------------------------------------------------------------------
(* The handlers of chat.js and kb.js *)

HandlerTo(r, place) == handler' = [handler EXCEPT ![r] = place]

\* The answer has been streamed and the handler calls debitWallet.
BeginDebit(r) ==
  /\ handler[r] = "answering"
  /\ HandlerTo(r, "debiting")
  /\ UNCHANGED <<charged, row, passVars>>

LiveDebitOk(r) ==
  /\ handler[r] = "debiting"
  /\ Charge(r)
  /\ HandlerTo(r, "settled")
  /\ UNCHANGED <<row, passVars>>

\* debitWallet returned a 402 or threw without having committed.
LiveDebitFails(r) ==
  /\ handler[r] = "debiting"
  /\ HandlerTo(r, "recording")
  /\ UNCHANGED <<charged, row, passVars>>

\* The COMMIT took effect but its answer was lost: debitWallet throws.
LiveDebitAckLost(r) ==
  /\ Mishap("ackLost")
  /\ handler[r] = "debiting"
  /\ Charge(r)
  /\ HandlerTo(r, "recording")
  /\ UNCHANGED <<row, passVars>>

\* Mutant: the failure row is queued after a successful debit too.
RecordFailedDebitAlways(r) ==
  /\ handler[r] \in {"recording", "settled"}
  /\ row' = [row EXCEPT ![r] = "pending"]
  /\ HandlerTo(r, IF handler[r] = "settled" THEN "settled" ELSE "recorded")
  /\ UNCHANGED <<charged, passVars>>

RecordFailedDebit(r) ==
  /\ handler[r] = "recording"
  /\ row' = [row EXCEPT ![r] = "pending"]
  /\ HandlerTo(r, "recorded")
  /\ UNCHANGED <<charged, passVars>>

\* The INSERT fails too: the failure survives in the log only.
RecordLost(r) ==
  /\ handler[r] = "recording"
  /\ HandlerTo(r, "lost")
  /\ UNCHANGED <<charged, row, passVars>>

\* The server stops before the handler is through.
HandlerDies(r) ==
  /\ Mishap("crash")
  /\ handler[r] \in {"answering", "debiting", "recording"}
  /\ HandlerTo(r, "lost")
  /\ UNCHANGED <<charged, row, passVars>>

-----------------------------------------------------------------------------
(* reconcileFailedDebits *)

PhaseTo(q, place) == phase' = [phase EXCEPT ![q] = place]

\* Mutant: the SELECT forgets the status.
AnyRow == {r \in Request : row[r] # "absent"}

Pending == {r \in Request : row[r] = "pending"}

\* SELECT .. WHERE status = 'pending' .. LIMIT, before any lock is taken.
\* Ages are not modelled (the request may set minAgeMinutes to 0), so any
\* set of pending rows may be the oldest ones.
SelectPending(q) ==
  /\ phase[q] = "idle"
  /\ \E b \in SUBSET Pending :
       /\ b # {}
       /\ batch' = [batch EXCEPT ![q] = b]
  /\ IF \E o \in Reconciler \ {q} : phase[o] # "idle"
       THEN Mishap("overlap") ELSE UNCHANGED mishaps
  /\ PhaseTo(q, "looping")
  /\ UNCHANGED <<charged, row, handler, current, lock>>

\* Mutant: the lock is taken without looking at the answer.
LockAccountAnyway(q, r) ==
  /\ phase[q] = "looping" /\ r \in batch[q]
  /\ lock' = [lock EXCEPT ![AccountOf[r]] = q]
  /\ current' = [current EXCEPT ![q] = r]
  /\ batch' = [batch EXCEPT ![q] = @ \ {r}]
  /\ PhaseTo(q, "debiting")
  /\ UNCHANGED <<charged, row, handler>>

\* pg_try_advisory_lock answers true.
LockAccount(q, r) ==
  /\ phase[q] = "looping" /\ r \in batch[q]
  /\ lock[AccountOf[r]] = None
  /\ lock' = [lock EXCEPT ![AccountOf[r]] = q]
  /\ current' = [current EXCEPT ![q] = r]
  /\ batch' = [batch EXCEPT ![q] = @ \ {r}]
  /\ PhaseTo(q, "debiting")
  /\ UNCHANGED <<charged, row, handler>>

\* It answers false, or its query throws: the row is left for another pass.
SkipRow(q, r) ==
  /\ phase[q] = "looping" /\ r \in batch[q]
  /\ batch' = [batch EXCEPT ![q] = @ \ {r}]
  /\ UNCHANGED <<charged, row, handler, phase, current, lock>>

\* The finally block, or the end of the session: the lock goes.
Unlocked(q) == [a \in Account |-> IF lock[a] = q THEN None ELSE lock[a]]

LeaveRow(q) ==
  /\ lock' = Unlocked(q)
  /\ current' = [current EXCEPT ![q] = None]
  /\ PhaseTo(q, "looping")
  /\ UNCHANGED <<handler, batch>>

ReplayOk(q) ==
  /\ phase[q] = "debiting"
  /\ Charge(current[q])
  /\ PhaseTo(q, "debited")
  /\ UNCHANGED <<row, handler, batch, current, lock>>

\* 402 with "insufficient" or "not found" in its reason.
ReplayRefused(q) ==
  /\ phase[q] = "debiting"
  /\ PhaseTo(q, "refused")
  /\ UNCHANGED <<charged, row, handler, batch, current, lock>>

\* Any other 402, such as the monthly cap's, or an exception.
ReplayFails(q) ==
  /\ phase[q] = "debiting"
  /\ LeaveRow(q)
  /\ UNCHANGED <<charged, row>>

ReplayAckLost(q) ==
  /\ Mishap("ackLost")
  /\ phase[q] = "debiting"
  /\ Charge(current[q])
  /\ LeaveRow(q)
  /\ UNCHANGED row

\* Mutant: a refusal is marked as a success is.
OutcomeMuddled(q) == "reconciled"

\* The status the UPDATE sets.
Outcome(q) == IF phase[q] = "debited" THEN "reconciled" ELSE "waived"

\* UPDATE .. SET status WHERE id: whatever the status is by now.
MarkRow(q) ==
  /\ phase[q] \in {"debited", "refused"}
  /\ row' = [row EXCEPT ![current[q]] = Outcome(q)]
  /\ LeaveRow(q)
  /\ UNCHANGED charged

MarkFails(q) ==
  /\ Mishap("markFails")
  /\ phase[q] \in {"debited", "refused"}
  /\ LeaveRow(q)
  /\ UNCHANGED <<charged, row>>

\* The batch is through, or pool.connect throws out of the loop.
EndPass(q) ==
  /\ phase[q] = "looping"
  /\ PhaseTo(q, "idle")
  /\ batch' = [batch EXCEPT ![q] = {}]
  /\ UNCHANGED <<charged, row, handler, current, lock>>

\* The server stops: its sessions end and PostgreSQL drops their locks.
PassDies(q) ==
  /\ Mishap("crash")
  /\ phase[q] # "idle"
  /\ PhaseTo(q, "idle")
  /\ batch' = [batch EXCEPT ![q] = {}]
  /\ current' = [current EXCEPT ![q] = None]
  /\ lock' = Unlocked(q)
  /\ UNCHANGED <<charged, row, handler>>

-----------------------------------------------------------------------------
HandlerStep(r) ==
  \/ BeginDebit(r) \/ LiveDebitOk(r) \/ LiveDebitFails(r)
  \/ RecordFailedDebit(r) \/ RecordLost(r)

HandlerFault(r) == LiveDebitAckLost(r) \/ HandlerDies(r)

PassStep(q) ==
  \/ \E r \in Request : LockAccount(q, r) \/ SkipRow(q, r)
  \/ ReplayOk(q) \/ ReplayRefused(q) \/ ReplayFails(q)
  \/ MarkRow(q) \/ EndPass(q)

PassFault(q) == ReplayAckLost(q) \/ MarkFails(q) \/ PassDies(q)

Next ==
  \/ \E r \in Request : HandlerStep(r) /\ UNCHANGED mishaps
  \/ \E r \in Request : HandlerFault(r)
  \/ \E q \in Reconciler : PassStep(q) /\ UNCHANGED mishaps
  \/ \E q \in Reconciler : SelectPending(q) \/ PassFault(q)

Spec == Init /\ [][Next]_vars

-----------------------------------------------------------------------------
(* Properties *)

\* The types of the rows, the handlers and the passes.
TypeOK ==
  /\ charged \in [Request -> 0..MaxCharges]
  /\ row \in [Request -> {"absent", "pending", "reconciled", "waived"}]
  /\ handler \in [Request -> {"answering", "debiting", "recording", "recorded",
                              "settled", "lost"}]
  /\ phase \in [Reconciler -> {"idle", "looping", "debiting", "debited", "refused"}]
  /\ batch \in [Reconciler -> SUBSET Request]
  /\ current \in [Reconciler -> Request \cup {None}]
  /\ lock \in [Account -> Reconciler \cup {None}]
  /\ mishaps \subseteq Faults

AtRow(q) == phase[q] \in {"debiting", "debited", "refused"}

\* Two passes never work on rows of one account at the same time, also when
\* one of them dies and its lock is given away.
OnePassPerAccount ==
  \A q1, q2 \in Reconciler :
    AtRow(q1) /\ AtRow(q2) /\ AccountOf[current[q1]] = AccountOf[current[q2]]
      => q1 = q2

\* A row says reconciled only when its request has been charged: whatever
\* fails, crashes or overlaps, no debt is written off as paid.
ReconciledWasCharged ==
  \A r \in Request : row[r] = "reconciled" => charged[r] > 0

\* A request whose live debit succeeded is charged once and never queued
\* for replay, under every fault.
SettledOnce ==
  \A r \in Request : handler[r] = "settled" => charged[r] = 1 /\ row[r] = "absent"

\* The debit of r is committed and the UPDATE that says so is due.
BeingMarked(r) == \E q \in Reconciler : current[q] = r /\ phase[q] = "debited"

\* Exactly-once charging, as long as passes have run one at a time and
\* nothing has failed between a debit and the record of it: the row and the
\* wallet agree.
BooksAgree ==
  mishaps = {} => \A r \in Request :
    /\ charged[r] <= 1
    /\ handler[r] = "recorded" =>
         (charged[r] = 1 <=> row[r] = "reconciled" \/ BeingMarked(r))
    /\ handler[r] = "lost" => charged[r] = 0
=============================================================================
