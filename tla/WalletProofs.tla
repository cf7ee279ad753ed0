---------------------------- MODULE WalletProofs ----------------------------
(***************************************************************************)
(* The AI Wallet's safety for every number of accounts, sessions, payment  *)
(* intents, costs, caps and months.  WalletInv, the facts a session has    *)
(* checked and its locks keep true, is the inductive strengthening.        *)
(*                                                                         *)
(* After it, what the auto-reload queue guarantees for any number of       *)
(* rows and consumers.  The queue's invariants hold under every fault; one *)
(* payment per row needs Stripe's answers and their record in the row to   *)
(* arrive.  Who leaves a row behind is known under every fault.            *)
(***************************************************************************)
EXTENDS Wallet, AutoReload, TLAPS

-----------------------------------------------------------------------------
(* The wallet *)

\* Rounding to the grain keeps a natural number natural and moves it by at
\* most half a grain.
LEMMA Rounding ==
  ASSUME NEW x \in Nat
  PROVE  /\ RoundToGrain(x) \in Nat
         /\ 2 * (RoundToGrain(x) - x) <= Grain
         /\ -Grain <= 2 * (RoundToGrain(x) - x)
BY DEF RoundToGrain, Grain

\* The initial state has the types and satisfies the session invariant.
LEMMA InitOK == WalletInit => TypeOK /\ WalletInv
BY LedgerConstants, WalletConstants
DEF WalletInit, LedgerInit, TypeOK, WalletInv, JobShape, LocksHeld, DebitChecked, WriteCurrent, JobOf, NoJob, Job, Months, Holding

\* Every step keeps the types.
LEMMA TypeStep == TypeOK /\ WalletInv /\ [WalletNext]_vars => TypeOK'
<1> SUFFICES ASSUME TypeOK, WalletInv, [WalletNext]_vars PROVE TypeOK'
  OBVIOUS
<1> USE LedgerConstants, WalletConstants
<1>a. ASSUME NEW s \in Session, EndSession(s), UNCHANGED ledgerVars PROVE TypeOK'
  BY <1>a DEF TypeOK, EndSession, Goto, ledgerVars, Job, JobOf, NoJob
<1>1. ASSUME NEW s \in Session, NEW a \in Account, NEW c \in Costs, BeginDebit(s, a, c)
      PROVE TypeOK'
  BY <1>1 DEF TypeOK, BeginDebit, Start, Goto, ledgerVars, Job, JobOf, NoJob, Months
<1>2. ASSUME NEW s \in Session, NEW p \in PaymentIntent, BeginTopup(s, p) PROVE TypeOK'
  BY <1>2 DEF TypeOK, BeginTopup, Start, Goto, ledgerVars, Job, JobOf, NoJob
<1>3. ASSUME NEW s \in Session, NEW a \in Account, BeginSignup(s, a) PROVE TypeOK'
  BY <1>3 DEF TypeOK, BeginSignup, Start, Goto, ledgerVars, Job, JobOf, NoJob
<1>4. ASSUME NEW s \in Session,
             \/ WalletNotFound(s) \/ RefuseBalance(s) \/ RefuseCap(s)
             \/ TopupExists(s) \/ SignupExists(s) \/ Rollback(s)
      PROVE TypeOK'
  BY <1>4, <1>a DEF WalletNotFound, RefuseBalance, RefuseCap, TopupExists,
     SignupExists, Rollback
<1>5. ASSUME NEW s \in Session, LockWallet(s) PROVE TypeOK'
  <2>1. job[s].account \in Account
    BY <1>5 DEF WalletInv, JobShape, LockWallet, At
  <2>2. cap[job[s].account] \in Caps \cup {NoCap} /\ job[s] \in Job
    BY <2>1 DEF TypeOK
  <2>3. [job[s] EXCEPT !.seenCap = cap[job[s].account]] \in Job
    BY <2>2 DEF Job
  <2>4. job' \in [Session -> Job]
    BY <1>5, <2>3 DEF TypeOK, LockWallet
  <2> QED
    BY <1>5, <2>1, <2>4 DEF TypeOK, LockWallet, LockRow, Goto, ledgerVars
<1>6. ASSUME NEW s \in Session, SumMonth(s) PROVE TypeOK'
  BY <1>6 DEF TypeOK, SumMonth, Goto, ledgerVars
<1>7. ASSUME NEW s \in Session, UpdateWallet(s) PROVE TypeOK'
  <2>1. /\ job[s].account \in Account
        /\ balance[job[s].account] - job[s].cost \in Nat
    <3>1. job[s].account \in Account /\ job[s].cost \in Costs
      BY <1>7 DEF WalletInv, JobShape, UpdateWallet, At
    <3>2. balance[job[s].account] \in Nat /\ job[s].cost \in Nat
      BY <3>1 DEF TypeOK
    <3> QED
      BY <1>7, <3>1, <3>2 DEF UpdateWallet
  <2>2. RoundToGrain(balance[job[s].account] - job[s].cost) \in Nat
    BY <2>1, Rounding
  <2> QED
    BY <1>7, <2>2 DEF TypeOK, UpdateWallet, Goto, ledgerVars
<1>8. ASSUME NEW s \in Session, CommitDebitJob(s) PROVE TypeOK'
  <2>1. job[s].account \in Account /\ job[s].cost \in Nat
    BY <1>8 DEF TypeOK, WalletInv, JobShape, CommitDebitJob, At, Job
  <2> QED
    BY <1>8, <2>1 DEF TypeOK, CommitDebitJob, DebitRow, DebitSums, EndSession, Goto, Job, JobOf, NoJob
<1>9. ASSUME NEW s \in Session, InsertTopup(s) PROVE TypeOK'
  BY <1>9 DEF TypeOK, WalletInv, JobShape, InsertTopup, Goto, ledgerVars, At
<1>10. ASSUME NEW s \in Session, UpsertWallet(s) PROVE TypeOK'
  BY <1>10 DEF TypeOK, WalletInv, JobShape, UpsertWallet, LockRow, Goto, ledgerVars, At
<1>11. ASSUME NEW s \in Session, CommitTopupJob(s) PROVE TypeOK'
  <2>1. job[s].pi \in PaymentIntent
    BY <1>11 DEF WalletInv, JobShape, CommitTopupJob, At
  <2> QED
    BY <1>11, <2>1 DEF TypeOK, CommitTopupJob, TopupRow, CreditRow, EndSession, Goto,
       Job, JobOf, NoJob
<1>12. ASSUME NEW s \in Session, SignupLook(s) PROVE TypeOK'
  BY <1>12 DEF TypeOK, SignupLook, Goto, ledgerVars
<1>13. ASSUME NEW s \in Session, SignupInsert(s) PROVE TypeOK'
  BY <1>13 DEF TypeOK, WalletInv, JobShape, SignupInsert, LockRow, Goto, ledgerVars, At
<1>14. ASSUME NEW s \in Session, CommitSignupJob(s) PROVE TypeOK'
  <2>1. job[s].account \in Account
    BY <1>14 DEF WalletInv, JobShape, CommitSignupJob, At
  <2> QED
    BY <1>14, <2>1 DEF TypeOK, CommitSignupJob, CreditRow, EndSession, Goto, Job, JobOf, NoJob
<1>15. ASSUME NEW a \in Account, NEW k \in Caps \cup {NoCap}, SetCap(a, k) PROVE TypeOK'
  BY <1>15 DEF TypeOK, SetCap, UpdateWalletConfig, sessionVars
<1>16. CASE Tick
  BY <1>16 DEF TypeOK, Tick, NextMonth, sessionVars, Months
<1>17. CASE UNCHANGED vars
  BY <1>17 DEF TypeOK, vars, ledgerVars
<1> QED
  BY <1>1, <1>2, <1>3, <1>4, <1>5, <1>6, <1>7, <1>8, <1>9, <1>10, <1>11, <1>12,
     <1>13, <1>14, <1>15, <1>16, <1>17
  DEF WalletNext, Begin, DebitStep, TopupStep, SignupStep

-----------------------------------------------------------------------------
\* A step of others leaves t alone: its job stays, and so do the row, the
\* payment intent and everything of the account it has locked.
Undisturbed(t) ==
  LET a == job[t].account
  IN  /\ job'[t] = job[t] /\ pc'[t] = pc[t] /\ newBalance'[t] = newBalance[t]
      /\ month' >= month
      /\ pc[t] \in Holding =>
           /\ rowLock'[a] = rowLock[a]
           /\ a \in exists <=> a \in exists'
           /\ balance'[a] = balance[a] /\ cap'[a] = cap[a]
           /\ spentSince'[a] = spentSince[a]
      /\ job[t].op = "topup" /\ pc[t] \in {"upserting", "updated"} =>
           /\ piLock'[job[t].pi] = piLock[job[t].pi]
           /\ topupRows'[job[t].pi] = topupRows[job[t].pi]

\* An undisturbed session stays valid.
LEMMA UndisturbedValid ==
  ASSUME TypeOK, TypeOK', WalletInv, NEW t \in Session, Undisturbed(t)
  PROVE  JobShape(t)' /\ LocksHeld(t)' /\ DebitChecked(t)' /\ WriteCurrent(t)'
<1>1. JobShape(t) /\ LocksHeld(t) /\ DebitChecked(t) /\ WriteCurrent(t)
  BY DEF WalletInv
<1>2. JobShape(t)'
  BY <1>1 DEF JobShape, Undisturbed, TypeOK, Months
<1>3. LocksHeld(t)'
  BY <1>1 DEF LocksHeld, Undisturbed, Holding
<1>4. DebitChecked(t)'
  BY <1>1 DEF DebitChecked, Undisturbed, Holding, WithinCap
<1>5. WriteCurrent(t)'
  BY <1>1 DEF WriteCurrent, Undisturbed, Holding
<1> QED
  BY <1>2, <1>3, <1>4, <1>5

\* Ending a session frees only what that session holds.
LEMMA EndSessionFrame ==
  ASSUME TypeOK, WalletInv, NEW s \in Session, NEW t \in Session, s # t, EndSession(s)
  PROVE  /\ job'[t] = job[t] /\ pc'[t] = pc[t] /\ newBalance'[t] = newBalance[t]
         /\ pc[t] \in Holding =>
              /\ rowLock[job[t].account] = t
              /\ rowLock'[job[t].account] = t
         /\ job[t].op = "topup" /\ pc[t] \in {"upserting", "updated"} =>
              /\ piLock[job[t].pi] = t
              /\ piLock'[job[t].pi] = t
<1>1. JobShape(t) /\ LocksHeld(t)
  BY DEF WalletInv
<1>2. /\ pc[t] \in Holding => job[t].account \in Account
      /\ job[t].op = "topup" => job[t].pi \in PaymentIntent
  BY <1>1 DEF JobShape, Holding
<1> QED
  BY <1>1, <1>2 DEF EndSession, Goto, TypeOK, LocksHeld

\* No step of a session disturbs another session.
LEMMA OthersUndisturbed ==
  ASSUME TypeOK, WalletInv, NEW s \in Session, NEW t \in Session, s # t,
         Begin(s) \/ DebitStep(s) \/ TopupStep(s) \/ SignupStep(s) \/ Rollback(s)
  PROVE  Undisturbed(t)
<1> USE LedgerConstants, WalletConstants
<1>0. /\ JobShape(t) /\ LocksHeld(t) /\ JobShape(s) /\ LocksHeld(s)
      /\ month \in Nat
  BY DEF WalletInv, TypeOK, Months
<1>a. /\ pc[t] \in Holding => job[t].account \in Account /\ rowLock[job[t].account] = t
      /\ job[t].op = "topup" /\ pc[t] \in {"upserting", "updated"} =>
           job[t].pi \in PaymentIntent /\ piLock[job[t].pi] = t
  BY <1>0 DEF JobShape, LocksHeld, Holding
<1>1. CASE Begin(s)
  BY <1>1, <1>0 DEF Begin, BeginDebit, BeginTopup, BeginSignup, Start, Goto, Undisturbed,
     ledgerVars, TypeOK
<1>2. CASE EndSession(s) /\ UNCHANGED ledgerVars
  BY <1>2, <1>0, EndSessionFrame DEF Undisturbed, ledgerVars
<1>3. CASE \/ WalletNotFound(s) \/ RefuseBalance(s) \/ RefuseCap(s)
           \/ TopupExists(s) \/ SignupExists(s) \/ Rollback(s)
  BY <1>2, <1>3 DEF WalletNotFound, RefuseBalance, RefuseCap, TopupExists,
     SignupExists, Rollback
<1>4. CASE LockWallet(s)
  BY <1>4, <1>0, <1>a DEF LockWallet, LockRow, Goto, Undisturbed, ledgerVars, TypeOK
<1>5. CASE SumMonth(s) \/ SignupLook(s)
  BY <1>5, <1>0 DEF SumMonth, SignupLook, Goto, Undisturbed, ledgerVars, TypeOK
<1>6. CASE UpdateWallet(s)
  BY <1>6, <1>0 DEF UpdateWallet, Goto, Undisturbed, ledgerVars, TypeOK
<1>7. CASE CommitDebitJob(s)
  <2>1. rowLock[job[s].account] = s
    BY <1>7, <1>0 DEF CommitDebitJob, LocksHeld, At, Holding
  <2>2. pc[t] \in Holding => job[t].account # job[s].account
    BY <2>1, <1>a
  <2> QED
    BY <1>7, <1>0, <1>a, <2>2, EndSessionFrame DEF CommitDebitJob, DebitRow, DebitSums, Undisturbed, TypeOK
<1>8. CASE InsertTopup(s)
  BY <1>8, <1>0, <1>a DEF InsertTopup, Goto, Undisturbed, ledgerVars, TypeOK
<1>9. CASE UpsertWallet(s)
  BY <1>9, <1>0, <1>a DEF UpsertWallet, LockRow, Goto, Undisturbed, ledgerVars, TypeOK
<1>10. CASE CommitTopupJob(s)
  <2>1. /\ rowLock[job[s].account] = s /\ piLock[job[s].pi] = s
        /\ job[s].account = PiAccount[job[s].pi]
    BY <1>10, <1>0 DEF CommitTopupJob, LocksHeld, JobShape, At, Holding
  <2>2. /\ pc[t] \in Holding => job[t].account # job[s].account
        /\ job[t].op = "topup" /\ pc[t] \in {"upserting", "updated"} => job[t].pi # job[s].pi
    BY <2>1, <1>a
  <2> QED
    BY <1>10, <1>0, <1>a, <2>1, <2>2, EndSessionFrame
    DEF CommitTopupJob, TopupRow, CreditRow, Undisturbed, TypeOK
<1>11. CASE SignupInsert(s)
  BY <1>11, <1>0, <1>a DEF SignupInsert, LockRow, Goto, Undisturbed, ledgerVars, TypeOK
<1>12. CASE CommitSignupJob(s)
  <2>1. rowLock[job[s].account] = s
    BY <1>12, <1>0 DEF CommitSignupJob, LocksHeld, At, Holding
  <2>2. pc[t] \in Holding => job[t].account # job[s].account
    BY <2>1, <1>a
  <2> QED
    BY <1>12, <1>0, <1>a, <2>2, EndSessionFrame
    DEF CommitSignupJob, CreditRow, Undisturbed, TypeOK
<1> QED
  BY <1>1, <1>3, <1>4, <1>5, <1>6, <1>7, <1>8, <1>9, <1>10, <1>11, <1>12
  DEF DebitStep, TopupStep, SignupStep

\* A session's own step leaves that session valid.
LEMMA OwnStepValid ==
  ASSUME TypeOK, TypeOK', WalletInv, NEW s \in Session,
         Begin(s) \/ DebitStep(s) \/ TopupStep(s) \/ SignupStep(s) \/ Rollback(s)
  PROVE  JobShape(s)' /\ LocksHeld(s)' /\ DebitChecked(s)' /\ WriteCurrent(s)'
<1> USE LedgerConstants, WalletConstants
<1> DEFINE Valid == JobShape(s) /\ LocksHeld(s) /\ DebitChecked(s) /\ WriteCurrent(s)
<1>0. Valid
  BY DEF WalletInv
<1>1. CASE Begin(s)
  <2>1. ASSUME NEW a \in Account, NEW c \in Costs, BeginDebit(s, a, c) PROVE Valid'
    BY <2>1 DEF BeginDebit, Start, Goto, JobOf, TypeOK, ledgerVars, Months,
       JobShape, LocksHeld, DebitChecked, WriteCurrent, Holding
  <2>2. ASSUME NEW p \in PaymentIntent, BeginTopup(s, p) PROVE Valid'
    BY <2>2 DEF BeginTopup, Start, Goto, JobOf, TypeOK, ledgerVars,
       JobShape, LocksHeld, DebitChecked, WriteCurrent, Holding
  <2>3. ASSUME NEW a \in Account, BeginSignup(s, a) PROVE Valid'
    BY <2>3 DEF BeginSignup, Start, Goto, JobOf, TypeOK, ledgerVars,
       JobShape, LocksHeld, DebitChecked, WriteCurrent, Holding
  <2> QED
    BY <1>1, <2>1, <2>2, <2>3 DEF Begin
<1>2. CASE EndSession(s)
  BY <1>2 DEF EndSession, Goto, NoJob, JobOf, TypeOK,
     JobShape, LocksHeld, DebitChecked, WriteCurrent, Holding
<1>3. CASE \/ WalletNotFound(s) \/ RefuseBalance(s) \/ RefuseCap(s)
           \/ TopupExists(s) \/ SignupExists(s) \/ Rollback(s)
           \/ CommitDebitJob(s) \/ CommitTopupJob(s) \/ CommitSignupJob(s)
  BY <1>2, <1>3 DEF WalletNotFound, RefuseBalance, RefuseCap, TopupExists, SignupExists,
     Rollback, CommitDebitJob, CommitTopupJob, CommitSignupJob
<1>4. CASE LockWallet(s)
  <2>1. /\ job[s].op = "debit" /\ pc[s] = "locking" /\ job[s].account \in Account
        /\ job[s].cost \in Costs /\ job[s].start \in 1..month
    BY <1>0, <1>4 DEF LockWallet, At, JobShape
  <2>2. /\ job'[s] = [job[s] EXCEPT !.seenCap = cap[job[s].account]]
        /\ pc'[s] = IF cap[job[s].account] = NoCap THEN "gated" ELSE "capped"
        /\ rowLock'[job[s].account] = s
    BY <1>4, <2>1 DEF LockWallet, LockRow, Goto, TypeOK
  <2>3. /\ job'[s].op = "debit" /\ job'[s].account = job[s].account
        /\ job'[s].cost = job[s].cost /\ job'[s].start = job[s].start
        /\ job'[s].seenCap = cap[job[s].account]
    BY <2>1, <2>2 DEF TypeOK, Job
  <2> QED
    BY <1>4, <2>1, <2>2, <2>3 DEF LockWallet, Affordable, ledgerVars,
       JobShape, LocksHeld, DebitChecked, WriteCurrent, Holding
<1>5. CASE SumMonth(s)
  BY <1>0, <1>5 DEF SumMonth, At, Goto, ledgerVars, TypeOK,
     JobShape, LocksHeld, DebitChecked, WriteCurrent, Holding, WithinCap
<1>6. CASE UpdateWallet(s)
  BY <1>0, <1>6 DEF UpdateWallet, At, Goto, ledgerVars, TypeOK,
     JobShape, LocksHeld, DebitChecked, WriteCurrent, Holding, WithinCap
<1>7. CASE InsertTopup(s)
  BY <1>0, <1>7 DEF InsertTopup, At, Goto, ledgerVars, TypeOK,
     JobShape, LocksHeld, DebitChecked, WriteCurrent, Holding
<1>8. CASE UpsertWallet(s)
  BY <1>0, <1>8 DEF UpsertWallet, LockRow, At, Goto, ledgerVars, TypeOK,
     JobShape, LocksHeld, DebitChecked, WriteCurrent, Holding
<1>9. CASE SignupLook(s)
  BY <1>0, <1>9 DEF SignupLook, At, Goto, ledgerVars, TypeOK,
     JobShape, LocksHeld, DebitChecked, WriteCurrent, Holding
<1>10. CASE SignupInsert(s)
  BY <1>0, <1>10 DEF SignupInsert, LockRow, At, Goto, ledgerVars, TypeOK,
     JobShape, LocksHeld, DebitChecked, WriteCurrent, Holding
<1> QED
  BY <1>1, <1>3, <1>4, <1>5, <1>6, <1>7, <1>8, <1>9, <1>10
  DEF DebitStep, TopupStep, SignupStep

\* An account without a wallet row keeps balance 0.
LEMMA NoRowNoBalance ==
  ASSUME TypeOK, WalletInv, [WalletNext]_vars
  PROVE  \A a \in Account : a \notin exists' => balance'[a] = 0
<1>1. ASSUME NEW s \in Session, CommitDebitJob(s)
      PROVE \A a \in Account : a \notin exists' => balance'[a] = 0
  <2>1. job[s].account \in exists
    BY <1>1 DEF WalletInv, DebitChecked, CommitDebitJob, At, Holding
  <2> QED
    BY <1>1, <2>1 DEF TypeOK, WalletInv, CommitDebitJob, DebitRow, DebitSums
<1>2. ASSUME NEW s \in Session, CommitTopupJob(s) \/ CommitSignupJob(s)
      PROVE \A a \in Account : a \notin exists' => balance'[a] = 0
  BY <1>2 DEF TypeOK, WalletInv, CommitTopupJob, CommitSignupJob, TopupRow, CreditRow
<1>3. ASSUME NEW a \in Account, NEW k \in Caps \cup {NoCap}, SetCap(a, k)
      PROVE \A b \in Account : b \notin exists' => balance'[b] = 0
  BY <1>3 DEF TypeOK, WalletInv, SetCap, UpdateWalletConfig
<1>4. CASE UNCHANGED <<exists, balance>>
  BY <1>4 DEF WalletInv
<1>5. ASSUME NEW s \in Session,
             \/ Begin(s) \/ Rollback(s) \/ WalletNotFound(s) \/ RefuseBalance(s)
             \/ LockWallet(s) \/ SumMonth(s) \/ RefuseCap(s) \/ UpdateWallet(s)
             \/ TopupExists(s) \/ InsertTopup(s) \/ UpsertWallet(s)
             \/ SignupExists(s) \/ SignupLook(s) \/ SignupInsert(s)
      PROVE UNCHANGED ledgerVars
  BY <1>5 DEF Begin, BeginDebit, BeginTopup, BeginSignup, Start, Rollback, WalletNotFound,
     RefuseBalance, LockWallet, SumMonth, RefuseCap, UpdateWallet, TopupExists,
     InsertTopup, UpsertWallet, SignupExists, SignupLook, SignupInsert
<1> QED
  BY <1>1, <1>2, <1>3, <1>4, <1>5 DEF WalletNext, DebitStep, TopupStep, SignupStep, Tick,
     NextMonth, vars, ledgerVars

\* WalletInv is inductive.
LEMMA InvStep == TypeOK /\ WalletInv /\ [WalletNext]_vars => WalletInv'
<1> SUFFICES ASSUME TypeOK, WalletInv, [WalletNext]_vars PROVE WalletInv'
  OBVIOUS
<1>0. TypeOK'
  BY TypeStep
<1>1. ASSUME NEW t \in Session
      PROVE  JobShape(t)' /\ LocksHeld(t)' /\ DebitChecked(t)' /\ WriteCurrent(t)'
  <2>1. ASSUME NEW s \in Session,
               Begin(s) \/ DebitStep(s) \/ TopupStep(s) \/ SignupStep(s) \/ Rollback(s)
        PROVE  JobShape(t)' /\ LocksHeld(t)' /\ DebitChecked(t)' /\ WriteCurrent(t)'
    <3>1. CASE s = t
      BY <1>0, <2>1, <3>1, OwnStepValid
    <3>2. CASE s # t
      BY <1>0, <2>1, <3>2, OthersUndisturbed, UndisturbedValid
    <3> QED
      BY <3>1, <3>2
  <2>2. ASSUME NEW a \in Account, NEW k \in Caps \cup {NoCap}, SetCap(a, k)
        PROVE  Undisturbed(t)
    <3>1. pc[t] \in Holding => job[t].account # a
      BY <2>2, WalletConstants DEF WalletInv, LocksHeld, SetCap
    <3> QED
      BY <2>2, <3>1 DEF SetCap, UpdateWalletConfig, sessionVars, Undisturbed, TypeOK, Months,
         WalletInv, JobShape, Holding
  <2>3. ASSUME Tick PROVE Undisturbed(t)
    BY <2>3 DEF Tick, NextMonth, sessionVars, Undisturbed, TypeOK, Months
  <2>4. ASSUME UNCHANGED vars PROVE Undisturbed(t)
    BY <2>4 DEF vars, ledgerVars, Undisturbed, TypeOK, Months
  <2> QED
    BY <1>0, <2>1, <2>2, <2>3, <2>4, UndisturbedValid DEF WalletNext
<1> QED
  BY <1>1, NoRowNoBalance DEF WalletInv

-----------------------------------------------------------------------------
\* Every state of the wallet has the types and keeps the session invariant:
\* no interleaving of debits, top-ups, signups and settings invalidates what
\* a transaction has checked before it commits.
THEOREM WalletInvariant == WalletSpec => [](TypeOK /\ WalletInv)
<1>1. WalletInit => TypeOK /\ WalletInv
  BY InitOK
<1>2. TypeOK /\ WalletInv /\ [WalletNext]_vars => (TypeOK /\ WalletInv)'
  BY TypeStep, InvStep
<1> QED
  BY <1>1, <1>2, PTL DEF WalletSpec

\* The UPDATE of a debit that passed its gates cannot fail the column's
\* CHECK (balance_eur >= 0).
THEOREM GateHoldsAlways == WalletSpec => []GateHolds
<1>1. WalletInv => GateHolds
  BY DEF WalletInv, DebitChecked, GateHolds, At, Holding
<1> QED
  BY <1>1, WalletInvariant, PTL

\* A month's own spending is part of what was spent since it began.
LEMMA SpentInBound ==
  ASSUME TypeOK, NEW a \in Account, NEW m \in Months
  PROVE  SpentIn(a, m) \in Int /\ SpentIn(a, m) <= spentSince[a][m]
<1>1. MaxMonth \in Nat /\ m \in Nat /\ m <= MaxMonth
  BY LedgerConstants DEF Months
<1>2. spentSince[a][m] \in Nat
  BY DEF TypeOK
<1>3. CASE m = MaxMonth
  BY <1>2, <1>3 DEF SpentIn
<1>4. CASE m # MaxMonth
  <2>1. m + 1 \in Months
    BY <1>1, <1>4 DEF Months
  <2>2. spentSince[a][m + 1] \in Nat
    BY <2>1 DEF TypeOK
  <2> QED
    BY <1>2, <1>4, <2>2 DEF SpentIn
<1> QED
  BY <1>3, <1>4

\* The debit a session commits is within its month's cap.
LEMMA CommitWithinCap ==
  ASSUME TypeOK, WalletInv, NEW s \in Session, CommitDebitJob(s)
  PROVE  CommitDebit(job[s].account, job[s].cost, job[s].start)
<1> USE LedgerConstants
<1>1. /\ JobShape(s) /\ DebitChecked(s) /\ WriteCurrent(s)
      /\ job[s].op = "debit" /\ pc[s] = "updated"
  BY DEF WalletInv, CommitDebitJob, At
<1>2. /\ job[s].account \in Account /\ job[s].cost \in Costs
      /\ job[s].start \in Months /\ job[s].start <= month
  BY <1>1 DEF JobShape, TypeOK, Months
<1>3. cap[job[s].account] # NoCap =>
        spentSince[job[s].account][job[s].start] + job[s].cost <= cap[job[s].account]
  BY <1>1 DEF DebitChecked, WithinCap, Holding
<1>4. /\ SpentIn(job[s].account, job[s].start) \in Int
      /\ SpentIn(job[s].account, job[s].start) <= spentSince[job[s].account][job[s].start]
  BY <1>2, SpentInBound
<1>5. /\ job[s].cost \in Nat
      /\ spentSince[job[s].account][job[s].start] \in Nat
      /\ cap[job[s].account] # NoCap => cap[job[s].account] \in Nat
  <2>1. Costs \subseteq Nat /\ Caps \subseteq Nat
    OBVIOUS
  <2>2. cap[job[s].account] \in Caps \cup {NoCap}
    BY <1>2 DEF TypeOK
  <2>3. spentSince[job[s].account] \in [Months -> Nat]
    BY <1>2 DEF TypeOK
  <2> QED
    BY <1>2, <2>1, <2>2, <2>3
<1>6. cap[job[s].account] # NoCap =>
        SpentIn(job[s].account, job[s].start) + job[s].cost <= cap[job[s].account]
  BY <1>3, <1>4, <1>5
<1>7. /\ job[s].account \in exists /\ job[s].cost <= balance[job[s].account]
      /\ newBalance[s] = RoundToGrain(balance[job[s].account] - job[s].cost)
  BY <1>1 DEF DebitChecked, WriteCurrent, Holding
<1> QED
  BY <1>2, <1>6, <1>7 DEF CommitDebit, CommitDebitJob

\* Every step is one step of the ledger or leaves it alone.
LEMMA StepRefines ==
  TypeOK /\ WalletInv /\ [WalletNext]_vars => [LedgerNext]_ledgerVars
<1> SUFFICES ASSUME TypeOK, WalletInv, [WalletNext]_vars PROVE [LedgerNext]_ledgerVars
  OBVIOUS
<1>1. ASSUME NEW s \in Session, CommitDebitJob(s) PROVE LedgerNext
  <2>1. /\ job[s].account \in Account /\ job[s].cost \in Costs /\ job[s].start \in Months
    BY <1>1, LedgerConstants DEF WalletInv, JobShape, CommitDebitJob, At, TypeOK, Months
  <2> QED
    BY <1>1, <2>1, CommitWithinCap DEF LedgerNext
<1>2. ASSUME NEW s \in Session, CommitTopupJob(s) PROVE LedgerNext
  <2>1. /\ job[s].pi \in PaymentIntent /\ topupRows[job[s].pi] = 0
        /\ newBalance[s] = balance[PiAccount[job[s].pi]] + PiAmount[job[s].pi]
    BY <1>2 DEF WalletInv, JobShape, LocksHeld, WriteCurrent, CommitTopupJob, At
  <2> QED
    BY <1>2, <2>1 DEF CommitTopupJob, CommitTopup, LedgerNext
<1>3. ASSUME NEW s \in Session, CommitSignupJob(s) PROVE LedgerNext
  <2>1. /\ job[s].account \in Account /\ job[s].account \notin exists
        /\ newBalance[s] = SignupCredit
    BY <1>3 DEF WalletInv, JobShape, WriteCurrent, CommitSignupJob, At
  <2> QED
    BY <1>3, <2>1 DEF CommitSignupJob, CommitSignup, LedgerNext
<1>4. ASSUME NEW a \in Account, NEW k \in Caps \cup {NoCap}, SetCap(a, k) PROVE LedgerNext
  BY <1>4 DEF SetCap, LedgerNext
<1>5. CASE Tick
  BY <1>5 DEF Tick, LedgerNext
<1>6. CASE UNCHANGED vars
  BY <1>6 DEF vars
<1>7. ASSUME NEW s \in Session,
             \/ Begin(s) \/ Rollback(s) \/ WalletNotFound(s) \/ RefuseBalance(s)
             \/ LockWallet(s) \/ SumMonth(s) \/ RefuseCap(s) \/ UpdateWallet(s)
             \/ TopupExists(s) \/ InsertTopup(s) \/ UpsertWallet(s)
             \/ SignupExists(s) \/ SignupLook(s) \/ SignupInsert(s)
      PROVE UNCHANGED ledgerVars
  BY <1>7 DEF Begin, BeginDebit, BeginTopup, BeginSignup, Start, Rollback, WalletNotFound,
     RefuseBalance, LockWallet, SumMonth, RefuseCap, UpdateWallet, TopupExists,
     InsertTopup, UpsertWallet, SignupExists, SignupLook, SignupInsert
<1> QED
  BY <1>1, <1>2, <1>3, <1>4, <1>5, <1>6, <1>7
  DEF WalletNext, DebitStep, TopupStep, SignupStep

\* The statement-by-statement wallet implements the ledger's promise.
THEOREM WalletImplementsLedger == WalletSpec => LedgerSpec
<1>1. WalletInit => LedgerInit
  BY DEF WalletInit
<1> QED
  BY <1>1, StepRefines, WalletInvariant, PTL DEF WalletSpec, LedgerSpec

\* The newest ledger row always records the wallet's balance.
THEOREM LedgerChainAlways == WalletSpec => []LedgerChain
<1>1. LedgerInit => LedgerChain
  BY DEF LedgerInit, LedgerChain
<1>2. TypeOK /\ LedgerChain /\ [LedgerNext]_ledgerVars => LedgerChain'
  <2> SUFFICES ASSUME TypeOK, LedgerChain, [LedgerNext]_ledgerVars PROVE LedgerChain'
    OBVIOUS
  <2>1. ASSUME NEW a \in Account, NEW c \in Costs, NEW m \in Months, CommitDebit(a, c, m)
        PROVE  LedgerChain'
    BY <2>1 DEF LedgerChain, CommitDebit, DebitRow
  <2>2. ASSUME NEW p \in PaymentIntent, CommitTopup(p) PROVE LedgerChain'
    BY <2>2 DEF LedgerChain, CommitTopup, TopupRow, CreditRow
  <2>3. ASSUME NEW a \in Account, CommitSignup(a) PROVE LedgerChain'
    BY <2>3 DEF LedgerChain, CommitSignup, CreditRow
  <2>4. ASSUME UNCHANGED <<balance, after>> PROVE LedgerChain'
    BY <2>4 DEF LedgerChain
  <2> QED
    BY <2>1, <2>2, <2>3, <2>4 DEF LedgerNext, ledgerVars, UpdateWalletConfig, NextMonth
<1> QED
  BY <1>1, <1>2, WalletInvariant, WalletImplementsLedger, PTL DEF LedgerSpec

\* No payment intent is ever credited twice.
THEOREM CreditedOnceAlways == WalletSpec => []CreditedOnce
<1>1. LedgerInit => CreditedOnce
  BY DEF LedgerInit, CreditedOnce
<1>2. TypeOK /\ CreditedOnce /\ [LedgerNext]_ledgerVars => CreditedOnce'
  BY DEF TypeOK, CreditedOnce, LedgerNext, ledgerVars, CommitDebit, CommitTopup, CommitSignup,
     UpdateWalletConfig, NextMonth, DebitRow, DebitSums, TopupRow, CreditRow
<1> QED
  BY <1>1, <1>2, WalletInvariant, WalletImplementsLedger, PTL DEF LedgerSpec

\* Rounding is the only drift between ledger and balance, and each debit
\* adds at most half a grain of it.
THEOREM DriftBoundedAlways == WalletSpec => []DriftBounded
<1>1. LedgerInit => DriftBounded
  <2> SUFFICES ASSUME LedgerInit, NEW a \in Account
               PROVE  LET drift == balance[a] - (credits[a] - debits[a])
                      IN  /\ 2 * drift <= Grain * debitRows[a]
                          /\ -(Grain * debitRows[a]) <= 2 * drift
    BY DEF DriftBounded
  <2>1. balance[a] = 0 /\ credits[a] = 0 /\ debits[a] = 0 /\ debitRows[a] = 0
    BY DEF LedgerInit
  <2> QED
    BY <2>1 DEF Grain
<1>2. TypeOK /\ WalletInv /\ DriftBounded /\ [LedgerNext]_ledgerVars => DriftBounded'
  <2> SUFFICES ASSUME TypeOK, WalletInv, DriftBounded, [LedgerNext]_ledgerVars
               PROVE  DriftBounded'
    OBVIOUS
  <2>1. ASSUME NEW a \in Account, NEW c \in Costs, NEW m \in Months, CommitDebit(a, c, m)
        PROVE  DriftBounded'
    <3>1. balance[a] - c \in Nat /\ c \in Nat
      BY <2>1, LedgerConstants DEF CommitDebit, TypeOK
    <3>2. /\ RoundToGrain(balance[a] - c) \in Nat
          /\ 2 * (RoundToGrain(balance[a] - c) - (balance[a] - c)) <= Grain
          /\ -Grain <= 2 * (RoundToGrain(balance[a] - c) - (balance[a] - c))
      BY <3>1, Rounding
    <3> QED
      BY <2>1, <3>1, <3>2 DEF CommitDebit, DebitRow, DebitSums, TypeOK, DriftBounded, Grain
  <2>2. ASSUME NEW p \in PaymentIntent, CommitTopup(p) PROVE DriftBounded'
    <3>1. PiAccount[p] \in Account /\ PiAmount[p] \in Nat
      BY LedgerConstants
    <3> QED
      BY <2>2, <3>1 DEF CommitTopup, TopupRow, CreditRow, TypeOK, DriftBounded, Grain
  <2>3. ASSUME NEW a \in Account, CommitSignup(a) PROVE DriftBounded'
    <3>1. balance[a] = 0 /\ SignupCredit \in Nat
      BY <2>3, LedgerConstants DEF CommitSignup, WalletInv
    <3> QED
      BY <2>3, <3>1 DEF CommitSignup, CreditRow, TypeOK, DriftBounded, Grain
  <2>4. ASSUME UNCHANGED <<balance, credits, debits, debitRows>> PROVE DriftBounded'
    BY <2>4 DEF DriftBounded
  <2> QED
    BY <2>1, <2>2, <2>3, <2>4 DEF LedgerNext, ledgerVars, UpdateWalletConfig, NextMonth
<1> QED
  BY <1>1, <1>2, WalletInvariant, WalletImplementsLedger, PTL DEF LedgerSpec

\* The monthly cap is a hard ceiling on each calendar month's spending.
THEOREM CapIsCeilingAlways == WalletSpec => CapIsCeiling
<1> DEFINE Ceiling == \A a \in Account, m \in Months :
       SpentIn(a, m)' > SpentIn(a, m) =>
         cap[a] = NoCap \/ SpentIn(a, m)' <= cap[a]
<1>1. TypeOK /\ [LedgerNext]_ledgerVars => Ceiling
  <2> SUFFICES ASSUME TypeOK, [LedgerNext]_ledgerVars, NEW a \in Account, NEW m \in Months,
                      SpentIn(a, m)' > SpentIn(a, m), cap[a] # NoCap
               PROVE  SpentIn(a, m)' <= cap[a]
    OBVIOUS
  <2>1. ASSUME spentSince' = spentSince PROVE FALSE
    <3>1. SpentIn(a, m)' = SpentIn(a, m)
      BY <2>1 DEF SpentIn
    <3> QED
      BY <3>1, SpentInBound
  <2>2. PICK b \in Account, c \in Costs, n \in Months : CommitDebit(b, c, n)
    BY <2>1 DEF LedgerNext, ledgerVars, CommitTopup, CommitSignup, TopupRow, CreditRow,
       UpdateWalletConfig, NextMonth
  <2>3. spentSince' = [spentSince EXCEPT ![b] =
          [k \in Months |-> spentSince[b][k] + (IF k <= n THEN c ELSE 0)]]
    BY <2>2 DEF CommitDebit, DebitRow, DebitSums
  <2>4. /\ MaxMonth \in Nat /\ c \in Nat /\ m \in 1..MaxMonth /\ n \in 1..MaxMonth
        /\ m # MaxMonth => m + 1 \in Months
        /\ \A k \in Months : spentSince[a][k] \in Nat
    <3>1. MaxMonth \in Nat /\ Costs \subseteq Nat
      BY LedgerConstants
    <3>2. m \in 1..MaxMonth /\ n \in 1..MaxMonth /\ (m # MaxMonth => m + 1 \in Months)
      BY <3>1 DEF Months
    <3>3. spentSince[a] \in [Months -> Nat]
      BY DEF TypeOK
    <3> QED
      BY <3>1, <3>2, <3>3
  <2>5. a = b
    BY <2>1, <2>3, <2>4 DEF SpentIn, TypeOK
  <2>6. \A k \in Months :
          spentSince'[a][k] = spentSince[a][k] + (IF k <= n THEN c ELSE 0)
    BY <2>3, <2>5 DEF TypeOK
  <2>7. SpentIn(a, m)' = SpentIn(a, m) + (IF m = n THEN c ELSE 0)
    <3>1. CASE m = MaxMonth
      BY <2>4, <2>6, <3>1 DEF SpentIn
    <3>2. CASE m # MaxMonth
      BY <2>4, <2>6, <3>2 DEF SpentIn
    <3> QED
      BY <3>1, <3>2
  <2>8. SpentIn(a, m) \in Int
    BY SpentInBound
  <2>9. m = n
    BY <2>7, <2>8
  <2> QED
    BY <2>2, <2>5, <2>7, <2>9 DEF CommitDebit
<1>2. TypeOK /\ WalletInv /\ [WalletNext]_vars => [Ceiling]_vars
  BY <1>1, StepRefines
<1> QED
  BY <1>2, WalletInvariant, PTL DEF WalletSpec, CapIsCeiling

-----------------------------------------------------------------------------
(* Auto-reload: the inductive invariants *)

\* Where a worker is in its batch says what it holds.
WorkerAgrees(w) ==
  /\ step[w] \in {"charging", "storing", "failing"} <=> at[w] # Unset
  /\ at[w] \notin claimed[w]
  /\ step[w] = "idle" => claimed[w] = {}

\* A held row has left the queue: nobody else can claim it.
HeldLeftQueue(w) ==
  \A r \in Holds(w) : status[r] \notin {"none", "pending"}

\* A queued row has an attempt left, and every enqueue comes from a debit.
Counts ==
  /\ \A r \in Row : status[r] = "none" => attempts[r] = 0
  /\ \A r \in Row : status[r] = "pending" => attempts[r] < MaxAttempts
  /\ debitRows \in [Account -> 0..DebitBound]
  /\ \A a \in Account : due[a] <= debitRows[a]

QueueInv ==
  /\ ReloadTypes
  /\ Counts
  /\ \A w \in Worker : WorkerAgrees(w)
  /\ \A w \in Worker : HeldLeftQueue(w)
  /\ WorkersDisjoint
  /\ OneActiveRow

\* A row with a payment that goes through will not be charged: it is neither
\* queued nor held by a worker that has yet to charge it or may requeue it.
ChargedIsOver(p) ==
  Charged(p) =>
    /\ piRow[p] \in Row
    /\ status[piRow[p]] \notin {"none", "pending"}
    /\ \A w \in Worker : piRow[p] \notin claimed[w]
    /\ \A w \in Worker : at[w] = piRow[p] => step[w] = "storing"

\* A row gets its payment intent when it is charged, and no other.
StoredLast ==
  /\ \A w \in Worker : \A r \in Holds(w) : piOf[r] = Unset
  /\ \A r \in Row : status[r] \in {"none", "pending"} => piOf[r] = Unset

PaymentInv ==
  /\ \A p \in PaymentIntent : ChargedIsOver(p)
  /\ StoredLast
  /\ \A p1, p2 \in PaymentIntent :
       Charged(p1) /\ Charged(p2) /\ piRow[p1] = piRow[p2] => p1 = p2
  /\ \A r \in Row : status[r] = "succeeded" =>
       piOf[r] # Unset /\ topupRows[piOf[r]] = 1
  /\ topupRows \in [PaymentIntent -> Nat]

-----------------------------------------------------------------------------
(* The queue, under every fault *)

\* The queue is empty at first.
LEMMA QueueInit == Init => QueueInv
<1> SUFFICES ASSUME Init PROVE QueueInv
  OBVIOUS
<1> USE AutoReloadConstants DEF Init, LedgerInit
<1>1. ReloadTypes
  <2>1. /\ due \in [Account -> 0..DebitBound]
        /\ attempts \in [Row -> 0..MaxAttempts]
    OBVIOUS
  <2>2. outcomeLost \in BOOLEAN OBVIOUS
  <2> QED BY <2>1, <2>2 DEF ReloadTypes
<1>2. Counts BY DEF Counts
<1>3. ASSUME NEW w \in Worker PROVE WorkerAgrees(w) /\ HeldLeftQueue(w)
  BY DEF WorkerAgrees, HeldLeftQueue, Holds
<1>4. WorkersDisjoint BY DEF WorkersDisjoint, Holds
<1>5. OneActiveRow BY DEF OneActiveRow, Active
<1> QED BY <1>1, <1>2, <1>3, <1>4, <1>5 DEF QueueInv

\* The steps of ai-api insert a row where the index allows it.
LEMMA WalletKeepsQueue ==
  ASSUME QueueInv, NEW a \in Account, WalletStep(a), UNCHANGED outcomeLost
  PROVE  QueueInv'
<1> USE AutoReloadConstants
    DEF QueueInv, ReloadTypes, WorkerAgrees, HeldLeftQueue, Holds, WorkersDisjoint,
        Counts, OneActiveRow, Active, ledgerVars, rowVars, stripeVars, workerVars
<1>1. CASE Signup(a) BY <1>1 DEF Signup, CommitSignup, CreditRow
<1>2. ASSUME NEW c \in Costs, Debit(a, c) PROVE QueueInv'
  BY <1>2 DEF Debit, CommitDebit, DebitRow, DebitSums
<1>3. CASE EnqueueConflict(a) BY <1>3 DEF EnqueueConflict
<1>4. ASSUME NEW r \in Row, Enqueue(a, r) PROVE QueueInv'
  BY <1>4 DEF Enqueue, IndexAllows
<1>5. CASE EnqueueLost(a) BY <1>5 DEF EnqueueLost
<1> QED BY <1>1, <1>2, <1>3, <1>4, <1>5 DEF WalletStep

\* A worker claims only queued rows, so none that another one holds, and
\* gives a row back to the queue only when it lets go of it.
LEMMA BatchKeepsQueue ==
  ASSUME QueueInv, NEW w \in Worker,
         \/ (BatchStep(w) \/ Stop(w)) /\ UNCHANGED outcomeLost
         \/ OutcomeLost(w)
  PROVE  QueueInv'
<1> USE AutoReloadConstants
    DEF QueueInv, ReloadTypes, WorkerAgrees, HeldLeftQueue, Holds, WorkersDisjoint,
        Counts, OneActiveRow, Active, ledgerVars, rowVars, stripeVars, workerVars, StepTo
<1>1. CASE ClaimBatch(w) /\ UNCHANGED outcomeLost
  BY <1>1 DEF ClaimBatch, PendingRows
<1>2. ASSUME NEW r \in Row, TakeRow(w, r), UNCHANGED outcomeLost
      PROVE  QueueInv'
  BY <1>2 DEF TakeRow
<1>3. CASE NotCharged(w) /\ UNCHANGED outcomeLost BY <1>3 DEF NotCharged
<1>4. ASSUME NEW p \in PaymentIntent, CreatePaymentIntent(w, p), UNCHANGED outcomeLost
      PROVE  QueueInv'
  BY <1>4 DEF CreatePaymentIntent, StripeMakes
<1>5. ASSUME NEW p \in PaymentIntent, Declined(w, p), UNCHANGED outcomeLost
      PROVE  QueueInv'
  BY <1>5 DEF Declined, StripeMakes
<1>6. CASE StorePaymentIntent(w) /\ UNCHANGED outcomeLost
  BY <1>6 DEF StorePaymentIntent, Done
<1>7. CASE MarkFailedOrRequeue(w) /\ UNCHANGED outcomeLost
  BY <1>7 DEF MarkFailedOrRequeue, AfterFailure, IndexAllows, Done
<1>8. CASE Abandon(w) /\ UNCHANGED outcomeLost BY <1>8 DEF Abandon
<1>9. ASSUME NEW p \in PaymentIntent, AnswerLost(w, p) PROVE QueueInv'
  BY <1>9 DEF AnswerLost, StripeMakes
<1>10. CASE StoreFails(w) BY <1>10 DEF StoreFails
<1> QED BY <1>1, <1>2, <1>3, <1>4, <1>5, <1>6, <1>7, <1>8, <1>9, <1>10
        DEF BatchStep, RequeueFails, EndBatch, Stop, OutcomeLost

\* A payment's outcome settles rows, and never queues one.
LEMMA StripeKeepsQueue ==
  ASSUME QueueInv, NEW p \in PaymentIntent, StripeStep(p), UNCHANGED outcomeLost
  PROVE  QueueInv'
<1> USE AutoReloadConstants
    DEF QueueInv, ReloadTypes, WorkerAgrees, HeldLeftQueue, Holds, WorkersDisjoint,
        Counts, OneActiveRow, Active, ledgerVars, rowVars, stripeVars, workerVars
<1>1. CASE Settle(p) BY <1>1 DEF Settle
<1>2. CASE Provision(p) BY <1>2 DEF Provision, SettleRows, CommitTopup, TopupRow, CreditRow
<1>3. CASE DeliverFailed(p) BY <1>3 DEF DeliverFailed
<1> QED BY <1>1, <1>2, <1>3 DEF StripeStep, DeliverSucceeded, ReconcileTopup

\* The queue's invariants hold in every behaviour, whatever the faults.
THEOREM QueueInvariant == Spec => []QueueInv
<1>1. QueueInv /\ UNCHANGED reloadVars => QueueInv'
  BY DEF reloadVars, rowVars, stripeVars, workerVars, QueueInv, ReloadTypes, WorkerAgrees,
         HeldLeftQueue, Holds, WorkersDisjoint, Counts, OneActiveRow, Active, ledgerVars
<1>2. QueueInv /\ [Next]_reloadVars => QueueInv'
  BY <1>1, WalletKeepsQueue, BatchKeepsQueue, StripeKeepsQueue
  DEF Next, OutcomeKept
<1> QED BY <1>2, QueueInit, PTL DEF Spec

\* No row is attempted more often than MAX_ATTEMPTS, and the queue keeps its
\* types.
THEOREM TypeOKAlways == Spec => []ReloadTypes
<1>1. QueueInv => ReloadTypes BY DEF QueueInv
<1> QED BY <1>1, QueueInvariant, PTL

\* Two consumers never hold one row.
THEOREM WorkersDisjointAlways == Spec => []WorkersDisjoint
<1>1. QueueInv => WorkersDisjoint BY DEF QueueInv
<1> QED BY <1>1, QueueInvariant, PTL

\* An account never has two active rows.
THEOREM OneActiveRowAlways == Spec => []OneActiveRow
<1>1. QueueInv => OneActiveRow BY DEF QueueInv
<1> QED BY <1>1, QueueInvariant, PTL

-----------------------------------------------------------------------------
(* Payments, until a charge's outcome is lost *)

\* No row is charged at first.
LEMMA PaymentInit == Init => PaymentInv
<1> SUFFICES ASSUME Init PROVE PaymentInv
  OBVIOUS
<1> USE AutoReloadConstants DEF Init, LedgerInit
<1>1. ASSUME NEW p \in PaymentIntent PROVE ~Charged(p)
  BY DEF Charged
<1>2. StoredLast BY DEF StoredLast, Holds
<1>3. topupRows \in [PaymentIntent -> Nat] OBVIOUS
<1> QED BY <1>1, <1>2, <1>3 DEF PaymentInv, ChargedIsOver

\* What the wallet does charges no row.
LEMMA WalletKeepsPayments ==
  ASSUME QueueInv, PaymentInv, NEW a \in Account, WalletStep(a)
  PROVE  PaymentInv'
<1> USE AutoReloadConstants
    DEF QueueInv, ReloadTypes, PaymentInv, ChargedIsOver, Charged, StoredLast, Holds,
        ledgerVars, rowVars, stripeVars, workerVars
<1>1. CASE Signup(a) BY <1>1 DEF Signup, CommitSignup
<1>2. ASSUME NEW c \in Costs, Debit(a, c) PROVE PaymentInv'
  BY <1>2 DEF Debit, CommitDebit, DebitRow, DebitSums
<1>3. CASE EnqueueConflict(a) BY <1>3 DEF EnqueueConflict
<1>4. ASSUME NEW r \in Row, Enqueue(a, r) PROVE PaymentInv'
  BY <1>4 DEF Enqueue
<1>5. CASE EnqueueLost(a) BY <1>5 DEF EnqueueLost
<1> QED BY <1>1, <1>2, <1>3, <1>4, <1>5 DEF WalletStep

\* A worker charges a row that has no payment, stores the payment before it
\* lets go of the row, and requeues only a row it has not charged.
LEMMA BatchKeepsPayments ==
  ASSUME QueueInv, PaymentInv, NEW w \in Worker, BatchStep(w) \/ Stop(w)
  PROVE  PaymentInv'
<1> USE AutoReloadConstants
    DEF QueueInv, ReloadTypes, WorkerAgrees, HeldLeftQueue, WorkersDisjoint,
        PaymentInv, ChargedIsOver, Charged, StoredLast, Holds,
        ledgerVars, rowVars, stripeVars, workerVars, StepTo
<1>1. CASE ClaimBatch(w)
  BY <1>1 DEF ClaimBatch, PendingRows
<1>2. ASSUME NEW r \in Row, TakeRow(w, r) PROVE PaymentInv'
  BY <1>2 DEF TakeRow
<1>3. CASE NotCharged(w) BY <1>3 DEF NotCharged
<1>4. ASSUME NEW p \in PaymentIntent, CreatePaymentIntent(w, p) PROVE PaymentInv'
  <2> USE <1>4 DEF CreatePaymentIntent, StripeMakes
  <2>1. /\ at[w] \in Row /\ status[at[w]] \notin {"none", "pending"}
        /\ \A v \in Worker : v # w => at[v] # at[w] /\ at[w] \notin claimed[v]
        /\ \A x \in PaymentIntent : Charged(x) => piRow[x] # at[w]
    OBVIOUS
  <2>2. ASSUME NEW x \in PaymentIntent PROVE ChargedIsOver(x)'
    BY <2>1
  <2>3. ASSUME NEW x \in PaymentIntent, NEW y \in PaymentIntent,
               Charged(x)', Charged(y)', piRow'[x] = piRow'[y]
        PROVE  x = y
    <3>1. piRow'[p] = at[w] OBVIOUS
    <3>2. ASSUME NEW z \in PaymentIntent, z # p, Charged(z)'
          PROVE  Charged(z) /\ piRow'[z] = piRow[z] /\ piRow[z] # at[w]
      <4>1. piState'[z] = piState[z] /\ piRow'[z] = piRow[z] BY <3>2
      <4> QED BY <3>2, <4>1, <2>1
    <3>3. CASE x = p \/ y = p BY <2>3, <3>1, <3>2, <3>3
    <3>4. CASE x # p /\ y # p BY <2>3, <3>2, <3>4
    <3> QED BY <3>3, <3>4
  <2>4. /\ piOf' = piOf /\ status' = status /\ topupRows' = topupRows
        /\ claimed' = claimed /\ at' = at
    OBVIOUS
  <2>5. StoredLast' BY <2>4
  <2> QED BY <2>2, <2>3, <2>4, <2>5
<1>5. ASSUME NEW p \in PaymentIntent, Declined(w, p) PROVE PaymentInv'
  BY <1>5 DEF Declined, StripeMakes
<1>6. CASE StorePaymentIntent(w)
  BY <1>6 DEF StorePaymentIntent, Done
<1>7. CASE MarkFailedOrRequeue(w)
  BY <1>7 DEF MarkFailedOrRequeue, AfterFailure, Done
<1>8. CASE Abandon(w) BY <1>8 DEF Abandon
<1> QED BY <1>1, <1>2, <1>3, <1>4, <1>5, <1>6, <1>7, <1>8
        DEF BatchStep, RequeueFails, EndBatch, Stop

\* What Stripe does to a payment credits the row it was made for.
LEMMA StripeKeepsPayments ==
  ASSUME QueueInv, PaymentInv, NEW p \in PaymentIntent, StripeStep(p)
  PROVE  PaymentInv'
<1> USE AutoReloadConstants
    DEF QueueInv, ReloadTypes, WorkerAgrees, HeldLeftQueue, WorkersDisjoint,
        PaymentInv, ChargedIsOver, Charged, StoredLast, Holds,
        ledgerVars, rowVars, stripeVars, workerVars
<1>1. CASE Settle(p) BY <1>1 DEF Settle
<1>2. CASE Provision(p)
  BY <1>2 DEF Provision, SettleRows, CommitTopup, TopupRow
<1>3. CASE DeliverFailed(p) BY <1>3 DEF DeliverFailed
<1> QED BY <1>1, <1>2, <1>3 DEF StripeStep, DeliverSucceeded, ReconcileTopup

\* Both payment properties, from one invariant that holds until a charge's
\* outcome is lost.
THEOREM PaymentInvariant == Spec => [](~outcomeLost => PaymentInv)
<1> DEFINE Kept == ~outcomeLost => PaymentInv
<1>1. Init => Kept BY PaymentInit
<1>2. QueueInv /\ Kept /\ [Next]_reloadVars => Kept'
  <2> SUFFICES ASSUME QueueInv, Kept, [Next]_reloadVars, ~outcomeLost'
               PROVE  PaymentInv'
    OBVIOUS
  <2>1. CASE UNCHANGED reloadVars
    BY <2>1 DEF reloadVars, ledgerVars, rowVars, stripeVars, workerVars, PaymentInv,
                ChargedIsOver, Charged, StoredLast, Holds
  <2>2. CASE OutcomeKept /\ UNCHANGED outcomeLost
    BY <2>2, WalletKeepsPayments, BatchKeepsPayments, StripeKeepsPayments
    DEF OutcomeKept
  <2>3. ASSUME NEW w \in Worker, OutcomeLost(w) PROVE FALSE
    BY <2>3 DEF OutcomeLost, AnswerLost, StoreFails
  <2> QED BY <2>1, <2>2, <2>3 DEF Next
<1> HIDE DEF Kept
<1> QED
  <2>1. Spec => []Kept BY <1>1, <1>2, QueueInvariant, PTL DEF Spec
  <2> QED BY <2>1 DEF Kept

\* Until a charge's outcome is lost, a row is paid for at most once.
THEOREM PaidOncePerRowAlways == Spec => []PaidOncePerRow
<1>1. (~outcomeLost => PaymentInv) => PaidOncePerRow
  BY DEF PaymentInv, PaidOncePerRow
<1> QED BY <1>1, PaymentInvariant, PTL

\* Until then, a row is settled as succeeded only with its credit.
THEOREM SucceededWasCreditedAlways == Spec => []SucceededWasCredited
<1>1. (~outcomeLost => PaymentInv) => SucceededWasCredited
  BY DEF PaymentInv, SucceededWasCredited
<1> QED BY <1>1, PaymentInvariant, PTL

-----------------------------------------------------------------------------
(* Rows that are left behind, under every fault *)

\* A worker has yet to store only an intent that Stripe has made.
MadeByStripe ==
  \A w \in Worker : step[w] = "storing" => /\ made[w] \in PaymentIntent
                                           /\ piState[made[w]] # "unused"

\* A payment is credited once at most.
TopupsOnce == topupRows \in [PaymentIntent -> {0, 1}]

IntentInv == MadeByStripe /\ TopupsOnce

\* No payment intent was made at first.
LEMMA IntentInit == Init => IntentInv
BY DEF Init, LedgerInit, IntentInv, MadeByStripe, TopupsOnce

\* Intents are made and credited, never unmade.
LEMMA StepKeepsIntents == ReloadTypes /\ IntentInv /\ [Next]_reloadVars => IntentInv'
<1> SUFFICES ASSUME ReloadTypes, IntentInv, [Next]_reloadVars PROVE IntentInv'
  OBVIOUS
<1> USE DEF ReloadTypes, IntentInv, MadeByStripe, TopupsOnce, ledgerVars, rowVars, stripeVars,
            workerVars
<1>1. CASE UNCHANGED reloadVars BY <1>1 DEF reloadVars
<1>2. ASSUME NEW a \in Account, WalletStep(a) PROVE IntentInv'
  BY <1>2 DEF WalletStep, Signup, CommitSignup, Debit, CommitDebit, DebitRow, DebitSums,
              EnqueueConflict, Enqueue, EnqueueLost
<1>3. ASSUME NEW w \in Worker, BatchStep(w) \/ Stop(w) \/ OutcomeLost(w)
      PROVE  IntentInv'
  <2> USE DEF StepTo
  <2>1. CASE \/ ClaimBatch(w) \/ \E r \in Row : TakeRow(w, r)
             \/ NotCharged(w) \/ Abandon(w)
    BY <2>1 DEF ClaimBatch, TakeRow, NotCharged, Abandon
  <2>2. ASSUME NEW p \in PaymentIntent,
               CreatePaymentIntent(w, p) \/ Declined(w, p) \/ AnswerLost(w, p)
        PROVE  IntentInv'
    BY <2>2 DEF CreatePaymentIntent, Declined, AnswerLost, StripeMakes
  <2>3. CASE StorePaymentIntent(w) \/ MarkFailedOrRequeue(w) \/ StoreFails(w)
    BY <2>3 DEF StorePaymentIntent, MarkFailedOrRequeue, StoreFails, Done
  <2> QED BY <1>3, <2>1, <2>2, <2>3
          DEF BatchStep, RequeueFails, EndBatch, Stop, OutcomeLost
<1>4. ASSUME NEW p \in PaymentIntent, StripeStep(p) PROVE IntentInv'
  <2>1. CASE Settle(p) BY <2>1 DEF Settle
  <2>2. CASE Provision(p) BY <2>2 DEF Provision, CommitTopup, TopupRow
  <2>3. CASE DeliverFailed(p) BY <2>3 DEF DeliverFailed
  <2> QED BY <1>4, <2>1, <2>2, <2>3 DEF StripeStep, DeliverSucceeded, ReconcileTopup
<1> QED BY <1>1, <1>2, <1>3, <1>4 DEF Next, OutcomeKept

\* The causes LeftBehindHasCause names.
Cause(r) ==
  \E w \in Worker :
    \/ r \in Holds(w) /\ step'[w] = "idle"
    \/ at[w] = r /\ step[w] = "storing" /\ topupRows[made[w]] = 1

\* Neither the wallet nor an enqueue makes a row one that is processed.
LEMMA WalletLeavesNone ==
  ASSUME ReloadTypes, NEW a \in Account, WalletStep(a),
         NEW r \in Row, LeftBehind(r)'
  PROVE  LeftBehind(r)
<1> USE DEF ReloadTypes, LeftBehind, Holds, ToSettle, Charged, ledgerVars, rowVars, stripeVars,
            workerVars
<1>1. CASE Signup(a) BY <1>1 DEF Signup, CommitSignup
<1>2. ASSUME NEW c \in Costs, Debit(a, c) PROVE LeftBehind(r)
  BY <1>2 DEF Debit, CommitDebit, DebitRow, DebitSums
<1>3. CASE EnqueueConflict(a) BY <1>3 DEF EnqueueConflict
<1>4. ASSUME NEW x \in Row, Enqueue(a, x) PROVE LeftBehind(r)
  BY <1>4 DEF Enqueue
<1>5. CASE EnqueueLost(a) BY <1>5 DEF EnqueueLost
<1> QED BY <1>1, <1>2, <1>3, <1>4, <1>5 DEF WalletStep

\* A payment's events come as long as its row is not settled, and settle it.
LEMMA StripeLeavesNone ==
  ASSUME ReloadTypes, IntentInv, NEW p \in PaymentIntent, StripeStep(p),
         NEW r \in Row, LeftBehind(r)'
  PROVE  LeftBehind(r)
<1> USE DEF ReloadTypes, IntentInv, TopupsOnce, LeftBehind, Holds, ToSettle, Charged, ledgerVars,
            rowVars, stripeVars, workerVars
<1>1. CASE Settle(p) BY <1>1 DEF Settle
<1>2. CASE Provision(p)
  BY <1>2 DEF Provision, SettleRows, CommitTopup, TopupRow
<1>3. CASE DeliverFailed(p) BY <1>3 DEF DeliverFailed
<1> QED BY <1>1, <1>2, <1>3 DEF StripeStep, DeliverSucceeded, ReconcileTopup

\* A worker lets go of a row that it has stored an uncredited payment for, or
\* that it has failed or requeued; else it has given it up.
LEMMA WorkerLeavesWithCause ==
  ASSUME QueueInv, IntentInv, NEW w \in Worker, BatchStep(w) \/ Stop(w) \/ OutcomeLost(w),
         NEW r \in Row, LeftBehind(r)', ~LeftBehind(r)
  PROVE  Cause(r)
<1> USE AutoReloadConstants
    DEF QueueInv, ReloadTypes, WorkerAgrees, IntentInv, MadeByStripe, TopupsOnce, LeftBehind,
        Holds, ToSettle, Charged, Cause, ledgerVars, rowVars, stripeVars, workerVars, StepTo
<1>1. CASE ClaimBatch(w)
  <2>1. PICK b \in SUBSET PendingRows :
          /\ claimed' = [claimed EXCEPT ![w] = b]
          /\ status' = [x \in Row |-> IF x \in b THEN "processing" ELSE status[x]]
    BY <1>1 DEF ClaimBatch
  <2>2. step[w] = "idle" /\ UNCHANGED <<piOf, piState, topupRows, at>>
    BY <1>1 DEF ClaimBatch
  <2>3. r \notin b
    <3>1. r \in b => r \in Holds(w)'
      BY <2>1
    <3> QED BY <3>1
  <2>4. status'[r] = status[r] /\ \A v \in Worker : r \in Holds(v) => r \in Holds(v)'
    BY <2>1, <2>2, <2>3
  <2> QED BY <2>2, <2>4
<1>2. ASSUME NEW x \in Row, TakeRow(w, x) PROVE Cause(r)
  BY <1>2 DEF TakeRow
<1>3. CASE NotCharged(w) BY <1>3 DEF NotCharged
<1>4. ASSUME NEW p \in PaymentIntent,
             CreatePaymentIntent(w, p) \/ Declined(w, p) \/ AnswerLost(w, p)
      PROVE  Cause(r)
  BY <1>4 DEF CreatePaymentIntent, Declined, AnswerLost, StripeMakes
<1>5. CASE StorePaymentIntent(w)
  <2>1. /\ at[w] \in Row /\ made[w] \in PaymentIntent /\ piState[made[w]] # "unused"
        /\ piOf' = [piOf EXCEPT ![at[w]] = made[w]]
        /\ UNCHANGED <<status, piState, topupRows, claimed>>
        /\ at' = [at EXCEPT ![w] = Unset] /\ step[w] = "storing"
    BY <1>5 DEF StorePaymentIntent, Done
  <2>2. CASE r = at[w]
    <3>0. piOf'[r] = made[w]
      BY <2>1, <2>2
    <3>1. ~ToSettle(made[w])
      <4>1. ~ToSettle(piOf'[r])
        BY <2>1
      <4> QED BY <3>0, <4>1
    <3>2. topupRows[made[w]] = 1
      BY <2>1, <3>1
    <3> QED BY <2>1, <2>2, <3>2
  <2>3. CASE r # at[w]
    <3>1. piOf'[r] = piOf[r] /\ \A v \in Worker : r \in Holds(v) => r \in Holds(v)'
      BY <2>1, <2>3
    <3> QED BY <2>1, <3>1
  <2> QED BY <2>2, <2>3
<1>6. CASE MarkFailedOrRequeue(w)
  BY <1>6 DEF MarkFailedOrRequeue, AfterFailure, Done
<1>7. CASE StoreFails(w) BY <1>7 DEF StoreFails
<1>8. CASE Abandon(w) BY <1>8 DEF Abandon
<1> QED BY <1>1, <1>2, <1>3, <1>4, <1>5, <1>6, <1>7, <1>8
        DEF BatchStep, RequeueFails, EndBatch, Stop, OutcomeLost

\* Whatever the faults, a row is left in processing by a worker that gave it
\* up, or by an event that came too early, and by nothing else.
THEOREM LeftBehindHasCauseAlways == Spec => LeftBehindHasCause
<1> DEFINE HasCause == \A r \in Row : LeftBehind(r)' /\ ~LeftBehind(r) => Cause(r)
<1>1. QueueInv /\ IntentInv /\ [Next]_reloadVars => IntentInv'
  BY StepKeepsIntents DEF QueueInv
<1>2. Spec => []IntentInv
  BY IntentInit, QueueInvariant, <1>1, PTL DEF Spec
<1>3. ASSUME QueueInv, IntentInv, Next PROVE HasCause
  <2> TAKE r \in Row
  <2> HAVE LeftBehind(r)' /\ ~LeftBehind(r)
  <2> QED
    BY <1>3, WalletLeavesNone, StripeLeavesNone, WorkerLeavesWithCause
    DEF Next, OutcomeKept, QueueInv
<1>4. QueueInv /\ IntentInv /\ [Next]_reloadVars => [HasCause]_reloadVars
  BY <1>3
<1>5. [HasCause]_reloadVars =>
        [\A r \in Row : LeftBehind(r)' /\ ~LeftBehind(r) =>
           \E w \in Worker :
             \/ r \in Holds(w) /\ step'[w] = "idle"
             \/ at[w] = r /\ step[w] = "storing" /\ topupRows[made[w]] = 1]_reloadVars
  BY DEF Cause
<1> QED
  BY QueueInvariant, <1>2, <1>4, <1>5, PTL DEF Spec, LeftBehindHasCause
=============================================================================
