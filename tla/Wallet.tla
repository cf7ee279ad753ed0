------------------------------- MODULE Wallet -------------------------------
(***************************************************************************)
(* The AI Wallet as the services run it: debitWallet (ai-api), the top-up  *)
(* transaction provisionWalletTopup (CMS webhook and nightly               *)
(* reconciliation) and the signup-credit hook, each one a PostgreSQL       *)
(* transaction whose statements interleave with everyone else's.           *)
(*                                                                         *)
(* A transaction's own writes stay in newBalance until COMMIT.  Two locks  *)
(* order the transactions: the ai_wallet row of the account (FOR UPDATE,   *)
(* or the row an UPDATE or INSERT .. ON CONFLICT writes) and the unique    *)
(* index entry of the payment intent a top-up inserts.                     *)
(***************************************************************************)
EXTENDS WalletLedger

CONSTANTS
  Session,  \* database sessions
  None,     \* no session, no account, no payment intent
  MaxDebits \* bound: debit rows per account

ASSUME WalletConstants ==
  /\ None \notin Session /\ None \notin Account /\ None \notin PaymentIntent
  /\ MaxDebits \in Nat

VARIABLES
  job,       \* what each session runs: its operation and arguments
  pc,        \* the statement each session is at
  newBalance,\* the uncommitted balance_eur a session has written
  rowLock,   \* the session holding the account's ai_wallet row
  piLock     \* the session that inserted the payment intent's top-up row

vars == <<ledgerVars, job, pc, newBalance, rowLock, piLock>>
sessionVars == <<job, pc, newBalance, rowLock, piLock>>

\* start: the month of the transaction's NOW(); seenCap: the cap it read.
Job == [op : {"none", "debit", "topup", "signup"}, account : Account \cup {None},
        pi : PaymentIntent \cup {None}, cost : Costs \cup {0},
        start : Months \cup {0}, seenCap : Caps \cup {NoCap}]

JobOf(o, a, p, c, m) == [op |-> o, account |-> a, pi |-> p, cost |-> c,
                         start |-> m, seenCap |-> NoCap]
NoJob == JobOf("none", None, None, 0, 0)

\* The statements at which a session holds the account's wallet row.
Holding == {"capped", "gated", "updated"}

WalletInit ==
  /\ LedgerInit
  /\ job = [s \in Session |-> NoJob]
  /\ pc = [s \in Session |-> "idle"]
  /\ newBalance = [s \in Session |-> 0]
  /\ rowLock = [a \in Account |-> None]
  /\ piLock = [p \in PaymentIntent |-> None]

-----------------------------------------------------------------------------
(* Session bookkeeping *)

Goto(s, label) == pc' = [pc EXCEPT ![s] = label]

Start(s, j, label) ==
  /\ pc[s] = "idle"
  /\ job' = [job EXCEPT ![s] = j]
  /\ Goto(s, label)
  /\ UNCHANGED <<ledgerVars, newBalance, rowLock, piLock>>

At(s, op, label) == job[s].op = op /\ pc[s] = label

\* COMMIT or ROLLBACK releases what the session holds.
EndSession(s) ==
  /\ Goto(s, "idle")
  /\ job' = [job EXCEPT ![s] = NoJob]
  /\ newBalance' = [newBalance EXCEPT ![s] = 0]
  /\ rowLock' = [a \in Account |-> IF rowLock[a] = s THEN None ELSE rowLock[a]]
  /\ piLock' = [p \in PaymentIntent |-> IF piLock[p] = s THEN None ELSE piLock[p]]

\* Any statement may fail or the connection drop: the transaction is undone.
Rollback(s) ==
  /\ pc[s] # "idle"
  /\ EndSession(s)
  /\ UNCHANGED ledgerVars

\* Mutant: a plain SELECT, which neither waits for the row nor keeps it.
LockRowNot(s, a) == UNCHANGED rowLock

LockRow(s, a) ==
  /\ rowLock[a] = None
  /\ rowLock' = [rowLock EXCEPT ![a] = s]

-----------------------------------------------------------------------------
(* debitWallet *)

BeginDebit(s, a, c) ==
  /\ debitRows[a] < MaxDebits
  /\ Start(s, JobOf("debit", a, None, c, month), "locking")

\* SELECT .. FOR UPDATE finds no row: 402, AI Wallet not found.
WalletNotFound(s) ==
  /\ At(s, "debit", "locking")
  /\ job[s].account \notin exists
  /\ EndSession(s)
  /\ UNCHANGED ledgerVars

Affordable(s) == 0 < balance[job[s].account] /\ job[s].cost <= balance[job[s].account]

\* SELECT .. FOR UPDATE, then the balance gate on what it returned: 402
\* when the balance does not cover the cost.
RefuseBalance(s) ==
  /\ At(s, "debit", "locking")
  /\ job[s].account \in exists
  /\ rowLock[job[s].account] = None
  /\ ~Affordable(s)
  /\ EndSession(s)
  /\ UNCHANGED ledgerVars

LockWallet(s) ==
  /\ At(s, "debit", "locking")
  /\ job[s].account \in exists
  /\ Affordable(s)
  /\ LockRow(s, job[s].account)
  /\ job' = [job EXCEPT ![s].seenCap = cap[job[s].account]]
  /\ Goto(s, IF cap[job[s].account] = NoCap THEN "gated" ELSE "capped")
  /\ UNCHANGED <<ledgerVars, newBalance, piLock>>

\* Mutant: the cap is compared with the sum before this debit.
WithinCapBefore(s) == spentSince[job[s].account][job[s].start] <= job[s].seenCap

\* SUM(amount_eur) of the debits since the transaction's month began.
WithinCap(s) ==
  spentSince[job[s].account][job[s].start] + job[s].cost <= job[s].seenCap

SumMonth(s) ==
  /\ At(s, "debit", "capped")
  /\ WithinCap(s)
  /\ Goto(s, "gated")
  /\ UNCHANGED <<ledgerVars, job, newBalance, rowLock, piLock>>

RefuseCap(s) ==
  /\ At(s, "debit", "capped")
  /\ ~WithinCap(s)
  /\ EndSession(s)
  /\ UNCHANGED ledgerVars

\* UPDATE ai_wallet SET balance_eur = balance_eur - cost.  The column's
\* CHECK (balance_eur >= 0) fails the statement on a negative result.
UpdateWallet(s) ==
  /\ At(s, "debit", "gated")
  /\ job[s].cost <= balance[job[s].account]
  /\ newBalance' = [newBalance EXCEPT ![s] =
        RoundToGrain(balance[job[s].account] - job[s].cost)]
  /\ Goto(s, "updated")
  /\ UNCHANGED <<ledgerVars, job, rowLock, piLock>>

\* INSERT INTO usage_events, INSERT INTO ai_wallet_ledger, COMMIT.
CommitDebitJob(s) ==
  /\ At(s, "debit", "updated")
  /\ DebitRow(job[s].account, job[s].cost, job[s].start, newBalance[s])
  /\ EndSession(s)

-----------------------------------------------------------------------------
(* provisionWalletTopup *)

BeginTopup(s, p) ==
  Start(s, JobOf("topup", PiAccount[p], p, 0, 0), "inserting")

\* ON CONFLICT (stripe_payment_intent_id) DO NOTHING: a committed row makes
\* the transaction a no-op, an uncommitted one makes it wait.
TopupExists(s) ==
  /\ At(s, "topup", "inserting")
  /\ piLock[job[s].pi] = None
  /\ topupRows[job[s].pi] > 0
  /\ EndSession(s)
  /\ UNCHANGED ledgerVars

\* Mutant: an INSERT without the unique constraint.
InsertTopupAgain(s) ==
  /\ At(s, "topup", "inserting")
  /\ piLock[job[s].pi] = None
  /\ piLock' = [piLock EXCEPT ![job[s].pi] = s]
  /\ Goto(s, "upserting")
  /\ UNCHANGED <<ledgerVars, job, newBalance, rowLock>>

InsertTopup(s) ==
  /\ At(s, "topup", "inserting")
  /\ piLock[job[s].pi] = None
  /\ topupRows[job[s].pi] = 0
  /\ piLock' = [piLock EXCEPT ![job[s].pi] = s]
  /\ Goto(s, "upserting")
  /\ UNCHANGED <<ledgerVars, job, newBalance, rowLock>>

\* INSERT .. ON CONFLICT (account_id) DO UPDATE SET balance_eur + EXCLUDED.
UpsertWallet(s) ==
  /\ At(s, "topup", "upserting")
  /\ LockRow(s, job[s].account)
  /\ newBalance' = [newBalance EXCEPT ![s] =
        balance[job[s].account] + PiAmount[job[s].pi]]
  /\ Goto(s, "updated")
  /\ UNCHANGED <<ledgerVars, job, piLock>>

CommitTopupJob(s) ==
  /\ At(s, "topup", "updated")
  /\ TopupRow(job[s].pi, newBalance[s])
  /\ EndSession(s)

-----------------------------------------------------------------------------
(* The signup credit of account.items.create, and the wallet settings *)

BeginSignup(s, a) == Start(s, JobOf("signup", a, None, 0, 0), "looking")

SignupExists(s) ==
  /\ At(s, "signup", "looking")
  /\ job[s].account \in exists
  /\ EndSession(s)
  /\ UNCHANGED ledgerVars

SignupLook(s) ==
  /\ At(s, "signup", "looking")
  /\ job[s].account \notin exists
  /\ Goto(s, "creating")
  /\ UNCHANGED <<ledgerVars, job, newBalance, rowLock, piLock>>

\* Mutant: the insert overwrites a wallet created since the look.
SignupInsertOver(s) ==
  /\ At(s, "signup", "creating")
  /\ LockRow(s, job[s].account)
  /\ newBalance' = [newBalance EXCEPT ![s] = SignupCredit]
  /\ Goto(s, "updated")
  /\ UNCHANGED <<ledgerVars, job, piLock>>

\* The INSERT waits for a concurrent insert of the same account; once that
\* commits, the unique violation rolls this transaction back (Rollback).
SignupInsert(s) ==
  /\ At(s, "signup", "creating")
  /\ job[s].account \notin exists
  /\ LockRow(s, job[s].account)
  /\ newBalance' = [newBalance EXCEPT ![s] = SignupCredit]
  /\ Goto(s, "updated")
  /\ UNCHANGED <<ledgerVars, job, piLock>>

CommitSignupJob(s) ==
  /\ At(s, "signup", "updated")
  /\ CreditRow(job[s].account, SignupCredit, newBalance[s])
  /\ UNCHANGED topupRows
  /\ EndSession(s)

\* One row, one transaction: it needs the row lock and changes only the cap.
SetCap(a, k) ==
  /\ rowLock[a] = None
  /\ UpdateWalletConfig(a, k)
  /\ UNCHANGED sessionVars

Tick == NextMonth /\ UNCHANGED sessionVars

-----------------------------------------------------------------------------
DebitStep(s) ==
  \/ WalletNotFound(s) \/ RefuseBalance(s) \/ LockWallet(s)
  \/ SumMonth(s) \/ RefuseCap(s) \/ UpdateWallet(s) \/ CommitDebitJob(s)

TopupStep(s) ==
  TopupExists(s) \/ InsertTopup(s) \/ UpsertWallet(s) \/ CommitTopupJob(s)

SignupStep(s) ==
  SignupExists(s) \/ SignupLook(s) \/ SignupInsert(s) \/ CommitSignupJob(s)

Begin(s) ==
  \/ \E a \in Account, c \in Costs : BeginDebit(s, a, c)
  \/ \E p \in PaymentIntent : BeginTopup(s, p)
  \/ \E a \in Account : BeginSignup(s, a)

WalletNext ==
  \/ \E s \in Session :
       Begin(s) \/ DebitStep(s) \/ TopupStep(s) \/ SignupStep(s) \/ Rollback(s)
  \/ \E a \in Account, k \in Caps \cup {NoCap} : SetCap(a, k)
  \/ Tick

WalletSpec == WalletInit /\ [][WalletNext]_vars

-----------------------------------------------------------------------------
(* Properties *)

\* The types of the wallet's rows and of the sessions.
TypeOK ==
  /\ exists \subseteq Account
  /\ balance \in [Account -> Nat]
  /\ cap \in [Account -> Caps \cup {NoCap}]
  /\ spentSince \in [Account -> [Months -> Nat]]
  /\ debits \in [Account -> Nat]
  /\ debitRows \in [Account -> Nat]
  /\ credits \in [Account -> Nat]
  /\ after \in [Account -> Nat]
  /\ topupRows \in [PaymentIntent -> Nat]
  /\ month \in Months
  /\ job \in [Session -> Job]
  /\ pc \in [Session -> {"idle", "locking", "capped", "gated", "updated",
                         "inserting", "upserting", "looking", "creating"}]
  /\ newBalance \in [Session -> Nat]
  /\ rowLock \in [Account -> Session \cup {None}]
  /\ piLock \in [PaymentIntent -> Session \cup {None}]

\* A session's statement belongs to its operation, and its arguments are set.
JobShape(s) ==
  /\ pc[s] = "idle" <=> job[s].op = "none"
  /\ pc[s] # "idle" => job[s].account \in Account
  /\ pc[s] \in {"locking", "capped", "gated"} => job[s].op = "debit"
  /\ pc[s] \in {"inserting", "upserting"} => job[s].op = "topup"
  /\ pc[s] \in {"looking", "creating"} => job[s].op = "signup"
  /\ job[s].op = "debit" => job[s].cost \in Costs /\ job[s].start \in 1..month
  /\ job[s].op = "topup" =>
       job[s].pi \in PaymentIntent /\ job[s].account = PiAccount[job[s].pi]

\* A session past its first write holds the wallet row, and a top-up past
\* its insert holds its payment intent.
LocksHeld(s) ==
  /\ pc[s] \in Holding => rowLock[job[s].account] = s
  /\ job[s].op = "topup" /\ pc[s] \in {"upserting", "updated"} =>
       piLock[job[s].pi] = s /\ topupRows[job[s].pi] = 0

\* What a debit's gates established still holds at its later statements.
DebitChecked(s) ==
  LET a == job[s].account
  IN  job[s].op = "debit" /\ pc[s] \in Holding =>
        /\ a \in exists
        /\ job[s].cost <= balance[a]
        /\ job[s].seenCap = cap[a]
        /\ pc[s] = "capped" => cap[a] # NoCap
        /\ pc[s] # "capped" /\ cap[a] # NoCap => WithinCap(s)

\* The balance a session has written is the committed one plus its change.
WriteCurrent(s) ==
  LET a == job[s].account
  IN  pc[s] = "updated" =>
        /\ job[s].op = "debit" => newBalance[s] = RoundToGrain(balance[a] - job[s].cost)
        /\ job[s].op = "topup" => newBalance[s] = balance[a] + PiAmount[job[s].pi]
        /\ job[s].op = "signup" => a \notin exists /\ newBalance[s] = SignupCredit

\* What each session's earlier statements established and its locks preserve.
WalletInv ==
  /\ \A s \in Session : JobShape(s)
  /\ \A s \in Session : LocksHeld(s)
  /\ \A s \in Session : DebitChecked(s)
  /\ \A s \in Session : WriteCurrent(s)
  /\ \A a \in Account : a \notin exists => balance[a] = 0

\* A session past its gates can always carry out its UPDATE: the balance it
\* checked is the balance it subtracts from, so the column's CHECK never
\* fails a debit that the gate let through.
GateHolds ==
  \A s \in Session : At(s, "debit", "gated") =>
    job[s].cost <= balance[job[s].account]

\* balance_after_eur of the newest ledger row is the wallet's balance: no
\* interleaving of debits, top-ups and signups loses an update.
LedgerChain == after = balance

\* The monthly cap is a hard ceiling (docs/tasks/cross-cutting/18): a step
\* that adds spending to a month leaves that month within the account's cap,
\* also when the month turns while the debit waits for the row.
CapIsCeiling ==
  [][\A a \in Account, m \in Months :
       SpentIn(a, m)' > SpentIn(a, m) =>
         cap[a] = NoCap \/ SpentIn(a, m)' <= cap[a]]_vars

\* A payment intent is credited at most once, however many webhook
\* deliveries and reconciliation passes provision it.
CreditedOnce == \A p \in PaymentIntent : topupRows[p] <= 1

\* Each debit moves the stored balance away from the ledger's by at most
\* half a grain: the rounding of numeric(12,4) is the only drift.
DriftBounded ==
  \A a \in Account :
    LET drift == balance[a] - (credits[a] - debits[a])
    IN  /\ 2 * drift <= Grain * debitRows[a]
        /\ -(Grain * debitRows[a]) <= 2 * drift
=============================================================================
