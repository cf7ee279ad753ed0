---------------------------- MODULE WalletLedger ----------------------------
(***************************************************************************)
(* What the AI Wallet promises, one database transaction per step: the     *)
(* rows of ai_wallet, ai_wallet_ledger and ai_wallet_topup, and how a      *)
(* committed debit, top-up, signup credit or cap change may move them.     *)
(* Module Wallet runs the same operations statement by statement.          *)
(*                                                                         *)
(* Money is in units of 0.000001 EUR, the scale of the ledger's amount_eur *)
(* numeric(12,6).  ai_wallet.balance_eur is numeric(12,4), so a stored     *)
(* balance is a multiple of Grain and every write to it is rounded.        *)
(* The ledger table is kept as what its readers take from it: for each     *)
(* month the sum of debits since the month began, the two totals, and the  *)
(* balance_after_eur of the newest row.                                    *)
(***************************************************************************)
EXTENDS Integers

CONSTANTS
  Account,       \* accounts
  PaymentIntent, \* Stripe wallet top-up payments
  PiAccount,     \* the account in the payment's metadata
  PiAmount,      \* the EUR amount in the payment's metadata
  Costs,         \* what one request may cost (costs <= 0 are never debited)
  Caps,          \* the values a monthly cap may be set to
  SignupCredit,  \* the promo credit of a new account
  NoCap,         \* monthly_cap_eur IS NULL
  MaxMonth       \* bound: the months a behaviour spans

Months == 1..MaxMonth
Grain  == 100

ASSUME LedgerConstants ==
  /\ MaxMonth \in Nat \ {0}
  /\ Costs \subseteq Nat \ {0}
  /\ Caps \subseteq Nat \ {0}
  /\ NoCap \notin Nat
  /\ SignupCredit \in Nat /\ SignupCredit % Grain = 0
  /\ PiAccount \in [PaymentIntent -> Account]
  /\ PiAmount \in [PaymentIntent -> Nat]
  /\ \A p \in PaymentIntent : PiAmount[p] % Grain = 0

VARIABLES
  exists,     \* accounts that have an ai_wallet row
  balance,    \* ai_wallet.balance_eur
  cap,        \* ai_wallet.monthly_cap_eur
  spentSince, \* debit rows with occurred_at >= the start of month m, summed
  debits,     \* all debit rows, summed
  debitRows,  \* how many debit rows there are
  credits,    \* all credit rows, summed
  after,      \* balance_after_eur of the newest ledger row, 0 without one
  topupRows,  \* credit rows written for each payment intent
  month       \* the month NOW() is in

ledgerVars == <<exists, balance, cap, spentSince, debits, debitRows, credits,
                after, topupRows, month>>

\* Mutant: the column truncates.
RoundToGrainDown(x) == (x \div Grain) * Grain

\* numeric(12,4) rounds half away from zero.
RoundToGrain(x) == ((x + (Grain \div 2)) \div Grain) * Grain

\* Spending that the calendar month m, and no other, accounts for.
SpentIn(a, m) ==
  spentSince[a][m] - (IF m = MaxMonth THEN 0 ELSE spentSince[a][m + 1])

-----------------------------------------------------------------------------
(* Committed effects: the rows one transaction leaves behind. *)

\* The ledger's sums gain a debit row of c dated month m.
DebitSums(a, c, m) ==
  /\ debits' = [debits EXCEPT ![a] = @ + c]
  /\ debitRows' = [debitRows EXCEPT ![a] = @ + 1]
  /\ spentSince' = [spentSince EXCEPT ![a] =
        [k \in Months |-> spentSince[a][k] + (IF k <= m THEN c ELSE 0)]]
  /\ UNCHANGED <<exists, cap, credits, topupRows, month>>

\* Mutant: the ledger row keeps the balance read before the UPDATE instead of
\* the one the UPDATE returned.
DebitRowStale(a, c, m, b) ==
  /\ balance' = [balance EXCEPT ![a] = b]
  /\ after' = [after EXCEPT ![a] = balance[a]]
  /\ DebitSums(a, c, m)

\* A usage debit of c dated month m, with the stored balance now b.
DebitRow(a, c, m, b) ==
  /\ balance' = [balance EXCEPT ![a] = b]
  /\ after' = [after EXCEPT ![a] = b]
  /\ DebitSums(a, c, m)

\* A credit of x, with the stored balance now b.
CreditRow(a, x, b) ==
  /\ exists' = exists \cup {a}
  /\ balance' = [balance EXCEPT ![a] = b]
  /\ after' = [after EXCEPT ![a] = b]
  /\ credits' = [credits EXCEPT ![a] = @ + x]
  /\ UNCHANGED <<cap, spentSince, debits, debitRows, month>>

\* A top-up also leaves its ai_wallet_topup row, unique per payment intent.
TopupRow(p, b) ==
  /\ CreditRow(PiAccount[p], PiAmount[p], b)
  /\ topupRows' = [topupRows EXCEPT ![p] = @ + 1]

-----------------------------------------------------------------------------
LedgerInit ==
  /\ exists = {}
  /\ balance = [a \in Account |-> 0]
  /\ cap = [a \in Account |-> NoCap]
  /\ spentSince = [a \in Account |-> [m \in Months |-> 0]]
  /\ debits = [a \in Account |-> 0]
  /\ debitRows = [a \in Account |-> 0]
  /\ credits = [a \in Account |-> 0]
  /\ after = [a \in Account |-> 0]
  /\ topupRows = [p \in PaymentIntent |-> 0]
  /\ month = 1

\* A debit needs the balance to cover it and, when a cap is set, the month
\* it is dated in to stay within the cap.
CommitDebit(a, c, m) ==
  /\ a \in exists
  /\ c <= balance[a]
  /\ m <= month
  /\ cap[a] # NoCap => SpentIn(a, m) + c <= cap[a]
  /\ DebitRow(a, c, m, RoundToGrain(balance[a] - c))

CommitTopup(p) ==
  /\ topupRows[p] = 0
  /\ TopupRow(p, balance[PiAccount[p]] + PiAmount[p])

CommitSignup(a) ==
  /\ a \notin exists
  /\ CreditRow(a, SignupCredit, SignupCredit)
  /\ UNCHANGED topupRows

\* POST /stripe/wallet-config, which creates a missing wallet with balance 0.
UpdateWalletConfig(a, k) ==
  /\ cap' = [cap EXCEPT ![a] = k]
  /\ exists' = exists \cup {a}
  /\ UNCHANGED <<balance, spentSince, debits, debitRows, credits, after,
                 topupRows, month>>

NextMonth ==
  /\ month < MaxMonth
  /\ month' = month + 1
  /\ UNCHANGED <<exists, balance, cap, spentSince, debits, debitRows, credits,
                 after, topupRows>>

LedgerNext ==
  \/ \E a \in Account, c \in Costs, m \in Months : CommitDebit(a, c, m)
  \/ \E p \in PaymentIntent : CommitTopup(p)
  \/ \E a \in Account : CommitSignup(a)
  \/ \E a \in Account, k \in Caps \cup {NoCap} : UpdateWalletConfig(a, k)
  \/ NextMonth

LedgerSpec == LedgerInit /\ [][LedgerNext]_ledgerVars
=============================================================================
