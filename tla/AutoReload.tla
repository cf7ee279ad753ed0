----------------------------- MODULE AutoReload -----------------------------
(***************************************************************************)
(* Auto-reload: a debit that leaves the wallet under the customer's        *)
(* threshold queues a row of wallet_auto_reload_pending, the CMS consumer  *)
(* charges the saved card for it, and Stripe's webhook (or the nightly     *)
(* reconciliation) credits the wallet and settles the row.                 *)
(*                                                                         *)
(* The wallet itself is WalletLedger's, one transaction per step.  Stripe  *)
(* is modelled from how the code uses it: a payment intent succeeds, fails *)
(* or stays in processing and settles later; its event may be delivered at *)
(* any time from then on, any number of times or, since the route answers  *)
(* 200 also when its handler fails, never.                                 *)
(***************************************************************************)
EXTENDS WalletLedger, FiniteSets

CONSTANTS
  Row,        \* rows of wallet_auto_reload_pending
  RowAccount, \* their account_id
  Worker,     \* CMS processes that run the consumer's cron
  Unset,      \* no payment intent, no row
  Threshold,  \* auto_reload_threshold_eur, of every account
  MaxAttempts,\* MAX_ATTEMPTS
  BatchSize,  \* BATCH_SIZE
  Faults,     \* the faults a behaviour may meet, of those below
  DebitBound  \* bound: debits per account

\* The enqueue after the debit's COMMIT failing; Stripe's answer to a charge
\* lost; the UPDATE that stores the payment intent failing; the UPDATE that
\* requeues the row failing; a CMS process stopping.
AllFaults == {"enqueueLost", "answerLost", "storeFails", "requeueFails", "stop"}

ASSUME AutoReloadConstants ==
  /\ RowAccount \in [Row -> Account]
  /\ Unset \notin PaymentIntent /\ Unset \notin Row
  /\ MaxAttempts \in Nat \ {0} /\ BatchSize \in Nat \ {0} /\ Threshold \in Nat
  /\ Faults \subseteq AllFaults
  /\ DebitBound \in Nat

VARIABLES
  due,     \* an account's committed debits whose enqueue is still to run
  status,  \* the row's status, "none" before it is inserted
  attempts,\* the row's attempts
  piOf,    \* the row's stripe_payment_intent_id
  piState, \* Stripe: the state of each payment intent
  piRow,   \* Stripe: metadata.auto_reload_pending_id
  claimed, \* the rows a worker has claimed and not come to yet
  at,      \* the row a worker is processing
  step,    \* where in processRow it is
  made,    \* the payment intent Stripe answered it with
  outcomeLost \* history: some charge's outcome has not reached its row

rowVars == <<status, attempts, piOf>>
stripeVars == <<piState, piRow>>
workerVars == <<claimed, at, step, made>>
reloadVars == <<ledgerVars, due, rowVars, stripeVars, workerVars, outcomeLost>>

Active(r) == status[r] \in {"pending", "processing"}

\* idx_auto_reload_pending_active_per_account, with r becoming active.
IndexAllows(r) ==
  \A x \in Row \ {r} : RowAccount[x] = RowAccount[r] => ~Active(x)

Init ==
  /\ LedgerInit
  /\ due = [a \in Account |-> 0]
  /\ status = [r \in Row |-> "none"]
  /\ attempts = [r \in Row |-> 0]
  /\ piOf = [r \in Row |-> Unset]
  /\ piState = [p \in PaymentIntent |-> "unused"]
  /\ piRow = [p \in PaymentIntent |-> Unset]
  /\ claimed = [w \in Worker |-> {}]
  /\ at = [w \in Worker |-> Unset]
  /\ step = [w \in Worker |-> "idle"]
  /\ made = [w \in Worker |-> Unset]
  /\ outcomeLost = FALSE

-----------------------------------------------------------------------------
(* ai-api: the wallet and the enqueue after a debit *)

Signup(a) ==
  /\ CommitSignup(a)
  /\ UNCHANGED <<due, rowVars, stripeVars, workerVars>>

\* The debit's COMMIT; the threshold is compared with the balance it left.
Debit(a, c) ==
  /\ debitRows[a] < DebitBound
  /\ CommitDebit(a, c, month)
  /\ due' = [due EXCEPT ![a] = @ + (IF balance'[a] < Threshold THEN 1 ELSE 0)]
  /\ UNCHANGED <<rowVars, stripeVars, workerVars>>

\* INSERT .. ON CONFLICT DO NOTHING, with an active row of the account.
EnqueueConflict(a) ==
  /\ due[a] > 0
  /\ \E r \in Row : RowAccount[r] = a /\ Active(r)
  /\ due' = [due EXCEPT ![a] = @ - 1]
  /\ UNCHANGED <<ledgerVars, rowVars, stripeVars, workerVars>>

\* Mutant: an INSERT without the partial unique index.
EnqueueAgain(a, r) ==
  /\ due[a] > 0
  /\ RowAccount[r] = a /\ status[r] = "none"
  /\ status' = [status EXCEPT ![r] = "pending"]
  /\ due' = [due EXCEPT ![a] = @ - 1]
  /\ UNCHANGED <<ledgerVars, attempts, piOf, stripeVars, workerVars>>

Enqueue(a, r) ==
  /\ due[a] > 0
  /\ RowAccount[r] = a /\ status[r] = "none"
  /\ IndexAllows(r)
  /\ status' = [status EXCEPT ![r] = "pending"]
  /\ due' = [due EXCEPT ![a] = @ - 1]
  /\ UNCHANGED <<ledgerVars, attempts, piOf, stripeVars, workerVars>>

\* The INSERT fails and is logged, or ai-api stops before it.
EnqueueLost(a) ==
  /\ "enqueueLost" \in Faults
  /\ due[a] > 0
  /\ due' = [due EXCEPT ![a] = @ - 1]
  /\ UNCHANGED <<ledgerVars, rowVars, stripeVars, workerVars>>

-----------------------------------------------------------------------------
(* CMS: processAutoReloadBatch, a tick of the cron at a time *)

StepTo(w, label) == step' = [step EXCEPT ![w] = label]

\* Mutant: the claim takes rows that are being processed too.
Claimable == {r \in Row : Active(r)}

PendingRows == {r \in Row : status[r] = "pending"}

\* One UPDATE claims a batch; FOR UPDATE SKIP LOCKED keeps it apart from
\* other workers' claims.
ClaimBatch(w) ==
  /\ step[w] = "idle"
  /\ \E b \in SUBSET PendingRows :
       /\ b # {} /\ Cardinality(b) <= BatchSize
       /\ claimed' = [claimed EXCEPT ![w] = b]
       /\ status' = [r \in Row |-> IF r \in b THEN "processing" ELSE status[r]]
       /\ attempts' = [r \in Row |-> IF r \in b THEN attempts[r] + 1 ELSE attempts[r]]
  /\ StepTo(w, "looping")
  /\ UNCHANGED <<ledgerVars, due, piOf, stripeVars, at, made>>

TakeRow(w, r) ==
  /\ step[w] = "looping" /\ r \in claimed[w]
  /\ claimed' = [claimed EXCEPT ![w] = @ \ {r}]
  /\ at' = [at EXCEPT ![w] = r]
  /\ StepTo(w, "charging")
  /\ UNCHANGED <<ledgerVars, due, rowVars, stripeVars, made>>

\* No customer, no default payment method, or Stripe does not answer and
\* has not charged.
NotCharged(w) ==
  /\ step[w] = "charging"
  /\ StepTo(w, "failing")
  /\ UNCHANGED <<ledgerVars, due, rowVars, stripeVars, claimed, at, made>>

\* Stripe makes a payment intent for the worker's row.
StripeMakes(w, p, state) ==
  /\ piState[p] = "unused"
  /\ PiAccount[p] = RowAccount[at[w]]
  /\ piState' = [piState EXCEPT ![p] = state]
  /\ piRow' = [piRow EXCEPT ![p] = at[w]]

CreatePaymentIntent(w, p) ==
  /\ step[w] = "charging"
  /\ \E state \in {"succeeded", "processing"} : StripeMakes(w, p, state)
  /\ made' = [made EXCEPT ![w] = p]
  /\ StepTo(w, "storing")
  /\ UNCHANGED <<ledgerVars, due, rowVars, claimed, at>>

\* The card is declined: create throws, and the intent stays with Stripe.
Declined(w, p) ==
  /\ step[w] = "charging"
  /\ StripeMakes(w, p, "failed")
  /\ StepTo(w, "failing")
  /\ UNCHANGED <<ledgerVars, due, rowVars, claimed, at, made>>

AnswerLost(w, p) ==
  /\ "answerLost" \in Faults
  /\ step[w] = "charging"
  /\ StripeMakes(w, p, "succeeded")
  /\ outcomeLost' = TRUE
  /\ StepTo(w, "failing")
  /\ UNCHANGED <<ledgerVars, due, rowVars, claimed, at, made>>

\* The worker is through with its row.
Done(w) ==
  /\ StepTo(w, "looping")
  /\ at' = [at EXCEPT ![w] = Unset]
  /\ made' = [made EXCEPT ![w] = Unset]
  /\ UNCHANGED claimed

\* Mutant: the row is settled as soon as Stripe has accepted the charge.
StorePaymentIntentSettling(w) ==
  /\ step[w] = "storing"
  /\ piOf' = [piOf EXCEPT ![at[w]] = made[w]]
  /\ status' = [status EXCEPT ![at[w]] = "succeeded"]
  /\ Done(w)
  /\ UNCHANGED <<ledgerVars, due, attempts, stripeVars>>

\* markPaymentIntentCreated: the row's status is left as it is.
StorePaymentIntent(w) ==
  /\ step[w] = "storing"
  /\ piOf' = [piOf EXCEPT ![at[w]] = made[w]]
  /\ Done(w)
  /\ UNCHANGED <<ledgerVars, due, status, attempts, stripeVars>>

\* The UPDATE throws, having taken effect or not, and the catch block
\* treats that as a failure to create the payment intent.
StoreFails(w) ==
  /\ "storeFails" \in Faults
  /\ step[w] = "storing"
  /\ piOf' \in {piOf, [piOf EXCEPT ![at[w]] = made[w]]}
  /\ outcomeLost' = TRUE
  /\ made' = [made EXCEPT ![w] = Unset]
  /\ StepTo(w, "failing")
  /\ UNCHANGED <<ledgerVars, due, status, attempts, stripeVars, claimed, at>>

\* Mutant: the last attempt goes into the error text, not into the status.
AfterFailureKept(r) == IF attempts[r] >= MaxAttempts THEN status[r] ELSE "pending"

AfterFailure(r) == IF attempts[r] >= MaxAttempts THEN "failed" ELSE "pending"

\* markFailedOrRequeue, by row id and whatever the row's status is by now.
MarkFailedOrRequeue(w) ==
  /\ step[w] = "failing"
  /\ AfterFailure(at[w]) = "pending" => IndexAllows(at[w])
  /\ status' = [status EXCEPT ![at[w]] = AfterFailure(at[w])]
  /\ Done(w)
  /\ UNCHANGED <<ledgerVars, due, attempts, piOf, stripeVars>>

Abandon(w) ==
  /\ StepTo(w, "idle")
  /\ claimed' = [claimed EXCEPT ![w] = {}]
  /\ at' = [at EXCEPT ![w] = Unset]
  /\ made' = [made EXCEPT ![w] = Unset]
  /\ UNCHANGED <<ledgerVars, due, rowVars, stripeVars>>

\* That UPDATE fails, or violates the unique index: it throws out of the
\* batch, and the rows not come to yet stay claimed.
RequeueFails(w) ==
  /\ step[w] = "failing"
  /\ "requeueFails" \in Faults \/ ~IndexAllows(at[w])
  /\ Abandon(w)

EndBatch(w) ==
  /\ step[w] = "looping" /\ claimed[w] = {}
  /\ Abandon(w)

\* The process stops: nobody knows of the rows it had claimed.
Stop(w) ==
  /\ "stop" \in Faults
  /\ step[w] # "idle"
  /\ Abandon(w)

-----------------------------------------------------------------------------
(* Stripe's payments, the webhook and the nightly reconciliation *)

\* A payment in processing is decided.
Settle(p) ==
  /\ piState[p] = "processing"
  /\ \E state \in {"succeeded", "failed"} : piState' = [piState EXCEPT ![p] = state]
  /\ UNCHANGED <<ledgerVars, due, rowVars, piRow, workerVars>>

\* UPDATE .. WHERE stripe_payment_intent_id = the payment intent.
SettleRows(p) ==
  status' = [r \in Row |-> IF piOf[r] = p THEN "succeeded" ELSE status[r]]

\* provisionWalletTopup, one transaction; a payment intent that has its
\* top-up row already is skipped before the row of the queue is looked at.
Provision(p) ==
  /\ piState[p] = "succeeded"
  /\ CommitTopup(p)
  /\ SettleRows(p)
  /\ UNCHANGED <<due, attempts, piOf, stripeVars, workerVars>>

DeliverSucceeded(p) == Provision(p)

\* The nightly look at the payments of the last 48 hours.
ReconcileTopup(p) == Provision(p)

\* handlePaymentIntentFailed
DeliverFailed(p) ==
  /\ piState[p] = "failed"
  /\ status' = [r \in Row |-> IF piOf[r] = p THEN "failed" ELSE status[r]]
  /\ UNCHANGED <<ledgerVars, due, attempts, piOf, stripeVars, workerVars>>

-----------------------------------------------------------------------------
BatchStep(w) ==
  \/ ClaimBatch(w)
  \/ \E r \in Row : TakeRow(w, r)
  \/ NotCharged(w)
  \/ \E p \in PaymentIntent : CreatePaymentIntent(w, p) \/ Declined(w, p)
  \/ StorePaymentIntent(w)
  \/ MarkFailedOrRequeue(w) \/ RequeueFails(w) \/ EndBatch(w)

OutcomeLost(w) == (\E p \in PaymentIntent : AnswerLost(w, p)) \/ StoreFails(w)

WalletStep(a) ==
  \/ Signup(a)
  \/ \E c \in Costs : Debit(a, c)
  \/ EnqueueConflict(a)
  \/ \E r \in Row : Enqueue(a, r)
  \/ EnqueueLost(a)

StripeStep(p) ==
  Settle(p) \/ DeliverSucceeded(p) \/ DeliverFailed(p) \/ ReconcileTopup(p)

OutcomeKept ==
  \/ \E a \in Account : WalletStep(a)
  \/ \E w \in Worker : BatchStep(w) \/ Stop(w)
  \/ \E p \in PaymentIntent : StripeStep(p)

Next ==
  \/ OutcomeKept /\ UNCHANGED outcomeLost
  \/ \E w \in Worker : OutcomeLost(w)

Spec == Init /\ [][Next]_reloadVars

-----------------------------------------------------------------------------
(* Properties *)

\* The types of the queue's rows, of Stripe's intents and of the workers;
\* no row is attempted more often than MAX_ATTEMPTS.
ReloadTypes ==
  /\ due \in [Account -> 0..DebitBound]
  /\ status \in [Row -> {"none", "pending", "processing", "succeeded", "failed"}]
  /\ attempts \in [Row -> 0..MaxAttempts]
  /\ piOf \in [Row -> PaymentIntent \cup {Unset}]
  /\ piState \in [PaymentIntent -> {"unused", "processing", "succeeded", "failed"}]
  /\ piRow \in [PaymentIntent -> Row \cup {Unset}]
  /\ claimed \in [Worker -> SUBSET Row]
  /\ at \in [Worker -> Row \cup {Unset}]
  /\ step \in [Worker -> {"idle", "looping", "charging", "storing", "failing"}]
  /\ made \in [Worker -> PaymentIntent \cup {Unset}]
  /\ outcomeLost \in BOOLEAN

Holds(w) == (claimed[w] \cup {at[w]}) \ {Unset}

\* Two workers never hold one row, though a row goes back to the queue when
\* its charge fails and is claimed again.
WorkersDisjoint ==
  \A w1, w2 \in Worker : w1 # w2 => Holds(w1) \cap Holds(w2) = {}

\* An account has at most one row that is queued or being charged.
OneActiveRow ==
  \A r1, r2 \in Row :
    Active(r1) /\ Active(r2) /\ RowAccount[r1] = RowAccount[r2] => r1 = r2

Charged(p) == piState[p] \in {"processing", "succeeded"}

\* However often a row is retried, at most one payment for it goes through,
\* as long as no charge's outcome has been lost on the way to its row.
PaidOncePerRow ==
  ~outcomeLost => \A p1, p2 \in PaymentIntent :
    Charged(p1) /\ Charged(p2) /\ piRow[p1] = piRow[p2] => p1 = p2

\* A row is settled as succeeded only with its payment in the wallet, on the
\* same condition.
SucceededWasCredited ==
  ~outcomeLost => \A r \in Row : status[r] = "succeeded" =>
    piOf[r] # Unset /\ topupRows[piOf[r]] = 1

\* Whether Stripe still has an event for p that changes its row.
ToSettle(p) == p # Unset /\ (piState[p] = "failed" \/ (Charged(p) /\ topupRows[p] = 0))

\* The index then keeps the account from another row, and no job looks for it.
LeftBehind(r) ==
  /\ status[r] = "processing"
  /\ \A w \in Worker : r \notin Holds(w)
  /\ ~ToSettle(piOf[r])

\* A row is left in processing for good only by a worker that gave it up (its
\* process stopped, or a requeue failed), or when the event that would have
\* settled it came before its payment intent was stored.
LeftBehindHasCause ==
  [][\A r \in Row : LeftBehind(r)' /\ ~LeftBehind(r) =>
       \E w \in Worker :
         \/ r \in Holds(w) /\ step'[w] = "idle"
         \/ at[w] = r /\ step[w] = "storing" /\ topupRows[made[w]] = 1]_reloadVars
=============================================================================
