--------------------------- MODULE Subscriptions ---------------------------
(***************************************************************************)
(* Stripe subscriptions and their local rows: the webhook handlers, which  *)
(* the CMS runs as they are delivered, the nightly reconciliation, the     *)
(* hourly trial cron, and refresh_feature_quotas, which turns an account's *)
(* rows into feature_quotas inside whichever transaction calls it.         *)
(*                                                                         *)
(* The model follows one account; a slot is one of its modules.  Stripe is *)
(* modelled from how the code uses it: subscriptions change status, each   *)
(* change sends events, and an event is delivered at any time, in any      *)
(* order and any number of times, or never.                                *)
(***************************************************************************)
EXTENDS Naturals

CONSTANTS
  Sub,        \* Stripe subscriptions of the account
  SlotOf,     \* the module in a subscription's metadata
  Row,        \* rows of public.subscriptions
  Handler,    \* webhook requests in progress at the same time
  Reconciler, \* the nightly reconcileSubscriptions
  Refresher,  \* calls of refresh_feature_quotas outside those: cron and hooks
  None,
  Statuses,   \* the Stripe statuses that subscriptions take
  MaxChanges  \* bound: status changes of each subscription

Session == Handler \cup {Reconciler, Refresher}
Slot == {SlotOf[s] : s \in Sub}

\* STATUS_MAP: Stripe's statuses as the local table keeps them.
StatusMap ==
  [status \in {"active", "trialing", "past_due", "canceled", "unpaid",
               "incomplete", "incomplete_expired", "paused"} |->
     CASE status \in {"unpaid", "incomplete"} -> "past_due"
       [] status = "incomplete_expired" -> "expired"
       [] status = "paused" -> "canceled"
       [] OTHER -> status]

LocalStatus == {"trialing", "active", "past_due", "canceled", "expired"}
Terminal == {"canceled", "expired"}
ReconcileStatuses == {"active", "trialing", "past_due"}

ASSUME SubscriptionsConstants ==
  /\ None \notin Row /\ None \notin Session /\ None \notin Sub
  /\ Reconciler \notin Handler /\ Refresher \notin Handler
  /\ Reconciler # Refresher
  /\ Statuses \subseteq DOMAIN StatusMap
  /\ MaxChanges \in [Sub -> Nat]

Event == [sub : Sub, n : Nat,
          kind : {"checkout", "updated", "deleted", "payment_failed"},
          status : Statuses]

VARIABLES
  stripe,    \* Stripe: the subscription's status, "none" before checkout
  changes,   \* Stripe: how often it has changed
  sent,      \* Stripe: the events so far
  processed, \* stripe_webhook_events
  rowSub,    \* the row's stripe_subscription_id
  rowStatus, \* its status, "absent" before it is inserted
  quota,     \* slots with a row in feature_quotas
  phase,     \* where a session is
  ev,        \* the event a handler works on
  sub,       \* the subscription a session works on
  seen,      \* the status it was given by Stripe
  row,       \* the row it has found, then the row it has written
  computed,  \* the quota rows its refresh has inserted
  calm,      \* history: nothing came out of order, failed or was overtaken
  fresh      \* history: no status was updated by itself since the last refresh

stripeVars == <<stripe, changes, sent>>
tableVars == <<rowSub, rowStatus, quota>>
jobVars == <<ev, sub, seen, row, computed>>
history == <<calm, fresh>>
vars == <<stripeVars, processed, tableVars, phase, jobVars, history>>

Init ==
  /\ stripe = [s \in Sub |-> "none"]
  /\ changes = [s \in Sub |-> 0]
  /\ sent = {}
  /\ processed = {}
  /\ rowSub = [r \in Row |-> None]
  /\ rowStatus = [r \in Row |-> "absent"]
  /\ quota = {}
  /\ phase = [h \in Session |-> "idle"]
  /\ ev = [h \in Session |-> None]
  /\ sub = [h \in Session |-> None]
  /\ seen = [h \in Session |-> None]
  /\ row = [h \in Session |-> None]
  /\ computed = [h \in Session |-> {}]
  /\ calm = TRUE
  /\ fresh = TRUE

PhaseTo(h, place) == phase' = [phase EXCEPT ![h] = place]

Disturb == calm' = FALSE /\ UNCHANGED fresh
DisturbIf(condition) == calm' = (calm /\ ~condition) /\ UNCHANGED fresh

-----------------------------------------------------------------------------
(* The table and its two unique indexes *)

Live(r) == rowStatus[r] \notin Terminal \cup {"absent"}

RowOf(s) == {r \in Row : rowSub[r] = s /\ rowStatus[r] # "absent"}

\* Mutant: without subscriptions_unique_active_per_module.
OnlySubIndexAllows(r, s, status) == RowOf(s) \subseteq {r}

\* r may take subscription s with this status.
IndexesAllow(r, s, status) ==
  /\ RowOf(s) \subseteq {r}
  /\ status \notin Terminal =>
       \A x \in Row \ {r} : Live(x) => SlotOf[rowSub[x]] # SlotOf[s]

\* Sessions whose write is not committed; they hold the row and the slot.
Writing == {h \in Session :
  row[h] # None /\ phase[h] \in {"refreshing", "waiting", "beaten", "committing",
                                "aborted"}}

SlotFree(slot) == \A h \in Writing : SlotOf[sub[h]] # slot

-----------------------------------------------------------------------------
(* Stripe *)

Checkout(s) ==
  /\ stripe[s] = "none"
  /\ \E status \in Statuses \cap {"trialing", "active"} :
       /\ stripe' = [stripe EXCEPT ![s] = status]
       /\ sent' = sent \cup {[sub |-> s, n |-> 0, kind |-> "checkout", status |-> status]}
  /\ UNCHANGED <<changes, processed, tableVars, phase, jobVars, history>>

EventsOf(s, n, status) ==
  {[sub |-> s, n |-> n, status |-> status, kind |-> kind] :
     kind \in CASE status = "canceled" -> {"deleted"}
                [] status = "past_due" -> {"updated", "payment_failed"}
                [] OTHER -> {"updated"}}

Change(s) ==
  /\ stripe[s] \notin {"none", "canceled", "incomplete_expired"}
  /\ changes[s] < MaxChanges[s]
  /\ changes' = [changes EXCEPT ![s] = @ + 1]
  /\ \E status \in Statuses \ {"trialing", stripe[s]} :
       /\ stripe' = [stripe EXCEPT ![s] = status]
       /\ sent' = sent \cup EventsOf(s, changes[s] + 1, status)
  /\ UNCHANGED <<processed, tableVars, phase, jobVars, history>>

-----------------------------------------------------------------------------
(* The webhook: withIdempotency around a handler *)

\* An earlier event of the subscription is still to be processed, or another
\* request works on this one.
OutOfOrder(h, e) ==
  \/ \E d \in sent \ processed : d.sub = e.sub /\ d.n < e.n
  \/ \E g \in Handler \ {h} : phase[g] # "idle" /\ sub[g] = e.sub

\* Mutant: markProcessed before the work.
ReceiveMarking(h, e) ==
  /\ phase[h] = "idle"
  /\ e \in sent \ processed
  /\ processed' = processed \cup {e}
  /\ ev' = [ev EXCEPT ![h] = e]
  /\ sub' = [sub EXCEPT ![h] = e.sub]
  /\ PhaseTo(h, IF e.kind = "checkout" THEN "retrieving" ELSE "applying")
  /\ DisturbIf(OutOfOrder(h, e))
  /\ UNCHANGED <<stripeVars, tableVars, seen, row, computed>>

Receive(h, e) ==
  /\ phase[h] = "idle"
  /\ e \in sent \ processed
  /\ ev' = [ev EXCEPT ![h] = e]
  /\ sub' = [sub EXCEPT ![h] = e.sub]
  /\ PhaseTo(h, IF e.kind = "checkout" THEN "retrieving" ELSE "applying")
  /\ DisturbIf(OutOfOrder(h, e))
  /\ UNCHANGED <<stripeVars, processed, tableVars, seen, row, computed>>

\* A session's transaction is over.
Release(h) ==
  /\ seen' = [seen EXCEPT ![h] = None]
  /\ row' = [row EXCEPT ![h] = None]
  /\ computed' = [computed EXCEPT ![h] = {}]

Forget(h) ==
  /\ ev' = [ev EXCEPT ![h] = None]
  /\ sub' = [sub EXCEPT ![h] = None]

\* markProcessed, after the work.
Mark(h) ==
  /\ phase[h] = "marking"
  /\ processed' = processed \cup {ev[h]}
  /\ PhaseTo(h, "idle")
  /\ Forget(h)
  /\ UNCHANGED <<stripeVars, tableVars, seen, row, computed, history>>

\* The handler throws, or the CMS stops: the event is not marked.  The route
\* answers 200 to a throw, so whether it comes again is up to Stripe.
Fail(h) ==
  /\ PhaseTo(h, "idle")
  /\ Release(h) /\ Forget(h)
  /\ Disturb
  /\ UNCHANGED <<stripeVars, processed, tableVars>>

HandlerThrows(h) ==
  /\ phase[h] \in {"retrieving", "looking", "applying", "canceling", "marking"}
  /\ Fail(h)

\* handleSubscriptionDeleted SELECTs the row of the subscription, without a
\* lock, and then updates it by its id.
FindDeleted(h) ==
  /\ phase[h] = "applying" /\ ev[h].kind = "deleted"
  /\ \/ RowOf(sub[h]) = {} /\ PhaseTo(h, "marking") /\ UNCHANGED row
     \/ \E r \in RowOf(sub[h]) : row' = [row EXCEPT ![h] = r] /\ PhaseTo(h, "canceling")
  /\ UNCHANGED <<stripeVars, processed, tableVars, ev, sub, seen, computed, history>>

CancelRow(h) ==
  /\ phase[h] = "canceling"
  /\ SlotFree(SlotOf[rowSub[row[h]]])
  /\ rowStatus' = [rowStatus EXCEPT ![row[h]] = "canceled"]
  /\ PhaseTo(h, "marking")
  /\ row' = [row EXCEPT ![h] = None]
  /\ fresh' = FALSE /\ calm' = (calm /\ rowSub[row[h]] = sub[h])
  /\ UNCHANGED <<stripeVars, processed, rowSub, quota, ev, sub, seen, computed>>

\* handleSubscriptionUpdated and handleInvoicePaymentFailed: one UPDATE by
\* stripe_subscription_id, with what the event says.
NewStatus(e) ==
  IF e.kind = "payment_failed" THEN "past_due" ELSE StatusMap[e.status]

Apply(h) ==
  LET e == ev[h] IN
  /\ phase[h] = "applying" /\ e.kind # "deleted"
  /\ SlotFree(SlotOf[e.sub])
  /\ \A r \in RowOf(e.sub) : IndexesAllow(r, e.sub, NewStatus(e))
  /\ rowStatus' =
       [r \in Row |-> IF r \in RowOf(e.sub) THEN NewStatus(e) ELSE rowStatus[r]]
  /\ PhaseTo(h, "marking")
  /\ fresh' = (fresh /\ RowOf(e.sub) = {})
  /\ UNCHANGED <<stripeVars, processed, rowSub, quota, jobVars, calm>>

\* It would make a second live row of the slot.
ApplyThrows(h) ==
  /\ phase[h] = "applying" /\ ev[h].kind # "deleted"
  /\ SlotFree(SlotOf[ev[h].sub])
  /\ \E r \in RowOf(ev[h].sub) : ~IndexesAllow(r, ev[h].sub, NewStatus(ev[h]))
  /\ Fail(h)

-----------------------------------------------------------------------------
(* handleCheckoutCompleted *)

Retrieve(h) ==
  /\ phase[h] = "retrieving"
  /\ seen' = [seen EXCEPT ![h] = StatusMap[stripe[sub[h]]]]
  /\ PhaseTo(h, "looking")
  /\ UNCHANGED <<stripeVars, processed, tableVars, ev, sub, row, computed, history>>

\* Stripe does not answer, or no plan is published: the handler returns, and
\* the event counts as processed.
Skip(h) ==
  /\ phase[h] = "retrieving"
  /\ Disturb
  /\ PhaseTo(h, "marking")
  /\ UNCHANGED <<stripeVars, processed, tableVars, jobVars>>

\* SELECT the live row of the slot, without a lock.
Look(h) ==
  /\ phase[h] = "looking"
  /\ LET live == {r \in Row : Live(r) /\ SlotOf[rowSub[r]] = SlotOf[sub[h]]} IN
     \/ live = {} /\ PhaseTo(h, "inserting") /\ UNCHANGED row
     \/ \E r \in live : row' = [row EXCEPT ![h] = r] /\ PhaseTo(h, "updating")
  /\ UNCHANGED <<stripeVars, processed, tableVars, ev, sub, seen, computed, history>>

\* UPDATE by id, which replaces the row's subscription.
UpdateRow(h) ==
  /\ phase[h] = "updating"
  /\ SlotFree(SlotOf[sub[h]])
  /\ IndexesAllow(row[h], sub[h], seen[h])
  /\ PhaseTo(h, "refreshing")
  /\ DisturbIf(rowSub[row[h]] # sub[h])
  /\ UNCHANGED <<stripeVars, processed, tableVars, jobVars>>

UpdateThrows(h) ==
  /\ phase[h] = "updating"
  /\ SlotFree(SlotOf[sub[h]])
  /\ ~IndexesAllow(row[h], sub[h], seen[h])
  /\ Fail(h)

-----------------------------------------------------------------------------
(* provisionSubscriptionRow, of the webhook and of the reconciliation *)

AfterSession(h) == IF h \in Handler THEN "marking" ELSE "idle"

EndSession(h) ==
  /\ PhaseTo(h, AfterSession(h))
  /\ Release(h)
  /\ IF h \in Handler THEN UNCHANGED <<ev, sub>> ELSE Forget(h)

InsertRow(h) ==
  /\ phase[h] = "inserting"
  /\ SlotFree(SlotOf[sub[h]])
  /\ \E r \in Row :
       /\ rowStatus[r] = "absent" /\ \A g \in Writing : row[g] # r
       /\ IndexesAllow(r, sub[h], seen[h])
       /\ row' = [row EXCEPT ![h] = r]
  /\ PhaseTo(h, "refreshing")
  /\ UNCHANGED <<stripeVars, processed, tableVars, ev, sub, seen, computed, history>>

\* ON CONFLICT DO NOTHING.
InsertConflict(h) ==
  /\ phase[h] = "inserting"
  /\ SlotFree(SlotOf[sub[h]])
  /\ \A r \in Row : rowStatus[r] = "absent" => ~IndexesAllow(r, sub[h], seen[h])
  /\ EndSession(h)
  /\ DisturbIf(RowOf(sub[h]) = {})
  /\ UNCHANGED <<stripeVars, processed, tableVars>>

\* reconcileSubscriptions: a subscription listed as live without a row.
Listed(s) == stripe[s] # "none" /\ StatusMap[stripe[s]] \in ReconcileStatuses

\* Mutant: only subscriptions whose events never came.
ReconcileUnheard(s) ==
  /\ phase[Reconciler] = "idle"
  /\ Listed(s) /\ RowOf(s) = {}
  /\ \A e \in processed : e.sub # s
  /\ sub' = [sub EXCEPT ![Reconciler] = s]
  /\ seen' = [seen EXCEPT ![Reconciler] = StatusMap[stripe[s]]]
  /\ PhaseTo(Reconciler, "inserting")
  /\ Disturb
  /\ UNCHANGED <<stripeVars, processed, tableVars, ev, row, computed>>

Reconcile(s) ==
  /\ phase[Reconciler] = "idle"
  /\ Listed(s) /\ RowOf(s) = {}
  /\ sub' = [sub EXCEPT ![Reconciler] = s]
  /\ seen' = [seen EXCEPT ![Reconciler] = StatusMap[stripe[s]]]
  /\ PhaseTo(Reconciler, "inserting")
  /\ Disturb
  /\ UNCHANGED <<stripeVars, processed, tableVars, ev, row, computed>>

-----------------------------------------------------------------------------
(* refresh_feature_quotas: DELETE the account's rows, INSERT them anew *)

StartRefresh ==
  /\ phase[Refresher] = "idle"
  /\ PhaseTo(Refresher, "refreshing")
  /\ UNCHANGED <<stripeVars, processed, tableVars, jobVars, history>>

\* Mutant: the refresh runs outside the transaction that writes the row.
EntitledOutside(h) == {SlotOf[rowSub[r]] : r \in {x \in Row : Live(x)}}

\* The live slots as the session sees them: its own write included.
Entitled(h) ==
  {SlotOf[rowSub[r]] : r \in {x \in Row \ {row[h]} : Live(x)}} \cup
  (IF row[h] # None /\ seen[h] \notin Terminal THEN {SlotOf[sub[h]]} ELSE {})

Refreshed == {h \in Session : phase[h] = "committing"}

\* Mutant: the INSERT ... ON CONFLICT UPDATE that migration 028 replaced.
RefreshUpserting(h) ==
  /\ phase[h] = "refreshing"
  /\ Refreshed = {}
  /\ computed' = [computed EXCEPT ![h] = quota \cup Entitled(h)]
  /\ PhaseTo(h, "committing")
  /\ fresh' = TRUE
  /\ UNCHANGED <<stripeVars, processed, tableVars, ev, sub, seen, row, calm>>

Refresh(h) ==
  /\ phase[h] = "refreshing"
  /\ Refreshed = {}
  /\ computed' = [computed EXCEPT ![h] = Entitled(h)]
  /\ PhaseTo(h, "committing")
  /\ fresh' = TRUE
  /\ UNCHANGED <<stripeVars, processed, tableVars, ev, sub, seen, row, calm>>

\* The DELETE waits for the rows another refresh has deleted or inserted.
RefreshWaits(h) ==
  /\ phase[h] = "refreshing"
  /\ Refreshed # {}
  /\ PhaseTo(h, "waiting")
  /\ UNCHANGED <<stripeVars, processed, tableVars, jobVars, history>>

\* The rows the other one inserted are not in the DELETE's snapshot.  If the
\* INSERT meets none of them all is well; else it violates the unique index.
RefreshBeaten(h) ==
  /\ phase[h] = "beaten"
  /\ Refreshed = {}
  /\ IF Entitled(h) \cap quota = {}
       THEN /\ computed' = [computed EXCEPT ![h] = Entitled(h) \cup quota]
            /\ PhaseTo(h, "committing")
            /\ fresh' = FALSE /\ UNCHANGED calm
       ELSE /\ PhaseTo(h, "aborted")
            /\ Disturb
            /\ UNCHANGED computed
  /\ UNCHANGED <<stripeVars, processed, tableVars, ev, sub, seen, row>>

\* COMMIT: whoever waited for this refresh has been beaten by it.
Beaten(h) ==
  [g \in Session |->
     IF g = h THEN AfterSession(h)
     ELSE IF phase[g] = "waiting" THEN "beaten" ELSE phase[g]]

Commit(h) ==
  /\ phase[h] = "committing"
  /\ quota' = computed[h]
  /\ IF row[h] = None
       THEN UNCHANGED <<rowSub, rowStatus>>
       ELSE /\ rowSub' = [rowSub EXCEPT ![row[h]] = sub[h]]
            /\ rowStatus' = [rowStatus EXCEPT ![row[h]] = seen[h]]
  /\ phase' = Beaten(h)
  /\ Release(h)
  /\ IF h \in Handler THEN UNCHANGED <<ev, sub>> ELSE Forget(h)
  /\ UNCHANGED <<stripeVars, processed, history>>

\* The failed statement has aborted the transaction, but its error is caught
\* and COMMIT is sent: PostgreSQL rolls back and answers without an error.
CommitAborted(h) ==
  /\ phase[h] = "aborted"
  /\ EndSession(h)
  /\ UNCHANGED <<stripeVars, processed, tableVars, history>>

-----------------------------------------------------------------------------
\* The hourly cron.  trial_end passes when Stripe ends the trial.
TrialExpiry ==
  \E over \in SUBSET {r \in Row : /\ rowStatus[r] = "trialing"
                                  /\ stripe[rowSub[r]] # "trialing"} :
    /\ over # {}
    /\ \A r \in over : SlotFree(SlotOf[rowSub[r]])
    /\ rowStatus' = [r \in Row |-> IF r \in over THEN "canceled" ELSE rowStatus[r]]
    /\ calm' = FALSE /\ fresh' = FALSE
    /\ UNCHANGED <<stripeVars, processed, rowSub, quota, phase, jobVars>>

SessionStep(h) ==
  \/ UpdateRow(h) \/ UpdateThrows(h) \/ InsertRow(h) \/ InsertConflict(h)
  \/ Refresh(h) \/ RefreshWaits(h) \/ RefreshBeaten(h)
  \/ Commit(h) \/ CommitAborted(h)

HandlerStep(h) ==
  \/ Retrieve(h) \/ Skip(h) \/ Look(h) \/ FindDeleted(h) \/ CancelRow(h)
  \/ Apply(h) \/ ApplyThrows(h)
  \/ Mark(h) \/ HandlerThrows(h)

Next ==
  \/ \E s \in Sub : Checkout(s) \/ Change(s) \/ Reconcile(s)
  \/ \E h \in Handler : HandlerStep(h) \/ \E e \in sent : Receive(h, e)
  \/ \E h \in Session : SessionStep(h)
  \/ StartRefresh \/ TrialExpiry

Spec == Init /\ [][Next]_vars

\* Requests and transactions run on, PostgreSQL grants a lock to whoever waits
\* longest, and the two crons come every night.
Fairness ==
  /\ \A h \in Session : SF_vars(SessionStep(h))
  /\ \A h \in Handler : WF_vars(HandlerStep(h))
  /\ \A s \in Sub : WF_vars(Reconcile(s))
  /\ WF_vars(StartRefresh)

FairSpec == Spec /\ Fairness

-----------------------------------------------------------------------------
(* Properties *)

DataTypes ==
  /\ stripe \in [Sub -> Statuses \cup {"none"}]
  /\ changes \in [Sub -> Nat] /\ \A s \in Sub : changes[s] <= MaxChanges[s]
  /\ sent \subseteq Event /\ processed \subseteq sent
  /\ rowSub \in [Row -> Sub \cup {None}]
  /\ rowStatus \in [Row -> LocalStatus \cup {"absent"}]
  /\ quota \subseteq Slot
  /\ phase \in [Session -> {"idle", "retrieving", "looking", "applying", "canceling", "updating",
                            "inserting", "refreshing", "waiting", "beaten",
                            "committing", "aborted", "marking"}]
  /\ ev \in [Session -> Event \cup {None}]
  /\ sub \in [Session -> Sub \cup {None}]
  /\ seen \in [Session -> LocalStatus \cup {None}]
  /\ row \in [Session -> Row \cup {None}]
  /\ computed \in [Session -> SUBSET Slot]

\* The types of the table, the events and the sessions.
TypeOK == DataTypes /\ calm \in BOOLEAN /\ fresh \in BOOLEAN

\* One subscription has one row, and a module of the account at most one live
\* row, whatever is delivered again, reconciled or resurrected.
OneRowEach ==
  /\ \A s \in Sub : \A r1, r2 \in RowOf(s) : r1 = r2
  /\ \A r1, r2 \in Row :
       Live(r1) /\ Live(r2) /\ SlotOf[rowSub[r1]] = SlotOf[rowSub[r2]] => r1 = r2

\* Once all events of a subscription have been processed, each after those
\* before it and with nothing failed, skipped, overtaken or replaced, its row
\* says what Stripe says.
InOrderAgrees ==
  calm => \A s \in Sub :
    stripe[s] # "none" /\ (\A e \in sent : e.sub = s => e \in processed)
      => \E r \in RowOf(s) : rowStatus[r] = StatusMap[stripe[s]]

LiveSlots == {SlotOf[rowSub[r]] : r \in {x \in Row : Live(x)}}

\* When no transaction is open and no status was updated by itself since the
\* last refresh, feature_quotas holds exactly the modules with a live row,
\* however the refreshes overlapped and whichever of them failed.
QuotaFollowsRows ==
  fresh /\ (\A h \in Session : phase[h] \in {"idle", "marking"})
    => quota = LiveSlots

\* Once nothing changes any more the nightly refresh makes up for whatever was
\* missed, overtaken or aborted: the quotas settle on the live rows.
QuotaCatchesUp == <>[](quota = LiveSlots)

\* A live subscription without a row gets one, though its events were lost or
\* counted as processed without effect, unless a refresh that runs at the same
\* time aborts the reconciliation of that night.
PaidGetsRow ==
  \A s \in Sub :
    (Listed(s) /\ RowOf(s) = {})
      ~> (RowOf(s) # {} \/ ~Listed(s) \/ phase[Reconciler] = "aborted")
=============================================================================
