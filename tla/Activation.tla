----------------------------- MODULE Activation -----------------------------
(***************************************************************************)
(* Activated calculators of one account against the slot allowance of its  *)
(* plan, as the CMS keeps them: the activate endpoint and the screen that  *)
(* calls it, deploy_calculator of the CMS's AI tools and of ai-api, the    *)
(* screen's deactivation, and the cron that expires and marks what is over *)
(* the limit.  No statement here runs in a transaction with another.       *)
(*                                                                         *)
(* One hour is a state of activation_expires_at: running, then past.  Test *)
(* windows and the engine's own copy of a calculator are left out.         *)
(***************************************************************************)
EXTENDS Integers, FiniteSets

CONSTANTS
  Calc,        \* calculators of the account, numbered by date_created
  Caller,      \* requests, each served once
  Cron,        \* the cron's runs, one per CMS instance
  Limits,      \* slot allowances of the plans
  None,        \* no subscription, or an exempt account
  MaxChanges,  \* bound: changes of the plan
  MaxFailures  \* bound: runs of the cron that an error ends

ASSUME ActivationConstants ==
  /\ Calc \subseteq Nat /\ IsFiniteSet(Calc)
  /\ Limits \subseteq Nat /\ None \notin Nat
  /\ MaxChanges \in Nat /\ MaxFailures \in Nat

VARIABLES
  limit,     \* slot_allowance of the active subscription
  active,    \* calculators.activated
  over,      \* calculators.over_limit
  expiry,    \* calculators.activation_expires_at
  pc,        \* the statement each request is at
  kind,      \* who sent it
  target,    \* the calculator it activates
  planned,   \* the allowance it has read
  verdict,   \* "within" the limit or "beyond" it
  cronPc,    \* the statement each run of the cron is at
  todo,      \* the rows it has selected and not yet updated
  count,     \* active calculators it counted
  changes, failures,
  overtaken, \* history: requests whose count is out of date
  unchecked  \* history: activations on such a count, or without one

rowVars == <<active, over, expiry>>
requestVars == <<pc, kind, target, planned, verdict>>
cronVars == <<cronPc, todo, count>>
boundVars == <<changes, failures>>
checkVars == <<overtaken, unchecked>>
vars == <<limit, rowVars, requestVars, cronVars, boundVars, checkVars>>

\* What counts against the allowance.
Normal == active \ over

\* The allowance as a number: without a subscription nothing is refused.
Ceiling == IF limit = None THEN Cardinality(Calc) ELSE limit

\* An account that is within its plan.
Init ==
  /\ limit \in Limits \cup {None}
  /\ active \in SUBSET Calc /\ over = {} /\ expiry = [c \in Calc |-> "none"]
  /\ Cardinality(active) <= Ceiling
  /\ pc = [r \in Caller |-> "new"]
  /\ kind = [r \in Caller |-> "none"]
  /\ target = [r \in Caller |-> None]
  /\ planned = [r \in Caller |-> None]
  /\ verdict = [r \in Caller |-> "none"]
  /\ cronPc = [i \in Cron |-> "idle"]
  /\ todo = [i \in Cron |-> {}]
  /\ count = [i \in Cron |-> 0]
  /\ changes = 0 /\ failures = 0
  /\ overtaken = {} /\ unchecked = 0

Reading == {r \in Caller : pc[r] = "counting"}
Decided == {r \in Caller : pc[r] \in {"looking", "writing", "answered"}}

-----------------------------------------------------------------------------
(* The plan and the clock *)

ChangePlan(l) ==
  /\ changes < MaxChanges /\ changes' = changes + 1
  /\ l # limit /\ limit' = l
  /\ overtaken' = overtaken \cup Reading \cup Decided
  /\ UNCHANGED <<rowVars, requestVars, cronVars, failures, unchecked>>

HourPasses(c) ==
  /\ expiry[c] = "running"
  /\ expiry' = [expiry EXCEPT ![c] = "past"]
  /\ UNCHANGED <<limit, active, over, requestVars, cronVars, boundVars, checkVars>>

-----------------------------------------------------------------------------
(* Requests *)

\* getSubscriptionInfo's and deployCalculator's query of the subscription.
ReadPlan(r, c, k) ==
  /\ pc[r] = "new"
  /\ pc' = [pc EXCEPT ![r] = "counting"]
  /\ kind' = [kind EXCEPT ![r] = k]
  /\ target' = [target EXCEPT ![r] = c]
  /\ planned' = [planned EXCEPT ![r] = limit]
  /\ UNCHANGED <<limit, rowVars, verdict, cronVars, boundVars, checkVars>>

Goto(r, place) ==
  pc' = [pc EXCEPT ![r] = place] /\ UNCHANGED <<kind, target, planned>>

\* The request ends and what it knew with it.
Finish(r) ==
  /\ pc' = [pc EXCEPT ![r] = "done"]
  /\ kind' = [kind EXCEPT ![r] = "none"]
  /\ target' = [target EXCEPT ![r] = None]
  /\ planned' = [planned EXCEPT ![r] = None]
  /\ verdict' = [verdict EXCEPT ![r] = "none"]

\* The endpoint counts its own calculator too when that is active already.
Others(r) == IF kind[r] = "tool" THEN active \ {target[r]} ELSE active

\* Mutant: the comparison lets one more in.
HasRoomForOne(r) == planned[r] = None \/ Cardinality(Others(r)) <= planned[r]

HasRoom(r) == planned[r] = None \/ Cardinality(Others(r)) < planned[r]

Count(r) ==
  /\ pc[r] = "counting"
  /\ verdict' = [verdict EXCEPT ![r] = IF HasRoom(r) THEN "within" ELSE "beyond"]
  /\ Goto(r, IF HasRoom(r) THEN "writing" ELSE "looking")
  /\ UNCHANGED <<limit, rowVars, cronVars, boundVars, checkVars>>

\* One calculator may be over the limit, for an hour.
LookForOver(r) ==
  /\ pc[r] = "looking"
  /\ (active \cap over) \ {target[r]} = {}
  /\ Goto(r, "writing")
  /\ UNCHANGED <<limit, rowVars, verdict, cronVars, boundVars, checkVars>>

\* Another one is: 403.  Or the config is incomplete or the engine fails,
\* which ends the endpoint's request before its UPDATE.
Refuse(r) ==
  /\ \/ pc[r] = "looking" /\ (active \cap over) \ {target[r]} # {}
     \/ pc[r] = "writing" /\ kind[r] = "endpoint"
  /\ Finish(r)
  /\ overtaken' = overtaken \ {r}
  /\ UNCHANGED <<limit, rowVars, cronVars, boundVars, unchecked>>

\* UPDATE calculators SET activated, over_limit, activation_expires_at.
PutRow(r) ==
  LET c == target[r]
      beyond == verdict[r] = "beyond"
      added == IF beyond \/ c \in Normal THEN 0 ELSE 1
  IN  /\ active' = active \cup {c}
      /\ over' = IF beyond THEN over \cup {c} ELSE over \ {c}
      /\ expiry' = [expiry EXCEPT ![c] = IF beyond THEN "running" ELSE "none"]
      /\ unchecked' = unchecked + (IF r \in overtaken THEN added ELSE 0)
      /\ overtaken' = overtaken \cup (IF added = 1 THEN Decided \ {r} ELSE {})

\* The endpoint's, after it has deployed.
Write(r) ==
  /\ pc[r] = "writing" /\ kind[r] = "endpoint"
  /\ PutRow(r)
  /\ Goto(r, "answered")
  /\ UNCHANGED <<limit, verdict, cronVars, boundVars>>

\* The tool deploys after its UPDATE and leaves the row as it is if that
\* fails.  The screen sends the endpoint's answer once more, as an item update.
LastWrite(r) ==
  /\ \/ pc[r] = "answered"
     \/ pc[r] = "writing" /\ kind[r] = "tool"
  /\ PutRow(r)
  /\ Finish(r)
  /\ UNCHANGED <<limit, cronVars, boundVars>>

\* deploy_calculator of ai-api sets activated and asks nobody.
ActivateUnchecked(r, c) ==
  LET added == IF c \in active \cup over THEN 0 ELSE 1
  IN  /\ pc[r] = "new"
      /\ Finish(r)
      /\ active' = active \cup {c}
      /\ unchecked' = unchecked + added
      /\ overtaken' = overtaken \cup (IF added = 1 THEN Decided ELSE {})
      /\ UNCHANGED <<limit, over, expiry, cronVars, boundVars>>

\* UPDATE of the cron and of the screen's deactivation.
ClearRow(c) ==
  /\ active' = active \ {c}
  /\ over' = over \ {c}
  /\ expiry' = [expiry EXCEPT ![c] = "none"]

Deactivate(c) ==
  /\ c \in active
  /\ ClearRow(c)
  /\ UNCHANGED <<limit, requestVars, cronVars, boundVars, checkVars>>

-----------------------------------------------------------------------------
(* The cron, every five minutes *)

CronGoto(i, place) == cronPc' = [cronPc EXCEPT ![i] = place]

Expired == {c \in active \cap over : expiry[c] = "past"}

SelectExpired(i) ==
  /\ cronPc[i] = "idle"
  /\ todo' = [todo EXCEPT ![i] = Expired]
  /\ CronGoto(i, "expiring")
  /\ UNCHANGED <<limit, rowVars, requestVars, count, boundVars, checkVars>>

\* Whatever has become of the row since it was selected.
DeactivateExpired(i) ==
  /\ cronPc[i] = "expiring"
  /\ \E c \in todo[i] : ClearRow(c) /\ todo' = [todo EXCEPT ![i] = @ \ {c}]
  /\ UNCHANGED <<limit, requestVars, cronPc, count, boundVars, checkVars>>

CountActive(i) ==
  /\ cronPc[i] = "expiring" /\ todo[i] = {}
  /\ count' = [count EXCEPT ![i] = Cardinality(active)]
  /\ CronGoto(i, "counted")
  /\ UNCHANGED <<limit, rowVars, requestVars, todo, boundVars, checkVars>>

\* Mutant: an off-by-one that leaves one too many.
ExceedsByTwo(i) == limit \notin {None, 0} /\ count[i] > limit + 1

\* An account without a limit, or with the limit 0, is passed over.
Exceeds(i) == limit \notin {None, 0} /\ count[i] > limit

Newest(n, S) == {c \in S : Cardinality({d \in S : d > c}) < n}

\* The subscription and the excess, newest first: the marked ones are in the
\* count and not in the selection.
SelectExcess(i) ==
  /\ cronPc[i] = "counted"
  /\ IF Exceeds(i)
     THEN /\ todo' = [todo EXCEPT ![i] = Newest(count[i] - limit, Normal)]
          /\ CronGoto(i, "marking")
     ELSE /\ CronGoto(i, "idle")
          /\ UNCHANGED todo
  /\ count' = [count EXCEPT ![i] = 0]
  /\ UNCHANGED <<limit, rowVars, requestVars, boundVars, checkVars>>

MarkExcess(i) ==
  /\ cronPc[i] = "marking"
  /\ \E c \in todo[i] :
       /\ over' = over \cup {c}
       /\ expiry' = [expiry EXCEPT ![c] = "running"]
       /\ todo' = [todo EXCEPT ![i] = @ \ {c}]
  /\ UNCHANGED <<limit, active, requestVars, cronPc, count, boundVars, checkVars>>

CronEnds(i) ==
  /\ cronPc[i] = "marking" /\ todo[i] = {}
  /\ CronGoto(i, "idle")
  /\ UNCHANGED <<limit, rowVars, requestVars, todo, count, boundVars, checkVars>>

CronFails(i) ==
  /\ cronPc[i] # "idle"
  /\ failures < MaxFailures /\ failures' = failures + 1
  /\ CronGoto(i, "idle")
  /\ todo' = [todo EXCEPT ![i] = {}]
  /\ count' = [count EXCEPT ![i] = 0]
  /\ UNCHANGED <<limit, rowVars, requestVars, changes, checkVars>>

-----------------------------------------------------------------------------
RequestStep(r) ==
  Count(r) \/ LookForOver(r) \/ Refuse(r) \/ Write(r) \/ LastWrite(r)

Arrive(r, c) ==
  ActivateUnchecked(r, c) \/ \E k \in {"endpoint", "tool"} : ReadPlan(r, c, k)

CronStep(i) ==
  \/ SelectExpired(i) \/ DeactivateExpired(i) \/ CountActive(i)
  \/ SelectExcess(i) \/ MarkExcess(i) \/ CronEnds(i)

Next ==
  \/ \E l \in Limits \cup {None} : ChangePlan(l)
  \/ \E c \in Calc : HourPasses(c) \/ Deactivate(c)
  \/ \E r \in Caller : RequestStep(r) \/ \E c \in Calc : Arrive(r, c)
  \/ \E i \in Cron : CronStep(i) \/ CronFails(i)

Spec == Init /\ [][Next]_vars

\* Hours pass and the cron is scheduled.
Fairness ==
  /\ \A c \in Calc : WF_vars(HourPasses(c))
  /\ \A i \in Cron : WF_vars(CronStep(i))

FairSpec == Spec /\ Fairness

-----------------------------------------------------------------------------
(* Properties *)

\* The types of rows, requests and crons.  The two columns that say over the
\* limit, over_limit (which the cron reads) and activation_expires_at (which
\* every execution checks), agree.
TypeOK ==
  /\ limit \in Limits \cup {None}
  /\ active \subseteq Calc /\ over \subseteq Calc
  /\ expiry \in [Calc -> {"none", "running", "past"}]
  /\ over = {c \in Calc : expiry[c] # "none"}
  /\ pc \in [Caller -> {"new", "counting", "looking", "writing", "answered", "done"}]
  /\ kind \in [Caller -> {"none", "endpoint", "tool"}]
  /\ target \in [Caller -> Calc \cup {None}]
  /\ planned \in [Caller -> Limits \cup {None}]
  /\ verdict \in [Caller -> {"none", "within", "beyond"}]
  /\ cronPc \in [Cron -> {"idle", "expiring", "counted", "marking"}]
  /\ todo \in [Cron -> SUBSET Calc]
  /\ count \in [Cron -> Nat]
  /\ changes \in Nat /\ failures \in Nat
  /\ overtaken \subseteq Caller /\ unchecked \in Nat

Allowance == INSTANCE Budget
  WITH limit <- Ceiling, sum <- Cardinality(Normal), unchecked <- unchecked

\* Calculators that are active and not marked stay within the allowance of the
\* plan, but for ai-api's tool and for requests that another activation or a
\* change of plan has overtaken between their count and their write.
NormalWithinBudget == Allowance!BudgetSpec

\* An account with more active calculators than its plan allows comes down to
\* the limit, or its plan changes: the excess is marked, its hour passes and
\* the cron deactivates it, whatever activations and failures come between.
ExcessEnds ==
  \A n \in Limits \ {0} :
    (limit = n /\ Cardinality(active) > n) ~> (limit # n \/ Cardinality(active) <= n)
=============================================================================
