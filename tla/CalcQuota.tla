----------------------------- MODULE CalcQuota -----------------------------
(***************************************************************************)
(* The monthly calculator allowance of formula-api: every call compares    *)
(* the month's count with the allowance before it runs and is counted      *)
(* after it has run.  The count comes from monthly_aggregates through a    *)
(* Redis key, which calls increment, which expires, and which the rollup's *)
(* invalidation deletes.  The calls feed the pipeline of UsageEvents.      *)
(***************************************************************************)
EXTENDS UsageEvents

CONSTANTS
  Allowance,  \* request_allowance
  None        \* no value under the key

ASSUME QuotaConstants == Allowance \in Nat /\ None \notin Nat

VARIABLES
  phase,  \* where a call is
  used,   \* the count it has read from the database
  cache   \* fa:agg:{account}:{month}:calc_calls

quotaVars == <<phase, used, cache>>
vars == <<usageVars, quotaVars>>

Init ==
  /\ UsageInit
  /\ phase = [c \in Call |-> "new"]
  /\ used = [c \in Call |-> 0]
  /\ cache = None

PhaseTo(c, place) == phase' = [phase EXCEPT ![c] = place]

-----------------------------------------------------------------------------
(* checkQuota *)

\* Mutant: one call too early.
VerdictEarly(count) == IF count + 1 >= Allowance THEN "refused" ELSE "running"

Verdict(count) == IF count >= Allowance THEN "refused" ELSE "running"

CacheHit(c) ==
  /\ phase[c] = "new" /\ cache # None
  /\ PhaseTo(c, Verdict(cache))
  /\ UNCHANGED <<usageVars, used, cache>>

\* Nothing under the key, or Redis does not answer.
CacheMiss(c) ==
  /\ phase[c] = "new" /\ (cache = None \/ MayFail)
  /\ PhaseTo(c, "selecting")
  /\ UNCHANGED <<usageVars, used, cache>>

Select(c) ==
  /\ phase[c] = "selecting"
  /\ used' = [used EXCEPT ![c] = calcCalls]
  /\ PhaseTo(c, "populating")
  /\ UNCHANGED <<usageVars, cache>>

\* Without the database the call is allowed.
SelectFails(c) ==
  /\ MayFail /\ phase[c] = "selecting"
  /\ PhaseTo(c, "running")
  /\ UNCHANGED <<usageVars, used, cache>>

\* SETEX, which may fail, and the verdict.
Populate(c) ==
  /\ phase[c] = "populating"
  /\ cache' = used[c] \/ (MayFail /\ cache' = cache)
  /\ PhaseTo(c, Verdict(used[c]))
  /\ UNCHANGED <<usageVars, used>>

-----------------------------------------------------------------------------
(* After the calculation: emitCalcCall and incrementAggCache *)

\* INCR makes 1 of a missing key.
Increment == IF cache = None THEN 1 ELSE cache + 1

\* A refused call has its 429 and may go on all the same: enforceCalcQuota
\* returns the reply, Fastify's replies are thenable, and the route's await of
\* one gives the undefined that means "continue".
InCalculation(c) == phase[c] \in {"running", "refused"}

\* The two commands leave in the same tick; each may fail without the other.
Finish(c) ==
  /\ InCalculation(c)
  /\ Emit(c) \/ (MayFail /\ UNCHANGED usageVars)
  /\ cache' = Increment \/ (MayFail /\ cache' = cache)
  /\ PhaseTo(c, "done")
  /\ UNCHANGED used

\* A calculation that fails is not counted.
CalculationFails(c) ==
  /\ InCalculation(c)
  /\ PhaseTo(c, "failed")
  /\ UNCHANGED <<usageVars, used, cache>>

-----------------------------------------------------------------------------
(* The key's TTL, and the subscriber of bl:monthly_aggregates:invalidated *)

Expire ==
  /\ cache # None
  /\ cache' = None
  /\ UNCHANGED <<usageVars, phase, used>>

\* A message that finds no subscriber is gone.
Deliver ==
  /\ published > 0
  /\ published' = published - 1
  /\ cache' = None \/ (MayFail /\ cache' = cache)
  /\ UNCHANGED <<stream, trimmed, consumerVars, tableVars, rollupVars, phase, used>>

CallStep(c) ==
  \/ CacheHit(c) \/ CacheMiss(c) \/ Select(c) \/ SelectFails(c) \/ Populate(c)
  \/ Finish(c) \/ CalculationFails(c)

Next ==
  \/ \E c \in Call : CallStep(c)
  \/ CmsStep /\ UNCHANGED quotaVars
  \/ Expire \/ Deliver

Spec == Init /\ [][Next]_vars

\* The consumer loops, and the database does not fail every rollup.
Fairness ==
  /\ WF_vars(ConsumerStep /\ UNCHANGED quotaVars)
  /\ \A r \in Roller : /\ WF_vars(RollupStep(r) /\ UNCHANGED quotaVars)
                       /\ SF_vars(Pick(r) /\ UNCHANGED quotaVars)
                       /\ SF_vars(CommitBatch(r) /\ UNCHANGED quotaVars)

FairSpec == Spec /\ Fairness

-----------------------------------------------------------------------------
(* Properties *)

Done == {c \in Call : phase[c] = "done"}

\* The count is never ahead of the calls that have run: however the key, the
\* database and the increments race, no call is refused before as many calls
\* as the allowance have run.
NeverRefusedEarly ==
  (\E c \in Call : phase[c] = "refused") => Cardinality(Done) >= Allowance

\* Every event the stream has taken is counted in the month, unless its entry
\* was trimmed or is left behind, delivered and in no table: the consumer and
\* the rollup carry on after every failure, and nothing is acknowledged unsaved.
UsageReachesMonth ==
  \A c \in Call :
    (c \in ToSet(stream)) ~> (c \in marked \cup trimmed \cup (pel \ (batch \cup unmarked)))
=============================================================================
