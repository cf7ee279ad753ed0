-------------------------- MODULE ActivationProofs --------------------------
(***************************************************************************)
(* What Activation guarantees for any calculators, requests, crons and     *)
(* plans: the types with the agreement of the two columns, and that it     *)
(* implements Budget.                                                      *)
(***************************************************************************)
EXTENDS Activation, FiniteSetTheorems, TLAPS

-----------------------------------------------------------------------------
(* The inductive invariant *)

InFlight == Reading \cup Decided

\* A request that is under way is about a calculator.
Targets == \A r \in InFlight : target[r] \in Calc

\* One that has counted has a verdict.
Verdicts == \A r \in Decided : verdict[r] \in {"within", "beyond"}

\* What it has read of the plan is the plan, or it is overtaken.
PlanCurrent == \A r \in InFlight : r \in overtaken \/ planned[r] = limit

\* There is still room for what was counted and not overtaken.
RoomLeft ==
  \A r \in Decided :
    verdict[r] = "within" /\ r \notin overtaken => Cardinality(Normal \ {target[r]}) < Ceiling

ActivationInv == TypeOK /\ Targets /\ Verdicts /\ PlanCurrent /\ RoomLeft

-----------------------------------------------------------------------------
(* Cardinalities *)

\* Sets of calculators are counted by natural numbers, smaller ones by less.
LEMMA Counts ==
  ASSUME NEW S \in SUBSET Calc, NEW T \in SUBSET S
  PROVE  /\ Cardinality(S) \in Nat /\ Cardinality(T) \in Nat
         /\ Cardinality(T) <= Cardinality(S)
<1>1. IsFiniteSet(S) /\ IsFiniteSet(T)
  BY FS_Subset, ActivationConstants
<1> QED
  BY <1>1, FS_Subset, FS_CardinalityType

\* One more calculator adds at most one.
LEMMA OneMore ==
  ASSUME NEW S \in SUBSET Calc, NEW c \in Calc
  PROVE  /\ Cardinality(S \cup {c}) <= Cardinality(S) + 1
         /\ Cardinality(S \cup {c}) <= Cardinality(S \ {c}) + 1
<1>1. IsFiniteSet(S) /\ IsFiniteSet(S \ {c})
  BY FS_Subset, ActivationConstants
<1>2. Cardinality(S) \in Nat /\ Cardinality(S \ {c}) \in Nat
  BY <1>1, FS_CardinalityType
<1>3. Cardinality(S \cup {c}) <= Cardinality(S) + 1
  BY <1>1, <1>2, FS_AddElement
<1>4. S \cup {c} = (S \ {c}) \cup {c}
  OBVIOUS
<1>5. Cardinality((S \ {c}) \cup {c}) <= Cardinality(S \ {c}) + 1
  BY <1>1, <1>2, FS_AddElement
<1> QED
  BY <1>3, <1>4, <1>5

\* Without one of them there are fewer calculators.
LEMMA OneLess ==
  ASSUME NEW S \in SUBSET Calc, NEW c \in Calc
  PROVE  Cardinality(S \ {c}) < Cardinality(Calc)
<1>1. Cardinality(S \ {c}) <= Cardinality(Calc \ {c})
  BY Counts
<1>2. Cardinality(Calc \ {c}) = Cardinality(Calc) - 1
  BY FS_RemoveElement, ActivationConstants
<1> QED
  BY <1>1, <1>2, Counts

\* The ceiling is a number.
LEMMA CeilingNat == TypeOK => Ceiling \in Nat
BY ActivationConstants, Counts DEF TypeOK, Ceiling

-----------------------------------------------------------------------------
(* Steps *)

\* No request is under way at the start.
LEMMA InitInv == Init => ActivationInv
<1> SUFFICES ASSUME Init PROVE ActivationInv
  OBVIOUS
<1>1. Reading = {} /\ Decided = {}
  BY DEF Init, Reading, Decided
<1>2. TypeOK
  BY ActivationConstants DEF Init, TypeOK
<1> QED
  BY <1>1, <1>2 DEF ActivationInv, Targets, Verdicts, PlanCurrent, RoomLeft, InFlight, Init

\* A step keeps the types, and the two columns agree.
LEMMA TypePreserved == ActivationInv /\ [Next]_vars => TypeOK'
<1> SUFFICES ASSUME ActivationInv, [Next]_vars PROVE TypeOK'
  OBVIOUS
<1> USE DEF TypeOK, ActivationInv, rowVars, requestVars, cronVars, boundVars, checkVars
<1>1. ASSUME NEW l \in Limits \cup {None}, ChangePlan(l) PROVE TypeOK'
  BY <1>1 DEF ChangePlan, Reading, Decided
<1>2. ASSUME NEW c \in Calc, HourPasses(c) \/ Deactivate(c) PROVE TypeOK'
  BY <1>2 DEF HourPasses, Deactivate, ClearRow
<1>3. ASSUME NEW r \in Caller, Count(r) \/ LookForOver(r) \/ Refuse(r) PROVE TypeOK'
  <2>1. CASE Count(r)
    BY <2>1 DEF Count, Goto
  <2>2. CASE LookForOver(r)
    BY <2>2 DEF LookForOver, Goto
  <2>3. CASE Refuse(r)
    BY <2>3 DEF Refuse, Finish
  <2> QED
    BY <1>3, <2>1, <2>2, <2>3
<1>4. ASSUME NEW r \in Caller, Write(r) \/ LastWrite(r) PROVE TypeOK'
  <2>1. target[r] \in Calc
    BY <1>4 DEF Write, LastWrite, Targets, InFlight, Decided
  <2>2. /\ active' \subseteq Calc /\ over' \subseteq Calc
        /\ expiry' \in [Calc -> {"none", "running", "past"}]
        /\ over' = {c \in Calc : expiry'[c] # "none"}
        /\ overtaken' \subseteq Caller /\ unchecked' \in Nat
    BY <1>4, <2>1 DEF Write, LastWrite, PutRow, Decided
  <2> QED
    BY <1>4, <2>2 DEF Write, LastWrite, Goto, Finish
<1>5. ASSUME NEW r \in Caller, NEW c \in Calc, Arrive(r, c) PROVE TypeOK'
  <2>1. CASE ActivateUnchecked(r, c)
    BY <2>1 DEF ActivateUnchecked, Finish, Decided
  <2>2. ASSUME NEW k \in {"endpoint", "tool"}, ReadPlan(r, c, k) PROVE TypeOK'
    BY <2>2 DEF ReadPlan
  <2> QED
    BY <1>5, <2>1, <2>2 DEF Arrive
<1>6. ASSUME NEW i \in Cron, CronStep(i) \/ CronFails(i) PROVE TypeOK'
  <2>1. CASE SelectExpired(i) \/ CronEnds(i) \/ CronFails(i)
    BY <2>1 DEF SelectExpired, CronEnds, CronFails, CronGoto, Expired
  <2>2. CASE DeactivateExpired(i)
    BY <2>2 DEF DeactivateExpired, ClearRow
  <2>3. CASE CountActive(i)
    <3>1. Cardinality(active) \in Nat
      BY Counts
    <3> QED
      BY <2>3, <3>1 DEF CountActive, CronGoto
  <2>4. CASE SelectExcess(i)
    <3>1. Newest(count[i] - limit, Normal) \in SUBSET Calc
      BY DEF Newest, Normal
    <3> QED
      BY <2>4, <3>1 DEF SelectExcess, CronGoto
  <2>5. CASE MarkExcess(i)
    BY <2>5 DEF MarkExcess
  <2> QED
    BY <1>6, <2>1, <2>2, <2>3, <2>4, <2>5 DEF CronStep
<1>7. CASE UNCHANGED vars
  BY <1>7 DEF vars
<1> QED
  BY <1>1, <1>2, <1>3, <1>4, <1>5, <1>6, <1>7 DEF Next, RequestStep

\* A request that has counted has its verdict until it ends.
LEMMA VerdictsPreserved == ActivationInv /\ [Next]_vars => Verdicts'
<1> SUFFICES ASSUME ActivationInv, [Next]_vars PROVE Verdicts'
  OBVIOUS
<1> USE DEF rowVars, requestVars, cronVars, boundVars, checkVars, Verdicts, Decided
<1>t. /\ pc \in [Caller -> {"new", "counting", "looking", "writing", "answered", "done"}]
      /\ verdict \in [Caller -> {"none", "within", "beyond"}] /\ Verdicts
  BY DEF ActivationInv, TypeOK
<1>1. ASSUME NEW r \in Caller, RequestStep(r) PROVE Verdicts'
  BY <1>1, <1>t DEF RequestStep, Count, LookForOver, Refuse, Write, LastWrite, Goto, Finish
<1>2. ASSUME NEW r \in Caller, NEW c \in Calc, Arrive(r, c) PROVE Verdicts'
  BY <1>2, <1>t DEF Arrive, ActivateUnchecked, ReadPlan, Finish
<1>3. CASE UNCHANGED <<pc, verdict>>
  BY <1>3, <1>t
<1>4. ASSUME NEW i \in Cron, CronStep(i) \/ CronFails(i) PROVE UNCHANGED <<pc, verdict>>
  BY <1>4 DEF CronStep, SelectExpired, DeactivateExpired, CountActive, SelectExcess, MarkExcess,
              CronEnds, CronFails
<1> QED
  BY <1>1, <1>2, <1>3, <1>4 DEF Next, ChangePlan, HourPasses, Deactivate, vars

\* A write of r that adds a calculator to the normal ones overtakes everybody
\* else; one that does not adds none.
LEMMA WriteEffect ==
  ASSUME ActivationInv, NEW r \in Decided, PutRow(r)
  PROVE  LET c == target[r] IN
         /\ c \in Calc /\ overtaken \subseteq overtaken'
         /\ \/ Normal' \subseteq Normal /\ unchecked' = unchecked
            \/ /\ Normal' = Normal \cup {c} /\ verdict[r] # "beyond"
               /\ Decided \ {r} \subseteq overtaken'
               /\ unchecked' = IF r \in overtaken THEN unchecked + 1 ELSE unchecked
<1>1. target[r] \in Calc /\ unchecked \in Nat
  BY DEF ActivationInv, Targets, InFlight, TypeOK
<1>2. CASE verdict[r] = "beyond" \/ target[r] \in Normal
  <2>1. Normal' \subseteq Normal
    BY <1>2 DEF PutRow, Normal
  <2> QED
    BY <1>1, <1>2, <2>1 DEF PutRow
<1>3. CASE ~(verdict[r] = "beyond" \/ target[r] \in Normal)
  <2>1. Normal' = Normal \cup {target[r]}
    BY <1>3 DEF PutRow, Normal
  <2> QED
    BY <1>1, <1>3, <2>1 DEF PutRow
<1> QED
  BY <1>2, <1>3

\* A step that neither writes a row nor changes the plan takes no room away.
LEMMA RoomKept ==
  ASSUME ActivationInv, limit' = limit, Normal' \subseteq Normal, overtaken \subseteq overtaken',
         NEW r \in Decided, verdict[r] = "within", r \notin overtaken',
         target'[r] = target[r]
  PROVE  Cardinality(Normal' \ {target'[r]}) < Ceiling'
<1>1. Cardinality(Normal \ {target[r]}) < Ceiling /\ Ceiling \in Nat
  BY CeilingNat DEF ActivationInv, RoomLeft
<1>2. Cardinality(Normal' \ {target[r]}) <= Cardinality(Normal \ {target[r]})
  BY Counts DEF Normal, ActivationInv, TypeOK
<1>3. Ceiling' = Ceiling
  BY DEF Ceiling
<1>4. /\ Cardinality(Normal' \ {target[r]}) \in Nat
      /\ Cardinality(Normal \ {target[r]}) \in Nat
  BY Counts DEF Normal, ActivationInv, TypeOK
<1> QED
  BY <1>1, <1>2, <1>3, <1>4

\* A step keeps what is known of the requests.
LEMMA RequestsPreserved ==
  ActivationInv /\ [Next]_vars => Targets' /\ PlanCurrent' /\ RoomLeft'
<1> SUFFICES ASSUME ActivationInv, [Next]_vars PROVE Targets' /\ PlanCurrent' /\ RoomLeft'
  OBVIOUS
<1> DEFINE Kept == Targets' /\ PlanCurrent' /\ RoomLeft'
<1> USE DEF rowVars, requestVars, cronVars, boundVars, checkVars
<1>t. pc \in [Caller -> {"new", "counting", "looking", "writing", "answered", "done"}]
      /\ target \in [Caller -> Calc \cup {None}] /\ planned \in [Caller -> Limits \cup {None}]
      /\ verdict \in [Caller -> {"none", "within", "beyond"}]
      /\ active \subseteq Calc /\ over \subseteq Calc /\ overtaken \subseteq Caller
  BY DEF ActivationInv, TypeOK
<1>g. \A r \in InFlight : target[r] \in Calc /\ (r \in overtaken \/ planned[r] = limit)
  BY DEF ActivationInv, Targets, PlanCurrent
<1>1. ASSUME NEW l \in Limits \cup {None}, ChangePlan(l) PROVE Kept
  BY <1>1, <1>g DEF ChangePlan, Targets, PlanCurrent, RoomLeft, InFlight, Reading, Decided
\* What leaves the requests, the plan and the history alone and adds no normal one.
<1>2. ASSUME UNCHANGED <<limit, requestVars, checkVars>>, Normal' \subseteq Normal PROVE Kept
  <2>1. Targets' /\ PlanCurrent'
    BY <1>2, <1>g DEF Targets, PlanCurrent, InFlight, Reading, Decided
  <2>2. RoomLeft'
    BY <1>2, RoomKept DEF RoomLeft, Decided
  <2> QED
    BY <2>1, <2>2
<1>3. ASSUME NEW c \in Calc, HourPasses(c) \/ Deactivate(c) PROVE Kept
  BY <1>2, <1>3 DEF HourPasses, Deactivate, ClearRow, Normal
<1>4. ASSUME NEW i \in Cron, CronStep(i) \/ CronFails(i) PROVE Kept
  BY <1>2, <1>4 DEF CronStep, SelectExpired, DeactivateExpired, CountActive, SelectExcess,
                    MarkExcess, CronEnds, CronFails, ClearRow, Normal
<1>5. CASE UNCHANGED vars
  BY <1>2, <1>5 DEF vars, Normal
<1>6. ASSUME NEW r \in Caller, Count(r) PROVE Kept
  <2>1. r \in Reading /\ r \in InFlight /\ UNCHANGED <<limit, active, over, target, planned, overtaken>>
    BY <1>6 DEF Count, Goto, Reading, InFlight
  <2>2. InFlight' \subseteq InFlight /\ Decided' \subseteq Decided \cup {r}
    BY <1>6, <1>t DEF Count, Goto, InFlight, Reading, Decided
  <2>3. Targets' /\ PlanCurrent'
    BY <2>1, <2>2, <1>g DEF Targets, PlanCurrent
  <2>4. ASSUME verdict'[r] = "within", r \notin overtaken
        PROVE  Cardinality(Normal \ {target[r]}) < Ceiling
    <3>1. HasRoom(r)
      BY <1>6, <2>4, <1>t DEF Count
    <3>2. target[r] \in Calc /\ planned[r] = limit
      BY <2>1, <2>4, <1>g
    <3>3. CASE limit = None
      BY <3>2, <3>3, <1>t, OneLess DEF Ceiling, Normal
    <3>4. CASE limit # None
      <4>1. Cardinality(Others(r)) < limit /\ limit \in Nat
        BY <3>1, <3>2, <3>4, ActivationConstants DEF HasRoom, ActivationInv, TypeOK
      <4>2. /\ Cardinality(Normal \ {target[r]}) <= Cardinality(Others(r))
            /\ Cardinality(Normal \ {target[r]}) \in Nat /\ Cardinality(Others(r)) \in Nat
        <5>1. Others(r) \in SUBSET Calc /\ Normal \ {target[r]} \in SUBSET Others(r)
          BY <1>t DEF Others, Normal
        <5> QED
          BY <5>1, Counts
      <4> QED
        BY <4>1, <4>2, <3>4 DEF Ceiling
    <3> QED
      BY <3>3, <3>4
  <2>5. ASSUME NEW q \in Decided, q # r, verdict'[q] = "within", q \notin overtaken
        PROVE  Cardinality(Normal \ {target[q]}) < Ceiling
    BY <1>6, <2>5, <1>t DEF Count, ActivationInv, RoomLeft, Decided
  <2>6. Normal' = Normal /\ Ceiling' = Ceiling
    BY <2>1 DEF Normal, Ceiling
  <2>7. RoomLeft'
    BY <2>1, <2>2, <2>4, <2>5, <2>6 DEF RoomLeft
  <2> QED
    BY <2>3, <2>7
<1>7. ASSUME NEW r \in Caller, LookForOver(r) PROVE Kept
  <2>1. r \in Decided /\ Decided' = Decided /\ Reading' = Reading
    BY <1>7, <1>t DEF LookForOver, Goto, Decided, Reading
  <2>2. UNCHANGED <<limit, active, over, target, planned, verdict, overtaken>>
    BY <1>7 DEF LookForOver, Goto
  <2> QED
    BY <2>1, <2>2, <1>g, RoomKept DEF Targets, PlanCurrent, RoomLeft, InFlight, Normal
<1>8. ASSUME NEW r \in Caller, Refuse(r) PROVE Kept
  <2>1. /\ Decided' = Decided \ {r} /\ Reading' = Reading \ {r}
        /\ \A q \in Caller \ {r} : /\ target'[q] = target[q] /\ planned'[q] = planned[q]
                                  /\ verdict'[q] = verdict[q] /\ (q \in overtaken' <=> q \in overtaken)
        /\ UNCHANGED <<limit, active, over>>
    BY <1>8, <1>t DEF Refuse, Finish, Decided, Reading
  <2>2. Targets' /\ PlanCurrent'
    BY <2>1, <1>g DEF Targets, PlanCurrent, InFlight, Reading, Decided
  <2>3. Normal' = Normal /\ Ceiling' = Ceiling
    BY <2>1 DEF Normal, Ceiling
  <2>4. RoomLeft'
    BY <2>1, <2>3 DEF RoomLeft, ActivationInv, Decided
  <2> QED
    BY <2>2, <2>4
<1>9. ASSUME NEW r \in Caller, Write(r) \/ LastWrite(r) PROVE Kept
  <2>1. r \in Decided /\ PutRow(r) /\ limit' = limit
    BY <1>9 DEF Write, LastWrite, Decided
  <2>2. /\ \A q \in Caller \ {r} : /\ target'[q] = target[q] /\ planned'[q] = planned[q]
                                  /\ verdict'[q] = verdict[q]
        /\ Decided' \subseteq Decided /\ Reading' = Reading
        /\ r \in Decided' => /\ target'[r] = target[r] /\ planned'[r] = planned[r]
                            /\ verdict'[r] = verdict[r]
    <3>1. CASE Write(r)
      BY <2>1, <3>1, <1>t DEF Write, Goto, Decided, Reading
    <3>2. CASE LastWrite(r)
      BY <2>1, <3>2, <1>t DEF LastWrite, Finish, Decided, Reading
    <3> QED
      BY <1>9, <3>1, <3>2
  <2>3. overtaken \subseteq overtaken'
    BY <2>1, WriteEffect
  <2>4. Targets' /\ PlanCurrent'
    BY <2>1, <2>2, <2>3, <1>g DEF Targets, PlanCurrent, InFlight, Reading, Decided
  <2>5. CASE Normal' \subseteq Normal
    <3>1. ASSUME NEW q \in Decided', verdict'[q] = "within", q \notin overtaken'
          PROVE  Cardinality(Normal' \ {target'[q]}) < Ceiling'
      <4>1. q \in Decided /\ target'[q] = target[q] /\ verdict[q] = "within"
        BY <2>2, <3>1 DEF Decided
      <4> QED
        BY <2>1, <2>3, <2>5, <3>1, <4>1, RoomKept
    <3> QED
      BY <2>4, <3>1 DEF RoomLeft
  <2>6. CASE Normal' = Normal \cup {target[r]} /\ Decided \ {r} \subseteq overtaken'
    <3>1. ASSUME r \in Decided', verdict'[r] = "within", r \notin overtaken'
          PROVE  Cardinality(Normal' \ {target'[r]}) < Ceiling'
      <4>1. Cardinality(Normal \ {target[r]}) < Ceiling
        BY <2>1, <2>2, <2>3, <3>1 DEF ActivationInv, RoomLeft
      <4>2. Normal' \ {target'[r]} = Normal \ {target[r]} /\ Ceiling' = Ceiling
        BY <2>1, <2>2, <2>6, <3>1 DEF Ceiling
      <4> QED
        BY <4>1, <4>2
    <3> QED
      BY <2>2, <2>4, <2>6, <3>1 DEF RoomLeft
  <2> QED
    BY <2>1, <2>5, <2>6, WriteEffect
<1>10. ASSUME NEW r \in Caller, NEW c \in Calc, ActivateUnchecked(r, c) PROVE Kept
  <2>1. /\ Decided' = Decided /\ Reading' = Reading /\ r \notin InFlight
        /\ \A q \in InFlight : /\ target'[q] = target[q] /\ planned'[q] = planned[q]
                              /\ verdict'[q] = verdict[q]
        /\ overtaken \subseteq overtaken' /\ limit' = limit
    BY <1>10, <1>t DEF ActivateUnchecked, Finish, Decided, Reading, InFlight
  <2>2. Targets' /\ PlanCurrent'
    BY <2>1, <1>g DEF Targets, PlanCurrent, InFlight
  <2>3. CASE c \in active \cup over
    <3>1. Normal' \subseteq Normal
      BY <1>10, <2>3 DEF ActivateUnchecked, Normal
    <3> QED
      BY <2>1, <2>2, <3>1, RoomKept DEF RoomLeft, InFlight
  <2>4. CASE c \notin active \cup over
    BY <1>10, <2>1, <2>2, <2>4 DEF ActivateUnchecked, RoomLeft
  <2> QED
    BY <2>3, <2>4
<1>11. ASSUME NEW r \in Caller, NEW c \in Calc, NEW k \in {"endpoint", "tool"}, ReadPlan(r, c, k)
       PROVE  Kept
  <2>1. /\ Decided' = Decided /\ Reading' = Reading \cup {r} /\ r \notin InFlight
        /\ \A q \in InFlight : /\ target'[q] = target[q] /\ planned'[q] = planned[q]
                              /\ verdict'[q] = verdict[q]
        /\ target'[r] = c /\ planned'[r] = limit
        /\ UNCHANGED <<limit, active, over, overtaken>>
    BY <1>11, <1>t DEF ReadPlan, Decided, Reading, InFlight
  <2>2. Targets' /\ PlanCurrent'
    BY <2>1, <1>g DEF Targets, PlanCurrent, InFlight
  <2>3. Normal' \subseteq Normal
    BY <2>1 DEF Normal
  <2> QED
    BY <2>1, <2>2, <2>3, RoomKept DEF RoomLeft, InFlight
<1> QED
  BY <1>1, <1>3, <1>4, <1>5, <1>6, <1>7, <1>8, <1>9, <1>10, <1>11 DEF Next, RequestStep, Arrive

-----------------------------------------------------------------------------
(* Theorems *)

\* The invariant is inductive.
THEOREM ActivationInvariant == Spec => []ActivationInv
<1>1. ActivationInv /\ [Next]_vars => ActivationInv'
  BY TypePreserved, VerdictsPreserved, RequestsPreserved DEF ActivationInv
<1> QED
  BY InitInv, <1>1, PTL DEF Spec

\* Every reachable state has its types, and no write of the endpoint, the
\* tools, the screen or the cron lets over_limit and activation_expires_at
\* disagree.
THEOREM TypeCorrect == Spec => []TypeOK
<1>1. ActivationInv => TypeOK
  BY DEF ActivationInv
<1> QED
  BY ActivationInvariant, <1>1, PTL

\* A step is a step of the budget: a write nobody has overtaken is admitted,
\* the others and ai-api's tool bypass the check, the cron takes away.
LEMMA BudgetStep ==
  ActivationInv /\ [Next]_vars => [Allowance!Admit \/ Allowance!Bypass]_Allowance!budgetVars
<1> SUFFICES ASSUME ActivationInv, [Next]_vars
             PROVE  \/ Allowance!Admit \/ Allowance!Bypass
                    \/ UNCHANGED <<Ceiling, Cardinality(Normal), unchecked>>
  BY DEF Allowance!budgetVars
<1> DEFINE Refined == \/ Allowance!Admit \/ Allowance!Bypass
                      \/ UNCHANGED <<Ceiling, Cardinality(Normal), unchecked>>
<1> USE DEF rowVars, requestVars, cronVars, boundVars, checkVars
<1>t. unchecked \in Nat /\ Ceiling \in Nat /\ Normal \in SUBSET Calc /\ active \in SUBSET Calc
  BY CeilingNat DEF ActivationInv, TypeOK, Normal
<1>n. Normal' \in SUBSET Calc /\ Cardinality(Normal) \in Nat /\ Cardinality(Normal') \in Nat
  BY <1>t, TypePreserved, Counts DEF TypeOK, Normal
<1>1. ASSUME Normal' \subseteq Normal, unchecked' = unchecked PROVE Refined
  <2>1. Cardinality(Normal') <= Cardinality(Normal)
    BY <1>1, <1>t, Counts
  <2> QED
    BY <1>1, <2>1, <1>t, <1>n DEF Allowance!Bypass
<1>2. ASSUME NEW l \in Limits \cup {None}, ChangePlan(l) PROVE Refined
  BY <1>1, <1>2 DEF ChangePlan, Normal
<1>3. ASSUME NEW c \in Calc, HourPasses(c) \/ Deactivate(c) PROVE Refined
  BY <1>1, <1>3 DEF HourPasses, Deactivate, ClearRow, Normal
<1>4. ASSUME NEW i \in Cron, CronStep(i) \/ CronFails(i) PROVE Refined
  BY <1>1, <1>4 DEF CronStep, SelectExpired, DeactivateExpired, CountActive, SelectExcess,
                    MarkExcess, CronEnds, CronFails, ClearRow, Normal
<1>5. CASE UNCHANGED vars
  BY <1>1, <1>5 DEF vars, Normal
<1>6. ASSUME NEW r \in Caller, Count(r) \/ LookForOver(r) \/ Refuse(r) PROVE Refined
  BY <1>1, <1>6 DEF Count, LookForOver, Refuse, Normal
<1>7. ASSUME NEW r \in Caller, Write(r) \/ LastWrite(r) PROVE Refined
  <2>1. r \in Decided /\ PutRow(r)
    BY <1>7 DEF Write, LastWrite, Decided
  <2>2. target[r] \in Calc
    BY <2>1, WriteEffect
  <2>3. CASE Normal' \subseteq Normal /\ unchecked' = unchecked
    BY <1>1, <2>3
  <2>4. CASE Normal' = Normal \cup {target[r]} /\ r \in overtaken /\ unchecked' = unchecked + 1
    <3>1. Cardinality(Normal') <= Cardinality(Normal) + 1
      BY <2>2, <2>4, <1>t, OneMore
    <3> QED
      BY <2>4, <3>1, <1>t, <1>n DEF Allowance!Bypass
  <2>5. CASE /\ Normal' = Normal \cup {target[r]} /\ r \notin overtaken /\ unchecked' = unchecked
             /\ verdict[r] # "beyond"
    <3>1. verdict[r] = "within"
      BY <2>1, <2>5 DEF ActivationInv, Verdicts
    <3>2. Cardinality(Normal \ {target[r]}) < Ceiling
      BY <2>1, <2>5, <3>1 DEF ActivationInv, RoomLeft
    <3>3. Cardinality(Normal') <= Cardinality(Normal \ {target[r]}) + 1
      BY <2>2, <2>5, <1>t, OneMore
    <3>4. Cardinality(Normal \ {target[r]}) \in Nat
      BY <1>t, Counts
    <3> QED
      BY <2>5, <3>2, <3>3, <3>4, <1>t, <1>n DEF Allowance!Admit
  <2> QED
    BY <2>1, <2>3, <2>4, <2>5, WriteEffect
<1>8. ASSUME NEW r \in Caller, NEW c \in Calc, Arrive(r, c) PROVE Refined
  <2>1. ASSUME NEW k \in {"endpoint", "tool"}, ReadPlan(r, c, k) PROVE Refined
    BY <1>1, <2>1 DEF ReadPlan, Normal
  <2>2. CASE ActivateUnchecked(r, c) /\ c \in active \cup over
    BY <1>1, <2>2, <1>t DEF ActivateUnchecked, Normal
  <2>3. CASE ActivateUnchecked(r, c) /\ c \notin active \cup over
    <3>1. Normal' = Normal \cup {c} /\ unchecked' = unchecked + 1
      BY <2>3 DEF ActivateUnchecked, Normal
    <3>2. Cardinality(Normal') <= Cardinality(Normal) + 1
      BY <3>1, <1>t, OneMore
    <3> QED
      BY <3>1, <3>2, <1>t, <1>n DEF Allowance!Bypass
  <2> QED
    BY <1>8, <2>1, <2>2, <2>3 DEF Arrive
<1> QED
  BY <1>2, <1>3, <1>4, <1>5, <1>6, <1>7, <1>8 DEF Next, RequestStep

\* Normal calculators stay within the allowance but for what came in
\* unchecked, for any number of calculators, requests, crons and plan changes.
THEOREM NormalWithinAllowance == Spec => NormalWithinBudget
<1>1. Init => Allowance!BudgetInit
  BY DEF Init, Allowance!BudgetInit, Normal
<1> QED
  BY ActivationInvariant, BudgetStep, <1>1, PTL
  DEF Spec, NormalWithinBudget, Allowance!BudgetSpec
=============================================================================
