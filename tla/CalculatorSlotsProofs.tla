----------------------- MODULE CalculatorSlotsProofs -----------------------
(***************************************************************************)
(* What CalculatorSlots guarantees for any configs, requests, sizes and    *)
(* allowances: the two refinements of Budget and the orphans' count.       *)
(***************************************************************************)
EXTENDS CalculatorSlots, TLAPS

-----------------------------------------------------------------------------
(* The inductive invariant *)

InTransaction(r) == Locked(r) \/ Aborted(r) \/ pc[r] = "admitted"

\* The one who is past the lock holds it.
LockHeld == \A r \in Request : InTransaction(r) => holder = r

\* A request that is under way is about a config, and an edit has a size.
Targets ==
  \A r \in Request :
    /\ pc[r] # "new" => target[r] \in Config
    /\ pc[r] = "editing" => size[r] # 0

\* A row has a config; one that is pending has no committed row beside it;
\* what is on has a row.
RowsLive ==
  \A c \in Config :
    /\ c \in always => rows[c] # 0
    /\ rows[c] # 0 => Exists(c)
    /\ pending[c] # 0 => Exists(c) /\ rows[c] = 0

\* A row that a switch has looked at lasts as long as its config.
RowsKept == \A r \in Switching : rows[target[r]] # 0 \/ ~Exists(target[r])

\* What was admitted still fits, whatever the edits have added since.
AdmittedFits ==
  \A r \in Request : pc[r] = "admitted" =>
    /\ todo = {}
    /\ used + pendingSum + size[r] <= Allowance + unchecked

\* A switch nobody has overtaken has the size of its row, or the row is gone,
\* and when it is past its check it fits; one without a size finds it on.
SwitchCurrent(r) ==
  LET c == target[r]
  IN  r \notin overtaken /\ rows[c] # 0 =>
        /\ pc[r] = "counted" => rows[c] = size[r]
        /\ pc[r] = "switching" =>
             \/ c \in always
             \/ rows[c] = size[r] /\ aoUsed + size[r] <= AoAllowance + aoUnchecked
SwitchesCurrent == \A r \in Request : SwitchCurrent(r)

\* An orphan the reconcile is done with has a row or is gone.
OrphansCounted ==
  \A r \in Request :
    holder = r /\ (Locked(r) \/ pc[r] = "admitted") =>
      \A c \in orphans \ todo : pending[c] # 0 \/ rows[c] # 0 \/ ~Exists(c)

SlotsInv ==
  /\ TypeOK /\ LockHeld /\ Targets /\ RowsLive /\ RowsKept
  /\ AdmittedFits /\ SwitchesCurrent /\ OrphansCounted

\* No row at the start, and no request under way.
LEMMA InitInv == Init => SlotsInv
BY SlotConstants DEF Init, SlotsInv, TypeOK, LockHeld, Targets, RowsLive, RowsKept, AdmittedFits,
   SwitchesCurrent, SwitchCurrent, OrphansCounted, InTransaction, Locked, Aborted, NoRows,
   Switching, Exists

-----------------------------------------------------------------------------
(* Steps *)

\* What the sums are taken of is natural numbers.
LEMMA Numbers ==
  TypeOK => /\ \A c \in Config : rows[c] \in Nat /\ pending[c] \in Nat /\ stored[c] \in Nat
            /\ \A r \in Request : size[r] \in Nat
<1>1. Sizes \cup {0} \subseteq Nat
  BY SlotConstants
<1> QED
  BY <1>1 DEF TypeOK

\* What a row grows by is a natural number.
LEMMA Growth ==
  ASSUME TypeOK, NEW c \in Config, NEW n \in Nat
  PROVE Grown(c, n) \in Nat /\ GrownOn(c, n) \in Nat
<1>1. rows[c] \in Nat
  BY Numbers
<1>2. Grown(c, n) \in Nat
  BY <1>1 DEF Grown
<1> QED
  BY <1>2 DEF GrownOn

\* A step keeps the types.
LEMMA TypePreserved == TypeOK /\ Targets /\ [Next]_vars => TypeOK'
<1> SUFFICES ASSUME TypeOK, Targets, [Next]_vars PROVE TypeOK'
  OBVIOUS
<1> USE DEF TypeOK, configVars, slotVars, lockVars, requestVars, checkVars, Goto
<1>n. Switching \subseteq Request
  BY DEF Switching
<1>1. ASSUME NEW c \in Config, NEW n \in Sizes, CreateConfig(c, n) PROVE TypeOK'
  BY <1>1 DEF CreateConfig
<1>2. ASSUME NEW c \in Config, Age(c) PROVE TypeOK'
  BY <1>2 DEF Age
<1>11. ASSUME NEW c \in Config, DeleteConfig(c) PROVE TypeOK'
  <2>1. rows[c] \in Nat
    BY Numbers
  <2>2. stored' \in [Config -> Sizes \cup {0}] /\ rows' \in [Config -> Sizes \cup {0}]
    BY <1>11 DEF DeleteConfig
  <2>3. used' \in Int /\ aoUsed' \in Int
    BY <1>11, <2>1 DEF DeleteConfig
  <2> QED
    BY <1>11, <2>2, <2>3 DEF DeleteConfig
<1>3. ASSUME NEW r \in Request, NEW c \in Config, Arrive(r, c) PROVE TypeOK'
  <2>1. CASE Upload(r, c)
    BY <2>1 DEF Upload, Start
  <2>2. CASE LookSlot(r, c) \/ LookSlotOn(r, c)
    BY <2>2 DEF LookSlot, LookSlotOn, Start
  <2>3. CASE SwitchOff(r, c)
    <3>1. rows[c] \in Nat
      BY Numbers
    <3>2. aoUsed' \in Int /\ overtaken' \subseteq Request /\ always' \subseteq Config
      BY <1>n, <2>3, <3>1 DEF SwitchOff
    <3>3. /\ pc' = [pc EXCEPT ![r] = "done"] /\ target' = [target EXCEPT ![r] = c]
          /\ size' = [size EXCEPT ![r] = 0]
      BY <2>3 DEF SwitchOff, Start
    <3> QED
      BY <2>3, <3>2, <3>3 DEF SwitchOff
  <2>4. ASSUME NEW n \in Sizes, Edit(r, c, n) PROVE TypeOK'
    BY <2>4 DEF Edit, Start
  <2> QED
    BY <1>3, <2>1, <2>2, <2>3, <2>4 DEF Arrive
<1>4. ASSUME NEW r \in Request, LockAndLook(r) PROVE TypeOK'
  BY <1>4 DEF LockAndLook, OrphansNow
<1>5. ASSUME NEW r \in Request, Materialise(r) PROVE TypeOK'
  <2>1. PICK c \in todo : todo' = todo \ {c} /\
          ((pending' = [pending EXCEPT ![c] = stored[c]] /\ pendingSum' = pendingSum + stored[c])
             \/ UNCHANGED <<pending, pendingSum>>)
    BY <1>5 DEF Materialise
  <2>2. stored[c] \in Sizes \cup {0} /\ stored[c] \in Nat
    BY <2>1, Numbers
  <2>3. pending' \in [Config -> Sizes \cup {0}] /\ pendingSum' \in Nat /\ todo' \subseteq orphans
    BY <2>1, <2>2
  <2> QED
    BY <1>5, <2>3 DEF Materialise
<1>12. ASSUME NEW r \in Request, MaterialiseFails(r) PROVE TypeOK'
  BY <1>12 DEF MaterialiseFails
<1>6. ASSUME NEW r \in Request, Refuse(r) \/ PassPreHandler(r) PROVE TypeOK'
  BY <1>6 DEF Refuse, PassPreHandler, CommitOrphans, CommitRows, EndTransaction, NoRows
<1>7. ASSUME NEW r \in Request, CheckQuota(r) \/ NoMeta(r) \/ RollBack(r) PROVE TypeOK'
  BY <1>7 DEF CheckQuota, NoMeta, RollBack, EndTransaction, NoRows
<1>8. ASSUME NEW r \in Request, InsertSlot(r) PROVE TypeOK'
  <2>1. target[r] \in Config
    BY <1>8 DEF InsertSlot, Targets
  <2>2. size[r] \in Nat /\ rows[target[r]] \in Nat /\ pending[target[r]] \in Nat
    BY <2>1, Numbers
  <2>5. [pending EXCEPT ![target[r]] = size[r]] \in [Config -> Sizes \cup {0}]
    OBVIOUS
  <2>3. rows' \in [Config -> Sizes \cup {0}]
    BY <1>8, <2>1, <2>5 DEF InsertSlot, CommitRows
  <2>4. used' \in Int /\ aoUsed' \in Int
    BY <1>8, <2>1, <2>2 DEF InsertSlot
  <2>6. aoUnchecked' \in Nat
    BY <1>8, <2>1, <2>2, Growth DEF InsertSlot
  <2>7. pc' \in [Request -> {"new", "pre", "preLocked", "preAborted", "main", "locked",
                 "aborted", "admitted", "editing", "counted", "switching", "done"}]
    BY <1>8 DEF InsertSlot
  <2>8. /\ holder' \in Request \cup {None} /\ pending' \in [Config -> Sizes \cup {0}]
        /\ pendingSum' \in Nat /\ orphans' \subseteq Config /\ todo' \subseteq orphans'
    BY <1>8 DEF InsertSlot, EndTransaction, NoRows
  <2> QED
    BY <1>n, <1>8, <2>3, <2>4, <2>6, <2>7, <2>8 DEF InsertSlot
<1>9. ASSUME NEW r \in Request, UpsertEdited(r) \/ EditFails(r) PROVE TypeOK'
  <2>1. CASE UpsertEdited(r)
    <3>1. target[r] \in Config
      BY <2>1 DEF UpsertEdited, Targets
    <3>2. size[r] \in Nat /\ rows[target[r]] \in Nat
      BY <3>1, Numbers
    <3>3. used' \in Int /\ aoUsed' \in Int
      BY <2>1, <3>1, <3>2 DEF UpsertEdited, PutRow
    <3>4. aoUnchecked' \in Nat /\ unchecked' \in Nat
      BY <2>1, <3>1, <3>2, Growth DEF UpsertEdited, PutRow
    <3>5. rows' \in [Config -> Sizes \cup {0}] /\ overtaken' \subseteq Request
      BY <1>n, <2>1, <3>1 DEF UpsertEdited, PutRow
    <3> QED
      BY <2>1, <3>3, <3>4, <3>5 DEF UpsertEdited
  <2> QED
    BY <1>9, <2>1 DEF EditFails
<1>10. ASSUME NEW r \in Request, CheckAlwaysOn(r) \/ SetAlwaysOn(r) PROVE TypeOK'
  <2>1. CASE SetAlwaysOn(r)
    <3>1. target[r] \in Config
      BY <2>1 DEF SetAlwaysOn, Targets
    <3>2. rows[target[r]] \in Nat
      BY <3>1, Numbers
    <3>3. aoUsed' \in Int /\ aoUnchecked' \in Nat /\ always' \subseteq Config
      BY <2>1, <3>1, <3>2 DEF SetAlwaysOn
    <3>4. overtaken' \subseteq Request
      BY <1>n, <2>1 DEF SetAlwaysOn
    <3>5. pc' \in [Request -> {"new", "pre", "preLocked", "preAborted", "main", "locked",
                   "aborted", "admitted", "editing", "counted", "switching", "done"}]
      BY <2>1 DEF SetAlwaysOn
    <3> QED
      BY <2>1, <3>3, <3>4, <3>5 DEF SetAlwaysOn
  <2> QED
    BY <1>10, <2>1 DEF CheckAlwaysOn
<1> QED
  BY <1>1, <1>2, <1>3, <1>4, <1>5, <1>6, <1>7, <1>8, <1>9, <1>10, <1>11, <1>12
  DEF Next, UploadStep, OtherStep, vars

\* Only the holder of the lock is in a transaction.
LEMMA LockPreserved == TypeOK /\ LockHeld /\ [Next]_vars => LockHeld'
<1> SUFFICES ASSUME TypeOK, LockHeld, [Next]_vars PROVE LockHeld'
  OBVIOUS
<1> USE DEF TypeOK, LockHeld, InTransaction, Locked, Aborted, configVars, slotVars, lockVars,
            requestVars, checkVars, Goto
<1>1. ASSUME NEW c \in Config, NEW n \in Sizes, CreateConfig(c, n) PROVE LockHeld'
  BY <1>1 DEF CreateConfig
<1>2. ASSUME NEW c \in Config, Age(c) \/ DeleteConfig(c) PROVE LockHeld'
  BY <1>2 DEF Age, DeleteConfig
<1>3. ASSUME NEW r \in Request, NEW c \in Config, Arrive(r, c) PROVE LockHeld'
  BY <1>3 DEF Arrive, Upload, LookSlot, LookSlotOn, SwitchOff, Edit, Start
<1>4. ASSUME NEW r \in Request, LockAndLook(r) PROVE LockHeld'
  BY <1>4, SlotConstants DEF LockAndLook
<1>5. ASSUME NEW r \in Request, Materialise(r) \/ MaterialiseFails(r) PROVE LockHeld'
  BY <1>5 DEF Materialise, MaterialiseFails
<1>6. ASSUME NEW r \in Request, Refuse(r) \/ PassPreHandler(r) \/ RollBack(r) PROVE LockHeld'
  BY <1>6 DEF Refuse, PassPreHandler, RollBack, CommitOrphans, EndTransaction
<1>7. ASSUME NEW r \in Request, NoMeta(r) \/ CheckQuota(r) PROVE LockHeld'
  BY <1>7 DEF NoMeta, CheckQuota
<1>8. ASSUME NEW r \in Request, InsertSlot(r) PROVE LockHeld'
  BY <1>8 DEF InsertSlot, EndTransaction
<1>9. ASSUME NEW r \in Request, OtherStep(r) PROVE LockHeld'
  BY <1>9 DEF OtherStep, UpsertEdited, EditFails, CheckAlwaysOn, SetAlwaysOn
<1> QED
  BY <1>1, <1>2, <1>3, <1>4, <1>5, <1>6, <1>7, <1>8, <1>9 DEF Next, UploadStep, vars

\* Requests keep their config and their size.
LEMMA TargetsPreserved == TypeOK /\ Targets /\ [Next]_vars => Targets'
<1> SUFFICES ASSUME TypeOK, Targets, [Next]_vars PROVE Targets'
  OBVIOUS
<1> USE DEF TypeOK, Targets, configVars, slotVars, lockVars, requestVars, checkVars, Goto
<1>1. ASSUME NEW c \in Config, NEW n \in Sizes, CreateConfig(c, n) PROVE Targets'
  BY <1>1 DEF CreateConfig
<1>2. ASSUME NEW c \in Config, Age(c) \/ DeleteConfig(c) PROVE Targets'
  BY <1>2 DEF Age, DeleteConfig
<1>3. ASSUME NEW r \in Request, NEW c \in Config, Arrive(r, c) PROVE Targets'
  <2>1. ASSUME NEW n \in Sizes, Edit(r, c, n) PROVE Targets'
    <3>1. n # 0
      BY SlotConstants
    <3> QED
      BY <2>1, <3>1 DEF Edit, Start
  <2>2. CASE Upload(r, c) \/ LookSlot(r, c) \/ LookSlotOn(r, c) \/ SwitchOff(r, c)
    BY <2>2 DEF Upload, LookSlot, LookSlotOn, SwitchOff, Start
  <2> QED
    BY <1>3, <2>1, <2>2 DEF Arrive
<1>4. ASSUME NEW r \in Request, LockAndLook(r) \/ Materialise(r) \/ MaterialiseFails(r)
      PROVE Targets'
  BY <1>4 DEF LockAndLook, Materialise, MaterialiseFails, Locked
<1>5. ASSUME NEW r \in Request, Refuse(r) \/ PassPreHandler(r) \/ RollBack(r) PROVE Targets'
  BY <1>5 DEF Refuse, PassPreHandler, RollBack, CommitOrphans, Locked, Aborted
<1>6. ASSUME NEW r \in Request, NoMeta(r) \/ CheckQuota(r) \/ InsertSlot(r) PROVE Targets'
  BY <1>6 DEF NoMeta, CheckQuota, InsertSlot
<1>7. ASSUME NEW r \in Request, OtherStep(r) PROVE Targets'
  BY <1>7 DEF OtherStep, UpsertEdited, EditFails, CheckAlwaysOn, SetAlwaysOn
<1> QED
  BY <1>1, <1>2, <1>3, <1>4, <1>5, <1>6, <1>7 DEF Next, UploadStep, vars

\* Rows come and go with their configs.
LEMMA RowsLivePreserved == TypeOK /\ LockHeld /\ Targets /\ RowsLive /\ [Next]_vars => RowsLive'
<1> SUFFICES ASSUME TypeOK, LockHeld, Targets, RowsLive, [Next]_vars PROVE RowsLive'
  OBVIOUS
<1> USE DEF TypeOK, RowsLive, Exists, configVars, slotVars, lockVars, requestVars, checkVars
<1>1. ASSUME NEW c \in Config, NEW n \in Sizes, CreateConfig(c, n) PROVE RowsLive'
  BY <1>1, SlotConstants DEF CreateConfig
<1>2. ASSUME NEW c \in Config, Age(c) \/ DeleteConfig(c) PROVE RowsLive'
  BY <1>2 DEF Age, DeleteConfig
<1>3. ASSUME NEW r \in Request, NEW c \in Config, Arrive(r, c) PROVE RowsLive'
  <2>1. CASE \E n \in Sizes : Edit(r, c, n)
    BY <2>1, SlotConstants DEF Edit, Start
  <2>2. CASE Upload(r, c) \/ LookSlot(r, c) \/ LookSlotOn(r, c) \/ SwitchOff(r, c)
    BY <2>2 DEF Upload, LookSlot, LookSlotOn, SwitchOff, Start
  <2> QED
    BY <1>3, <2>1, <2>2 DEF Arrive
<1>4. ASSUME NEW r \in Request, LockAndLook(r) \/ MaterialiseFails(r) PROVE RowsLive'
  BY <1>4 DEF LockAndLook, MaterialiseFails
<1>5. ASSUME NEW r \in Request, Materialise(r) PROVE RowsLive'
  BY <1>5 DEF Materialise
<1>6. ASSUME NEW r \in Request, Refuse(r) \/ PassPreHandler(r) PROVE RowsLive'
  BY <1>6 DEF Refuse, PassPreHandler, CommitOrphans, CommitRows, EndTransaction, NoRows
<1>7. ASSUME NEW r \in Request, NoMeta(r) \/ CheckQuota(r) \/ RollBack(r) PROVE RowsLive'
  BY <1>7 DEF NoMeta, CheckQuota, RollBack, EndTransaction, NoRows
<1>8. ASSUME NEW r \in Request, InsertSlot(r) PROVE RowsLive'
  <2>1. target[r] \in Config
    BY <1>8 DEF InsertSlot, Targets
  <2>2. \A c \in Config : pending'[c] = 0 /\ stored'[c] = stored[c]
    BY <1>8 DEF InsertSlot, EndTransaction, NoRows
  <2>3. \A c \in Config : rows'[c] # 0 => rows[c] # 0 \/ pending[c] # 0 \/ c = target[r]
    BY <1>8 DEF InsertSlot, CommitRows
  <2>4. \A c \in Config : rows[c] # 0 => rows'[c] # 0
    BY <1>8, <2>1 DEF InsertSlot, CommitRows
  <2> QED
    BY <1>8, <2>1, <2>2, <2>3, <2>4 DEF InsertSlot
<1>9. ASSUME NEW r \in Request, OtherStep(r) PROVE RowsLive'
  <2>1. CASE UpsertEdited(r)
    BY <2>1 DEF UpsertEdited, PutRow, Targets
  <2>2. CASE EditFails(r) \/ CheckAlwaysOn(r) \/ SetAlwaysOn(r)
    BY <2>2 DEF EditFails, CheckAlwaysOn, SetAlwaysOn
  <2> QED
    BY <1>9, <2>1, <2>2 DEF OtherStep
<1> QED
  BY <1>1, <1>2, <1>3, <1>4, <1>5, <1>6, <1>7, <1>8, <1>9 DEF Next, UploadStep, vars

\* What a switch has looked at stays while its config does.
LEMMA RowsKeptPreserved ==
  TypeOK /\ Targets /\ RowsLive /\ RowsKept /\ [Next]_vars => RowsKept'
<1> SUFFICES ASSUME TypeOK, Targets, RowsLive, RowsKept, [Next]_vars PROVE RowsKept'
  OBVIOUS
<1> USE DEF TypeOK, RowsKept, Switching, Exists, configVars, slotVars, lockVars, requestVars,
            checkVars, Goto
<1>1. ASSUME NEW c \in Config, NEW n \in Sizes, CreateConfig(c, n) PROVE RowsKept'
  BY <1>1 DEF CreateConfig, Targets
<1>2. ASSUME NEW c \in Config, Age(c) \/ DeleteConfig(c) PROVE RowsKept'
  BY <1>2 DEF Age, DeleteConfig, Targets
<1>3. ASSUME NEW r \in Request, NEW c \in Config, Arrive(r, c) PROVE RowsKept'
  <2>1. CASE \E n \in Sizes : Edit(r, c, n)
    BY <2>1, SlotConstants DEF Edit, Start, Targets
  <2>2. CASE Upload(r, c) \/ SwitchOff(r, c)
    BY <2>2 DEF Upload, SwitchOff, Start
  <2>3. CASE LookSlot(r, c) \/ LookSlotOn(r, c)
    BY <2>3 DEF LookSlot, LookSlotOn, Start, Targets, RowsLive
  <2> QED
    BY <1>3, <2>1, <2>2, <2>3 DEF Arrive
<1>4. ASSUME NEW r \in Request, LockAndLook(r) \/ Materialise(r) \/ MaterialiseFails(r)
      PROVE RowsKept'
  BY <1>4 DEF LockAndLook, Materialise, MaterialiseFails
<1>6. ASSUME NEW r \in Request, Refuse(r) \/ PassPreHandler(r) PROVE RowsKept'
  <2>1. \A c \in Config : rows[c] # 0 => rows'[c] # 0
    BY <1>6 DEF Refuse, PassPreHandler, CommitOrphans, CommitRows
  <2>2. stored' = stored /\ target' = target
    BY <1>6 DEF Refuse, PassPreHandler, CommitOrphans
  <2>3. Switching' = Switching
    BY <1>6 DEF Refuse, PassPreHandler, Locked
  <2> QED
    BY <2>1, <2>2, <2>3, Targets DEF Targets
<1>7. ASSUME NEW r \in Request, NoMeta(r) \/ CheckQuota(r) \/ RollBack(r) PROVE RowsKept'
  BY <1>7 DEF NoMeta, CheckQuota, RollBack
<1>8. ASSUME NEW r \in Request, InsertSlot(r) PROVE RowsKept'
  <2>1. target[r] \in Config
    BY <1>8 DEF InsertSlot, Targets
  <2>2. \A c \in Config : rows[c] # 0 => rows'[c] # 0
    BY <1>8, <2>1 DEF InsertSlot, CommitRows
  <2>3. stored' = stored /\ target' = target /\ Switching' = Switching
    BY <1>8 DEF InsertSlot
  <2> QED
    BY <2>2, <2>3, Targets DEF Targets
<1>9. ASSUME NEW r \in Request, OtherStep(r) PROVE RowsKept'
  <2>1. CASE UpsertEdited(r)
    BY <2>1 DEF UpsertEdited, PutRow, Targets
  <2>2. CASE EditFails(r) \/ CheckAlwaysOn(r) \/ SetAlwaysOn(r)
    BY <2>2 DEF EditFails, CheckAlwaysOn, SetAlwaysOn
  <2> QED
    BY <1>9, <2>1, <2>2 DEF OtherStep
<1> QED
  BY <1>1, <1>2, <1>3, <1>4, <1>6, <1>7, <1>8, <1>9 DEF Next, UploadStep, vars

\* An admission outlives every step but its own.
LEMMA AdmittedPreserved ==
  TypeOK /\ LockHeld /\ Targets /\ AdmittedFits /\ [Next]_vars => AdmittedFits'
<1> SUFFICES ASSUME TypeOK, LockHeld, Targets, AdmittedFits, [Next]_vars,
                    NEW q \in Request, pc'[q] = "admitted"
             PROVE todo' = {} /\ used' + pendingSum' + size'[q] <= Allowance + unchecked'
  BY DEF AdmittedFits
<1> DEFINE Fit == todo' = {} /\ used' + pendingSum' + size'[q] <= Allowance + unchecked'
<1> USE DEF TypeOK, LockHeld, InTransaction, AdmittedFits, configVars, slotVars, lockVars,
            requestVars, checkVars, Goto
<1>n. size[q] \in Nat
  BY Numbers
<1>1. CASE \E c \in Config : Age(c) \/ (\E n \in Sizes : CreateConfig(c, n))
  BY <1>1 DEF CreateConfig, Age
<1>2. ASSUME NEW c \in Config, DeleteConfig(c) PROVE Fit
  <2>1. rows[c] \in Nat
    BY Numbers
  <2> QED
    BY <1>2, <1>n, <2>1, SlotConstants DEF DeleteConfig
<1>3. ASSUME NEW r \in Request, NEW c \in Config, Arrive(r, c) PROVE Fit
  <2>1. /\ r # q /\ pc[q] = "admitted" /\ size'[q] = size[q]
        /\ UNCHANGED <<todo, used, pendingSum, unchecked>>
    BY <1>3 DEF Arrive, Upload, LookSlot, LookSlotOn, SwitchOff, Edit, Start
  <2> QED
    BY <2>1
<1>4. ASSUME NEW r \in Request,
             \/ LockAndLook(r) \/ Materialise(r) \/ MaterialiseFails(r) \/ Refuse(r)
             \/ PassPreHandler(r) \/ RollBack(r) \/ InsertSlot(r)
      PROVE Fit
  <2>1. CASE LockAndLook(r)
    BY <2>1, SlotConstants DEF LockAndLook
  <2>2. CASE Materialise(r) \/ MaterialiseFails(r)
    BY <2>2 DEF Materialise, MaterialiseFails, Locked
  <2>3. CASE Refuse(r) \/ PassPreHandler(r)
    BY <2>3 DEF Refuse, PassPreHandler, Locked
  <2>4. CASE RollBack(r) \/ InsertSlot(r)
    BY <2>4 DEF RollBack, InsertSlot, Locked, Aborted
  <2> QED
    BY <1>4, <2>1, <2>2, <2>3, <2>4
<1>5. ASSUME NEW r \in Request, CheckQuota(r) PROVE Fit
  <2>1. r = q
    BY <1>5 DEF CheckQuota, Locked
  <2> QED
    BY <1>5, <1>n, <2>1, SlotConstants DEF CheckQuota, Fits
<1>6. ASSUME NEW r \in Request, NoMeta(r) \/ EditFails(r) \/ CheckAlwaysOn(r) \/ SetAlwaysOn(r)
      PROVE Fit
  <2>1. pc[q] = "admitted" /\ UNCHANGED <<todo, used, pendingSum, unchecked, size>>
    BY <1>6 DEF NoMeta, EditFails, CheckAlwaysOn, SetAlwaysOn
  <2> QED
    BY <2>1
<1>7. ASSUME NEW r \in Request, UpsertEdited(r) PROVE Fit
  <2>1. target[r] \in Config
    BY <1>7 DEF UpsertEdited, Targets
  <2>2. size[r] \in Nat /\ rows[target[r]] \in Nat
    BY <2>1, Numbers
  <2>3. pc[q] = "admitted" /\ UNCHANGED <<todo, pendingSum, size>>
    BY <1>7 DEF UpsertEdited
  <2>4. /\ used' = used - rows[target[r]] + size[r]
        /\ unchecked' = unchecked + Grown(target[r], size[r])
    BY <1>7 DEF UpsertEdited, PutRow
  <2> QED
    BY <1>n, <2>2, <2>3, <2>4, SlotConstants DEF Grown
<1> QED
  BY <1>1, <1>2, <1>3, <1>4, <1>5, <1>6, <1>7 DEF Next, UploadStep, OtherStep, vars

\* A switch is overtaken by every change of an always-on sum but a deletion.
LEMMA SwitchesPreserved ==
  TypeOK /\ Targets /\ RowsLive /\ RowsKept /\ SwitchesCurrent /\ [Next]_vars => SwitchesCurrent'
<1> SUFFICES ASSUME TypeOK, Targets, RowsLive, RowsKept, SwitchesCurrent, [Next]_vars,
                    NEW q \in Request
             PROVE SwitchCurrent(q)'
  BY DEF SwitchesCurrent
<1> USE DEF TypeOK, SwitchesCurrent, SwitchCurrent, configVars, slotVars, lockVars,
            requestVars, checkVars, Goto
<1>n. size[q] \in Nat /\ \A c \in Config : rows[c] \in Nat
  BY Numbers
<1>1. CASE \E c \in Config : Age(c) \/ (\E n \in Sizes : CreateConfig(c, n))
  BY <1>1 DEF CreateConfig, Age
<1>2. ASSUME NEW c \in Config, DeleteConfig(c) PROVE SwitchCurrent(q)'
  <2>1. CASE target[q] = c
    BY <1>2, <2>1 DEF DeleteConfig
  <2>2. CASE target[q] # c
    <3>1. rows'[target[q]] = rows[target[q]] \/ pc[q] = "new"
      BY <1>2, <2>2 DEF DeleteConfig, Targets
    <3>2. aoUsed' <= aoUsed
      BY <1>2, <1>n DEF DeleteConfig
    <3> QED
      BY <1>2, <2>2, <3>1, <3>2, <1>n, SlotConstants DEF DeleteConfig
  <2> QED
    BY <2>1, <2>2
<1>3. ASSUME NEW r \in Request, NEW c \in Config, Arrive(r, c) PROVE SwitchCurrent(q)'
  <2>1. CASE LookSlot(r, c) \/ LookSlotOn(r, c)
    BY <2>1 DEF LookSlot, LookSlotOn, Start
  <2>2. CASE Upload(r, c) \/ \E n \in Sizes : Edit(r, c, n)
    BY <2>2 DEF Upload, Edit, Start
  <2>3. CASE SwitchOff(r, c)
    BY <2>3 DEF SwitchOff, Start, Switching
  <2> QED
    BY <1>3, <2>1, <2>2, <2>3 DEF Arrive
<1>4. ASSUME NEW r \in Request, Refuse(r) \/ PassPreHandler(r) PROVE SwitchCurrent(q)'
  <2>1. /\ \A c \in Config : rows'[c] = IF pending[c] # 0 THEN pending[c] ELSE rows[c]
        /\ UNCHANGED <<always, aoUsed, aoUnchecked, overtaken, target, size>>
    BY <1>4 DEF Refuse, PassPreHandler, CommitOrphans, CommitRows
  <2>2. pc'[q] \in {"counted", "switching"} => pc[q] = pc'[q]
    BY <1>4 DEF Refuse, PassPreHandler, Locked
  <2>3. ASSUME q \in Switching PROVE rows'[target[q]] = rows[target[q]]
    <3>1. target[q] \in Config /\ (rows[target[q]] # 0 \/ ~Exists(target[q]))
      BY <2>3 DEF Switching, Targets, RowsKept
    <3> QED
      BY <2>1, <3>1 DEF RowsLive
  <2> QED
    BY <2>1, <2>2, <2>3 DEF Switching
<1>5. ASSUME NEW r \in Request, InsertSlot(r) PROVE SwitchCurrent(q)'
  BY <1>5 DEF InsertSlot, Switching
<1>6. ASSUME NEW r \in Request,
             \/ LockAndLook(r) \/ Materialise(r) \/ MaterialiseFails(r) \/ NoMeta(r)
             \/ CheckQuota(r) \/ RollBack(r) \/ EditFails(r)
      PROVE SwitchCurrent(q)'
  <2>1. /\ pc'[q] \in {"counted", "switching"} => pc[q] = pc'[q]
        /\ UNCHANGED <<rows, always, aoUsed, aoUnchecked, overtaken, target, size>>
    BY <1>6 DEF LockAndLook, Materialise, MaterialiseFails, NoMeta, CheckQuota, RollBack, EditFails
  <2> QED
    BY <2>1
<1>7. ASSUME NEW r \in Request, UpsertEdited(r) PROVE SwitchCurrent(q)'
  BY <1>7 DEF UpsertEdited, PutRow, Switching
<1>8. ASSUME NEW r \in Request, CheckAlwaysOn(r) PROVE SwitchCurrent(q)'
  <2>1. UNCHANGED <<rows, always, aoUsed, aoUnchecked, overtaken, target, size>>
    BY <1>8 DEF CheckAlwaysOn
  <2>2. pc'[q] = "counted" => pc[q] = "counted"
    BY <1>8 DEF CheckAlwaysOn
  <2>3. pc'[q] = "switching" =>
          \/ pc[q] = "switching"
          \/ pc[q] = "counted" /\ aoUsed + size[q] <= AoAllowance
    BY <1>8 DEF CheckAlwaysOn, FitsAo
  <2> QED
    BY <1>n, <2>1, <2>2, <2>3, SlotConstants
<1>9. ASSUME NEW r \in Request, SetAlwaysOn(r) PROVE SwitchCurrent(q)'
  <2>1. CASE rows[target[r]] = 0
    BY <1>9, <2>1 DEF SetAlwaysOn
  <2>2. CASE rows[target[r]] # 0
    BY <1>9, <2>2 DEF SetAlwaysOn, Switching
  <2> QED
    BY <2>1, <2>2
<1> QED
  BY <1>1, <1>2, <1>3, <1>4, <1>5, <1>6, <1>7, <1>8, <1>9 DEF Next, UploadStep, OtherStep, vars

\* The reconcile's result stands until the transaction ends.
LEMMA OrphansPreserved ==
  TypeOK /\ LockHeld /\ Targets /\ OrphansCounted /\ [Next]_vars => OrphansCounted'
<1> SUFFICES ASSUME TypeOK, LockHeld, Targets, OrphansCounted, [Next]_vars,
                    NEW q \in Request, NEW o \in orphans' \ todo',
                    holder' = q, (Locked(q) \/ pc[q] = "admitted")'
             PROVE (pending[o] # 0 \/ rows[o] # 0 \/ ~Exists(o))'
  BY DEF OrphansCounted
<1> DEFINE Found == (pending[o] # 0 \/ rows[o] # 0 \/ ~Exists(o))'
<1> USE DEF TypeOK, OrphansCounted, Locked, Exists, configVars, slotVars, lockVars,
            requestVars, checkVars, Goto
<1>1. ASSUME NEW c \in Config, Age(c) \/ (\E n \in Sizes : CreateConfig(c, n)) PROVE Found
  BY <1>1 DEF CreateConfig, Age
<1>2. ASSUME NEW c \in Config, DeleteConfig(c) PROVE Found
  BY <1>2 DEF DeleteConfig
<1>3. ASSUME NEW r \in Request, NEW c \in Config, Arrive(r, c) PROVE Found
  <2>1. ASSUME NEW n \in Sizes, Edit(r, c, n) PROVE Found
    <3>1. pc[q] = pc'[q] /\ UNCHANGED <<holder, pending, rows, orphans, todo>>
      BY <2>1 DEF Edit, Start
    <3>2. stored'[o] # 0 => stored[o] # 0 \/ o = c
      BY <2>1 DEF Edit
    <3> QED
      BY <2>1, <3>1, <3>2 DEF Edit
  <2>2. CASE Upload(r, c) \/ LookSlot(r, c) \/ LookSlotOn(r, c) \/ SwitchOff(r, c)
    BY <2>2 DEF Upload, LookSlot, LookSlotOn, SwitchOff, Start
  <2> QED
    BY <1>3, <2>1, <2>2 DEF Arrive
<1>4. ASSUME NEW r \in Request, LockAndLook(r) \/ MaterialiseFails(r) PROVE Found
  <2>1. CASE LockAndLook(r)
    BY <2>1 DEF LockAndLook
  <2>2. CASE MaterialiseFails(r)
    BY <2>2 DEF MaterialiseFails
  <2> QED
    BY <1>4, <2>1, <2>2
<1>5. ASSUME NEW r \in Request, Materialise(r) PROVE Found
  <2>1. PICK c \in todo : /\ Exists(c) /\ todo' = todo \ {c}
                          /\ rows[c] = 0 => pending' = [pending EXCEPT ![c] = stored[c]]
                          /\ rows[c] # 0 => pending' = pending
    BY <1>5 DEF Materialise
  <2>2. r = q /\ holder = q /\ Locked(q) /\ UNCHANGED <<rows, orphans, pc, stored>>
    BY <1>5 DEF Materialise
  <2>3. CASE o = c
    BY <2>1, <2>2, <2>3
  <2>4. CASE o # c
    <3>1. o \in orphans \ todo
      BY <2>1, <2>2, <2>4
    <3>2. pending[o] # 0 \/ rows[o] # 0 \/ ~Exists(o)
      BY <2>2, <3>1
    <3>3. pending'[o] = pending[o]
      BY <2>1, <2>4, <3>1
    <3> QED
      BY <2>2, <3>2, <3>3
  <2> QED
    BY <2>3, <2>4
<1>6. ASSUME NEW r \in Request,
             Refuse(r) \/ PassPreHandler(r) \/ RollBack(r) \/ InsertSlot(r)
      PROVE Found
  <2>1. holder' = None
    BY <1>6 DEF Refuse, PassPreHandler, RollBack, InsertSlot, CommitOrphans, EndTransaction
  <2> QED
    BY <2>1, SlotConstants
<1>7. ASSUME NEW r \in Request, NoMeta(r) \/ CheckQuota(r) PROVE Found
  BY <1>7 DEF NoMeta, CheckQuota
<1>8. ASSUME NEW r \in Request, OtherStep(r) PROVE Found
  <2>1. CASE UpsertEdited(r)
    BY <2>1 DEF UpsertEdited, PutRow, Targets
  <2>2. CASE EditFails(r) \/ CheckAlwaysOn(r) \/ SetAlwaysOn(r)
    BY <2>2 DEF EditFails, CheckAlwaysOn, SetAlwaysOn
  <2> QED
    BY <1>8, <2>1, <2>2 DEF OtherStep
<1>9. CASE UNCHANGED vars
  BY <1>9 DEF vars
<1> QED
  BY <1>1, <1>2, <1>3, <1>4, <1>5, <1>6, <1>7, <1>8, <1>9 DEF Next, UploadStep

\* SlotsInv holds always: it starts true and every step keeps it.
THEOREM SlotsInvariant == Spec => []SlotsInv
<1>1. SlotsInv /\ [Next]_vars => SlotsInv'
  BY TypePreserved, LockPreserved, TargetsPreserved, RowsLivePreserved, RowsKeptPreserved,
     AdmittedPreserved, SwitchesPreserved, OrphansPreserved DEF SlotsInv
<1> QED
  BY InitInv, <1>1, PTL DEF Spec

-----------------------------------------------------------------------------
(* What the runs check *)

\* The types of the rows, of the lock and of the requests.
THEOREM TypeCorrect == Spec => []TypeOK
<1>1. SlotsInv => TypeOK
  BY DEF SlotsInv
<1> QED
  BY SlotsInvariant, <1>1, PTL

\* checkUploadQuota counts every orphan that its reconcile found.
THEOREM OrphansAreCounted == Spec => []CountsOrphans
<1>1. SlotsInv => CountsOrphans
  BY DEF SlotsInv, OrphansCounted, CountsOrphans
<1> QED
  BY SlotsInvariant, <1>1, PTL

\* A step of the slots is a step of their budget: an insert is admitted, a
\* reconciled row and an edit bypass the check, a deletion takes away.
LEMMA SlotStep ==
  SlotsInv /\ [Next]_vars =>
    [SlotBudget!Admit \/ SlotBudget!Bypass]_SlotBudget!budgetVars
<1> SUFFICES ASSUME SlotsInv, Next PROVE \/ SlotBudget!Admit \/ SlotBudget!Bypass
                                         \/ UNCHANGED <<used, unchecked>>
  BY DEF vars, slotVars, checkVars, SlotBudget!budgetVars
<1> DEFINE Refined == \/ SlotBudget!Admit \/ SlotBudget!Bypass \/ UNCHANGED <<used, unchecked>>
<1> USE DEF slotVars, checkVars, requestVars
<1>n. used \in Int /\ pendingSum \in Nat /\ unchecked \in Nat /\ Allowance \in Nat
  BY SlotConstants DEF SlotsInv, TypeOK
<1>r. /\ \A c \in Config : rows[c] \in Nat /\ pending[c] \in Nat
      /\ \A r \in Request : size[r] \in Nat
  BY Numbers DEF SlotsInv
<1>1. ASSUME NEW c \in Config, Age(c) \/ \E n \in Sizes : CreateConfig(c, n) PROVE Refined
  BY <1>1 DEF CreateConfig, Age
<1>2. ASSUME NEW c \in Config, DeleteConfig(c) PROVE Refined
  BY <1>2, <1>n, <1>r DEF DeleteConfig, SlotBudget!Bypass
<1>3. ASSUME NEW r \in Request, NEW c \in Config, Arrive(r, c) PROVE Refined
  BY <1>3 DEF Arrive, Upload, LookSlot, LookSlotOn, SwitchOff, Edit
<1>4. ASSUME NEW r \in Request,
             \/ LockAndLook(r) \/ Materialise(r) \/ MaterialiseFails(r) \/ NoMeta(r)
             \/ CheckQuota(r) \/ RollBack(r) \/ EditFails(r) \/ CheckAlwaysOn(r) \/ SetAlwaysOn(r)
      PROVE Refined
  BY <1>4 DEF LockAndLook, Materialise, MaterialiseFails, NoMeta, CheckQuota, RollBack,
              EditFails, CheckAlwaysOn, SetAlwaysOn
<1>5. ASSUME NEW r \in Request, Refuse(r) \/ PassPreHandler(r) PROVE Refined
  <2>1. used' = used + pendingSum /\ unchecked' = unchecked + pendingSum
    BY <1>5 DEF Refuse, PassPreHandler, CommitOrphans
  <2> QED
    BY <1>n, <2>1 DEF SlotBudget!Bypass
<1>6. ASSUME NEW r \in Request, InsertSlot(r) PROVE Refined
  <2>1. target[r] \in Config
    BY <1>6 DEF InsertSlot, SlotsInv, Targets
  <2>2. used + pendingSum + size[r] <= Allowance + unchecked
    BY <1>6 DEF InsertSlot, SlotsInv, AdmittedFits
  <2>3. /\ used' = used + pendingSum - pending[target[r]] - rows[target[r]] + size[r]
        /\ unchecked' = unchecked
    BY <1>6 DEF InsertSlot
  <2> QED
    BY <1>n, <1>r, <2>1, <2>2, <2>3 DEF SlotBudget!Admit
<1>7. ASSUME NEW r \in Request, UpsertEdited(r) PROVE Refined
  <2>1. target[r] \in Config
    BY <1>7 DEF UpsertEdited, SlotsInv, Targets
  <2>2. /\ used' = used - rows[target[r]] + size[r]
        /\ unchecked' = unchecked + Grown(target[r], size[r])
    BY <1>7 DEF UpsertEdited, PutRow
  <2> QED
    BY <1>n, <1>r, <2>1, <2>2 DEF SlotBudget!Bypass, Grown
<1> QED
  BY <1>1, <1>2, <1>3, <1>4, <1>5, <1>6, <1>7 DEF Next, UploadStep, OtherStep

\* Concurrent uploads never take more slots than the allowance, whatever the
\* rows that edits and refused uploads let in without a check.
THEOREM UploadsWithinAllowance == Spec => SlotsWithinBudget
<1>1. Init => SlotBudget!BudgetInit
  BY SlotConstants DEF Init, SlotBudget!BudgetInit
<1> QED
  BY SlotsInvariant, SlotStep, <1>1, PTL DEF Spec, SlotsWithinBudget, SlotBudget!BudgetSpec

\* A step of the slots is a step of the always-on budget: a switch that no one
\* has overtaken is admitted, the others and growing rows bypass the check.
LEMMA AlwaysOnStep ==
  SlotsInv /\ [Next]_vars => [AoBudget!Admit \/ AoBudget!Bypass]_AoBudget!budgetVars
<1> SUFFICES ASSUME SlotsInv, Next PROVE \/ AoBudget!Admit \/ AoBudget!Bypass
                                         \/ UNCHANGED <<aoUsed, aoUnchecked>>
  BY DEF vars, slotVars, checkVars, AoBudget!budgetVars
<1> DEFINE Refined == \/ AoBudget!Admit \/ AoBudget!Bypass \/ UNCHANGED <<aoUsed, aoUnchecked>>
<1> USE DEF slotVars, checkVars, requestVars
<1>n. aoUsed \in Int /\ aoUnchecked \in Nat /\ AoAllowance \in Nat
  BY SlotConstants DEF SlotsInv, TypeOK
<1>r. /\ \A c \in Config : rows[c] \in Nat
      /\ \A r \in Request : size[r] \in Nat
  BY Numbers DEF SlotsInv
<1>1. ASSUME NEW c \in Config, Age(c) \/ \E n \in Sizes : CreateConfig(c, n) PROVE Refined
  BY <1>1 DEF CreateConfig, Age
<1>2. ASSUME NEW c \in Config, DeleteConfig(c) PROVE Refined
  BY <1>2, <1>n, <1>r DEF DeleteConfig, AoBudget!Bypass
<1>3. ASSUME NEW r \in Request, NEW c \in Config, Arrive(r, c) PROVE Refined
  <2>1. CASE SwitchOff(r, c)
    BY <1>n, <1>r, <2>1 DEF SwitchOff, AoBudget!Bypass
  <2>2. CASE Upload(r, c) \/ LookSlot(r, c) \/ LookSlotOn(r, c) \/ \E n \in Sizes : Edit(r, c, n)
    BY <2>2 DEF Upload, LookSlot, LookSlotOn, Edit
  <2> QED
    BY <1>3, <2>1, <2>2 DEF Arrive
<1>4. ASSUME NEW r \in Request,
             \/ LockAndLook(r) \/ Materialise(r) \/ MaterialiseFails(r) \/ NoMeta(r)
             \/ CheckQuota(r) \/ RollBack(r) \/ EditFails(r) \/ CheckAlwaysOn(r)
             \/ Refuse(r) \/ PassPreHandler(r)
      PROVE Refined
  BY <1>4 DEF LockAndLook, Materialise, MaterialiseFails, NoMeta, CheckQuota, RollBack,
              EditFails, CheckAlwaysOn, Refuse, PassPreHandler, CommitOrphans
<1>5. ASSUME NEW r \in Request, InsertSlot(r) \/ UpsertEdited(r) PROVE Refined
  <2>1. target[r] \in Config
    BY <1>5 DEF InsertSlot, UpsertEdited, SlotsInv, Targets
  <2>2. /\ aoUsed' = IF target[r] \in always THEN aoUsed - rows[target[r]] + size[r] ELSE aoUsed
        /\ aoUnchecked' = aoUnchecked + GrownOn(target[r], size[r])
    BY <1>5 DEF InsertSlot, UpsertEdited, PutRow
  <2> QED
    BY <1>n, <1>r, <2>1, <2>2 DEF AoBudget!Bypass, Grown, GrownOn
<1>6. ASSUME NEW r \in Request, SetAlwaysOn(r) PROVE Refined
  <2>1. target[r] \in Config /\ pc[r] = "switching"
    BY <1>6 DEF SetAlwaysOn, SlotsInv, Targets
  <2>2. CASE rows[target[r]] = 0
    BY <1>6, <2>2 DEF SetAlwaysOn
  <2>3. CASE rows[target[r]] # 0
    <3>1. /\ aoUsed' = aoUsed + (IF target[r] \in always THEN 0 ELSE rows[target[r]])
          /\ aoUnchecked' = aoUnchecked + (IF r \in overtaken
               THEN IF target[r] \in always THEN 0 ELSE rows[target[r]] ELSE 0)
      BY <1>6, <2>3 DEF SetAlwaysOn
    <3>2. CASE r \in overtaken \/ target[r] \in always
      BY <1>n, <1>r, <2>1, <3>1, <3>2 DEF AoBudget!Bypass
    <3>3. CASE r \notin overtaken /\ target[r] \notin always
      <4>1. rows[target[r]] = size[r] /\ aoUsed + size[r] <= AoAllowance + aoUnchecked
        BY <2>1, <2>3, <3>3 DEF SlotsInv, SwitchesCurrent, SwitchCurrent
      <4> QED
        BY <1>n, <1>r, <2>1, <3>1, <3>3, <4>1 DEF AoBudget!Admit
    <3> QED
      BY <3>2, <3>3
  <2> QED
    BY <2>2, <2>3
<1> QED
  BY <1>1, <1>2, <1>3, <1>4, <1>5, <1>6 DEF Next, UploadStep, OtherStep

\* Always-on slots exceed their allowance only by rows that grow while on and
\* by switches whose count another change has made stale.
THEOREM AlwaysOnWithinAllowance == Spec => AlwaysOnWithinBudget
<1>1. Init => AoBudget!BudgetInit
  BY SlotConstants DEF Init, AoBudget!BudgetInit
<1> QED
  BY SlotsInvariant, AlwaysOnStep, <1>1, PTL DEF Spec, AlwaysOnWithinBudget, AoBudget!BudgetSpec

=============================================================================
