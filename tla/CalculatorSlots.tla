--------------------------- MODULE CalculatorSlots ---------------------------
(***************************************************************************)
(* The slots of one account: calculator_slots as formula-api keeps it.     *)
(* An upload (POST /calculator) counts and inserts under an advisory lock, *)
(* a data change (PATCH /calculator/:id) upserts without one, and the      *)
(* always-on switch checks in one statement and writes in another.  Each   *)
(* count first gives a row to every config that has waited 30 seconds for  *)
(* one.  The CMS owns the configs: it creates, edits and deletes them.     *)
(*                                                                         *)
(* A transaction's own inserts stay in pending until COMMIT; only the      *)
(* holder of the advisory lock has any.  The table's readers take two sums *)
(* from it, used and aoUsed.  feature_quotas does not change here.         *)
(***************************************************************************)
EXTENDS Integers, FiniteSets

CONSTANTS
  Config,      \* calculator_configs of the account, tests excluded
  Request,     \* requests, each served once
  Sizes,       \* SLOTS_FOR_CLASS
  Allowance,   \* feature_quotas.slot_allowance
  AoAllowance, \* feature_quotas.ao_allowance
  None         \* no request, no config

ASSUME SlotConstants ==
  /\ Sizes \subseteq Nat \ {0}
  /\ Allowance \in Nat /\ AoAllowance \in Nat
  /\ None \notin Request /\ None \notin Config

VARIABLES
  stored,     \* the size of each config's sheets and formulas, 0 without one
  aged,       \* configs older than ORPHAN_GRACE_SECONDS
  rows,       \* slots_consumed, 0 without a row
  always,     \* is_always_on
  used,       \* SUM(slots_consumed)
  aoUsed,     \* SUM(slots_consumed) FILTER (WHERE is_always_on)
  holder,     \* the request holding pg_advisory_xact_lock
  pending,    \* rows its transaction has inserted
  pendingSum, \* and their sum
  orphans,    \* configs it found without a row
  todo,       \* and has yet to insert
  pc,         \* the statement each request is at
  target,     \* the config of each request
  size,       \* the slots it needs
  unchecked,  \* history: slots that came in without a quota check
  aoUnchecked,\* history: always-on slots that did
  overtaken   \* history: switches whose count is out of date

configVars == <<stored, aged>>
slotVars == <<rows, always, used, aoUsed>>
lockVars == <<holder, pending, pendingSum, orphans, todo>>
requestVars == <<target, size>>
checkVars == <<unchecked, aoUnchecked, overtaken>>
vars == <<configVars, slotVars, lockVars, pc, requestVars, checkVars>>

NoRows == [c \in Config |-> 0]

Init ==
  /\ stored = NoRows /\ aged = {}
  /\ rows = NoRows /\ always = {} /\ used = 0 /\ aoUsed = 0
  /\ holder = None /\ pending = NoRows /\ pendingSum = 0
  /\ orphans = {} /\ todo = {}
  /\ pc = [r \in Request |-> "new"]
  /\ target = [r \in Request |-> None]
  /\ size = [r \in Request |-> 0]
  /\ unchecked = 0 /\ aoUnchecked = 0 /\ overtaken = {}

-----------------------------------------------------------------------------
(* The CMS and the clock *)

Exists(c) == stored[c] # 0

\* A config that no request and no transaction knows of.
CreateConfig(c, n) ==
  /\ ~Exists(c) /\ rows[c] = 0 /\ c \notin orphans
  /\ \A r \in Request : target[r] = c => pc[r] = "done"
  /\ stored' = [stored EXCEPT ![c] = n]
  /\ UNCHANGED <<aged, slotVars, lockVars, pc, requestVars, checkVars>>

Age(c) ==
  /\ Exists(c) /\ c \notin aged
  /\ aged' = aged \cup {c}
  /\ UNCHANGED <<stored, slotVars, lockVars, pc, requestVars, checkVars>>

\* ON DELETE CASCADE takes the row.  A transaction that has inserted a row
\* for the config holds a key lock on it.
DeleteConfig(c) ==
  /\ Exists(c) /\ pending[c] = 0
  /\ stored' = [stored EXCEPT ![c] = 0]
  /\ aged' = aged \ {c}
  /\ rows' = [rows EXCEPT ![c] = 0]
  /\ always' = always \ {c}
  /\ used' = used - rows[c]
  /\ aoUsed' = aoUsed - (IF c \in always THEN rows[c] ELSE 0)
  /\ UNCHANGED <<lockVars, pc, requestVars, checkVars>>

-----------------------------------------------------------------------------
(* Requests *)

Goto(r, place) == pc' = [pc EXCEPT ![r] = place]

Start(r, c, n, place) ==
  /\ pc[r] = "new"
  /\ target' = [target EXCEPT ![r] = c]
  /\ size' = [size EXCEPT ![r] = n]
  /\ Goto(r, place)

Grown(c, n) == IF n > rows[c] THEN n - rows[c] ELSE 0
GrownOn(c, n) == IF c \in always THEN Grown(c, n) ELSE 0

Switching == {r \in Request : pc[r] \in {"counted", "switching"}}

\* A row of c changes to n: an upsert that leaves is_always_on alone.
PutRow(c, n) ==
  /\ rows' = [rows EXCEPT ![c] = n]
  /\ used' = used - rows[c] + n
  /\ aoUsed' = IF c \in always THEN aoUsed - rows[c] + n ELSE aoUsed
  /\ aoUnchecked' = aoUnchecked + GrownOn(c, n)
  /\ overtaken' = overtaken \cup Switching

-----------------------------------------------------------------------------
(* POST /calculator: two transactions under the advisory lock.  The first, *)
(* of the preHandler, only counts; the second counts and inserts.          *)

Upload(r, c) ==
  /\ Exists(c)
  /\ Start(r, c, stored[c], "pre")
  /\ UNCHANGED <<configVars, slotVars, lockVars, checkVars>>

Locked(r) == pc[r] \in {"preLocked", "locked"}
Aborted(r) == pc[r] \in {"preAborted", "aborted"}

\* The configs that the first SELECT finds.
OrphansNow == {c \in aged : rows[c] = 0}

\* BEGIN, the lock, and reconcileOrphanedSlots' SELECT.
LockAndLook(r) ==
  /\ pc[r] \in {"pre", "main"}
  /\ holder = None /\ holder' = r
  /\ orphans' = OrphansNow
  /\ todo' = OrphansNow
  /\ Goto(r, IF pc[r] = "pre" THEN "preLocked" ELSE "locked")
  /\ UNCHANGED <<configVars, slotVars, pending, pendingSum, requestVars, checkVars>>

\* INSERT .. ON CONFLICT DO NOTHING, for one orphan.
Materialise(r) ==
  /\ Locked(r) /\ holder = r
  /\ \E c \in todo :
       /\ Exists(c)
       /\ todo' = todo \ {c}
       /\ IF rows[c] = 0
          THEN /\ pending' = [pending EXCEPT ![c] = stored[c]]
               /\ pendingSum' = pendingSum + stored[c]
          ELSE UNCHANGED <<pending, pendingSum>>
  /\ UNCHANGED <<configVars, slotVars, holder, orphans, pc, requestVars, checkVars>>

\* Mutant: the catch keeps the transaction usable.
SkipOrphan(r) ==
  /\ Locked(r) /\ holder = r
  /\ \E c \in todo : todo' = todo \ {c}
  /\ UNCHANGED <<configVars, slotVars, holder, pending, pendingSum, orphans, pc,
                 requestVars, checkVars>>

\* The INSERT fails, as when its config is gone.  The loop goes on, but
\* PostgreSQL has aborted the transaction.
MaterialiseFails(r) ==
  /\ Locked(r) /\ holder = r
  /\ \E c \in todo : todo' = todo \ {c}
  /\ Goto(r, IF pc[r] = "preLocked" THEN "preAborted" ELSE "aborted")
  /\ UNCHANGED <<configVars, slotVars, holder, pending, pendingSum, orphans,
                 requestVars, checkVars>>

EndTransaction ==
  /\ holder' = None /\ pending' = NoRows /\ pendingSum' = 0
  /\ orphans' = {} /\ todo' = {}

\* What COMMIT makes of the transaction's rows, with the target's at n.
CommitRows(f) ==
  rows' = [c \in Config |-> IF f[c] # 0 THEN f[c] ELSE rows[c]]

\* Mutant: what the reconcile has inserted is not counted.
FitsCommitted(r) == used + size[r] <= Allowance

\* _quotaQuery reads the transaction's own inserts, and the target's old row.
Fits(r) == used + pendingSum + size[r] <= Allowance

\* COMMIT without an insert of the request's own.
CommitOrphans ==
  /\ CommitRows(pending)
  /\ used' = used + pendingSum
  /\ unchecked' = unchecked + pendingSum
  /\ UNCHANGED <<configVars, always, aoUsed, aoUnchecked, overtaken, requestVars>>
  /\ EndTransaction

\* Over quota: 402.
Refuse(r) ==
  /\ Locked(r) /\ holder = r /\ todo = {} /\ ~Fits(r)
  /\ Goto(r, "done")
  /\ CommitOrphans

\* The preHandler lets the request through; the calculator is built and put
\* into memory and Redis before the second transaction.
PassPreHandler(r) ==
  /\ pc[r] = "preLocked" /\ holder = r /\ todo = {} /\ Fits(r)
  /\ Goto(r, "main")
  /\ CommitOrphans

\* loadCalculatorConfigMeta finds no config: 201 without a slot.
NoMeta(r) ==
  /\ pc[r] = "main" /\ ~Exists(target[r])
  /\ Goto(r, "done")
  /\ UNCHANGED <<configVars, slotVars, lockVars, requestVars, checkVars>>

CheckQuota(r) ==
  /\ pc[r] = "locked" /\ holder = r /\ todo = {} /\ Fits(r)
  /\ Goto(r, "admitted")
  /\ UNCHANGED <<configVars, slotVars, lockVars, requestVars, checkVars>>

\* upsertCalculatorSlot and COMMIT: the orphans that were counted come with it.
InsertSlot(r) ==
  LET c == target[r]
  IN  /\ pc[r] = "admitted" /\ holder = r /\ Exists(c)
      /\ CommitRows([pending EXCEPT ![c] = size[r]])
      /\ used' = used + pendingSum - pending[c] - rows[c] + size[r]
      /\ aoUsed' = IF c \in always THEN aoUsed - rows[c] + size[r] ELSE aoUsed
      /\ aoUnchecked' = aoUnchecked + GrownOn(c, size[r])
      /\ overtaken' = overtaken \cup Switching
      /\ Goto(r, "done")
      /\ EndTransaction
      /\ UNCHANGED <<configVars, always, requestVars, unchecked>>

\* A statement fails, in the second transaction also the upsert for a config
\* that is gone: ROLLBACK.  The preHandler answers 500; the handler logs the
\* error and answers 201 all the same.
RollBack(r) ==
  /\ Locked(r) \/ Aborted(r) \/ pc[r] = "admitted"
  /\ holder = r
  /\ Goto(r, "done")
  /\ EndTransaction
  /\ UNCHANGED <<configVars, slotVars, requestVars, checkVars>>

-----------------------------------------------------------------------------
(* PATCH /calculator/:id with new data *)

\* The CMS stores the config, then sends it.
Edit(r, c, n) ==
  /\ Exists(c)
  /\ Start(r, c, n, "editing")
  /\ stored' = [stored EXCEPT ![c] = n]
  /\ UNCHANGED <<aged, slotVars, lockVars, checkVars>>

\* computeAndUpsertSlot waits for a row that another transaction has inserted.
UpsertEdited(r) ==
  LET c == target[r]
  IN  /\ pc[r] = "editing" /\ Exists(c) /\ pending[c] = 0
      /\ PutRow(c, size[r])
      /\ unchecked' = unchecked + Grown(c, size[r])
      /\ Goto(r, "done")
      /\ UNCHANGED <<configVars, always, lockVars, requestVars>>

\* The upsert fails, or there is no config any more: logged.
EditFails(r) ==
  /\ pc[r] = "editing"
  /\ Goto(r, "done")
  /\ UNCHANGED <<configVars, slotVars, lockVars, requestVars, checkVars>>

-----------------------------------------------------------------------------
(* PATCH /calculator/:id/always-on *)

\* is_always_on: true, for a row that is off.  The SELECT of slots_consumed.
LookSlot(r, c) ==
  /\ rows[c] # 0 /\ c \notin always
  /\ Start(r, c, rows[c], "counted")
  /\ UNCHANGED <<configVars, slotVars, lockVars, checkVars>>

\* A row that is on is set without a check, also when it is off by then.
LookSlotOn(r, c) ==
  /\ c \in always
  /\ Start(r, c, 0, "switching")
  /\ UNCHANGED <<configVars, slotVars, lockVars, checkVars>>

\* Mutant: one free always-on slot is enough for any calculator.
SomeAoLeft(r) == aoUsed < AoAllowance

FitsAo(r) == aoUsed + size[r] <= AoAllowance

\* checkAlwaysOnQuota.
CheckAlwaysOn(r) ==
  /\ pc[r] = "counted"
  /\ Goto(r, IF FitsAo(r) THEN "switching" ELSE "done")
  /\ UNCHANGED <<configVars, slotVars, lockVars, requestVars, checkVars>>

\* setAlwaysOn: 404 when the row is gone; waits for no one, since the
\* transaction that counts has only inserted rows.
SetAlwaysOn(r) ==
  LET c == target[r]
      added == IF c \in always THEN 0 ELSE rows[c]
  IN  /\ pc[r] = "switching"
      /\ Goto(r, "done")
      /\ IF rows[c] = 0
         THEN UNCHANGED <<always, aoUsed, aoUnchecked, overtaken>>
         ELSE /\ always' = always \cup {c}
              /\ aoUsed' = aoUsed + added
              /\ aoUnchecked' = aoUnchecked + (IF r \in overtaken THEN added ELSE 0)
              /\ overtaken' = overtaken \cup Switching
      /\ UNCHANGED <<configVars, rows, used, lockVars, requestVars, unchecked>>

SwitchOff(r, c) ==
  /\ c \in always
  /\ Start(r, c, 0, "done")
  /\ always' = always \ {c}
  /\ aoUsed' = aoUsed - rows[c]
  /\ overtaken' = overtaken \cup Switching
  /\ UNCHANGED <<configVars, rows, used, lockVars, unchecked, aoUnchecked>>

-----------------------------------------------------------------------------
UploadStep(r) ==
  \/ LockAndLook(r) \/ Materialise(r) \/ MaterialiseFails(r) \/ Refuse(r)
  \/ PassPreHandler(r) \/ NoMeta(r) \/ CheckQuota(r) \/ InsertSlot(r)
  \/ RollBack(r)

OtherStep(r) ==
  UpsertEdited(r) \/ EditFails(r) \/ CheckAlwaysOn(r) \/ SetAlwaysOn(r)

Arrive(r, c) ==
  \/ Upload(r, c) \/ LookSlot(r, c) \/ LookSlotOn(r, c) \/ SwitchOff(r, c)
  \/ \E n \in Sizes : Edit(r, c, n)

Next ==
  \/ \E c \in Config : Age(c) \/ DeleteConfig(c) \/ \E n \in Sizes : CreateConfig(c, n)
  \/ \E r \in Request : UploadStep(r) \/ OtherStep(r) \/ \E c \in Config : Arrive(r, c)

Spec == Init /\ [][Next]_vars

-----------------------------------------------------------------------------
(* Properties *)

\* The types of the rows, of the lock and of the requests.
TypeOK ==
  /\ stored \in [Config -> Sizes \cup {0}]
  /\ aged \subseteq Config
  /\ rows \in [Config -> Sizes \cup {0}]
  /\ always \subseteq Config
  /\ used \in Int /\ aoUsed \in Int
  /\ holder \in Request \cup {None}
  /\ pending \in [Config -> Sizes \cup {0}]
  /\ pendingSum \in Nat
  /\ orphans \subseteq Config /\ todo \subseteq orphans
  /\ pc \in [Request -> {"new", "pre", "preLocked", "preAborted", "main", "locked",
                         "aborted", "admitted", "editing", "counted", "switching", "done"}]
  /\ target \in [Request -> Config \cup {None}]
  /\ size \in [Request -> Sizes \cup {0}]
  /\ unchecked \in Nat /\ aoUnchecked \in Nat
  /\ overtaken \subseteq Request

SlotBudget == INSTANCE Budget WITH sum <- used, limit <- Allowance, unchecked <- unchecked
AoBudget == INSTANCE Budget WITH sum <- aoUsed, limit <- AoAllowance, unchecked <- aoUnchecked

\* Concurrent uploads never take more slots than the allowance: what a count
\* let through still fits when its row is committed, however many uploads,
\* edits, deletions and reconciled rows come in between.  Only edits, which
\* check nothing, and reconciled rows of a refused upload exceed it.
SlotsWithinBudget == SlotBudget!BudgetSpec

\* Always-on slots stay within their allowance but for rows that grow while
\* they are on and for switches that another change has overtaken.
AlwaysOnWithinBudget == AoBudget!BudgetSpec

\* No count is used that has missed an orphan: when the quota is read, each
\* config the reconcile found has a row or is gone.  An INSERT that failed
\* would be skipped by the loop, were it not for the aborted transaction.
CountsOrphans ==
  \A r \in Request :
    holder = r /\ todo = {} /\ (Locked(r) \/ pc[r] = "admitted") =>
      \A c \in orphans : pending[c] # 0 \/ rows[c] # 0 \/ ~Exists(c)
=============================================================================
