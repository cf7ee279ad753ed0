---------------------------- MODULE UsageEvents ----------------------------
(***************************************************************************)
(* The usage event pipeline: services XADD an event for every billable     *)
(* call, the CMS's consumer moves the stream into usage_events, and the    *)
(* hourly rollup, which also runs after every boot, adds the new rows to   *)
(* monthly_aggregates and publishes an invalidation.                       *)
(*                                                                         *)
(* The events of the model are the calculator calls of one account in one  *)
(* month; a call is its event, its stream entry and its row.               *)
(***************************************************************************)
EXTENDS Naturals, Sequences, SequencesExt, FiniteSets

CONSTANTS
  Call,          \* calculator calls
  Roller,        \* rollups that may run at the same time: cron and boot
  StreamMaxLen,  \* STREAM_MAXLEN of the emitters
  ReadCount,     \* the consumer's BATCH_SIZE
  RollupSize,    \* p_batch_size
  MaxIterations, \* MAX_ITERATIONS of the cron
  MayFail        \* whether Redis, the database and the CMS may fail

ASSUME UsageConstants ==
  /\ IsFiniteSet(Call)
  /\ MayFail \in BOOLEAN
  /\ {StreamMaxLen, ReadCount, RollupSize, MaxIterations} \subseteq Nat \ {0}

VARIABLES
  stream,    \* bl:usage_events:in beyond the group's last delivered entry
  trimmed,   \* history: calls whose entries MAXLEN removed undelivered
  pel,       \* entries delivered and not acknowledged
  consumer,  \* where consumeLoop is
  batch,     \* the entries it works on
  unmarked,  \* usage_events with aggregated_at NULL
  marked,    \* usage_events with aggregated_at set
  calcCalls, \* monthly_aggregates.calc_calls
  rollup,    \* where a rollup is
  picked,    \* the rows its open statement has selected
  turn,      \* iterations of its loop
  touched,   \* whether it has aggregated anything
  published  \* invalidation messages on their way

consumerVars == <<pel, consumer, batch>>
tableVars == <<unmarked, marked, calcCalls>>
rollupVars == <<rollup, picked, turn, touched>>
usageVars == <<stream, trimmed, consumerVars, tableVars, rollupVars, published>>

UsageInit ==
  /\ stream = <<>>
  /\ trimmed = {} /\ pel = {}
  /\ consumer = "reading" /\ batch = {}
  /\ unmarked = {} /\ marked = {} /\ calcCalls = 0
  /\ rollup = [r \in Roller |-> "idle"]
  /\ picked = [r \in Roller |-> {}]
  /\ turn = [r \in Roller |-> 0]
  /\ touched = [r \in Roller |-> FALSE]
  /\ published = 0

-----------------------------------------------------------------------------
(* XADD MAXLEN ~: the oldest entry may go when the stream is full *)

Emit(c) ==
  /\ \/ /\ stream' = Append(stream, c)
        /\ UNCHANGED trimmed
     \/ /\ Len(stream) >= StreamMaxLen
        /\ stream' = Append(Tail(stream), c)
        /\ trimmed' = trimmed \cup {Head(stream)}
  /\ UNCHANGED <<consumerVars, tableVars, rollupVars, published>>

-----------------------------------------------------------------------------
(* consumeLoop around processBatch *)

\* XREADGROUP with '>': entries that were never delivered.
Read ==
  /\ consumer = "reading" /\ stream # <<>>
  /\ LET n == IF Len(stream) < ReadCount THEN Len(stream) ELSE ReadCount IN
     /\ batch' = ToSet(SubSeq(stream, 1, n))
     /\ stream' = SubSeq(stream, n + 1, Len(stream))
  /\ pel' = pel \cup batch'
  /\ consumer' = "inserting"
  /\ UNCHANGED <<trimmed, tableVars, rollupVars, published>>

Insert ==
  /\ consumer = "inserting"
  /\ unmarked' = unmarked \cup batch
  /\ consumer' = "acking"
  /\ UNCHANGED <<stream, trimmed, pel, batch, marked, calcCalls, rollupVars, published>>

BackToReading == consumer' = "reading" /\ batch' = {}

\* Mutant: insertBatch swallows the error, and the batch is acknowledged.
InsertFailsAcked ==
  /\ consumer = "inserting"
  /\ consumer' = "acking"
  /\ UNCHANGED <<stream, trimmed, pel, batch, tableVars, rollupVars, published>>

\* One refused row, or the database away, fails the whole INSERT; the loop
\* sleeps and goes on with what is new.
InsertFails ==
  /\ MayFail /\ consumer = "inserting"
  /\ BackToReading
  /\ UNCHANGED <<stream, trimmed, pel, tableVars, rollupVars, published>>

\* XACK, which may fail after the INSERT.
Ack ==
  /\ consumer = "acking"
  /\ \/ pel' = pel \ batch
     \/ MayFail /\ pel' = pel
  /\ BackToReading
  /\ UNCHANGED <<stream, trimmed, tableVars, rollupVars, published>>

-----------------------------------------------------------------------------
(* buildAggregateUsageEventsCron around aggregate_usage_events *)

StartRollup(r) ==
  /\ rollup[r] = "idle"
  /\ rollup' = [rollup EXCEPT ![r] = "calling"]
  /\ turn' = [turn EXCEPT ![r] = 0]
  /\ touched' = [touched EXCEPT ![r] = FALSE]
  /\ UNCHANGED <<stream, trimmed, consumerVars, tableVars, picked, published>>

\* Mutant: the function without the lock.
NoLock(r) == TRUE

\* pg_advisory_xact_lock, held to the end of the statement's transaction.
LockFree(r) == \A q \in Roller \ {r} : rollup[q] # "rolling"

\* The statement's snapshot: its oldest rows without aggregated_at.
Pick(r) ==
  /\ rollup[r] = "calling"
  /\ LockFree(r)
  /\ \E rows \in SUBSET unmarked :
       /\ Cardinality(rows) = RollupSize \/ (rows = unmarked /\ Cardinality(rows) < RollupSize)
       /\ picked' = [picked EXCEPT ![r] = rows]
  /\ rollup' = [rollup EXCEPT ![r] = "rolling"]
  /\ UNCHANGED <<stream, trimmed, consumerVars, tableVars, turn, touched, published>>

\* UPSERT, mark and commit; an empty batch or the last iteration ends the loop.
CommitBatch(r) ==
  /\ rollup[r] = "rolling"
  /\ calcCalls' = calcCalls + Cardinality(picked[r])
  /\ marked' = marked \cup picked[r]
  /\ unmarked' = unmarked \ picked[r]
  /\ turn' = [turn EXCEPT ![r] = @ + 1]
  /\ touched' = [touched EXCEPT ![r] = @ \/ picked[r] # {}]
  /\ picked' = [picked EXCEPT ![r] = {}]
  /\ rollup' = [rollup EXCEPT ![r] =
       IF picked[r] = {} \/ turn[r] + 1 = MaxIterations THEN "publishing" ELSE "calling"]
  /\ UNCHANGED <<stream, trimmed, consumerVars, published>>

\* An error ends the loop, and skips the invalidation of what is committed.
RollupFails(r) ==
  /\ MayFail /\ rollup[r] \in {"calling", "rolling"}
  /\ rollup' = [rollup EXCEPT ![r] = "idle"]
  /\ picked' = [picked EXCEPT ![r] = {}]
  /\ UNCHANGED <<stream, trimmed, consumerVars, tableVars, turn, touched, published>>

Publish(r) ==
  /\ rollup[r] = "publishing"
  /\ published' = published + (IF touched[r] THEN 1 ELSE 0)
  /\ rollup' = [rollup EXCEPT ![r] = "idle"]
  /\ UNCHANGED <<stream, trimmed, consumerVars, tableVars, picked, turn, touched>>

-----------------------------------------------------------------------------
\* The CMS stops and starts again: its transaction is rolled back.
CmsRestarts ==
  /\ MayFail
  /\ BackToReading
  /\ rollup' = [r \in Roller |-> "idle"]
  /\ picked' = [r \in Roller |-> {}]
  /\ UNCHANGED <<stream, trimmed, pel, tableVars, turn, touched, published>>

ConsumerStep == Read \/ Insert \/ InsertFails \/ Ack

RollupStep(r) ==
  StartRollup(r) \/ Pick(r) \/ CommitBatch(r) \/ RollupFails(r) \/ Publish(r)

CmsStep == ConsumerStep \/ (\E r \in Roller : RollupStep(r)) \/ CmsRestarts

-----------------------------------------------------------------------------
(* Properties *)

\* However rollups overlap, fail or die, monthly_aggregates counts each marked
\* row once, and no row twice.
AggregateExact ==
  /\ calcCalls = Cardinality(marked)
  /\ unmarked \cap marked = {}
=============================================================================
