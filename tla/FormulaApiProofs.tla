-------------------------- MODULE FormulaApiProofs --------------------------
(***************************************************************************)
(* What the Formula API guarantees for any number of requests, workers,    *)
(* versions, calls and rollups.                                            *)
(*                                                                         *)
(* Of the usage pipeline and the calculator quota, for every size of       *)
(* stream, batch and rollup, while Redis, the database and the CMS fail as *)
(* they like: each event is in one place, so that nothing is counted       *)
(* twice, and no count is ahead of the calls that have run.                *)
(*                                                                         *)
(* Of the calculator store, in three layers.  Whoever writes: handlers,    *)
(* the messages they wait for and the answers they get fit together        *)
(* (Basics).  Until writers overlap, a deploy times out or Redis fails:    *)
(* whatever can still become the calculator is of the version that was     *)
(* deployed last (Ordered).  Until generations start over: there is one    *)
(* generation of which everything is that can be cached for the entry or   *)
(* calculated by it, and every engine that something relies on (Life).     *)
(***************************************************************************)
EXTENDS CalcQuota, Calculators, FiniteSetTheorems, SequenceTheorems, TLAPS

-----------------------------------------------------------------------------
(* Usage events and the calculator quota: the inductive invariant *)

UsageTypes ==
  /\ stream \in Seq(Call)
  /\ trimmed \subseteq Call /\ pel \subseteq Call /\ batch \subseteq Call
  /\ consumer \in {"reading", "inserting", "acking"}
  /\ unmarked \subseteq Call /\ marked \subseteq Call /\ calcCalls \in Nat
  /\ rollup \in [Roller -> {"idle", "calling", "rolling", "publishing"}]
  /\ picked \in [Roller -> SUBSET Call]
  /\ turn \in [Roller -> Nat] /\ touched \in [Roller -> BOOLEAN]
  /\ published \in Nat

QuotaTypes ==
  /\ phase \in [Call -> {"new", "selecting", "populating", "running", "refused", "done", "failed"}]
  /\ used \in [Call -> Nat]
  /\ cache \in Nat \cup {None}

\* What the consumer has read and not inserted yet.
InHand == IF consumer = "inserting" THEN batch ELSE {}

NoneTwice(s) == \A i, j \in DOMAIN s : s[i] = s[j] => i = j

\* A call has run before its event is anywhere, and the event is in one place.
EventsOnce ==
  /\ NoneTwice(stream)
  /\ ToSet(stream) \cap (InHand \cup unmarked \cup marked) = {}
  /\ InHand \cap (unmarked \cup marked) = {}
  /\ unmarked \cap marked = {}
  /\ ToSet(stream) \cup InHand \cup unmarked \cup marked \subseteq Done

\* Rows are picked by one rollup at a time, and from those without a mark.
RollupsApart ==
  /\ \A r \in Roller : picked[r] \subseteq unmarked
  /\ \A r \in Roller : rollup[r] # "rolling" => picked[r] = {}
  /\ \A q, r \in Roller : rollup[q] = "rolling" /\ rollup[r] = "rolling" => q = r

PipelineInv ==
  UsageTypes /\ EventsOnce /\ RollupsApart /\ calcCalls = Cardinality(marked)

\* No count of the month, wherever it is kept, is ahead of the calls.
CountsBehind ==
  /\ calcCalls <= Cardinality(Done)
  /\ \A c \in Call : used[c] <= Cardinality(Done)
  /\ cache # None => cache <= Cardinality(Done)

QuotaInv ==
  PipelineInv /\ QuotaTypes /\ CountsBehind /\ NeverRefusedEarly
-----------------------------------------------------------------------------
(* Streams *)

\* An entry is added at the end.
LEMMA StreamAppended ==
  ASSUME NEW s \in Seq(Call), NEW c \in Call, NoneTwice(s), c \notin ToSet(s)
  PROVE  /\ Append(s, c) \in Seq(Call)
         /\ ToSet(Append(s, c)) = ToSet(s) \cup {c}
         /\ NoneTwice(Append(s, c))
<1> DEFINE a == Append(s, c)
<1>1. /\ a \in Seq(Call) /\ Len(a) = Len(s) + 1 /\ Len(s) \in Nat
      /\ \A i \in 1..Len(s) : a[i] = s[i]
      /\ a[Len(s) + 1] = c
  BY AppendProperties, LenProperties
<1>2. DOMAIN s = 1..Len(s) /\ DOMAIN a = 1..(Len(s) + 1)
  BY <1>1, LenProperties
<1> HIDE DEF a
<1>3. \A i \in DOMAIN s : s[i] \in ToSet(s)
  BY DEF ToSet
<1>4. \A i \in DOMAIN a : (i \in DOMAIN s /\ a[i] = s[i]) \/ (i = Len(s) + 1 /\ a[i] = c)
  BY <1>1, <1>2
<1>5. Len(s) + 1 \in DOMAIN a /\ DOMAIN s \subseteq DOMAIN a
  BY <1>1, <1>2
<1>6. ToSet(a) = ToSet(s) \cup {c}
  BY <1>1, <1>2, <1>4, <1>5 DEF ToSet
<1>7. NoneTwice(a)
  BY <1>3, <1>4 DEF NoneTwice
<1>8. QED
  BY <1>1, <1>6, <1>7 DEF a

\* Without its head a stream has no entry that it did not have.
LEMMA StreamTail ==
  ASSUME NEW s \in Seq(Call), s # <<>>, NoneTwice(s)
  PROVE  /\ Tail(s) \in Seq(Call) /\ Head(s) \in Call
         /\ ToSet(Tail(s)) \subseteq ToSet(s)
         /\ NoneTwice(Tail(s))
<1>1. Tail(s) \in Seq(Call) /\ Head(s) \in Call /\ Len(Tail(s)) = Len(s) - 1
      /\ \A i \in 1..Len(Tail(s)) : Tail(s)[i] = s[i + 1]
  BY HeadTailProperties
<1>2. DOMAIN s = 1..Len(s) /\ DOMAIN Tail(s) = 1..(Len(s) - 1) /\ Len(s) \in Nat
  BY <1>1, LenProperties
<1>3. \A i \in DOMAIN Tail(s) : i + 1 \in DOMAIN s /\ Tail(s)[i] = s[i + 1]
  BY <1>1, <1>2
<1>4. ToSet(Tail(s)) \subseteq ToSet(s)
  BY <1>3 DEF ToSet
<1>5. ASSUME NEW i \in DOMAIN Tail(s), NEW j \in DOMAIN Tail(s), Tail(s)[i] = Tail(s)[j]
      PROVE  i = j
  <2>1. i + 1 = j + 1
    BY <1>3, <1>5 DEF NoneTwice
  <2>2. QED
    BY <1>2, <2>1
<1>6. QED
  BY <1>1, <1>4, <1>5 DEF NoneTwice

\* A stream that is cut in two has each entry on one side.
LEMMA StreamCut ==
  ASSUME NEW s \in Seq(Call), NoneTwice(s), NEW n \in 0..Len(s)
  PROVE  /\ SubSeq(s, n + 1, Len(s)) \in Seq(Call)
         /\ ToSet(SubSeq(s, 1, n)) \subseteq ToSet(s)
         /\ ToSet(SubSeq(s, n + 1, Len(s))) \subseteq ToSet(s)
         /\ ToSet(SubSeq(s, 1, n)) \cap ToSet(SubSeq(s, n + 1, Len(s))) = {}
         /\ NoneTwice(SubSeq(s, n + 1, Len(s)))
         /\ ToSet(s) \subseteq Call
<1> DEFINE a == SubSeq(s, 1, n)
           b == SubSeq(s, n + 1, Len(s))
           k == Len(s) - n
<1>1. Len(s) \in Nat /\ n \in Nat /\ k \in Nat /\ DOMAIN s = 1..Len(s)
      /\ \A i \in 1..Len(s) : s[i] \in Call
  BY LenProperties, ElementOfSeq
<1>2. n + 1 <= Len(s) \/ k = 0
  <2>1. Len(s) \in Nat /\ n \in Nat /\ n <= Len(s)
    BY <1>1
  <2>2. QED
    BY <2>1
<1>3. /\ a \in Seq(Call) /\ Len(a) = n
      /\ \A i \in 1..n : a[i] = s[i]
  <2>1. 1 \in Int /\ n \in Int /\ \A i \in 1..n : s[i] \in Call
    BY <1>1
  <2>2. /\ a \in Seq(Call)
        /\ Len(a) = IF 1 <= n THEN n - 1 + 1 ELSE 0
        /\ \A i \in 1..(n - 1 + 1) : a[i] = s[1 + i - 1]
    BY <2>1, SubSeqProperties
  <2> HIDE DEF a
  <2>3. QED
    BY <1>1, <2>2
<1>4. /\ b \in Seq(Call) /\ Len(b) = k
      /\ \A i \in 1..k : b[i] = s[n + i]
  <2> DEFINE m == n + 1
             l == Len(s)
  <2>1. m \in Int /\ l \in Int /\ \A i \in m..l : s[i] \in Call
    BY <1>1
  <2> HIDE DEF m, l
  <2>2. /\ SubSeq(s, m, l) \in Seq(Call)
        /\ Len(SubSeq(s, m, l)) = IF m <= l THEN l - m + 1 ELSE 0
        /\ \A i \in 1..(l - m + 1) : SubSeq(s, m, l)[i] = s[m + i - 1]
    BY <2>1, SubSeqProperties
  <2>3. b = SubSeq(s, m, l)
    BY DEF m, l
  <2> HIDE DEF b
  <2>4. /\ b \in Seq(Call)
        /\ Len(b) = IF n + 1 <= Len(s) THEN Len(s) - (n + 1) + 1 ELSE 0
        /\ \A i \in 1..(Len(s) - (n + 1) + 1) : b[i] = s[n + 1 + i - 1]
    BY <2>2, <2>3 DEF m, l
  <2>5. k = Len(s) - (n + 1) + 1 /\ (n + 1 <= Len(s) <=> k > 0)
    BY <1>1
  <2>6. \A i \in 1..k : n + 1 + i - 1 = n + i
    BY <1>1
  <2> HIDE DEF k
  <2>7. Len(b) = k
    <3>1. CASE n + 1 <= Len(s)
      BY <2>4, <2>5, <3>1, Zenon
    <3>2. CASE ~(n + 1 <= Len(s))
      BY <1>2, <2>4, <3>2, Zenon
    <3>3. QED
      BY <3>1, <3>2
  <2>8. QED
    BY <2>4, <2>5, <2>6, <2>7
<1>5. DOMAIN a = 1..n /\ DOMAIN b = 1..k
  BY <1>3, <1>4, LenProperties
<1> HIDE DEF a, b
<1>6. /\ \A i \in DOMAIN a : i \in DOMAIN s /\ a[i] = s[i] /\ i <= n
      /\ \A i \in DOMAIN b : n + i \in DOMAIN s /\ b[i] = s[n + i] /\ n + i > n
  BY <1>1, <1>3, <1>4, <1>5
<1>7. ToSet(a) \subseteq ToSet(s) /\ ToSet(b) \subseteq ToSet(s)
  BY <1>6 DEF ToSet
<1>8. ASSUME NEW x \in ToSet(a), x \in ToSet(b) PROVE FALSE
  <2>1. PICK i \in DOMAIN a, j \in DOMAIN b : a[i] = x /\ b[j] = x
    BY <1>8 DEF ToSet
  <2>2. i = n + j
    BY <1>6, <2>1 DEF NoneTwice
  <2>3. QED
    BY <1>1, <1>5, <1>6, <2>1, <2>2
<1>9. ASSUME NEW i \in DOMAIN b, NEW j \in DOMAIN b, b[i] = b[j] PROVE i = j
  <2>1. n + i = n + j
    BY <1>6, <1>9 DEF NoneTwice
  <2>2. QED
    BY <1>1, <1>5, <2>1
<1>10. ToSet(s) \subseteq Call
  BY <1>1 DEF ToSet
<1>11. QED
  BY <1>4, <1>7, <1>8, <1>9, <1>10 DEF NoneTwice, a, b

-----------------------------------------------------------------------------
(* The pipeline *)

\* Nothing has happened.
LEMMA PipelineInit == UsageInit => PipelineInv
<1> SUFFICES ASSUME UsageInit PROVE PipelineInv
  OBVIOUS
<1>1. stream \in Seq(Call) /\ DOMAIN stream = {}
  BY EmptySeq DEF UsageInit
<1>2. ToSet(stream) = {}
  BY <1>1 DEF ToSet
<1>3. Cardinality({}) = 0
  BY FS_EmptySet
<1>4. QED
  BY <1>1, <1>2, <1>3
     DEF UsageInit, PipelineInv, UsageTypes, EventsOnce, NoneTwice, InHand, RollupsApart

\* Only the calls go on.
LEMMA PipelineQuiet ==
  ASSUME PipelineInv, Done \subseteq Done',
         UNCHANGED <<stream, trimmed, consumerVars, tableVars, rollupVars>>,
         published' \in Nat
  PROVE  PipelineInv'
BY DEF PipelineInv, UsageTypes, EventsOnce, InHand, NoneTwice, RollupsApart,
       consumerVars, tableVars, rollupVars

\* The event of a call that has just run is new to the pipeline.
LEMMA EmitKeeps ==
  ASSUME PipelineInv, NEW c \in Call, c \notin Done, c \in Done', Done \subseteq Done', Emit(c)
  PROVE  PipelineInv'
<1>1. /\ stream \in Seq(Call) /\ NoneTwice(stream) /\ c \notin ToSet(stream)
      /\ UNCHANGED <<consumerVars, tableVars, rollupVars, published>>
  BY DEF PipelineInv, UsageTypes, EventsOnce, Emit
<1>2. /\ stream' \in Seq(Call) /\ NoneTwice(stream') /\ trimmed' \subseteq Call
      /\ ToSet(stream') \subseteq ToSet(stream) \cup {c}
  <2>1. CASE stream' = Append(stream, c) /\ UNCHANGED trimmed
    BY <1>1, <2>1, StreamAppended DEF PipelineInv, UsageTypes
  <2>2. CASE /\ Len(stream) >= StreamMaxLen
             /\ stream' = Append(Tail(stream), c)
             /\ trimmed' = trimmed \cup {Head(stream)}
    <3>1. stream # <<>>
      <4>1. Len(<<>>) = 0 /\ StreamMaxLen \in Nat \ {0}
        BY UsageConstants
      <4>2. QED
        BY <2>2, <4>1
    <3>2. /\ Tail(stream) \in Seq(Call) /\ Head(stream) \in Call
          /\ ToSet(Tail(stream)) \subseteq ToSet(stream) /\ NoneTwice(Tail(stream))
      BY <1>1, <3>1, StreamTail
    <3>3. c \notin ToSet(Tail(stream))
      BY <1>1, <3>2
    <3> DEFINE rest == Tail(stream)
    <3> HIDE DEF rest
    <3>4. /\ Append(rest, c) \in Seq(Call) /\ NoneTwice(Append(rest, c))
          /\ ToSet(Append(rest, c)) = ToSet(rest) \cup {c}
      BY <3>2, <3>3, StreamAppended DEF rest
    <3>5. QED
      BY <2>2, <3>2, <3>4 DEF rest, PipelineInv, UsageTypes
  <2>3. QED
    BY <2>1, <2>2 DEF Emit
<1>3. UsageTypes' /\ RollupsApart' /\ (calcCalls = Cardinality(marked))'
  BY <1>1, <1>2 DEF PipelineInv, UsageTypes, RollupsApart, consumerVars, tableVars, rollupVars
<1>4. c \notin InHand \cup unmarked \cup marked
  BY DEF PipelineInv, EventsOnce
<1>5. EventsOnce'
  BY <1>1, <1>2, <1>4
     DEF PipelineInv, EventsOnce, InHand, consumerVars, tableVars
<1>6. QED
  BY <1>3, <1>5 DEF PipelineInv

\* The consumer moves what it has read into the table.
LEMMA ConsumerKeeps ==
  ASSUME PipelineInv, ConsumerStep, Done' = Done
  PROVE  PipelineInv'
<1> USE DEF PipelineInv
<1>1. CASE Read
  <2>1. stream \in Seq(Call) /\ NoneTwice(stream) /\ Len(stream) \in Nat
    BY LenProperties DEF UsageTypes, EventsOnce
  <2> DEFINE n == IF Len(stream) < ReadCount THEN Len(stream) ELSE ReadCount
  <2>2. n \in 0..Len(stream)
    BY <2>1, UsageConstants
  <2>3. /\ batch' = ToSet(SubSeq(stream, 1, n)) /\ stream' = SubSeq(stream, n + 1, Len(stream))
        /\ consumer = "reading" /\ consumer' = "inserting" /\ pel' = pel \cup batch'
        /\ UNCHANGED <<trimmed, tableVars, rollupVars, published>>
    BY <1>1 DEF Read
  <2> HIDE DEF n
  <2>4. /\ stream' \in Seq(Call) /\ NoneTwice(stream')
        /\ batch' \subseteq ToSet(stream) /\ ToSet(stream') \subseteq ToSet(stream)
        /\ batch' \cap ToSet(stream') = {} /\ ToSet(stream) \subseteq Call
    BY <2>1, <2>2, <2>3, StreamCut, Zenon
  <2>5. EventsOnce'
    BY <2>3, <2>4 DEF EventsOnce, InHand, tableVars
  <2>6. QED
    BY <2>3, <2>4, <2>5 DEF UsageTypes, RollupsApart, tableVars, rollupVars
<1>2. CASE Insert
  BY <1>2 DEF Insert, UsageTypes, EventsOnce, InHand, RollupsApart, rollupVars
<1>3. CASE InsertFails
  BY <1>3 DEF InsertFails, BackToReading, UsageTypes, EventsOnce, InHand, RollupsApart,
     tableVars, rollupVars
<1>4. CASE Ack
  BY <1>4 DEF Ack, BackToReading, UsageTypes, EventsOnce, InHand, RollupsApart,
     tableVars, rollupVars
<1>5. QED
  BY <1>1, <1>2, <1>3, <1>4 DEF ConsumerStep

\* A batch is counted and marked in one transaction, behind the lock.
LEMMA CommitKeeps ==
  ASSUME PipelineInv, NEW r \in Roller, CommitBatch(r), Done' = Done
  PROVE  PipelineInv'
<1>1. /\ rollup[r] = "rolling"
      /\ calcCalls' = calcCalls + Cardinality(picked[r])
      /\ marked' = marked \cup picked[r] /\ unmarked' = unmarked \ picked[r]
      /\ turn' = [turn EXCEPT ![r] = @ + 1]
      /\ touched' = [touched EXCEPT ![r] = @ \/ picked[r] # {}]
      /\ picked' = [picked EXCEPT ![r] = {}]
      /\ rollup' = [rollup EXCEPT ![r] =
           IF picked[r] = {} \/ turn[r] + 1 = MaxIterations THEN "publishing" ELSE "calling"]
      /\ UNCHANGED <<stream, trimmed, pel, consumer, batch, published>>
  BY DEF CommitBatch, consumerVars
<1>2. UsageTypes /\ EventsOnce /\ RollupsApart /\ calcCalls = Cardinality(marked)
  BY DEF PipelineInv
<1>3. picked[r] \subseteq unmarked /\ unmarked \subseteq Call /\ marked \subseteq Call
      /\ unmarked \cap marked = {}
  BY <1>2 DEF UsageTypes, RollupsApart, EventsOnce
<1>4. IsFiniteSet(marked) /\ IsFiniteSet(picked[r])
  BY <1>3, FS_Subset, UsageConstants
<1>5. Cardinality(marked') = Cardinality(marked) + Cardinality(picked[r])
  <2>1. marked \cap picked[r] = {}
    BY <1>3
  <2>2. Cardinality(marked \cup picked[r])
          = Cardinality(marked) + Cardinality(picked[r]) - Cardinality(marked \cap picked[r])
    BY <1>4, FS_Union
  <2>3. Cardinality(marked) \in Nat /\ Cardinality(picked[r]) \in Nat
        /\ Cardinality(marked \cap picked[r]) = 0
    BY <1>4, <2>1, FS_CardinalityType, FS_EmptySet
  <2>4. QED
    BY <1>1, <2>2, <2>3
<1>6. calcCalls' = Cardinality(marked')
  BY <1>1, <1>2, <1>5
<1>7. calcCalls' \in Nat
  BY <1>1, <1>2, <1>4, FS_CardinalityType DEF UsageTypes
<1>8. UsageTypes'
  BY <1>1, <1>2, <1>3, <1>7 DEF UsageTypes
<1>9. EventsOnce'
  BY <1>1, <1>2, <1>3 DEF EventsOnce, InHand
<1>10. RollupsApart'
  <2>1. \A q \in Roller : q # r => picked[q] = {}
    BY <1>1, <1>2 DEF RollupsApart
  <2>2. \A q \in Roller : picked'[q] = {}
    BY <1>1, <1>2, <2>1 DEF UsageTypes
  <2>3. \A q \in Roller : rollup'[q] = "rolling" => rollup[q] = "rolling"
    BY <1>1, <1>2 DEF UsageTypes
  <2>4. QED
    BY <1>2, <2>2, <2>3 DEF RollupsApart
<1>11. QED
  BY <1>6, <1>8, <1>9, <1>10 DEF PipelineInv

\* The other steps of a rollup do not touch the tables.
LEMMA RollupKeeps ==
  ASSUME PipelineInv, NEW r \in Roller, RollupStep(r), Done' = Done
  PROVE  PipelineInv'
<1> USE DEF PipelineInv
<1>1. CASE CommitBatch(r)
  BY <1>1, CommitKeeps
<1>2. ASSUME UNCHANGED <<stream, trimmed, consumerVars, tableVars>> PROVE EventsOnce'
  BY <1>2 DEF EventsOnce, InHand, consumerVars, tableVars
<1>3. CASE StartRollup(r)
  <2>1. UsageTypes' /\ RollupsApart'
    BY <1>3 DEF StartRollup, UsageTypes, RollupsApart, consumerVars, tableVars
  <2>2. QED
    BY <1>2, <1>3, <2>1 DEF StartRollup, tableVars
<1>4. CASE Pick(r)
  <2>1. PICK rows \in SUBSET unmarked : picked' = [picked EXCEPT ![r] = rows]
    BY <1>4 DEF Pick
  <2>2. /\ LockFree(r) /\ rollup' = [rollup EXCEPT ![r] = "rolling"]
        /\ UNCHANGED <<stream, trimmed, consumerVars, tableVars, turn, touched, published>>
    BY <1>4 DEF Pick
  <2>3. UsageTypes'
    BY <2>1, <2>2 DEF UsageTypes, consumerVars, tableVars
  <2>4. RollupsApart'
    BY <2>1, <2>2 DEF UsageTypes, RollupsApart, LockFree, tableVars
  <2>5. QED
    BY <1>2, <2>2, <2>3, <2>4 DEF tableVars
<1>5. CASE RollupFails(r)
  <2>1. UsageTypes' /\ RollupsApart'
    BY <1>5 DEF RollupFails, UsageTypes, RollupsApart, consumerVars, tableVars
  <2>2. QED
    BY <1>2, <1>5, <2>1 DEF RollupFails, tableVars
<1>6. CASE Publish(r)
  <2>1. published' \in Nat
    BY <1>6 DEF Publish, UsageTypes
  <2>2. UsageTypes' /\ RollupsApart'
    BY <1>6, <2>1 DEF Publish, UsageTypes, RollupsApart, consumerVars, tableVars
  <2>3. QED
    BY <1>2, <1>6, <2>2 DEF Publish, tableVars
<1>7. QED
  BY <1>1, <1>3, <1>4, <1>5, <1>6 DEF RollupStep

\* Everything the CMS does keeps the pipeline in order.
LEMMA CmsKeeps ==
  ASSUME PipelineInv, CmsStep, Done' = Done
  PROVE  PipelineInv'
<1>1. CASE CmsRestarts
  BY <1>1 DEF CmsRestarts, BackToReading, PipelineInv, UsageTypes, EventsOnce, InHand,
     RollupsApart, tableVars
<1>2. QED
  BY <1>1, ConsumerKeeps, RollupKeeps DEF CmsStep

-----------------------------------------------------------------------------
(* The calls *)

\* The calls that have run are finitely many.
LEMMA DoneFinite == IsFiniteSet(Done) /\ Cardinality(Done) \in Nat
<1>1. IsFiniteSet(Done)
  BY FS_Subset, UsageConstants DEF Done
<1>2. QED
  BY <1>1, FS_CardinalityType

\* They are never fewer, and one more when a call has run.
LEMMA DoneGrows ==
  ASSUME Done \subseteq Done'
  PROVE  /\ Cardinality(Done) \in Nat /\ Cardinality(Done') \in Nat
         /\ Cardinality(Done) <= Cardinality(Done')
         /\ \A c : c \notin Done /\ Done' = Done \cup {c} => Cardinality(Done') = Cardinality(Done) + 1
<1>1. Done \subseteq Call /\ Done' \subseteq Call
  BY DEF Done
<1>2. IsFiniteSet(Done) /\ IsFiniteSet(Done')
  BY <1>1, FS_Subset, UsageConstants
<1>3. QED
  BY <1>2, FS_CardinalityType, FS_Subset, FS_AddElement

\* A count that is not ahead of the calls refuses nobody early.
LEMMA VerdictFacts ==
  ASSUME NEW count \in Nat, count <= Cardinality(Done), Cardinality(Done) \in Nat
  PROVE  /\ Verdict(count) \in {"refused", "running"}
         /\ Verdict(count) = "refused" => Cardinality(Done) >= Allowance
BY QuotaConstants DEF Verdict

\* A call that is checked or calculated.
LEMMA CallGoesOn ==
  ASSUME QuotaTypes, NEW c \in Call, phase[c] \notin {"done"}, NEW p, PhaseTo(c, p),
         p \in {"selecting", "populating", "running", "refused", "done", "failed"}
  PROVE  /\ phase' \in [Call -> {"new", "selecting", "populating", "running", "refused", "done", "failed"}]
         /\ Done' = IF p = "done" THEN Done \cup {c} ELSE Done
         /\ c \notin Done
         /\ \A d \in Call : phase'[d] = "refused" => phase[d] = "refused" \/ p = "refused"
BY DEF QuotaTypes, PhaseTo, Done

\* Before it has run, a call only reads counts, and moves one that it has read.
LEMMA CheckKeeps ==
  ASSUME QuotaInv, NEW c \in Call, NEW p, PhaseTo(c, p),
         phase[c] \notin {"done"}, p \in {"selecting", "populating", "running", "refused", "failed"},
         p = "refused" => Cardinality(Done) >= Allowance,
         used' \in [Call -> Nat], \A d \in Call : used'[d] = used[d] \/ used'[d] = calcCalls,
         cache' = cache \/ cache' = used[c],
         UNCHANGED usageVars
  PROVE  QuotaInv'
<1>1. QuotaTypes /\ CountsBehind /\ NeverRefusedEarly /\ PipelineInv
  BY DEF QuotaInv
<1>2. /\ phase' \in [Call -> {"new", "selecting", "populating", "running", "refused", "done", "failed"}]
      /\ Done' = Done
      /\ \A d \in Call : phase'[d] = "refused" => phase[d] = "refused" \/ p = "refused"
  BY <1>1, CallGoesOn
<1>3. QuotaTypes'
  BY <1>1, <1>2 DEF QuotaTypes
<1>4. PipelineInv'
  BY <1>1, <1>2, PipelineQuiet DEF usageVars, PipelineInv, UsageTypes
<1>5. CountsBehind'
  BY <1>1, <1>2 DEF CountsBehind, usageVars, tableVars
<1>6. NeverRefusedEarly'
  BY <1>1, <1>2 DEF NeverRefusedEarly
<1>7. QED
  BY <1>3, <1>4, <1>5, <1>6 DEF QuotaInv

\* A call that has run is counted at most once, in the stream and under the key.
LEMMA FinishKeeps ==
  ASSUME QuotaInv, NEW c \in Call, Finish(c)
  PROVE  QuotaInv'
<1>1. QuotaTypes /\ CountsBehind /\ NeverRefusedEarly /\ PipelineInv
  BY DEF QuotaInv
<1>2. /\ PhaseTo(c, "done") /\ phase[c] # "done" /\ used' = used
      /\ cache' = Increment \/ cache' = cache
      /\ Emit(c) \/ UNCHANGED usageVars
  BY DEF Finish, InCalculation
<1>3. /\ phase' \in [Call -> {"new", "selecting", "populating", "running", "refused", "done", "failed"}]
      /\ Done' = Done \cup {c} /\ c \notin Done
      /\ \A d \in Call : phase'[d] = "refused" => phase[d] = "refused"
  BY <1>1, <1>2, CallGoesOn
<1> DEFINE k == Cardinality(Done)
           l == Cardinality(Done')
<1>4. k \in Nat /\ l = k + 1
  BY <1>3, DoneGrows
<1>5. PipelineInv'
  BY <1>1, <1>2, <1>3, EmitKeeps, PipelineQuiet DEF usageVars, PipelineInv, UsageTypes
<1>6. QuotaTypes'
  BY <1>1, <1>2, <1>3, QuotaConstants DEF QuotaTypes, Increment
<1>7. calcCalls' = calcCalls
  BY <1>2 DEF Emit, usageVars, tableVars
<1>8. /\ calcCalls <= k /\ calcCalls \in Nat
      /\ \A d \in Call : used[d] <= k /\ used[d] \in Nat
      /\ cache # None => cache <= k /\ cache \in Nat
  BY <1>1 DEF CountsBehind, QuotaTypes, PipelineInv, UsageTypes
<1>9. NeverRefusedEarly'
  <2>1. (\E d \in Call : phase'[d] = "refused") => k >= Allowance
    BY <1>1, <1>3 DEF NeverRefusedEarly
  <2> HIDE DEF k, l
  <2>2. (\E d \in Call : phase'[d] = "refused") => l >= Allowance
    BY <1>4, <2>1, QuotaConstants
  <2>3. QED
    BY <2>2 DEF NeverRefusedEarly, l
<1>10. CountsBehind'
  <2> HIDE DEF k, l
  <2>1. /\ calcCalls' <= l
        /\ \A d \in Call : used'[d] <= l
    BY <1>2, <1>4, <1>7, <1>8
  <2>2. cache' # None => cache' <= l
    <3>1. CASE cache' = cache
      BY <1>4, <1>8, <3>1
    <3>2. CASE cache' = Increment /\ cache = None
      BY <1>4, <3>2 DEF Increment
    <3>3. CASE cache' = Increment /\ cache # None
      BY <1>4, <1>8, <3>3 DEF Increment
    <3>4. QED
      BY <1>2, <3>1, <3>2, <3>3
  <2>3. QED
    BY <2>1, <2>2 DEF CountsBehind, l
<1>11. QED
  BY <1>5, <1>6, <1>9, <1>10 DEF QuotaInv

\* Every step of a call.
LEMMA CallKeeps ==
  ASSUME QuotaInv, NEW c \in Call, CallStep(c)
  PROVE  QuotaInv'
<1>1. QuotaTypes /\ CountsBehind
  BY DEF QuotaInv
<1>2. calcCalls \in Nat /\ used \in [Call -> Nat] /\ Cardinality(Done) \in Nat
  BY DoneFinite DEF QuotaInv, PipelineInv, UsageTypes, QuotaTypes
<1>3. CASE CacheHit(c)
  <2>1. cache \in Nat /\ cache <= Cardinality(Done)
    BY <1>1, <1>3 DEF CacheHit, QuotaTypes, CountsBehind
  <2>2. /\ Verdict(cache) \in {"refused", "running"}
        /\ Verdict(cache) = "refused" => Cardinality(Done) >= Allowance
    BY <1>2, <2>1, VerdictFacts
  <2>3. QED
    BY <1>2, <1>3, <2>2, CheckKeeps DEF CacheHit
<1>4. CASE CacheMiss(c)
  BY <1>2, <1>4, CheckKeeps DEF CacheMiss
<1>5. CASE Select(c)
  <2>1. used' \in [Call -> Nat] /\ \A d \in Call : used'[d] = used[d] \/ used'[d] = calcCalls
    BY <1>2, <1>5 DEF Select
  <2>2. QED
    BY <1>5, <2>1, CheckKeeps DEF Select
<1>6. CASE SelectFails(c)
  BY <1>2, <1>6, CheckKeeps DEF SelectFails
<1>7. CASE Populate(c)
  <2>1. used[c] \in Nat /\ used[c] <= Cardinality(Done)
    BY <1>1 DEF QuotaTypes, CountsBehind
  <2>2. /\ Verdict(used[c]) \in {"refused", "running"}
        /\ Verdict(used[c]) = "refused" => Cardinality(Done) >= Allowance
    BY <1>2, <2>1, VerdictFacts
  <2>3. QED
    BY <1>2, <1>7, <2>2, CheckKeeps DEF Populate
<1>8. CASE Finish(c)
  BY <1>8, FinishKeeps
<1>9. CASE CalculationFails(c)
  BY <1>2, <1>9, CheckKeeps DEF CalculationFails, InCalculation
<1>10. QED
  BY <1>3, <1>4, <1>5, <1>6, <1>7, <1>8, <1>9 DEF CallStep

\* The rollup counts in the month only calls that have run.
LEMMA MonthBehind ==
  ASSUME PipelineInv
  PROVE  calcCalls <= Cardinality(Done)
<1>1. marked \subseteq Done /\ calcCalls = Cardinality(marked)
  BY DEF PipelineInv, EventsOnce
<1>2. QED
  BY <1>1, DoneFinite, FS_Subset

\* The CMS moves events and deletes the key.
LEMMA OthersKeep ==
  ASSUME QuotaInv, (CmsStep /\ UNCHANGED quotaVars) \/ Expire \/ Deliver \/ UNCHANGED vars
  PROVE  QuotaInv'
<1>1. /\ PipelineInv /\ QuotaTypes /\ CountsBehind /\ NeverRefusedEarly
      /\ published \in Nat
  BY DEF QuotaInv, PipelineInv, UsageTypes
<1>2. /\ phase' = phase /\ used' = used /\ cache' \in {cache, None}
      /\ Done' = Done
  BY DEF quotaVars, Expire, Deliver, vars, Done
<1>3. PipelineInv'
  <2>1. CASE CmsStep /\ UNCHANGED quotaVars
    BY <1>1, <1>2, <2>1, CmsKeeps
  <2>2. CASE Expire \/ UNCHANGED vars
    BY <1>1, <1>2, <2>2, PipelineQuiet DEF Expire, usageVars, vars
  <2>3. CASE Deliver
    BY <1>1, <1>2, <2>3, PipelineQuiet DEF Deliver
  <2>4. QED
    BY <2>1, <2>2, <2>3
<1>4. QuotaTypes' /\ NeverRefusedEarly'
  BY <1>1, <1>2 DEF QuotaTypes, NeverRefusedEarly
<1>5. marked' \subseteq Done' /\ calcCalls' = Cardinality(marked')
  BY <1>3 DEF PipelineInv, EventsOnce
<1>6. calcCalls' <= Cardinality(Done')
  <2>1. IsFiniteSet(Done')
    BY FS_Subset, UsageConstants DEF Done
  <2>2. QED
    BY <1>5, <2>1, FS_Subset
<1>7. CountsBehind'
  BY <1>1, <1>2, <1>6 DEF CountsBehind
<1>8. QED
  BY <1>3, <1>4, <1>7 DEF QuotaInv

\* At the start nothing has run and nothing is counted.
LEMMA QuotaInit == Init => QuotaInv
<1> SUFFICES ASSUME Init PROVE QuotaInv
  OBVIOUS
<1>1. PipelineInv
  BY PipelineInit DEF Init
<1>2. QuotaTypes /\ NeverRefusedEarly
  BY DEF Init, QuotaTypes, NeverRefusedEarly
<1>3. Cardinality(Done) \in Nat
  BY DoneFinite
<1>4. CountsBehind
  BY <1>1, <1>3, MonthBehind DEF Init, CountsBehind
<1>5. QED
  BY <1>1, <1>2, <1>4 DEF QuotaInv

\* Every step keeps the counts behind the calls.
LEMMA QuotaPreserved == QuotaInv /\ [Next]_vars => QuotaInv'
<1> SUFFICES ASSUME QuotaInv, [Next]_vars PROVE QuotaInv'
  OBVIOUS
<1>1. CASE \E c \in Call : CallStep(c)
  BY <1>1, CallKeeps
<1>2. CASE (CmsStep /\ UNCHANGED quotaVars) \/ Expire \/ Deliver \/ UNCHANGED vars
  BY <1>2, OthersKeep
<1>3. QED
  BY <1>1, <1>2 DEF Next

\* The pipeline and the quota, for calls, rollups and sizes of any number.
THEOREM QuotaInvAlways == Spec => []QuotaInv
BY QuotaInit, QuotaPreserved, PTL DEF Spec

\* However many rollups overlap, fail or die, and whatever the consumer reads
\* twice or loses: the month counts each marked row once.
THEOREM AggregateExactAlways == Spec => []AggregateExact
<1>1. QuotaInv => AggregateExact
  BY DEF QuotaInv, PipelineInv, EventsOnce, AggregateExact
<1>2. QED
  BY <1>1, QuotaInvAlways, PTL

\* However the key expires, is deleted or is written over, no call is refused
\* before as many calls as the allowance have run.
THEOREM NeverRefusedEarlyAlways == Spec => []NeverRefusedEarly
<1>1. QuotaInv => NeverRefusedEarly
  BY DEF QuotaInv
<1>2. QED
  BY <1>1, QuotaInvAlways, PTL

-----------------------------------------------------------------------------
(* The calculator store and its engines: types *)

Entry == [gen : Generation, version : Version, worker : Worker]
Recipe == [gen : Generation, version : Version]
\* What a handler is going to make, before it has a worker.
Draft == [gen : Generation, version : Version, worker : {Absent}]
Messages == [op : {"create", "calculate", "destroy"}, version : Version \cup {Absent},
             by : Handler \cup {Absent}]
Answers == [is : {"nothing", "failed", "notFound", "ok"}, version : Version \cup {Absent}]

RequestPlaces ==
  {"idle", "waiting", "rewaiting", "patching", "checking", "calculating", "recalculating",
   "destroying", "patched", "posted", "deleting", "saving"}
RebuildPlaces == {"idle", "loading", "creating", "enriching", "limits"}

CalculatorTypes ==
  /\ recipe \in Recipe \cup {Absent} /\ entry \in Entry \cup {Absent}
  /\ results \in [Generation -> Version \cup {Absent}]
  /\ loaded \in [Worker -> Version \cup {Absent}]
  /\ queue \in [Worker -> Seq(Messages)]
  /\ pc \in [Handler -> RequestPlaces \cup RebuildPlaces]
  /\ calc \in [Handler -> Entry \cup {Absent}]
  /\ made \in [Handler -> Entry \cup Draft \cup {Absent}]
  /\ answer \in [Handler -> Answers]
  /\ current \in Version \cup {Absent}
  /\ excused \in BOOLEAN /\ reborn \in BOOLEAN

\* What a handler holds, by where it is.
HandlerHolds(h) ==
  /\ pc[h] \in IF h = Rebuild THEN RebuildPlaces ELSE RequestPlaces
  /\ pc[h] \in {"checking", "calculating", "recalculating", "destroying"} => calc[h] \in Entry
  /\ pc[h] \in {"waiting", "rewaiting", "patching"} /\ answer[h].is = "ok" => calc[h] \in Entry
  /\ pc[h] = "destroying" => calc[h].gen < MaxGeneration
  /\ pc[h] \in {"patching", "destroying", "saving"} => made[h] \in Draft
  /\ pc[h] \in {"patched", "posted", "creating", "enriching", "limits"} => made[h] \in Entry
  /\ pc[h] = "posted" => made[h].gen = 0
  /\ pc[h] \in {"calculating", "recalculating"} /\ answer[h].is = "ok"
       => answer[h].version \in Version
  /\ answer[h].is = "nothing" => answer[h] = Nothing

-----------------------------------------------------------------------------
(* Messages and answers *)

\* A message that a handler waits for is the one it has sent.
Expected(w, m) ==
  m.by # Absent =>
    /\ answer[m.by] = Nothing
    /\ m.op = "create" => /\ pc[m.by] \in {"creating", "patched", "posted"}
                          /\ made[m.by].worker = w /\ made[m.by].version = m.version
    /\ m.op = "calculate" => /\ pc[m.by] \in {"calculating", "recalculating"}
                             /\ calc[m.by].worker = w
    /\ m.op = "destroy" => pc[m.by] = "destroying"

MessagesExpected == \A w \in Worker : \A i \in DOMAIN queue[w] : Expected(w, queue[w][i])

\* It waits for one message at a time.
OneMessage ==
  \A v, w \in Worker : \A i \in DOMAIN queue[v], j \in DOMAIN queue[w] :
    queue[v][i].by = queue[w][j].by /\ queue[v][i].by # Absent => v = w /\ i = j

\* A create names a version.
CreatesName ==
  \A w \in Worker : \A i \in DOMAIN queue[w] :
    queue[w][i].op = "create" => queue[w][i].version \in Version

\* An answer of a worker is taken before the next event.
LoneAnswer ==
  \A h \in Handler :
    answer[h].is = "ok" /\ pc[h] \notin {"waiting", "rewaiting", "patching"}
      => \A g \in Handler \ {h} : answer[g] = Nothing

\* Who waits for a rebuild has one.
WaitersServed ==
  \A r \in Waiting : answer[r] = Nothing => pc[Rebuild] # "idle"

\* An engine that was made is there.
EngineMade ==
  \A h \in Handler :
    pc[h] \in {"creating", "patched", "posted"} /\ answer[h].is = "ok"
      => loaded[made[h].worker] = made[h].version

-----------------------------------------------------------------------------
(* One writer at a time *)

WritingRequests ==
  {r \in Request : pc[r] \in {"patching", "destroying", "patched", "posted", "deleting", "saving"}}

OneWriter ==
  /\ \A q, r \in WritingRequests : q = r
  /\ \A r \in WritingRequests : pc[Rebuild] # "idle" => pc[r] = "patching"

\* A rebuild works for an empty store, a deletion knows the entry.
StoreEmpty ==
  /\ pc[Rebuild] \in {"loading", "creating", "enriching"} => entry = Absent
  /\ \A r \in Request : pc[r] = "deleting" /\ calc[r] = Absent => entry = Absent

\* No create is behind one that is waited for.
LastCreate ==
  \A w \in Worker : \A i, j \in DOMAIN queue[w] :
    i < j /\ queue[w][i].op = "create" /\ queue[w][i].by # Absent
      => queue[w][j].op # "create"

NoCreateBehind ==
  \A h \in Handler :
    pc[h] \in {"creating", "patched", "posted"} /\ answer[h].is = "ok" =>
      \A i \in DOMAIN queue[made[h].worker] : queue[made[h].worker][i].op # "create"

\* Whatever can still become the calculator is of the version that counts.
VersionsCurrent ==
  /\ entry # Absent => entry.version = current
  /\ recipe # Absent => recipe.version = current
  /\ pc[Rebuild] \in {"creating", "enriching", "limits"} => made[Rebuild].version = current
  /\ \A r \in Request : pc[r] = "saving" => made[r].version = current

Ordered == OneWriter /\ StoreEmpty /\ LastCreate /\ NoCreateBehind /\ VersionsCurrent

-----------------------------------------------------------------------------
(* One life of the generations *)

\* It is of generation g,
GenerationsAgree(g) ==
  /\ entry # Absent => entry.gen = g
  /\ recipe # Absent => recipe.gen = g
  /\ pc[Rebuild] \in {"creating", "enriching", "limits"} => made[Rebuild].gen = g
  /\ \A r \in Request :
       /\ pc[r] = "saving" => made[r].gen = g
       /\ pc[r] = "destroying" \/ (pc[r] = "patching" /\ answer[r].is = "ok") => calc[r].gen = g
       /\ pc[r] = "patched" => made[r].gen = g + 1

\* which executions may have left behind already,
Executing ==
  {r \in Request : \/ pc[r] \in {"checking", "calculating", "recalculating"}
                   \/ pc[r] \in {"waiting", "rewaiting"} /\ answer[r].is = "ok"}

ExecutionsBehind(g) ==
  \A r \in Executing :
    /\ calc[r].gen <= g
    /\ calc[r].gen = g => calc[r].version = current
    /\ calc[r].gen = g /\ pc[r] \in {"calculating", "recalculating"} /\ answer[r].is = "ok"
         => answer[r].version = current

\* and whose results are of no later one.
ResultsBehind(g) ==
  \A k \in Generation : /\ k = g => results[k] \in {Absent, current}
                        /\ k > g => results[k] = Absent

\* The workers that the entry, an execution or the rebuild relies on
Trusted(g, w) ==
  \/ entry # Absent /\ entry.worker = w
  \/ \E r \in Executing : calc[r].gen = g /\ calc[r].worker = w
  \/ /\ pc[Rebuild] \in {"enriching", "limits"}
     /\ made[Rebuild].worker = w

\* have this version's engine or none, until a deploy has made the next one.
Deploying == {r \in Request : pc[r] \in {"patched", "posted"}}

EnginesCurrent(g) ==
  \A w \in Worker : Trusted(g, w) =>
    /\ \/ loaded[w] \in {Absent, current}
       \/ \E r \in Deploying : answer[r].is = "ok" /\ made[r].worker = w
    /\ \A i \in DOMAIN queue[w] :
         queue[w][i].op = "create" => \/ queue[w][i].version = current
                                      \/ queue[w][i].by \in Deploying

Life(g) ==
  GenerationsAgree(g) /\ ExecutionsBehind(g) /\ ResultsBehind(g) /\ EnginesCurrent(g)

Lives == \E g \in 0..(MaxGeneration + 1) : Life(g)

CalculatorInv ==
  /\ CalculatorTypes /\ \A h \in Handler : HandlerHolds(h)
  /\ MessagesExpected /\ OneMessage /\ CreatesName
  /\ LoneAnswer /\ WaitersServed /\ EngineMade
  /\ ~excused => Ordered
  /\ ~excused /\ ~reborn => Lives

-----------------------------------------------------------------------------
(* The queues *)

\* Messages leave the front of a queue, all of them may, and who waits for one
\* may give up.
Fewer ==
  /\ queue' \in [Worker -> Seq(Messages)]
  /\ \E gone \in [Worker -> Nat] :
       \A w \in Worker : \A i \in DOMAIN queue'[w] :
         /\ i + gone[w] \in DOMAIN queue[w]
         /\ queue'[w][i].op = queue[w][i + gone[w]].op
         /\ queue'[w][i].version = queue[w][i + gone[w]].version
         /\ queue'[w][i].by \in {queue[w][i + gone[w]].by, Absent}

\* A message m enters the queue of w.
Enters(w, m) ==
  /\ queue' \in [Worker -> Seq(Messages)]
  /\ \A v \in Worker : \A i \in DOMAIN queue[v] :
       i \in DOMAIN queue'[v] /\ queue'[v][i] = queue[v][i]
  /\ \A v \in Worker : \A i \in DOMAIN queue'[v] :
       \/ i \in DOMAIN queue[v]
       \/ /\ v = w /\ queue'[v][i] = m
          /\ i = Len(queue[w]) + 1 /\ \A j \in DOMAIN queue[w] : j < i

Unawaited(h) == \A w \in Worker : \A i \in DOMAIN queue[w] : queue[w][i].by # h

\* An unchanged queue.
LEMMA SameQueue == CalculatorTypes /\ UNCHANGED queue => Fewer
<1> SUFFICES ASSUME CalculatorTypes, UNCHANGED queue PROVE Fewer
  OBVIOUS
<1> DEFINE none == [w \in Worker |-> 0]
<1>1. none \in [Worker -> Nat]
  OBVIOUS
<1>2. \A w \in Worker : \A i \in DOMAIN queue[w] : i + none[w] = i
  BY SMT DEF CalculatorTypes
<1>3. queue' \in [Worker -> Seq(Messages)]
  BY DEF CalculatorTypes
<1> QED BY <1>1, <1>2, <1>3 DEF Fewer

\* A worker takes its first message.
LEMMA HeadTaken ==
  ASSUME CalculatorTypes, NEW w \in Worker, queue[w] # <<>>,
         queue' = [queue EXCEPT ![w] = Tail(@)]
  PROVE  /\ Fewer /\ 1 \in DOMAIN queue[w] /\ Head(queue[w]) = queue[w][1]
         /\ Head(queue[w]) \in Messages
         /\ \A v \in Worker : \A i \in DOMAIN queue'[v] :
              \E j \in DOMAIN queue[v] : queue'[v][i] = queue[v][j] /\ (v = w => j = i + 1)
<1>1. queue[w] \in Seq(Messages)
  BY DEF CalculatorTypes
<1>2. /\ Tail(queue[w]) \in Seq(Messages)
      /\ Head(queue[w]) = queue[w][1] /\ Head(queue[w]) \in Messages
      /\ 1 \in DOMAIN queue[w]
      /\ \A i \in DOMAIN Tail(queue[w]) :
           i + 1 \in DOMAIN queue[w] /\ Tail(queue[w])[i] = queue[w][i + 1]
  BY <1>1, SMT
<1>3. /\ queue' \in [Worker -> Seq(Messages)]
      /\ queue'[w] = Tail(queue[w]) /\ \A v \in Worker \ {w} : queue'[v] = queue[v]
  BY <1>2, SMT DEF CalculatorTypes
<1> DEFINE gone == [v \in Worker |-> IF v = w THEN 1 ELSE 0]
<1>4. gone \in [Worker -> Nat]
  OBVIOUS
<1>5. \A v \in Worker : \A i \in DOMAIN queue'[v] :
        i + gone[v] \in DOMAIN queue[v] /\ queue'[v][i] = queue[v][i + gone[v]]
  <2> SUFFICES ASSUME NEW v \in Worker, NEW i \in DOMAIN queue'[v]
               PROVE  i + gone[v] \in DOMAIN queue[v] /\ queue'[v][i] = queue[v][i + gone[v]]
    OBVIOUS
  <2>1. CASE v = w
    BY <2>1, <1>2, <1>3, SMT
  <2>2. CASE v # w
    BY <2>2, <1>3, SMT DEF CalculatorTypes
  <2> QED BY <2>1, <2>2
<1>6. Fewer
  BY <1>3, <1>4, <1>5 DEF Fewer
<1>7. \A v \in Worker : \A i \in DOMAIN queue'[v] :
        \E j \in DOMAIN queue[v] : queue'[v][i] = queue[v][j] /\ (v = w => j = i + 1)
  BY <1>5, SMT
<1> QED BY <1>2, <1>6, <1>7

\* A worker dies with its queue.
LEMMA QueueLost ==
  ASSUME CalculatorTypes, NEW w \in Worker, queue' = [queue EXCEPT ![w] = <<>>]
  PROVE  /\ Fewer /\ DOMAIN queue'[w] = {}
         /\ \A v \in Worker \ {w} : queue'[v] = queue[v]
<1>1. /\ queue' \in [Worker -> Seq(Messages)]
      /\ queue'[w] = <<>> /\ \A v \in Worker \ {w} : queue'[v] = queue[v]
  BY SMT DEF CalculatorTypes
<1>2. DOMAIN queue'[w] = {}
  BY <1>1, SMT
<1> DEFINE none == [v \in Worker |-> 0]
<1>3. none \in [Worker -> Nat]
  OBVIOUS
<1>4. \A v \in Worker : \A i \in DOMAIN queue'[v] :
        i + none[v] \in DOMAIN queue[v] /\ queue'[v][i] = queue[v][i + none[v]]
  BY <1>1, <1>2, SMT DEF CalculatorTypes
<1> HIDE DEF none
<1>5. Fewer
  BY <1>1, <1>3, <1>4 DEF Fewer
<1> QED BY <1>1, <1>2, <1>5

\* A handler gives up waiting.
LEMMA GivenUp ==
  ASSUME CalculatorTypes, NEW h \in Handler,
         queue' = [w \in Worker |->
           [i \in DOMAIN queue[w] |-> IF queue[w][i].by = h THEN [queue[w][i] EXCEPT !.by = Absent]
                                                            ELSE queue[w][i]]]
  PROVE  /\ Fewer
         /\ \A w \in Worker : \A i \in DOMAIN queue'[w] :
              /\ i \in DOMAIN queue[w]
              /\ queue'[w][i].op = queue[w][i].op /\ queue'[w][i].version = queue[w][i].version
              /\ queue[w][i].by = h => queue'[w][i].by = Absent
              /\ queue[w][i].by # h => queue'[w][i].by = queue[w][i].by
<1>1. ASSUME NEW w \in Worker
      PROVE  /\ queue'[w] \in Seq(Messages) /\ DOMAIN queue'[w] = DOMAIN queue[w]
             /\ \A i \in DOMAIN queue[w] :
                  queue'[w][i] = IF queue[w][i].by = h THEN [queue[w][i] EXCEPT !.by = Absent]
                                                       ELSE queue[w][i]
  <2>1. queue[w] \in Seq(Messages)
    BY DEF CalculatorTypes
  <2>2. /\ DOMAIN queue'[w] = DOMAIN queue[w]
        /\ \A i \in DOMAIN queue[w] :
             queue'[w][i] = IF queue[w][i].by = h THEN [queue[w][i] EXCEPT !.by = Absent]
                                                  ELSE queue[w][i]
    OBVIOUS
  <2>3. PICK n \in Nat : DOMAIN queue[w] = 1..n /\ \A i \in 1..n : queue[w][i] \in Messages
    <3>1. DOMAIN queue[w] = 1..Len(queue[w]) /\ Len(queue[w]) \in Nat
      BY <2>1
    <3> QED BY <2>1, <3>1
  <2>4. \A i \in 1..n : queue'[w][i] \in Messages
    BY <2>2, <2>3, SMT DEF Messages
  <2>5. queue'[w] = [i \in 1..n |-> queue'[w][i]]
    BY <2>2, <2>3
  <2>6. queue'[w] \in [1..n -> Messages]
    BY <2>4, <2>5
  <2>7. queue'[w] \in Seq(Messages)
    BY <2>6, SeqDef
  <2> QED BY <2>2, <2>7
<1>2. queue' \in [Worker -> Seq(Messages)]
  BY <1>1
<1>3. ASSUME NEW w \in Worker, NEW i \in DOMAIN queue'[w]
      PROVE  /\ i \in DOMAIN queue[w] /\ i + 0 = i
             /\ queue'[w][i].op = queue[w][i].op /\ queue'[w][i].version = queue[w][i].version
             /\ queue[w][i].by = h => queue'[w][i].by = Absent
             /\ queue[w][i].by # h => queue'[w][i].by = queue[w][i].by
  <2>1. i \in DOMAIN queue[w] /\ queue[w] \in Seq(Messages)
    BY <1>1 DEF CalculatorTypes
  <2>2. queue[w][i] \in Messages /\ i \in Nat
    BY <2>1, SMT
  <2> QED BY <1>1, <2>1, <2>2, SMT DEF Messages
<1> DEFINE none == [w \in Worker |-> 0]
<1>4. none \in [Worker -> Nat] /\ \A w \in Worker : none[w] = 0
  OBVIOUS
<1> HIDE DEF none
<1>5. \A w \in Worker : \A i \in DOMAIN queue'[w] :
        /\ i + none[w] \in DOMAIN queue[w]
        /\ queue'[w][i].op = queue[w][i + none[w]].op
        /\ queue'[w][i].version = queue[w][i + none[w]].version
        /\ queue'[w][i].by \in {queue[w][i + none[w]].by, Absent}
  <2> SUFFICES ASSUME NEW w \in Worker, NEW i \in DOMAIN queue'[w]
               PROVE  /\ i + none[w] \in DOMAIN queue[w]
                      /\ queue'[w][i].op = queue[w][i + none[w]].op
                      /\ queue'[w][i].version = queue[w][i + none[w]].version
                      /\ queue'[w][i].by \in {queue[w][i + none[w]].by, Absent}
    OBVIOUS
  <2>1. i + none[w] = i
    BY <1>3, <1>4
  <2>2. queue[w][i].by = h \/ queue[w][i].by # h
    OBVIOUS
  <2> QED BY <1>3, <2>1, <2>2
<1>6. Fewer
  BY <1>2, <1>4, <1>5 DEF Fewer
<1> QED BY <1>3, <1>6

\* A message is sent.
LEMMA MessageEnters ==
  ASSUME CalculatorTypes, NEW w \in Worker, NEW m \in Messages,
         queue' = [queue EXCEPT ![w] = Append(@, m)]
  PROVE  Enters(w, m)
<1>1. queue[w] \in Seq(Messages)
  BY DEF CalculatorTypes
<1>2. /\ Append(queue[w], m) \in Seq(Messages)
      /\ DOMAIN queue[w] = 1..Len(queue[w]) /\ Len(queue[w]) \in Nat
      /\ DOMAIN Append(queue[w], m) = 1..(Len(queue[w]) + 1)
      /\ \A i \in DOMAIN queue[w] : Append(queue[w], m)[i] = queue[w][i]
      /\ Append(queue[w], m)[Len(queue[w]) + 1] = m
  BY <1>1, AppendProperties, SMT
<1>3. /\ queue' \in [Worker -> Seq(Messages)]
      /\ queue'[w] = Append(queue[w], m) /\ \A v \in Worker \ {w} : queue'[v] = queue[v]
  BY <1>2, SMT DEF CalculatorTypes
<1>4. ASSUME NEW v \in Worker, NEW i \in DOMAIN queue'[v]
      PROVE  \/ i \in DOMAIN queue[v]
             \/ /\ v = w /\ queue'[v][i] = m
                /\ i = Len(queue[w]) + 1 /\ \A j \in DOMAIN queue[w] : j < i
  <2>1. CASE v = w
    <3>1. i \in 1..(Len(queue[w]) + 1)
      BY <1>2, <1>3, <1>4, <2>1
    <3>2. i \in 1..Len(queue[w]) \/ i = Len(queue[w]) + 1
      BY <1>2, <3>1, SMT
    <3>3. \A j \in 1..Len(queue[w]) : j < Len(queue[w]) + 1
      BY <1>2, SMT
    <3> QED BY <1>2, <1>3, <2>1, <3>2, <3>3
  <2>2. CASE v # w
    BY <1>3, <2>2
  <2> QED BY <2>1, <2>2
<1>5. ASSUME NEW v \in Worker, NEW i \in DOMAIN queue[v]
      PROVE  i \in DOMAIN queue'[v] /\ queue'[v][i] = queue[v][i]
  <2>1. CASE v = w
    <3>1. i \in 1..(Len(queue[w]) + 1)
      BY <1>2, <1>5, <2>1, SMT
    <3> QED BY <1>2, <1>3, <2>1, <3>1
  <2>2. CASE v # w
    BY <1>3, <2>2
  <2> QED BY <2>1, <2>2
<1> QED BY <1>3, <1>4, <1>5 DEF Enters

\* Fewer messages are no less in order.
LEMMA FewerKeeps ==
  ASSUME CalculatorTypes, Fewer, OneMessage, CreatesName
  PROVE  OneMessage' /\ CreatesName' /\ (LastCreate => LastCreate')
<1>1. PICK gone \in [Worker -> Nat] :
        \A w \in Worker : \A i \in DOMAIN queue'[w] :
          /\ i + gone[w] \in DOMAIN queue[w]
          /\ queue'[w][i].op = queue[w][i + gone[w]].op
          /\ queue'[w][i].version = queue[w][i + gone[w]].version
          /\ queue'[w][i].by \in {queue[w][i + gone[w]].by, Absent}
  BY DEF Fewer
<1>2. \A w \in Worker : gone[w] \in Nat /\ \A i \in DOMAIN queue'[w] : i \in Nat
  BY SMT DEF Fewer
<1>3. OneMessage'
  <2> SUFFICES ASSUME NEW v \in Worker, NEW w \in Worker,
                      NEW i \in DOMAIN queue'[v], NEW j \in DOMAIN queue'[w],
                      queue'[v][i].by = queue'[w][j].by, queue'[v][i].by # Absent
               PROVE  v = w /\ i = j
    BY DEF OneMessage
  <2>1. v = w /\ i + gone[v] = j + gone[w]
    BY <1>1 DEF OneMessage
  <2> QED BY <1>2, <2>1, SMT
<1>4. CreatesName'
  BY <1>1 DEF CreatesName
<1>5. ASSUME LastCreate PROVE LastCreate'
  <2> SUFFICES ASSUME NEW w \in Worker, NEW i \in DOMAIN queue'[w], NEW j \in DOMAIN queue'[w],
                      i < j, queue'[w][i].op = "create", queue'[w][i].by # Absent
               PROVE  queue'[w][j].op # "create"
    BY DEF LastCreate
  <2>1. i + gone[w] < j + gone[w]
    BY <1>2, SMT
  <2> QED BY <1>1, <1>5, <2>1 DEF LastCreate
<1> QED BY <1>3, <1>4, <1>5

\* Nor is one more, of somebody who waits for no other.
LEMMA EntersKeeps ==
  ASSUME OneMessage, CreatesName, NEW w \in Worker, NEW m, Enters(w, m),
         m.by # Absent => Unawaited(m.by),
         m.op = "create" => m.version \in Version
  PROVE  /\ OneMessage' /\ CreatesName'
         /\ LastCreate /\ (m.op = "create" => \A i \in DOMAIN queue[w] :
              queue[w][i].op = "create" => queue[w][i].by = Absent)
              => LastCreate'
<1>1. OneMessage'
  <2> SUFFICES ASSUME NEW u \in Worker, NEW v \in Worker,
                      NEW i \in DOMAIN queue'[u], NEW j \in DOMAIN queue'[v],
                      queue'[u][i].by = queue'[v][j].by, queue'[u][i].by # Absent
               PROVE  u = v /\ i = j
    BY DEF OneMessage
  <2>1. CASE i \in DOMAIN queue[u] /\ j \in DOMAIN queue[v]
    BY <2>1 DEF Enters, OneMessage
  <2>2. CASE i \notin DOMAIN queue[u] /\ j \in DOMAIN queue[v]
    BY <2>2 DEF Enters, Unawaited
  <2>3. CASE i \in DOMAIN queue[u] /\ j \notin DOMAIN queue[v]
    BY <2>3 DEF Enters, Unawaited
  <2>4. CASE i \notin DOMAIN queue[u] /\ j \notin DOMAIN queue[v]
    BY <2>4 DEF Enters
  <2> QED BY <2>1, <2>2, <2>3, <2>4
<1>2. CreatesName'
  BY DEF Enters, CreatesName
<1>3. ASSUME LastCreate,
             m.op = "create" => \A i \in DOMAIN queue[w] :
               queue[w][i].op = "create" => queue[w][i].by = Absent
      PROVE  LastCreate'
  <2> SUFFICES ASSUME NEW v \in Worker, NEW i \in DOMAIN queue'[v], NEW j \in DOMAIN queue'[v],
                      i < j, queue'[v][i].op = "create", queue'[v][i].by # Absent
               PROVE  queue'[v][j].op # "create"
    BY DEF LastCreate
  <2>1. \A k \in DOMAIN queue'[v] : k \in Int
    BY SMT DEF Enters
  <2>2. CASE i \in DOMAIN queue[v] /\ j \in DOMAIN queue[v]
    BY <1>3, <2>2 DEF Enters, LastCreate
  <2>3. CASE i \in DOMAIN queue[v] /\ j \notin DOMAIN queue[v]
    BY <1>3, <2>3 DEF Enters
  <2>4. CASE i \notin DOMAIN queue[v] /\ j \in DOMAIN queue[v]
    <3>1. j < i
      BY <2>4 DEF Enters
    <3> QED BY <2>1, <3>1, SMT
  <2>5. CASE i \notin DOMAIN queue[v] /\ j \notin DOMAIN queue[v]
    <3>1. i = j
      BY <2>5 DEF Enters
    <3> QED BY <2>1, <3>1, SMT
  <2> QED BY <2>2, <2>3, <2>4, <2>5
<1> QED BY <1>1, <1>2, <1>3

-----------------------------------------------------------------------------
(* What holds whoever writes *)

Basics ==
  /\ CalculatorTypes /\ \A h \in Handler : HandlerHolds(h)
  /\ MessagesExpected /\ OneMessage /\ CreatesName
  /\ LoneAnswer /\ WaitersServed /\ EngineMade

Waits == {"waiting", "rewaiting", "patching"}

\* Only a step of a worker leaves an answer of a worker behind.
NoReply == \A h \in Handler : answer[h].is = "ok" => pc[h] \in Waits

Kept(h) ==
  pc'[h] = pc[h] /\ calc'[h] = calc[h] /\ made'[h] = made[h] /\ answer'[h] = answer[h]

\* A handler sends nothing, or a message that is expected.
QueueGrows ==
  \/ UNCHANGED queue
  \/ \E w \in Worker, m \in Messages :
       /\ Enters(w, m) /\ Expected(w, m)'
       /\ m.by # Absent => Unawaited(m.by)
       /\ m.op = "create" => m.version \in Version

\* Nobody else is a handler.
LEMMA Handlers ==
  /\ Absent \notin Handler /\ Rebuild \in Handler /\ Request \subseteq Handler
  /\ Rebuild \notin Request /\ Absent \notin Version /\ Absent \notin Worker
  /\ MaxGeneration \in Nat
BY CalculatorConstants DEF Handler

\* A handler that has its answer, or sent nothing, has no message before it.
LEMMA NoneAwaited ==
  ASSUME CalculatorTypes, MessagesExpected, NEW h \in Handler,
         \/ answer[h] # Nothing
         \/ pc[h] \notin {"creating", "patched", "posted", "calculating", "recalculating",
                          "destroying"}
  PROVE  Unawaited(h)
<1> SUFFICES ASSUME NEW w \in Worker, NEW i \in DOMAIN queue[w], queue[w][i].by = h PROVE FALSE
  BY DEF Unawaited
<1>1. queue[w][i] \in Messages
  BY SMT DEF CalculatorTypes
<1>2. Expected(w, queue[w][i]) /\ queue[w][i].by # Absent
  BY Handlers DEF MessagesExpected
<1> QED BY <1>1, <1>2, SMT DEF Expected, Messages


\* What a handler holds does not change without it.
LEMMA KeptHolds ==
  ASSUME NEW h \in Handler, Kept(h), HandlerHolds(h)
  PROVE  HandlerHolds(h)'
BY DEF Kept, HandlerHolds

\* Messages stay expected while those who wait for them stay where they are.
LEMMA StillExpected ==
  ASSUME CalculatorTypes, MessagesExpected, \A h \in Handler : Unawaited(h) \/ Kept(h),
         NEW w \in Worker, NEW i \in DOMAIN queue[w]
  PROVE  Expected(w, queue[w][i]) /\ queue[w][i].by \in Handler \cup {Absent}
         /\ (queue[w][i].by # Absent => Kept(queue[w][i].by))
<1>1. queue[w][i] \in Messages
  BY SMT DEF CalculatorTypes
<1>2. queue[w][i].by \in Handler \cup {Absent}
  BY <1>1 DEF Messages
<1>3. Expected(w, queue[w][i])
  BY DEF MessagesExpected
<1>4. queue[w][i].by # Absent => Kept(queue[w][i].by)
  BY <1>2 DEF Unawaited
<1> QED BY <1>2, <1>3, <1>4

\* A handler's step keeps the messages in order.
LEMMA QueueOfHandler ==
  ASSUME CalculatorTypes, MessagesExpected, OneMessage, CreatesName, QueueGrows,
         \A h \in Handler : Unawaited(h) \/ Kept(h)
  PROVE  MessagesExpected' /\ OneMessage' /\ CreatesName'
<1>1. CASE UNCHANGED queue
  <2>1. OneMessage' /\ CreatesName'
    BY <1>1, SameQueue, FewerKeeps
  <2>2. ASSUME NEW w \in Worker, NEW i \in DOMAIN queue'[w]
        PROVE  Expected(w, queue[w][i])'
    <3>1. i \in DOMAIN queue[w] /\ queue'[w][i] = queue[w][i]
      BY <1>1
    <3>2. Expected(w, queue[w][i]) /\ (queue[w][i].by # Absent => Kept(queue[w][i].by))
      BY <3>1, StillExpected
    <3> QED BY <1>1, <3>2 DEF Expected, Kept
  <2> QED BY <2>1, <2>2 DEF MessagesExpected
<1>2. CASE ~ UNCHANGED queue
  <2>1. PICK x \in Worker, m \in Messages :
          /\ Enters(x, m) /\ Expected(x, m)'
          /\ m.by # Absent => Unawaited(m.by)
          /\ m.op = "create" => m.version \in Version
    BY <1>2 DEF QueueGrows
  <2>2. OneMessage' /\ CreatesName'
    BY <2>1, EntersKeeps
  <2>3. ASSUME NEW w \in Worker, NEW i \in DOMAIN queue'[w]
        PROVE  Expected(w, queue[w][i])'
    <3>1. CASE i \in DOMAIN queue[w]
      <4>1. queue'[w][i] = queue[w][i]
        BY <2>1, <3>1 DEF Enters
      <4>2. Expected(w, queue[w][i]) /\ (queue[w][i].by # Absent => Kept(queue[w][i].by))
        BY <3>1, StillExpected
      <4> QED BY <4>1, <4>2 DEF Expected, Kept
    <3>2. CASE i \notin DOMAIN queue[w]
      <4>1. w = x /\ queue'[w][i] = m
        BY <2>1, <3>2 DEF Enters
      <4> QED BY <2>1, <4>1 DEF Expected
    <3> QED BY <3>1, <3>2
  <2> QED BY <2>2, <2>3 DEF MessagesExpected
<1> QED BY <1>1, <1>2

\* Without a reply, nothing is to be said of those who have one.
LEMMA NoReplyLeft == ASSUME NoReply PROVE LoneAnswer /\ EngineMade
BY DEF NoReply, LoneAnswer, EngineMade, Waits

\* A step of one handler that then waits for no rebuild.
LEMMA OneActor ==
  ASSUME Basics, NEW r \in Handler, Unawaited(r), \A h \in Handler \ {r} : Kept(h),
         CalculatorTypes', HandlerHolds(r)', QueueGrows,
         answer'[r].is # "ok", pc'[r] \notin Waits, r = Rebuild => pc'[r] # "idle",
         Quiet \/ answer[r] # Nothing
  PROVE  Basics' /\ NoReply'
<1>1. \A h \in Handler : HandlerHolds(h)'
  BY KeptHolds DEF Basics
<1>2. MessagesExpected' /\ OneMessage' /\ CreatesName'
  BY QueueOfHandler DEF Basics
<1>3. NoReply'
  <2> SUFFICES ASSUME NEW h \in Handler, answer'[h].is = "ok", pc'[h] \notin Waits PROVE FALSE
    BY DEF NoReply
  <2>1. h # r /\ answer[h].is = "ok" /\ pc[h] \notin Waits
    BY DEF Kept
  <2>2. answer[h] # Nothing
    BY <2>1 DEF Nothing
  <2> QED BY <2>1, <2>2 DEF Basics, LoneAnswer, Quiet, Waits
<1>4. WaitersServed'
  <2> SUFFICES ASSUME NEW q \in Waiting', answer'[q] = Nothing PROVE pc'[Rebuild] # "idle"
    BY DEF WaitersServed, Nothing
  <2>1. q \in Request /\ q # r /\ Kept(q)
    BY Handlers DEF Waiting, Waits
  <2>2. pc[Rebuild] # "idle"
    BY <2>1 DEF Basics, WaitersServed, Waiting, Kept
  <2> QED BY <2>2, Handlers DEF Kept
<1> QED BY <1>1, <1>2, <1>3, <1>4, NoReplyLeft DEF Basics, NoReply, LoneAnswer, EngineMade, Waits

\* What sending does.
LEMMA Sending ==
  ASSUME CalculatorTypes, NEW h \in Handler, NEW w \in Worker,
         NEW op \in {"create", "calculate", "destroy"}, NEW v \in Version \cup {Absent},
         Send(h, w, op, v)
  PROVE  /\ answer' \in [Handler -> Answers] /\ answer'[h] \in {Nothing, Failed}
         /\ \A g \in Handler \ {h} : answer'[g] = answer[g]
         /\ queue' \in [Worker -> Seq(Messages)]
         /\ Message(op, v, h) \in Messages
         /\ \/ UNCHANGED queue /\ answer'[h] = Failed
            \/ Enters(w, Message(op, v, h)) /\ answer'[h] = Nothing
<1>1. Message(op, v, h) \in Messages
  BY DEF Message, Messages
<1>2. Nothing \in Answers /\ Failed \in Answers
  BY DEF Nothing, Failed, Answers
<1>3. /\ answer' \in [Handler -> Answers]
      /\ answer'[h] = IF HasRoom THEN Nothing ELSE Failed
      /\ \A g \in Handler \ {h} : answer'[g] = answer[g]
  BY <1>2, SMT DEF Send, CalculatorTypes
<1>4. CASE HasRoom
  <2>1. Enters(w, Message(op, v, h))
    BY <1>1, <1>4, MessageEnters DEF Send
  <2> QED BY <1>1, <1>3, <1>4, <2>1 DEF Enters
<1>5. CASE ~HasRoom
  BY <1>1, <1>3, <1>5 DEF Send, CalculatorTypes
<1> QED BY <1>4, <1>5

\* What the dispose callback does.
LEMMA Disposing ==
  ASSUME CalculatorTypes, Dispose
  PROVE  /\ entry' = Absent /\ queue' \in [Worker -> Seq(Messages)]
         /\ Message("destroy", Absent, Absent) \in Messages
         /\ \/ UNCHANGED queue
            \/ entry \in Entry /\ Enters(entry.worker, Message("destroy", Absent, Absent))
<1>1. Message("destroy", Absent, Absent) \in Messages
  BY DEF Message, Messages
<1>2. CASE entry # Absent /\ HasRoom
  <2>1. entry \in Entry /\ entry.worker \in Worker
    BY <1>2 DEF CalculatorTypes, Entry
  <2>2. queue' = [queue EXCEPT ![entry.worker] = Append(@, Message("destroy", Absent, Absent))]
    BY <1>2 DEF Dispose
  <2>3. Enters(entry.worker, Message("destroy", Absent, Absent))
    BY <1>1, <2>1, <2>2, MessageEnters
  <2> QED BY <1>1, <2>1, <2>3 DEF Dispose, Enters
<1>3. CASE ~(entry # Absent /\ HasRoom)
  BY <1>1, <1>3 DEF Dispose, CalculatorTypes
<1> QED BY <1>2, <1>3

\* A disposal is waited for by nobody.
LEMMA DisposalGrows ==
  ASSUME CalculatorTypes, Dispose
  PROVE  QueueGrows
<1>1. CASE UNCHANGED queue
  BY <1>1 DEF QueueGrows
<1>2. CASE ~ UNCHANGED queue
  <2> DEFINE m == Message("destroy", Absent, Absent)
  <2>1. PICK w \in Worker : m \in Messages /\ Enters(w, m)
    BY <1>2, Disposing DEF Entry
  <2>2. m.by = Absent /\ m.op = "destroy"
    BY DEF Message
  <2>3. Expected(w, m)'
    BY <2>2 DEF Expected
  <2> QED BY <2>1, <2>2, <2>3 DEF QueueGrows
<1> QED BY <1>1, <1>2

\* A step of one handler that then waits for no rebuild, in these terms:
Acts(r) ==
  /\ Unawaited(r) /\ \A h \in Handler \ {r} : Kept(h)
  /\ CalculatorTypes' /\ HandlerHolds(r)' /\ QueueGrows
  /\ answer'[r] \in {Nothing, Failed} /\ pc'[r] \notin Waits
  /\ Quiet \/ answer[r] # Nothing

\* Such a step keeps what holds whoever writes.
LEMMA ActsKeeps ==
  ASSUME Basics, NEW r \in Handler, Acts(r), r = Rebuild => pc'[r] # "idle"
  PROVE  Basics' /\ NoReply'
<1>1. answer'[r].is # "ok"
  BY DEF Acts, Nothing, Failed
<1> QED BY <1>1, OneActor DEF Acts

\* One handler's row of the state changes, by a step that sets it to p, c and d.
LEMMA RowsTyped ==
  ASSUME CalculatorTypes, NEW r \in Handler, NEW p \in RequestPlaces \cup RebuildPlaces,
         NEW c \in Entry \cup {Absent}, NEW d \in Entry \cup Draft \cup {Absent},
         pc' = [pc EXCEPT ![r] = p],
         calc' = [calc EXCEPT ![r] = c], made' = [made EXCEPT ![r] = d]
  PROVE  /\ pc' \in [Handler -> RequestPlaces \cup RebuildPlaces]
         /\ calc' \in [Handler -> Entry \cup {Absent}]
         /\ made' \in [Handler -> Entry \cup Draft \cup {Absent}]
         /\ pc'[r] = p /\ calc'[r] = c /\ made'[r] = d
         /\ \A h \in Handler \ {r} : pc'[h] = pc[h] /\ calc'[h] = calc[h] /\ made'[h] = made[h]
BY DEF CalculatorTypes

\* A handler that ends.
LEMMA EndingActs ==
  ASSUME Basics, NEW r \in Request, Unawaited(r), End(r), Quiet \/ answer[r] # Nothing,
         \/ answer' = [answer EXCEPT ![r] = Nothing]
         \/ answer' = answer /\ Quiet,
         recipe' \in Recipe \cup {Absent}, entry' \in Entry \cup {Absent},
         results' \in [Generation -> Version \cup {Absent}], loaded' = loaded,
         queue' \in [Worker -> Seq(Messages)], QueueGrows,
         current' \in Version \cup {Absent}, excused' \in BOOLEAN, reborn' \in BOOLEAN
  PROVE  /\ Acts(r) /\ pc'[r] = "idle" /\ calc'[r] = Absent /\ made'[r] = Absent
         /\ answer'[r] = Nothing
<1>1. r \in Handler /\ r # Rebuild
  BY Handlers
<1>2. /\ pc' \in [Handler -> RequestPlaces \cup RebuildPlaces]
      /\ calc' \in [Handler -> Entry \cup {Absent}]
      /\ made' \in [Handler -> Entry \cup Draft \cup {Absent}]
      /\ pc'[r] = "idle" /\ calc'[r] = Absent /\ made'[r] = Absent
      /\ \A h \in Handler \ {r} : pc'[h] = pc[h] /\ calc'[h] = calc[h] /\ made'[h] = made[h]
  <2>1. "idle" \in RequestPlaces
    BY DEF RequestPlaces
  <2> QED BY <1>1, <2>1, RowsTyped DEF End, Basics
<1>3. /\ answer' \in [Handler -> Answers] /\ answer'[r] = Nothing
      /\ \A h \in Handler \ {r} : answer'[h] = answer[h]
  <2>1. Nothing \in Answers
    BY DEF Nothing, Answers
  <2> QED BY <1>1, <2>1 DEF Basics, CalculatorTypes, Quiet
<1>4. CalculatorTypes'
  BY <1>2, <1>3 DEF CalculatorTypes, Basics
<1>5. HandlerHolds(r)'
  BY <1>1, <1>2, <1>3 DEF HandlerHolds, Nothing, RequestPlaces
<1> QED BY <1>2, <1>3, <1>4, <1>5 DEF Acts, Kept, Waits

\* A handler that sends a message, and is then at p with c and d.
LEMMA SendingActs ==
  ASSUME Basics, NEW r \in Handler, Unawaited(r), Quiet \/ answer[r] # Nothing,
         NEW w \in Worker, NEW op \in {"create", "calculate", "destroy"},
         NEW v \in Version \cup {Absent}, Send(r, w, op, v),
         NEW p \in RequestPlaces \cup RebuildPlaces,
         NEW c \in Entry \cup {Absent}, NEW d \in Entry \cup Draft \cup {Absent},
         pc' = [pc EXCEPT ![r] = p],
         calc' = [calc EXCEPT ![r] = c], made' = [made EXCEPT ![r] = d],
         op = "create" =>
           p \in {"creating", "patched", "posted"} /\ d.worker = w /\ d.version = v /\ v \in Version,
         op = "calculate" => p \in {"calculating", "recalculating"} /\ c.worker = w,
         op = "destroy" => p = "destroying",
         p \notin Waits, HandlerHolds(r)',
         recipe' \in Recipe \cup {Absent}, entry' \in Entry \cup {Absent},
         results' = results, loaded' = loaded,
         current' \in Version \cup {Absent}, excused' \in BOOLEAN, reborn' \in BOOLEAN
  PROVE  /\ Acts(r) /\ pc'[r] = p /\ calc'[r] = c /\ made'[r] = d
         /\ UNCHANGED queue \/ Enters(w, Message(op, v, r))
<1>1. /\ pc' \in [Handler -> RequestPlaces \cup RebuildPlaces]
      /\ calc' \in [Handler -> Entry \cup {Absent}]
      /\ made' \in [Handler -> Entry \cup Draft \cup {Absent}]
      /\ pc'[r] = p /\ calc'[r] = c /\ made'[r] = d
      /\ \A h \in Handler \ {r} : pc'[h] = pc[h] /\ calc'[h] = calc[h] /\ made'[h] = made[h]
  BY RowsTyped DEF Basics
<1>2. /\ answer' \in [Handler -> Answers] /\ answer'[r] \in {Nothing, Failed}
      /\ \A g \in Handler \ {r} : answer'[g] = answer[g]
      /\ queue' \in [Worker -> Seq(Messages)]
      /\ Message(op, v, r) \in Messages
      /\ \/ UNCHANGED queue /\ answer'[r] = Failed
         \/ Enters(w, Message(op, v, r)) /\ answer'[r] = Nothing
  BY Sending DEF Basics
<1>3. CalculatorTypes'
  BY <1>1, <1>2 DEF CalculatorTypes, Basics
<1>4. QueueGrows
  <2>1. CASE UNCHANGED queue
    BY <2>1 DEF QueueGrows
  <2>2. CASE Enters(w, Message(op, v, r)) /\ answer'[r] = Nothing
    <3> DEFINE m == Message(op, v, r)
    <3>1. m.op = op /\ m.version = v /\ m.by = r
      BY DEF Message
    <3>2. Expected(w, m)'
      BY <1>1, <2>2, <3>1 DEF Expected
    <3> QED BY <1>2, <2>2, <3>1, <3>2 DEF QueueGrows
  <2> QED BY <1>2, <2>1, <2>2
<1> QED BY <1>1, <1>2, <1>3, <1>4 DEF Acts, Kept

-----------------------------------------------------------------------------
(* The steps of an execution *)

\* A cached result ends the execution.
LEMMA HitActs ==
  ASSUME Basics, NEW r \in Request, Hit(r)
  PROVE  Acts(r) /\ pc'[r] = "idle" /\ answer'[r] = Nothing
<1>1. Unawaited(r)
  BY NoneAwaited, Handlers DEF Hit, Basics
<1>2. QueueGrows
  BY DEF Hit, workerVars, QueueGrows
<1> QED BY <1>1, <1>2, EndingActs
     DEF Hit, storeVars, workerVars, historyVars, Basics, CalculatorTypes

\* So does a calculation, whatever it comes to,
LEMMA CalculatedActs ==
  ASSUME Basics, NEW r \in Request, Calculated(r)
  PROVE  Acts(r) /\ pc'[r] = "idle" /\ answer'[r] = Nothing
<1>1. r \in Handler /\ answer[r] # Nothing /\ pc[r] \in {"calculating", "recalculating"}
  BY Handlers DEF Calculated, Answered
<1>2. Unawaited(r)
  BY <1>1, NoneAwaited DEF Basics
<1>3. QueueGrows
  BY DEF Calculated, workerVars, QueueGrows
<1>4. results' \in [Generation -> Version \cup {Absent}]
  <2>1. HandlerHolds(r)
    BY <1>1 DEF Basics
  <2>2. answer[r].is = "ok" => answer[r].version \in Version
    BY <1>1, <2>1 DEF HandlerHolds
  <2> QED BY <2>2 DEF Calculated, Basics, CalculatorTypes
<1> QED BY <1>1, <1>2, <1>3, <1>4, EndingActs
     DEF Calculated, storeVars, workerVars, historyVars, Basics, CalculatorTypes

\* and a rebuild that failed.
LEMMA GiveUpActs ==
  ASSUME Basics, NEW r \in Request, GiveUp(r)
  PROVE  Acts(r) /\ pc'[r] = "idle" /\ answer'[r] = Nothing
<1>1. Unawaited(r) /\ answer[r] # Nothing
  BY NoneAwaited, Handlers DEF GiveUp, Answered, Basics
<1>2. QueueGrows
  BY DEF GiveUp, workerVars, QueueGrows
<1> QED BY <1>1, <1>2, EndingActs
     DEF GiveUp, storeVars, workerVars, historyVars, Basics, CalculatorTypes

\* Who stands somewhere with an entry and has sent nothing
LEMMA StandingActs ==
  ASSUME Basics, NEW r \in Request, Unawaited(r), Quiet \/ answer[r] # Nothing,
         NEW p \in {"checking", "deleting", "saving"},
         NEW c \in Entry \cup {Absent}, NEW d \in Entry \cup Draft \cup {Absent},
         p = "checking" => c \in Entry, p = "saving" => d \in Draft,
         pc' = [pc EXCEPT ![r] = p],
         calc' = [calc EXCEPT ![r] = c], made' = [made EXCEPT ![r] = d],
         \/ answer' = [answer EXCEPT ![r] = Nothing]
         \/ answer' = answer /\ Quiet,
         UNCHANGED <<storeVars, workerVars>>, current' \in Version \cup {Absent},
         excused' \in BOOLEAN, reborn' \in BOOLEAN
  PROVE  Acts(r) /\ pc'[r] = p /\ calc'[r] = c /\ made'[r] = d /\ answer'[r] = Nothing
<1>1. r \in Handler /\ r # Rebuild
  BY Handlers
<1>2. /\ pc' \in [Handler -> RequestPlaces \cup RebuildPlaces]
      /\ calc' \in [Handler -> Entry \cup {Absent}]
      /\ made' \in [Handler -> Entry \cup Draft \cup {Absent}]
      /\ pc'[r] = p /\ calc'[r] = c /\ made'[r] = d
      /\ \A h \in Handler \ {r} : pc'[h] = pc[h] /\ calc'[h] = calc[h] /\ made'[h] = made[h]
  <2>1. p \in RequestPlaces
    BY DEF RequestPlaces
  <2> QED BY <1>1, <2>1, RowsTyped DEF Basics
<1>3. /\ answer' \in [Handler -> Answers] /\ answer'[r] = Nothing
      /\ \A h \in Handler \ {r} : answer'[h] = answer[h]
  <2>1. Nothing \in Answers
    BY DEF Nothing, Answers
  <2> QED BY <1>1, <2>1 DEF Basics, CalculatorTypes, Quiet
<1>4. CalculatorTypes'
  BY <1>2, <1>3 DEF CalculatorTypes, Basics, storeVars, workerVars
<1>5. HandlerHolds(r)'
  BY <1>1, <1>2, <1>3 DEF HandlerHolds, Nothing, RequestPlaces
<1>6. QueueGrows
  BY DEF workerVars, QueueGrows
<1> QED BY <1>2, <1>3, <1>4, <1>5, <1>6 DEF Acts, Kept, Waits

\* POST /execute/calculator takes the entry of the store.
LEMMA ExecuteHitActs ==
  ASSUME Basics, NEW r \in Request, Execute(r), entry # Absent
  PROVE  Acts(r) /\ pc'[r] = "checking" /\ calc'[r] = entry /\ made'[r] = made[r]
         /\ answer'[r] = Nothing
<1>1. Unawaited(r)
  BY NoneAwaited, Handlers DEF Execute, Basics
<1>2. entry \in Entry /\ made[r] \in Entry \cup Draft \cup {Absent}
  BY Handlers DEF Basics, CalculatorTypes
<1>3. made' = [made EXCEPT ![r] = made[r]]
  BY Handlers DEF Execute, Basics, CalculatorTypes
<1> QED BY <1>1, <1>2, <1>3, StandingActs
     DEF Execute, storeVars, workerVars, Basics, CalculatorTypes

\* Who waited for the rebuild has its entry, or ends.
LEMMA FoundActs ==
  ASSUME Basics, NEW r \in Request, Found(r)
  PROVE  /\ Acts(r) /\ answer'[r] = Nothing
         /\ \/ /\ answer[r].is = "ok" /\ pc'[r] = "checking"
               /\ calc'[r] = calc[r] /\ calc[r] \in Entry
            \/ pc'[r] = "idle"
<1>1. Unawaited(r) /\ answer[r] # Nothing /\ r \in Handler /\ pc[r] = "waiting"
  BY NoneAwaited, Handlers DEF Found, Answered, Basics
<1>2. CASE answer[r].is = "ok"
  <2>1. calc[r] \in Entry /\ made[r] \in Entry \cup Draft \cup {Absent}
    BY <1>1, <1>2 DEF Basics, HandlerHolds, CalculatorTypes
  <2>2. made' = [made EXCEPT ![r] = made[r]] /\ calc' = [calc EXCEPT ![r] = calc[r]]
    BY <1>1, <1>2 DEF Found, Basics, CalculatorTypes
  <2> QED BY <1>1, <1>2, <2>1, <2>2, StandingActs
       DEF Found, storeVars, workerVars, historyVars, Basics, CalculatorTypes
<1>3. CASE answer[r].is # "ok"
  <2>1. QueueGrows
    BY DEF Found, workerVars, QueueGrows
  <2> QED BY <1>1, <1>3, <2>1, EndingActs
       DEF Found, storeVars, workerVars, historyVars, Basics, CalculatorTypes
<1> QED BY <1>2, <1>3

\* A calculation is asked of the worker of its entry.
LEMMA CalculateActs ==
  ASSUME Basics, NEW r \in Request, Unawaited(r), Quiet \/ answer[r] # Nothing,
         NEW at \in {"calculating", "recalculating"}, calc[r] \in Entry, Calculate(r, at)
  PROVE  /\ Acts(r) /\ pc'[r] = at /\ calc'[r] = calc[r] /\ made'[r] = made[r]
         /\ \/ UNCHANGED queue
            \/ Enters(calc[r].worker, Message("calculate", Absent, r))
<1>1. /\ r \in Handler /\ r # Rebuild /\ calc[r].worker \in Worker
      /\ made[r] \in Entry \cup Draft \cup {Absent}
      /\ at \in RequestPlaces \cup RebuildPlaces /\ at \notin Waits
  BY Handlers DEF Entry, Basics, CalculatorTypes, RequestPlaces, Waits
<1>2. /\ made' = [made EXCEPT ![r] = made[r]] /\ calc' = [calc EXCEPT ![r] = calc[r]]
      /\ pc' = [pc EXCEPT ![r] = at] /\ pc'[r] = at /\ calc'[r] = calc[r]
      /\ Send(r, calc[r].worker, "calculate", Absent)
  BY <1>1 DEF Calculate, Basics, CalculatorTypes
<1>3. answer'[r] \in {Nothing, Failed}
  BY <1>1, <1>2, Sending DEF Basics
<1>4. HandlerHolds(r)'
  BY <1>1, <1>2, <1>3 DEF HandlerHolds, Nothing, Failed, RequestPlaces
<1>5. /\ recipe' \in Recipe \cup {Absent} /\ entry' \in Entry \cup {Absent}
      /\ results' = results /\ loaded' = loaded
      /\ current' \in Version \cup {Absent} /\ excused' \in BOOLEAN /\ reborn' \in BOOLEAN
  BY DEF Calculate, storeVars, historyVars, Basics, CalculatorTypes
<1>6. \A op : op = "calculate" => op # "create" /\ op # "destroy"
  OBVIOUS
<1> QED BY <1>1, <1>2, <1>4, <1>5, <1>6, SendingActs

\* A cache miss sends the calculation,
LEMMA MissActs ==
  ASSUME Basics, NEW r \in Request, Miss(r)
  PROVE  /\ Acts(r) /\ pc'[r] = "calculating" /\ calc'[r] = calc[r] /\ made'[r] = made[r]
         /\ \/ UNCHANGED queue
            \/ Enters(calc[r].worker, Message("calculate", Absent, r))
<1>1. Unawaited(r) /\ calc[r] \in Entry
  BY NoneAwaited, Handlers DEF Miss, Basics, HandlerHolds
<1> QED BY <1>1, CalculateActs DEF Miss

\* and so does the retry on the rebuilt engine.
LEMMA RecalculateActs ==
  ASSUME Basics, NEW r \in Request, Recalculate(r)
  PROVE  /\ Acts(r) /\ pc'[r] = "recalculating" /\ calc'[r] = calc[r] /\ made'[r] = made[r]
         /\ \/ UNCHANGED queue
            \/ Enters(calc[r].worker, Message("calculate", Absent, r))
<1>1. Unawaited(r) /\ calc[r] \in Entry /\ answer[r] # Nothing
  BY NoneAwaited, Handlers DEF Recalculate, Answered, Basics, HandlerHolds
<1> QED BY <1>1, CalculateActs DEF Recalculate

-----------------------------------------------------------------------------
(* The steps of writers *)

\* A replacement starts with the destruction of the old engine:
LEMMA ReplaceActs ==
  ASSUME Basics, NEW r \in Request, Unawaited(r), Quiet \/ answer[r] # Nothing,
         NEW e \in Entry, NEW d \in Draft, Replace(r, e), made' = [made EXCEPT ![r] = d],
         UNCHANGED <<storeVars, loaded, current, reborn>>
  PROVE  /\ Acts(r) /\ pc'[r] = "destroying" /\ calc'[r] = e /\ made'[r] = d
         /\ UNCHANGED queue \/ Enters(e.worker, Message("destroy", Absent, r))
<1>1. /\ r \in Handler /\ r # Rebuild /\ e.worker \in Worker
      /\ "destroying" \in RequestPlaces \cup RebuildPlaces /\ "destroying" \notin Waits
  BY Handlers DEF Entry, RequestPlaces, Waits
<1>2. /\ pc' = [pc EXCEPT ![r] = "destroying"] /\ pc'[r] = "destroying"
      /\ calc' = [calc EXCEPT ![r] = e] /\ calc'[r] = e /\ made'[r] = d
      /\ Send(r, e.worker, "destroy", Absent) /\ e.gen < MaxGeneration
  BY <1>1 DEF Replace, Basics, CalculatorTypes
<1>3. answer'[r] \in {Nothing, Failed}
  BY <1>1, <1>2, Sending DEF Basics
<1>4. HandlerHolds(r)'
  BY <1>1, <1>2, <1>3 DEF HandlerHolds, Nothing, Failed, RequestPlaces
<1>5. /\ recipe' \in Recipe \cup {Absent} /\ entry' \in Entry \cup {Absent}
      /\ results' = results /\ loaded' = loaded
      /\ current' \in Version \cup {Absent} /\ excused' \in BOOLEAN /\ reborn' \in BOOLEAN
  BY DEF Replace, Begin, BesideNot, storeVars, Basics, CalculatorTypes
<1> QED BY <1>1, <1>2, <1>4, <1>5, SendingActs

\* PATCH /calculator on an entry of the store,
LEMMA PatchActs ==
  ASSUME Basics, NEW r \in Request, Patch(r), entry # Absent
  PROVE  /\ Acts(r) /\ pc'[r] = "destroying" /\ calc'[r] = entry
         /\ \/ UNCHANGED queue
            \/ Enters(entry.worker, Message("destroy", Absent, r))
<1>1. Unawaited(r) /\ entry \in Entry /\ Replace(r, entry) /\ Quiet
  BY NoneAwaited, Handlers DEF Patch, Basics, CalculatorTypes
<1>2. PICK v \in Version :
        made' = [made EXCEPT ![r] = [gen |-> 0, version |-> v, worker |-> Absent]]
  BY DEF Patch
<1>3. [gen |-> 0, version |-> v, worker |-> Absent] \in Draft
  BY Handlers DEF Draft, Generation
<1>4. UNCHANGED <<storeVars, loaded, current, reborn>>
  BY DEF Patch
<1> QED BY <1>1, <1>2, <1>3, <1>4, ReplaceActs

\* or on one that a rebuild has brought back.
LEMMA PatchFoundActs ==
  ASSUME Basics, NEW r \in Request, PatchFound(r)
  PROVE  /\ Acts(r)
         /\ \/ /\ answer[r].is = "ok" /\ pc'[r] = "destroying" /\ calc'[r] = calc[r]
               /\ calc[r] \in Entry /\ Replace(r, calc[r])
               /\ \/ UNCHANGED queue
                  \/ Enters(calc[r].worker, Message("destroy", Absent, r))
            \/ pc'[r] = "idle" /\ UNCHANGED queue /\ UNCHANGED excused
<1>1. /\ Unawaited(r) /\ answer[r] # Nothing /\ r \in Handler /\ pc[r] = "patching"
      /\ UNCHANGED <<storeVars, loaded, current, reborn>>
  BY NoneAwaited, Handlers DEF PatchFound, Answered, Basics
<1>2. CASE answer[r].is = "ok" /\ calc[r].gen < MaxGeneration
  <2>1. calc[r] \in Entry /\ made[r] \in Draft /\ made' = [made EXCEPT ![r] = made[r]]
    BY <1>1, <1>2 DEF Basics, HandlerHolds, CalculatorTypes, PatchFound
  <2>2. Replace(r, calc[r])
    BY <1>2 DEF PatchFound
  <2> QED BY <1>1, <1>2, <2>1, <2>2, ReplaceActs
<1>3. CASE ~(answer[r].is = "ok" /\ calc[r].gen < MaxGeneration)
  <2>1. End(r) /\ answer' = [answer EXCEPT ![r] = Nothing] /\ UNCHANGED <<queue, excused>>
    BY <1>3 DEF PatchFound
  <2>2. QueueGrows
    BY <2>1 DEF QueueGrows
  <2> QED BY <1>1, <2>1, <2>2, EndingActs DEF storeVars, Basics, CalculatorTypes
<1> QED BY <1>2, <1>3

\* An engine is asked for, of one worker, and is going to be an entry.
LEMMA CreatingActs ==
  ASSUME Basics, NEW r \in Handler, Unawaited(r), Quiet \/ answer[r] # Nothing,
         NEW at \in {"patched", "posted", "creating"}, at = "creating" <=> r = Rebuild,
         NEW g \in Generation, at = "posted" => g = 0,
         NEW v \in Version, NEW w \in Worker, Send(r, w, "create", v),
         made' = [made EXCEPT ![r] = [gen |-> g, version |-> v, worker |-> w]],
         pc' = [pc EXCEPT ![r] = at],
         NEW c \in Entry \cup {Absent}, calc' = [calc EXCEPT ![r] = c],
         recipe' \in Recipe \cup {Absent}, entry' \in Entry \cup {Absent},
         results' = results, loaded' = loaded,
         current' \in Version \cup {Absent}, excused' \in BOOLEAN, reborn' \in BOOLEAN
  PROVE  /\ Acts(r) /\ pc'[r] = at /\ made'[r].gen = g /\ made'[r].version = v
         /\ \/ UNCHANGED queue
            \/ \E x \in Worker : Enters(x, Message("create", v, r))
<1> DEFINE d == [gen |-> g, version |-> v, worker |-> w]
<1>1. /\ d \in Entry /\ at \in RequestPlaces \cup RebuildPlaces /\ at \notin Waits
  BY Handlers DEF Entry, RequestPlaces, RebuildPlaces, Waits
<1>2. pc'[r] = at /\ made'[r] = d /\ calc'[r] = c
  BY <1>1 DEF Basics, CalculatorTypes
<1>3. answer'[r] \in {Nothing, Failed}
  BY Sending DEF Basics
<1>4. HandlerHolds(r)'
  BY <1>1, <1>2, <1>3, Handlers DEF HandlerHolds, Nothing, Failed, RequestPlaces, RebuildPlaces
<1>5. d.worker = w /\ d.version = v /\ d.gen = g /\ "create" # "calculate" /\ "create" # "destroy"
  OBVIOUS
<1> HIDE DEF d
<1>6. /\ Acts(r) /\ pc'[r] = at /\ calc'[r] = c /\ made'[r] = d
      /\ UNCHANGED queue \/ Enters(w, Message("create", v, r))
  BY <1>1, <1>4, <1>5, SendingActs DEF d
<1> QED BY <1>5, <1>6

\* A deploy sends its create and keeps what it is making:
LEMMA CreateActs ==
  ASSUME Basics, NEW r \in Request, Unawaited(r), Quiet \/ answer[r] # Nothing,
         NEW at \in {"patched", "posted"}, NEW g \in Generation, at = "posted" => g = 0,
         NEW v \in Version, CreateFor(r, at, g, v),
         NEW c \in Entry \cup {Absent}, calc' = [calc EXCEPT ![r] = c],
         UNCHANGED <<storeVars, loaded, current, reborn>>, excused' \in BOOLEAN
  PROVE  /\ Acts(r) /\ pc'[r] = at /\ made'[r].gen = g /\ made'[r].version = v
         /\ \/ UNCHANGED queue
            \/ \E w \in Worker : Enters(w, Message("create", v, r))
<1>1. PICK w \in Worker :
        /\ Send(r, w, "create", v)
        /\ made' = [made EXCEPT ![r] = [gen |-> g, version |-> v, worker |-> w]]
        /\ pc' = [pc EXCEPT ![r] = at]
  BY DEF CreateFor
<1>2. /\ r \in Handler /\ (at = "creating" <=> r = Rebuild)
      /\ at \in {"patched", "posted", "creating"}
  BY Handlers
<1>3. /\ recipe' \in Recipe \cup {Absent} /\ entry' \in Entry \cup {Absent}
      /\ results' = results /\ loaded' = loaded
      /\ current' \in Version \cup {Absent} /\ excused' \in BOOLEAN /\ reborn' \in BOOLEAN
  BY DEF storeVars, Basics, CalculatorTypes
<1> QED BY <1>1, <1>2, <1>3, CreatingActs

\* PATCH, with the next generation,
LEMMA DestroyedActs ==
  ASSUME Basics, NEW r \in Request, Destroyed(r)
  PROVE  /\ Acts(r) /\ pc'[r] = "patched" /\ calc[r] \in Entry /\ made'[r].gen = calc[r].gen + 1
         /\ \/ UNCHANGED queue
            \/ \E w \in Worker, v \in Version : Enters(w, Message("create", v, r))
<1>1. /\ Unawaited(r) /\ answer[r] # Nothing /\ r \in Handler /\ pc[r] = "destroying"
      /\ CreateFor(r, "patched", NextGeneration(calc[r]), made[r].version)
      /\ calc' = [calc EXCEPT ![r] = Absent]
      /\ UNCHANGED <<storeVars, loaded, historyVars>>
  BY NoneAwaited, Handlers DEF Destroyed, Answered, Basics
<1>2. /\ calc[r] \in Entry /\ calc[r].gen < MaxGeneration /\ made[r] \in Draft
      /\ excused' \in BOOLEAN
  BY <1>1 DEF Basics, HandlerHolds, CalculatorTypes, historyVars
<1>3. /\ NextGeneration(calc[r]) = calc[r].gen + 1 /\ calc[r].gen + 1 \in Generation
      /\ made[r].version \in Version
  BY <1>2, Handlers DEF NextGeneration, Entry, Generation, Draft
<1>4. UNCHANGED <<storeVars, loaded, current, reborn>>
  BY <1>1 DEF historyVars
<1>5. PICK g \in Generation, v \in Version :
        CreateFor(r, "patched", g, v) /\ g = calc[r].gen + 1
  BY <1>1, <1>3
<1>6. /\ Acts(r) /\ pc'[r] = "patched" /\ made'[r].gen = g
      /\ \/ UNCHANGED queue
         \/ \E w \in Worker : Enters(w, Message("create", v, r))
  <2>1. Absent \in Entry \cup {Absent} /\ "patched" # "posted"
    OBVIOUS
  <2> QED BY <1>1, <1>2, <1>4, <1>5, <2>1, CreateActs
<1> QED BY <1>2, <1>5, <1>6

\* and POST, with generation 0.
LEMMA PostActs ==
  ASSUME Basics, NEW r \in Request, Post(r)
  PROVE  /\ Acts(r) /\ pc'[r] = "posted"
         /\ \/ UNCHANGED queue
            \/ \E w \in Worker, v \in Version : Enters(w, Message("create", v, r))
<1>1. /\ Unawaited(r) /\ r \in Handler /\ Quiet
      /\ UNCHANGED <<storeVars, loaded, current, reborn>>
  BY NoneAwaited, Handlers DEF Post, Basics
<1>2. PICK v \in Version : CreateFor(r, "posted", 0, v)
  BY DEF Post
<1>3. /\ calc[r] \in Entry \cup {Absent} /\ calc' = [calc EXCEPT ![r] = calc[r]]
      /\ excused' \in BOOLEAN /\ 0 \in Generation
  BY <1>1, Handlers DEF Post, Begin, BesideNot, Basics, CalculatorTypes, Generation
<1> QED BY <1>1, <1>2, <1>3, CreateActs

\* A deploy whose engine is made ends,
LEMMA CreatedActs ==
  ASSUME Basics, NEW r \in Request, Created(r)
  PROVE  Acts(r) /\ pc'[r] = "idle" /\ answer'[r] = Nothing /\ made[r] \in Entry
<1>1. r \in Handler /\ answer[r] # Nothing /\ pc[r] \in {"patched", "posted"}
  BY Handlers DEF Created, Answered
<1>2. Unawaited(r) /\ made[r] \in Entry
  BY <1>1, NoneAwaited DEF Basics, HandlerHolds
<1>3. QueueGrows
  BY DEF Created, workerVars, QueueGrows
<1>4. recipe' \in Recipe \cup {Absent} /\ excused' \in BOOLEAN
  <2>1. AsRecipe(made[r]) \in Recipe
    BY <1>2 DEF AsRecipe, Entry, Recipe
  <2>2. \/ recipe' = AsRecipe(made[r]) /\ excused' = excused
        \/ recipe' = recipe /\ excused' = TRUE
    BY DEF Created, Save
  <2> QED BY <2>1, <2>2 DEF Basics, CalculatorTypes
<1>5. current' \in Version \cup {Absent} /\ reborn' \in BOOLEAN
  <2>1. current' \in Version
    BY <1>2 DEF Created, Entry
  <2>2. reborn' = (reborn \/ (pc[r] = "posted" /\ AnyResult))
    BY DEF Created
  <2> QED BY <2>1, <2>2 DEF Basics, CalculatorTypes
<1> QED BY <1>1, <1>2, <1>3, <1>4, <1>5, EndingActs
     DEF Created, workerVars, Basics, CalculatorTypes

\* and one whose engine is not.
LEMMA NotCreatedActs ==
  ASSUME Basics, NEW r \in Request, NotCreated(r)
  PROVE  Acts(r) /\ pc'[r] = "idle" /\ answer'[r] = Nothing
<1>1. r \in Handler /\ answer[r] # Nothing
  BY Handlers DEF NotCreated, Answered
<1>2. Unawaited(r)
  BY <1>1, NoneAwaited DEF Basics
<1>3. QueueGrows
  BY DEF NotCreated, workerVars, QueueGrows
<1> QED BY <1>1, <1>2, <1>3, EndingActs
     DEF NotCreated, storeVars, workerVars, historyVars, Basics, CalculatorTypes

\* DELETE /calculator remembers the entry,
LEMMA DeleteActs ==
  ASSUME Basics, NEW r \in Request, Delete(r)
  PROVE  Acts(r) /\ pc'[r] = "deleting" /\ calc'[r] = entry
<1>1. Unawaited(r) /\ r \in Handler
  BY NoneAwaited, Handlers DEF Delete, Basics
<1>2. /\ entry \in Entry \cup {Absent} /\ made[r] \in Entry \cup Draft \cup {Absent}
      /\ made' = [made EXCEPT ![r] = made[r]] /\ excused' \in BOOLEAN
  BY <1>1 DEF Delete, Begin, BesideNot, Basics, CalculatorTypes
<1>3. "deleting" # "checking" /\ "deleting" # "saving"
  OBVIOUS
<1> QED BY <1>1, <1>2, <1>3, StandingActs
     DEF Delete, storeVars, workerVars, Basics, CalculatorTypes

\* and ends when it is gone.
LEMMA DeletedActs ==
  ASSUME Basics, NEW r \in Request, Deleted(r)
  PROVE  Acts(r) /\ pc'[r] = "idle" /\ answer'[r] = Nothing
<1>1. Unawaited(r) /\ r \in Handler /\ Quiet
  BY NoneAwaited, Handlers DEF Deleted, Basics
<1>2. /\ entry' \in Entry \cup {Absent} /\ queue' \in [Worker -> Seq(Messages)]
      /\ QueueGrows
  <2>1. CASE Dispose
    BY <2>1, Disposing, DisposalGrows DEF Basics
  <2>2. CASE UNCHANGED <<entry, queue>>
    BY <2>2 DEF QueueGrows, Basics, CalculatorTypes
  <2> QED BY <2>1, <2>2 DEF Deleted
<1>3. recipe' \in Recipe \cup {Absent} /\ current' \in Version \cup {Absent}
      /\ excused' \in BOOLEAN /\ reborn' \in BOOLEAN
  BY DEF Deleted, Basics, CalculatorTypes
<1> QED BY <1>1, <1>2, <1>3, EndingActs DEF Deleted, Basics, CalculatorTypes

\* refresh-mcp drafts what the recipe says,
LEMMA ReadRecipeActs ==
  ASSUME Basics, NEW r \in Request, ReadRecipe(r)
  PROVE  /\ Acts(r) /\ pc'[r] = "saving"
         /\ made'[r].gen = recipe.gen /\ made'[r].version = recipe.version
<1>1. Unawaited(r) /\ r \in Handler /\ Quiet
  BY NoneAwaited, Handlers DEF ReadRecipe, Basics
<1> DEFINE d == [gen |-> recipe.gen, version |-> recipe.version, worker |-> Absent]
<1>2. /\ d \in Draft /\ d.gen = recipe.gen /\ d.version = recipe.version
      /\ made' = [made EXCEPT ![r] = d]
  BY DEF ReadRecipe, Basics, CalculatorTypes, Recipe, Draft
<1>3. /\ calc[r] \in Entry \cup {Absent} /\ calc' = [calc EXCEPT ![r] = calc[r]]
      /\ excused' \in BOOLEAN
  BY <1>1 DEF ReadRecipe, Begin, BesideNot, Basics, CalculatorTypes
<1>4. "saving" # "checking"
  OBVIOUS
<1> HIDE DEF d
<1>5. Acts(r) /\ pc'[r] = "saving" /\ made'[r] = d
  BY <1>1, <1>2, <1>3, <1>4, StandingActs
     DEF ReadRecipe, storeVars, workerVars, Basics, CalculatorTypes
<1> QED BY <1>2, <1>5

\* getMetadata what the database says,
LEMMA ReadRowActs ==
  ASSUME Basics, NEW r \in Request, ReadRow(r)
  PROVE  /\ Acts(r) /\ pc'[r] = "saving"
         /\ made'[r].gen = 0 /\ made'[r].version = current'
<1>1. Unawaited(r) /\ r \in Handler /\ Quiet
  BY NoneAwaited, Handlers DEF ReadRow, Basics
<1>2. PICK v \in Version :
        /\ made' = [made EXCEPT ![r] = [gen |-> 0, version |-> v, worker |-> Absent]]
        /\ current' = v
  BY DEF ReadRow
<1> DEFINE d == [gen |-> 0, version |-> v, worker |-> Absent]
<1>3. d \in Draft /\ d.gen = 0 /\ d.version = v
  BY Handlers DEF Draft, Generation
<1>4. /\ calc[r] \in Entry \cup {Absent} /\ calc' = [calc EXCEPT ![r] = calc[r]]
      /\ excused' \in BOOLEAN /\ reborn' \in BOOLEAN
  BY <1>1 DEF ReadRow, Begin, BesideNot, Basics, CalculatorTypes
<1>5. "saving" # "checking"
  OBVIOUS
<1>6. made' = [made EXCEPT ![r] = d]
  BY <1>2
<1> HIDE DEF d
<1>7. Acts(r) /\ pc'[r] = "saving" /\ made'[r] = d
  BY <1>1, <1>2, <1>3, <1>4, <1>5, <1>6, StandingActs
     DEF ReadRow, storeVars, workerVars, Basics, CalculatorTypes
<1> QED BY <1>2, <1>3, <1>7

\* and both end when it is saved.
LEMMA SaveRecipeActs ==
  ASSUME Basics, NEW r \in Request, SaveRecipe(r)
  PROVE  Acts(r) /\ pc'[r] = "idle" /\ answer'[r] = Nothing /\ made[r] \in Draft
<1>1. Unawaited(r) /\ r \in Handler /\ Quiet /\ pc[r] = "saving"
  BY NoneAwaited, Handlers DEF SaveRecipe, Basics
<1>2. made[r] \in Draft
  BY <1>1 DEF Basics, HandlerHolds
<1>3. QueueGrows
  BY DEF SaveRecipe, workerVars, QueueGrows
<1>4. recipe' \in Recipe \cup {Absent}
  BY <1>2 DEF SaveRecipe, AsRecipe, Draft, Recipe, Basics, CalculatorTypes
<1> QED BY <1>1, <1>2, <1>3, <1>4, EndingActs
     DEF SaveRecipe, workerVars, historyVars, Basics, CalculatorTypes

-----------------------------------------------------------------------------
(* Rebuilds *)

\* A request waits for a rebuild, and starts it unless there is one.
Joins(r, at) ==
  /\ pc'[r] = at /\ answer'[r] = Nothing
  /\ pc'[Rebuild] = IF pc[Rebuild] = "idle" THEN "loading" ELSE pc[Rebuild]
  /\ calc'[Rebuild] = calc[Rebuild] /\ made'[Rebuild] = made[Rebuild]
  /\ answer'[Rebuild] = answer[Rebuild]
  /\ \A h \in Handler \ {r, Rebuild} : Kept(h)

\* Joining a rebuild keeps what holds whoever writes: in general,
LEMMA JoinKeeps ==
  ASSUME Basics, NEW r \in Request, Unawaited(r), Quiet \/ answer[r] # Nothing,
         NEW at \in Waits, WaitForRebuild(r, at),
         NEW c \in Entry \cup {Absent}, NEW d \in Entry \cup Draft \cup {Absent},
         at = "patching" => d \in Draft,
         calc' = [calc EXCEPT ![r] = c], made' = [made EXCEPT ![r] = d],
         \/ answer' = [answer EXCEPT ![r] = Nothing]
         \/ answer' = answer /\ Quiet,
         recipe' = recipe, entry' \in Entry \cup {Absent}, results' = results, loaded' = loaded,
         queue' \in [Worker -> Seq(Messages)], QueueGrows,
         current' = current, reborn' = reborn
  PROVE  Basics' /\ NoReply' /\ Joins(r, at) /\ calc'[r] = c /\ made'[r] = d
<1>1. /\ r \in Handler /\ r # Rebuild /\ Rebuild \in Handler
      /\ at \in RequestPlaces /\ "loading" \in RebuildPlaces
  BY Handlers DEF Waits, RequestPlaces, RebuildPlaces
<1>2. /\ pc' \in [Handler -> RequestPlaces \cup RebuildPlaces]
      /\ pc'[r] = at
      /\ pc'[Rebuild] = IF pc[Rebuild] = "idle" THEN "loading" ELSE pc[Rebuild]
      /\ \A h \in Handler \ {r, Rebuild} : pc'[h] = pc[h]
  BY <1>1 DEF WaitForRebuild, Basics, CalculatorTypes
<1>3. /\ calc' \in [Handler -> Entry \cup {Absent}]
      /\ made' \in [Handler -> Entry \cup Draft \cup {Absent}]
      /\ calc'[r] = c /\ made'[r] = d
      /\ \A h \in Handler \ {r} : calc'[h] = calc[h] /\ made'[h] = made[h]
  BY <1>1 DEF Basics, CalculatorTypes
<1>4. /\ answer' \in [Handler -> Answers] /\ answer'[r] = Nothing
      /\ \A h \in Handler \ {r} : answer'[h] = answer[h]
  <2>1. Nothing \in Answers
    BY DEF Nothing, Answers
  <2> QED BY <1>1, <2>1 DEF Basics, CalculatorTypes, Quiet
<1>5. excused' \in BOOLEAN
  BY DEF WaitForRebuild, BesideNot, Basics, CalculatorTypes
<1>6. CalculatorTypes'
  BY <1>2, <1>3, <1>4, <1>5 DEF CalculatorTypes, Basics
<1>7. Joins(r, at)
  BY <1>1, <1>2, <1>3, <1>4 DEF Joins, Kept
<1>8. \A h \in Handler : HandlerHolds(h)'
  <2>1. HandlerHolds(r)'
    BY <1>1, <1>2, <1>3, <1>4 DEF HandlerHolds, Nothing, RequestPlaces, Waits
  <2>2. HandlerHolds(Rebuild)'
    <3>1. HandlerHolds(Rebuild)
      BY <1>1 DEF Basics
    <3>2. CASE pc[Rebuild] = "idle"
      BY <1>1, <1>2, <1>3, <1>4, <3>1, <3>2 DEF HandlerHolds, RebuildPlaces
    <3>3. CASE pc[Rebuild] # "idle"
      BY <1>1, <1>2, <1>3, <1>4, <3>1, <3>3 DEF HandlerHolds
    <3> QED BY <3>2, <3>3
  <2>3. \A h \in Handler \ {r, Rebuild} : HandlerHolds(h)'
    BY <1>7, KeptHolds DEF Joins, Basics
  <2> QED BY <2>1, <2>2, <2>3
<1>9. \A h \in Handler : Unawaited(h) \/ Kept(h)
  <2>1. Kept(Rebuild) \/ pc[Rebuild] = "idle"
    BY <1>7 DEF Joins, Kept
  <2>2. pc[Rebuild] = "idle" => Unawaited(Rebuild)
    BY <1>1, NoneAwaited DEF Basics
  <2> QED BY <1>7, <2>1, <2>2 DEF Joins
<1>10. MessagesExpected' /\ OneMessage' /\ CreatesName'
  BY <1>9, QueueOfHandler DEF Basics
<1>11. NoReply'
  <2> SUFFICES ASSUME NEW h \in Handler, answer'[h].is = "ok", pc'[h] \notin Waits PROVE FALSE
    BY DEF NoReply
  <2>1. h # r /\ answer'[h] = answer[h]
    BY <1>2, <1>4
  <2>2. pc[h] \notin Waits
    BY <1>2, <2>1 DEF Waits
  <2>3. answer[h] # Nothing
    BY <2>1 DEF Nothing
  <2> QED BY <1>1, <2>1, <2>2, <2>3 DEF Basics, LoneAnswer, Quiet, Waits
<1>12. WaitersServed'
  BY <1>2 DEF WaitersServed
<1> QED BY <1>3, <1>6, <1>7, <1>8, <1>10, <1>11, <1>12, NoReplyLeft
     DEF Basics, NoReply, LoneAnswer, EngineMade, Waits

\* for an execution that finds no entry,
LEMMA ExecuteJoins ==
  ASSUME Basics, NEW r \in Request, Execute(r), entry = Absent
  PROVE  Basics' /\ NoReply' /\ Joins(r, "waiting")
<1>1. Unawaited(r) /\ r \in Handler /\ Quiet
  BY NoneAwaited, Handlers DEF Execute, Basics
<1>2. /\ calc[r] \in Entry \cup {Absent} /\ calc' = [calc EXCEPT ![r] = calc[r]]
      /\ made[r] \in Entry \cup Draft \cup {Absent} /\ made' = [made EXCEPT ![r] = made[r]]
  BY <1>1 DEF Execute, Basics, CalculatorTypes
<1>3. QueueGrows /\ "waiting" \in Waits /\ "waiting" # "patching"
  BY DEF Execute, workerVars, QueueGrows, Waits
<1> QED BY <1>1, <1>2, <1>3, JoinKeeps
     DEF Execute, storeVars, workerVars, Basics, CalculatorTypes

\* for a PATCH that finds none,
LEMMA PatchJoins ==
  ASSUME Basics, NEW r \in Request, Patch(r), entry = Absent
  PROVE  Basics' /\ NoReply' /\ Joins(r, "patching")
<1>1. Unawaited(r) /\ r \in Handler /\ Quiet
  BY NoneAwaited, Handlers DEF Patch, Basics
<1>2. PICK d \in Draft : made' = [made EXCEPT ![r] = d]
  <2>1. \A v \in Version : [gen |-> 0, version |-> v, worker |-> Absent] \in Draft
    BY Handlers DEF Draft, Generation
  <2> QED BY <2>1 DEF Patch
<1>3. calc[r] \in Entry \cup {Absent} /\ calc' = [calc EXCEPT ![r] = calc[r]]
  BY <1>1 DEF Patch, Basics, CalculatorTypes
<1>4. QueueGrows /\ "patching" \in Waits
  BY DEF Patch, QueueGrows, Waits
<1> QED BY <1>1, <1>2, <1>3, <1>4, JoinKeeps
     DEF Patch, storeVars, Basics, CalculatorTypes

\* and for an execution whose engine is lost.
LEMMA LostJoins ==
  ASSUME Basics, NEW r \in Request, Lost(r)
  PROVE  Basics' /\ NoReply' /\ Joins(r, "rewaiting")
<1>1. Unawaited(r) /\ r \in Handler /\ answer[r] # Nothing
  BY NoneAwaited, Handlers DEF Lost, Answered, Basics
<1>2. made[r] \in Entry \cup Draft \cup {Absent} /\ made' = [made EXCEPT ![r] = made[r]]
  BY <1>1 DEF Lost, Basics, CalculatorTypes
<1>3. QueueGrows /\ queue' \in [Worker -> Seq(Messages)] /\ entry' = Absent
  BY DisposalGrows, Disposing DEF Lost, Basics
<1>4. "rewaiting" \in Waits /\ "rewaiting" # "patching"
  BY DEF Waits
<1> QED BY <1>1, <1>2, <1>3, <1>4, JoinKeeps DEF Lost

\* The end of a rebuild, with answer a and entry e.
Ends(a, e) ==
  /\ pc'[Rebuild] = "idle" /\ answer'[Rebuild] = Nothing
  /\ \A r \in Request : pc'[r] = pc[r] /\ made'[r] = made[r]
  /\ \A r \in Waiting : calc'[r] = e /\ answer'[r] = a
  /\ \A r \in Request \ Waiting : Kept(r)

\* So does the end of a rebuild: in general,
LEMMA EndKeeps ==
  ASSUME Basics, pc[Rebuild] # "idle",
         NEW a \in {NotFound, Failed} \cup {Ok(v) : v \in Version}, NEW e \in Entry \cup {Absent},
         a.is = "ok" => e \in Entry, EndRebuild(a, e), Unawaited(Rebuild),
         Quiet \/ answer[Rebuild].is = "failed" \/ answer[Rebuild].is = "notFound",
         UNCHANGED <<storeVars, workerVars, historyVars>>
  PROVE  Basics' /\ NoReply' /\ Ends(a, e)
<1>1. /\ Rebuild \in Handler /\ Rebuild \notin Request /\ Rebuild \notin Waiting
      /\ Waiting \subseteq Request /\ Waiting \subseteq Handler
      /\ Handler = Request \cup {Rebuild}
  BY Handlers DEF Waiting, Handler
<1>2. a \in Answers /\ a # Nothing /\ a.is # "nothing" /\ Nothing \in Answers
  BY DEF NotFound, Failed, Ok, Nothing, Answers
<1>3. /\ pc' \in [Handler -> RequestPlaces \cup RebuildPlaces]
      /\ pc'[Rebuild] = "idle" /\ \A r \in Request : pc'[r] = pc[r]
      /\ made' \in [Handler -> Entry \cup Draft \cup {Absent}]
      /\ \A r \in Request : made'[r] = made[r]
  BY <1>1 DEF EndRebuild, Basics, CalculatorTypes, RebuildPlaces
<1>4. /\ calc' \in [Handler -> Entry \cup {Absent}]
      /\ \A r \in Waiting : calc'[r] = e
      /\ \A r \in Request \ Waiting : calc'[r] = calc[r]
  BY <1>1 DEF EndRebuild, Basics, CalculatorTypes
<1>5. /\ answer' \in [Handler -> Answers] /\ answer'[Rebuild] = Nothing
      /\ \A r \in Waiting : answer'[r] = a
      /\ \A r \in Request \ Waiting : answer'[r] = answer[r]
  BY <1>1, <1>2 DEF EndRebuild, Basics, CalculatorTypes
<1>6. CalculatorTypes'
  BY <1>3, <1>4, <1>5 DEF CalculatorTypes, Basics, storeVars, workerVars, historyVars
<1>7. Ends(a, e)
  BY <1>3, <1>4, <1>5 DEF Ends, Kept
<1>8. \A h \in Handler : HandlerHolds(h)'
  <2>1. HandlerHolds(Rebuild)'
    BY <1>3, <1>5 DEF HandlerHolds, RebuildPlaces, Nothing
  <2>2. ASSUME NEW r \in Waiting PROVE HandlerHolds(r)'
    <3>1. HandlerHolds(r) /\ r # Rebuild /\ pc[r] \in {"waiting", "rewaiting", "patching"}
      BY <1>1 DEF Basics, Waiting
    <3> QED BY <1>1, <1>2, <1>3, <1>4, <1>5, <3>1 DEF HandlerHolds
  <2>3. \A r \in Request \ Waiting : HandlerHolds(r)'
    BY <1>1, <1>7, KeptHolds DEF Ends, Basics
  <2> QED BY <1>1, <2>1, <2>2, <2>3
<1>9. \A h \in Handler : Unawaited(h) \/ Kept(h)
  <2>1. \A r \in Waiting : Unawaited(r)
    BY <1>1, NoneAwaited DEF Basics, Waiting
  <2> QED BY <1>1, <1>7, <2>1 DEF Ends
<1>10. MessagesExpected' /\ OneMessage' /\ CreatesName'
  <2>1. QueueGrows
    BY DEF workerVars, QueueGrows
  <2> QED BY <1>9, <2>1, QueueOfHandler DEF Basics
<1>11. NoReply'
  <2> SUFFICES ASSUME NEW h \in Handler, answer'[h].is = "ok", pc'[h] \notin Waits PROVE FALSE
    BY DEF NoReply
  <2>1. h # Rebuild
    BY <1>5 DEF Nothing
  <2>2. h \in Request /\ h \notin Waiting
    BY <1>1, <1>3, <2>1 DEF Waiting, Waits
  <2>3. answer[h].is = "ok" /\ pc[h] \notin {"waiting", "rewaiting", "patching"}
    BY <1>3, <1>5, <2>2 DEF Waits
  <2>4. (answer[Rebuild] # Nothing /\ answer[h] # Nothing) \/ Quiet
    BY <2>3 DEF Nothing
  <2> QED BY <1>1, <2>1, <2>3, <2>4 DEF Basics, LoneAnswer, Quiet, Nothing
<1>12. WaitersServed'
  <2>1. \A r \in Waiting' : r \in Waiting
    BY <1>3 DEF Waiting
  <2> QED BY <1>2, <1>5, <2>1 DEF WaitersServed, Nothing
<1> QED BY <1>6, <1>7, <1>8, <1>10, <1>11, <1>12, NoReplyLeft
     DEF Basics, NoReply, LoneAnswer, EngineMade, Waits

\* of one that finds no configuration,
LEMMA LoadNothingKeeps ==
  ASSUME Basics, LoadNothing
  PROVE  Basics' /\ NoReply' /\ Ends(NotFound, Absent)
<1>1. Unawaited(Rebuild)
  BY NoneAwaited, Handlers DEF LoadNothing, Basics
<1>2. NotFound.is # "ok"
  BY DEF NotFound
<1> QED BY <1>1, <1>2, EndKeeps DEF LoadNothing

\* of one whose engine is not made (the others go on),
LEMMA RebuildCreatedKeeps ==
  ASSUME Basics, RebuildCreated
  PROVE  /\ Basics' /\ NoReply'
         /\ \/ Ends(Failed, Absent)
            \/ /\ answer[Rebuild].is = "ok" /\ made[Rebuild] \in Entry
               /\ pc'[Rebuild] = "enriching" /\ made' = made /\ calc' = calc
               /\ answer'[Rebuild] = Nothing /\ \A r \in Request : Kept(r)
<1>1. /\ Unawaited(Rebuild) /\ pc[Rebuild] = "creating" /\ answer[Rebuild] # Nothing
      /\ Rebuild \in Handler /\ UNCHANGED <<storeVars, workerVars, historyVars>>
  BY NoneAwaited, Handlers DEF RebuildCreated, Answered, Basics
<1>2. CASE answer[Rebuild].is # "ok"
  <2>1. answer[Rebuild].is = "failed" \/ answer[Rebuild].is = "notFound"
    BY <1>1, <1>2 DEF Basics, HandlerHolds, CalculatorTypes, Answers
  <2>2. EndRebuild(Failed, Absent) /\ Failed.is # "ok"
    BY <1>2 DEF RebuildCreated, Failed
  <2> QED BY <1>1, <2>1, <2>2, EndKeeps
<1>3. CASE answer[Rebuild].is = "ok"
  <2>1. /\ pc' = [pc EXCEPT ![Rebuild] = "enriching"]
        /\ answer' = [answer EXCEPT ![Rebuild] = Nothing] /\ UNCHANGED <<calc, made>>
    BY <1>3 DEF RebuildCreated
  <2>2. /\ pc' \in [Handler -> RequestPlaces \cup RebuildPlaces]
        /\ answer' \in [Handler -> Answers]
        /\ pc'[Rebuild] = "enriching" /\ answer'[Rebuild] = Nothing
        /\ \A h \in Handler \ {Rebuild} : Kept(h)
    BY <1>1, <2>1 DEF Basics, CalculatorTypes, RebuildPlaces, Answers, Nothing, Kept
  <2>3. CalculatorTypes'
    BY <1>1, <2>1, <2>2
       DEF Basics, CalculatorTypes, storeVars, workerVars, historyVars
  <2>4. made[Rebuild] \in Entry
    BY <1>1 DEF Basics, HandlerHolds
  <2>5. HandlerHolds(Rebuild)'
    BY <2>1, <2>2, <2>4 DEF HandlerHolds, RebuildPlaces, Nothing
  <2>6. Acts(Rebuild)
    BY <1>1, <2>2, <2>3, <2>5 DEF Acts, QueueGrows, workerVars, Waits
  <2>7. \A r \in Request : Kept(r)
    BY <2>2, Handlers
  <2> QED BY <1>1, <1>3, <2>1, <2>2, <2>4, <2>6, <2>7, ActsKeeps
<1> QED BY <1>2, <1>3

\* and of one that has its entry.
LEMMA LimitsLoadedKeeps ==
  ASSUME Basics, LimitsLoaded
  PROVE  /\ Basics' /\ NoReply' /\ made[Rebuild] \in Entry
         /\ Ends(Ok(made[Rebuild].version), made[Rebuild])
<1>1. Unawaited(Rebuild) /\ Rebuild \in Handler /\ pc[Rebuild] = "limits"
  BY NoneAwaited, Handlers DEF LimitsLoaded, Basics
<1>2. made[Rebuild] \in Entry /\ made[Rebuild].version \in Version
  BY <1>1 DEF Basics, HandlerHolds, Entry
<1> QED BY <1>1, <1>2, EndKeeps DEF LimitsLoaded

\* An engine is asked for, for the rebuild.
LEMMA RebuildWithActs ==
  ASSUME Basics, Quiet, pc[Rebuild] = "loading", NEW c \in Recipe, RebuildWith(c),
         recipe' \in Recipe \cup {Absent}, current' \in Version \cup {Absent},
         excused' \in BOOLEAN, reborn' \in BOOLEAN,
         UNCHANGED <<entry, results, loaded, calc>>
  PROVE  /\ Basics' /\ NoReply' /\ Acts(Rebuild) /\ pc'[Rebuild] = "creating"
         /\ made'[Rebuild].gen = c.gen /\ made'[Rebuild].version = c.version
         /\ \/ UNCHANGED queue
            \/ \E w \in Worker : Enters(w, Message("create", c.version, Rebuild))
<1>1. PICK h \in Handler, w \in Worker, g \in Generation, v \in Version, at \in {"creating"} :
        /\ h = Rebuild /\ g = c.gen /\ v = c.version /\ Send(h, w, "create", v)
        /\ made' = [made EXCEPT ![h] = [gen |-> g, version |-> v, worker |-> w]]
        /\ pc' = [pc EXCEPT ![h] = at]
  BY Handlers DEF RebuildWith, Recipe
<1>2. Unawaited(h)
  BY <1>1, NoneAwaited DEF Basics
<1>3. PICK e \in Entry \cup {Absent} : calc' = [calc EXCEPT ![h] = e]
  <2>1. calc[h] \in Entry \cup {Absent} /\ calc' = [calc EXCEPT ![h] = calc[h]]
    BY DEF Basics, CalculatorTypes
  <2> QED BY <2>1
<1>4. entry' \in Entry \cup {Absent} /\ results' = results /\ loaded' = loaded
  BY DEF Basics, CalculatorTypes
<1>5. /\ Acts(h) /\ pc'[h] = at /\ made'[h].gen = g /\ made'[h].version = v
      /\ \/ UNCHANGED queue
         \/ \E x \in Worker : Enters(x, Message("create", v, h))
  <2>1. Basics /\ Unawaited(h) /\ (Quiet \/ answer[h] # Nothing) /\ Send(h, w, "create", v) 
    BY <1>1, <1>2
  <2>2. at \in {"patched", "posted", "creating"} /\ (at = "creating" <=> h = Rebuild) /\ (at = "posted" => g = 0)
    BY <1>1
  <2>3. /\ made' = [made EXCEPT ![h] = [gen |-> g, version |-> v, worker |-> w]]
        /\ pc' = [pc EXCEPT ![h] = at] /\ calc' = [calc EXCEPT ![h] = e]
    BY <1>1, <1>3
  <2>4. /\ recipe' \in Recipe \cup {Absent} /\ entry' \in Entry \cup {Absent}
      /\ results' = results /\ loaded' = loaded
      /\ current' \in Version \cup {Absent} /\ excused' \in BOOLEAN /\ reborn' \in BOOLEAN
    BY <1>4
  <2> QED BY ONLY <2>1, <2>2, <2>3, <2>4, CreatingActs
<1>6. Basics' /\ NoReply'
  BY <1>5, ActsKeeps
<1> QED BY <1>1, <1>5, <1>6

\* A rebuild makes what the recipe says,
LEMMA LoadRecipeKeeps ==
  ASSUME Basics, LoadRecipe
  PROVE  /\ Basics' /\ NoReply' /\ Acts(Rebuild) /\ pc'[Rebuild] = "creating"
         /\ recipe \in Recipe
         /\ made'[Rebuild].gen = recipe.gen /\ made'[Rebuild].version = recipe.version
         /\ \/ UNCHANGED queue
            \/ \E w \in Worker : Enters(w, Message("create", recipe.version, Rebuild))
<1>1. recipe \in Recipe /\ RebuildWith(recipe)
  BY DEF LoadRecipe, RecipeFromRedis, Basics, CalculatorTypes
<1>2. /\ recipe' \in Recipe \cup {Absent} /\ current' \in Version \cup {Absent}
      /\ excused' \in BOOLEAN /\ reborn' \in BOOLEAN
      /\ UNCHANGED <<entry, results, loaded, calc>>
  BY DEF LoadRecipe, storeVars, historyVars, Basics, CalculatorTypes
<1> QED BY <1>1, <1>2, RebuildWithActs DEF LoadRecipe

\* or what the database says, with generation 0,
LEMMA LoadRowKeeps ==
  ASSUME Basics, LoadRow
  PROVE  /\ Basics' /\ NoReply' /\ Acts(Rebuild) /\ pc'[Rebuild] = "creating"
         /\ made'[Rebuild].gen = 0 /\ made'[Rebuild].version = current'
         /\ \/ recipe' = [gen |-> 0, version |-> current'] /\ excused' = excused
            \/ recipe' = recipe /\ excused' = (excused \/ recipe # Absent)
         /\ \/ UNCHANGED queue
            \/ \E w \in Worker : Enters(w, Message("create", current', Rebuild))
<1>1. PICK v \in Version :
        /\ RebuildWith([gen |-> 0, version |-> v])
        /\ \/ recipe' = [gen |-> 0, version |-> v] /\ excused' = excused
           \/ recipe' = recipe /\ excused' = (excused \/ recipe # Absent)
        /\ current' = v
  BY DEF LoadRow
<1> DEFINE c == [gen |-> 0, version |-> v]
<1>2. c \in Recipe /\ c.gen = 0 /\ c.version = v
  BY Handlers DEF Recipe, Generation
<1>3. RebuildWith(c)
  BY <1>1
<1>4. recipe' \in Recipe \cup {Absent} /\ current' \in Version \cup {Absent}
  BY <1>1, <1>2 DEF Basics, CalculatorTypes
<1>5. excused' \in BOOLEAN
  BY <1>1 DEF Basics, CalculatorTypes
<1>6. reborn' \in BOOLEAN
  BY DEF LoadRow, Basics, CalculatorTypes
<1> HIDE DEF c
<1>7. /\ Basics' /\ NoReply' /\ Acts(Rebuild) /\ pc'[Rebuild] = "creating"
      /\ made'[Rebuild].gen = 0 /\ made'[Rebuild].version = v
      /\ \/ UNCHANGED queue
         \/ \E w \in Worker : Enters(w, Message("create", v, Rebuild))
  BY <1>2, <1>3, <1>4, <1>5, <1>6, RebuildWithActs DEF LoadRow
<1> QED BY <1>1, <1>7

\* and puts it into the store.
LEMMA EnrichedKeeps ==
  ASSUME Basics, Enriched
  PROVE  /\ Basics' /\ NoReply' /\ pc'[Rebuild] = "limits" /\ made[Rebuild] \in Entry
         /\ \A r \in Request : Kept(r)
<1>1. /\ Unawaited(Rebuild) /\ Rebuild \in Handler /\ pc[Rebuild] = "enriching"
      /\ UNCHANGED <<results, workerVars, calc, made, answer, historyVars>>
  BY NoneAwaited, Handlers DEF Enriched, Basics
<1>2. made[Rebuild] \in Entry /\ AsRecipe(made[Rebuild]) \in Recipe
  BY <1>1 DEF Basics, HandlerHolds, Entry, Recipe, AsRecipe
<1>3. /\ pc' \in [Handler -> RequestPlaces \cup RebuildPlaces]
      /\ pc'[Rebuild] = "limits" /\ \A h \in Handler \ {Rebuild} : Kept(h)
      /\ answer'[Rebuild] = Nothing
  BY <1>1 DEF Enriched, Quiet, Basics, CalculatorTypes, RebuildPlaces, Kept
<1>4. CalculatorTypes'
  BY <1>1, <1>2, <1>3
     DEF Enriched, Basics, CalculatorTypes, workerVars, historyVars
<1>5. HandlerHolds(Rebuild)'
  BY <1>1, <1>2, <1>3 DEF HandlerHolds, RebuildPlaces, Nothing
<1>6. Acts(Rebuild)
  BY <1>1, <1>3, <1>4, <1>5 DEF Acts, QueueGrows, workerVars, Waits, Enriched
<1>7. \A r \in Request : Kept(r)
  BY <1>3, Handlers
<1> QED BY <1>1, <1>2, <1>3, <1>6, <1>7, ActsKeeps

-----------------------------------------------------------------------------
(* Workers, timers and caches *)

\* Handlers stay where they are.
AllStay == pc' = pc /\ calc' = calc /\ made' = made

\* TTLs keep what holds whoever writes,
LEMMA ExpiryKeeps ==
  ASSUME Basics, ExpireEntry \/ ExpireRecipe \/ \E g \in Generation : ExpireResult(g)
  PROVE  Basics' /\ NoReply' /\ AllStay /\ UNCHANGED answer /\ QueueGrows
<1>1. /\ UNCHANGED <<pc, calc, made, answer>> /\ UNCHANGED loaded /\ Quiet
      /\ current' = current /\ excused' = excused /\ reborn' = reborn
  BY DEF ExpireEntry, ExpireRecipe, ExpireResult, handlerVars, workerVars, historyVars
<1>2. QueueGrows /\ entry' \in Entry \cup {Absent} /\ queue' \in [Worker -> Seq(Messages)]
  <2>1. CASE ExpireEntry
    BY <2>1, Disposing, DisposalGrows DEF ExpireEntry, Basics
  <2>2. CASE ~ExpireEntry
    <3>1. UNCHANGED <<entry, queue>>
      BY <2>2 DEF ExpireRecipe, ExpireResult, workerVars
    <3> QED BY <3>1 DEF QueueGrows, Basics, CalculatorTypes
  <2> QED BY <2>1, <2>2
<1>3. recipe' \in Recipe \cup {Absent}
  BY DEF ExpireEntry, ExpireRecipe, ExpireResult, Basics, CalculatorTypes
<1>4. results' \in [Generation -> Version \cup {Absent}]
  BY DEF ExpireEntry, ExpireRecipe, ExpireResult, Basics, CalculatorTypes
<1>5. CalculatorTypes'
  BY <1>1, <1>2, <1>3, <1>4 DEF Basics, CalculatorTypes
<1>6. \A h \in Handler : Kept(h) /\ HandlerHolds(h)'
  BY <1>1, KeptHolds DEF Kept, Basics
<1>7. MessagesExpected' /\ OneMessage' /\ CreatesName'
  BY <1>2, <1>6, QueueOfHandler DEF Basics
<1>8. NoReply'
  BY <1>1 DEF NoReply, Quiet, Nothing
<1>9. WaitersServed'
  BY <1>1 DEF WaitersServed, Waiting, Basics, Nothing
<1> QED BY <1>1, <1>2, <1>5, <1>6, <1>7, <1>8, <1>9, NoReplyLeft
     DEF Basics, NoReply, LoneAnswer, EngineMade, Waits, AllStay

\* the sweep of a worker does,
LEMMA SweepKeeps ==
  ASSUME Basics, NEW w \in Worker, Sweep(w)
  PROVE  Basics' /\ NoReply'
<1>1. /\ UNCHANGED <<pc, calc, made, answer, recipe, entry, results, queue>> /\ Quiet
      /\ current' = current /\ excused' = excused /\ reborn' = reborn
  BY DEF Sweep, handlerVars, storeVars, historyVars
<1>2. loaded' \in [Worker -> Version \cup {Absent}]
  BY DEF Sweep, Basics, CalculatorTypes
<1>3. CalculatorTypes'
  BY <1>1, <1>2 DEF Basics, CalculatorTypes
<1>4. \A h \in Handler : Kept(h) /\ HandlerHolds(h)'
  BY <1>1, KeptHolds DEF Kept, Basics
<1>5. MessagesExpected' /\ OneMessage' /\ CreatesName'
  BY <1>1, <1>4, QueueOfHandler DEF Basics, QueueGrows
<1>6. NoReply'
  BY <1>1 DEF NoReply, Quiet, Nothing
<1>7. WaitersServed'
  BY <1>1 DEF WaitersServed, Waiting, Basics, Nothing
<1> QED BY <1>3, <1>4, <1>5, <1>6, <1>7, NoReplyLeft
     DEF Basics, NoReply, LoneAnswer, EngineMade, Waits

\* a crash, which leaves nobody waiting for it,
LEMMA CrashKeeps ==
  ASSUME Basics, NEW w \in Worker, Crash(w)
  PROVE  /\ Basics' /\ NoReply' /\ AllStay /\ Fewer
         /\ DOMAIN queue'[w] = {} /\ \A v \in Worker \ {w} : queue'[v] = queue[v]
         /\ \A h \in Handler : answer'[h] \in {Nothing, Failed}
<1>1. /\ UNCHANGED <<pc, calc, made, recipe, entry, results>> /\ Quiet
      /\ current' = current /\ excused' = excused /\ reborn' = reborn
  BY DEF Crash, storeVars, historyVars
<1>2. /\ Fewer /\ DOMAIN queue'[w] = {}
      /\ \A v \in Worker \ {w} : queue'[v] = queue[v]
      /\ queue' \in [Worker -> Seq(Messages)]
  BY QueueLost DEF Crash, Basics, Fewer
<1>3. /\ answer' \in [Handler -> Answers]
      /\ \A h \in Handler : answer'[h] = IF h \in AwaitedFrom(w) THEN Failed ELSE Nothing
  BY DEF Crash, Answers, Nothing, Failed
<1>4. \A h \in Handler : answer'[h] \in {Nothing, Failed}
  BY <1>3
<1>5. loaded' \in [Worker -> Version \cup {Absent}]
  BY DEF Crash, Basics, CalculatorTypes
<1>6. CalculatorTypes'
  BY <1>1, <1>2, <1>3, <1>5 DEF Basics, CalculatorTypes
<1>7. \A h \in Handler : HandlerHolds(h)'
  BY <1>1, <1>4 DEF Basics, HandlerHolds, Nothing, Failed
<1>8. OneMessage' /\ CreatesName'
  BY <1>2, FewerKeeps DEF Basics
<1>9. ASSUME NEW v \in Worker, NEW i \in DOMAIN queue'[v]
      PROVE  Expected(v, queue[v][i])'
  <2>1. v # w /\ queue'[v] = queue[v] /\ i \in DOMAIN queue[v]
    BY <1>2
  <2>2. Expected(v, queue[v][i])
    BY <2>1 DEF Basics, MessagesExpected
  <2> DEFINE m == queue[v][i]
  <2>3. m.by # Absent => m.by \notin AwaitedFrom(w)
    BY <2>1 DEF Basics, OneMessage, AwaitedFrom
  <2>4. m \in Messages
    BY <2>1, SMT DEF Basics, CalculatorTypes
  <2>5. m.by # Absent => answer'[m.by] = Nothing
    BY <1>3, <2>3, <2>4 DEF Messages
  <2> QED BY <1>1, <2>1, <2>2, <2>5 DEF Expected
<1>10. MessagesExpected'
  BY <1>9 DEF MessagesExpected
<1>11. NoReply'
  BY <1>4 DEF NoReply, Nothing, Failed
<1>12. WaitersServed'
  <2>1. \A r \in Waiting : answer[r] = Nothing => pc[Rebuild] # "idle"
    BY DEF Basics, WaitersServed
  <2> QED BY <1>1, <2>1, Handlers DEF WaitersServed, Waiting, Quiet
<1> QED BY <1>1, <1>2, <1>4, <1>6, <1>7, <1>8, <1>10, <1>11, <1>12, NoReplyLeft
     DEF Basics, NoReply, LoneAnswer, EngineMade, Waits, AllStay

\* a timeout, which leaves its message to be handled for nobody,
LEMMA TimeoutKeeps ==
  ASSUME Basics, NEW h \in Handler, Timeout(h)
  PROVE  /\ Basics' /\ NoReply' /\ AllStay /\ Fewer /\ answer'[h] = Failed
         /\ \A g \in Handler \ {h} : answer'[g] = Nothing
<1>1. /\ UNCHANGED <<pc, calc, made, recipe, entry, results, loaded>> /\ Quiet
      /\ current' = current /\ reborn' = reborn
  BY DEF Timeout, storeVars
<1>2. /\ Fewer
      /\ \A w \in Worker : \A i \in DOMAIN queue'[w] :
           /\ i \in DOMAIN queue[w]
           /\ queue'[w][i].op = queue[w][i].op /\ queue'[w][i].version = queue[w][i].version
           /\ queue[w][i].by = h => queue'[w][i].by = Absent
           /\ queue[w][i].by # h => queue'[w][i].by = queue[w][i].by
      /\ queue' \in [Worker -> Seq(Messages)]
  BY GivenUp DEF Timeout, Basics, Fewer
<1>3. /\ answer' \in [Handler -> Answers] /\ answer'[h] = Failed
      /\ \A g \in Handler \ {h} : answer'[g] = Nothing
  BY <1>1 DEF Timeout, Basics, CalculatorTypes, Answers, Failed, Quiet
<1>4. excused' \in BOOLEAN
  BY DEF Timeout, Basics, CalculatorTypes
<1>5. CalculatorTypes'
  BY <1>1, <1>2, <1>3, <1>4 DEF Basics, CalculatorTypes
<1>6. \A g \in Handler : HandlerHolds(g)'
  <2>1. \A g \in Handler : answer'[g].is # "ok" /\ (answer'[g].is = "nothing" => answer'[g] = Nothing)
    BY <1>3 DEF Failed, Nothing
  <2> QED BY <1>1, <2>1 DEF Basics, HandlerHolds
<1>7. OneMessage' /\ CreatesName'
  BY <1>2, FewerKeeps DEF Basics
<1>8. ASSUME NEW w \in Worker, NEW i \in DOMAIN queue'[w]
      PROVE  Expected(w, queue[w][i])'
  <2>1. Expected(w, queue[w][i]) /\ queue[w][i] \in Messages
    BY <1>2, SMT DEF Basics, MessagesExpected, CalculatorTypes
  <2>2. CASE queue[w][i].by = h
    BY <1>2, <2>2 DEF Expected
  <2>3. CASE queue[w][i].by # h
    <3>1. queue'[w][i].by = queue[w][i].by /\ queue'[w][i].op = queue[w][i].op
          /\ queue'[w][i].version = queue[w][i].version
      BY <1>2, <2>3
    <3>2. queue[w][i].by # Absent => answer'[queue[w][i].by] = Nothing
      BY <1>3, <2>1, <2>3 DEF Messages
    <3> QED BY <1>1, <2>1, <3>1, <3>2 DEF Expected
  <2> QED BY <2>2, <2>3
<1>9. MessagesExpected'
  BY <1>8 DEF MessagesExpected
<1>10. NoReply'
  BY <1>3 DEF NoReply, Nothing, Failed
<1>11. WaitersServed'
  <2>1. \A r \in Waiting : answer[r] = Nothing => pc[Rebuild] # "idle"
    BY DEF Basics, WaitersServed
  <2> QED BY <1>1, <2>1, Handlers DEF WaitersServed, Waiting, Quiet
<1> QED BY <1>1, <1>2, <1>3, <1>5, <1>6, <1>7, <1>9, <1>10, <1>11, NoReplyLeft
     DEF Basics, NoReply, LoneAnswer, EngineMade, Waits, AllStay

\* What a worker does with its next message m, and the answer a.
Serves(w, m, a) ==
  \/ /\ m.op = "create"
     /\ \/ loaded' = [loaded EXCEPT ![w] = m.version] /\ a = Ok(m.version)
        \/ loaded' = loaded /\ a = Failed
  \/ /\ m.op = "calculate"
     /\ \/ loaded[w] # Absent /\ loaded' = loaded /\ a = Ok(loaded[w])
        \/ loaded' = [loaded EXCEPT ![w] = Absent] /\ a = Failed
        \/ loaded[w] = Absent /\ loaded' = loaded /\ a = NotFound
  \/ /\ m.op = "destroy"
     /\ loaded' = [loaded EXCEPT ![w] = Absent] /\ a = Ok(Absent)

\* and a worker's work, which leaves one answer at most.
LEMMA WorkKeeps ==
  ASSUME Basics, NEW w \in Worker, Work(w)
  PROVE  /\ Basics' /\ AllStay /\ Fewer /\ 1 \in DOMAIN queue[w]
         /\ \A v \in Worker : \A i \in DOMAIN queue'[v] :
              \E j \in DOMAIN queue[v] : queue'[v][i] = queue[v][j] /\ (v = w => j = i + 1)
         /\ \E m \in Messages, a \in Answers :
              /\ m = queue[w][1] /\ Serves(w, m, a)
              /\ \A h \in Handler : answer'[h] = IF h = m.by THEN a ELSE Nothing
<1>1. /\ UNCHANGED <<pc, calc, made, recipe, entry, results>> /\ Quiet
      /\ current' = current /\ excused' = excused /\ reborn' = reborn
  BY DEF Work, storeVars, historyVars
<1>2. /\ Fewer /\ 1 \in DOMAIN queue[w] /\ Head(queue[w]) = queue[w][1]
      /\ Head(queue[w]) \in Messages
      /\ \A v \in Worker : \A i \in DOMAIN queue'[v] :
           \E j \in DOMAIN queue[v] : queue'[v][i] = queue[v][j] /\ (v = w => j = i + 1)
      /\ queue' \in [Worker -> Seq(Messages)]
  BY HeadTaken DEF Work, Basics, Fewer
<1>3. PICK m \in Messages : m = queue[w][1] /\ m = Head(queue[w])
  BY <1>2
<1>4. PICK a : Serves(w, m, a) /\ Reply(m.by, a)
  BY <1>3, Zenon DEF Work, Serves
<1>5. loaded[w] \in Version \cup {Absent}
  BY DEF Basics, CalculatorTypes
<1>6. Expected(w, m) /\ (m.op = "create" => m.version \in Version)
  BY <1>2, <1>3 DEF Basics, MessagesExpected, CreatesName
<1>7. a \in Answers
  BY <1>4, <1>5, <1>6 DEF Serves, Answers, Ok, Failed, NotFound
<1>8. /\ answer' \in [Handler -> Answers]
      /\ \A h \in Handler : answer'[h] = IF h = m.by THEN a ELSE Nothing
  <2>1. CASE m.by = Absent
    <3>1. answer' = answer
      BY <1>4, <2>1 DEF Reply
    <3>2. \A h \in Handler : answer[h] = Nothing /\ h # Absent
      BY <1>1, Handlers DEF Quiet
    <3> QED BY <2>1, <3>1, <3>2 DEF Basics, CalculatorTypes
  <2>2. CASE m.by # Absent
    <3>1. answer' = [answer EXCEPT ![m.by] = a] /\ m.by \in Handler
      BY <1>4, <2>2 DEF Reply, Messages
    <3> QED BY <1>1, <1>7, <3>1 DEF Basics, CalculatorTypes, Quiet
  <2> QED BY <2>1, <2>2
<1>9. loaded' \in [Worker -> Version \cup {Absent}]
  BY <1>4, <1>6 DEF Serves, Basics, CalculatorTypes
<1>10. CalculatorTypes'
  BY <1>1, <1>2, <1>8, <1>9 DEF Basics, CalculatorTypes
<1>11. \A h \in Handler : answer'[h].is = "nothing" => answer'[h] = Nothing
  BY <1>4, <1>8 DEF Serves, Ok, Failed, NotFound
<1>12. \A h \in Handler : HandlerHolds(h)'
  <2> SUFFICES ASSUME NEW h \in Handler PROVE HandlerHolds(h)'
    OBVIOUS
  <2>1. HandlerHolds(h)
    BY DEF Basics
  <2>2. CASE h # m.by
    <3>1. answer'[h] = Nothing
      BY <1>8, <2>2
    <3> QED BY <1>1, <2>1, <3>1 DEF HandlerHolds, Nothing
  <2>3. CASE h = m.by
    <3>1. h # Absent /\ answer'[h] = a
      BY <1>8, <2>3, Handlers
    <3>2. pc[h] \notin Waits
      BY <1>3, <1>6, <2>3, <3>1 DEF Expected, Messages, Waits
    <3>3. pc[h] \in {"calculating", "recalculating"} /\ a.is = "ok" => a.version \in Version
      <4>1. pc[h] \in {"calculating", "recalculating"} => m.op = "calculate"
        BY <1>6, <2>3, <3>1 DEF Expected, Messages
      <4>2. m.op = "calculate" /\ a.is = "ok" => a.version = loaded[w] /\ loaded[w] # Absent
        BY <1>4 DEF Serves, Ok, Failed, NotFound
      <4> QED BY <1>5, <4>1, <4>2
    <3> QED BY <1>1, <1>11, <2>1, <3>1, <3>2, <3>3 DEF HandlerHolds, Waits
  <2> QED BY <2>2, <2>3
<1>13. OneMessage' /\ CreatesName'
  BY <1>2, FewerKeeps DEF Basics
<1>14. ASSUME NEW v \in Worker, NEW i \in DOMAIN queue'[v]
       PROVE  Expected(v, queue[v][i])' /\ (queue'[v][i].by # Absent => queue'[v][i].by # m.by)
  <2>1. PICK j \in DOMAIN queue[v] : queue'[v][i] = queue[v][j] /\ (v = w => j = i + 1)
    BY <1>2
  <2>2. i \in Nat /\ i # 0
    BY <1>2, SMT
  <2>3. v = w => j # 1
    BY <2>1, <2>2, SMT
  <2>4. queue[v][j].by # Absent => queue[v][j].by # m.by
    BY <1>2, <1>3, <2>3 DEF Basics, OneMessage
  <2>5. Expected(v, queue[v][j]) /\ queue[v][j] \in Messages
    BY SMT DEF Basics, MessagesExpected, CalculatorTypes
  <2>6. queue[v][j].by # Absent => answer'[queue[v][j].by] = Nothing
    BY <1>8, <2>4, <2>5 DEF Messages
  <2> QED BY <1>1, <2>1, <2>4, <2>5, <2>6 DEF Expected
<1>15. MessagesExpected'
  BY <1>14 DEF MessagesExpected
<1>16. LoneAnswer'
  BY <1>8 DEF LoneAnswer, Nothing
<1>17. WaitersServed'
  <2>1. \A r \in Waiting : answer[r] = Nothing => pc[Rebuild] # "idle"
    BY DEF Basics, WaitersServed
  <2> QED BY <1>1, <2>1, Handlers DEF WaitersServed, Waiting, Quiet
<1>18. EngineMade'
  <2> SUFFICES ASSUME NEW h \in Handler, pc'[h] \in {"creating", "patched", "posted"},
                      answer'[h].is = "ok"
               PROVE  loaded'[made'[h].worker] = made'[h].version
    BY DEF EngineMade
  <2>1. h = m.by /\ answer'[h] = a /\ h # Absent
    BY <1>8, Handlers DEF Nothing
  <2>2. /\ m.op = "create" /\ made[h].worker = w /\ made[h].version = m.version
    BY <1>1, <1>6, <2>1 DEF Expected, Messages
  <2>3. loaded' = [loaded EXCEPT ![w] = m.version]
    BY <1>4, <2>1, <2>2 DEF Serves, Failed
  <2> QED BY <1>1, <2>2, <2>3 DEF Basics, CalculatorTypes
<1> QED BY <1>1, <1>2, <1>3, <1>4, <1>7, <1>8, <1>10, <1>12, <1>13, <1>15, <1>16, <1>17, <1>18
     DEF Basics, AllStay

-----------------------------------------------------------------------------
(* One writer at a time, until writers overlap *)

WritingPlaces == {"patching", "destroying", "patched", "posted", "deleting", "saving"}

\* No create is sent, or nobody waits for one.
CreatesOld ==
  \A w \in Worker : \A j \in DOMAIN queue'[w] :
    queue'[w][j].op = "create" => j \in DOMAIN queue[w]

NoneCreating ==
  \A h \in Handler : pc[h] \in {"creating", "patched", "posted"} => Unawaited(h)

\* A message that is no create leaves the creates as they are.
LEMMA OtherMessages ==
  ASSUME \/ UNCHANGED queue
         \/ \E w \in Worker : \E m : Enters(w, m) /\ m.op # "create"
  PROVE  CreatesOld
BY DEF CreatesOld, Enters

\* Creates stay in order.
LEMMA CreatesOrdered ==
  ASSUME Basics, LastCreate, QueueGrows, CreatesOld \/ NoneCreating
  PROVE  LastCreate'
<1>1. CASE UNCHANGED queue
  BY <1>1 DEF LastCreate
<1>2. CASE ~ UNCHANGED queue
  <2>1. PICK x \in Worker, m \in Messages : Enters(x, m)
    BY <1>2 DEF QueueGrows
  <2> SUFFICES ASSUME NEW w \in Worker, NEW i \in DOMAIN queue'[w], NEW j \in DOMAIN queue'[w],
                      i < j, queue'[w][i].op = "create", queue'[w][i].by # Absent,
                      queue'[w][j].op = "create"
               PROVE  FALSE
    BY DEF LastCreate
  <2>2. i \in Int /\ j \in Int
    BY <2>1, SMT DEF Enters
  <2>3. CASE j \in DOMAIN queue[w]
    <3>1. i \in DOMAIN queue[w]
      <4>1. i \notin DOMAIN queue[w] => j < i
        BY <2>1, <2>3 DEF Enters
      <4> QED BY <2>2, <4>1, SMT
    <3> QED BY <2>1, <2>3, <3>1 DEF Enters, LastCreate
  <2>4. CASE j \notin DOMAIN queue[w]
    <3>1. i \in DOMAIN queue[w]
      <4>1. i \notin DOMAIN queue[w] => i = j
        BY <2>1, <2>4 DEF Enters
      <4> QED BY <2>2, <4>1, SMT
    <3>2. queue'[w][i] = queue[w][i] /\ queue[w][i].by \in Handler /\ NoneCreating
      <4>1. queue[w][i] \in Messages
        BY <3>1, SMT DEF Basics, CalculatorTypes
      <4> QED BY <2>1, <2>4, <3>1, <4>1 DEF Enters, CreatesOld, Messages
    <3>3. pc[queue[w][i].by] \in {"creating", "patched", "posted"}
      BY <3>1, <3>2 DEF Basics, MessagesExpected, Expected
    <3> QED BY <3>1, <3>2, <3>3 DEF NoneCreating, Unawaited
  <2> QED BY <2>3, <2>4
<1> QED BY <1>1, <1>2

\* Without a reply no create is behind one.
LEMMA NoReplyBehind == ASSUME NoReply PROVE NoCreateBehind
BY DEF NoReply, NoCreateBehind, Waits

\* Writers end, or stay where they are, and nothing is written.
LEMMA OrderedKept ==
  ASSUME Ordered, LastCreate', NoCreateBehind', NEW X \in SUBSET Request,
         \A q \in Request \ X : pc'[q] = pc[q] /\ calc'[q] = calc[q] /\ made'[q] = made[q],
         \A q \in X : pc'[q] \notin WritingPlaces \/ (pc'[q] = pc[q] /\ pc[q] = "patching"),
         \/ pc'[Rebuild] = "idle"
         \/ pc'[Rebuild] = pc[Rebuild] /\ made'[Rebuild] = made[Rebuild],
         recipe' \in {recipe, Absent}, entry' \in {entry, Absent}, current' = current
  PROVE  Ordered'
<1>1. OneWriter'
  <2>1. \A q \in WritingRequests' : q \in WritingRequests /\ pc'[q] = pc[q]
    BY DEF WritingRequests, WritingPlaces
  <2> QED BY <2>1 DEF Ordered, OneWriter
<1>2. StoreEmpty'
  BY DEF Ordered, StoreEmpty, WritingPlaces
<1>3. VersionsCurrent'
  BY DEF Ordered, VersionsCurrent, WritingPlaces
<1> QED BY <1>1, <1>2, <1>3 DEF Ordered

\* A request acts that does not write.
LEMMA OrderedReader ==
  ASSUME Basics, Ordered, NEW r \in Request, Acts(r), NoReply', CreatesOld \/ NoneCreating,
         pc'[r] \notin WritingPlaces, UNCHANGED <<recipe, entry, current>>
  PROVE  Ordered'
<1>1. LastCreate' /\ NoCreateBehind'
  <2>1. LastCreate'
    BY CreatesOrdered DEF Acts, Ordered
  <2> QED BY <2>1, NoReplyBehind DEF NoReply, NoCreateBehind, Waits
<1>2. \A h \in Handler \ {r} : Kept(h)
  BY DEF Acts
<1>3. /\ \A q \in Request \ {r} : pc'[q] = pc[q] /\ calc'[q] = calc[q] /\ made'[q] = made[q]
      /\ pc'[Rebuild] = pc[Rebuild] /\ made'[Rebuild] = made[Rebuild]
  BY <1>2, Handlers DEF Kept
<1>4. {r} \in SUBSET Request
  OBVIOUS
<1> QED BY <1>1, <1>3, <1>4, OrderedKept

\* A request is the only writer.
Alone(r) == WritingRequests \subseteq {r} /\ pc[Rebuild] = "idle"

\* The only writer keeps the order, if what it writes is of the version that counts.
LEMMA OrderedAlone ==
  ASSUME Basics, Ordered, NEW r \in Request, Alone(r), Acts(r), NoReply',
         pc'[r] = "deleting" /\ calc'[r] = Absent => entry' = Absent,
         pc'[r] = "saving" => made'[r].version = current',
         entry' # Absent => entry'.version = current',
         recipe' # Absent => recipe'.version = current'
  PROVE  Ordered'
<1>1. \A h \in Handler \ {r} : Kept(h)
  BY DEF Acts
<1>2. /\ \A q \in Request \ {r} : pc'[q] = pc[q] /\ pc[q] \notin WritingPlaces
      /\ pc'[Rebuild] = "idle"
  BY <1>1, Handlers DEF Alone, WritingRequests, WritingPlaces, Kept
<1>3. OneWriter'
  BY <1>2 DEF OneWriter, WritingRequests, WritingPlaces
<1>4. StoreEmpty'
  BY <1>2 DEF StoreEmpty, WritingPlaces
<1>5. VersionsCurrent'
  BY <1>2 DEF VersionsCurrent, WritingPlaces
<1>6. LastCreate' /\ NoCreateBehind'
  <2>1. NoneCreating
    <3>1. ASSUME NEW h \in Handler, pc[h] \in {"creating", "patched", "posted"}
          PROVE  Unawaited(h)
      <4>1. h # Rebuild
        BY <3>1 DEF Alone
      <4>2. h = r
        BY <3>1, <4>1 DEF Handler, Alone, WritingRequests, Basics, HandlerHolds, RequestPlaces
      <4> QED BY <4>2 DEF Acts
    <3> QED BY <3>1 DEF NoneCreating
  <2>2. LastCreate'
    BY <2>1, CreatesOrdered DEF Acts, Ordered
  <2> QED BY <2>2, NoReplyBehind DEF NoReply, NoCreateBehind, Waits
<1> QED BY <1>3, <1>4, <1>5, <1>6 DEF Ordered

\* Who starts to write is alone, unless writers overlap.
LEMMA BeginAlone ==
  ASSUME NEW r \in Request, Begin(r), ~excused'
  PROVE  Alone(r)
<1>1. Writers \ {r} = {}
  BY DEF Begin, BesideNot
<1>2. Rebuild \notin Writers
  BY <1>1, Handlers
<1> QED BY <1>1, <1>2 DEF Alone, Writers, WritingRequests

\* And who writes already.
LEMMA WriterAlone ==
  ASSUME Ordered, NEW r \in Request, pc[r] \in WritingPlaces \ {"patching"}
  PROVE  Alone(r)
BY DEF Ordered, OneWriter, Alone, WritingRequests, WritingPlaces

\* A rebuild goes on.
LEMMA OrderedRebuild ==
  ASSUME Basics, Ordered, pc[Rebuild] # "idle", \A r \in Request : Kept(r),
         NoReply', LastCreate',
         pc'[Rebuild] \in {"loading", "creating", "enriching"} => entry' = Absent,
         pc'[Rebuild] \in {"creating", "enriching", "limits"} => made'[Rebuild].version = current',
         entry' # Absent => entry'.version = current',
         recipe' # Absent => recipe'.version = current'
  PROVE  Ordered'
<1>1. \A q \in Request : pc'[q] = pc[q] /\ (pc[q] \in WritingPlaces => pc[q] = "patching")
  BY DEF Kept, Ordered, OneWriter, WritingRequests, WritingPlaces
<1>2. OneWriter'
  <2>1. WritingRequests' = WritingRequests
    BY <1>1 DEF WritingRequests
  <2> QED BY <1>1, <2>1 DEF Ordered, OneWriter, WritingRequests, WritingPlaces
<1>3. StoreEmpty'
  BY <1>1 DEF StoreEmpty, WritingPlaces
<1>4. VersionsCurrent'
  BY <1>1 DEF VersionsCurrent, WritingPlaces
<1> QED BY <1>2, <1>3, <1>4, NoReplyBehind DEF Ordered, NoReply, NoCreateBehind, Waits

\* A request waits for a rebuild.
LEMMA OrderedJoined ==
  ASSUME Basics, Ordered, NEW r \in Request, NEW at \in Waits, Joins(r, at), NoReply', LastCreate',
         pc[r] \notin WritingPlaces,
         pc[Rebuild] = "idle" \/ at = "patching" => WritingRequests = {},
         pc[Rebuild] = "idle" => entry' = Absent,
         entry' \in {entry, Absent}, recipe' = recipe, current' = current
  PROVE  Ordered'
<1>1. /\ \A q \in Request \ {r} : pc'[q] = pc[q] /\ calc'[q] = calc[q] /\ made'[q] = made[q]
      /\ pc'[r] = at /\ pc'[Rebuild] = IF pc[Rebuild] = "idle" THEN "loading" ELSE pc[Rebuild]
      /\ made'[Rebuild] = made[Rebuild]
  BY Handlers DEF Joins, Kept
<1>2. OneWriter'
  <2>1. WritingRequests' \subseteq WritingRequests \cup {r}
    BY <1>1 DEF WritingRequests
  <2>2. CASE pc[Rebuild] = "idle" \/ at = "patching"
    <3>1. WritingRequests' \subseteq {r}
      BY <2>1, <2>2
    <3> QED BY <1>1, <3>1 DEF OneWriter, WritingRequests, Waits
  <2>3. CASE ~(pc[Rebuild] = "idle" \/ at = "patching")
    <3>1. WritingRequests' \subseteq WritingRequests /\ r \notin WritingRequests'
      BY <1>1, <2>3 DEF WritingRequests, Waits
    <3> QED BY <1>1, <2>3, <3>1 DEF Ordered, OneWriter
  <2> QED BY <2>2, <2>3
<1>3. StoreEmpty'
  BY <1>1 DEF Ordered, StoreEmpty, Waits
<1>4. VersionsCurrent'
  BY <1>1 DEF Ordered, VersionsCurrent, Waits
<1> QED BY <1>2, <1>3, <1>4, NoReplyBehind DEF Ordered, NoReply, NoCreateBehind, Waits

\* Once excused, always excused.
LEMMA ExcusedStays ==
  ASSUME CalculatorTypes, CalculatorNext, ~excused'
  PROVE  ~excused
<1> USE DEF historyVars
<1>1. ASSUME NEW r \in Request, Arrive(r) PROVE ~excused
  BY <1>1 DEF Arrive, Execute, Patch, Post, Delete, ReadRecipe, ReadRow, WaitForRebuild,
     Replace, Begin, BesideNot
<1>2. ASSUME NEW r \in Request, Proceed(r) PROVE ~excused
  <2>1. CASE Lost(r) \/ PatchFound(r)
    BY <2>1 DEF Lost, PatchFound, WaitForRebuild, Replace, Begin, BesideNot
  <2>2. CASE Created(r) \/ Deleted(r)
    BY <2>2 DEF Created, Save, Deleted
  <2>3. CASE Miss(r) \/ Recalculate(r)
    BY <2>3 DEF Miss, Recalculate, Calculate
  <2>4. CASE Found(r) \/ Hit(r) \/ Calculated(r) \/ GiveUp(r) \/ Destroyed(r) \/ NotCreated(r)
               \/ SaveRecipe(r)
    BY <2>4 DEF Found, Hit, Calculated, GiveUp, Destroyed, NotCreated, SaveRecipe
  <2> QED BY <1>2, <2>1, <2>2, <2>3, <2>4 DEF Proceed
<1>3. ASSUME ProceedRebuild PROVE ~excused
  BY <1>3 DEF ProceedRebuild, LoadRecipe, LoadRow, LoadNothing, RebuildCreated, Enriched,
     LimitsLoaded
<1>4. ASSUME NEW h \in Handler, Timeout(h) PROVE ~excused
  BY <1>4 DEF Timeout
<1>5. ASSUME NEW w \in Worker, Work(w) \/ Sweep(w) \/ Crash(w) PROVE ~excused
  BY <1>5 DEF Work, Sweep, Crash
<1>6. ASSUME ExpireEntry \/ ExpireRecipe \/ \E g \in Generation : ExpireResult(g) PROVE ~excused
  BY <1>6 DEF ExpireEntry, ExpireRecipe, ExpireResult
<1> QED BY <1>1, <1>2, <1>3, <1>4, <1>5, <1>6 DEF CalculatorNext

\* The steps of an execution
LEMMA OrderedExecution ==
  ASSUME Basics, Ordered, ~excused', NEW r \in Request,
         Execute(r) \/ Found(r) \/ Hit(r) \/ Miss(r) \/ Calculated(r) \/ Lost(r)
           \/ Recalculate(r) \/ GiveUp(r)
  PROVE  Ordered'
<1> USE DEF storeVars, workerVars, historyVars
<1>1. CASE Hit(r) \/ Calculated(r) \/ GiveUp(r)
  <2>1. Acts(r) /\ pc'[r] = "idle"
    BY <1>1, HitActs, CalculatedActs, GiveUpActs
  <2>2. CreatesOld /\ UNCHANGED <<recipe, entry, current>>
    BY <1>1, OtherMessages DEF Hit, Calculated, GiveUp
  <2>3. NoReply'
    BY <2>1, Handlers, ActsKeeps
  <2> QED BY <2>1, <2>2, <2>3, OrderedReader DEF WritingPlaces
<1>2. CASE Found(r)
  <2>1. Acts(r) /\ pc'[r] \in {"idle", "checking"}
    BY <1>2, FoundActs
  <2>2. CreatesOld /\ UNCHANGED <<recipe, entry, current>>
    BY <1>2, OtherMessages DEF Found
  <2>3. NoReply'
    BY <2>1, Handlers, ActsKeeps
  <2> QED BY <2>1, <2>2, <2>3, OrderedReader DEF WritingPlaces
<1>3. CASE Miss(r) \/ Recalculate(r)
  <2>1. /\ Acts(r) /\ pc'[r] \in {"calculating", "recalculating"}
        /\ \/ UNCHANGED queue
           \/ Enters(calc[r].worker, Message("calculate", Absent, r))
    BY <1>3, MissActs, RecalculateActs
  <2>2. calc[r] \in Entry
    BY <1>3, Handlers DEF Miss, Recalculate, Answered, Basics, HandlerHolds
  <2>3. CreatesOld
    BY <2>1, <2>2, OtherMessages DEF Message, Entry
  <2>4. UNCHANGED <<recipe, entry, current>>
    BY <1>3 DEF Miss, Recalculate, Calculate
  <2>5. NoReply'
    BY <2>1, Handlers, ActsKeeps
  <2> QED BY <2>1, <2>3, <2>4, <2>5, OrderedReader DEF WritingPlaces
<1>4. CASE Execute(r) /\ entry # Absent
  <2>1. Acts(r) /\ pc'[r] = "checking"
    BY <1>4, ExecuteHitActs
  <2>2. CreatesOld /\ UNCHANGED <<recipe, entry, current>>
    BY <1>4, OtherMessages DEF Execute
  <2>3. NoReply'
    BY <2>1, Handlers, ActsKeeps
  <2> QED BY <2>1, <2>2, <2>3, OrderedReader DEF WritingPlaces
<1>5. ASSUME NEW at \in {"waiting", "rewaiting"}, WaitForRebuild(r, at)
      PROVE  pc[Rebuild] = "idle" \/ at = "patching" => WritingRequests = {}
  <2> SUFFICES ASSUME pc[Rebuild] = "idle" PROVE WritingRequests = {}
    BY <1>5
  <2>1. Writers \ {Rebuild} = {}
    BY <1>5 DEF WaitForRebuild, BesideNot
  <2> QED BY <2>1, Handlers DEF Writers, WritingRequests
<1>6. CASE Execute(r) /\ entry = Absent
  <2>1. NoReply' /\ Joins(r, "waiting")
    BY <1>6, ExecuteJoins
  <2>2. WaitForRebuild(r, "waiting") /\ pc[r] = "idle" /\ UNCHANGED <<recipe, entry, current, queue>>
    BY <1>6 DEF Execute
  <2>3. LastCreate'
    BY <2>2 DEF Ordered, LastCreate
  <2> QED BY <1>5, <1>6, <2>1, <2>2, <2>3, OrderedJoined DEF Waits, WritingPlaces
<1>7. CASE Lost(r)
  <2>1. NoReply' /\ Joins(r, "rewaiting")
    BY <1>7, LostJoins
  <2>2. /\ WaitForRebuild(r, "rewaiting") /\ pc[r] = "calculating"
        /\ Dispose /\ UNCHANGED <<recipe, current>>
    BY <1>7 DEF Lost, Answered
  <2>3. entry' = Absent /\ QueueGrows /\ CreatesOld
    <3>1. \/ UNCHANGED queue
          \/ entry \in Entry /\ Enters(entry.worker, Message("destroy", Absent, Absent))
      BY <2>2, Disposing DEF Basics
    <3>2. CreatesOld
      BY <3>1, OtherMessages DEF Message, Entry
    <3> QED BY <2>2, <3>2, Disposing, DisposalGrows DEF Basics
  <2>4. LastCreate'
    BY <2>3, CreatesOrdered DEF Ordered
  <2> QED BY <1>5, <2>1, <2>2, <2>3, <2>4, OrderedJoined DEF Waits, WritingPlaces
<1> QED BY <1>1, <1>2, <1>3, <1>4, <1>6, <1>7

\* The steps of a writer
LEMMA OrderedWriter ==
  ASSUME Basics, Ordered, ~excused', NEW r \in Request,
         Patch(r) \/ PatchFound(r) \/ Destroyed(r) \/ Post(r) \/ Created(r) \/ NotCreated(r)
           \/ Delete(r) \/ Deleted(r) \/ ReadRecipe(r) \/ ReadRow(r) \/ SaveRecipe(r)
  PROVE  Ordered'
<1> USE DEF storeVars, workerVars, historyVars
<1>1. CASE Patch(r) /\ entry # Absent
  <2>1. Acts(r) /\ pc'[r] = "destroying"
    BY <1>1, PatchActs
  <2>2. Alone(r) /\ UNCHANGED <<recipe, entry, current>>
    BY <1>1, BeginAlone DEF Patch, Replace
  <2>3. NoReply'
    BY <2>1, Handlers, ActsKeeps
  <2> QED BY <2>1, <2>2, <2>3, OrderedAlone DEF Ordered, VersionsCurrent
<1>2. CASE Patch(r) /\ entry = Absent
  <2>1. NoReply' /\ Joins(r, "patching")
    BY <1>2, PatchJoins
  <2>2. /\ WaitForRebuild(r, "patching") /\ pc[r] = "idle"
        /\ UNCHANGED <<recipe, entry, current, queue>>
    BY <1>2 DEF Patch
  <2>3. LastCreate'
    BY <2>2 DEF Ordered, LastCreate
  <2>4. WritingRequests = {}
    <3>1. Writers \ {Rebuild} = {}
      BY <2>2 DEF WaitForRebuild, BesideNot
    <3> QED BY <3>1, Handlers DEF Writers, WritingRequests
  <2> QED BY <1>2, <2>1, <2>2, <2>3, <2>4, OrderedJoined DEF Waits, WritingPlaces
<1>3. CASE PatchFound(r)
  <2>1. /\ Acts(r) /\ UNCHANGED <<recipe, entry, current>>
        /\ \/ pc'[r] = "destroying" /\ Replace(r, calc[r])
           \/ pc'[r] = "idle" /\ UNCHANGED queue
    BY <1>3, PatchFoundActs DEF PatchFound
  <2>2. NoReply'
    BY <2>1, Handlers, ActsKeeps
  <2>3. CASE pc'[r] = "destroying" /\ Replace(r, calc[r])
    <3>1. Alone(r)
      BY <2>3, BeginAlone DEF Replace
    <3> QED BY <2>1, <2>2, <2>3, <3>1, OrderedAlone DEF Ordered, VersionsCurrent
  <2>4. CASE pc'[r] = "idle" /\ UNCHANGED queue
    <3>1. CreatesOld
      BY <2>4, OtherMessages
    <3> QED BY <2>1, <2>2, <2>4, <3>1, OrderedReader DEF WritingPlaces
  <2> QED BY <2>1, <2>3, <2>4
<1>4. CASE Destroyed(r)
  <2>1. Acts(r) /\ pc'[r] = "patched"
    BY <1>4, DestroyedActs
  <2>2. Alone(r) /\ UNCHANGED <<recipe, entry, current>>
    BY <1>4, WriterAlone DEF Destroyed, Answered, WritingPlaces
  <2>3. NoReply'
    BY <2>1, Handlers, ActsKeeps
  <2> QED BY <2>1, <2>2, <2>3, OrderedAlone DEF Ordered, VersionsCurrent
<1>5. CASE Post(r)
  <2>1. Acts(r) /\ pc'[r] = "posted"
    BY <1>5, PostActs
  <2>2. Alone(r) /\ UNCHANGED <<recipe, entry, current>>
    BY <1>5, BeginAlone DEF Post
  <2>3. NoReply'
    BY <2>1, Handlers, ActsKeeps
  <2> QED BY <2>1, <2>2, <2>3, OrderedAlone DEF Ordered, VersionsCurrent
<1>6. CASE Created(r)
  <2>1. Acts(r) /\ pc'[r] = "idle"
    BY <1>6, CreatedActs
  <2>2. Alone(r)
    BY <1>6, WriterAlone DEF Created, Answered, WritingPlaces
  <2>3. NoReply'
    BY <2>1, Handlers, ActsKeeps
  <2>4. entry' = made[r] /\ recipe' = AsRecipe(made[r]) /\ current' = made[r].version
    BY <1>6 DEF Created, Save
  <2>5. entry'.version = current' /\ recipe'.version = current'
    BY <2>4 DEF AsRecipe
  <2> QED BY <2>1, <2>2, <2>3, <2>5, OrderedAlone
<1>7. CASE NotCreated(r)
  <2>1. Acts(r) /\ pc'[r] = "idle"
    BY <1>7, NotCreatedActs
  <2>2. CreatesOld /\ UNCHANGED <<recipe, entry, current>>
    BY <1>7, OtherMessages DEF NotCreated
  <2>3. NoReply'
    BY <2>1, Handlers, ActsKeeps
  <2> QED BY <2>1, <2>2, <2>3, OrderedReader DEF WritingPlaces
<1>8. CASE Delete(r)
  <2>1. Acts(r) /\ pc'[r] = "deleting" /\ calc'[r] = entry
    BY <1>8, DeleteActs
  <2>2. Alone(r) /\ UNCHANGED <<recipe, entry, current>>
    BY <1>8, BeginAlone DEF Delete
  <2>3. NoReply'
    BY <2>1, Handlers, ActsKeeps
  <2> QED BY <2>1, <2>2, <2>3, OrderedAlone DEF Ordered, VersionsCurrent
<1>9. CASE Deleted(r)
  <2>1. Acts(r) /\ pc'[r] = "idle"
    BY <1>9, DeletedActs
  <2>2. Alone(r)
    BY <1>9, WriterAlone DEF Deleted, WritingPlaces
  <2>3. NoReply'
    BY <2>1, Handlers, ActsKeeps
  <2>4. recipe' = Absent /\ entry' = Absent
    <3>1. CASE calc[r] # Absent
      BY <1>9, <3>1 DEF Deleted, Dispose
    <3>2. CASE calc[r] = Absent
      BY <1>9, <3>2 DEF Deleted, Ordered, StoreEmpty
    <3> QED BY <1>9, <3>1, <3>2 DEF Deleted
  <2> QED BY <2>1, <2>2, <2>3, <2>4, OrderedAlone
<1>10. CASE ReadRecipe(r)
  <2>1. Acts(r) /\ pc'[r] = "saving" /\ made'[r].version = recipe.version
    BY <1>10, ReadRecipeActs
  <2>2. Alone(r) /\ UNCHANGED <<recipe, entry, current>> /\ recipe # Absent
    BY <1>10, BeginAlone DEF ReadRecipe
  <2>3. NoReply'
    BY <2>1, Handlers, ActsKeeps
  <2> QED BY <2>1, <2>2, <2>3, OrderedAlone DEF Ordered, VersionsCurrent
<1>11. CASE ReadRow(r)
  <2>1. Acts(r) /\ pc'[r] = "saving" /\ made'[r].version = current'
    BY <1>11, ReadRowActs
  <2>2. Alone(r) /\ entry' = Absent /\ recipe' = Absent
    BY <1>11, BeginAlone DEF ReadRow
  <2>3. NoReply'
    BY <2>1, Handlers, ActsKeeps
  <2> QED BY <2>1, <2>2, <2>3, OrderedAlone
<1>12. CASE SaveRecipe(r)
  <2>1. Acts(r) /\ pc'[r] = "idle"
    BY <1>12, SaveRecipeActs
  <2>2. Alone(r) /\ UNCHANGED <<entry, current>> /\ pc[r] = "saving"
    BY <1>12, WriterAlone DEF SaveRecipe, WritingPlaces
  <2>3. NoReply'
    BY <2>1, Handlers, ActsKeeps
  <2>4. recipe' # Absent => recipe'.version = current'
    <3>1. AsRecipe(made[r]).version = current
      BY <2>2 DEF AsRecipe, Ordered, VersionsCurrent
    <3> QED BY <1>12, <2>2, <3>1 DEF SaveRecipe, Ordered, VersionsCurrent
  <2> QED BY <2>1, <2>2, <2>3, <2>4, OrderedAlone DEF Ordered, VersionsCurrent
<1> QED BY <1>1, <1>2, <1>3, <1>4, <1>5, <1>6, <1>7, <1>8, <1>9, <1>10, <1>11, <1>12

\* The end of a rebuild writes nothing.
LEMMA OrderedEnds ==
  ASSUME Basics, Ordered, NEW a, NEW e, Ends(a, e), NoReply',
         UNCHANGED <<recipe, entry, current, queue>>
  PROVE  Ordered'
<1>1. LastCreate' /\ NoCreateBehind'
  <2>1. LastCreate'
    BY DEF Ordered, LastCreate
  <2> QED BY <2>1, NoReplyBehind DEF NoReply, NoCreateBehind, Waits
<1>2. Waiting \in SUBSET Request
  BY DEF Waiting
<1>3. \A q \in Request \ Waiting : pc'[q] = pc[q] /\ calc'[q] = calc[q] /\ made'[q] = made[q]
  BY DEF Ends, Kept
<1>4. \A q \in Waiting : pc'[q] \notin WritingPlaces \/ (pc'[q] = pc[q] /\ pc[q] = "patching")
  BY DEF Ends, Waiting, WritingPlaces
<1>5. pc'[Rebuild] = "idle"
  BY DEF Ends
<1> QED BY <1>1, <1>2, <1>3, <1>4, <1>5, OrderedKept

\* While a rebuild asks for an engine, nobody waits for another one.
LEMMA RebuildAlone ==
  ASSUME Basics, Ordered, pc[Rebuild] \notin {"idle", "creating"}
  PROVE  NoneCreating
<1> SUFFICES ASSUME NEW h \in Handler, pc[h] \in {"creating", "patched", "posted"} PROVE FALSE
  BY DEF NoneCreating
<1>1. h \in Request
  <2>1. HandlerHolds(h)
    BY DEF Basics
  <2> QED BY <2>1 DEF HandlerHolds, RebuildPlaces, Handler
<1>2. pc[h] \in {"patched", "posted"}
  BY <1>1, Handlers DEF Basics, HandlerHolds, RequestPlaces
<1> QED BY <1>1, <1>2 DEF Ordered, OneWriter, WritingRequests

\* The steps of a rebuild
LEMMA OrderedRebuilding ==
  ASSUME Basics, Ordered, ~excused', ProceedRebuild
  PROVE  Ordered'
<1> USE DEF storeVars, workerVars, historyVars
<1>1. CASE LoadRecipe
  <2>1. /\ NoReply' /\ Acts(Rebuild) /\ pc'[Rebuild] = "creating"
        /\ made'[Rebuild].version = recipe.version
    BY <1>1, LoadRecipeKeeps
  <2>2. pc[Rebuild] = "loading" /\ recipe # Absent /\ UNCHANGED <<recipe, entry, current>>
    BY <1>1 DEF LoadRecipe
  <2>3. LastCreate'
    BY <2>1, <2>2, RebuildAlone, CreatesOrdered DEF Acts, Ordered
  <2>4. \A r \in Request : Kept(r)
    BY <2>1, Handlers DEF Acts
  <2> QED BY <2>1, <2>2, <2>3, <2>4, OrderedRebuild DEF Ordered, VersionsCurrent, StoreEmpty
<1>2. CASE LoadRow
  <2>1. /\ NoReply' /\ Acts(Rebuild) /\ pc'[Rebuild] = "creating"
        /\ made'[Rebuild].version = current'
        /\ \/ recipe' = [gen |-> 0, version |-> current'] /\ excused' = excused
           \/ recipe' = recipe /\ excused' = (excused \/ recipe # Absent)
    BY <1>2, LoadRowKeeps
  <2>2. pc[Rebuild] = "loading" /\ entry' = entry
    BY <1>2 DEF LoadRow
  <2>3. LastCreate'
    BY <2>1, <2>2, RebuildAlone, CreatesOrdered DEF Acts, Ordered
  <2>4. \A r \in Request : Kept(r)
    BY <2>1, Handlers DEF Acts
  <2>5. entry = Absent
    BY <2>2 DEF Ordered, StoreEmpty
  <2>6. recipe' # Absent => recipe'.version = current'
    <3>1. CASE recipe' = [gen |-> 0, version |-> current']
      BY <3>1
    <3>2. CASE recipe' = recipe /\ excused' = (excused \/ recipe # Absent)
      <4>1. ~(excused \/ recipe # Absent)
        BY <3>2, Zenon
      <4> QED BY <3>2, <4>1
    <3> QED BY <2>1, <3>1, <3>2
  <2> QED BY <2>1, <2>2, <2>3, <2>4, <2>5, <2>6, OrderedRebuild
<1>3. CASE LoadNothing
  BY <1>3, LoadNothingKeeps, OrderedEnds DEF LoadNothing
<1>4. CASE RebuildCreated
  <2>1. pc[Rebuild] = "creating" /\ UNCHANGED <<recipe, entry, current, queue>>
    BY <1>4 DEF RebuildCreated, Answered
  <2>2. CASE Ends(Failed, Absent)
    BY <1>4, <2>1, <2>2, RebuildCreatedKeeps, OrderedEnds
  <2>3. CASE ~Ends(Failed, Absent)
    <3>1. /\ NoReply' /\ pc'[Rebuild] = "enriching" /\ made' = made
          /\ \A r \in Request : Kept(r)
      BY <1>4, <2>3, RebuildCreatedKeeps
    <3>2. LastCreate'
      BY <2>1 DEF Ordered, LastCreate
    <3> QED BY <2>1, <3>1, <3>2, OrderedRebuild DEF Ordered, VersionsCurrent, StoreEmpty
  <2> QED BY <2>2, <2>3
<1>5. CASE Enriched
  <2>1. /\ NoReply' /\ pc'[Rebuild] = "limits" /\ \A r \in Request : Kept(r)
    BY <1>5, EnrichedKeeps
  <2>2. /\ pc[Rebuild] = "enriching" /\ UNCHANGED <<queue, current, made>>
        /\ recipe' \in {recipe, AsRecipe(made[Rebuild])} /\ entry' = made[Rebuild]
    BY <1>5 DEF Enriched
  <2>3. LastCreate'
    BY <2>2 DEF Ordered, LastCreate
  <2>4. made[Rebuild].version = current /\ AsRecipe(made[Rebuild]).version = current
    BY <2>2 DEF Ordered, VersionsCurrent, AsRecipe
  <2> QED BY <2>1, <2>2, <2>3, <2>4, OrderedRebuild DEF Ordered, VersionsCurrent
<1>6. CASE LimitsLoaded
  BY <1>6, LimitsLoadedKeeps, OrderedEnds DEF LimitsLoaded
<1> QED BY <1>1, <1>2, <1>3, <1>4, <1>5, <1>6 DEF ProceedRebuild

\* Handlers stay where they are.
LEMMA OrderedStay ==
  ASSUME Ordered, AllStay, LastCreate', NoCreateBehind',
         recipe' \in {recipe, Absent}, entry' \in {entry, Absent}, current' = current
  PROVE  Ordered'
<1>1. {} \in SUBSET Request
  OBVIOUS
<1>2. /\ \A q \in Request \ {} : pc'[q] = pc[q] /\ calc'[q] = calc[q] /\ made'[q] = made[q]
      /\ pc'[Rebuild] = pc[Rebuild] /\ made'[Rebuild] = made[Rebuild]
  BY DEF AllStay
<1> QED BY <1>1, <1>2, OrderedKept

\* The steps of workers, timers and caches
LEMMA OrderedSurroundings ==
  ASSUME Basics, Ordered,
         \/ \E h \in Handler : Timeout(h)
         \/ \E w \in Worker : Work(w) \/ Sweep(w) \/ Crash(w)
         \/ ExpireEntry \/ ExpireRecipe \/ \E g \in Generation : ExpireResult(g)
  PROVE  Ordered'
<1> USE DEF storeVars, workerVars, historyVars, handlerVars
<1>1. ASSUME NEW h \in Handler, Timeout(h) PROVE Ordered'
  <2>1. /\ NoReply' /\ AllStay /\ Fewer /\ UNCHANGED <<recipe, entry, current>>
    BY <1>1, TimeoutKeeps DEF Timeout
  <2>2. LastCreate'
    BY <2>1, FewerKeeps DEF Basics, Ordered
  <2> QED BY <2>1, <2>2, NoReplyBehind, OrderedStay DEF NoReply, NoCreateBehind, Waits
<1>2. ASSUME NEW w \in Worker, Crash(w) PROVE Ordered'
  <2>1. /\ NoReply' /\ AllStay /\ Fewer /\ UNCHANGED <<recipe, entry, current>>
    BY <1>2, CrashKeeps DEF Crash
  <2>2. LastCreate'
    BY <2>1, FewerKeeps DEF Basics, Ordered
  <2> QED BY <2>1, <2>2, NoReplyBehind, OrderedStay DEF NoReply, NoCreateBehind, Waits
<1>3. ASSUME NEW w \in Worker, Sweep(w) PROVE Ordered'
  <2>1. NoReply' /\ AllStay /\ UNCHANGED <<recipe, entry, current, queue>>
    BY <1>3, SweepKeeps DEF Sweep, AllStay
  <2>2. LastCreate'
    BY <2>1 DEF Ordered, LastCreate
  <2> QED BY <2>1, <2>2, NoReplyBehind, OrderedStay DEF NoReply, NoCreateBehind, Waits
<1>4. ASSUME ExpireEntry \/ ExpireRecipe \/ \E g \in Generation : ExpireResult(g)
      PROVE  Ordered'
  <2>1. NoReply' /\ AllStay /\ QueueGrows
    BY <1>4, ExpiryKeeps
  <2>2. /\ recipe' \in {recipe, Absent} /\ entry' \in {entry, Absent} /\ current' = current
    BY <1>4 DEF ExpireEntry, ExpireRecipe, ExpireResult, Dispose
  <2>3. CreatesOld
    <3>1. CASE ExpireEntry
      <4>1. \/ UNCHANGED queue
            \/ entry \in Entry /\ Enters(entry.worker, Message("destroy", Absent, Absent))
        BY <3>1, Disposing DEF Basics, ExpireEntry
      <4> QED BY <4>1, OtherMessages DEF Message, Entry
    <3>2. CASE ~ExpireEntry
      BY <1>4, <3>2, OtherMessages DEF ExpireRecipe, ExpireResult
    <3> QED BY <3>1, <3>2
  <2>4. LastCreate'
    BY <2>1, <2>3, CreatesOrdered DEF Ordered
  <2> QED BY <2>1, <2>2, <2>4, NoReplyBehind, OrderedStay DEF NoReply, NoCreateBehind, Waits
<1>5. ASSUME NEW w \in Worker, Work(w) PROVE Ordered'
  <2>1. /\ AllStay /\ Fewer /\ UNCHANGED <<recipe, entry, current>>
        /\ 1 \in DOMAIN queue[w]
        /\ \A v \in Worker : \A i \in DOMAIN queue'[v] :
             \E j \in DOMAIN queue[v] : queue'[v][i] = queue[v][j] /\ (v = w => j = i + 1)
    BY <1>5, WorkKeeps DEF Work
  <2>2. PICK m \in Messages, a \in Answers :
          /\ m = queue[w][1] /\ Serves(w, m, a)
          /\ \A h \in Handler : answer'[h] = IF h = m.by THEN a ELSE Nothing
    BY <1>5, WorkKeeps
  <2>3. LastCreate'
    BY <2>1, FewerKeeps DEF Basics, Ordered
  <2>4. NoCreateBehind'
    <3> SUFFICES ASSUME NEW h \in Handler, pc'[h] \in {"creating", "patched", "posted"},
                        answer'[h].is = "ok",
                        NEW v \in Worker, v = made'[h].worker, NEW i \in DOMAIN queue'[v],
                        queue'[v][i].op = "create"
                 PROVE  FALSE
      <4>1. \A h \in Handler : pc'[h] \in {"creating", "patched", "posted"} /\ answer'[h].is = "ok"
              => made'[h].worker \in Worker
        <5>1. \A h \in Handler : pc[h] \in {"creating", "patched", "posted"} => made[h] \in Entry
          BY DEF Basics, HandlerHolds
        <5> QED BY <2>1, <5>1 DEF AllStay, Entry
      <4> QED BY <4>1 DEF NoCreateBehind
    <3>1. h = m.by /\ h # Absent
      BY <2>2, Handlers DEF Nothing
    <3>2. m.op = "create" /\ made[h].worker = w
      <4>1. Expected(w, m)
        BY <2>1, <2>2 DEF Basics, MessagesExpected
      <4> QED BY <2>1, <3>1, <4>1 DEF Expected, Messages, AllStay
    <3>3. v = w
      BY <2>1, <3>2 DEF AllStay
    <3>4. PICK j \in DOMAIN queue[w] : queue'[w][i] = queue[w][j] /\ j = i + 1
      BY <2>1, <3>3
    <3>5. 1 < j
      <4>1. i \in Nat /\ i # 0
        BY <2>1, <3>3, SMT DEF Fewer
      <4> QED BY <3>4, <4>1, SMT
    <3> QED BY <2>1, <2>2, <3>1, <3>2, <3>3, <3>4, <3>5 DEF Ordered, LastCreate
  <2> QED BY <2>1, <2>3, <2>4, OrderedStay
<1> QED BY <1>1, <1>2, <1>3, <1>4, <1>5

\* Writers that do not overlap keep their order.
LEMMA OrderedStep ==
  ASSUME Basics, ~excused => Ordered, CalculatorNext, ~excused'
  PROVE  Ordered'
<1>1. Ordered
  BY ExcusedStays DEF Basics
<1>2. ASSUME NEW r \in Request, Arrive(r) \/ Proceed(r) PROVE Ordered'
  BY <1>1, <1>2, OrderedExecution, OrderedWriter DEF Arrive, Proceed
<1> QED BY <1>1, <1>2, OrderedRebuilding, OrderedSurroundings DEF CalculatorNext

\* What holds whoever writes is kept by every step.
LEMMA BasicsStep ==
  ASSUME Basics, CalculatorNext
  PROVE  Basics'
<1>1. ASSUME NEW r \in Request, Arrive(r) PROVE Basics'
  <2>1. CASE Execute(r)
    BY <2>1, ExecuteHitActs, ExecuteJoins, ActsKeeps, Handlers
  <2>2. CASE Patch(r)
    BY <2>2, PatchActs, PatchJoins, ActsKeeps, Handlers
  <2>3. CASE Post(r) \/ Delete(r)
    BY <2>3, PostActs, DeleteActs, ActsKeeps, Handlers
  <2>4. CASE ReadRecipe(r) \/ ReadRow(r)
    BY <2>4, ReadRecipeActs, ReadRowActs, ActsKeeps, Handlers
  <2> QED BY <1>1, <2>1, <2>2, <2>3, <2>4 DEF Arrive
<1>2. ASSUME NEW r \in Request, Proceed(r) PROVE Basics'
  <2>1. CASE Found(r) \/ Hit(r) \/ Miss(r) \/ Calculated(r) \/ Recalculate(r) \/ GiveUp(r)
    BY <2>1, FoundActs, HitActs, MissActs, CalculatedActs, RecalculateActs, GiveUpActs,
       ActsKeeps, Handlers
  <2>2. CASE Lost(r)
    BY <2>2, LostJoins
  <2>3. CASE PatchFound(r) \/ Destroyed(r) \/ Created(r) \/ NotCreated(r) \/ Deleted(r)
               \/ SaveRecipe(r)
    BY <2>3, PatchFoundActs, DestroyedActs, CreatedActs, NotCreatedActs, DeletedActs,
       SaveRecipeActs, ActsKeeps, Handlers
  <2> QED BY <1>2, <2>1, <2>2, <2>3 DEF Proceed
<1>3. CASE ProceedRebuild
  BY <1>3, LoadRecipeKeeps, LoadRowKeeps, LoadNothingKeeps, RebuildCreatedKeeps, EnrichedKeeps,
     LimitsLoadedKeeps DEF ProceedRebuild
<1>4. CASE \/ \E h \in Handler : Timeout(h)
           \/ \E w \in Worker : Work(w) \/ Sweep(w) \/ Crash(w)
           \/ ExpireEntry \/ ExpireRecipe \/ \E g \in Generation : ExpireResult(g)
  BY <1>4, TimeoutKeeps, WorkKeeps, SweepKeeps, CrashKeeps, ExpiryKeeps
<1> QED BY <1>1, <1>2, <1>3, <1>4 DEF CalculatorNext

-----------------------------------------------------------------------------
(* One life of the generations, until they start over *)

\* What everybody shares is of generation g.
Shared(g) ==
  /\ entry # Absent => entry.gen = g
  /\ recipe # Absent => recipe.gen = g
  /\ pc[Rebuild] \in {"creating", "enriching", "limits"} => made[Rebuild].gen = g

\* What one request works with fits it.
Fits(g, r) ==
  /\ pc[r] = "saving" => made[r].gen = g
  /\ pc[r] = "destroying" \/ (pc[r] = "patching" /\ answer[r].is = "ok") => calc[r].gen = g
  /\ pc[r] = "patched" => made[r].gen = g + 1
  /\ r \in Executing =>
       /\ calc[r].gen <= g
       /\ calc[r].gen = g => calc[r].version = current
       /\ calc[r].gen = g /\ pc[r] \in {"calculating", "recalculating"} /\ answer[r].is = "ok"
            => answer[r].version = current

\* No deploy has just made an engine.
NoDeploy == \A q \in Deploying : answer[q].is # "ok"

\* A worker that can be relied on
Sound(w) ==
  /\ loaded[w] \in {Absent, current}
  /\ \A i \in DOMAIN queue[w] :
       queue[w][i].op = "create" => \/ queue[w][i].version = current
                                    \/ queue[w][i].by \in Deploying

\* A create in a queue was there, is of the version that counts, or of a deploy.
CreatesFine ==
  \A w \in Worker : \A i \in DOMAIN queue'[w] :
    queue'[w][i].op = "create" =>
      \/ queue'[w][i].version = current'
      \/ queue'[w][i].by \in Deploying'
      \/ \E j \in DOMAIN queue[w] :
           /\ queue[w][j].op = "create" /\ queue[w][j].version = queue'[w][i].version
           /\ queue[w][j].by = queue'[w][i].by \/ queue[w][j].by \notin Deploying

\* A life is what is shared, what each request has, the results and the engines;
LEMMA LifeInParts ==
  ASSUME NEW g
  PROVE  Life(g) <=> /\ Shared(g) /\ \A r \in Request : Fits(g, r)
                     /\ ResultsBehind(g) /\ EnginesCurrent(g)
BY DEF Life, Shared, Fits, GenerationsAgree, ExecutionsBehind, Executing

\* the same of the next state.
LEMMA LifeInPartsNext ==
  ASSUME NEW g
  PROVE  Life(g)' <=> /\ Shared(g)' /\ \A r \in Request : Fits(g, r)'
                      /\ ResultsBehind(g)' /\ EnginesCurrent(g)'
BY DEF Life, Shared, Fits, GenerationsAgree, ExecutionsBehind, Executing

\* What is trusted can be relied on, but just after a deploy.
LEMMA TrustedSound ==
  ASSUME NEW g, EnginesCurrent(g), NoDeploy, NEW w \in Worker, Trusted(g, w)
  PROVE  Sound(w)
BY DEF EnginesCurrent, NoDeploy, Sound

\* A request that keeps its place keeps fitting.
LEMMA KeptFits ==
  ASSUME NEW g, NEW r \in Request, Kept(r), Fits(g, r), current' = current
  PROVE  Fits(g, r)'
BY DEF Kept, Fits, Executing

\* Who has nothing to do with the calculator, or waits, fits any life.
LEMMA IdleFits ==
  ASSUME NEW g, NEW r \in Request, answer'[r].is # "ok",
         pc'[r] \in {"idle", "posted", "deleting"} \cup Waits
  PROVE  Fits(g, r)' /\ r \notin Executing'
BY DEF Fits, Executing, Waits

\* Engines stay current when those who are trusted were sound, what is loaded is
\* of this version or of a deploy, and so are the creates.
LEMMA EnginesKept ==
  ASSUME NEW g, current' = current, CreatesFine,
         \A w \in Worker : Trusted(g, w)' =>
           /\ Sound(w)
           /\ \/ loaded'[w] \in {loaded[w], Absent, current}
              \/ \E r \in Deploying' : answer'[r].is = "ok" /\ made'[r].worker = w,
         \A q \in Deploying : q \in Deploying' \/ Unawaited(q)
  PROVE  EnginesCurrent(g)'
<1> SUFFICES ASSUME NEW w \in Worker, Trusted(g, w)'
             PROVE  /\ \/ loaded'[w] \in {Absent, current'}
                       \/ \E r \in Deploying' : answer'[r].is = "ok" /\ made'[r].worker = w
                    /\ \A i \in DOMAIN queue'[w] :
                         queue'[w][i].op = "create" => \/ queue'[w][i].version = current'
                                                       \/ queue'[w][i].by \in Deploying'
  BY DEF EnginesCurrent
<1>1. Sound(w)
  OBVIOUS
<1>2. \/ loaded'[w] \in {Absent, current'}
      \/ \E r \in Deploying' : answer'[r].is = "ok" /\ made'[r].worker = w
  BY <1>1 DEF Sound
<1>3. ASSUME NEW i \in DOMAIN queue'[w], queue'[w][i].op = "create",
             queue'[w][i].version # current'
      PROVE  queue'[w][i].by \in Deploying'
  <2> SUFFICES ASSUME queue'[w][i].by \notin Deploying' PROVE FALSE
    OBVIOUS
  <2>1. PICK j \in DOMAIN queue[w] :
          /\ queue[w][j].op = "create" /\ queue[w][j].version = queue'[w][i].version
          /\ queue[w][j].by = queue'[w][i].by \/ queue[w][j].by \notin Deploying
    BY <1>3 DEF CreatesFine
  <2>2. queue[w][j].by \in Deploying
    BY <1>1, <1>3, <2>1 DEF Sound
  <2> QED BY <2>1, <2>2 DEF Unawaited
<1> QED BY <1>2, <1>3

\* Requests of X act, and the life goes on.
LEMMA LifeGoesOn ==
  ASSUME NEW g, Life(g), NoDeploy, NEW X \in SUBSET Request,
         \A q \in Request \ X : Kept(q),
         \A q \in X : /\ Fits(g, q)'
                      /\ q \in Executing' /\ calc'[q].gen = g => Sound(calc'[q].worker)
                      /\ q \in Deploying => q \in Deploying' \/ Unawaited(q),
         Shared(g)',
         entry' \in {entry, Absent} \/ Sound(entry'.worker),
         pc'[Rebuild] \in {"enriching", "limits"} => Sound(made'[Rebuild].worker),
         \A w \in Worker : loaded'[w] \in {loaded[w], Absent},
         CreatesFine, ResultsBehind(g)', current' = current
  PROVE  Life(g)'
<1>1. Shared(g) /\ (\A r \in Request : Fits(g, r)) /\ EnginesCurrent(g)
  BY LifeInParts
<1>2. \A q \in Request : Fits(g, q)'
  BY <1>1, KeptFits
<1>3. ASSUME NEW w \in Worker, Trusted(g, w)' PROVE Sound(w)
  <2>1. CASE entry' # Absent /\ entry'.worker = w
    <3>1. CASE entry' \in {entry, Absent}
      <4>1. Trusted(g, w)
        BY <2>1, <3>1 DEF Trusted
      <4> QED BY <1>1, <4>1, TrustedSound
    <3> QED BY <2>1, <3>1
  <2>2. CASE \E r \in Executing' : calc'[r].gen = g /\ calc'[r].worker = w
    <3>1. PICK r \in Executing' : calc'[r].gen = g /\ calc'[r].worker = w
      BY <2>2
    <3>2. r \in Request
      BY <3>1 DEF Executing
    <3>3. CASE r \in X
      BY <3>1, <3>3
    <3>4. CASE r \notin X
      <4>1. r \in Executing /\ calc[r].gen = g /\ calc[r].worker = w
        BY <3>1, <3>2, <3>4 DEF Executing, Kept
      <4>2. Trusted(g, w)
        BY <4>1 DEF Trusted
      <4> QED BY <1>1, <4>2, TrustedSound
    <3> QED BY <3>3, <3>4
  <2>3. CASE pc'[Rebuild] \in {"enriching", "limits"} /\ made'[Rebuild].worker = w
    BY <2>3
  <2> QED BY <1>3, <2>1, <2>2, <2>3 DEF Trusted
<1>4. \A q \in Deploying : q \in Deploying' \/ Unawaited(q)
  BY DEF Deploying, Kept
<1>5. EnginesCurrent(g)'
  BY <1>3, <1>4, EnginesKept
<1> QED BY <1>2, <1>5, LifeInPartsNext

\* A message that is no create, or one of this version or of a deploy, is fine.
LEMMA QueueFine ==
  ASSUME \/ UNCHANGED queue
         \/ \E w \in Worker : \E m :
              /\ Enters(w, m)
              /\ m.op # "create" \/ m.version = current' \/ m.by \in Deploying'
  PROVE  CreatesFine
<1>1. CASE UNCHANGED queue
  BY <1>1 DEF CreatesFine
<1>2. CASE ~ UNCHANGED queue
  <2>1. PICK x \in Worker : \E m :
          /\ Enters(x, m)
          /\ m.op # "create" \/ m.version = current' \/ m.by \in Deploying'
    BY <1>2
  <2>2. PICK m :
          /\ Enters(x, m)
          /\ m.op # "create" \/ m.version = current' \/ m.by \in Deploying'
    BY <2>1
  <2> SUFFICES ASSUME NEW w \in Worker, NEW i \in DOMAIN queue'[w], queue'[w][i].op = "create",
                      queue'[w][i].version # current', queue'[w][i].by \notin Deploying'
               PROVE  \E j \in DOMAIN queue[w] : queue[w][j] = queue'[w][i]
    BY DEF CreatesFine
  <2>3. i \in DOMAIN queue[w] \/ queue'[w][i] = m
    BY <2>2 DEF Enters
  <2> QED BY <2>2, <2>3 DEF Enters
<1> QED BY <1>1, <1>2

\* An answer that is about to be taken is the only one.
LEMMA NoneDeployed ==
  ASSUME Basics, Quiet \/ \E r \in Handler : /\ answer[r] # Nothing
                                             /\ pc[r] \notin {"patched", "posted"} \/ answer[r].is # "ok"
  PROVE  NoDeploy
<1> SUFFICES ASSUME NEW q \in Deploying, answer[q].is = "ok" PROVE FALSE
  BY DEF NoDeploy
<1>1. q \in Handler /\ pc[q] \in {"patched", "posted"} /\ answer[q] # Nothing
  BY Handlers DEF Deploying, Nothing
<1>2. \A h \in Handler \ {q} : answer[h] = Nothing
  BY <1>1 DEF Basics, LoneAnswer
<1> QED BY <1>1, <1>2 DEF Quiet

\* One request acts, and writes nothing.
LEMMA LifeOfRequest ==
  ASSUME Basics, NEW g, Life(g), NoDeploy, NEW r \in Request, Acts(r), Fits(g, r)',
         r \in Executing' /\ calc'[r].gen = g => Sound(calc'[r].worker),
         entry' \in {entry, Absent}, recipe' \in {recipe, Absent}, loaded' = loaded,
         current' = current, CreatesFine, ResultsBehind(g)'
  PROVE  Life(g)'
<1>1. \A h \in Handler \ {r} : Kept(h)
  BY DEF Acts
<1>2. pc'[Rebuild] = pc[Rebuild] /\ made'[Rebuild] = made[Rebuild]
  BY <1>1, Handlers DEF Kept
<1>3. \A q \in Request \ {r} : Kept(q)
  BY <1>1, Handlers
<1>4. Shared(g)'
  BY <1>2, LifeInParts DEF Shared
<1>5. pc'[Rebuild] \in {"enriching", "limits"} => Sound(made'[Rebuild].worker)
  <2> SUFFICES ASSUME pc[Rebuild] \in {"enriching", "limits"} PROVE Sound(made[Rebuild].worker)
    BY <1>2
  <2>1. made[Rebuild].worker \in Worker
    BY Handlers DEF Basics, HandlerHolds, Entry
  <2>2. Trusted(g, made[Rebuild].worker)
    BY DEF Trusted
  <2> QED BY <2>1, <2>2, LifeInParts, TrustedSound
<1>6. {r} \in SUBSET Request /\ \A q \in {r} : q \in Deploying => q \in Deploying' \/ Unawaited(q)
  BY DEF Acts
<1>7. \A w \in Worker : loaded'[w] \in {loaded[w], Absent}
  OBVIOUS
<1> QED BY <1>3, <1>4, <1>5, <1>6, <1>7, LifeGoesOn

\* Results of the same version stay behind it.
LEMMA SameResults ==
  ASSUME NEW g, ResultsBehind(g), UNCHANGED results, UNCHANGED current
  PROVE  ResultsBehind(g)'
BY DEF ResultsBehind

\* Executions belong to the life, or to what is left of an earlier generation.
LEMMA LifeOfExecution ==
  ASSUME Basics, Ordered, NEW g \in Nat, Life(g), NEW r \in Request,
         Execute(r) \/ Found(r) \/ Hit(r) \/ Miss(r) \/ Calculated(r) \/ Recalculate(r) \/ GiveUp(r),
         Execute(r) => entry # Absent
  PROVE  Life(g)'
<1> USE DEF storeVars, workerVars, historyVars
<1>1. /\ Shared(g) /\ Fits(g, r) /\ ResultsBehind(g) /\ EnginesCurrent(g) /\ r \in Handler
  BY LifeInParts, Handlers
<1>2. NoDeploy
  BY <1>1, NoneDeployed DEF Execute, Found, Hit, Miss, Calculated, Recalculate, GiveUp, Answered
<1>3. r \in Executing /\ calc[r] \in Entry /\ calc[r].gen = g => Sound(calc[r].worker)
  <2>1. r \in Executing /\ calc[r] \in Entry /\ calc[r].gen = g =>
          calc[r].worker \in Worker /\ Trusted(g, calc[r].worker)
    BY DEF Trusted, Entry
  <2> QED BY <1>1, <1>2, <2>1, TrustedSound
<1>4. CASE Hit(r) \/ GiveUp(r)
  <2>1. Acts(r) /\ pc'[r] = "idle" /\ answer'[r] = Nothing
    BY <1>4, HitActs, GiveUpActs
  <2>2. UNCHANGED <<recipe, entry, results, loaded, queue, current>>
    BY <1>4 DEF Hit, GiveUp
  <2>3. CreatesFine /\ ResultsBehind(g)'
    BY <1>1, <2>2, QueueFine, SameResults
  <2>4. Fits(g, r)' /\ r \notin Executing'
    BY <2>1, IdleFits DEF Nothing
  <2> QED BY <1>2, <2>1, <2>2, <2>3, <2>4, LifeOfRequest
<1>5. CASE Found(r)
  <2>1. /\ Acts(r) /\ answer'[r] = Nothing
        /\ \/ /\ answer[r].is = "ok" /\ pc'[r] = "checking"
              /\ calc'[r] = calc[r] /\ calc[r] \in Entry
           \/ pc'[r] = "idle"
    BY <1>5, FoundActs
  <2>2. UNCHANGED <<recipe, entry, results, loaded, queue, current>> /\ pc[r] = "waiting"
    BY <1>5 DEF Found, Answered
  <2>3. CreatesFine /\ ResultsBehind(g)'
    BY <1>1, <2>2, QueueFine, SameResults
  <2>4. CASE pc'[r] = "idle"
    <3>1. Fits(g, r)' /\ r \notin Executing'
      BY <2>1, <2>4, IdleFits DEF Nothing
    <3> QED BY <1>2, <2>1, <2>2, <2>3, <3>1, LifeOfRequest
  <2>5. CASE pc'[r] # "idle"
    <3>1. r \in Executing
      BY <2>1, <2>2, <2>5 DEF Executing
    <3>2. Fits(g, r)'
      BY <1>1, <2>1, <2>2, <2>5, <3>1 DEF Fits, Nothing
    <3> QED BY <1>2, <1>3, <2>1, <2>2, <2>3, <2>5, <3>1, <3>2, LifeOfRequest
  <2> QED BY <2>4, <2>5
<1>6. CASE Miss(r) \/ Recalculate(r)
  <2>1. /\ Acts(r) /\ pc'[r] \in {"calculating", "recalculating"}
        /\ calc'[r] = calc[r]
        /\ \/ UNCHANGED queue
           \/ Enters(calc[r].worker, Message("calculate", Absent, r))
    BY <1>6, MissActs, RecalculateActs
  <2>2. calc[r] \in Entry /\ r \in Executing
    BY <1>6, <1>1 DEF Miss, Recalculate, Answered, Basics, HandlerHolds, Executing
  <2>3. UNCHANGED <<recipe, entry, results, loaded, current>>
    BY <1>6 DEF Miss, Recalculate, Calculate
  <2>4. CreatesFine
    BY <2>1, <2>2, QueueFine DEF Message, Entry
  <2>5. ResultsBehind(g)'
    BY <1>1, <2>3, SameResults
  <2>6. answer'[r].is # "ok"
    BY <2>1 DEF Acts, Nothing, Failed
  <2>7. Fits(g, r)'
    BY <1>1, <2>1, <2>2, <2>3, <2>6 DEF Fits
  <2> QED BY <1>2, <1>3, <2>1, <2>2, <2>3, <2>4, <2>5, <2>7, LifeOfRequest
<1>7. CASE Execute(r) /\ entry # Absent
  <2>1. Acts(r) /\ pc'[r] = "checking" /\ calc'[r] = entry /\ answer'[r] = Nothing
    BY <1>7, ExecuteHitActs
  <2>2. UNCHANGED <<recipe, entry, results, loaded, queue, current>>
    BY <1>7 DEF Execute
  <2>3. CreatesFine /\ ResultsBehind(g)'
    BY <1>1, <2>2, QueueFine, SameResults
  <2>4. entry \in Entry /\ entry.gen = g
    BY <1>1, <1>7 DEF Basics, CalculatorTypes, Shared
  <2>5. Sound(entry.worker)
    <3>1. entry.worker \in Worker /\ Trusted(g, entry.worker)
      BY <1>7, <2>4 DEF Trusted, Entry
    <3> QED BY <1>1, <1>2, <3>1, TrustedSound
  <2>6. entry.version = current
    BY <1>7 DEF Ordered, VersionsCurrent
  <2>7. calc'[r].gen = g /\ calc'[r].version = current' /\ answer'[r].is # "ok" /\ g <= g
    BY <2>1, <2>2, <2>4, <2>6 DEF Nothing
  <2>8. Fits(g, r)'
    BY <2>1, <2>7 DEF Fits
  <2> QED BY <1>2, <2>1, <2>2, <2>3, <2>5, <2>8, LifeOfRequest
<1>8. CASE Calculated(r)
  <2>1. Acts(r) /\ pc'[r] = "idle" /\ answer'[r] = Nothing
    BY <1>8, CalculatedActs
  <2>2. /\ UNCHANGED <<recipe, entry, loaded, queue, current>>
        /\ pc[r] \in {"calculating", "recalculating"}
        /\ \/ answer[r].is = "ok" /\ results' = [results EXCEPT ![calc[r].gen] = answer[r].version]
           \/ results' = results
    BY <1>8 DEF Calculated, Answered
  <2>3. CreatesFine
    BY <2>2, QueueFine
  <2>4. ResultsBehind(g)'
    <3>1. CASE results' = results
      BY <1>1, <2>2, <3>1, SameResults
    <3>2. CASE /\ answer[r].is = "ok"
               /\ results' = [results EXCEPT ![calc[r].gen] = answer[r].version]
      <4>1. r \in Executing /\ calc[r].gen \in Generation
        BY <1>1, <2>2 DEF Executing, Basics, HandlerHolds, Entry
      <4>2. calc[r].gen <= g /\ (calc[r].gen = g => answer[r].version = current)
        BY <1>1, <2>2, <3>2, <4>1 DEF Fits
      <4>3. \A k \in Generation : k # calc[r].gen => results'[k] = results[k]
        BY <3>2 DEF Basics, CalculatorTypes
      <4>4. results'[calc[r].gen] = answer[r].version
        BY <3>2, <4>1 DEF Basics, CalculatorTypes
      <4>5. \A k \in Generation : k > g => k # calc[r].gen
        BY <4>1, <4>2, Handlers DEF Generation
      <4> QED BY <1>1, <2>2, <4>2, <4>3, <4>4, <4>5 DEF ResultsBehind
    <3> QED BY <2>2, <3>1, <3>2
  <2>5. Fits(g, r)' /\ r \notin Executing'
    BY <2>1, IdleFits DEF Nothing
  <2> QED BY <1>2, <2>1, <2>2, <2>3, <2>4, <2>5, LifeOfRequest
<1> QED BY <1>4, <1>5, <1>6, <1>7, <1>8

\* A request that waits for a rebuild
LEMMA LifeOfJoin ==
  ASSUME Basics, NEW g \in Nat, Life(g), NoDeploy, NEW r \in Request, NEW at \in Waits,
         Joins(r, at), Unawaited(r), entry' \in {entry, Absent},
         UNCHANGED <<recipe, results, loaded, current>>, CreatesFine
  PROVE  Life(g)'
<1>1. Shared(g) /\ ResultsBehind(g) /\ EnginesCurrent(g) /\ \A q \in Request : Fits(g, q)
  BY LifeInParts
<1>2. /\ pc'[r] = at /\ answer'[r] = Nothing
      /\ pc'[Rebuild] = IF pc[Rebuild] = "idle" THEN "loading" ELSE pc[Rebuild]
      /\ made'[Rebuild] = made[Rebuild]
  BY DEF Joins
<1>3. \A q \in Request \ {r} : Kept(q)
  BY Handlers DEF Joins
<1>4. Fits(g, r)' /\ r \notin Executing'
  BY <1>2, IdleFits DEF Nothing
<1>5. Shared(g)'
  BY <1>1, <1>2 DEF Shared
<1>6. pc'[Rebuild] \in {"enriching", "limits"} => Sound(made'[Rebuild].worker)
  <2> SUFFICES ASSUME pc[Rebuild] \in {"enriching", "limits"} PROVE Sound(made[Rebuild].worker)
    BY <1>2
  <2>1. made[Rebuild].worker \in Worker
    BY Handlers DEF Basics, HandlerHolds, Entry
  <2>2. Trusted(g, made[Rebuild].worker)
    BY DEF Trusted
  <2> QED BY <1>1, <2>1, <2>2, TrustedSound
<1>7. ResultsBehind(g)'
  BY <1>1, SameResults
<1>8. {r} \in SUBSET Request
  OBVIOUS
<1> QED BY <1>3, <1>4, <1>5, <1>6, <1>7, <1>8, LifeGoesOn

\* The end of a rebuild
LEMMA LifeOfEnd ==
  ASSUME Basics, Ordered, NEW g \in Nat, Life(g), NoDeploy, NEW a, NEW e, Ends(a, e),
         a = NotFound \/ a = Failed \/ (a.is = "ok" /\ e = made[Rebuild] /\ pc[Rebuild] = "limits"),
         UNCHANGED <<recipe, entry, results, loaded, queue, current>>
  PROVE  Life(g)'
<1>1. Shared(g) /\ ResultsBehind(g) /\ EnginesCurrent(g) /\ \A q \in Request : Fits(g, q)
  BY LifeInParts
<1>2. CreatesFine /\ ResultsBehind(g)'
  BY <1>1, QueueFine, SameResults
<1>3. pc'[Rebuild] = "idle" /\ Shared(g)'
  BY <1>1 DEF Ends, Shared
<1>4. ASSUME NEW q \in Waiting
      PROVE  /\ Fits(g, q)' /\ q \notin Deploying
             /\ q \in Executing' /\ calc'[q].gen = g => Sound(calc'[q].worker)
  <2>1. q \in Request /\ pc'[q] = pc[q] /\ pc[q] \in Waits /\ calc'[q] = e /\ answer'[q] = a
    BY <1>4 DEF Waiting, Ends, Waits
  <2>2. q \notin Deploying
    BY <2>1 DEF Deploying, Waits
  <2>3. CASE a.is # "ok"
    BY <2>1, <2>2, <2>3, IdleFits
  <2>4. CASE a.is = "ok"
    <3>1. e = made[Rebuild] /\ pc[Rebuild] = "limits"
      BY <2>4 DEF NotFound, Failed
    <3>2. e.gen = g /\ e.version = current /\ e.worker \in Worker
      BY <1>1, <3>1, Handlers DEF Shared, Ordered, VersionsCurrent, Basics, HandlerHolds, Entry
    <3>3. Sound(e.worker)
      <4>1. Trusted(g, e.worker)
        BY <3>1 DEF Trusted
      <4> QED BY <1>1, <3>2, <4>1, TrustedSound
    <3>4. Fits(g, q)'
      <4>1. g <= g
        OBVIOUS
      <4> QED BY <2>1, <3>2, <4>1 DEF Fits, Waits
    <3> QED BY <2>1, <2>2, <3>3, <3>4
  <2> QED BY <2>3, <2>4
<1>5. \A q \in Request \ Waiting : Kept(q)
  BY DEF Ends
<1>6. Waiting \in SUBSET Request
  BY DEF Waiting
<1> QED BY <1>2, <1>3, <1>4, <1>5, <1>6, LifeGoesOn

\* Rebuilds bring back the generation that Redis has.
LEMMA LifeOfRebuild ==
  ASSUME Basics, Ordered, NEW g \in Nat, Life(g),
         LoadRecipe \/ LoadNothing \/ RebuildCreated \/ Enriched \/ LimitsLoaded
  PROVE  Life(g)'
<1> USE DEF storeVars, workerVars, historyVars
<1>1. Shared(g) /\ ResultsBehind(g) /\ EnginesCurrent(g) /\ \A q \in Request : Fits(g, q)
  BY LifeInParts
<1>2. NoDeploy
  <2>1. CASE Quiet
    BY <2>1, NoneDeployed
  <2>2. CASE ~Quiet
    BY <2>2, Handlers, NoneDeployed
       DEF LoadRecipe, LoadNothing, RebuildCreated, Answered, Enriched, LimitsLoaded
  <2> QED BY <2>1, <2>2
<1>3. CASE LoadNothing
  BY <1>2, <1>3, LoadNothingKeeps, LifeOfEnd DEF LoadNothing
<1>4. CASE LimitsLoaded
  <2>1. /\ Ends(Ok(made[Rebuild].version), made[Rebuild]) /\ pc[Rebuild] = "limits"
        /\ UNCHANGED <<recipe, entry, results, loaded, queue, current>>
    BY <1>4, LimitsLoadedKeeps DEF LimitsLoaded
  <2>2. Ok(made[Rebuild].version).is = "ok"
    BY DEF Ok
  <2> QED BY <1>2, <2>1, <2>2, LifeOfEnd
<1>5. ASSUME \A r \in Request : Kept(r), Shared(g)', ResultsBehind(g)', CreatesFine,
             loaded' = loaded, current' = current,
             entry' \in {entry, Absent} \/ Sound(entry'.worker),
             pc'[Rebuild] \in {"enriching", "limits"} => Sound(made'[Rebuild].worker)
      PROVE  Life(g)'
  <2>1. {} \in SUBSET Request /\ \A w \in Worker : loaded'[w] \in {loaded[w], Absent}
    BY <1>5
  <2> QED BY <1>2, <1>5, <2>1, LifeGoesOn
<1>6. CASE LoadRecipe
  <2>1. /\ Acts(Rebuild) /\ pc'[Rebuild] = "creating" /\ made'[Rebuild].gen = recipe.gen
        /\ \/ UNCHANGED queue
           \/ \E w \in Worker : Enters(w, Message("create", recipe.version, Rebuild))
    BY <1>6, LoadRecipeKeeps
  <2>2. UNCHANGED <<recipe, entry, results, loaded, current>> /\ recipe # Absent
    BY <1>6 DEF LoadRecipe
  <2>3. CreatesFine
    <3>1. recipe.version = current'
      BY <2>2 DEF Ordered, VersionsCurrent
    <3>2. Message("create", recipe.version, Rebuild).version = current'
      BY <3>1 DEF Message
    <3> QED BY <2>1, <3>2, QueueFine
  <2>4. Shared(g)'
    BY <1>1, <2>1, <2>2 DEF Shared
  <2>5. \A r \in Request : Kept(r)
    BY <2>1, Handlers DEF Acts
  <2>6. ResultsBehind(g)'
    BY <1>1, <2>2, SameResults
  <2> QED BY <1>5, <2>1, <2>2, <2>3, <2>4, <2>5, <2>6
<1>7. CASE Enriched
  <2>1. /\ pc'[Rebuild] = "limits" /\ made[Rebuild] \in Entry /\ \A r \in Request : Kept(r)
    BY <1>7, EnrichedKeeps
  <2>2. /\ UNCHANGED <<results, loaded, queue, made, current>> /\ pc[Rebuild] = "enriching"
        /\ recipe' \in {recipe, AsRecipe(made[Rebuild])} /\ entry' = made[Rebuild]
    BY <1>7 DEF Enriched
  <2>3. CreatesFine /\ ResultsBehind(g)'
    BY <1>1, <2>2, QueueFine, SameResults
  <2>4. Shared(g)'
    BY <1>1, <2>1, <2>2 DEF Shared, AsRecipe
  <2>5. Sound(made[Rebuild].worker)
    <3>1. made[Rebuild].worker \in Worker /\ Trusted(g, made[Rebuild].worker)
      BY <2>1, <2>2 DEF Entry, Trusted
    <3> QED BY <1>1, <1>2, <3>1, TrustedSound
  <2> QED BY <1>5, <2>1, <2>2, <2>3, <2>4, <2>5
<1>8. CASE RebuildCreated
  <2>1. /\ UNCHANGED <<recipe, entry, results, loaded, queue, current>> /\ pc[Rebuild] = "creating"
    BY <1>8 DEF RebuildCreated, Answered
  <2>2. CASE Ends(Failed, Absent)
    BY <1>2, <2>1, <2>2, LifeOfEnd
  <2>3. CASE ~Ends(Failed, Absent)
    <3>1. /\ answer[Rebuild].is = "ok" /\ made[Rebuild] \in Entry /\ made' = made
          /\ pc'[Rebuild] = "enriching" /\ \A r \in Request : Kept(r)
      BY <1>8, <2>3, RebuildCreatedKeeps
    <3>2. CreatesFine /\ ResultsBehind(g)'
      BY <1>1, <2>1, QueueFine, SameResults
    <3>3. Shared(g)'
      BY <1>1, <2>1, <3>1 DEF Shared
    <3>4. Sound(made[Rebuild].worker)
      <4>1. loaded[made[Rebuild].worker] = made[Rebuild].version
        BY <2>1, <3>1, Handlers DEF Basics, EngineMade
      <4>2. made[Rebuild].version = current
        BY <2>1 DEF Ordered, VersionsCurrent
      <4>3. \A i \in DOMAIN queue[made[Rebuild].worker] :
              queue[made[Rebuild].worker][i].op # "create"
        BY <2>1, <3>1, Handlers DEF Ordered, NoCreateBehind
      <4> QED BY <4>1, <4>2, <4>3 DEF Sound
    <3> QED BY <1>5, <2>1, <3>1, <3>2, <3>3, <3>4
  <2> QED BY <2>2, <2>3
<1> QED BY <1>3, <1>4, <1>6, <1>7, <1>8

\* A disposal brings no create.
LEMMA DisposalFine ==
  ASSUME CalculatorTypes, Dispose
  PROVE  CreatesFine /\ entry' = Absent
<1>1. CASE UNCHANGED queue
  BY <1>1, QueueFine, Disposing
<1>2. CASE ~ UNCHANGED queue
  <2> DEFINE m == Message("destroy", Absent, Absent)
  <2>1. entry \in Entry /\ Enters(entry.worker, m) /\ entry' = Absent
    BY <1>2, Disposing
  <2>2. entry.worker \in Worker /\ m.op # "create"
    BY <2>1 DEF Message, Entry
  <2> HIDE DEF m
  <2> QED BY <2>1, <2>2, QueueFine
<1> QED BY <1>1, <1>2

\* Requests that start or join a rebuild leave the life as it is.
LEMMA LifeOfWaiting ==
  ASSUME Basics, NEW g \in Nat, Life(g), NEW r \in Request,
         \/ (Execute(r) \/ Patch(r)) /\ entry = Absent
         \/ Lost(r)
  PROVE  Life(g)'
<1> USE DEF storeVars, workerVars, historyVars
<1>1. r \in Handler
  BY Handlers
<1>2. CASE (Execute(r) \/ Patch(r)) /\ entry = Absent
  <2>1. Quiet /\ pc[r] = "idle" /\ UNCHANGED <<recipe, entry, results, loaded, queue, current>>
    BY <1>2 DEF Execute, Patch
  <2>2. NoDeploy /\ Unawaited(r) /\ CreatesFine
    BY <1>1, <2>1, NoneDeployed, NoneAwaited, QueueFine DEF Basics
  <2>3. Joins(r, "waiting") \/ Joins(r, "patching")
    BY <1>2, ExecuteJoins, PatchJoins
  <2>4. "waiting" \in Waits /\ "patching" \in Waits
    BY DEF Waits
  <2> QED BY <2>1, <2>2, <2>3, <2>4, LifeOfJoin
<1>3. CASE Lost(r)
  <2>1. /\ answer[r] # Nothing /\ pc[r] = "calculating" /\ Dispose
        /\ UNCHANGED <<recipe, results, loaded, current>>
    BY <1>3 DEF Lost, Answered
  <2>2. NoDeploy /\ Unawaited(r)
    BY <1>1, <2>1, NoneDeployed, NoneAwaited DEF Basics
  <2>3. CreatesFine /\ entry' = Absent
    BY <2>1, DisposalFine DEF Basics
  <2>4. Joins(r, "rewaiting") /\ "rewaiting" \in Waits
    BY <1>3, LostJoins DEF Waits
  <2> QED BY <2>1, <2>2, <2>3, <2>4, LifeOfJoin
<1> QED BY <1>2, <1>3

\* Writers that have written nothing yet keep the life as it is.
LEMMA LifeOfPatch ==
  ASSUME Basics, NEW g \in Nat, Life(g), NEW r \in Request,
         (Patch(r) /\ entry # Absent) \/ PatchFound(r)
  PROVE  Life(g)'
<1> USE DEF storeVars, workerVars, historyVars
<1>1. Shared(g) /\ Fits(g, r) /\ ResultsBehind(g) /\ r \in Handler
  BY LifeInParts, Handlers
<1>2. UNCHANGED <<recipe, entry, results, loaded, current>>
  BY DEF Patch, PatchFound
<1>3. ResultsBehind(g)'
  BY <1>1, <1>2, SameResults
<1>4. NoDeploy
  BY <1>1, NoneDeployed DEF Patch, PatchFound, Answered
<1>5. CASE PatchFound(r) /\ pc'[r] = "idle" /\ UNCHANGED queue
  <2>1. Acts(r)
    BY <1>5, PatchFoundActs
  <2>2. CreatesFine /\ answer'[r].is # "ok"
    BY <1>5, <2>1, QueueFine DEF Acts, Nothing, Failed
  <2>3. Fits(g, r)' /\ r \notin Executing'
    BY <1>5, <2>2, IdleFits
  <2> QED BY <1>2, <1>3, <1>4, <2>1, <2>2, <2>3, LifeOfRequest
<1>6. CASE /\ Acts(r) /\ pc'[r] = "destroying" /\ calc'[r] \in Entry /\ calc'[r].gen = g
           /\ \/ UNCHANGED queue
              \/ Enters(calc'[r].worker, Message("destroy", Absent, r))
  <2>1. CreatesFine
    <3>1. CASE UNCHANGED queue
      BY <3>1, QueueFine
    <3>2. CASE ~ UNCHANGED queue
      <4>1. PICK w \in Worker : Enters(w, Message("destroy", Absent, r))
        BY <1>6, <3>2 DEF Entry
      <4>2. Message("destroy", Absent, r).op # "create"
        BY DEF Message
      <4> QED BY <4>1, <4>2, QueueFine
    <3> QED BY <3>1, <3>2
  <2>2. Fits(g, r)' /\ r \notin Executing'
    BY <1>6 DEF Fits, Executing
  <2> QED BY <1>2, <1>3, <1>4, <1>6, <2>1, <2>2, LifeOfRequest
<1>7. CASE Patch(r) /\ entry # Absent
  <2>1. /\ Acts(r) /\ pc'[r] = "destroying" /\ calc'[r] = entry
        /\ \/ UNCHANGED queue
           \/ Enters(entry.worker, Message("destroy", Absent, r))
    BY <1>7, PatchActs
  <2>2. entry \in Entry /\ entry.gen = g
    BY <1>1, <1>7 DEF Basics, CalculatorTypes, Shared
  <2> QED BY <1>6, <2>1, <2>2
<1>8. CASE PatchFound(r) /\ ~(pc'[r] = "idle" /\ UNCHANGED queue)
  <2>1. /\ Acts(r) /\ answer[r].is = "ok" /\ pc'[r] = "destroying" /\ calc'[r] = calc[r]
        /\ calc[r] \in Entry
        /\ \/ UNCHANGED queue
           \/ Enters(calc[r].worker, Message("destroy", Absent, r))
    BY <1>8, PatchFoundActs
  <2>2. calc[r].gen = g
    BY <1>1, <1>8, <2>1 DEF PatchFound, Answered, Fits
  <2> QED BY <1>6, <2>1, <2>2
<1> QED BY <1>5, <1>7, <1>8

\* The create of a deploy
LEMMA DeployFine ==
  ASSUME NEW r \in Request, pc'[r] \in {"patched", "posted"},
         \/ UNCHANGED queue
         \/ \E w \in Worker, v \in Version : Enters(w, Message("create", v, r))
  PROVE  CreatesFine
<1>1. CASE UNCHANGED queue
  BY <1>1, QueueFine
<1>2. CASE ~ UNCHANGED queue
  <2>1. PICK w \in Worker, v \in Version : Enters(w, Message("create", v, r))
    BY <1>2
  <2>2. Message("create", v, r).by \in Deploying'
    BY DEF Message, Deploying
  <2> QED BY <2>1, <2>2, QueueFine
<1> QED BY <1>1, <1>2

\* Writers before they have an engine, or that get none, keep the life as it is.
LEMMA LifeOfWriter ==
  ASSUME Basics, NEW g \in Nat, Life(g), NEW r \in Request,
         Destroyed(r) \/ Post(r) \/ NotCreated(r) \/ Delete(r) \/ ReadRecipe(r)
  PROVE  Life(g)'
<1> USE DEF storeVars, workerVars, historyVars
<1>1. Shared(g) /\ Fits(g, r) /\ ResultsBehind(g) /\ r \in Handler
  BY LifeInParts, Handlers
<1>2. UNCHANGED <<recipe, entry, results, loaded, current>>
  BY DEF Destroyed, Post, NotCreated, Delete, ReadRecipe
<1>3. ResultsBehind(g)'
  BY <1>1, <1>2, SameResults
<1>4. NoDeploy
  BY <1>1, NoneDeployed DEF Destroyed, Post, NotCreated, Delete, ReadRecipe, Answered
<1>5. Acts(r)
  BY DestroyedActs, PostActs, NotCreatedActs, DeleteActs, ReadRecipeActs
<1>6. answer'[r].is # "ok"
  BY <1>5 DEF Acts, Nothing, Failed
<1>7. ASSUME CreatesFine, Fits(g, r)', r \notin Executing' PROVE Life(g)'
  BY <1>2, <1>3, <1>4, <1>5, <1>7, LifeOfRequest
<1>8. CASE Destroyed(r)
  <2>1. /\ pc'[r] = "patched" /\ made'[r].gen = calc[r].gen + 1
        /\ \/ UNCHANGED queue
           \/ \E w \in Worker, v \in Version : Enters(w, Message("create", v, r))
    BY <1>8, DestroyedActs
  <2>2. calc[r].gen = g
    BY <1>1, <1>8 DEF Destroyed, Answered, Fits
  <2>3. Fits(g, r)' /\ r \notin Executing'
    BY <2>1, <2>2 DEF Fits, Executing
  <2> QED BY <1>7, <2>1, <2>3, DeployFine
<1>9. CASE Post(r)
  <2>1. /\ pc'[r] = "posted"
        /\ \/ UNCHANGED queue
           \/ \E w \in Worker, v \in Version : Enters(w, Message("create", v, r))
    BY <1>9, PostActs
  <2>2. Fits(g, r)' /\ r \notin Executing'
    BY <1>6, <2>1, IdleFits
  <2> QED BY <1>7, <2>1, <2>2, DeployFine
<1>10. CASE NotCreated(r) \/ Delete(r)
  <2>1. pc'[r] \in {"idle", "deleting"} /\ UNCHANGED queue
    BY <1>10, NotCreatedActs, DeleteActs DEF NotCreated, Delete
  <2>2. Fits(g, r)' /\ r \notin Executing'
    BY <1>6, <2>1, IdleFits
  <2> QED BY <1>7, <2>1, <2>2, QueueFine
<1>11. CASE ReadRecipe(r)
  <2>1. pc'[r] = "saving" /\ made'[r].gen = recipe.gen /\ UNCHANGED queue /\ recipe # Absent
    BY <1>11, ReadRecipeActs DEF ReadRecipe
  <2>2. made'[r].gen = g
    BY <1>1, <2>1 DEF Shared
  <2>3. Fits(g, r)' /\ r \notin Executing'
    BY <2>1, <2>2 DEF Fits, Executing
  <2> QED BY <1>7, <2>1, <2>3, QueueFine
<1> QED BY <1>8, <1>9, <1>10, <1>11

\* What is saved is of this life.
LEMMA LifeOfSave ==
  ASSUME Basics, NEW g \in Nat, Life(g), NEW r \in Request, SaveRecipe(r)
  PROVE  Life(g)'
<1> USE DEF storeVars, workerVars, historyVars
<1>1. /\ Shared(g) /\ Fits(g, r) /\ ResultsBehind(g) /\ EnginesCurrent(g) /\ r \in Handler
  BY LifeInParts, Handlers
<1>2. /\ UNCHANGED <<entry, results, loaded, queue, current>> /\ Quiet /\ pc[r] = "saving"
      /\ recipe' \in {recipe, AsRecipe(made[r])}
  BY DEF SaveRecipe
<1>3. ResultsBehind(g)' /\ CreatesFine /\ NoDeploy
  BY <1>1, <1>2, SameResults, QueueFine, NoneDeployed
<1>4. Acts(r) /\ pc'[r] = "idle" /\ answer'[r] = Nothing
  BY SaveRecipeActs
<1>5. \A h \in Handler \ {r} : Kept(h)
  BY <1>4 DEF Acts
<1>6. \A q \in Request \ {r} : Kept(q)
  BY <1>5, Handlers
<1>7. pc'[Rebuild] = pc[Rebuild] /\ made'[Rebuild] = made[Rebuild]
  BY <1>5, Handlers DEF Kept
<1>8. AsRecipe(made[r]).gen = g
  BY <1>1, <1>2 DEF Fits, AsRecipe
<1>9. Shared(g)'
  BY <1>1, <1>2, <1>7, <1>8 DEF Shared
<1>10. Fits(g, r)' /\ r \notin Executing' /\ (r \in Deploying => Unawaited(r))
  BY <1>4, IdleFits DEF Nothing, Acts
<1>11. pc'[Rebuild] \in {"enriching", "limits"} => Sound(made'[Rebuild].worker)
  <2> SUFFICES ASSUME pc[Rebuild] \in {"enriching", "limits"} PROVE Sound(made[Rebuild].worker)
    BY <1>7
  <2>1. made[Rebuild].worker \in Worker
    BY Handlers DEF Basics, HandlerHolds, Entry
  <2>2. Trusted(g, made[Rebuild].worker)
    BY DEF Trusted
  <2> QED BY <1>1, <1>3, <2>1, <2>2, TrustedSound
<1>12. {r} \in SUBSET Request
  OBVIOUS
<1> QED BY <1>2, <1>3, <1>6, <1>9, <1>10, <1>11, <1>12, LifeGoesOn

\* While handlers stay where they are, engines only get lost and nobody gets
\* an answer of a worker, the life goes on.
LEMMA LifeOfStay ==
  ASSUME Basics, NEW g \in Nat, Life(g), Quiet, AllStay,
         \A h \in Handler : answer'[h] \in {Nothing, Failed},
         entry' \in {entry, Absent}, recipe' \in {recipe, Absent}, current' = current,
         \A w \in Worker : loaded'[w] \in {loaded[w], Absent},
         ResultsBehind(g)', CreatesFine
  PROVE  Life(g)'
<1>1. Shared(g) /\ ResultsBehind(g) /\ EnginesCurrent(g) /\ \A q \in Request : Fits(g, q)
  BY LifeInParts
<1>2. NoDeploy
  BY NoneDeployed
<1>3. Shared(g)'
  BY <1>1 DEF Shared, AllStay
<1>4. \A h \in Handler : answer'[h].is # "ok" /\ answer[h].is # "ok"
  BY DEF Nothing, Failed, Quiet
<1>5. pc'[Rebuild] \in {"enriching", "limits"} => Sound(made'[Rebuild].worker)
  <2> SUFFICES ASSUME pc[Rebuild] \in {"enriching", "limits"} PROVE Sound(made[Rebuild].worker)
    BY DEF AllStay
  <2>1. made[Rebuild].worker \in Worker
    BY Handlers DEF Basics, HandlerHolds, Entry
  <2>2. Trusted(g, made[Rebuild].worker)
    BY DEF Trusted
  <2> QED BY <1>1, <1>2, <2>1, <2>2, TrustedSound
<1>6. ASSUME NEW q \in Request
      PROVE  /\ Fits(g, q)'
             /\ q \in Executing' /\ calc'[q].gen = g => Sound(calc'[q].worker)
             /\ q \in Deploying => q \in Deploying'
  <2>1. pc'[q] = pc[q] /\ calc'[q] = calc[q] /\ made'[q] = made[q] /\ q \in Handler
    BY Handlers DEF AllStay
  <2>2. q \in Executing' <=> q \in Executing
    BY <1>4, <2>1 DEF Executing
  <2>3. Fits(g, q)'
    BY <1>1, <1>4, <2>1, <2>2 DEF Fits
  <2>4. ASSUME q \in Executing, calc[q].gen = g PROVE Sound(calc[q].worker)
    <3>1. pc[q] \in {"checking", "calculating", "recalculating"}
      BY <1>4, <2>1, <2>4 DEF Executing
    <3>2. calc[q].worker \in Worker
      BY <2>1, <3>1 DEF Basics, HandlerHolds, Entry
    <3>3. Trusted(g, calc[q].worker)
      BY <2>4 DEF Trusted
    <3> QED BY <1>1, <1>2, <3>2, <3>3, TrustedSound
  <2> QED BY <2>1, <2>2, <2>3, <2>4 DEF Deploying
<1>7. Request \in SUBSET Request /\ \A q \in Request \ Request : Kept(q)
  OBVIOUS
<1> QED BY <1>2, <1>3, <1>5, <1>6, <1>7, LifeGoesOn

\* What expires, what is swept, what dies, and what is waited for no longer
LEMMA LifeOfLoss ==
  ASSUME Basics, NEW g \in Nat, Life(g), ~excused',
         \/ \E h \in Handler : Timeout(h)
         \/ \E w \in Worker : Sweep(w) \/ Crash(w)
         \/ ExpireEntry \/ ExpireRecipe \/ \E k \in Generation : ExpireResult(k)
  PROVE  Life(g)'
<1> USE DEF storeVars, workerVars, handlerVars, historyVars
<1>1. ResultsBehind(g)
  BY LifeInParts
<1>2. CASE \E h \in Handler : Timeout(h)
  <2>1. PICK h \in Handler : Timeout(h)
    BY <1>2
  <2>2. /\ AllStay /\ answer'[h] = Failed /\ \A q \in Handler \ {h} : answer'[q] = Nothing
    BY <2>1, TimeoutKeeps
  <2>3. /\ UNCHANGED <<recipe, entry, results, loaded, current>> /\ Quiet
        /\ h \notin Deploying
        /\ queue' = [w \in Worker |->
             [i \in DOMAIN queue[w] |-> IF queue[w][i].by = h THEN [queue[w][i] EXCEPT !.by = Absent]
                                                              ELSE queue[w][i]]]
    BY <2>1 DEF Timeout, Deploying
  <2>4. CreatesFine
    <3>1. \A w \in Worker : \A i \in DOMAIN queue'[w] :
            /\ i \in DOMAIN queue[w]
            /\ queue'[w][i].op = queue[w][i].op /\ queue'[w][i].version = queue[w][i].version
            /\ queue[w][i].by # h => queue'[w][i].by = queue[w][i].by
      BY <2>3, GivenUp DEF Basics
    <3>2. \A w \in Worker : \A i \in DOMAIN queue'[w] :
            queue'[w][i].op = "create" => 
              /\ queue[w][i].op = "create" /\ queue[w][i].version = queue'[w][i].version
              /\ queue[w][i].by = queue'[w][i].by \/ queue[w][i].by \notin Deploying
      BY <2>3, <3>1
    <3> QED BY <3>1, <3>2 DEF CreatesFine
  <2> QED BY <1>1, <2>2, <2>3, <2>4, SameResults, LifeOfStay
<1>3. CASE \E w \in Worker : Sweep(w)
  <2>1. PICK w \in Worker : Sweep(w)
    BY <1>3
  <2>2. /\ AllStay /\ Quiet /\ UNCHANGED <<recipe, entry, results, queue, answer, current>>
        /\ \A v \in Worker : loaded'[v] \in {loaded[v], Absent}
    BY <2>1 DEF Sweep, AllStay, Basics, CalculatorTypes
  <2>3. CreatesFine /\ \A h \in Handler : answer'[h] = Nothing
    BY <2>2, QueueFine DEF Quiet
  <2> QED BY <1>1, <2>2, <2>3, SameResults, LifeOfStay
<1>4. CASE \E w \in Worker : Crash(w)
  <2>1. PICK w \in Worker : Crash(w)
    BY <1>4
  <2>2. /\ AllStay /\ \A h \in Handler : answer'[h] \in {Nothing, Failed}
        /\ DOMAIN queue'[w] = {} /\ \A v \in Worker \ {w} : queue'[v] = queue[v]
    BY <2>1, CrashKeeps
  <2>3. /\ Quiet /\ UNCHANGED <<recipe, entry, results, current>>
        /\ \A v \in Worker : loaded'[v] \in {loaded[v], Absent}
    BY <2>1 DEF Crash, Basics, CalculatorTypes
  <2>4. CreatesFine
    BY <2>2 DEF CreatesFine
  <2> QED BY <1>1, <2>2, <2>3, <2>4, SameResults, LifeOfStay
<1>5. CASE ExpireEntry
  <2>1. /\ AllStay /\ Quiet /\ UNCHANGED <<recipe, results, loaded, answer, current>> /\ Dispose
    BY <1>5 DEF ExpireEntry, AllStay
  <2>2. CreatesFine /\ entry' = Absent
    BY <2>1, DisposalFine DEF Basics
  <2>3. \A h \in Handler : answer'[h] = Nothing
    BY <2>1 DEF Quiet
  <2> QED BY <1>1, <2>1, <2>2, <2>3, SameResults, LifeOfStay
<1>6. CASE ExpireRecipe
  <2>1. /\ AllStay /\ Quiet /\ recipe' = Absent
        /\ UNCHANGED <<entry, results, loaded, queue, answer, current>>
    BY <1>6 DEF ExpireRecipe, AllStay
  <2>2. CreatesFine /\ \A h \in Handler : answer'[h] = Nothing
    BY <2>1, QueueFine DEF Quiet
  <2> QED BY <1>1, <2>1, <2>2, SameResults, LifeOfStay
<1>7. CASE \E k \in Generation : ExpireResult(k)
  <2>1. PICK k \in Generation : ExpireResult(k)
    BY <1>7
  <2>2. /\ AllStay /\ Quiet /\ results' = [results EXCEPT ![k] = Absent]
        /\ UNCHANGED <<recipe, entry, loaded, queue, answer, current>>
    BY <2>1 DEF ExpireResult, AllStay
  <2>3. CreatesFine /\ \A h \in Handler : answer'[h] = Nothing
    BY <2>2, QueueFine DEF Quiet
  <2>4. \A n \in Generation : results'[n] \in {results[n], Absent}
    BY <2>2 DEF Basics, CalculatorTypes
  <2>5. ResultsBehind(g)'
    BY <1>1, <2>2, <2>4 DEF ResultsBehind
  <2> QED BY <2>2, <2>3, <2>5, LifeOfStay
<1> QED BY <1>2, <1>3, <1>4, <1>5, <1>6, <1>7

\* A worker's engine is of the version that counts if anything relies on it,
\* and so is what it answers.
LEMMA LifeOfWork ==
  ASSUME Basics, NEW g \in Nat, Life(g), NEW w \in Worker, Work(w)
  PROVE  Life(g)'
<1>1. Shared(g) /\ ResultsBehind(g) /\ EnginesCurrent(g) /\ \A q \in Request : Fits(g, q)
  BY LifeInParts
<1>2. Quiet /\ UNCHANGED <<recipe, entry, results, current>>
  BY DEF Work, storeVars, historyVars
<1>3. NoDeploy
  BY <1>2, NoneDeployed
<1>4. /\ AllStay /\ 1 \in DOMAIN queue[w]
      /\ \A v \in Worker : \A i \in DOMAIN queue'[v] :
           \E j \in DOMAIN queue[v] : queue'[v][i] = queue[v][j]
  BY WorkKeeps
<1>5. PICK m \in Messages, a \in Answers :
        /\ m = queue[w][1] /\ Serves(w, m, a)
        /\ \A h \in Handler : answer'[h] = IF h = m.by THEN a ELSE Nothing
  BY WorkKeeps
<1>6. Expected(w, m) /\ m.by \in Handler \cup {Absent}
  BY <1>4, <1>5 DEF Basics, MessagesExpected, Messages
<1>7. CreatesFine
  BY <1>4 DEF CreatesFine
<1>8. Shared(g)' /\ ResultsBehind(g)'
  BY <1>1, <1>2, <1>4, SameResults DEF Shared, AllStay
<1>9. \A h \in Handler : answer[h].is # "ok" /\ answer[h] = Nothing
  BY <1>2 DEF Quiet, Nothing
<1>10. \A q \in Request : /\ q \in Handler /\ pc'[q] = pc[q] /\ calc'[q] = calc[q]
                          /\ made'[q] = made[q]
  BY <1>4, Handlers DEF AllStay
\* Who waits for a rebuild gets nothing from a worker.
<1>11. ASSUME NEW q \in Request, pc[q] \in Waits PROVE answer'[q] = Nothing
  <2> SUFFICES ASSUME q = m.by PROVE FALSE
    BY <1>5, <1>10
  <2>1. m.by # Absent
    BY <1>10, Handlers
  <2> QED BY <1>6, <1>11, <2>1 DEF Expected, Messages, Waits
<1>12. \A q \in Request : q \in Executing' => q \in Executing
  BY <1>10, <1>11 DEF Executing, Waits, Nothing
\* What is trusted was, and is sound.
<1>13. ASSUME NEW v \in Worker, Trusted(g, v)' PROVE Trusted(g, v)
  <2>1. CASE entry' # Absent /\ entry'.worker = v
    BY <1>2, <2>1 DEF Trusted
  <2>2. CASE \E q \in Executing' : calc'[q].gen = g /\ calc'[q].worker = v
    <3>1. PICK q \in Executing' : calc'[q].gen = g /\ calc'[q].worker = v
      BY <2>2
    <3>2. q \in Request
      BY <3>1 DEF Executing
    <3> QED BY <1>10, <1>12, <3>1, <3>2 DEF Trusted
  <2>3. CASE pc'[Rebuild] \in {"enriching", "limits"} /\ made'[Rebuild].worker = v
    BY <1>4, <2>3 DEF AllStay, Trusted
  <2> QED BY <1>13, <2>1, <2>2, <2>3 DEF Trusted
<1>14. \A v \in Worker : Trusted(g, v) => Sound(v)
  BY <1>1, <1>3, TrustedSound
<1>15. ASSUME NEW q \in Request PROVE Fits(g, q)'
  <2>1. CASE q \notin Executing'
    <3>1. pc[q] = "patching" => answer'[q].is # "ok"
      BY <1>11 DEF Waits, Nothing
    <3> QED BY <1>1, <1>10, <2>1, <3>1 DEF Fits
  <2>2. CASE q \in Executing'
    <3>1. q \in Executing
      BY <1>12, <2>2
    <3>2. calc[q].gen <= g /\ (calc[q].gen = g => calc[q].version = current)
      BY <1>1, <3>1 DEF Fits
    <3>3. ASSUME calc[q].gen = g, pc[q] \in {"calculating", "recalculating"},
                 answer'[q].is = "ok"
          PROVE  answer'[q].version = current
      <4>1. q = m.by /\ answer'[q] = a
        BY <1>5, <1>10, <3>3 DEF Nothing
      <4>2. q # Absent
        BY <1>10, Handlers
      <4>3. m.op = "calculate" /\ calc[q].worker = w
        BY <1>6, <3>3, <4>1, <4>2 DEF Expected, Messages
      <4>4. loaded[w] # Absent /\ a = Ok(loaded[w])
        BY <1>5, <3>3, <4>1, <4>3 DEF Serves, Failed, NotFound
      <4>5. Trusted(g, w)
        BY <3>1, <3>3, <4>3 DEF Trusted
      <4>6. loaded[w] = current
        BY <1>14, <4>4, <4>5 DEF Sound
      <4> QED BY <4>1, <4>4, <4>6 DEF Ok
    <3>4. pc[q] \in {"checking", "calculating", "recalculating"}
      BY <1>9, <1>10, <3>1 DEF Executing
    <3> QED BY <1>2, <1>10, <2>2, <3>2, <3>3, <3>4 DEF Fits
  <2> QED BY <2>1, <2>2
<1>16. ASSUME NEW v \in Worker, Trusted(g, v)'
       PROVE  /\ Sound(v)
              /\ \/ loaded'[v] \in {loaded[v], Absent, current}
                 \/ \E r \in Deploying' : answer'[r].is = "ok" /\ made'[r].worker = v
  <2>1. Sound(v)
    BY <1>13, <1>14, <1>16
  <2>2. CASE v # w \/ m.op # "create"
    <3>1. loaded'[v] \in {loaded[v], Absent}
      BY <1>5, <2>2 DEF Serves, Basics, CalculatorTypes
    <3> QED BY <2>1, <3>1
  <2>3. CASE v = w /\ m.op = "create" /\ loaded' = loaded
    BY <2>1, <2>3
  <2>4. CASE v = w /\ m.op = "create" /\ loaded' # loaded
    <3>1. loaded'[w] = m.version /\ a = Ok(m.version)
      BY <1>5, <2>4 DEF Serves, Basics, CalculatorTypes
    <3>2. m.version = current \/ m.by \in Deploying
      BY <1>4, <1>5, <2>1, <2>4 DEF Sound
    <3>3. CASE m.by \in Deploying
      <4>1. m.by \in Request
        BY <3>3 DEF Deploying
      <4>2. answer'[m.by].is = "ok"
        BY <1>5, <1>10, <3>1, <4>1 DEF Ok
      <4>3. made'[m.by].worker = w
        BY <1>6, <1>10, <2>4, <4>1, Handlers DEF Expected
      <4>4. m.by \in Deploying'
        BY <1>10, <3>3, <4>1 DEF Deploying
      <4> QED BY <2>1, <2>4, <4>2, <4>3, <4>4
    <3> QED BY <2>1, <2>4, <3>1, <3>2, <3>3
  <2> QED BY <2>2, <2>3, <2>4
<1>17. \A q \in Deploying : q \in Deploying' \/ Unawaited(q)
  BY <1>10 DEF Deploying
<1>18. EnginesCurrent(g)'
  BY <1>2, <1>7, <1>16, <1>17, EnginesKept
<1> QED BY <1>8, <1>15, <1>18, LifeInPartsNext

\* A life begins: no execution has its generation, no result is cached for it,
\* and only the entry, with a new engine, can be relied on.
LEMMA LifeBegins ==
  ASSUME NEW n \in Nat, Shared(n)', pc'[Rebuild] \notin {"enriching", "limits"},
         \A q \in Request :
           /\ pc'[q] = "saving" => made'[q].gen = n
           /\ pc'[q] \notin {"destroying", "patched"}
           /\ pc'[q] = "patching" => answer'[q].is # "ok"
           /\ q \in Executing' => calc'[q].gen <= n /\ calc'[q].gen # n,
         \A k \in Generation : k = n \/ k > n => results'[k] = Absent,
         \A w \in Worker : entry' # Absent /\ entry'.worker = w =>
           /\ loaded'[w] = current'
           /\ \A i \in DOMAIN queue'[w] : queue'[w][i].op # "create"
  PROVE  Life(n)'
<1>1. \A q \in Request : Fits(n, q)'
  BY DEF Fits
<1>2. ResultsBehind(n)'
  BY DEF ResultsBehind
<1>3. \A w \in Worker : Trusted(n, w)' => entry' # Absent /\ entry'.worker = w
  BY DEF Trusted, Executing
<1>4. EnginesCurrent(n)'
  BY <1>3 DEF EnginesCurrent
<1> QED BY <1>1, <1>2, <1>4, LifeInPartsNext

\* Executions hold an entry.
LEMMA ExecutingHolds ==
  ASSUME Basics, NEW q \in Executing
  PROVE  q \in Request /\ q \in Handler /\ calc[q] \in Entry /\ calc[q].gen \in Generation
<1>1. q \in Request /\ q \in Handler
  BY Handlers DEF Executing
<1>2. calc[q] \in Entry
  BY <1>1 DEF Executing, Basics, HandlerHolds
<1> QED BY <1>1, <1>2 DEF Entry

\* Nobody executes and nothing is cached.
LEMMA NoneExecutes ==
  ASSUME Basics, ~AnyResult, \A q \in Request : pc[q] \in Waits => answer[q].is # "ok"
  PROVE  /\ Executing = {} /\ \A k \in Generation : results[k] = Absent
         /\ pc[Rebuild] # "limits"
BY DEF AnyResult, Executing, Waits

\* A deploy begins the next life.
LEMMA LifeOfDeploy ==
  ASSUME Basics, Ordered, NEW g \in Nat, Life(g), NEW r \in Request, Created(r),
         ~excused', ~reborn'
  PROVE  \E n \in Generation : Life(n)'
<1>1. /\ Shared(g) /\ ResultsBehind(g) /\ r \in Handler /\ \A q \in Request : Fits(g, q)
  BY LifeInParts, Handlers
<1>2. /\ Acts(r) /\ pc'[r] = "idle" /\ answer'[r] = Nothing /\ made[r] \in Entry
  BY CreatedActs
<1>3. /\ pc[r] \in {"patched", "posted"} /\ answer[r].is = "ok" /\ answer[r] # Nothing
      /\ entry' = made[r] /\ recipe' = AsRecipe(made[r]) /\ current' = made[r].version
      /\ pc[r] = "posted" => ~AnyResult
      /\ UNCHANGED <<results, loaded, queue>>
  BY DEF Created, Answered, Save, workerVars
<1>4. Alone(r)
  BY <1>3, WriterAlone DEF WritingPlaces
<1>5. \A h \in Handler \ {r} : Kept(h)
  BY <1>2 DEF Acts
<1>6. \A q \in Request \ {r} : Kept(q) /\ pc[q] \notin WritingPlaces
  BY <1>4, <1>5, Handlers DEF Alone, WritingRequests, WritingPlaces
<1>7. pc'[Rebuild] = "idle"
  BY <1>4, <1>5, Handlers DEF Alone, Kept
<1>8. PICK n \in Generation : n = made[r].gen /\ n \in Nat
  BY <1>2, Handlers DEF Entry, Generation
<1>9. Shared(n)'
  BY <1>3, <1>7, <1>8 DEF Shared, AsRecipe
<1>10. /\ \A q \in Executing : calc[q].gen <= n /\ calc[q].gen # n
       /\ \A k \in Generation : k = n \/ k > n => results[k] = Absent
  <2>1. CASE pc[r] = "patched"
    <3>1. n = g + 1
      BY <1>1, <1>8, <2>1 DEF Fits
    <3>2. ASSUME NEW q \in Executing PROVE calc[q].gen <= n /\ calc[q].gen # n
      <4>1. q \in Request /\ calc[q].gen \in Nat
        BY ExecutingHolds, Handlers DEF Generation
      <4>2. calc[q].gen <= g
        BY <1>1, <4>1 DEF Fits
      <4> QED BY <3>1, <4>1, <4>2
    <3>3. ASSUME NEW k \in Generation, k = n \/ k > n PROVE results[k] = Absent
      <4>1. k > g
        BY <3>1, <3>3, Handlers DEF Generation
      <4> QED BY <1>1, <4>1 DEF ResultsBehind
    <3> QED BY <3>2, <3>3
  <2>2. CASE pc[r] = "posted"
    <3>1. \A q \in Request : pc[q] \in Waits => answer[q].is # "ok"
      <4>1. \A h \in Handler \ {r} : answer[h] = Nothing
        BY <1>1, <1>3 DEF Basics, LoneAnswer
      <4> QED BY <1>3, <4>1, Handlers DEF Waits, Nothing
    <3>2. Executing = {} /\ \A k \in Generation : results[k] = Absent
      BY <1>3, <2>2, <3>1, NoneExecutes
    <3> QED BY <3>2
  <2> QED BY <1>3, <2>1, <2>2
<1>11. ASSUME NEW q \in Request
       PROVE  /\ pc'[q] = "saving" => made'[q].gen = n
              /\ pc'[q] \notin {"destroying", "patched"}
              /\ pc'[q] = "patching" => answer'[q].is # "ok"
              /\ q \in Executing' => calc'[q].gen <= n /\ calc'[q].gen # n
  <2>1. CASE q = r
    BY <1>2, <2>1 DEF Executing, Nothing
  <2>2. CASE q # r
    <3>1. Kept(q) /\ pc[q] \notin WritingPlaces
      BY <1>6, <2>2
    <3>2. q \in Executing' => q \in Executing
      BY <3>1 DEF Executing, Kept
    <3> QED BY <1>10, <3>1, <3>2 DEF Kept, WritingPlaces
  <2> QED BY <2>1, <2>2
<1>12. ASSUME NEW w \in Worker, entry' # Absent /\ entry'.worker = w
       PROVE  /\ loaded'[w] = current'
              /\ \A i \in DOMAIN queue'[w] : queue'[w][i].op # "create"
  <2>1. w = made[r].worker
    BY <1>3, <1>12
  <2>2. loaded[made[r].worker] = made[r].version
    BY <1>1, <1>3 DEF Basics, EngineMade
  <2>3. \A i \in DOMAIN queue[made[r].worker] : queue[made[r].worker][i].op # "create"
    BY <1>1, <1>3 DEF Ordered, NoCreateBehind
  <2> QED BY <1>3, <2>1, <2>2, <2>3
<1>13. \A k \in Generation : k = n \/ k > n => results'[k] = Absent
  BY <1>3, <1>10
<1>14. Life(n)'
  BY <1>7, <1>8, <1>9, <1>11, <1>12, <1>13, LifeBegins
<1> QED BY <1>8, <1>14

\* So does what comes from the database, with generation 0.
LEMMA LifeOfRow ==
  ASSUME Basics, Ordered, LoadRow \/ \E r \in Request : ReadRow(r), ~excused', ~reborn'
  PROVE  Life(0)'
<1>1. /\ Quiet /\ ~AnyResult /\ UNCHANGED <<entry, results, loaded>>
  BY DEF LoadRow, ReadRow, storeVars, workerVars
<1>2. \A h \in Handler : answer[h] = Nothing
  BY <1>1 DEF Quiet
<1>3. /\ Executing = {} /\ \A k \in Generation : results[k] = Absent
  BY <1>1, <1>2, Handlers, NoneExecutes DEF Nothing
<1>4. \A k \in Generation : results'[k] = Absent
  BY <1>1, <1>3
<1>5. CASE LoadRow
  <2>1. /\ Acts(Rebuild) /\ pc'[Rebuild] = "creating" /\ made'[Rebuild].gen = 0
        /\ \/ recipe' = [gen |-> 0, version |-> current']
           \/ recipe' = recipe /\ recipe = Absent
    BY <1>5, LoadRowKeeps
  <2>2. pc[Rebuild] = "loading" /\ entry' = Absent
    BY <1>1, <1>5 DEF LoadRow, Ordered, StoreEmpty
  <2>3. Shared(0)'
    BY <2>1, <2>2 DEF Shared
  <2>4. ASSUME NEW q \in Request
        PROVE  /\ pc'[q] = "saving" => made'[q].gen = 0
               /\ pc'[q] \notin {"destroying", "patched"}
               /\ pc'[q] = "patching" => answer'[q].is # "ok"
               /\ q \notin Executing'
    <3>1. Kept(q) /\ q \in Handler
      BY <2>1, Handlers DEF Acts
    <3>2. q \in WritingRequests => pc[q] = "patching"
      BY <2>2 DEF Ordered, OneWriter
    <3>3. q \notin Executing'
      BY <1>3, <3>1 DEF Executing, Kept
    <3> QED BY <1>2, <3>1, <3>2, <3>3 DEF Kept, WritingRequests, Nothing
  <2> QED BY <1>4, <2>1, <2>2, <2>3, <2>4, LifeBegins
<1>6. CASE \E r \in Request : ReadRow(r)
  <2>1. PICK r \in Request : ReadRow(r)
    BY <1>6
  <2>2. Acts(r) /\ pc'[r] = "saving" /\ made'[r].gen = 0
    BY <2>1, ReadRowActs
  <2>3. Begin(r) /\ entry' = Absent /\ recipe' = Absent
    BY <2>1 DEF ReadRow, storeVars
  <2>4. Alone(r)
    BY <2>3, BeginAlone
  <2>5. \A h \in Handler \ {r} : Kept(h)
    BY <2>2 DEF Acts
  <2>6. pc'[Rebuild] = "idle"
    BY <2>4, <2>5, Handlers DEF Alone, Kept
  <2>7. Shared(0)'
    BY <2>3, <2>6 DEF Shared
  <2>8. ASSUME NEW q \in Request
        PROVE  /\ pc'[q] = "saving" => made'[q].gen = 0
               /\ pc'[q] \notin {"destroying", "patched"}
               /\ pc'[q] = "patching" => answer'[q].is # "ok"
               /\ q \notin Executing'
    <3>1. CASE q = r
      BY <2>2, <3>1 DEF Executing
    <3>2. CASE q # r
      <4>1. Kept(q) /\ q \notin WritingRequests
        BY <2>4, <2>5, <3>2, Handlers DEF Alone
      <4>2. q \notin Executing'
        BY <1>3, <4>1 DEF Executing, Kept
      <4> QED BY <4>1, <4>2 DEF Kept, WritingRequests
    <3> QED BY <3>1, <3>2
  <2> QED BY <1>4, <2>3, <2>6, <2>7, <2>8, LifeBegins
<1> QED BY <1>5, <1>6

\* And a deletion, with one that no entry ever has.
LEMMA LifeOfDeletion ==
  ASSUME Basics, Ordered, NEW r \in Request, Deleted(r), ~excused'
  PROVE  Life(MaxGeneration + 1)'
<1>1. /\ Acts(r) /\ pc'[r] = "idle" /\ answer'[r] = Nothing
  BY DeletedActs
<1>2. /\ Quiet /\ pc[r] = "deleting" /\ recipe' = Absent /\ UNCHANGED <<results, loaded>>
  BY DEF Deleted
<1>3. entry' = Absent
  <2>1. CASE calc[r] = Absent
    BY <1>2, <2>1 DEF Deleted, Ordered, StoreEmpty
  <2>2. CASE calc[r] # Absent
    BY <2>2 DEF Deleted, Dispose
  <2> QED BY <2>1, <2>2
<1>4. Alone(r)
  BY <1>2, WriterAlone DEF WritingPlaces
<1>5. \A h \in Handler \ {r} : Kept(h)
  BY <1>1 DEF Acts
<1>6. pc'[Rebuild] = "idle"
  BY <1>4, <1>5, Handlers DEF Alone, Kept
<1>7. PICK n \in Nat : n = MaxGeneration + 1
  BY Handlers
<1>8. Shared(n)'
  BY <1>2, <1>3, <1>6 DEF Shared
<1>9. ASSUME NEW q \in Request
      PROVE  /\ pc'[q] = "saving" => made'[q].gen = n
             /\ pc'[q] \notin {"destroying", "patched"}
             /\ pc'[q] = "patching" => answer'[q].is # "ok"
             /\ q \in Executing' => calc'[q].gen <= n /\ calc'[q].gen # n
  <2>1. CASE q = r
    BY <1>1, <2>1 DEF Executing, Nothing
  <2>2. CASE q # r
    <3>1. Kept(q) /\ q \notin WritingRequests
      BY <1>4, <1>5, <2>2, Handlers DEF Alone
    <3>2. q \in Executing' => q \in Executing
      BY <3>1 DEF Executing, Kept
    <3>3. q \in Executing => calc[q].gen <= n /\ calc[q].gen # n
      <4>1. q \in Executing => calc[q].gen \in 0..MaxGeneration
        BY ExecutingHolds DEF Generation
      <4> QED BY <1>7, <4>1, Handlers
    <3> QED BY <3>1, <3>2, <3>3 DEF Kept, WritingRequests
  <2> QED BY <2>1, <2>2
<1>10. \A k \in Generation : k = n \/ k > n => results'[k] = Absent
  BY <1>7, Handlers DEF Generation
<1>11. Life(n)'
  BY <1>3, <1>6, <1>8, <1>9, <1>10, LifeBegins
<1>12. n = MaxGeneration + 1 /\ Life(n)'
  BY <1>7, <1>11
<1> QED BY <1>12

\* Generations that started over have done so.
LEMMA RebornStays ==
  ASSUME CalculatorTypes, CalculatorNext, ~reborn'
  PROVE  ~reborn
<1> USE DEF CalculatorTypes, historyVars
<1>1. ASSUME NEW r \in Request, Arrive(r) PROVE ~reborn
  BY <1>1 DEF Arrive, Execute, Patch, Post, Delete, ReadRecipe, ReadRow
<1>2. ASSUME NEW r \in Request, Proceed(r) PROVE ~reborn
  BY <1>2 DEF Proceed, Found, Hit, Miss, Calculate, Calculated, Lost, Recalculate, GiveUp,
              PatchFound, Destroyed, Created, NotCreated, Deleted, SaveRecipe
<1>3. CASE ProceedRebuild
  BY <1>3 DEF ProceedRebuild, LoadRecipe, LoadRow, LoadNothing, RebuildCreated, Enriched,
              LimitsLoaded
<1>4. CASE \/ \E h \in Handler : Timeout(h)
           \/ \E w \in Worker : Work(w) \/ Sweep(w) \/ Crash(w)
           \/ ExpireEntry \/ ExpireRecipe \/ \E g \in Generation : ExpireResult(g)
  BY <1>4 DEF Timeout, Work, Sweep, Crash, ExpireEntry, ExpireRecipe, ExpireResult
<1> QED BY <1>1, <1>2, <1>3, <1>4 DEF CalculatorNext

\* Every step leaves a life, this one or the next.
LEMMA LifeStep ==
  ASSUME Basics, Ordered, Lives, CalculatorNext, ~excused', ~reborn'
  PROVE  Lives'
<1>1. PICK g \in 0..(MaxGeneration + 1) : Life(g)
  BY DEF Lives
<1>2. g \in Nat
  OBVIOUS
<1>3. Life(g)' => Lives'
  BY DEF Lives
<1>4. (\E n \in Generation : Life(n)') => Lives'
  <2>1. Generation \subseteq 0..(MaxGeneration + 1)
    BY Handlers DEF Generation
  <2> QED BY <2>1 DEF Lives
<1>5. ASSUME NEW r \in Request, Arrive(r) PROVE Lives'
  <2>1. CASE Execute(r)
    BY <1>1, <1>2, <1>3, <2>1, LifeOfExecution, LifeOfWaiting
  <2>2. CASE Patch(r)
    BY <1>1, <1>2, <1>3, <2>2, LifeOfPatch, LifeOfWaiting
  <2>3. CASE Post(r) \/ Delete(r) \/ ReadRecipe(r)
    BY <1>1, <1>2, <1>3, <2>3, LifeOfWriter
  <2>4. CASE ReadRow(r)
    <3>1. Life(0)' /\ 0 \in Generation
      BY <2>4, LifeOfRow, Handlers DEF Generation
    <3> QED BY <1>4, <3>1
  <2> QED BY <1>5, <2>1, <2>2, <2>3, <2>4 DEF Arrive
<1>6. ASSUME NEW r \in Request, Proceed(r) PROVE Lives'
  <2>1. CASE Found(r) \/ Hit(r) \/ Miss(r) \/ Calculated(r) \/ Recalculate(r) \/ GiveUp(r)
    <3>1. ~Execute(r)
      BY <2>1, Handlers DEF Execute, Quiet, Found, Hit, Miss, Calculated, Recalculate, GiveUp, Answered
    <3> QED BY <1>1, <1>2, <1>3, <2>1, <3>1, LifeOfExecution
  <2>2. CASE Lost(r)
    BY <1>1, <1>2, <1>3, <2>2, LifeOfWaiting
  <2>3. CASE PatchFound(r)
    BY <1>1, <1>2, <1>3, <2>3, LifeOfPatch
  <2>4. CASE Destroyed(r) \/ NotCreated(r)
    BY <1>1, <1>2, <1>3, <2>4, LifeOfWriter
  <2>5. CASE Created(r)
    BY <1>1, <1>2, <1>4, <2>5, LifeOfDeploy
  <2>6. CASE Deleted(r)
    <3>1. PICK n \in 0..(MaxGeneration + 1) : n = MaxGeneration + 1
      BY Handlers
    <3>2. Life(MaxGeneration + 1)'
      BY <2>6, LifeOfDeletion
    <3>3. Life(n)'
      BY <3>1, <3>2
    <3> QED BY <3>3 DEF Lives
  <2>7. CASE SaveRecipe(r)
    BY <1>1, <1>2, <1>3, <2>7, LifeOfSave
  <2> QED BY <1>6, <2>1, <2>2, <2>3, <2>4, <2>5, <2>6, <2>7 DEF Proceed
<1>7. CASE ProceedRebuild
  <2>1. CASE LoadRow
    <3>1. Life(0)' /\ 0 \in Generation
      BY <2>1, LifeOfRow, Handlers DEF Generation
    <3> QED BY <1>4, <3>1
  <2>2. CASE ~LoadRow
    BY <1>1, <1>2, <1>3, <1>7, <2>2, LifeOfRebuild DEF ProceedRebuild
  <2> QED BY <2>1, <2>2
<1>8. CASE \E w \in Worker : Work(w)
  BY <1>1, <1>2, <1>3, <1>8, LifeOfWork
<1>9. CASE \/ \E h \in Handler : Timeout(h)
           \/ \E w \in Worker : Sweep(w) \/ Crash(w)
           \/ ExpireEntry \/ ExpireRecipe \/ \E k \in Generation : ExpireResult(k)
  BY <1>1, <1>2, <1>3, <1>9, LifeOfLoss
<1> QED BY <1>5, <1>6, <1>7, <1>8, <1>9 DEF CalculatorNext

-----------------------------------------------------------------------------
(* The theorems *)

\* Nothing is there at first.
LEMMA CalculatorInvInit == CalculatorInit => CalculatorInv
<1> SUFFICES ASSUME CalculatorInit PROVE CalculatorInv
  OBVIOUS
<1> USE DEF CalculatorInit
<1>1. Nothing \in Answers /\ Nothing.is = "nothing" /\ "idle" \in RequestPlaces /\ "idle" \in RebuildPlaces
  BY DEF Nothing, Answers, RequestPlaces, RebuildPlaces
<1>2. CalculatorTypes
  <2>1. <<>> \in Seq(Messages)
    OBVIOUS
  <2> QED BY <1>1, <2>1 DEF CalculatorTypes
<1>3. \A h \in Handler : pc[h] = "idle" /\ answer[h] = Nothing
  OBVIOUS
<1>4. \A w \in Worker : DOMAIN queue[w] = {}
  OBVIOUS
<1>5. \A h \in Handler : HandlerHolds(h)
  BY <1>1, <1>3 DEF HandlerHolds
<1>6. MessagesExpected /\ OneMessage /\ CreatesName
  BY <1>4 DEF MessagesExpected, OneMessage, CreatesName
<1>7. LoneAnswer /\ WaitersServed /\ EngineMade
  BY <1>1, <1>3, Handlers DEF LoneAnswer, WaitersServed, EngineMade, Waiting
<1>8. pc[Rebuild] = "idle" /\ \A r \in Request : pc[r] = "idle"
  BY Handlers
<1>9. Ordered
  BY <1>3, <1>4, <1>8 DEF Ordered, OneWriter, WritingRequests, StoreEmpty, LastCreate, NoCreateBehind,
                     VersionsCurrent
<1>10. Life(0)
  BY <1>8 DEF Life, GenerationsAgree, ExecutionsBehind, Executing, ResultsBehind, EnginesCurrent,
              Trusted
<1>11. Lives
  <2>1. 0 \in 0..(MaxGeneration + 1)
    BY Handlers
  <2> QED BY <1>10, <2>1 DEF Lives
<1> QED BY <1>2, <1>5, <1>6, <1>7, <1>9, <1>11 DEF CalculatorInv

\* Steps and stutters keep the invariant.
LEMMA CalculatorInvStep ==
  CalculatorInv /\ [CalculatorNext]_calculatorVars => CalculatorInv'
<1>1. ASSUME CalculatorInv, CalculatorNext PROVE CalculatorInv'
  <2>1. Basics /\ (~excused => Ordered) /\ (~excused /\ ~reborn => Lives)
    BY <1>1 DEF CalculatorInv, Basics
  <2>2. Basics'
    BY <1>1, <2>1, BasicsStep
  <2>3. ~excused' => Ordered'
    BY <1>1, <2>1, OrderedStep
  <2>4. ASSUME ~excused', ~reborn' PROVE Lives'
    <3>1. CalculatorTypes
      BY <2>1 DEF Basics
    <3>2. ~excused /\ ~reborn
      BY <1>1, <2>4, <3>1, ExcusedStays, RebornStays
    <3> QED BY <1>1, <2>1, <2>4, <3>2, LifeStep
  <2> QED BY <2>2, <2>3, <2>4 DEF CalculatorInv, Basics
<1>2. ASSUME CalculatorInv, UNCHANGED calculatorVars PROVE CalculatorInv'
  <2>1. UNCHANGED <<recipe, entry, results, loaded, queue, pc, calc, made, answer, current, excused,
                    reborn>>
    BY <1>2 DEF calculatorVars, storeVars, workerVars, handlerVars, historyVars
  <2>2. Basics /\ (~excused => Ordered) /\ (~excused /\ ~reborn => Lives)
    BY <1>2 DEF CalculatorInv, Basics
  <2>3. Basics'
    <3>1. CalculatorTypes' /\ \A h \in Handler : HandlerHolds(h)'
      BY <2>1, <2>2 DEF Basics, CalculatorTypes, HandlerHolds
    <3>2. MessagesExpected' /\ OneMessage' /\ CreatesName'
      BY <2>1, <2>2 DEF Basics, MessagesExpected, Expected, OneMessage, CreatesName
    <3>3. LoneAnswer' /\ WaitersServed' /\ EngineMade'
      BY <2>1, <2>2 DEF Basics, LoneAnswer, WaitersServed, EngineMade, Waiting
    <3> QED BY <3>1, <3>2, <3>3 DEF Basics
  <2>4. Ordered => Ordered'
    BY <2>1 DEF Ordered, OneWriter, WritingRequests, StoreEmpty, LastCreate, NoCreateBehind,
                VersionsCurrent
  <2>5. ASSUME NEW g, Life(g) PROVE Life(g)'
    BY <2>1, <2>5 DEF Life, GenerationsAgree, ExecutionsBehind, Executing, ResultsBehind,
                      EnginesCurrent, Trusted, Deploying
  <2>6. Lives => Lives'
    BY <2>5 DEF Lives
  <2> QED BY <2>1, <2>2, <2>3, <2>4, <2>6 DEF CalculatorInv, Basics
<1> QED BY <1>1, <1>2

\* The invariant of the calculator store: handlers, messages and engines fit
\* together whatever happens; writers take turns until they overlap, a deploy
\* times out or Redis fails; and there is one life of the generations until
\* they start over.
THEOREM CalculatorInvAlways == CalculatorSpec => []CalculatorInv
<1>1. CalculatorInit => CalculatorInv
  BY CalculatorInvInit
<1>2. CalculatorInv /\ [CalculatorNext]_calculatorVars => CalculatorInv'
  BY CalculatorInvStep
<1> QED BY <1>1, <1>2, PTL DEF CalculatorSpec

\* After POST, PATCH and DELETE /calculator, what the store and Redis hold is
\* what was deployed last, whatever rebuilds, recalculations and refreshes ran.
THEOREM LastDeployHoldsAlways == CalculatorSpec => []LastDeployHolds
<1>1. CalculatorInv => LastDeployHolds
  BY DEF CalculatorInv, Ordered, VersionsCurrent, LastDeployHolds
<1> QED BY <1>1, CalculatorInvAlways, PTL

\* POST /execute/calculator serves a cached result only of the version that it
\* is served for, and the entry's worker has no other version's engine.
THEOREM ResultsAreCurrentAlways == CalculatorSpec => []ResultsAreCurrent
<1>1. ASSUME CalculatorInv PROVE ResultsAreCurrent
  <2> SUFFICES ASSUME Quiet, ~excused, ~reborn, entry # Absent
               PROVE  /\ results[entry.gen] \in {Absent, entry.version}
                      /\ loaded[entry.worker] \in {Absent, entry.version}
    BY DEF ResultsAreCurrent
  <2>1. Basics /\ Ordered /\ Lives
    BY <1>1 DEF CalculatorInv, Basics
  <2>2. PICK g \in 0..(MaxGeneration + 1) : Life(g)
    BY <2>1 DEF Lives
  <2>3. Shared(g) /\ ResultsBehind(g) /\ EnginesCurrent(g)
    BY <2>2, LifeInParts
  <2>4. entry \in Entry /\ entry.gen = g /\ entry.version = current
    BY <2>1, <2>3 DEF Basics, CalculatorTypes, Shared, Ordered, VersionsCurrent
  <2>5. g \in Generation /\ entry.worker \in Worker
    BY <2>4 DEF Entry
  <2>6. results[g] \in {Absent, current}
    BY <2>3, <2>5 DEF ResultsBehind
  <2>7. Sound(entry.worker)
    <3>1. Trusted(g, entry.worker)
      BY DEF Trusted
    <3> QED BY <2>1, <2>3, <2>5, <3>1, NoneDeployed, TrustedSound
  <2> QED BY <2>4, <2>6, <2>7 DEF Sound
<1> QED BY <1>1, CalculatorInvAlways, PTL
=============================================================================
