----------------------------- MODULE FlowProofs -----------------------------
(***************************************************************************)
(* What the flow engine guarantees: FlowWorker for any executions, any     *)
(* number of workers, batches of any size and any number of stops, and     *)
(* after it FlowExecutor for flows of any size with any back-edges, any    *)
(* budgets and any number of iterations.                                   *)
(***************************************************************************)
EXTENDS FlowWorker, FlowExecutor, FiniteSetTheorems, SequenceTheorems, WellFoundedInduction, TLAPS

-----------------------------------------------------------------------------
(* The inductive invariant *)

\* The parts beside the properties: a lane only holds what was delivered; before
\* an acknowledgement there is a row or an excuse; active_executions is the
\* number of lanes inside execute_flow, plus one when SIGTERM cancelled a run.
InFlight(l) == IF Executing(l) THEN 1 ELSE 0
HandsDelivered == \A l \in Lane : Hand(l) \subseteq pel \cup settled
Justified(l) ==
  (place[l] \in {"saved", "error", "acking"} \/ (place[l] = "unsaved" /\ l[2] = "claim"))
    => run[l] \in rows \cup excused
AcksJustified == \A l \in Lane : Justified(l)
CounterCovers(w) ==
  /\ mood[w] = "up" => active[w] = InFlight(Main(w)) + InFlight(Recovery(w))
  /\ mood[w] = "stopping" =>
       /\ Resting(Main(w))
       /\ active[w] \in {InFlight(Recovery(w)), InFlight(Recovery(w)) + 1}
  /\ mood[w] = "down" => active[w] = 0 /\ Resting(Main(w)) /\ Resting(Recovery(w))
CountersCover == \A w \in Worker : CounterCovers(w)

FlowInv ==
  TypeOK /\ ReadOnce /\ SettledHasRow /\ HandsDelivered /\ AcksJustified /\ CountersCover

-----------------------------------------------------------------------------
(* Lanes *)

\* The lanes of a worker are two, and no other worker has them.
LEMMA LaneFacts ==
  /\ \A w \in Worker : Main(w) \in Lane /\ Recovery(w) \in Lane /\ Main(w) # Recovery(w)
  /\ \A w \in Worker : Main(w)[1] = w /\ Recovery(w)[1] = w
                        /\ Main(w)[2] = "main" /\ Recovery(w)[2] = "claim"
  /\ \A l \in Lane : l[1] \in Worker /\ (l = Main(l[1]) \/ l = Recovery(l[1]))
  /\ \A v, w \in Worker : v # w => Main(v) # Main(w) /\ Recovery(v) # Recovery(w)
                           /\ Main(v) # Recovery(w)
BY DEF Lane, Main, Recovery

\* What an initial state has.
LEMMA InitInv == Init => FlowInv
BY LaneFacts, FlowConstants DEF Init, FlowInv, TypeOK, ReadOnce, SettledHasRow,
   HandsDelivered, AcksJustified, Justified, CountersCover, CounterCovers, Hand,
   InFlight, Executing, Resting

-----------------------------------------------------------------------------
(* Steps *)

\* A step keeps the ranges; that a counter stays in 0..2 needs CountersCover.
LEMMA TypePreserved == FlowInv /\ [Next]_vars => TypeOK'
<1> SUFFICES ASSUME FlowInv, [Next]_vars PROVE TypeOK'
  OBVIOUS
<1> USE LaneFacts, FlowConstants DEF FlowInv, TypeOK, CountersCover, CounterCovers,
        InFlight, Executing, Resting, streamVars, workerVars, laneVars
<1>1. ASSUME NEW e \in Exec, Enqueue(e) PROVE TypeOK'
  BY <1>1 DEF Enqueue
<1>2. ASSUME NEW w \in Worker, Read(w) PROVE TypeOK'
  BY <1>2 DEF Read, Resting, Unread, Batches
<1>3. ASSUME NEW w \in Worker, Claim(w) PROVE TypeOK'
  BY <1>3 DEF Claim, Resting, Batches
<1>4. ASSUME NEW l \in Lane, Begin(l) PROVE TypeOK'
  BY <1>4 DEF Begin, GoTo, Counted
<1>5. ASSUME NEW l \in Lane, RunFails(l) PROVE TypeOK'
  BY <1>5 DEF RunFails, GoTo
<1>6. ASSUME NEW l \in Lane, Persist(l) PROVE TypeOK'
  BY <1>6 DEF Persist, GoTo
<1>7. ASSUME NEW l \in Lane, PersistFails(l) PROVE TypeOK'
  BY <1>7 DEF PersistFails, GoTo
<1>8. ASSUME NEW l \in Lane, PersistFailure(l) PROVE TypeOK'
  BY <1>8 DEF PersistFailure, GoTo
<1>9. ASSUME NEW l \in Lane, Return(l) PROVE TypeOK'
  BY <1>9 DEF Return, GoTo, MayAck, Counted
<1>10. ASSUME NEW l \in Lane, Ack(l) PROVE TypeOK'
  BY <1>10 DEF Ack, GoTo, HandsDelivered, Hand
<1>11. ASSUME NEW l \in Lane, AckFails(l) PROVE TypeOK'
  BY <1>11 DEF AckFails, GoTo
<1>12. ASSUME NEW w \in Worker, Sigterm(w) PROVE TypeOK'
  BY <1>12 DEF Sigterm, Abandon
<1>13. ASSUME NEW w \in Worker, ExitIdle(w) \/ ExitLate(w) PROVE TypeOK'
  BY <1>13 DEF ExitIdle, ExitLate, Down, Abandon, LanesOf
<1>14. ASSUME NEW w \in Worker, Crash(w) PROVE TypeOK'
  BY <1>14 DEF Crash, Down, Abandon, LanesOf
<1>15. ASSUME NEW w \in Worker, Start(w) PROVE TypeOK'
  BY <1>15 DEF Start
<1>16. CASE UNCHANGED vars
  BY <1>16 DEF vars
<1> QED
  BY <1>1, <1>2, <1>3, <1>4, <1>5, <1>6, <1>7, <1>8, <1>9, <1>10, <1>11, <1>12,
     <1>13, <1>14, <1>15, <1>16 DEF Next, LaneStep, WorkerStep

\* What lanes hold stays delivered, and is read once, when no hand grows and
\* nothing delivered returns to the unread entries.
HandsShrink ==
  /\ \A l \in Lane : Hand(l)' \subseteq Hand(l)
  /\ pel \cup settled \subseteq (pel \cup settled)'
  /\ queued' \cap (pel \cup settled) = {}

\* Who reads nothing new still works on what it has read, alone.
LEMMA ShrinkingHands ==
  ReadOnce /\ HandsDelivered /\ HandsShrink => ReadOnce' /\ HandsDelivered'
<1> SUFFICES ASSUME ReadOnce, HandsDelivered, HandsShrink PROVE ReadOnce' /\ HandsDelivered'
  OBVIOUS
<1>1. HandsDelivered'
  BY DEF HandsDelivered, HandsShrink
<1>2. \A l \in Lane : Hand(l)' \cap queued' = {}
  BY DEF HandsDelivered, HandsShrink
<1>3. ASSUME NEW v \in Worker, NEW w \in Worker, v # w
      PROVE Hand(Main(v))' \cap Hand(Main(w))' = {}
  <2>1. Hand(Main(v)) \cap Hand(Main(w)) = {}
    BY <1>3 DEF ReadOnce
  <2> QED
    BY <2>1, LaneFacts DEF HandsShrink
<1> QED
  BY <1>1, <1>2, <1>3 DEF ReadOnce

\* A step hands out only what no other main loop holds.
LEMMA HandsPreserved == FlowInv /\ [Next]_vars => ReadOnce' /\ HandsDelivered'
<1> SUFFICES ASSUME FlowInv, [Next]_vars PROVE ReadOnce' /\ HandsDelivered'
  OBVIOUS
<1> USE LaneFacts, FlowConstants DEF FlowInv
<1>1. ASSUME NEW w \in Worker, Read(w) PROVE ReadOnce' /\ HandsDelivered'
  <2>1. PICK some \in Batches(queued) :
          /\ queued' = queued \ some
          /\ pel' = pel \cup some
          /\ todo' = [todo EXCEPT ![Main(w)] = some]
    BY <1>1 DEF Read, Unread
  <2>2. settled' = settled /\ run' = run /\ Hand(Main(w)) = {} /\ some \subseteq queued
    BY <1>1 DEF Read, Resting, Batches, TypeOK, Hand
  <2>3. Hand(Main(w))' = some
    BY <2>1, <2>2 DEF TypeOK, Hand
  <2>4. \A l \in Lane \ {Main(w)} : Hand(l)' = Hand(l)
    BY <2>1, <2>2 DEF TypeOK, Hand
  <2>5. HandsDelivered'
    BY <2>1, <2>2, <2>3, <2>4 DEF HandsDelivered
  <2>6. \A l \in Lane : Hand(l)' \cap queued' = {}
    BY <2>1, <2>2, <2>3, <2>4 DEF ReadOnce
  <2>7. ASSUME NEW u \in Worker, NEW v \in Worker, u # v
        PROVE Hand(Main(u))' \cap Hand(Main(v))' = {}
    BY <2>2, <2>3, <2>4, <2>7 DEF ReadOnce
  <2> QED
    BY <2>5, <2>6, <2>7 DEF ReadOnce
<1>2. ASSUME NEW w \in Worker, Claim(w) PROVE ReadOnce' /\ HandsDelivered'
  <2>1. PICK some \in Batches(pel) : todo' = [todo EXCEPT ![Recovery(w)] = some]
    BY <1>2 DEF Claim
  <2>2. UNCHANGED <<queued, pel, settled, run>> /\ some \subseteq pel /\ run[Recovery(w)] = None
    BY <1>2 DEF Claim, Resting, Batches, streamVars, TypeOK
  <2>3. Hand(Recovery(w))' = some
    BY <2>1, <2>2 DEF TypeOK, Hand
  <2>4. \A l \in Lane \ {Recovery(w)} : Hand(l)' = Hand(l)
    BY <2>1, <2>2 DEF TypeOK, Hand
  <2>5. \A l \in Lane : Hand(l)' \subseteq pel \cup settled
    BY <2>2, <2>3, <2>4 DEF HandsDelivered
  <2>6. queued \cap (pel \cup settled) = {}
    BY DEF TypeOK
  <2>7. \A u \in Worker : Hand(Main(u))' = Hand(Main(u))
    BY <2>4
  <2> QED
    BY <2>2, <2>5, <2>6, <2>7 DEF ReadOnce, HandsDelivered
<1>3. ASSUME NEW e \in Exec, Enqueue(e) PROVE HandsShrink
  BY <1>3 DEF Enqueue, laneVars, TypeOK, HandsShrink, Hand
<1>4. ASSUME NEW l \in Lane, Begin(l) PROVE HandsShrink
  BY <1>4 DEF Begin, GoTo, streamVars, laneVars, TypeOK, HandsShrink, Hand
<1>5. ASSUME NEW l \in Lane, RunFails(l) PROVE HandsShrink
  BY <1>5 DEF RunFails, streamVars, laneVars, TypeOK, HandsShrink, Hand
<1>6. ASSUME NEW l \in Lane, Persist(l) PROVE HandsShrink
  BY <1>6 DEF Persist, streamVars, laneVars, TypeOK, HandsShrink, Hand
<1>7. ASSUME NEW l \in Lane, PersistFails(l) PROVE HandsShrink
  BY <1>7 DEF PersistFails, streamVars, laneVars, TypeOK, HandsShrink, Hand
<1>8. ASSUME NEW l \in Lane, PersistFailure(l) PROVE HandsShrink
  BY <1>8 DEF PersistFailure, streamVars, laneVars, TypeOK, HandsShrink, Hand
<1>9. ASSUME NEW l \in Lane, Return(l) PROVE HandsShrink
  BY <1>9 DEF Return, streamVars, laneVars, TypeOK, HandsShrink, Hand
<1>10. ASSUME NEW l \in Lane, Ack(l) PROVE HandsShrink
  BY <1>10 DEF Ack, streamVars, laneVars, TypeOK, HandsShrink, Hand
<1>11. ASSUME NEW l \in Lane, AckFails(l) PROVE HandsShrink
  BY <1>11 DEF AckFails, streamVars, laneVars, TypeOK, HandsShrink, Hand
<1>12. ASSUME NEW w \in Worker, Sigterm(w) PROVE HandsShrink
  BY <1>12 DEF Sigterm, Abandon, streamVars, laneVars, TypeOK, HandsShrink, Hand
<1>13. ASSUME NEW w \in Worker, Down(w) PROVE HandsShrink
  BY <1>13 DEF Down, Abandon, LanesOf, streamVars, laneVars, TypeOK, HandsShrink,
     Hand
<1>14. ASSUME NEW w \in Worker, Start(w) PROVE HandsShrink
  BY <1>14 DEF Start, streamVars, laneVars, TypeOK, HandsShrink, Hand
<1>15. ASSUME UNCHANGED vars PROVE HandsShrink
  BY <1>15 DEF vars, streamVars, laneVars, TypeOK, HandsShrink, Hand
<1> QED
  BY ShrinkingHands, <1>1, <1>2, <1>3, <1>4, <1>5, <1>6, <1>7, <1>8, <1>9, <1>10,
     <1>11, <1>12, <1>13, <1>14, <1>15
     DEF Next, LaneStep, WorkerStep, ExitIdle, ExitLate, Crash

\* A step settles only what has a row or an excuse.
LEMMA AcksPreserved == FlowInv /\ [Next]_vars => SettledHasRow' /\ AcksJustified'
<1> SUFFICES ASSUME FlowInv, [Next]_vars PROVE SettledHasRow' /\ AcksJustified'
  OBVIOUS
<1> USE LaneFacts, FlowConstants DEF FlowInv, TypeOK, SettledHasRow, AcksJustified,
        Justified, streamVars, workerVars, laneVars
<1>1. ASSUME NEW e \in Exec, Enqueue(e) PROVE SettledHasRow' /\ AcksJustified'
  BY <1>1 DEF Enqueue
<1>2. ASSUME NEW w \in Worker, Read(w) PROVE SettledHasRow' /\ AcksJustified'
  BY <1>2 DEF Read, Resting, Unread, Batches
<1>3. ASSUME NEW w \in Worker, Claim(w) PROVE SettledHasRow' /\ AcksJustified'
  BY <1>3 DEF Claim, Resting, Batches
<1>4. ASSUME NEW l \in Lane, Begin(l) PROVE SettledHasRow' /\ AcksJustified'
  BY <1>4 DEF Begin, GoTo, Counted
<1>5. ASSUME NEW l \in Lane, RunFails(l) PROVE SettledHasRow' /\ AcksJustified'
  BY <1>5 DEF RunFails, GoTo
<1>6. ASSUME NEW l \in Lane, Persist(l) PROVE SettledHasRow' /\ AcksJustified'
  BY <1>6 DEF Persist, GoTo
<1>7. ASSUME NEW l \in Lane, PersistFails(l) PROVE SettledHasRow' /\ AcksJustified'
  BY <1>7 DEF PersistFails, GoTo
<1>8. ASSUME NEW l \in Lane, PersistFailure(l) PROVE SettledHasRow' /\ AcksJustified'
  BY <1>8 DEF PersistFailure, GoTo
<1>9. ASSUME NEW l \in Lane, Return(l) PROVE SettledHasRow' /\ AcksJustified'
  BY <1>9 DEF Return, GoTo, MayAck, Counted
<1>10. ASSUME NEW l \in Lane, Ack(l) PROVE SettledHasRow' /\ AcksJustified'
  BY <1>10 DEF Ack, GoTo
<1>11. ASSUME NEW l \in Lane, AckFails(l) PROVE SettledHasRow' /\ AcksJustified'
  BY <1>11 DEF AckFails, GoTo
<1>12. ASSUME NEW w \in Worker, Sigterm(w) PROVE SettledHasRow' /\ AcksJustified'
  BY <1>12 DEF Sigterm, Abandon
<1>13. ASSUME NEW w \in Worker, ExitIdle(w) \/ ExitLate(w) PROVE SettledHasRow' /\ AcksJustified'
  BY <1>13 DEF ExitIdle, ExitLate, Down, Abandon, LanesOf
<1>14. ASSUME NEW w \in Worker, Crash(w) PROVE SettledHasRow' /\ AcksJustified'
  BY <1>14 DEF Crash, Down, Abandon, LanesOf
<1>15. ASSUME NEW w \in Worker, Start(w) PROVE SettledHasRow' /\ AcksJustified'
  BY <1>15 DEF Start
<1>16. CASE UNCHANGED vars
  BY <1>16 DEF vars
<1> QED
  BY <1>1, <1>2, <1>3, <1>4, <1>5, <1>6, <1>7, <1>8, <1>9, <1>10, <1>11, <1>12,
     <1>13, <1>14, <1>15, <1>16 DEF Next, LaneStep, WorkerStep

\* A step keeps active_executions in line with the lanes.
LEMMA CountersPreserved == FlowInv /\ [Next]_vars => CountersCover'
<1> SUFFICES ASSUME FlowInv, [Next]_vars PROVE CountersCover'
  OBVIOUS
<1> USE LaneFacts, FlowConstants DEF FlowInv, TypeOK, CountersCover, CounterCovers,
        InFlight, Executing, Resting, streamVars, workerVars, laneVars
<1>1. ASSUME NEW e \in Exec, Enqueue(e) PROVE CountersCover'
  BY <1>1 DEF Enqueue
<1>2. ASSUME NEW w \in Worker, Read(w) PROVE CountersCover'
  BY <1>2 DEF Read, Resting, Unread, Batches
<1>3. ASSUME NEW w \in Worker, Claim(w) PROVE CountersCover'
  BY <1>3 DEF Claim, Resting, Batches
<1>4. ASSUME NEW l \in Lane, Begin(l) PROVE CountersCover'
  BY <1>4 DEF Begin, GoTo, Counted
<1>5. ASSUME NEW l \in Lane, RunFails(l) PROVE CountersCover'
  BY <1>5 DEF RunFails, GoTo
<1>6. ASSUME NEW l \in Lane, Persist(l) PROVE CountersCover'
  BY <1>6 DEF Persist, GoTo
<1>7. ASSUME NEW l \in Lane, PersistFails(l) PROVE CountersCover'
  BY <1>7 DEF PersistFails, GoTo
<1>8. ASSUME NEW l \in Lane, PersistFailure(l) PROVE CountersCover'
  BY <1>8 DEF PersistFailure, GoTo
<1>9. ASSUME NEW l \in Lane, Return(l) PROVE CountersCover'
  BY <1>9 DEF Return, GoTo, MayAck, Counted
<1>10. ASSUME NEW l \in Lane, Ack(l) PROVE CountersCover'
  BY <1>10 DEF Ack, GoTo
<1>11. ASSUME NEW l \in Lane, AckFails(l) PROVE CountersCover'
  BY <1>11 DEF AckFails, GoTo
<1>12. ASSUME NEW w \in Worker, Sigterm(w) PROVE CountersCover'
  BY <1>12 DEF Sigterm, Abandon
<1>13. ASSUME NEW w \in Worker, ExitIdle(w) \/ ExitLate(w) PROVE CountersCover'
  BY <1>13 DEF ExitIdle, ExitLate, Down, Abandon, LanesOf
<1>14. ASSUME NEW w \in Worker, Crash(w) PROVE CountersCover'
  BY <1>14 DEF Crash, Down, Abandon, LanesOf
<1>15. ASSUME NEW w \in Worker, Start(w) PROVE CountersCover'
  BY <1>15 DEF Start
<1>16. CASE UNCHANGED vars
  BY <1>16 DEF vars
<1> QED
  BY <1>1, <1>2, <1>3, <1>4, <1>5, <1>6, <1>7, <1>8, <1>9, <1>10, <1>11, <1>12,
     <1>13, <1>14, <1>15, <1>16 DEF Next, LaneStep, WorkerStep

-----------------------------------------------------------------------------
(* The theorems *)

\* FlowInv is inductive, for any executions, workers, batches and stops.
THEOREM FlowInvariant == Spec => []FlowInv
<1>1. FlowInv /\ [Next]_vars => FlowInv'
  BY TypePreserved, HandsPreserved, AcksPreserved, CountersPreserved DEF FlowInv
<1> QED
  BY InitInv, <1>1, PTL DEF Spec

\* The ranges of the state, the counter of every worker included, always hold.
THEOREM FlowTypes == Spec => []TypeOK
<1>1. FlowInv => TypeOK
  BY DEF FlowInv
<1> QED
  BY FlowInvariant, <1>1, PTL

\* Only the recovery tasks run an execution a second time.
THEOREM ReadOnceAlways == Spec => []ReadOnce
<1>1. FlowInv => ReadOnce
  BY DEF FlowInv
<1> QED
  BY FlowInvariant, <1>1, PTL

\* Whatever left the stream has a row, except what the two paths give up.
THEOREM SettledHasRowAlways == Spec => []SettledHasRow
<1>1. FlowInv => SettledHasRow
  BY DEF FlowInv
<1> QED
  BY FlowInvariant, <1>1, PTL

\* An idle exit interrupts neither loop of its worker.
THEOREM IdleExitIsCleanAlways == Spec => IdleExitIsClean
<1> DEFINE Idle(w) == mood[w] = "stopping" /\ active[w] = 0
           Clean == \A w \in Worker : (Idle(w) /\ mood'[w] = "down" /\ stops' = stops)
                                        => \A l \in LanesOf(w) : ~Executing(l)
<1>1. FlowInv => Clean
  BY LaneFacts DEF FlowInv, TypeOK, CountersCover, CounterCovers, InFlight,
     Executing, Resting, LanesOf
<1>2. FlowInv /\ [Next]_vars => [Clean]_vars
  BY <1>1
<1> QED
  BY FlowInvariant, <1>2, PTL DEF Spec, IdleExitIsClean

-----------------------------------------------------------------------------
(* Graphs *)

\* Nodes are numbers, and finitely many.
LEMMA NodesAreNumbers == Node \subseteq Nat /\ IsFiniteSet(Node)
<1>1. IsFiniteSet(1..N)
  BY FS_Interval, ExecutorConstants
<1>2. QED
  BY <1>1, ExecutorConstants DEF Node

\* The edges of a flow join its nodes; forward ones go to greater numbers.
LEMMA FlowFacts ==
  ASSUME NEW f \in Flows
  PROVE  /\ f.back \subseteq Node \X Node /\ IsFiniteSet(f.back)
         /\ f.sequential \in BOOLEAN
         /\ f.limit \in Nat \cup {NoLimit} /\ f.price \in Nat
         /\ \A m, n \in Node : m \in Dependencies(f, n) <=> n \in Dependents(f, m)
         /\ \A n \in Node : /\ Dependencies(f, n) \subseteq Node
                            /\ Dependents(f, n) \subseteq Node
         /\ \A n \in Node : \A m \in Dependencies(f, n) : m < n
<1>1. IsFlow(f)
  BY ExecutorConstants
<1>2. f.back \subseteq Node \X Node
  BY <1>1 DEF IsFlow, Edges
<1>3. IsFiniteSet(Node \X Node)
  BY FS_Product, NodesAreNumbers
<1>4. IsFiniteSet(f.back)
  BY <1>2, <1>3, FS_Subset
<1>5. QED
  BY <1>1, <1>2, <1>4 DEF IsFlow, Edges, Dependencies, Dependents

\* Every set of nodes has a first one.
LEMMA MinimalNode ==
  ASSUME NEW T \in SUBSET Node, T # {}
  PROVE  \E x \in T : \A y \in T : ~(y < x)
<1>1. IsWellFoundedOn(OpToRel(<, Nat), Nat)
  BY NatLessThanWellFounded
<1>2. T \subseteq Nat
  BY NodesAreNumbers
<1>3. \E x \in T : \A y \in T : <<y, x>> \notin OpToRel(<, Nat)
  BY <1>1, <1>2, WFMin
<1>4. \A x, y \in T : y < x => <<y, x>> \in OpToRel(<, Nat)
  BY <1>2 DEF OpToRel
<1>5. QED
  BY <1>3, <1>4

\* The body of a loop: its head and what follows, up to its tail.  Each node but
\* the head has an input in it, and none comes before the head.
LEMMA BodyFacts ==
  ASSUME NEW f \in Flows, NEW e \in f.back
  PROVE  /\ Body(f, e) \subseteq Node
         /\ e[2] \in Body(f, e)
         /\ \A m \in Body(f, e) \ {e[1]} : Dependents(f, m) \subseteq Body(f, e)
         /\ \A d \in Body(f, e) \ {e[2]} :
              \E m \in Body(f, e) \ {e[1]} : m \in Dependencies(f, d)
         /\ \A d \in Body(f, e) : ~(d < e[2])
<1> DEFINE Closed(S) == e[2] \in S /\ \A m \in S \ {e[1]} : Dependents(f, m) \subseteq S
           B == Body(f, e)
<1>1. B = {n \in Node : \A S \in SUBSET Node : Closed(S) => n \in S}
  BY DEF Body
<1>2. e[1] \in Node /\ e[2] \in Node
  BY FlowFacts
<1>3. e[2] \in B
  BY <1>1, <1>2
<1>4. \A m \in B \ {e[1]} : Dependents(f, m) \subseteq B
  <2> SUFFICES ASSUME NEW m \in B \ {e[1]}, NEW d \in Dependents(f, m) PROVE d \in B
    OBVIOUS
  <2>1. \A S \in SUBSET Node : Closed(S) => m \in S
    BY <1>1
  <2>2. \A S \in SUBSET Node : Closed(S) => d \in S
    BY <2>1
  <2>3. d \in Node
    BY DEF Dependents
  <2>4. QED
    BY <1>1, <2>2, <2>3
<1>5. \A d \in B \ {e[2]} : \E m \in B \ {e[1]} : m \in Dependencies(f, d)
  <2> SUFFICES ASSUME NEW d \in B \ {e[2]},
                      \A m \in B \ {e[1]} : m \notin Dependencies(f, d)
               PROVE  FALSE
    OBVIOUS
  <2>1. d \in Node /\ B \subseteq Node
    BY <1>1
  <2>2. \A m \in B \ {e[1]} : d \notin Dependents(f, m)
    BY <2>1, FlowFacts
  <2>3. Closed(B \ {d})
    BY <1>3, <1>4, <2>2
  <2>4. B \ {d} \in SUBSET Node /\ d \notin B \ {d}
    BY <2>1
  <2>5. d \in B \ {d}
    BY <1>1, <2>3, <2>4
  <2>6. QED
    BY <2>4, <2>5
<1>6. \A d \in B : ~(d < e[2])
  <2> DEFINE Later == {n \in Node : ~(n < e[2])}
  <2>1. \A m \in Later : Dependents(f, m) \subseteq Later
    <3> SUFFICES ASSUME NEW m \in Later, NEW d \in Dependents(f, m) PROVE d \in Later
      OBVIOUS
    <3>1. m \in Node /\ d \in Node
      BY FlowFacts
    <3>2. m \in Dependencies(f, d)
      BY <3>1, FlowFacts
    <3>3. m < d
      BY <3>1, <3>2, FlowFacts
    <3>4. m \in Nat /\ d \in Nat /\ e[2] \in Nat
      BY <3>1, <1>2, NodesAreNumbers
    <3>5. ~(m < e[2])
      OBVIOUS
    <3>6. QED
      BY <3>1, <3>3, <3>4, <3>5
  <2>2. Closed(Later)
    BY <1>2, <2>1, NodesAreNumbers
  <2>3. QED
    BY <1>1, <2>2
<1>7. QED
  BY <1>1, <1>3, <1>4, <1>5, <1>6

\* Loops do not share nodes.
LEMMA BodiesDisjoint ==
  ASSUME NEW f \in Flows, NEW d \in f.back, NEW e \in f.back, d # e
  PROVE  Body(f, d) \cap Body(f, e) = {}
BY ExecutorConstants DEF Build

-----------------------------------------------------------------------------
(* Sequences *)

\* An order of a finite set is a sequence that holds each of its members once.
LEMMA OrderFacts ==
  ASSUME NEW S, IsFiniteSet(S), NEW s \in Orders(S)
  PROVE  /\ s \in Seq(S)
         /\ Len(s) = Cardinality(S)
         /\ {s[i] : i \in DOMAIN s} = S
         /\ \A i, j \in DOMAIN s : s[i] = s[j] => i = j
<1> DEFINE k == Cardinality(S)
<1>1. k \in Nat
  BY FS_CardinalityType
<1>2. s \in [1..k -> S] /\ \A i, j \in 1..k : s[i] = s[j] => i = j
  BY DEF Orders
<1>3. s \in Seq(S)
  BY <1>1, <1>2, SeqDef
<1>4. Len(s) = k
  BY <1>1, <1>2, <1>3
<1>5. s \in Injection(1..k, S)
  BY <1>2 DEF Injection, IsInjective
<1>6. IsFiniteSet(1..k) /\ Cardinality(1..k) = k
  BY <1>1, FS_Interval
<1>7. s \in Surjection(1..k, S)
  BY <1>5, <1>6, FS_Injection
<1>8. {s[i] : i \in 1..k} = S
  BY <1>2, <1>7 DEF Surjection
<1>9. QED
  BY <1>2, <1>3, <1>4, <1>8

\* Nothing has one order, and pushes nothing.
LEMMA NoOrderButEmpty ==
  /\ \A s \in Orders({}) : s = <<>>
  /\ \A s \in Orders({}) : [i \in DOMAIN s |-> s[i][2]] = <<>>
  /\ Orders({}) # {}
<1>1. ASSUME NEW s \in Orders({}) PROVE s = <<>>
  <2>1. s \in Seq({}) /\ Len(s) = 0
    BY OrderFacts, FS_EmptySet
  <2>2. QED
    BY <2>1, EmptySeq
<1>2. <<>> \in Orders({})
  <2>1. Cardinality({}) = 0
    BY FS_EmptySet
  <2>2. <<>> \in [1..0 -> {}]
    OBVIOUS
  <2>3. QED
    BY <2>1, <2>2 DEF Orders
<1>3. ASSUME NEW s \in Orders({}) PROVE [i \in DOMAIN s |-> s[i][2]] = <<>>
  <2>1. s = <<>>
    BY <1>1
  <2>2. DOMAIN s = {}
    BY <2>1
  <2>3. QED
    BY <2>2
<1>4. QED
  BY <1>1, <1>2, <1>3

-----------------------------------------------------------------------------
(* Types, and the shapes of a step *)

Queued == {ready[i] : i \in DOMAIN ready}
TaskNodes == {t[1] : t \in tasks}

ExecutorTypes ==
  /\ flow \in Flows
  /\ status \in {"running", "completed", "failed", "timed_out"}
  /\ ready \in Seq(Node)
  /\ tasks \in SUBSET (Node \X Nat) /\ IsFiniteSet(tasks)
  /\ inFlight \subseteq Node /\ completed \subseteq Node
  /\ iterations \in [flow.back -> 0..MaxIterations]
  /\ cost \in Nat /\ runs \in [Node -> Nat] /\ peak \in Nat

\* What the outcome of a task does when the execution goes on: the loops in
\* again, at most those from its node, start over.
Bodies(again) == UNION {Body(flow, e) : e \in again}
Finished(t, again) == (completed \cup {t[1]}) \ Bodies(again)
Flying(t, again) == inFlight \ ({t[1]} \cup Bodies(again))

Finishes(t, again) ==
  /\ Joins(t)
  /\ again \subseteq BackFrom(t[1])
  /\ \A e \in again : iterations[e] < MaxIterations
  /\ tasks' = tasks \ {t}
  /\ iterations' = [e \in flow.back |-> IF e \in again THEN iterations[e] + 1
                                                      ELSE iterations[e]]
  /\ inFlight' = Flying(t, again)
  /\ completed' = Finished(t, again)
  /\ \E heads \in Orders(again),
        order \in Orders(Newly(t[1], Finished(t, again), Flying(t, again))) :
       ready' = ready \o [i \in DOMAIN heads |-> heads[i][2]] \o order
  /\ \E c \in 0..flow.price : cost' = cost + c
  /\ UNCHANGED <<flow, status, runs, peak>>

\* What a step does that ends the execution.
Halts ==
  /\ status = "running" /\ status' \in {"completed", "failed", "timed_out"}
  /\ status' = "completed" => ready = <<>> /\ tasks = {}
  /\ ready' = <<>> /\ tasks' = {} /\ inFlight' = {}
  /\ \E c \in 0..flow.price : cost' = cost + c /\ (c = 0 \/ tasks # {})
  /\ UNCHANGED <<flow, completed, iterations, runs, peak>>

\* A node that is skipped, falls back or is retried ends with no loop starting
\* over.
LEMMA SettleFinishes ==
  ASSUME ExecutorTypes, NEW t \in tasks, NEW c \in 0..flow.price, Settle(t, c)
  PROVE  Finishes(t, {})
<1>1. Bodies({}) = {}
  BY DEF Bodies
<1>2. Finished(t, {}) = completed \cup {t[1]} /\ Flying(t, {}) = inFlight \ {t[1]}
  BY <1>1 DEF Finished, Flying
<1>3. iterations' = [e \in flow.back |-> IF e \in {} THEN iterations[e] + 1 ELSE iterations[e]]
  BY DEF Settle, ExecutorTypes
<1>4. PICK order \in Orders(Newly(t[1], Finished(t, {}), Flying(t, {}))) : ready' = ready \o order
  BY <1>2 DEF Settle
<1>5. ready \o <<>> = ready
  BY ConcatEmptySeq DEF ExecutorTypes
<1>6. \E heads \in Orders({}) : ready' = ready \o [i \in DOMAIN heads |-> heads[i][2]] \o order
  BY <1>4, <1>5, NoOrderButEmpty
<1>7. QED
  BY <1>2, <1>3, <1>4, <1>6 DEF Settle, Finishes, BackFrom

\* A node that succeeds ends with the loops in again starting over.
LEMMA SucceedFinishes ==
  ASSUME ExecutorTypes, NEW t \in tasks, Succeed(t)
  PROVE  \E again \in SUBSET flow.back : Finishes(t, again)
<1>1. PICK again \in SUBSET BackFrom(t[1]), c \in 0..flow.price :
        LET n == t[1]
            bodies == UNION {Body(flow, e) : e \in again}
            done == (completed \cup {n}) \ bodies
            flying == inFlight \ ({n} \cup bodies)
        IN /\ Joins(t)
           /\ \A e \in again : iterations[e] < MaxIterations
           /\ tasks' = tasks \ {t}
           /\ iterations' = [e \in flow.back |-> IF e \in again THEN iterations[e] + 1
                                                               ELSE iterations[e]]
           /\ inFlight' = flying
           /\ completed' = done
           /\ \E heads \in Orders(again), order \in Orders(Newly(n, done, flying)) :
                ready' = ready \o [i \in DOMAIN heads |-> heads[i][2]] \o order
           /\ cost' = cost + c
           /\ UNCHANGED <<flow, status, runs, peak>>
  BY Zenon DEF Succeed
<1>2. Finishes(t, again)
  BY <1>1 DEF Finishes, Finished, Flying, Bodies
<1>3. again \in SUBSET flow.back
  BY DEF BackFrom
<1>4. QED
  BY <1>2, <1>3

\* A step takes a node off the stack, takes an outcome, or ends the execution.
LEMMA StepCases ==
  ASSUME ExecutorTypes, [ExecutorNext]_executorVars
  PROVE  \/ \E n \in Node : Drop(n) \/ Spawn(n)
         \/ \E t \in tasks, again \in SUBSET flow.back : Finishes(t, again)
         \/ Halts
         \/ UNCHANGED executorVars
<1>1. flow.price \in Nat
  BY FlowFacts DEF ExecutorTypes
<1>2. cost + 0 = cost /\ 0 \in 0..flow.price
  BY <1>1 DEF ExecutorTypes
<1>3. ASSUME NEW n \in Node, Refuse(n) PROVE Halts
  BY <1>2, <1>3 DEF Refuse, Pops, Stop, Halts
<1>4. ASSUME NEW t \in tasks, Outcome(t)
      PROVE  Halts \/ \E again \in SUBSET flow.back : Finishes(t, again)
  <2>1. CASE SkipOrFallback(t)
    BY <2>1, <1>2, SettleFinishes DEF SkipOrFallback
  <2>2. CASE Retried(t)
    BY <2>2, SettleFinishes DEF Retried
  <2>3. CASE Succeed(t)
    BY <2>3, SucceedFinishes
  <2>4. CASE Exhaust(t)
    BY <2>4 DEF Exhaust, Joins, Stop, Halts
  <2>5. CASE Trip(t)
    BY <2>5 DEF Trip, Joins, Stop, Halts
  <2>6. CASE Abort(t)
    BY <2>6, <1>2 DEF Abort, Joins, Stop, Halts
  <2>7. QED
    BY <1>4, <2>1, <2>2, <2>3, <2>4, <2>5, <2>6 DEF Outcome
<1>5. ASSUME Complete PROVE Halts
  BY <1>5, <1>2 DEF Complete, Stop, Halts
<1>6. ASSUME TimeOut PROVE Halts
  BY <1>6, <1>2 DEF TimeOut, Stop, Halts
<1>7. QED
  BY <1>3, <1>4, <1>5, <1>6 DEF ExecutorNext, Execute

-----------------------------------------------------------------------------
(* What the stack looks like after a step *)

\* What stands where in three sequences joined.
LEMMA ThreeParts ==
  ASSUME NEW S, NEW a \in Seq(S), NEW b \in Seq(S), NEW c \in Seq(S)
  PROVE  /\ a \o b \o c \in Seq(S)
         /\ Len(a \o b \o c) = Len(a) + Len(b) + Len(c)
         /\ \A i \in 1..Len(a) : (a \o b \o c)[i] = a[i]
         /\ \A i \in 1..Len(b) : (a \o b \o c)[Len(a) + i] = b[i]
         /\ \A i \in 1..Len(c) : (a \o b \o c)[Len(a) + Len(b) + i] = c[i]
<1>1. /\ a \o b \in Seq(S) /\ Len(a \o b) = Len(a) + Len(b)
      /\ \A i \in 1..(Len(a) + Len(b)) :
           (a \o b)[i] = IF i <= Len(a) THEN a[i] ELSE b[i - Len(a)]
  BY ConcatProperties, Zenon
<1>2. /\ a \o b \o c \in Seq(S) /\ Len(a \o b \o c) = Len(a \o b) + Len(c)
      /\ \A i \in 1..(Len(a \o b) + Len(c)) :
           (a \o b \o c)[i] = IF i <= Len(a \o b) THEN (a \o b)[i] ELSE c[i - Len(a \o b)]
  <2> DEFINE d == a \o b
  <2>1. d \in Seq(S)
    BY <1>1
  <2> HIDE DEF d
  <2>2. /\ d \o c \in Seq(S) /\ Len(d \o c) = Len(d) + Len(c)
        /\ \A i \in 1..(Len(d) + Len(c)) :
             (d \o c)[i] = IF i <= Len(d) THEN d[i] ELSE c[i - Len(d)]
    BY <2>1, ConcatProperties, Zenon
  <2>3. QED
    BY <2>2 DEF d
<1>3. Len(a) \in Nat /\ Len(b) \in Nat /\ Len(c) \in Nat
  BY LenProperties
<1>4. QED
  BY <1>1, <1>2, <1>3

\* An outcome leaves the stack as it is and puts on top the heads of the loops
\* that start over and the dependents that wait for nothing more.
LEMMA Pushed ==
  ASSUME ExecutorTypes, NEW t \in tasks, NEW again \in SUBSET flow.back, Finishes(t, again)
  PROVE  /\ ready' \in Seq(Node)
         /\ Len(ready) \in Nat /\ Len(ready') \in Nat /\ Len(ready) <= Len(ready')
         /\ \A i \in 1..Len(ready) : ready'[i] = ready[i]
         /\ \A i \in (Len(ready) + 1)..Len(ready') :
              ready'[i] \in {e[2] : e \in again}
                            \cup Newly(t[1], Finished(t, again), Flying(t, again))
         /\ \A m \in {e[2] : e \in again}
                     \cup Newly(t[1], Finished(t, again), Flying(t, again)) :
              \E i \in (Len(ready) + 1)..Len(ready') : ready'[i] = m
<1> DEFINE new == Newly(t[1], Finished(t, again), Flying(t, again))
<1>1. new \subseteq Node /\ IsFiniteSet(new) /\ IsFiniteSet(again)
      /\ {e[2] : e \in again} \subseteq Node
  <2>1. new \subseteq Node
    BY DEF Newly, Dependents
  <2>2. flow.back \subseteq Node \X Node /\ IsFiniteSet(flow.back)
    BY FlowFacts DEF ExecutorTypes
  <2>3. QED
    BY <2>1, <2>2, NodesAreNumbers, FS_Subset
<1>2. PICK heads \in Orders(again), order \in Orders(new) :
        ready' = ready \o [i \in DOMAIN heads |-> heads[i][2]] \o order
  BY DEF Finishes
<1> DEFINE h == [i \in DOMAIN heads |-> heads[i][2]]
<1>3. /\ heads \in Seq(again) /\ {heads[i] : i \in DOMAIN heads} = again
      /\ order \in Seq(new) /\ {order[i] : i \in DOMAIN order} = new
  BY <1>1, OrderFacts
<1>4. order \in Seq(Node)
  BY <1>1, <1>3, SeqMonotonic
<1>5. /\ h \in Seq(Node) /\ Len(h) = Len(heads)
      /\ \A i \in 1..Len(heads) : h[i] = heads[i][2]
  <2>1. Len(heads) \in Nat /\ DOMAIN heads = 1..Len(heads)
        /\ \A i \in 1..Len(heads) : heads[i] \in again
    BY <1>3, LenProperties, ElementOfSeq
  <2>2. h \in [1..Len(heads) -> Node]
    BY <1>1, <2>1
  <2>3. h \in Seq(Node)
    BY <2>1, <2>2, SeqDef
  <2>4. QED
    BY <2>1, <2>2, <2>3, LenProperties
<1>6. /\ ready' \in Seq(Node)
      /\ Len(ready') = Len(ready) + Len(h) + Len(order)
      /\ \A i \in 1..Len(ready) : ready'[i] = ready[i]
      /\ \A i \in 1..Len(h) : ready'[Len(ready) + i] = h[i]
      /\ \A i \in 1..Len(order) : ready'[Len(ready) + Len(h) + i] = order[i]
  BY <1>2, <1>4, <1>5, ThreeParts DEF ExecutorTypes
<1>7. /\ Len(ready) \in Nat /\ Len(h) \in Nat /\ Len(order) \in Nat /\ Len(ready') \in Nat
      /\ DOMAIN heads = 1..Len(h) /\ DOMAIN order = 1..Len(order)
  BY <1>3, <1>4, <1>5, <1>6, LenProperties DEF ExecutorTypes
<1>8. ASSUME NEW i \in (Len(ready) + 1)..Len(ready')
      PROVE  ready'[i] \in {e[2] : e \in again} \cup new
  <2>1. CASE i <= Len(ready) + Len(h)
    <3>1. i - Len(ready) \in 1..Len(h) /\ i = Len(ready) + (i - Len(ready))
      BY <1>7, <2>1
    <3>2. ready'[i] = heads[i - Len(ready)][2] /\ heads[i - Len(ready)] \in again
      BY <3>1, <1>3, <1>5, <1>6, <1>7
    <3>3. QED
      BY <3>2
  <2>2. CASE i > Len(ready) + Len(h)
    <3>1. /\ i - (Len(ready) + Len(h)) \in 1..Len(order)
          /\ i = Len(ready) + Len(h) + (i - (Len(ready) + Len(h)))
      BY <1>6, <1>7, <2>2
    <3>2. ready'[i] = order[i - (Len(ready) + Len(h))]
      BY <3>1, <1>6
    <3>3. QED
      BY <3>1, <3>2, <1>3, <1>7
  <2>3. QED
    BY <2>1, <2>2, <1>7
<1>9. ASSUME NEW m \in {e[2] : e \in again} \cup new
      PROVE  \E i \in (Len(ready) + 1)..Len(ready') : ready'[i] = m
  <2>1. CASE m \in new
    <3>1. PICK i \in 1..Len(order) : order[i] = m
      BY <2>1, <1>3, <1>7
    <3>2. Len(ready) + Len(h) + i \in (Len(ready) + 1)..Len(ready')
      BY <1>6, <1>7
    <3>3. QED
      BY <3>1, <3>2, <1>6
  <2>2. CASE m \in {e[2] : e \in again}
    <3>1. PICK e \in again : m = e[2]
      BY <2>2
    <3>2. PICK i \in 1..Len(h) : heads[i] = e
      BY <1>3, <1>7
    <3>3. Len(ready) + i \in (Len(ready) + 1)..Len(ready')
      BY <1>6, <1>7
    <3>4. ready'[Len(ready) + i] = m
      BY <3>1, <3>2, <1>5, <1>6
    <3>5. QED
      BY <3>3, <3>4
  <2>3. QED
    BY <2>1, <2>2
<1>10. Len(ready) <= Len(ready')
  BY <1>6, <1>7
<1>11. QED
  BY <1>6, <1>7, <1>8, <1>9, <1>10, Zenon

\* The node that is taken off the stack is its last.
LEMMA Popped ==
  ASSUME ExecutorTypes, NEW n \in Node, Pops(n), ready' = Front(ready)
  PROVE  /\ Len(ready) \in Nat \ {0} /\ ready[Len(ready)] = n
         /\ ready' \in Seq(Node) /\ Len(ready') = Len(ready) - 1
         /\ \A i \in 1..(Len(ready) - 1) : ready'[i] = ready[i]
<1>1. Len(ready) \in Nat \ {0} /\ ready[Len(ready)] = n
  BY EmptySeq DEF Pops, ExecutorTypes
<1>2. \A i \in 1..(Len(ready) - 1) : ready[i] \in Node
  BY <1>1, ElementOfSeq DEF ExecutorTypes
<1>3. /\ SubSeq(ready, 1, Len(ready) - 1) \in Seq(Node)
      /\ Len(SubSeq(ready, 1, Len(ready) - 1)) = Len(ready) - 1
      /\ \A i \in 1..(Len(ready) - 1) : SubSeq(ready, 1, Len(ready) - 1)[i] = ready[i]
  <2> DEFINE k == Len(ready) - 1
  <2>1. 1 \in Int /\ k \in Int
    BY <1>1
  <2>2. \A i \in 1..k : ready[i] \in Node
    BY <1>2
  <2> HIDE DEF k
  <2>3. /\ SubSeq(ready, 1, k) \in Seq(Node)
        /\ Len(SubSeq(ready, 1, k)) = IF 1 <= k THEN k - 1 + 1 ELSE 0
        /\ \A i \in 1..(k - 1 + 1) : SubSeq(ready, 1, k)[i] = ready[1 + i - 1]
    BY <2>1, <2>2, SubSeqProperties
  <2>4. k \in Nat
    BY <1>1 DEF k
  <2>5. /\ Len(SubSeq(ready, 1, k)) = k
        /\ \A i \in 1..k : SubSeq(ready, 1, k)[i] = ready[i]
    BY <2>3, <2>4
  <2>6. QED
    BY <2>3, <2>5 DEF k
<1>4. QED
  BY <1>1, <1>3 DEF Front

\* Which nodes are on the stack after an outcome.
LEMMA QueuedAfterFinishes ==
  ASSUME ExecutorTypes, NEW t \in tasks, NEW again \in SUBSET flow.back, Finishes(t, again)
  PROVE  Queued' = Queued \cup {e[2] : e \in again}
                          \cup Newly(t[1], Finished(t, again), Flying(t, again))
<1> DEFINE new == {e[2] : e \in again} \cup Newly(t[1], Finished(t, again), Flying(t, again))
<1>1. /\ ready' \in Seq(Node)
      /\ Len(ready) \in Nat /\ Len(ready') \in Nat /\ Len(ready) <= Len(ready')
      /\ \A i \in 1..Len(ready) : ready'[i] = ready[i]
      /\ \A i \in (Len(ready) + 1)..Len(ready') : ready'[i] \in new
      /\ \A m \in new : \E i \in (Len(ready) + 1)..Len(ready') : ready'[i] = m
  BY Pushed, Zenon
<1> HIDE DEF new
<1>2. DOMAIN ready = 1..Len(ready) /\ DOMAIN ready' = 1..Len(ready')
  BY <1>1, LenProperties DEF ExecutorTypes
<1>3. Queued' \subseteq Queued \cup new
  BY <1>1, <1>2 DEF Queued
<1>4. Queued \subseteq Queued' /\ new \subseteq Queued'
  BY <1>1, <1>2 DEF Queued
<1>5. Queued' = Queued \cup new
  BY <1>3, <1>4
<1>6. QED
  BY <1>5 DEF new

\* Which nodes are on the stack after one was taken off.
LEMMA QueuedAfterPop ==
  ASSUME ExecutorTypes, NEW n \in Node, Pops(n), ready' = Front(ready)
  PROVE  n \in Queued /\ Queued' \subseteq Queued /\ Queued \subseteq Queued' \cup {n}
<1>1. /\ Len(ready) \in Nat \ {0} /\ ready[Len(ready)] = n
      /\ ready' \in Seq(Node) /\ Len(ready') = Len(ready) - 1
      /\ \A i \in 1..(Len(ready) - 1) : ready'[i] = ready[i]
  BY Popped
<1>2. DOMAIN ready = 1..Len(ready) /\ DOMAIN ready' = 1..(Len(ready) - 1)
  BY <1>1, LenProperties DEF ExecutorTypes
<1>3. QED
  BY <1>1, <1>2 DEF Queued

\* What is spawned has a task.
LEMMA TasksAfterSpawn ==
  ASSUME NEW n \in Node, Spawn(n)
  PROVE  TaskNodes' = TaskNodes \cup {n}
<1> DEFINE new == <<n, runs'[n]>>
<1>1. tasks' = tasks \cup {new} /\ new[1] = n
  BY DEF Spawn
<1> HIDE DEF new
<1>2. QED
  BY <1>1 DEF TaskNodes

-----------------------------------------------------------------------------
(* Types *)

\* An execution starts with values of the types of its variables.
LEMMA ExecutorInitTypes == ExecutorInit => ExecutorTypes
<1> SUFFICES ASSUME ExecutorInit PROVE ExecutorTypes
  OBVIOUS
<1> DEFINE first == {n \in Node : Dependencies(flow, n) = {}}
<1>1. first \subseteq Node /\ IsFiniteSet(first)
  BY NodesAreNumbers, FS_Subset
<1>2. ready \in Seq(Node)
  BY <1>1, OrderFacts, SeqMonotonic DEF ExecutorInit
<1>3. IsFiniteSet({})
  BY FS_EmptySet
<1>4. QED
  BY <1>2, <1>3, ExecutorConstants DEF ExecutorInit, ExecutorTypes

\* Every step keeps them.
LEMMA ExecutorTypesPreserved ==
  ASSUME ExecutorTypes, [ExecutorNext]_executorVars
  PROVE  ExecutorTypes'
<1> USE DEF ExecutorTypes
<1>1. flow.price \in Nat /\ MaxIterations \in Nat
  BY FlowFacts, ExecutorConstants
<1>2. ASSUME NEW n \in Node, Drop(n) PROVE ExecutorTypes'
  <2>1. ready' \in Seq(Node)
    BY <1>2, Popped DEF Drop
  <2>2. QED
    BY <1>2, <2>1 DEF Drop
<1>3. ASSUME NEW n \in Node, Spawn(n) PROVE ExecutorTypes'
  <2>1. ready' \in Seq(Node)
    BY <1>3, Popped DEF Spawn
  <2>2. runs' \in [Node -> Nat]
    BY <1>3 DEF Spawn
  <2>3. tasks' \in SUBSET (Node \X Nat)
    BY <1>3, <2>2 DEF Spawn
  <2>4. IsFiniteSet(tasks')
    BY <1>3, FS_AddElement DEF Spawn
  <2>5. peak' \in Nat
    BY <1>3, <2>4, FS_CardinalityType DEF Spawn
  <2>6. QED
    BY <1>3, <2>1, <2>2, <2>3, <2>4, <2>5 DEF Spawn
<1>4. ASSUME NEW t \in tasks, NEW again \in SUBSET flow.back, Finishes(t, again)
      PROVE  ExecutorTypes'
  <2>1. ready' \in Seq(Node)
    BY <1>4, Pushed
  <2>2. IsFiniteSet(tasks')
    BY <1>4, FS_RemoveElement DEF Finishes
  <2>3. iterations' \in [flow'.back -> 0..MaxIterations]
    BY <1>4, <1>1 DEF Finishes
  <2>4. cost' \in Nat
    BY <1>4, <1>1 DEF Finishes
  <2>5. t[1] \in Node
    OBVIOUS
  <2>6. inFlight' \subseteq Node /\ completed' \subseteq Node
    BY <1>4, <2>5 DEF Finishes, Finished, Flying
  <2>7. QED
    BY <1>4, <2>1, <2>2, <2>3, <2>4, <2>6 DEF Finishes
<1>5. ASSUME Halts PROVE ExecutorTypes'
  BY <1>5, <1>1, FS_EmptySet, EmptySeq DEF Halts
<1>6. ASSUME UNCHANGED executorVars PROVE ExecutorTypes'
  BY <1>6 DEF executorVars
<1>7. QED
  BY <1>2, <1>3, <1>4, <1>5, <1>6, StepCases

\* Every variable of the executor keeps its type; what is in the stack, in flight
\* or completed is a node of the flow.
THEOREM ExecutorTypesAlways == ExecutorSpec => []ExecutorTypes
BY ExecutorInitTypes, ExecutorTypesPreserved, PTL DEF ExecutorSpec

-----------------------------------------------------------------------------
(* Nothing is forgotten *)

\* A node that has everything it waits for and is not completed is on the
\* stack or in flight, and what is in flight has a task.
NothingForgotten ==
  status = "running" =>
    \A n \in Node : n \notin completed /\ Dependencies(flow, n) \subseteq completed
                      => n \in Queued \cup inFlight

CompletionInv ==
  /\ ExecutorTypes
  /\ inFlight \subseteq TaskNodes
  /\ NothingForgotten
  /\ CompletedAll

\* At the start the nodes without dependencies are on the stack.
LEMMA CompletionInit == ExecutorInit => CompletionInv
<1> SUFFICES ASSUME ExecutorInit PROVE CompletionInv
  OBVIOUS
<1> DEFINE first == {n \in Node : Dependencies(flow, n) = {}}
<1>1. IsFiniteSet(first)
  BY NodesAreNumbers, FS_Subset
<1>2. Queued = first
  BY <1>1, OrderFacts DEF ExecutorInit, Queued
<1>3. NothingForgotten
  BY <1>2 DEF ExecutorInit, NothingForgotten
<1>4. QED
  BY <1>3, ExecutorInitTypes DEF ExecutorInit, CompletionInv, CompletedAll

\* The outcome of a task: what became ready was pushed, and the nodes of a loop
\* that starts over wait for its head.
LEMMA NothingForgottenByOutcome ==
  ASSUME CompletionInv, NEW t \in tasks, NEW again \in SUBSET flow.back, Finishes(t, again)
  PROVE  NothingForgotten'
<1> USE DEF CompletionInv, ExecutorTypes
<1>1. /\ flow' = flow /\ status = "running"
      /\ completed' = Finished(t, again) /\ inFlight' = Flying(t, again)
  BY DEF Finishes, Joins
<1>2. SUFFICES ASSUME NEW d \in Node, d \notin Finished(t, again),
                      Dependencies(flow, d) \subseteq Finished(t, again),
                      d \notin Flying(t, again)
               PROVE  d \in Queued'
  BY <1>1 DEF NothingForgotten
<1>3. Queued' = Queued \cup {e[2] : e \in again}
                       \cup Newly(t[1], Finished(t, again), Flying(t, again))
  BY QueuedAfterFinishes
<1>4. CASE d \in Bodies(again)
  <2>1. PICK e \in again : d \in Body(flow, e)
    BY <1>4 DEF Bodies
  <2>2. CASE d = e[2]
    BY <2>2, <1>3
  <2>3. CASE d # e[2]
    <3>1. PICK m \in Body(flow, e) : m \in Dependencies(flow, d)
      BY <2>1, <2>3, BodyFacts
    <3>2. m \in Bodies(again)
      BY <3>1 DEF Bodies
    <3>3. QED
      BY <1>2, <3>1, <3>2 DEF Finished
  <2>4. QED
    BY <2>2, <2>3
<1>5. CASE d \notin Bodies(again)
  <2>1. d \notin completed /\ d # t[1] /\ d \notin inFlight
    BY <1>2, <1>5 DEF Finished, Flying
  <2>2. CASE t[1] \in Dependencies(flow, d)
    <3>1. t[1] \in Node
      OBVIOUS
    <3>2. d \in Dependents(flow, t[1])
      BY <2>2, <3>1, FlowFacts
    <3>3. d \in Newly(t[1], Finished(t, again), Flying(t, again))
      BY <1>2, <3>2 DEF Newly
    <3>4. QED
      BY <1>3, <3>3
  <2>3. CASE t[1] \notin Dependencies(flow, d)
    <3>1. Dependencies(flow, d) \subseteq completed
      BY <1>2, <2>3 DEF Finished
    <3>2. d \in Queued
      BY <1>1, <2>1, <3>1 DEF NothingForgotten
    <3>3. QED
      BY <1>3, <3>2
  <2>4. QED
    BY <2>2, <2>3
<1>6. QED
  BY <1>4, <1>5

\* When nothing is ready and no task runs, no node waits for another: there is
\* no first one that does.
LEMMA NobodyWaits ==
  ASSUME CompletionInv, status = "running", ready = <<>>, tasks = {}
  PROVE  completed = Node
<1> USE DEF CompletionInv, ExecutorTypes
<1>1. Queued = {} /\ inFlight = {}
  BY DEF Queued, TaskNodes
<1>2. SUFFICES ASSUME Node \ completed # {} PROVE FALSE
  OBVIOUS
<1>3. PICK x \in Node \ completed : \A y \in Node \ completed : ~(y < x)
  BY <1>2, MinimalNode
<1>4. Dependencies(flow, x) \subseteq completed
  BY <1>3, FlowFacts
<1>5. QED
  BY <1>1, <1>3, <1>4 DEF NothingForgotten

\* No step forgets a node.
LEMMA CompletionPreserved ==
  ASSUME CompletionInv, [ExecutorNext]_executorVars
  PROVE  CompletionInv'
<1>1. ExecutorTypes /\ ExecutorTypes'
  BY ExecutorTypesPreserved DEF CompletionInv
<1>2. ASSUME NEW n \in Node, Drop(n) PROVE CompletionInv'
  <2>1. Queued \subseteq Queued' \cup {n}
    BY <1>1, <1>2, QueuedAfterPop DEF Drop
  <2>2. NothingForgotten'
    BY <1>2, <2>1 DEF Drop, CompletionInv, NothingForgotten
  <2>3. QED
    BY <1>1, <1>2, <2>2 DEF Drop, Pops, CompletionInv, CompletedAll, TaskNodes
<1>3. ASSUME NEW n \in Node, Spawn(n) PROVE CompletionInv'
  <2>1. Queued \subseteq Queued' \cup {n}
    BY <1>1, <1>3, QueuedAfterPop DEF Spawn
  <2>2. NothingForgotten'
    BY <1>3, <2>1 DEF Spawn, CompletionInv, NothingForgotten
  <2>3. TaskNodes \cup {n} \subseteq TaskNodes'
    BY <1>3, TasksAfterSpawn
  <2>4. QED
    BY <1>1, <1>3, <2>2, <2>3 DEF Spawn, Pops, CompletionInv, CompletedAll
<1>4. ASSUME NEW t \in tasks, NEW again \in SUBSET flow.back, Finishes(t, again)
      PROVE  CompletionInv'
  <2>1. NothingForgotten'
    BY <1>4, NothingForgottenByOutcome
  <2>2. inFlight' \subseteq TaskNodes'
    BY <1>4 DEF Finishes, Flying, CompletionInv, TaskNodes
  <2>3. QED
    BY <1>1, <1>4, <2>1, <2>2 DEF Finishes, Joins, CompletionInv, CompletedAll
<1>5. ASSUME Halts PROVE CompletionInv'
  <2>1. CompletedAll'
    BY <1>5, NobodyWaits DEF Halts, CompletedAll
  <2>2. QED
    BY <1>1, <1>5, <2>1 DEF Halts, CompletionInv, NothingForgotten
<1>6. ASSUME UNCHANGED executorVars PROVE CompletionInv'
  BY <1>1, <1>6 DEF executorVars, CompletionInv, CompletedAll, NothingForgotten,
     TaskNodes, Queued
<1>7. QED
  BY <1>1, <1>2, <1>3, <1>4, <1>5, <1>6, StepCases

\* Whatever fails, is skipped, retried or repeated, and in whichever order outcomes
\* come: an execution that is reported as completed has completed every node.
THEOREM CompletedAllAlways == ExecutorSpec => []CompletedAll
<1>1. ExecutorInit => CompletionInv
  BY CompletionInit
<1>2. CompletionInv /\ [ExecutorNext]_executorVars => CompletionInv'
  BY CompletionPreserved
<1>3. CompletionInv => CompletedAll
  BY DEF CompletionInv
<1>4. QED
  BY <1>1, <1>2, <1>3, PTL DEF ExecutorSpec

-----------------------------------------------------------------------------
(* The budget *)

\* Prices of tasks are numbers.
LEMMA PriceOfTasks ==
  ASSUME NEW p \in Nat, NEW a \in Nat, NEW b \in Nat, a <= b
  PROVE  p * a \in Nat /\ p * b \in Nat /\ p * a <= p * b
OBVIOUS

\* One task more costs one price more.
LEMMA PriceOfOneMore ==
  ASSUME NEW p \in Nat, NEW a \in Nat
  PROVE  p * a \in Nat /\ p * (a + 1) = p * a + p
OBVIOUS

\* A task is spawned only while the budget is not exceeded, and no outcome costs
\* more than its task was counted for.
LEMMA OvershootPreserved ==
  ASSUME ExecutorTypes, OvershootBounded, [ExecutorNext]_executorVars
  PROVE  OvershootBounded'
<1> USE DEF ExecutorTypes
<1> DEFINE k == Cardinality(tasks)
           p == flow.price
<1>1. p \in Nat /\ flow.limit \in Nat \cup {NoLimit} /\ k \in Nat
  BY FlowFacts, FS_CardinalityType
<1>2. ASSUME NEW n \in Node, Drop(n) PROVE OvershootBounded'
  BY <1>2 DEF Drop, OvershootBounded
<1>3. ASSUME NEW n \in Node, Spawn(n) PROVE OvershootBounded'
  <2> DEFINE q == Cardinality(tasks')
  <2>1. q \in Nat
    BY <1>3, ExecutorTypesPreserved, FS_CardinalityType
  <2>2. peak' \in Nat /\ q <= peak' /\ cost' = cost /\ flow' = flow
    BY <1>3, <2>1 DEF Spawn
  <2>3. p * q <= p * peak' /\ p * q \in Nat /\ p * peak' \in Nat
    BY <1>1, <2>1, <2>2, PriceOfTasks
  <2>4. CASE flow.limit # NoLimit
    <3>1. cost <= flow.limit
      BY <1>1, <1>3, <2>4 DEF Spawn, OverBudget
    <3>2. cost' + p * q <= flow.limit + p * peak'
      BY <1>1, <2>2, <2>3, <2>4, <3>1
    <3>3. QED
      BY <2>2, <3>2 DEF OvershootBounded
  <2>5. QED
    BY <2>2, <2>4 DEF OvershootBounded
<1>4. ASSUME NEW t \in tasks, NEW again \in SUBSET flow.back, Finishes(t, again)
      PROVE  OvershootBounded'
  <2>1. Cardinality(tasks') = k - 1 /\ Cardinality(tasks') \in Nat
    BY <1>4, FS_RemoveElement, FS_CardinalityType DEF Finishes
  <2> DEFINE q == Cardinality(tasks')
  <2>2. PICK c \in 0..p : cost' = cost + c
    BY <1>4 DEF Finishes
  <2>3. p * k = p * q + p /\ p * q \in Nat /\ p * peak \in Nat
    <3>1. p * (q + 1) = p * q + p /\ p * q \in Nat
      BY <1>1, <2>1, PriceOfOneMore, Zenon
    <3>2. q + 1 = k
      BY <1>1, <2>1
    <3>3. p * peak \in Nat
      BY <1>1
    <3>4. QED
      BY <3>1, <3>2, <3>3, Zenon
  <2>4. flow' = flow /\ peak' = peak
    BY <1>4 DEF Finishes
  <2>5. CASE flow.limit # NoLimit
    <3>1. cost + p * k <= flow.limit + p * peak
      BY <2>5 DEF OvershootBounded
    <3> DEFINE spent == p * k
               left == p * q
               most == p * peak
    <3>2. /\ cost + spent <= flow.limit + most /\ spent = left + p
          /\ left \in Nat /\ most \in Nat
      BY <2>3, <3>1
    <3> HIDE DEF spent, left, most
    <3>3. cost' + left <= flow.limit + most
      BY <1>1, <2>2, <2>5, <3>2
    <3>4. QED
      BY <2>4, <3>3 DEF OvershootBounded, left, most
  <2>6. QED
    BY <2>4, <2>5 DEF OvershootBounded
<1>5. ASSUME Halts PROVE OvershootBounded'
  <2>1. Cardinality(tasks') = 0
    BY <1>5, FS_EmptySet DEF Halts
  <2>2. PICK c \in 0..p : cost' = cost + c /\ (c = 0 \/ tasks # {})
    BY <1>5 DEF Halts
  <2>3. c <= p * k
    <3>1. CASE tasks = {}
      <4>1. k = 0 /\ c = 0
        BY <2>2, <3>1, FS_EmptySet
      <4>2. QED
        BY <4>1, <1>1
    <3>2. CASE tasks # {}
      <4>1. 1 <= k
        BY <1>1, <3>2, FS_EmptySet
      <4>2. p * 1 <= p * k /\ p * k \in Nat
        BY <1>1, <4>1, PriceOfTasks
      <4>3. QED
        BY <1>1, <2>2, <4>2
    <3>3. QED
      BY <3>1, <3>2
  <2>4. p * k \in Nat /\ p * peak \in Nat /\ p * 0 = 0
    BY <1>1, PriceOfTasks
  <2>5. flow' = flow /\ peak' = peak
    BY <1>5 DEF Halts
  <2>6. CASE flow.limit # NoLimit
    <3>1. cost + p * k <= flow.limit + p * peak
      BY <2>6 DEF OvershootBounded
    <3> DEFINE spent == p * k
               left == p * 0
               most == p * peak
    <3>2. /\ cost + spent <= flow.limit + most /\ c <= spent /\ left = 0
          /\ spent \in Nat /\ most \in Nat
      BY <2>3, <2>4, <3>1
    <3> HIDE DEF spent, left, most
    <3>3. cost' + left <= flow.limit + most
      BY <1>1, <2>2, <2>6, <3>2
    <3>4. QED
      BY <2>1, <2>5, <3>3 DEF OvershootBounded, left, most
  <2>7. QED
    BY <2>5, <2>6 DEF OvershootBounded
<1>6. ASSUME UNCHANGED executorVars PROVE OvershootBounded'
  BY <1>6 DEF executorVars, OvershootBounded
<1>7. QED
  BY <1>2, <1>3, <1>4, <1>5, <1>6, StepCases

\* What an execution spends beyond its budget is at most what the tasks that ran
\* at once may cost.
THEOREM OvershootBoundedAlways == ExecutorSpec => []OvershootBounded
<1>1. ExecutorInit => OvershootBounded
  <2> SUFFICES ASSUME ExecutorInit, flow.limit # NoLimit
               PROVE  cost + flow.price * Cardinality(tasks) <= flow.limit + flow.price * peak
    BY DEF OvershootBounded
  <2>1. flow.limit \in Nat /\ flow.price \in Nat
    BY FlowFacts DEF ExecutorInit
  <2>2. Cardinality(tasks) = 0 /\ cost = 0 /\ peak = 0
    BY FS_EmptySet DEF ExecutorInit
  <2>3. QED
    BY <2>1, <2>2
<1>2. ExecutorTypes /\ OvershootBounded /\ [ExecutorNext]_executorVars => OvershootBounded'
  BY OvershootPreserved
<1>3. QED
  BY <1>1, <1>2, ExecutorTypesAlways, PTL DEF ExecutorSpec

-----------------------------------------------------------------------------
(* Runs: what a loop that starts over allows *)

\* A node restarts finitely often.
LEMMA RestartsFinite ==
  ASSUME ExecutorTypes
  PROVE  /\ IsFiniteSet(flow.back \X (1..MaxIterations))
         /\ \A n \in Node : Cardinality(Restarts(n)) \in Nat
<1>1. IsFiniteSet(flow.back)
  BY FlowFacts DEF ExecutorTypes
<1>2. IsFiniteSet(1..MaxIterations)
  BY FS_Interval, ExecutorConstants
<1>3. IsFiniteSet(flow.back \X (1..MaxIterations))
  BY <1>1, <1>2, FS_Product, Zenon
<1>4. \A n \in Node : IsFiniteSet(Restarts(n))
  BY <1>3, FS_Subset DEF Restarts
<1>5. QED
  BY <1>3, <1>4, FS_CardinalityType

\* When a loop starts over, its nodes have one restart more, and none has fewer.
LEMMA RestartsGrow ==
  ASSUME ExecutorTypes, NEW t \in tasks, NEW again \in SUBSET flow.back, Finishes(t, again),
         NEW n \in Node
  PROVE  /\ Cardinality(Restarts(n)) \in Nat /\ Cardinality(Restarts(n)') \in Nat
         /\ Cardinality(Restarts(n)) <= Cardinality(Restarts(n)')
         /\ n \in Bodies(again) => Cardinality(Restarts(n)) + 1 <= Cardinality(Restarts(n)')
<1> USE DEF ExecutorTypes
<1>1. /\ flow' = flow
      /\ \A e \in flow.back : iterations[e] \in 0..MaxIterations
      /\ \A e \in flow.back : iterations'[e] = IF e \in again THEN iterations[e] + 1
                                                              ELSE iterations[e]
      /\ \A e \in again : iterations[e] + 1 \in 1..MaxIterations
  BY ExecutorConstants DEF Finishes
<1>2. IsFiniteSet(flow.back \X (1..MaxIterations))
  BY RestartsFinite
<1>3. IsFiniteSet(Restarts(n)) /\ IsFiniteSet(Restarts(n)')
  BY <1>1, <1>2, FS_Subset DEF Restarts
<1>4. Restarts(n) \subseteq Restarts(n)'
  BY <1>1, ExecutorConstants DEF Restarts
<1>5. /\ Cardinality(Restarts(n)) \in Nat /\ Cardinality(Restarts(n)') \in Nat
      /\ Cardinality(Restarts(n)) <= Cardinality(Restarts(n)')
  BY <1>3, <1>4, FS_CardinalityType, FS_Subset
<1>6. ASSUME n \in Bodies(again)
      PROVE  Cardinality(Restarts(n)) + 1 <= Cardinality(Restarts(n)')
  <2>1. PICK e \in again : n \in Body(flow, e)
    BY <1>6 DEF Bodies
  <2> DEFINE p == <<e, iterations[e] + 1>>
  <2>2. p \in flow.back \X (1..MaxIterations) /\ p[1] = e /\ p[2] = iterations[e] + 1
    BY <1>1
  <2>3. iterations'[e] = iterations[e] + 1 /\ iterations[e] \in Nat
    BY <1>1
  <2>4. ~(p[2] <= iterations[p[1]]) /\ p[2] <= iterations'[p[1]]
    BY <2>2, <2>3
  <2> HIDE DEF p
  <2>5. p \notin Restarts(n) /\ p \in Restarts(n)'
    BY <1>1, <2>1, <2>2, <2>4 DEF Restarts
  <2>6. Cardinality(Restarts(n) \cup {p}) = Cardinality(Restarts(n)) + 1
    BY <1>3, <2>5, FS_AddElement
  <2>7. Restarts(n) \cup {p} \subseteq Restarts(n)'
    BY <1>4, <2>5
  <2>8. Cardinality(Restarts(n) \cup {p}) <= Cardinality(Restarts(n)')
    BY <1>3, <2>7, FS_Subset
  <2>9. QED
    BY <2>6, <2>8
<1>7. QED
  BY <1>5, <1>6

-----------------------------------------------------------------------------
(* Loops that go back: the structure of an execution *)

Apart(m, n) == \A e \in flow.back : m \in Body(flow, e) => n \notin Body(flow, e)

Started == Queued \cup {n \in Node : runs[n] > 0}

\* The occurrence at j of the stack was pushed for good: what it depends on is
\* completed, and nothing of it runs or will run before it.
Fresh(j) ==
  \A d \in Dependencies(flow, ready[j]) :
    /\ d \in completed /\ d \notin TaskNodes
    /\ \A i \in DOMAIN ready : i > j => ready[i] # d

RunsRecorded == \A n \in TaskNodes \cup completed : runs[n] > 0
OneAtATime == flow.sequential => \A s, t \in tasks : s = t

StartedClosed == \A n \in Started : Dependencies(flow, n) \subseteq Started

\* What starts behind a loop starts after it.
ExitsWait ==
  \A n \in Started : \A m \in Dependencies(flow, n) : Apart(m, n) => m \in completed

\* The tail of a loop is in one place at a time.
TailOnce(x) ==
  /\ x \in completed => x \notin Queued /\ x \notin TaskNodes
  /\ x \in Queued => x \notin TaskNodes
  /\ \A i, j \in DOMAIN ready : ready[i] = x /\ ready[j] = x => i = j
  /\ \A s, t \in tasks : s[1] = x /\ t[1] = x => s = t
  /\ x \in TaskNodes => x \in inFlight
  /\ flow.sequential => \A j \in DOMAIN ready : ready[j] = x => Fresh(j)

TailsOnce == \A e \in flow.back : TailOnce(e[1])

LoopInv ==
  Looping(flow) /\ status = "running" => StartedClosed /\ ExitsWait /\ TailsOnce

StructInv ==
  ExecutorTypes /\ inFlight \subseteq TaskNodes /\ RunsRecorded /\ OneAtATime /\ LoopInv

\* A step of an execution whose loops go back.
Outcomes(t, again) ==
  /\ StructInv /\ Looping(flow)
  /\ t \in tasks /\ again \in SUBSET flow.back
  /\ Finishes(t, again)

\* What an outcome finds and leaves.
LEMMA OutcomeFacts ==
  ASSUME NEW t, NEW again, Outcomes(t, again)
  PROVE  /\ ExecutorTypes /\ t[1] \in Node /\ t[1] \in TaskNodes
         /\ flow \in Flows /\ flow' = flow /\ status = "running" /\ status' = status
         /\ runs' = runs /\ completed' = Finished(t, again) /\ inFlight' = Flying(t, again)
         /\ tasks' = tasks \ {t} /\ TaskNodes' \subseteq TaskNodes
         /\ StartedClosed /\ ExitsWait /\ TailsOnce
         /\ \A e \in flow.back : e[1] \in Body(flow, e)
         /\ \A e \in again : e \in flow.back /\ e[1] = t[1]
         /\ \A d, e \in flow.back : \A n \in Node :
              n \in Body(flow, d) /\ n \in Body(flow, e) => d = e
         /\ flow.sequential \/ ready = <<>>
<1>1. /\ ExecutorTypes /\ t \in tasks /\ flow \in Flows /\ LoopInv
      /\ Looping(flow) /\ again \in SUBSET flow.back
  BY DEF Outcomes, StructInv, ExecutorTypes
<1>2. t[1] \in Node /\ t[1] \in TaskNodes
  BY <1>1 DEF ExecutorTypes, TaskNodes
<1>3. /\ flow' = flow /\ status = "running" /\ status' = status
      /\ runs' = runs /\ completed' = Finished(t, again) /\ inFlight' = Flying(t, again)
      /\ tasks' = tasks \ {t}
      /\ again \subseteq BackFrom(t[1])
      /\ flow.sequential \/ ready = <<>>
  BY DEF Outcomes, Finishes, Joins
<1>4. TaskNodes' \subseteq TaskNodes
  BY <1>3 DEF TaskNodes
<1>5. StartedClosed /\ ExitsWait /\ TailsOnce
  BY <1>1, <1>3 DEF LoopInv
<1>6. \A e \in flow.back : e[1] \in Body(flow, e)
  BY <1>1 DEF Looping
<1>7. \A e \in again : e \in flow.back /\ e[1] = t[1]
  BY <1>3 DEF BackFrom
<1>8. \A d, e \in flow.back : \A n \in Node :
        n \in Body(flow, d) /\ n \in Body(flow, e) => d = e
  BY <1>1, BodiesDisjoint
<1>9. QED
  BY <1>1, <1>2, <1>3, <1>4, <1>5, <1>6, <1>7, <1>8

\* At most one loop starts over, and then only its head is pushed.
LEMMA OneLoop ==
  ASSUME NEW t, NEW again, Outcomes(t, again)
  PROVE  \/ again = {}
         \/ /\ \E e \in again : again = {e}
            /\ Newly(t[1], Finished(t, again), Flying(t, again)) = {}
<1>1. SUFFICES ASSUME NEW e \in again
               PROVE  /\ again = {e}
                      /\ Newly(t[1], Finished(t, again), Flying(t, again)) = {}
  OBVIOUS
<1>2. again = {e}
  BY OutcomeFacts
<1>3. t[1] \in Bodies(again)
  BY OutcomeFacts DEF Bodies
<1>4. t[1] \notin Finished(t, again)
  BY <1>3 DEF Finished
<1>5. ASSUME NEW d \in Newly(t[1], Finished(t, again), Flying(t, again)) PROVE FALSE
  <2>1. d \in Dependents(flow, t[1]) /\ Dependencies(flow, d) \subseteq Finished(t, again)
    BY DEF Newly
  <2>2. d \in Node
    BY <2>1 DEF Dependents
  <2>3. t[1] \in Dependencies(flow, d)
    BY <2>1, <2>2, OutcomeFacts, FlowFacts
  <2>4. QED
    BY <1>4, <2>1, <2>3
<1>6. QED
  BY <1>2, <1>5

\* No node is pushed twice.
LEMMA PushedOnce ==
  ASSUME NEW t, NEW again, Outcomes(t, again),
         NEW i \in (Len(ready) + 1)..Len(ready'), NEW j \in (Len(ready) + 1)..Len(ready'),
         ready'[i] = ready'[j]
  PROVE  i = j
<1> DEFINE new == Newly(t[1], Finished(t, again), Flying(t, again))
<1>1. PICK heads \in Orders(again), order \in Orders(new) :
        ready' = ready \o [k \in DOMAIN heads |-> heads[k][2]] \o order
  BY DEF Outcomes, Finishes
<1>2. new \subseteq Node /\ IsFiniteSet(new)
  <2>1. new \subseteq Node
    BY DEF Newly, Dependents
  <2>2. QED
    BY <2>1, NodesAreNumbers, FS_Subset
<1>3. ready \in Seq(Node) /\ Len(ready) \in Nat
  BY OutcomeFacts, LenProperties DEF ExecutorTypes
<1>4. CASE again = {}
  <2>1. [k \in DOMAIN heads |-> heads[k][2]] = <<>>
    BY <1>4, NoOrderButEmpty
  <2>2. ready' = ready \o order
    BY <1>1, <1>3, <2>1, ConcatEmptySeq
  <2>3. order \in Seq(Node) /\ \A k, l \in DOMAIN order : order[k] = order[l] => k = l
    BY <1>2, OrderFacts, SeqMonotonic
  <2>4. Len(order) \in Nat /\ DOMAIN order = 1..Len(order)
    BY <2>3, LenProperties
  <2>5. /\ Len(ready') = Len(ready) + Len(order)
        /\ \A k \in 1..(Len(ready) + Len(order)) :
             ready'[k] = IF k <= Len(ready) THEN ready[k] ELSE order[k - Len(ready)]
    BY <1>3, <2>2, <2>3, ConcatProperties
  <2>6. ready'[i] = order[i - Len(ready)] /\ ready'[j] = order[j - Len(ready)]
    BY <1>3, <2>4, <2>5
  <2>7. i - Len(ready) \in DOMAIN order /\ j - Len(ready) \in DOMAIN order
    BY <1>3, <2>4, <2>5
  <2>8. i - Len(ready) = j - Len(ready)
    BY <2>3, <2>6, <2>7
  <2>9. QED
    BY <1>3, <2>8
<1>5. CASE again # {}
  <2>1. PICK e \in again : again = {e} /\ new = {}
    BY <1>5, OneLoop
  <2>2. IsFiniteSet(again) /\ Cardinality(again) = 1
    BY <2>1, FS_Singleton
  <2>3. heads \in Seq(again) /\ Len(heads) = 1
    BY <2>2, OrderFacts
  <2>4. order = <<>>
    BY <1>1, <2>1, NoOrderButEmpty
  <2> DEFINE h == [k \in DOMAIN heads |-> heads[k][2]]
  <2>5. DOMAIN heads = 1..1
    BY <2>3, LenProperties
  <2>6. e[2] \in Node /\ heads[1] = e
    BY <2>1, <2>3, <2>5, OutcomeFacts, FlowFacts, ElementOfSeq
  <2>7. h \in [1..1 -> Node]
    BY <2>1, <2>3, <2>5, <2>6
  <2>8. h \in Seq(Node) /\ Len(h) = 1
    BY <2>7, SeqDef
  <2> HIDE DEF h
  <2>9. ready \o h \in Seq(Node) /\ Len(ready \o h) = Len(ready) + 1
    <3>1. ready \o h \in Seq(Node) /\ Len(ready \o h) = Len(ready) + Len(h)
      BY <1>3, <2>8, ConcatProperties, Zenon
    <3>2. QED
      BY <2>8, <3>1
  <2>10. ready' = ready \o h
    BY <1>1, <2>4, <2>9, ConcatEmptySeq DEF h
  <2>11. QED
    BY <1>3, <2>9, <2>10
<1>6. QED
  BY <1>4, <1>5

\* A completed dependency stays so unless its dependent starts over as well.
LEMMA StaysDone ==
  ASSUME NEW t, NEW again, Outcomes(t, again),
         NEW n \in Node, n \notin Bodies(again), NEW d \in Dependencies(flow, n), d \in completed
  PROVE  d \in Finished(t, again)
<1>1. SUFFICES ASSUME d \in Bodies(again) PROVE FALSE
  BY DEF Finished
<1>2. PICK e \in again : d \in Body(flow, e)
  BY <1>1 DEF Bodies
<1>3. e \in flow.back /\ e[1] = t[1] /\ d \in Node
  BY <1>2, OutcomeFacts, FlowFacts
<1>4. n \notin Body(flow, e) /\ n \in Dependents(flow, d)
  BY <1>3, OutcomeFacts, FlowFacts DEF Bodies
<1>5. d = t[1]
  BY <1>2, <1>3, <1>4, OutcomeFacts, BodyFacts
<1>6. d \notin TaskNodes
  BY <1>3, <1>5, OutcomeFacts DEF TailsOnce, TailOnce
<1>7. QED
  BY <1>5, <1>6, OutcomeFacts

\* A loop that starts over was entered through its head.
LEMMA HeadStarted ==
  ASSUME NEW t, NEW again, Outcomes(t, again), NEW e \in again
  PROVE  e[2] \in Started
<1> DEFINE S == Node \ Started
<1>1. e \in flow.back /\ e[1] = t[1] /\ e[1] \in Body(flow, e) /\ e[2] \in Node
  BY OutcomeFacts, FlowFacts
<1>2. t[1] \in Started
  BY OutcomeFacts DEF Started, Outcomes, StructInv, RunsRecorded
<1>3. \A m \in S : Dependents(flow, m) \subseteq S
  <2> SUFFICES ASSUME NEW m \in S, NEW d \in Dependents(flow, m), d \in Started PROVE FALSE
    BY DEF Dependents
  <2>1. d \in Node /\ m \in Dependencies(flow, d)
    BY OutcomeFacts, FlowFacts
  <2>2. Dependencies(flow, d) \subseteq Started
    BY OutcomeFacts DEF StartedClosed
  <2>3. QED
    BY <2>1, <2>2
<1>4. SUFFICES ASSUME e[2] \in S PROVE FALSE
  BY <1>1
<1>5. e[1] \in S
  BY <1>1, <1>3, <1>4 DEF Body
<1>6. QED
  BY <1>1, <1>2, <1>5

\* What a step pushes is not completed, and all it depends on is.
LEMMA PushedReady ==
  ASSUME NEW t, NEW again, Outcomes(t, again),
         NEW n \in {e[2] : e \in again} \cup Newly(t[1], Finished(t, again), Flying(t, again))
  PROVE  /\ n \in Node /\ n \notin Finished(t, again)
         /\ Dependencies(flow, n) \subseteq Finished(t, again)
<1>1. CASE n \in Newly(t[1], Finished(t, again), Flying(t, again))
  BY <1>1 DEF Newly, Dependents
<1>2. CASE n \in {e[2] : e \in again}
  <2>1. PICK e \in again : n = e[2]
    BY <1>2
  <2>2. e \in flow.back /\ n \in Body(flow, e) /\ n \in Node /\ e[1] = t[1]
    BY <2>1, OutcomeFacts, BodyFacts, FlowFacts
  <2>3. n \notin Finished(t, again)
    BY <2>1, <2>2 DEF Finished, Bodies
  <2>4. ASSUME NEW d \in Dependencies(flow, n) PROVE d \in Finished(t, again)
    <3>1. d < n /\ d \in Node
      BY <2>2, OutcomeFacts, FlowFacts
    <3>2. d \notin Body(flow, e)
      BY <2>1, <2>2, <3>1, OutcomeFacts, BodyFacts
    <3>3. Apart(d, n)
      BY <2>2, <3>2, OutcomeFacts DEF Apart
    <3>4. d \in completed
      BY <2>1, <3>3, HeadStarted, OutcomeFacts DEF ExitsWait
    <3>5. d \notin Bodies(again)
      <4> SUFFICES ASSUME NEW b \in again, d \in Body(flow, b) PROVE FALSE
        BY DEF Bodies
      <4>1. b \in flow.back /\ b[1] = t[1] /\ b[1] \in Body(flow, b)
            /\ t[1] \in Node /\ e[1] \in Body(flow, e)
        BY <2>2, OutcomeFacts
      <4>2. b = e
        BY <2>2, <4>1, OutcomeFacts
      <4>3. QED
        BY <3>2, <4>2
    <3>6. QED
      BY <3>4, <3>5 DEF Finished
  <2>5. QED
    BY <2>2, <2>3, <2>4
<1>3. QED
  BY <1>1, <1>2

\* The last task of a flow that runs one at a time.
LEMMA LastTask ==
  ASSUME NEW t, NEW again, Outcomes(t, again), flow.sequential
  PROVE  TaskNodes' = {}
<1>1. \A s \in tasks : s = t
  BY DEF Outcomes, StructInv, OneAtATime
<1>2. tasks' = {}
  BY <1>1, OutcomeFacts
<1>3. QED
  BY <1>2 DEF TaskNodes

\* What is on the stack after an outcome: what was there, and what it pushed.
LEMMA StackAfter ==
  ASSUME NEW t, NEW again, Outcomes(t, again)
  PROVE  /\ Len(ready) \in Nat /\ Len(ready') \in Nat /\ Len(ready) <= Len(ready')
         /\ DOMAIN ready = 1..Len(ready) /\ DOMAIN ready' = 1..Len(ready')
         /\ \A i \in DOMAIN ready : i \in DOMAIN ready' /\ ready'[i] = ready[i]
                                    /\ ready[i] \in Node /\ ready[i] \in Queued
         /\ \A i \in DOMAIN ready' : i \notin DOMAIN ready =>
              /\ i \in (Len(ready) + 1)..Len(ready')
              /\ ready'[i] \in {e[2] : e \in again}
                               \cup Newly(t[1], Finished(t, again), Flying(t, again))
<1>1. ExecutorTypes /\ t \in tasks /\ again \in SUBSET flow.back /\ Finishes(t, again)
  BY DEF Outcomes, StructInv
<1>2. /\ ready' \in Seq(Node)
      /\ Len(ready) \in Nat /\ Len(ready') \in Nat /\ Len(ready) <= Len(ready')
      /\ \A i \in 1..Len(ready) : ready'[i] = ready[i]
      /\ \A i \in (Len(ready) + 1)..Len(ready') :
           ready'[i] \in {e[2] : e \in again}
                         \cup Newly(t[1], Finished(t, again), Flying(t, again))
  BY <1>1, Pushed, Zenon
<1>3. /\ DOMAIN ready = 1..Len(ready) /\ DOMAIN ready' = 1..Len(ready')
      /\ \A i \in 1..Len(ready) : ready[i] \in Node
  BY <1>1, <1>2, LenProperties, ElementOfSeq DEF ExecutorTypes
<1>4. \A i \in DOMAIN ready : ready[i] \in Queued
  BY DEF Queued
<1>5. \A i \in DOMAIN ready' : i \notin DOMAIN ready => i \in (Len(ready) + 1)..Len(ready')
  BY <1>2, <1>3
<1>6. \A i \in DOMAIN ready : i \in DOMAIN ready'
  BY <1>2, <1>3
<1>7. QED
  BY <1>2, <1>3, <1>4, <1>5, <1>6, Zenon

\* One at a time: what an outcome pushes is there for good.
LEMMA NewIsFresh ==
  ASSUME NEW t, NEW again, Outcomes(t, again), flow.sequential,
         NEW j \in DOMAIN ready', j \notin DOMAIN ready
  PROVE  Fresh(j)'
<1>1. ready'[j] \in {e[2] : e \in again} \cup Newly(t[1], Finished(t, again), Flying(t, again))
  BY StackAfter
<1>2. Dependencies(flow, ready'[j]) \subseteq Finished(t, again)
  BY <1>1, PushedReady
<1>3. ASSUME NEW i \in DOMAIN ready', i > j PROVE ready'[i] \notin Finished(t, again)
  <2>1. i \notin DOMAIN ready
    BY <1>3, StackAfter
  <2>2. ready'[i] \in {e[2] : e \in again} \cup Newly(t[1], Finished(t, again), Flying(t, again))
    BY <2>1, StackAfter
  <2>3. QED
    BY <2>2, PushedReady
<1>4. flow' = flow /\ completed' = Finished(t, again) /\ TaskNodes' = {}
  BY OutcomeFacts, LastTask
<1>5. QED
  BY <1>2, <1>3, <1>4 DEF Fresh

\* What is there for good stays so unless its loop starts over.
LEMMA FreshStays ==
  ASSUME NEW t, NEW again, Outcomes(t, again),
         NEW j \in DOMAIN ready, Fresh(j), ready[j] \notin Bodies(again)
  PROVE  Fresh(j)'
<1>1. /\ ready'[j] = ready[j] /\ ready[j] \in Node /\ flow' = flow
      /\ completed' = Finished(t, again) /\ TaskNodes' \subseteq TaskNodes
  BY OutcomeFacts, StackAfter
<1>2. SUFFICES ASSUME NEW d \in Dependencies(flow, ready[j])
               PROVE  /\ d \in Finished(t, again) /\ d \notin TaskNodes
                      /\ \A i \in DOMAIN ready' : i > j => ready'[i] # d
  BY <1>1 DEF Fresh
<1>3. d \in completed /\ d \notin TaskNodes /\ \A i \in DOMAIN ready : i > j => ready[i] # d
  BY DEF Fresh
<1>4. d \in Finished(t, again)
  BY <1>1, <1>3, StaysDone
<1>5. ASSUME NEW i \in DOMAIN ready', i > j PROVE ready'[i] # d
  <2>1. CASE i \in DOMAIN ready
    BY <1>3, <1>5, <2>1, StackAfter
  <2>2. CASE i \notin DOMAIN ready
    BY <1>4, <2>2, StackAfter, PushedReady
  <2>3. QED
    BY <2>1, <2>2
<1>6. QED
  BY <1>3, <1>4, <1>5

-----------------------------------------------------------------------------
(* The structure is kept *)

\* What has started is closed under dependencies after an outcome.
LEMMA StartedAfterOutcome ==
  ASSUME NEW t, NEW again, Outcomes(t, again)
  PROVE  /\ StartedClosed' /\ ExitsWait'
<1> DEFINE new == Newly(t[1], Finished(t, again), Flying(t, again))
<1>1. Queued' = Queued \cup {e[2] : e \in again} \cup new
  BY QueuedAfterFinishes, OutcomeFacts DEF Outcomes
<1>2. /\ flow' = flow /\ runs' = runs /\ completed' = Finished(t, again)
      /\ StartedClosed /\ ExitsWait
  BY OutcomeFacts
<1>3. Started' = Started \cup new
  <2>1. {e[2] : e \in again} \subseteq Started
    BY HeadStarted
  <2>2. QED
    BY <1>1, <1>2, <2>1 DEF Started
<1>4. Finished(t, again) \subseteq Started
  BY OutcomeFacts DEF Finished, Started, Outcomes, StructInv, RunsRecorded, ExecutorTypes
<1>5. \A n \in new : Dependencies(flow, n) \subseteq Finished(t, again)
  BY PushedReady
<1>6. StartedClosed'
  BY <1>2, <1>3, <1>4, <1>5 DEF StartedClosed
<1>7. ASSUME NEW n \in Started, NEW m \in Dependencies(flow, n), Apart(m, n)
      PROVE  m \in Finished(t, again)
  <2>1. m \in completed
    BY <1>2, <1>7 DEF ExitsWait
  <2>2. CASE n \notin Bodies(again)
    <3>1. n \in Node
      BY OutcomeFacts, ElementOfSeq, LenProperties DEF Started, Queued, ExecutorTypes
    <3>2. QED
      BY <2>1, <2>2, <3>1, StaysDone
  <2>3. CASE n \in Bodies(again)
    <3>1. PICK e \in again : n \in Body(flow, e)
      BY <2>3 DEF Bodies
    <3>2. m \notin Body(flow, e)
      BY <1>7, <3>1, OutcomeFacts DEF Apart
    <3>3. \A b \in again : b = e
      BY <3>1, OneLoop
    <3>4. m \notin Bodies(again)
      BY <3>2, <3>3 DEF Bodies
    <3>5. QED
      BY <2>1, <3>4 DEF Finished
  <2>4. QED
    BY <2>2, <2>3
<1>8. \A m, n : Apart(m, n)' <=> Apart(m, n)
  BY <1>2 DEF Apart
<1>9. ExitsWait'
  BY <1>2, <1>3, <1>5, <1>7, <1>8 DEF ExitsWait
<1>10. QED
  BY <1>6, <1>9

\* The tail of a loop is in one place after an outcome.
LEMMA TailsAfterOutcome ==
  ASSUME NEW t, NEW again, Outcomes(t, again)
  PROVE  TailsOnce'
<1> DEFINE new == Newly(t[1], Finished(t, again), Flying(t, again))
           heads == {b[2] : b \in again}
<1>1. Queued' = Queued \cup heads \cup new
  BY QueuedAfterFinishes, OutcomeFacts DEF Outcomes
<1>2. /\ flow' = flow /\ completed' = Finished(t, again) /\ inFlight' = Flying(t, again)
      /\ tasks' = tasks \ {t} /\ TaskNodes' \subseteq TaskNodes /\ t[1] \in TaskNodes
  BY OutcomeFacts
<1>3. SUFFICES ASSUME NEW e \in flow.back PROVE TailOnce(e[1])'
  BY <1>2 DEF TailsOnce
<1> DEFINE x == e[1]
<1>4. /\ TailOnce(x) /\ x \in Node /\ x \in Body(flow, e)
      /\ e[2] \in Body(flow, e)
  BY OutcomeFacts, FlowFacts, BodyFacts DEF TailsOnce
\* The loops that start over hold this tail only if it is the task's node.
<1>5. x \in Bodies(again) => x = t[1] /\ e \in again
  <2> SUFFICES ASSUME NEW b \in again, x \in Body(flow, b) PROVE x = t[1] /\ e \in again
    BY DEF Bodies
  <2>1. b = e
    BY <1>4, OutcomeFacts
  <2>2. QED
    BY <2>1, OutcomeFacts
<1>6. x \in heads => x = t[1]
  <2> SUFFICES ASSUME NEW b \in again, x = b[2] PROVE x = t[1]
    OBVIOUS
  <2>1. x \in Body(flow, b)
    BY OutcomeFacts, BodyFacts
  <2>2. QED
    BY <1>5, <2>1 DEF Bodies
<1>7. heads \cap Finished(t, again) = {} /\ new \cap Finished(t, again) = {}
  BY PushedReady
<1>8. x = t[1] => x \notin TaskNodes'
  <2>1. x = t[1] => \A s \in tasks : s[1] = x => s = t
    BY <1>4 DEF TailOnce, Outcomes
  <2>2. QED
    BY <1>2, <2>1 DEF TaskNodes
<1>9. x \in Finished(t, again) => x \notin Queued' /\ x \notin TaskNodes'
  <2>1. CASE x = t[1]
    BY <1>1, <1>2, <1>4, <1>7, <1>8, <2>1 DEF TailOnce
  <2>2. CASE x # t[1] /\ x \in Finished(t, again)
    <3>1. x \in completed
      BY <2>2 DEF Finished
    <3>2. QED
      BY <1>1, <1>2, <1>4, <1>7, <2>2, <3>1 DEF TailOnce
  <2>3. QED
    BY <2>1, <2>2
<1>10. x \in Queued' => x \notin TaskNodes'
  <2>1. CASE x \in Queued
    BY <1>2, <1>4, <2>1 DEF TailOnce
  <2>2. CASE x \in heads
    BY <1>6, <1>8, <2>2
  <2>3. CASE x \in new
    <3>1. x \notin Flying(t, again)
      BY <2>3 DEF Newly
    <3>2. SUFFICES ASSUME x \in TaskNodes PROVE x = t[1]
      BY <1>2, <1>8
    <3>3. x \in inFlight
      BY <1>4, <3>2 DEF TailOnce
    <3>4. QED
      BY <1>5, <3>1, <3>3 DEF Flying
  <2>4. QED
    BY <1>1, <2>1, <2>2, <2>3
<1>11. ASSUME x \in Queued PROVE x \notin heads \cup new
  <2>1. x # t[1]
    BY <1>2, <1>4, <1>11 DEF TailOnce
  <2>2. x \notin heads
    BY <1>6, <2>1
  <2>3. ASSUME x \in new PROVE FALSE
    <3>1. flow.sequential
      BY <1>11, OutcomeFacts DEF Queued
    <3>2. PICK j \in DOMAIN ready : ready[j] = x
      BY <1>11 DEF Queued
    <3>3. Fresh(j)
      BY <1>4, <3>1, <3>2 DEF TailOnce
    <3>4. t[1] \in Dependencies(flow, x)
      BY <1>4, <2>3, OutcomeFacts, FlowFacts DEF Newly
    <3>5. QED
      BY <1>2, <3>2, <3>3, <3>4 DEF Fresh
  <2>4. QED
    BY <2>2, <2>3
<1>12. ASSUME NEW i \in DOMAIN ready', NEW j \in DOMAIN ready', ready'[i] = x, ready'[j] = x
       PROVE  i = j
  <2>1. CASE i \in DOMAIN ready /\ j \in DOMAIN ready
    <3>1. ready[i] = x /\ ready[j] = x
      BY <1>12, <2>1, StackAfter
    <3>2. QED
      BY <1>4, <2>1, <3>1 DEF TailOnce
  <2>2. CASE i \notin DOMAIN ready /\ j \notin DOMAIN ready
    <3>1. i \in (Len(ready) + 1)..Len(ready') /\ j \in (Len(ready) + 1)..Len(ready')
      BY <2>2, StackAfter
    <3>2. QED
      BY <1>12, <3>1, PushedOnce
  <2>3. CASE i \in DOMAIN ready /\ j \notin DOMAIN ready
    <3>1. x \in Queued /\ x \in heads \cup new
      BY <1>12, <2>3, StackAfter
    <3>2. QED
      BY <1>11, <3>1
  <2>4. CASE i \notin DOMAIN ready /\ j \in DOMAIN ready
    <3>1. x \in Queued /\ x \in heads \cup new
      BY <1>12, <2>4, StackAfter
    <3>2. QED
      BY <1>11, <3>1
  <2>5. QED
    BY <2>1, <2>2, <2>3, <2>4
<1>13. \A s, r \in tasks' : s[1] = x /\ r[1] = x => s = r
  BY <1>2, <1>4 DEF TailOnce
<1>14. x \in TaskNodes' => x \in Flying(t, again)
  <2> SUFFICES ASSUME x \in TaskNodes' PROVE x \in Flying(t, again)
    OBVIOUS
  <2>1. x # t[1]
    BY <1>8
  <2>2. x \in inFlight
    BY <1>2, <1>4 DEF TailOnce
  <2>3. QED
    BY <1>5, <2>1, <2>2 DEF Flying
<1>15. ASSUME flow.sequential, NEW j \in DOMAIN ready', ready'[j] = x
       PROVE  Fresh(j)'
  <2>1. CASE j \notin DOMAIN ready
    BY <1>15, <2>1, NewIsFresh
  <2>2. CASE j \in DOMAIN ready
    <3>1. ready[j] = x /\ x \in Queued
      BY <1>15, <2>2, StackAfter
    <3>2. Fresh(j) /\ x \notin TaskNodes
      BY <1>4, <1>15, <2>2, <3>1 DEF TailOnce
    <3>3. x \notin Bodies(again)
      BY <1>2, <1>5, <3>2
    <3>4. QED
      BY <2>2, <3>1, <3>2, <3>3, FreshStays
  <2>3. QED
    BY <2>1, <2>2
<1>16. QED
  BY <1>2, <1>9, <1>10, <1>12, <1>13, <1>14, <1>15 DEF TailOnce

\* The stack after its last node is taken off.
LEMMA StackAfterPop ==
  ASSUME ExecutorTypes, NEW n \in Node, Pops(n), ready' = Front(ready)
  PROVE  /\ Len(ready) \in Nat \ {0} /\ Len(ready) \in DOMAIN ready
         /\ ready[Len(ready)] = n
         /\ DOMAIN ready' = DOMAIN ready \ {Len(ready)}
         /\ \A i \in DOMAIN ready' : i < Len(ready) /\ ready'[i] = ready[i]
         /\ \A i \in DOMAIN ready : ready[i] \in Queued
         /\ DOMAIN ready = 1..Len(ready)
<1>1. /\ Len(ready) \in Nat \ {0} /\ ready[Len(ready)] = n
      /\ ready' \in Seq(Node) /\ Len(ready') = Len(ready) - 1
      /\ \A i \in 1..(Len(ready) - 1) : ready'[i] = ready[i]
  BY Popped
<1>2. DOMAIN ready = 1..Len(ready) /\ DOMAIN ready' = 1..(Len(ready) - 1)
  BY <1>1, LenProperties DEF ExecutorTypes
<1>3. QED
  BY <1>1, <1>2 DEF Queued

\* Spawning the node above does not change what is there for good.
LEMMA FreshAfterSpawn ==
  ASSUME ExecutorTypes, NEW n \in Node, Spawn(n), NEW j \in DOMAIN ready', Fresh(j)
  PROVE  Fresh(j)'
<1>1. /\ ready' = Front(ready) /\ Pops(n) /\ flow' = flow /\ completed' = completed
      /\ TaskNodes' = TaskNodes \cup {n}
  BY TasksAfterSpawn DEF Spawn
<1>2. /\ Len(ready) \in DOMAIN ready /\ ready[Len(ready)] = n
      /\ DOMAIN ready' = DOMAIN ready \ {Len(ready)}
      /\ \A i \in DOMAIN ready' : i < Len(ready) /\ ready'[i] = ready[i]
  BY <1>1, StackAfterPop
<1>3. QED
  BY <1>1, <1>2 DEF Fresh

\* Neither does dropping it.
LEMMA FreshAfterDrop ==
  ASSUME ExecutorTypes, NEW n \in Node, Drop(n), NEW j \in DOMAIN ready', Fresh(j)
  PROVE  Fresh(j)'
<1>1. /\ ready' = Front(ready) /\ Pops(n) /\ flow' = flow /\ completed' = completed
      /\ tasks' = tasks
  BY DEF Drop
<1>2. /\ DOMAIN ready' = DOMAIN ready \ {Len(ready)}
      /\ \A i \in DOMAIN ready' : i < Len(ready) /\ ready'[i] = ready[i]
  BY <1>1, StackAfterPop
<1>3. QED
  BY <1>1, <1>2 DEF Fresh, TaskNodes

\* A node that is taken off the stack has been recorded or is recorded now.
LEMMA LoopInvAfterSpawn ==
  ASSUME StructInv, NEW n \in Node, Spawn(n)
  PROVE  LoopInv'
<1>1. /\ ready' = Front(ready) /\ Pops(n) /\ flow' = flow /\ completed' = completed
      /\ TaskNodes' = TaskNodes \cup {n} /\ status' = status
      /\ inFlight' = inFlight \cup {n} /\ tasks' = tasks \cup {<<n, runs'[n]>>}
      /\ runs' = [runs EXCEPT ![n] = @ + 1] /\ runs \in [Node -> Nat] /\ ExecutorTypes
  BY TasksAfterSpawn DEF Spawn, StructInv, ExecutorTypes
<1>2. /\ n \in Queued /\ Queued' \subseteq Queued /\ Queued \subseteq Queued' \cup {n}
  BY <1>1, QueuedAfterPop
<1>3. Started' = Started
  BY <1>1, <1>2 DEF Started
<1>4. SUFFICES ASSUME Looping(flow), status = "running"
               PROVE  StartedClosed' /\ ExitsWait' /\ TailsOnce'
  BY <1>1 DEF LoopInv
<1>5. StartedClosed /\ ExitsWait /\ TailsOnce
  BY <1>4 DEF StructInv, LoopInv
<1>6. StartedClosed' /\ ExitsWait'
  BY <1>1, <1>3, <1>5 DEF StartedClosed, ExitsWait, Apart
<1>7. ASSUME NEW e \in flow.back PROVE TailOnce(e[1])'
  <2> DEFINE x == e[1]
  <2>1. TailOnce(x)
    BY <1>5 DEF TailsOnce
  <2> HIDE DEF x
  <2>2. /\ Len(ready) \in DOMAIN ready /\ ready[Len(ready)] = n
        /\ DOMAIN ready' = DOMAIN ready \ {Len(ready)}
        /\ \A i \in DOMAIN ready' : i < Len(ready) /\ ready'[i] = ready[i]
    BY <1>1, StackAfterPop
  <2>3. x \in completed' => x \notin Queued' /\ x \notin TaskNodes'
    BY <1>1, <1>2, <2>1 DEF TailOnce
  <2>4. x \in Queued' => x \notin TaskNodes'
    <3>1. ASSUME x \in Queued', x = n PROVE FALSE
      <4>1. PICK i \in DOMAIN ready' : ready'[i] = x
        BY <3>1 DEF Queued
      <4>2. i = Len(ready)
        BY <2>1, <2>2, <3>1, <4>1 DEF TailOnce
      <4>3. QED
        BY <2>2, <4>2
    <3>2. QED
      BY <1>1, <1>2, <2>1, <3>1 DEF TailOnce
  <2>5. \A i, j \in DOMAIN ready' : ready'[i] = x /\ ready'[j] = x => i = j
    BY <2>1, <2>2 DEF TailOnce
  <2>6. \A s, t \in tasks' : s[1] = x /\ t[1] = x => s = t
    <3>1. x \in TaskNodes => x # n
      BY <1>2, <2>1 DEF TailOnce
    <3>2. <<n, runs'[n]>>[1] = n
      OBVIOUS
    <3>3. QED
      BY <1>1, <2>1, <3>1, <3>2 DEF TailOnce, TaskNodes
  <2>7. x \in TaskNodes' => x \in inFlight'
    BY <1>1, <2>1 DEF TailOnce
  <2>8. ASSUME flow'.sequential, NEW j \in DOMAIN ready', ready'[j] = x PROVE Fresh(j)'
    <3>1. Fresh(j)
      BY <1>1, <2>1, <2>2, <2>8 DEF TailOnce
    <3>2. QED
      BY <1>1, <3>1, FreshAfterSpawn
  <2>9. TailOnce(x)'
    BY <2>3, <2>4, <2>5, <2>6, <2>7, <2>8 DEF TailOnce
  <2>10. QED
    BY <2>9 DEF x
<1>8. TailsOnce'
  BY <1>1, <1>7 DEF TailsOnce
<1>9. QED
  BY <1>6, <1>8

\* A node that is dropped is in flight, and was recorded when it was spawned.
LEMMA LoopInvAfterDrop ==
  ASSUME StructInv, NEW n \in Node, Drop(n)
  PROVE  LoopInv'
<1>1. /\ ready' = Front(ready) /\ Pops(n) /\ flow' = flow /\ completed' = completed
      /\ TaskNodes' = TaskNodes /\ status' = status
      /\ inFlight' = inFlight /\ tasks' = tasks /\ runs' = runs /\ ExecutorTypes
  BY DEF Drop, StructInv, TaskNodes
<1>2. /\ n \in Queued /\ Queued' \subseteq Queued /\ Queued \subseteq Queued' \cup {n}
  BY <1>1, QueuedAfterPop
<1>3. runs[n] > 0
  BY DEF Drop, StructInv, RunsRecorded
<1>4. Started' = Started
  BY <1>1, <1>2, <1>3 DEF Started
<1>5. SUFFICES ASSUME Looping(flow), status = "running"
               PROVE  StartedClosed' /\ ExitsWait' /\ TailsOnce'
  BY <1>1 DEF LoopInv
<1>6. StartedClosed /\ ExitsWait /\ TailsOnce
  BY <1>5 DEF StructInv, LoopInv
<1>7. StartedClosed' /\ ExitsWait'
  BY <1>1, <1>4, <1>6 DEF StartedClosed, ExitsWait, Apart
<1>8. ASSUME NEW e \in flow.back PROVE TailOnce(e[1])'
  <2> DEFINE x == e[1]
  <2>1. TailOnce(x)
    BY <1>6 DEF TailsOnce
  <2> HIDE DEF x
  <2>2. /\ DOMAIN ready' = DOMAIN ready \ {Len(ready)}
        /\ \A i \in DOMAIN ready' : i < Len(ready) /\ ready'[i] = ready[i]
    BY <1>1, StackAfterPop
  <2>3. ASSUME flow'.sequential, NEW j \in DOMAIN ready', ready'[j] = x PROVE Fresh(j)'
    <3>1. Fresh(j)
      BY <1>1, <2>1, <2>2, <2>3 DEF TailOnce
    <3>2. QED
      BY <1>1, <3>1, FreshAfterDrop
  <2>4. TailOnce(x)'
    BY <1>1, <1>2, <2>1, <2>2, <2>3 DEF TailOnce
  <2>5. QED
    BY <2>4 DEF x
<1>9. TailsOnce'
  BY <1>1, <1>8 DEF TailsOnce
<1>10. QED
  BY <1>7, <1>9

\* The structure holds of the first stack.
LEMMA StructInit == ExecutorInit => StructInv
<1> SUFFICES ASSUME ExecutorInit PROVE StructInv
  OBVIOUS
<1> DEFINE first == {n \in Node : Dependencies(flow, n) = {}}
<1>1. IsFiniteSet(first)
  BY NodesAreNumbers, FS_Subset
<1>2. /\ Queued = first
      /\ \A i, j \in DOMAIN ready : ready[i] = ready[j] => i = j
  BY <1>1, OrderFacts DEF ExecutorInit, Queued
<1>3. \A i \in DOMAIN ready : Dependencies(flow, ready[i]) = {}
  BY <1>2 DEF Queued
<1>4. TaskNodes = {} /\ completed = {} /\ inFlight = {} /\ tasks = {}
      /\ \A n \in Node : runs[n] = 0
  BY DEF ExecutorInit, TaskNodes
<1>5. Started = first
  BY <1>2, <1>4 DEF Started
<1>6. StartedClosed /\ ExitsWait
  BY <1>5 DEF StartedClosed, ExitsWait
<1>7. \A x : TailOnce(x)
  BY <1>2, <1>3, <1>4 DEF TailOnce, Fresh
<1>8. QED
  BY <1>4, <1>6, <1>7, ExecutorInitTypes
     DEF StructInv, RunsRecorded, OneAtATime, LoopInv, TailsOnce

\* Every step keeps the structure.
LEMMA StructPreserved ==
  ASSUME StructInv, [ExecutorNext]_executorVars
  PROVE  StructInv'
<1>1. ExecutorTypes /\ ExecutorTypes'
  BY ExecutorTypesPreserved DEF StructInv
<1>2. ASSUME NEW n \in Node, Drop(n) PROVE StructInv'
  <2>1. LoopInv'
    BY <1>2, LoopInvAfterDrop
  <2>2. QED
    BY <1>1, <1>2, <2>1 DEF Drop, StructInv, RunsRecorded, OneAtATime, TaskNodes
<1>3. ASSUME NEW n \in Node, Spawn(n) PROVE StructInv'
  <2>1. LoopInv'
    BY <1>3, LoopInvAfterSpawn
  <2>2. /\ TaskNodes' = TaskNodes \cup {n} /\ inFlight' = inFlight \cup {n}
        /\ completed' = completed /\ runs' = [runs EXCEPT ![n] = @ + 1]
        /\ flow' = flow /\ tasks' = tasks \cup {<<n, runs'[n]>>}
        /\ flow.sequential => tasks = {}
    BY <1>3, TasksAfterSpawn DEF Spawn, Pops
  <2>3. \A m \in Node : runs[m] \in Nat /\ runs'[m] = IF m = n THEN runs[m] + 1 ELSE runs[m]
    BY <1>1, <2>2 DEF ExecutorTypes
  <2>4. TaskNodes' \cup completed' \subseteq Node
    BY <1>1 DEF ExecutorTypes, TaskNodes
  <2>5. RunsRecorded'
    BY <2>2, <2>3, <2>4 DEF StructInv, RunsRecorded
  <2>6. OneAtATime'
    BY <2>2 DEF StructInv, OneAtATime
  <2>7. QED
    BY <1>1, <2>1, <2>2, <2>5, <2>6 DEF StructInv
<1>4. ASSUME NEW t \in tasks, NEW again \in SUBSET flow.back, Finishes(t, again)
      PROVE  StructInv'
  <2>1. LoopInv'
    <3>1. CASE Looping(flow)
      BY <1>4, <3>1, StartedAfterOutcome, TailsAfterOutcome DEF Outcomes, LoopInv
    <3>2. CASE ~Looping(flow)
      BY <1>4, <3>2 DEF Finishes, LoopInv
    <3>3. QED
      BY <3>1, <3>2
  <2>2. /\ tasks' \subseteq tasks /\ TaskNodes' \subseteq TaskNodes /\ t[1] \in TaskNodes
        /\ flow' = flow /\ runs' = runs /\ completed' \subseteq completed \cup {t[1]}
    BY <1>4 DEF Finishes, Finished, TaskNodes
  <2>3. inFlight' \subseteq TaskNodes'
    BY <1>4 DEF Finishes, Flying, StructInv, TaskNodes
  <2>4. QED
    BY <1>1, <2>1, <2>2, <2>3 DEF StructInv, RunsRecorded, OneAtATime
<1>5. ASSUME Halts PROVE StructInv'
  BY <1>1, <1>5 DEF Halts, StructInv, RunsRecorded, OneAtATime, LoopInv, TaskNodes
<1>6. ASSUME UNCHANGED executorVars PROVE StructInv'
  BY <1>1, <1>6 DEF executorVars, StructInv, RunsRecorded, OneAtATime, LoopInv, TaskNodes,
     StartedClosed, ExitsWait, Apart, Started, Queued, TailsOnce, TailOnce, Fresh
<1>7. QED
  BY <1>1, <1>2, <1>3, <1>4, <1>5, <1>6, StepCases

\* Loops that go back keep their structure.
THEOREM StructAlways == ExecutorSpec => []StructInv
BY StructInit, StructPreserved, PTL DEF ExecutorSpec

-----------------------------------------------------------------------------
(* No node starts before its inputs *)

\* What a node waits for, directly or not.
Below(n) ==
  {d \in Node : \A S \in SUBSET Node :
     Dependencies(flow, n) \subseteq S /\ (\A m \in S : Dependencies(flow, m) \subseteq S)
       => d \in S}

\* What a node waits for includes its dependencies and what they wait for.
LEMMA BelowFacts ==
  ASSUME flow \in Flows, NEW n \in Node
  PROVE  /\ Below(n) \subseteq Node
         /\ Dependencies(flow, n) \subseteq Below(n)
         /\ \A d \in Below(n) : Dependencies(flow, d) \subseteq Below(n)
         /\ \A S \in SUBSET Node :
              Dependencies(flow, n) \subseteq S /\ (\A m \in S : Dependencies(flow, m) \subseteq S)
                => Below(n) \subseteq S
<1>1. Dependencies(flow, n) \subseteq Node
  BY FlowFacts
<1>2. ASSUME NEW d \in Below(n), NEW m \in Dependencies(flow, d) PROVE m \in Below(n)
  <2>1. d \in Node
    BY DEF Below
  <2>2. m \in Node
    BY <2>1, FlowFacts
  <2>3. QED
    BY <2>2 DEF Below
<1>3. QED
  BY <1>1, <1>2 DEF Below

ParallelInputs == ~flow.sequential => \A n \in Queued : Dependencies(flow, n) \subseteq completed

SequentialInputs ==
  flow.sequential => \A n \in completed \cup TaskNodes : Dependencies(flow, n) \subseteq completed

\* One at a time: what a node on the stack still waits for comes before it.
SourcesAbove ==
  flow.sequential =>
    \A j \in DOMAIN ready : \A d \in Below(ready[j]) :
      d \notin completed /\ Dependencies(flow, d) \subseteq completed
        => d \in inFlight \/ \E i \in DOMAIN ready : i > j /\ ready[i] = d

InputsInv ==
  /\ StructInv
  /\ Looping(flow) /\ status = "running"
       => ParallelInputs /\ SequentialInputs /\ SourcesAbove

\* The node on top of the stack has its inputs.
LEMMA SpawnHasInputs ==
  ASSUME InputsInv, Looping(flow), NEW n \in Node, Spawn(n)
  PROVE  Dependencies(flow, n) \subseteq completed
<1>1. /\ ExecutorTypes /\ flow \in Flows /\ Pops(n) /\ ready' = Front(ready)
      /\ status = "running" /\ ParallelInputs /\ SequentialInputs /\ SourcesAbove
  BY DEF InputsInv, StructInv, ExecutorTypes, Spawn, Pops
<1>2. n \in Queued
  BY <1>1, QueuedAfterPop
<1>3. CASE ~flow.sequential
  BY <1>1, <1>2, <1>3 DEF ParallelInputs
<1>4. CASE flow.sequential
  <2>1. inFlight = {}
    BY <1>1, <1>4 DEF Pops, InputsInv, StructInv, TaskNodes
  <2>2. /\ Len(ready) \in DOMAIN ready /\ ready[Len(ready)] = n
        /\ \A i \in DOMAIN ready : ~(i > Len(ready))
    BY <1>1, StackAfterPop
  <2>3. Below(n) \subseteq completed
    <3>1. SUFFICES ASSUME Below(n) \ completed # {} PROVE FALSE
      OBVIOUS
    <3>2. PICK x \in Below(n) \ completed : \A y \in Below(n) \ completed : ~(y < x)
      BY <1>1, <3>1, BelowFacts, MinimalNode
    <3>3. x \in Node /\ Dependencies(flow, x) \subseteq Below(n)
      BY <1>1, <3>2, BelowFacts
    <3>4. Dependencies(flow, x) \subseteq completed
      BY <1>1, <3>2, <3>3, FlowFacts
    <3>5. QED
      BY <1>1, <1>4, <2>1, <2>2, <3>2, <3>4 DEF SourcesAbove
  <2>4. QED
    BY <1>1, <2>3, BelowFacts
<1>5. QED
  BY <1>3, <1>4

\* An outcome leaves above each node what that node still waits for.
LEMMA InputsAfterOutcome ==
  ASSUME NEW t, NEW again, Outcomes(t, again),
         ParallelInputs, SequentialInputs, SourcesAbove
  PROVE  ParallelInputs' /\ SequentialInputs' /\ SourcesAbove'
<1> DEFINE new == {b[2] : b \in again} \cup Newly(t[1], Finished(t, again), Flying(t, again))
<1>1. /\ flow' = flow /\ completed' = Finished(t, again) /\ inFlight' = Flying(t, again)
      /\ flow \in Flows /\ ExecutorTypes /\ t[1] \in Node /\ t[1] \in TaskNodes
  BY OutcomeFacts
<1>2. Queued' = Queued \cup new
  BY QueuedAfterFinishes, OutcomeFacts DEF Outcomes
<1>3. \A n \in new : n \in Node /\ Dependencies(flow, n) \subseteq Finished(t, again)
  BY PushedReady
<1>4. ParallelInputs'
  <2>1. ~flow.sequential => Queued = {}
    BY OutcomeFacts DEF Queued
  <2>2. QED
    BY <1>1, <1>2, <1>3, <2>1 DEF ParallelInputs
<1>5. SequentialInputs'
  <2> SUFFICES ASSUME flow.sequential, NEW n \in Finished(t, again),
                      NEW d \in Dependencies(flow, n)
               PROVE  d \in Finished(t, again)
    BY <1>1, LastTask DEF SequentialInputs
  <2>1. n \in Node /\ n \notin Bodies(again) /\ n \in completed \cup TaskNodes
    BY <1>1 DEF Finished, ExecutorTypes
  <2>2. d \in completed
    BY <2>1 DEF SequentialInputs
  <2>3. QED
    BY <2>1, <2>2, StaysDone
<1>6. \A m \in new : \E i \in (Len(ready) + 1)..Len(ready') : ready'[i] = m
  <2>1. ExecutorTypes /\ t \in tasks /\ again \in SUBSET flow.back /\ Finishes(t, again)
    BY DEF Outcomes, StructInv
  <2>2. QED
    BY <2>1, Pushed, Zenon
<1>7. SourcesAbove'
  <2>1. \A n : Below(n)' = Below(n)
    BY <1>1 DEF Below
  <2> SUFFICES ASSUME flow.sequential, NEW j \in DOMAIN ready', NEW d \in Below(ready'[j]),
                      d \notin Finished(t, again),
                      Dependencies(flow, d) \subseteq Finished(t, again),
                      d \notin Flying(t, again)
               PROVE  \E i \in DOMAIN ready' : i > j /\ ready'[i] = d
    BY <1>1, <2>1 DEF SourcesAbove
  <2>2. CASE j \notin DOMAIN ready
    <3>1. ready'[j] \in Node /\ Dependencies(flow, ready'[j]) \subseteq Finished(t, again)
      BY <1>3, <2>2, StackAfter
    <3>2. Finished(t, again) \subseteq Node
      BY <1>1 DEF Finished, ExecutorTypes
    <3>3. \A m \in Finished(t, again) : Dependencies(flow, m) \subseteq Finished(t, again)
      BY <1>1, <1>5 DEF SequentialInputs
    <3>4. Below(ready'[j]) \subseteq Finished(t, again)
      BY <1>1, <3>1, <3>2, <3>3, BelowFacts
    <3>5. QED
      BY <3>4
  <2>3. CASE j \in DOMAIN ready
    <3>1. ready'[j] = ready[j] /\ ready[j] \in Node
      BY <2>3, StackAfter
    <3>2. d \in Node /\ d \in Below(ready[j])
      BY <3>1 DEF Below
    <3>3. CASE d \in new
      <4>1. PICK i \in (Len(ready) + 1)..Len(ready') : ready'[i] = d
        BY <1>6, <3>3
      <4>2. i \in DOMAIN ready' /\ i > j
        BY <2>3, <4>1, StackAfter
      <4>3. QED
        BY <4>1, <4>2
    <3>4. CASE d \notin new
      <4>1. d \notin Bodies(again)
        <5> SUFFICES ASSUME NEW b \in again, d \in Body(flow, b) PROVE FALSE
          BY DEF Bodies
        <5>1. b \in flow.back /\ d # b[2]
          BY <3>4, OutcomeFacts
        <5>2. PICK m \in Body(flow, b) : m \in Dependencies(flow, d)
          BY <1>1, <5>1, BodyFacts
        <5>3. m \notin Finished(t, again)
          BY <5>2 DEF Finished, Bodies
        <5>4. QED
          BY <5>2, <5>3
      <4>2. d \notin completed /\ d # t[1] /\ d \notin inFlight
        BY <4>1 DEF Finished, Flying
      <4>3. t[1] \notin Dependencies(flow, d)
        <5>1. ASSUME t[1] \in Dependencies(flow, d) PROVE d \in new
          <6>1. d \in Dependents(flow, t[1])
            BY <1>1, <3>2, <5>1, FlowFacts
          <6>2. QED
            BY <6>1 DEF Newly
        <5>2. QED
          BY <3>4, <5>1
      <4>4. Dependencies(flow, d) \subseteq completed
        BY <4>3 DEF Finished
      <4>5. PICK i \in DOMAIN ready : i > j /\ ready[i] = d
        BY <2>3, <3>2, <4>2, <4>4 DEF SourcesAbove
      <4>6. QED
        BY <4>5, StackAfter
    <3>5. QED
      BY <3>3, <3>4
  <2>4. QED
    BY <2>2, <2>3
<1>8. QED
  BY <1>4, <1>5, <1>7

\* Taking a node off the stack leaves the others what they wait for.
LEMMA InputsAfterPop ==
  ASSUME InputsInv, Looping(flow), status = "running", NEW n \in Node, Drop(n) \/ Spawn(n)
  PROVE  ParallelInputs' /\ SequentialInputs' /\ SourcesAbove'
<1>1. /\ ExecutorTypes /\ flow \in Flows /\ ParallelInputs /\ SequentialInputs /\ SourcesAbove
  BY DEF InputsInv, StructInv, ExecutorTypes
<1>2. /\ Pops(n) /\ ready' = Front(ready) /\ flow' = flow /\ completed' = completed
      /\ inFlight \subseteq inFlight' /\ n \in inFlight'
  BY DEF Drop, Spawn
<1>3. Queued' \subseteq Queued
  BY <1>1, <1>2, QueuedAfterPop
<1>4. ParallelInputs'
  BY <1>1, <1>2, <1>3 DEF ParallelInputs
<1>5. SequentialInputs'
  <2>1. CASE Spawn(n)
    <3>1. TaskNodes' = TaskNodes \cup {n} /\ Dependencies(flow, n) \subseteq completed
      BY <2>1, TasksAfterSpawn, SpawnHasInputs
    <3>2. QED
      BY <1>1, <1>2, <3>1 DEF SequentialInputs
  <2>2. CASE Drop(n)
    BY <1>1, <1>2, <2>2 DEF SequentialInputs, Drop, TaskNodes
  <2>3. QED
    BY <2>1, <2>2
<1>6. SourcesAbove'
  <2>1. \A m : Below(m)' = Below(m)
    BY <1>2 DEF Below
  <2>2. /\ ready[Len(ready)] = n
        /\ DOMAIN ready' = DOMAIN ready \ {Len(ready)}
        /\ \A i \in DOMAIN ready' : ready'[i] = ready[i]
    BY <1>1, <1>2, StackAfterPop
  <2> SUFFICES ASSUME flow.sequential, NEW j \in DOMAIN ready', NEW d \in Below(ready'[j]),
                      d \notin completed, Dependencies(flow, d) \subseteq completed,
                      d \notin inFlight'
               PROVE  \E i \in DOMAIN ready' : i > j /\ ready'[i] = d
    BY <1>2, <2>1 DEF SourcesAbove
  <2>3. j \in DOMAIN ready /\ d \in Below(ready[j]) /\ d \notin inFlight /\ d # n
    BY <1>2, <2>2
  <2>4. PICK i \in DOMAIN ready : i > j /\ ready[i] = d
    BY <1>1, <2>3 DEF SourcesAbove
  <2>5. i \in DOMAIN ready'
    BY <2>2, <2>3, <2>4
  <2>6. QED
    BY <2>2, <2>4, <2>5
<1>7. QED
  BY <1>4, <1>5, <1>6

\* The first nodes wait for nothing.
LEMMA InputsInit == ExecutorInit => InputsInv
<1> SUFFICES ASSUME ExecutorInit PROVE InputsInv
  OBVIOUS
<1> DEFINE first == {n \in Node : Dependencies(flow, n) = {}}
<1>1. IsFiniteSet(first) /\ flow \in Flows
  BY NodesAreNumbers, FS_Subset DEF ExecutorInit
<1>2. Queued = first
  BY <1>1, OrderFacts DEF ExecutorInit, Queued
<1>3. \A i \in DOMAIN ready : ready[i] \in Node /\ Dependencies(flow, ready[i]) = {}
  BY <1>2 DEF Queued
<1>4. \A i \in DOMAIN ready : Below(ready[i]) = {}
  BY <1>1, <1>3, BelowFacts
<1>5. ParallelInputs /\ SequentialInputs /\ SourcesAbove
  BY <1>2, <1>4 DEF ExecutorInit, ParallelInputs, SequentialInputs, SourcesAbove, TaskNodes
<1>6. QED
  BY <1>5, StructInit DEF InputsInv

\* Every step keeps the inputs of what is on the stack in order.
LEMMA InputsPreserved ==
  ASSUME InputsInv, [ExecutorNext]_executorVars
  PROVE  InputsInv'
<1>1. StructInv /\ StructInv' /\ ExecutorTypes
  BY StructPreserved DEF InputsInv, StructInv
<1>2. ASSUME NEW n \in Node, Drop(n) \/ Spawn(n) PROVE InputsInv'
  <2>1. flow' = flow /\ status' = status
    BY <1>2 DEF Drop, Spawn
  <2>2. QED
    BY <1>1, <1>2, <2>1, InputsAfterPop DEF InputsInv
<1>3. ASSUME NEW t \in tasks, NEW again \in SUBSET flow.back, Finishes(t, again)
      PROVE  InputsInv'
  <2>1. flow' = flow /\ status' = status
    BY <1>3 DEF Finishes
  <2>2. Looping(flow) => Outcomes(t, again)
    BY <1>1, <1>3 DEF Outcomes
  <2>3. QED
    BY <1>1, <2>1, <2>2, InputsAfterOutcome DEF InputsInv
<1>4. ASSUME Halts PROVE InputsInv'
  BY <1>1, <1>4 DEF Halts, InputsInv
<1>5. ASSUME UNCHANGED executorVars PROVE InputsInv'
  BY <1>1, <1>5 DEF executorVars, InputsInv, ParallelInputs, SequentialInputs, SourcesAbove,
     Below, Queued, TaskNodes
<1>6. QED
  BY <1>1, <1>2, <1>3, <1>4, <1>5, StepCases

\* Only spawning runs a node.
LEMMA OnlySpawnRuns ==
  ASSUME ExecutorTypes, [ExecutorNext]_executorVars, NEW n \in Node, runs'[n] > runs[n]
  PROVE  Spawn(n)
<1>1. runs[n] \in Nat
  BY DEF ExecutorTypes
<1>2. ASSUME NEW m \in Node, Spawn(m) PROVE m = n
  BY <1>1, <1>2 DEF Spawn, ExecutorTypes
<1>3. ASSUME runs' = runs PROVE FALSE
  BY <1>1, <1>3
<1>4. QED
  BY <1>2, <1>3, StepCases DEF Drop, Finishes, Halts, executorVars

\* In a flow whose loops go back no node is spawned before every node it depends on
\* is completed, one at a time or all at once, and however often loops start over.
THEOREM InputsReadyAlways == ExecutorSpec => InputsReady
<1>1. ASSUME InputsInv, [ExecutorNext]_executorVars
      PROVE  [Looping(flow) => \A n \in Node :
                runs'[n] > runs[n] => Dependencies(flow, n) \subseteq completed]_executorVars
  BY <1>1, OnlySpawnRuns, SpawnHasInputs DEF InputsInv, StructInv
<1>2. ExecutorInit => InputsInv
  BY InputsInit
<1>3. InputsInv /\ [ExecutorNext]_executorVars => InputsInv'
  BY InputsPreserved
<1>4. QED
  BY <1>1, <1>2, <1>3, PTL DEF ExecutorSpec, InputsReady

-----------------------------------------------------------------------------
(* A node runs once, and once more for each time its loop starts over *)

\* The places of a node on the stack.
Places(n) == {i \in DOMAIN ready : ready[i] = n}

\* Whether a node may still be pushed without its loop starting over.
Owed(n) ==
  IF n \in completed \cup inFlight \/ \E j \in Places(n) : Fresh(j) THEN 0 ELSE 1

ParallelRuns ==
  ~flow.sequential /\ status = "running" =>
    /\ Queued \cap completed = {}
    /\ \A n \in Node \ (completed \cup inFlight) : runs[n] <= Cardinality(Restarts(n))

SequentialRuns ==
  Looping(flow) /\ flow.sequential /\ status = "running" =>
    \A n \in Node :
      runs[n] + Cardinality(Places(n)) + Owed(n) <= 1 + Cardinality(Restarts(n))

RunsWithin == Looping(flow) \/ ~flow.sequential => RunsBounded

RunsInv == StructInv /\ ParallelRuns /\ SequentialRuns /\ RunsWithin

\* A node has finitely many places on the stack.
LEMMA PlacesFinite ==
  ASSUME NEW n \in Node
  PROVE  /\ ready \in Seq(Node) => IsFiniteSet(Places(n)) /\ Cardinality(Places(n)) \in Nat
         /\ ready' \in Seq(Node) => IsFiniteSet(Places(n)') /\ Cardinality(Places(n)') \in Nat
<1>1. ASSUME NEW s \in Seq(Node)
      PROVE  /\ IsFiniteSet({i \in DOMAIN s : s[i] = n})
             /\ Cardinality({i \in DOMAIN s : s[i] = n}) \in Nat
  <2>1. Len(s) \in Nat /\ DOMAIN s = 1..Len(s)
    BY LenProperties
  <2>2. IsFiniteSet(DOMAIN s)
    BY <2>1, FS_Interval
  <2>3. IsFiniteSet({i \in DOMAIN s : s[i] = n})
    BY <2>2, FS_Subset
  <2>4. QED
    BY <2>3, FS_CardinalityType
<1>2. QED
  BY <1>1 DEF Places

\* An outcome pushes a node at most once.
LEMMA PlacesAfterOutcome ==
  ASSUME NEW t, NEW again, Outcomes(t, again), NEW n \in Node
  PROVE  /\ Cardinality(Places(n)) \in Nat /\ Cardinality(Places(n)') \in Nat
         /\ Cardinality(Places(n)') <= Cardinality(Places(n)) + 1
         /\ \/ Cardinality(Places(n)') = Cardinality(Places(n))
            \/ \E j \in Places(n)' : j \notin DOMAIN ready
<1>1. ready \in Seq(Node) /\ ready' \in Seq(Node)
  BY OutcomeFacts, Pushed DEF ExecutorTypes, Outcomes
<1>2. /\ IsFiniteSet(Places(n)) /\ Cardinality(Places(n)) \in Nat
      /\ IsFiniteSet(Places(n)') /\ Cardinality(Places(n)') \in Nat
  BY <1>1, PlacesFinite
<1>3. Places(n) \subseteq Places(n)' /\ \A i \in Places(n)' : i \in DOMAIN ready => i \in Places(n)
  BY StackAfter DEF Places
<1>4. CASE \E j \in Places(n)' : j \notin DOMAIN ready
  <2>1. PICK j \in Places(n)' : j \notin DOMAIN ready
    BY <1>4
  <2>2. ASSUME NEW i \in Places(n)', i \notin DOMAIN ready PROVE i = j
    <3>1. /\ i \in (Len(ready) + 1)..Len(ready') /\ j \in (Len(ready) + 1)..Len(ready')
          /\ ready'[i] = ready'[j]
      BY <2>1, <2>2, StackAfter DEF Places
    <3>2. QED
      BY <3>1, PushedOnce
  <2>3. Places(n)' \subseteq Places(n) \cup {j}
    BY <1>3, <2>2
  <2>4. j \notin Places(n)
    BY <2>1 DEF Places
  <2>5. IsFiniteSet(Places(n) \cup {j}) /\ Cardinality(Places(n) \cup {j}) = Cardinality(Places(n)) + 1
    BY <1>2, <2>4, FS_AddElement
  <2>6. Cardinality(Places(n)') <= Cardinality(Places(n) \cup {j})
    BY <2>3, <2>5, FS_Subset
  <2>7. QED
    BY <1>2, <1>4, <2>5, <2>6
<1>5. CASE \A j \in Places(n)' : j \in DOMAIN ready
  <2>1. Places(n)' = Places(n)
    BY <1>3, <1>5
  <2>2. QED
    BY <1>2, <2>1
<1>6. QED
  BY <1>4, <1>5

\* What is pushed for good is not pushed again.
LEMMA OwedAfterOutcome ==
  ASSUME NEW t, NEW again, Outcomes(t, again), flow.sequential, NEW n \in Node
  PROVE  /\ Owed(n) \in {0, 1} /\ Owed(n)' \in {0, 1}
         /\ (\E j \in Places(n)' : j \notin DOMAIN ready) => Owed(n)' = 0
         /\ n \notin Bodies(again) /\ Owed(n) = 0 => Owed(n)' = 0
         /\ n \in Newly(t[1], Finished(t, again), Flying(t, again)) /\ n \notin Bodies(again)
              => Owed(n) = 1
<1>1. Owed(n) \in {0, 1} /\ Owed(n)' \in {0, 1}
  BY DEF Owed
<1>2. ASSUME NEW j \in Places(n)', j \notin DOMAIN ready PROVE Owed(n)' = 0
  <2>1. Fresh(j)'
    BY <1>2, NewIsFresh DEF Places
  <2>2. QED
    BY <1>2, <2>1 DEF Owed
<1>3. ASSUME n \notin Bodies(again), Owed(n) = 0 PROVE Owed(n)' = 0
  <2>1. n \in completed \cup inFlight \/ \E j \in Places(n) : Fresh(j)
    BY <1>3 DEF Owed
  <2>2. CASE n \in completed \cup inFlight
    <3>1. n \in completed' \cup inFlight'
      BY <1>3, <2>2, OutcomeFacts DEF Finished, Flying
    <3>2. QED
      BY <3>1 DEF Owed
  <2>3. CASE \E j \in Places(n) : Fresh(j)
    <3>1. PICK j \in Places(n) : Fresh(j)
      BY <2>3
    <3>2. j \in DOMAIN ready /\ ready[j] = n
      BY DEF Places
    <3>3. Fresh(j)'
      BY <1>3, <3>1, <3>2, FreshStays
    <3>4. j \in Places(n)'
      BY <3>2, StackAfter DEF Places
    <3>5. QED
      BY <3>3, <3>4 DEF Owed
  <2>4. QED
    BY <2>1, <2>2, <2>3
<1>4. ASSUME n \in Newly(t[1], Finished(t, again), Flying(t, again)), n \notin Bodies(again)
      PROVE  Owed(n) = 1
  <2>1. n \notin completed \cup inFlight
    BY <1>4 DEF Newly, Finished, Flying
  <2>2. t[1] \in Dependencies(flow, n) /\ t[1] \in TaskNodes
    BY <1>4, OutcomeFacts, FlowFacts DEF Newly
  <2>3. \A j \in Places(n) : ~Fresh(j)
    BY <2>2 DEF Fresh, Places
  <2>4. QED
    BY <2>1, <2>3 DEF Owed
<1>5. QED
  BY <1>1, <1>2, <1>3, <1>4

\* One at a time: an outcome pushes what has not run in this round of its loop.
LEMMA SequentialAfterOutcome ==
  ASSUME SequentialRuns, NEW t, NEW again, Outcomes(t, again), flow.sequential, NEW n \in Node
  PROVE  /\ (runs[n] + Cardinality(Places(n)) + Owed(n) <= 1 + Cardinality(Restarts(n)))'
         /\ (runs[n] <= 1 + Cardinality(Restarts(n)))'
<1> DEFINE p == Cardinality(Places(n))
           q == Cardinality(Places(n)')
           r == Cardinality(Restarts(n))
           s == Cardinality(Restarts(n)')
           pushed == \E j \in Places(n)' : j \notin DOMAIN ready
<1>1. runs' = runs /\ runs[n] \in Nat
  BY OutcomeFacts DEF ExecutorTypes
<1>2. runs[n] + p + Owed(n) <= 1 + r
  BY OutcomeFacts DEF SequentialRuns, Outcomes
<1>3. /\ p \in Nat /\ q \in Nat /\ q <= p + 1 /\ (q = p \/ pushed)
  BY PlacesAfterOutcome
<1>4. r \in Nat /\ s \in Nat /\ r <= s /\ (n \in Bodies(again) => r + 1 <= s)
  BY RestartsGrow, OutcomeFacts DEF Outcomes
<1>5. /\ Owed(n) \in {0, 1} /\ Owed(n)' \in {0, 1}
      /\ pushed => Owed(n)' = 0
      /\ n \notin Bodies(again) /\ Owed(n) = 0 => Owed(n)' = 0
      /\ n \in Newly(t[1], Finished(t, again), Flying(t, again)) /\ n \notin Bodies(again)
           => Owed(n) = 1
  BY OwedAfterOutcome
<1>6. ASSUME pushed, n \notin Bodies(again) PROVE Owed(n) = 1
  <2>1. n \in {e[2] : e \in again} \cup Newly(t[1], Finished(t, again), Flying(t, again))
    BY <1>6, StackAfter DEF Places
  <2>2. n \notin {e[2] : e \in again}
    BY <1>6, OutcomeFacts, BodyFacts DEF Bodies
  <2>3. QED
    BY <1>5, <1>6, <2>1, <2>2
<1> HIDE DEF p, q, r, s, pushed
<1>7. runs[n] + q + Owed(n)' <= 1 + s /\ runs[n] <= 1 + s
  <2>1. CASE n \in Bodies(again)
    BY <1>1, <1>2, <1>3, <1>4, <1>5, <2>1
  <2>2. CASE n \notin Bodies(again) /\ pushed
    BY <1>1, <1>2, <1>3, <1>4, <1>5, <1>6, <2>2
  <2>3. CASE n \notin Bodies(again) /\ ~pushed
    BY <1>1, <1>2, <1>3, <1>4, <1>5, <2>3
  <2>4. QED
    BY <2>1, <2>2, <2>3
<1>8. QED
  BY <1>1, <1>7 DEF q, s

\* One at a time: the node that is spawned leaves the stack.
LEMMA SequentialAfterSpawn ==
  ASSUME StructInv, SequentialRuns, Looping(flow), flow.sequential, status = "running",
         NEW m \in Node, Spawn(m), NEW n \in Node
  PROVE  /\ (runs[n] + Cardinality(Places(n)) + Owed(n) <= 1 + Cardinality(Restarts(n)))'
         /\ (runs[n] <= 1 + Cardinality(Restarts(n)))'
<1> DEFINE p == Cardinality(Places(n))
           q == Cardinality(Places(n)')
           r == Cardinality(Restarts(n))
<1>1. /\ ExecutorTypes /\ Pops(m) /\ ready' = Front(ready)
      /\ runs' = [runs EXCEPT ![m] = @ + 1] /\ inFlight' = inFlight \cup {m}
      /\ completed' = completed /\ UNCHANGED <<flow, iterations>>
  BY DEF StructInv, Spawn
<1>2. runs[n] \in Nat /\ runs'[n] = IF n = m THEN runs[n] + 1 ELSE runs[n]
  BY <1>1 DEF ExecutorTypes
<1>3. runs[n] + p + Owed(n) <= 1 + r
  BY DEF SequentialRuns
<1>4. Restarts(n)' = Restarts(n) /\ r \in Nat
  BY <1>1, RestartsFinite DEF Restarts
<1>5. ready \in Seq(Node) /\ ready' \in Seq(Node)
  BY <1>1, Popped DEF ExecutorTypes
<1>6. IsFiniteSet(Places(n)) /\ p \in Nat /\ IsFiniteSet(Places(n)') /\ q \in Nat
  BY <1>5, PlacesFinite
<1>7. /\ Len(ready) \in DOMAIN ready /\ ready[Len(ready)] = m
      /\ DOMAIN ready' = DOMAIN ready \ {Len(ready)}
      /\ \A i \in DOMAIN ready' : ready'[i] = ready[i]
  BY <1>1, StackAfterPop
<1>8. Places(n)' = Places(n) \ {Len(ready)}
  BY <1>7 DEF Places
<1>9. Owed(n) \in {0, 1} /\ Owed(n)' \in {0, 1}
  BY DEF Owed
<1>10. CASE n = m
  <2>1. Len(ready) \in Places(n)
    BY <1>7, <1>10 DEF Places
  <2>2. q = p - 1
    BY <1>6, <1>8, <2>1, FS_RemoveElement
  <2>3. Owed(n)' = 0
    BY <1>1, <1>10 DEF Owed
  <2> HIDE DEF p, q, r
  <2>4. runs'[n] + q + Owed(n)' <= 1 + r /\ runs'[n] <= 1 + r
    BY <1>2, <1>3, <1>4, <1>6, <1>9, <1>10, <2>2, <2>3
  <2>5. QED
    BY <1>4, <2>4 DEF q, r
<1>11. CASE n # m
  <2>1. Places(n)' = Places(n)
    BY <1>7, <1>8, <1>11 DEF Places
  <2>2. ASSUME Owed(n) = 0 PROVE Owed(n)' = 0
    <3>1. n \in completed \cup inFlight \/ \E j \in Places(n) : Fresh(j)
      BY <2>2 DEF Owed
    <3>2. ASSUME NEW j \in Places(n), Fresh(j) PROVE Fresh(j)'
      <4>1. j \in DOMAIN ready'
        BY <2>1 DEF Places
      <4>2. QED
        BY <1>1, <3>2, <4>1, FreshAfterSpawn
    <3>3. n \in completed' \cup inFlight' \/ \E j \in Places(n)' : Fresh(j)'
      BY <1>1, <2>1, <3>1, <3>2
    <3>4. QED
      BY <3>3 DEF Owed
  <2>3. p = q
    BY <2>1
  <2> HIDE DEF p, q, r
  <2>4. runs'[n] + q + Owed(n)' <= 1 + r /\ runs'[n] <= 1 + r
    BY <1>2, <1>3, <1>4, <1>6, <1>9, <1>11, <2>2, <2>3
  <2>5. QED
    BY <1>4, <2>4 DEF q, r
<1>12. QED
  BY <1>10, <1>11

\* All at once: what an outcome pushes is neither completed nor in flight.
LEMMA ParallelAfterOutcome ==
  ASSUME RunsInv, ~flow.sequential,
         NEW t \in tasks, NEW again \in SUBSET flow.back, Finishes(t, again)
  PROVE  /\ ParallelRuns'
         /\ \A n \in Node : runs'[n] <= 1 + Cardinality(Restarts(n)')
<1>1. /\ status = "running" /\ ready = <<>> /\ runs' = runs /\ flow' = flow
      /\ completed' = Finished(t, again) /\ inFlight' = Flying(t, again)
  BY DEF Finishes, Joins
<1>2. ExecutorTypes /\ ParallelRuns /\ RunsBounded
  BY DEF RunsInv, StructInv, RunsWithin
<1>3. Queued = {}
  BY <1>1 DEF Queued
<1>4. Queued' = {e[2] : e \in again} \cup Newly(t[1], Finished(t, again), Flying(t, again))
  BY <1>2, <1>3, QueuedAfterFinishes
<1>5. {e[2] : e \in again} \subseteq Bodies(again)
  BY <1>2, BodyFacts DEF Bodies, ExecutorTypes
<1>6. Queued' \cap completed' = {}
  BY <1>1, <1>4, <1>5 DEF Finished, Newly
<1>7. ASSUME NEW n \in Node
      PROVE  /\ n \notin completed' \cup inFlight' => runs[n] <= Cardinality(Restarts(n)')
             /\ runs[n] <= 1 + Cardinality(Restarts(n)')
  <2> DEFINE r == Cardinality(Restarts(n))
             s == Cardinality(Restarts(n)')
  <2>1. r \in Nat /\ s \in Nat /\ r <= s /\ (n \in Bodies(again) => r + 1 <= s)
    BY <1>2, RestartsGrow
  <2>2. runs[n] \in Nat /\ runs[n] <= 1 + r
    BY <1>2 DEF RunsBounded, ExecutorTypes
  <2>3. n \notin completed' \cup inFlight' => n \in Bodies(again) \/ n \notin completed \cup inFlight
    BY <1>1 DEF Finished, Flying
  <2>4. n \notin completed \cup inFlight => runs[n] <= r
    BY <1>1, <1>2 DEF ParallelRuns
  <2> HIDE DEF r, s
  <2>5. /\ n \notin completed' \cup inFlight' => runs[n] <= s
        /\ runs[n] <= 1 + s
    BY <2>1, <2>2, <2>3, <2>4
  <2>6. QED
    BY <2>5 DEF s
<1>8. QED
  BY <1>1, <1>6, <1>7 DEF ParallelRuns

\* All at once: what is spawned was neither completed nor in flight.
LEMMA ParallelAfterSpawn ==
  ASSUME RunsInv, ~flow.sequential, NEW m \in Node, Spawn(m)
  PROVE  ParallelRuns' /\ RunsBounded'
<1>1. /\ status = "running" /\ Pops(m) /\ ready' = Front(ready) /\ m \notin inFlight
      /\ runs' = [runs EXCEPT ![m] = @ + 1] /\ inFlight' = inFlight \cup {m}
      /\ completed' = completed /\ UNCHANGED <<flow, iterations>>
  BY DEF Spawn, Pops
<1>2. ExecutorTypes /\ ParallelRuns /\ RunsBounded
  BY DEF RunsInv, StructInv, RunsWithin
<1>3. m \in Queued /\ Queued' \subseteq Queued
  BY <1>1, <1>2, QueuedAfterPop
<1>4. \A n \in Node : Restarts(n)' = Restarts(n) /\ Cardinality(Restarts(n)) \in Nat
  BY <1>1, <1>2, RestartsFinite DEF Restarts
<1>5. \A n \in Node : /\ runs[n] \in Nat
                      /\ runs'[n] = IF n = m THEN runs[n] + 1 ELSE runs[n]
  BY <1>1, <1>2 DEF ExecutorTypes
<1>6. runs[m] <= Cardinality(Restarts(m))
  BY <1>1, <1>2, <1>3 DEF ParallelRuns
<1>7. ASSUME NEW n \in Node PROVE runs'[n] <= 1 + Cardinality(Restarts(n))
  <2> DEFINE r == Cardinality(Restarts(n))
  <2>1. r \in Nat /\ runs[n] <= 1 + r /\ (n = m => runs[n] <= r)
    BY <1>2, <1>4, <1>6 DEF RunsBounded
  <2> HIDE DEF r
  <2>2. runs'[n] <= 1 + r
    BY <1>5, <2>1
  <2>3. QED
    BY <2>2 DEF r
<1>8. RunsBounded'
  BY <1>4, <1>7 DEF RunsBounded
<1>9. ParallelRuns'
  BY <1>1, <1>2, <1>3, <1>4, <1>5 DEF ParallelRuns
<1>10. QED
  BY <1>8, <1>9

\* Nothing has run, and what is on the stack is there once and for good.
LEMMA RunsInit == ExecutorInit => RunsInv
<1> SUFFICES ASSUME ExecutorInit PROVE RunsInv
  OBVIOUS
<1> DEFINE first == {n \in Node : Dependencies(flow, n) = {}}
<1>1. StructInv /\ ExecutorTypes
  BY StructInit, ExecutorInitTypes
<1>2. \A n \in Node : runs[n] = 0 /\ Cardinality(Restarts(n)) \in Nat
  BY <1>1, RestartsFinite DEF ExecutorInit
<1>3. RunsBounded
  BY <1>2 DEF RunsBounded
<1>4. ParallelRuns
  BY <1>2 DEF ExecutorInit, ParallelRuns
<1>5. IsFiniteSet(first)
  BY NodesAreNumbers, FS_Subset
<1>6. /\ {ready[i] : i \in DOMAIN ready} = first
      /\ \A i, j \in DOMAIN ready : ready[i] = ready[j] => i = j
  BY <1>5, OrderFacts DEF ExecutorInit
<1>7. ASSUME NEW n \in Node PROVE Cardinality(Places(n)) + Owed(n) <= 1
  <2>1. CASE Places(n) = {}
    <3>1. Cardinality(Places(n)) = 0
      BY <2>1, FS_EmptySet
    <3>2. Owed(n) \in {0, 1}
      BY DEF Owed
    <3>3. QED
      BY <3>1, <3>2
  <2>2. CASE Places(n) # {}
    <3>1. PICK j \in DOMAIN ready : ready[j] = n
      BY <2>2 DEF Places
    <3>2. Places(n) = {j}
      BY <1>6, <3>1 DEF Places
    <3>3. Cardinality(Places(n)) = 1
      BY <3>2, FS_Singleton
    <3>4. Fresh(j)
      BY <1>6, <3>1 DEF Fresh
    <3>5. Owed(n) = 0
      BY <3>2, <3>4 DEF Owed
    <3>6. QED
      BY <3>3, <3>5
  <2>3. QED
    BY <2>1, <2>2
<1>8. SequentialRuns
  <2> SUFFICES ASSUME NEW n \in Node
               PROVE  runs[n] + Cardinality(Places(n)) + Owed(n) <= 1 + Cardinality(Restarts(n))
    BY DEF SequentialRuns
  <2> DEFINE p == Cardinality(Places(n))
             r == Cardinality(Restarts(n))
  <2>1. p \in Nat /\ Owed(n) \in {0, 1}
    BY <1>1, PlacesFinite DEF ExecutorTypes, Owed
  <2>2. runs[n] = 0 /\ r \in Nat /\ p + Owed(n) <= 1
    BY <1>2, <1>7
  <2> HIDE DEF p, r
  <2>3. runs[n] + p + Owed(n) <= 1 + r
    BY <2>1, <2>2
  <2>4. QED
    BY <2>3 DEF p, r
<1>9. QED
  BY <1>1, <1>3, <1>4, <1>8 DEF RunsInv, RunsWithin

\* Every step keeps within the bound.
LEMMA RunsPreserved ==
  ASSUME RunsInv, [ExecutorNext]_executorVars
  PROVE  RunsInv'
<1>1. /\ StructInv /\ StructInv' /\ ExecutorTypes /\ ExecutorTypes'
      /\ ParallelRuns /\ SequentialRuns /\ RunsWithin
  BY StructPreserved DEF RunsInv, StructInv
<1>2. ASSUME NEW m \in Node, Drop(m) PROVE RunsInv'
  <2>1. /\ status = "running" /\ Pops(m) /\ ready' = Front(ready) /\ m \in inFlight
        /\ flow.sequential => tasks = {}
        /\ UNCHANGED <<flow, status, inFlight, completed, iterations, runs>>
    BY <1>2 DEF Drop, Pops
  <2>2. ~flow.sequential
    BY <1>1, <2>1 DEF StructInv, TaskNodes
  <2>3. Queued' \subseteq Queued
    BY <1>1, <2>1, QueuedAfterPop
  <2>4. \A n \in Node : Restarts(n)' = Restarts(n)
    BY <2>1 DEF Restarts
  <2>5. QED
    BY <1>1, <2>1, <2>2, <2>3, <2>4
       DEF RunsInv, ParallelRuns, SequentialRuns, RunsWithin, RunsBounded
<1>3. ASSUME NEW m \in Node, Spawn(m) PROVE RunsInv'
  <2>1. flow' = flow /\ status' = status /\ status = "running"
    BY <1>3 DEF Spawn, Pops
  <2>2. CASE ~flow.sequential
    BY <1>1, <1>3, <2>1, <2>2, ParallelAfterSpawn DEF RunsInv, SequentialRuns, RunsWithin
  <2>3. CASE flow.sequential /\ Looping(flow)
    <3>1. SequentialRuns'
      BY <1>1, <1>3, <2>1, <2>3, SequentialAfterSpawn DEF SequentialRuns
    <3>2. RunsBounded'
      BY <1>1, <1>3, <2>1, <2>3, SequentialAfterSpawn DEF RunsBounded
    <3>3. QED
      BY <1>1, <2>1, <2>3, <3>1, <3>2 DEF RunsInv, ParallelRuns, RunsWithin
  <2>4. CASE flow.sequential /\ ~Looping(flow)
    BY <1>1, <2>1, <2>4 DEF RunsInv, ParallelRuns, SequentialRuns, RunsWithin
  <2>5. QED
    BY <2>2, <2>3, <2>4
<1>4. ASSUME NEW t \in tasks, NEW again \in SUBSET flow.back, Finishes(t, again)
      PROVE  RunsInv'
  <2>1. flow' = flow /\ status' = status /\ status = "running"
    BY <1>4 DEF Finishes, Joins
  <2>2. CASE ~flow.sequential
    <3>1. ParallelRuns' /\ RunsBounded'
      BY <1>4, <2>2, ParallelAfterOutcome DEF RunsBounded
    <3>2. QED
      BY <1>1, <2>1, <2>2, <3>1 DEF RunsInv, SequentialRuns, RunsWithin
  <2>3. CASE flow.sequential /\ Looping(flow)
    <3>1. Outcomes(t, again)
      BY <1>1, <1>4, <2>3 DEF Outcomes
    <3>2. SequentialRuns'
      BY <1>1, <2>1, <2>3, <3>1, SequentialAfterOutcome DEF SequentialRuns
    <3>3. RunsBounded'
      BY <1>1, <2>1, <2>3, <3>1, SequentialAfterOutcome DEF RunsBounded
    <3>4. QED
      BY <1>1, <2>1, <2>3, <3>2, <3>3 DEF RunsInv, ParallelRuns, RunsWithin
  <2>4. CASE flow.sequential /\ ~Looping(flow)
    BY <1>1, <2>1, <2>4 DEF RunsInv, ParallelRuns, SequentialRuns, RunsWithin
  <2>5. QED
    BY <2>2, <2>3, <2>4
<1>5. ASSUME Halts PROVE RunsInv'
  BY <1>1, <1>5
     DEF Halts, RunsInv, ParallelRuns, SequentialRuns, RunsWithin, RunsBounded, Restarts
<1>6. ASSUME UNCHANGED executorVars PROVE RunsInv'
  BY <1>1, <1>6 DEF executorVars, RunsInv, ParallelRuns, SequentialRuns, RunsWithin, RunsBounded,
     Restarts, Places, Owed, Fresh, Queued, TaskNodes
<1>7. QED
  BY <1>2, <1>3, <1>4, <1>5, <1>6, <1>1, StepCases

\* In a flow whose loops go back, and in any that runs its nodes all at once, a
\* node runs once and once more for each time that a loop it belongs to starts
\* over, whatever is skipped, retried or repeated: the stack holds no node that
\* is owed no run.
THEOREM RunsBoundedAlways ==
  ExecutorSpec => [](Looping(flow) \/ ~flow.sequential => RunsBounded)
<1>1. RunsInv => (Looping(flow) \/ ~flow.sequential => RunsBounded)
  BY DEF RunsInv, RunsWithin
<1>2. QED
  BY <1>1, RunsInit, RunsPreserved, PTL DEF ExecutorSpec
=============================================================================
