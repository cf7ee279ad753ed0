---------------------------- MODULE FlowExecutor ----------------------------
(***************************************************************************)
(* The executor of a flow: nodes whose forward dependencies are completed  *)
(* are spawned as tasks of a JoinSet, all of them or one at a time, and    *)
(* the outcomes are taken one by one.  A back-edge whose guard holds takes *)
(* the nodes of its loop out of the completed ones and starts over.        *)
(*                                                                         *)
(* The executor is one task; node handlers run beside it and read only     *)
(* what they were given, so that an outcome is one step, with the retries  *)
(* that the executor makes before it goes on.  Node results, the reference *)
(* tier and the checkpoints, which nobody loads, are left out.             *)
(***************************************************************************)
EXTENDS Integers, Sequences, FiniteSets

CONSTANTS
  N,              \* nodes of a flow, numbered in topological order
  Flows,          \* the definitions that may be executed
  MaxIterations,  \* max_iterations of every back-edge
  Multiplier,     \* FLOW_CIRCUIT_BREAKER_MULTIPLIER
  NoLimit         \* a flow without budget_limit_usd

Node == 1..N

VARIABLES
  flow,        \* the definition: forward and back edges, mode, budget, price
  status,      \* how the execution stands
  ready,       \* the stack of nodes to spawn
  tasks,       \* running tasks of each node, the JoinSet
  inFlight,    \* in_flight
  completed,   \* completed
  iterations,  \* loop_iterations
  cost,        \* cumulative_cost_usd
  runs,        \* history: how often each node was spawned
  peak         \* history: the most tasks that ever ran at once

executorVars == <<flow, status, ready, tasks, inFlight, completed, iterations, cost, runs, peak>>

-----------------------------------------------------------------------------
(* Flows *)

Edges == SUBSET (Node \X Node)

\* A cycle of forward edges has no topological order.
IsFlow(f) ==
  /\ f.forward \in Edges /\ \A e \in f.forward : e[1] < e[2]
  /\ f.back \in Edges
  /\ f.sequential \in BOOLEAN
  /\ f.limit \in Nat \cup {NoLimit}
  /\ f.price \in Nat

Dependencies(f, n) == {m \in Node : <<m, n>> \in f.forward}
Dependents(f, n) == {m \in Node : <<n, m>> \in f.forward}

\* What the search from the head of a back-edge visits that does not go past
\* its tail.
Body(f, e) ==
  {n \in Node : \A S \in SUBSET Node :
    e[2] \in S /\ (\A m \in S \ {e[1]} : Dependents(f, m) \subseteq S) => n \in S}

\* Loops that share nodes are rejected.
Build(f) == \A d, e \in f.back : d # e => Body(f, d) \cap Body(f, e) = {}

ASSUME ExecutorConstants ==
  /\ N \in Nat \ {0} /\ MaxIterations \in Nat /\ Multiplier \in Nat
  /\ NoLimit \notin Nat
  /\ \A f \in Flows : IsFlow(f) /\ Build(f)

-----------------------------------------------------------------------------
(* The ready stack and the JoinSet *)

\* A set in some order: that of the edges in the definition.
Orders(S) ==
  {s \in [1..Cardinality(S) -> S] : \A i, j \in DOMAIN s : s[i] = s[j] => i = j}

Front(s) == SubSeq(s, 1, Len(s) - 1)

ExecutorInit ==
  /\ flow \in Flows
  /\ status = "running"
  /\ ready \in Orders({n \in Node : Dependencies(flow, n) = {}})
  /\ tasks = {} /\ inFlight = {} /\ completed = {}
  /\ iterations = [e \in flow.back |-> 0]
  /\ cost = 0
  /\ runs = [n \in Node |-> 0] /\ peak = 0

\* The execution is over, c having been spent last: the JoinSet is shut down
\* or dropped.
Stop(s, c) ==
  /\ status' = s
  /\ cost' = cost + c
  /\ ready' = <<>> /\ tasks' = {} /\ inFlight' = {}
  /\ UNCHANGED <<flow, completed, iterations, runs, peak>>

-----------------------------------------------------------------------------
(* Spawning *)

Pops(n) ==
  /\ status = "running" /\ ready # <<>> /\ n = ready[Len(ready)]
  /\ flow.sequential => tasks = {}

\* Already in flight: it is dropped.
Drop(n) ==
  /\ Pops(n) /\ n \in inFlight
  /\ ready' = Front(ready)
  /\ UNCHANGED <<flow, status, tasks, inFlight, completed, iterations, cost, runs, peak>>

\* Mutant: only the estimate is held against the limit.
OverEstimate(estimate) ==
  flow.limit # NoLimit /\ estimate > 0 /\ cost + estimate > flow.limit

OverBudget(estimate) ==
  /\ flow.limit # NoLimit
  /\ cost > flow.limit \/ (estimate > 0 /\ cost + estimate > flow.limit)

Refuse(n) ==
  /\ Pops(n) /\ n \notin inFlight
  /\ \E estimate \in 0..flow.price : OverBudget(estimate)
  /\ Stop("failed", 0)

Spawn(n) ==
  /\ Pops(n) /\ n \notin inFlight
  /\ ~OverBudget(0)
  /\ ready' = Front(ready)
  /\ inFlight' = inFlight \cup {n}
  /\ runs' = [runs EXCEPT ![n] = @ + 1]
  /\ tasks' = tasks \cup {<<n, runs'[n]>>}
  /\ peak' = IF Cardinality(tasks') > peak THEN Cardinality(tasks') ELSE peak
  /\ UNCHANGED <<flow, status, completed, iterations, cost>>

-----------------------------------------------------------------------------
(* Outcomes *)

\* Mutant: nothing is waited for while a node is ready, one at a time or not.
JoinsDrained(t) == status = "running" /\ t \in tasks /\ ready = <<>>

Joins(t) ==
  /\ status = "running" /\ t \in tasks
  /\ flow.sequential \/ ready = <<>>

\* Mutant: one completed dependency is enough.
NewlyAny(n, done, flying) == Dependents(flow, n) \ (done \cup flying)

\* Mutant: dependents that ran or run already are started again.
NewlyAgain(n, done, flying) ==
  {d \in Dependents(flow, n) : Dependencies(flow, d) \subseteq done}

\* Which dependents of n have nothing left to wait for.
Newly(n, done, flying) ==
  {d \in Dependents(flow, n) \ (done \cup flying) : Dependencies(flow, d) \subseteq done}

\* Mutant: dependents of a node that did not succeed are forgotten.
SettleAlone(t, c) ==
  /\ Joins(t)
  /\ tasks' = tasks \ {t}
  /\ inFlight' = inFlight \ {t[1]}
  /\ completed' = completed \cup {t[1]}
  /\ cost' = cost + c
  /\ UNCHANGED <<flow, status, ready, iterations, runs, peak>>

\* A node that failed and is skipped or falls back, or that succeeds when it
\* is tried again: loops and the breaker are not looked at.
Settle(t, c) ==
  LET n == t[1]
      done == completed \cup {n}
      flying == inFlight \ {n}
  IN /\ Joins(t)
     /\ tasks' = tasks \ {t}
     /\ inFlight' = flying
     /\ completed' = done
     /\ \E order \in Orders(Newly(n, done, flying)) : ready' = ready \o order
     /\ cost' = cost + c
     /\ UNCHANGED <<flow, status, iterations, runs, peak>>

SkipOrFallback(t) == Settle(t, 0)
Retried(t) == \E c \in 0..flow.price : Settle(t, c)

Tripped(c) == flow.limit # NoLimit /\ cost + c > Multiplier * flow.limit

BackFrom(n) == {e \in flow.back : e[1] = n}

\* A success.  The back-edges in again are those whose guard holds.
Succeed(t) ==
  \E again \in SUBSET BackFrom(t[1]), c \in 0..flow.price :
    LET n == t[1]
        bodies == UNION {Body(flow, e) : e \in again}
        done == (completed \cup {n}) \ bodies
        flying == inFlight \ ({n} \cup bodies)
    IN /\ Joins(t)
       /\ ~Tripped(c)
       /\ \A e \in again : iterations[e] < MaxIterations
       /\ tasks' = tasks \ {t}
       /\ iterations' = [e \in flow.back |-> IF e \in again THEN iterations[e] + 1
                                                           ELSE iterations[e]]
       /\ inFlight' = flying
       /\ completed' = done
       /\ \E heads \in Orders(again), order \in Orders(Newly(n, done, flying)) :
            ready' = ready \o [i \in DOMAIN heads |-> heads[i][2]] \o order
       /\ cost' = cost + c
       /\ UNCHANGED <<flow, status, runs, peak>>

\* A success whose guard holds once too often.
Exhaust(t) ==
  /\ Joins(t)
  /\ \E e \in BackFrom(t[1]) : iterations[e] = MaxIterations
  /\ \E c \in 0..flow.price : ~Tripped(c) /\ Stop("failed", c)

\* A success that is too expensive.
Trip(t) == Joins(t) /\ \E c \in 0..flow.price : Tripped(c) /\ Stop("failed", c)

\* A failure that aborts, also after the last retry, and a panic.
Abort(t) == Joins(t) /\ Stop("failed", 0)

Outcome(t) ==
  \/ SkipOrFallback(t) \/ Retried(t) \/ Succeed(t) \/ Exhaust(t) \/ Trip(t) \/ Abort(t)

-----------------------------------------------------------------------------
Complete ==
  /\ status = "running" /\ ready = <<>> /\ tasks = {}
  /\ Stop("completed", 0)

\* The flow's own timeout.
TimeOut == status = "running" /\ Stop("timed_out", 0)

Execute ==
  \/ Complete
  \/ \E n \in Node : Drop(n) \/ Refuse(n) \/ Spawn(n)
  \/ \E t \in tasks : Outcome(t)

ExecutorNext == Execute \/ TimeOut

ExecutorSpec == ExecutorInit /\ [][ExecutorNext]_executorVars

\* Handlers come to an end and the executor goes on.  The timeout is not
\* needed for it.
FairExecutorSpec == ExecutorSpec /\ WF_executorVars(Execute)

-----------------------------------------------------------------------------
(* Properties *)

\* An execution that is reported as completed has completed every node of its
\* flow, whatever was skipped, retried or repeated, in whichever order the
\* outcomes came.
CompletedAll == status = "completed" => completed = Node

\* The rounds of the loops that a node belongs to.
Restarts(n) ==
  {p \in flow.back \X (1..MaxIterations) : n \in Body(flow, p[1]) /\ p[2] <= iterations[p[1]]}

\* A node runs once, and once more for each time that a loop it belongs to
\* starts over, whatever is retried, skipped or pushed twice.
RunsBounded == \A n \in Node : runs[n] <= 1 + Cardinality(Restarts(n))

\* Every back-edge comes from a node that its head leads to: it closes a loop.
Looping(f) == \A e \in f.back : e[1] \in Body(f, e)

\* No node is spawned before the nodes it depends on are completed.
InputsReady ==
  [][Looping(flow) => \A n \in Node : runs'[n] > runs[n] => Dependencies(flow, n) \subseteq completed]_executorVars

\* A budget is exceeded by no more than what the tasks that were spawned
\* within it, all at once, may still cost.
OvershootBounded ==
  flow.limit # NoLimit =>
    cost + flow.price * Cardinality(tasks) <= flow.limit + flow.price * peak

\* Every execution ends, loops included, also without its timeout.
Ends == <>(status # "running")
=============================================================================
