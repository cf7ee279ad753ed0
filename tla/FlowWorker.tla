---------------------------- MODULE FlowWorker ----------------------------
(***************************************************************************)
(* The worker pool of the flow engine.  The trigger service XADDs an       *)
(* execution; a worker's main loop reads and runs it; every worker's       *)
(* recovery task claims what has been pending for five minutes.  Workers   *)
(* stop on SIGTERM, crash and start again.                                 *)
(*                                                                         *)
(* A lane is one of the two loops of a worker; both call execute_flow.     *)
(* The three priority streams are one here: a read takes some entries, and *)
(* a stopping worker's recovery round may still reach its later streams.   *)
(* The five minutes are not modelled: they equal the default flow timeout, *)
(* and an entry waits in its batch besides, so an entry that somebody      *)
(* still works on can be idle that long.                                   *)
(***************************************************************************)
EXTENDS Naturals, FiniteSets

CONSTANTS
  Exec,     \* executions
  Worker,   \* worker processes
  Batch,    \* COUNT of XREADGROUP and XAUTOCLAIM
  MaxStops, \* bound: SIGTERMs and crashes
  None      \* no execution

ASSUME FlowConstants ==
  /\ Batch \in Nat \ {0}
  /\ MaxStops \in Nat
  /\ None \notin Exec

Lane == Worker \X {"main", "claim"}
Main(w) == <<w, "main">>
Recovery(w) == <<w, "claim">>
LanesOf(w) == {Main(w), Recovery(w)}

VARIABLES
  queued,   \* entries that were never delivered
  pel,      \* entries delivered and not acknowledged
  settled,  \* entries acknowledged
  rows,     \* bl_flow_executions
  mood,     \* whether a worker runs
  active,   \* its active_executions
  todo,     \* entries a lane has in hand
  run,      \* the execution it works on
  place,    \* how far it has come
  excused,  \* history: executions with a run nobody was to record or retry
  stops     \* SIGTERMs and crashes so far

streamVars == <<queued, pel, settled>>
workerVars == <<mood, active, stops>>
laneVars == <<todo, run, place>>
vars == <<streamVars, rows, workerVars, laneVars, excused>>

Init ==
  /\ queued = {} /\ pel = {} /\ settled = {} /\ rows = {}
  /\ mood = [w \in Worker |-> "up"]
  /\ active = [w \in Worker |-> 0]
  /\ todo = [l \in Lane |-> {}]
  /\ run = [l \in Lane |-> None]
  /\ place = [l \in Lane |-> "resting"]
  /\ excused = {} /\ stops = 0

-----------------------------------------------------------------------------
(* The stream *)

\* enqueue_execution, once the XADD is answered.
Enqueue(e) ==
  /\ e \notin queued \cup pel \cup settled
  /\ queued' = queued \cup {e}
  /\ UNCHANGED <<pel, settled, rows, workerVars, laneVars, excused>>

Resting(l) == place[l] = "resting" /\ todo[l] = {}

Batches(entries) ==
  {some \in SUBSET entries : some # {} /\ Cardinality(some) <= Batch}

\* Mutant: the read returns what is pending as well.
UnreadAndPending == queued \cup pel

\* What XREADGROUP delivers: '>' is the entries no consumer was given.
Unread == queued

Read(w) ==
  /\ mood[w] = "up" /\ Resting(Main(w))
  /\ \E some \in Batches(Unread) :
       /\ queued' = queued \ some
       /\ pel' = pel \cup some
       /\ todo' = [todo EXCEPT ![Main(w)] = some]
  /\ UNCHANGED <<settled, rows, workerVars, run, place, excused>>

\* XAUTOCLAIM: what is pending, whoever works on it.
Claim(w) ==
  /\ mood[w] # "down" /\ Resting(Recovery(w))
  /\ \E some \in Batches(pel) : todo' = [todo EXCEPT ![Recovery(w)] = some]
  /\ UNCHANGED <<streamVars, rows, workerVars, run, place, excused>>

-----------------------------------------------------------------------------
(* One entry in a lane's hand *)

GoTo(l, where) == place' = [place EXCEPT ![l] = where]

\* Mutant: the recovery task does not count its execution.
MainCounted(l) == IF l[2] = "main" THEN 1 ELSE 0

\* What fetch_add adds and fetch_sub takes back.
Counted(l) == 1

Begin(l) ==
  /\ place[l] = "resting"
  /\ \E e \in todo[l] :
       /\ todo' = [todo EXCEPT ![l] = @ \ {e}]
       /\ run' = [run EXCEPT ![l] = e]
  /\ active' = [active EXCEPT ![l[1]] = @ + Counted(l)]
  /\ GoTo(l, "running")
  /\ UNCHANGED <<streamVars, rows, mood, stops, excused>>

\* The flow cannot be loaded, or the engine returns Err: no row is written.
RunFails(l) ==
  /\ place[l] = "running"
  /\ excused' = excused \cup {run[l]}
  /\ GoTo(l, "error")
  /\ UNCHANGED <<streamVars, rows, workerVars, todo, run>>

\* The row of an execution whose status is not "failed".
Persist(l) ==
  /\ place[l] = "running" /\ run[l] \notin rows
  /\ rows' = rows \cup {run[l]}
  /\ GoTo(l, "saved")
  /\ UNCHANGED <<streamVars, workerVars, todo, run, excused>>

\* Its INSERT fails: the row is there already, or the database is away.
PersistFails(l) ==
  /\ place[l] = "running"
  /\ excused' = IF run[l] \notin rows /\ l[2] = "claim"
                THEN excused \cup {run[l]} ELSE excused
  /\ GoTo(l, "unsaved")
  /\ UNCHANGED <<streamVars, rows, workerVars, todo, run>>

\* Status "failed": execute_flow returns Err whether or not the row was saved.
PersistFailure(l) ==
  /\ place[l] = "running"
  /\ \/ run[l] \notin rows /\ rows' = rows \cup {run[l]} /\ UNCHANGED excused
     \/ UNCHANGED rows /\ excused' = excused \cup ({run[l]} \ rows)
  /\ GoTo(l, "error")
  /\ UNCHANGED <<streamVars, workerVars, todo, run>>

\* Mutant: the main loop acknowledges whatever execute_flow returned.
AckAlways(l) == TRUE

\* The main loop acknowledges Ok(true) and Err; the recovery task everything.
MayAck(l) == l[2] = "claim" \/ place[l] # "unsaved"

\* fetch_sub, and the decision to acknowledge.
Return(l) ==
  /\ place[l] \in {"saved", "unsaved", "error"}
  /\ active' = [active EXCEPT ![l[1]] = @ - Counted(l)]
  /\ GoTo(l, IF MayAck(l) THEN "acking" ELSE "resting")
  /\ run' = IF MayAck(l) THEN run ELSE [run EXCEPT ![l] = None]
  /\ UNCHANGED <<streamVars, rows, mood, stops, todo, excused>>

Ack(l) ==
  /\ place[l] = "acking"
  /\ pel' = pel \ {run[l]}
  /\ settled' = settled \cup {run[l]}
  /\ run' = [run EXCEPT ![l] = None]
  /\ GoTo(l, "resting")
  /\ UNCHANGED <<queued, rows, workerVars, todo, excused>>

\* xack_with_retry gives up.
AckFails(l) ==
  /\ place[l] = "acking"
  /\ run' = [run EXCEPT ![l] = None]
  /\ GoTo(l, "resting")
  /\ UNCHANGED <<streamVars, rows, workerVars, todo, excused>>

-----------------------------------------------------------------------------
(* Worker processes *)

\* The lanes of `gone` hold nothing any more.
Abandon(gone) ==
  /\ todo' = [l \in Lane |-> IF l \in gone THEN {} ELSE todo[l]]
  /\ run' = [l \in Lane |-> IF l \in gone THEN None ELSE run[l]]
  /\ place' = [l \in Lane |-> IF l \in gone THEN "resting" ELSE place[l]]

\* select! drops process_one_batch where it stands, fetch_sub included.
Sigterm(w) ==
  /\ mood[w] = "up" /\ stops < MaxStops
  /\ mood' = [mood EXCEPT ![w] = "stopping"]
  /\ stops' = stops + 1
  /\ Abandon({Main(w)})
  /\ UNCHANGED <<streamVars, rows, active, excused>>

Down(w) ==
  /\ mood' = [mood EXCEPT ![w] = "down"]
  /\ active' = [active EXCEPT ![w] = 0]
  /\ Abandon(LanesOf(w))
  /\ UNCHANGED <<streamVars, rows, excused>>

\* The shutdown wait ends: nothing is in flight, or the deadline is reached.
ExitIdle(w) == mood[w] = "stopping" /\ active[w] = 0 /\ UNCHANGED stops /\ Down(w)
ExitLate(w) == mood[w] = "stopping" /\ active[w] # 0 /\ UNCHANGED stops /\ Down(w)

Crash(w) ==
  /\ mood[w] # "down" /\ stops < MaxStops
  /\ stops' = stops + 1
  /\ Down(w)

Start(w) ==
  /\ mood[w] = "down"
  /\ mood' = [mood EXCEPT ![w] = "up"]
  /\ UNCHANGED <<streamVars, rows, active, stops, laneVars, excused>>

-----------------------------------------------------------------------------
LaneStep(l) ==
  \/ Begin(l) \/ RunFails(l) \/ Persist(l) \/ PersistFails(l) \/ PersistFailure(l)
  \/ Return(l) \/ Ack(l) \/ AckFails(l)

WorkerStep(w) ==
  Read(w) \/ Claim(w) \/ Sigterm(w) \/ ExitIdle(w) \/ ExitLate(w) \/ Crash(w) \/ Start(w)

Next ==
  \/ \E e \in Exec : Enqueue(e)
  \/ \E l \in Lane : LaneStep(l)
  \/ \E w \in Worker : WorkerStep(w)

Spec == Init /\ [][Next]_vars

-----------------------------------------------------------------------------
(* Properties *)

Hand(l) == todo[l] \cup ({run[l]} \ {None})

Executing(l) == place[l] \in {"running", "saved", "unsaved", "error"}

\* Every part of the state has its range: a lane works on an execution exactly
\* when it is not resting, an entry is in one part of the stream, and no
\* counter of a worker leaves what its two lanes can account for.
TypeOK ==
  /\ queued \subseteq Exec /\ pel \subseteq Exec /\ settled \subseteq Exec
  /\ queued \cap (pel \cup settled) = {} /\ pel \cap settled = {}
  /\ rows \subseteq Exec /\ excused \subseteq Exec
  /\ mood \in [Worker -> {"up", "stopping", "down"}]
  /\ active \in [Worker -> 0..2]
  /\ todo \in [Lane -> SUBSET Exec]
  /\ run \in [Lane -> Exec \cup {None}]
  /\ place \in [Lane -> {"resting", "running", "saved", "unsaved", "error", "acking"}]
  /\ \A l \in Lane : run[l] = None <=> place[l] = "resting"
  /\ stops \in 0..MaxStops

\* Two main loops never have the same execution in hand, nor one that is still
\* unread: whatever crashed, was cancelled or was not acknowledged, only the
\* recovery tasks run an execution again.
ReadOnce ==
  /\ \A v, w \in Worker : v # w => Hand(Main(v)) \cap Hand(Main(w)) = {}
  /\ \A l \in Lane : Hand(l) \cap queued = {}

\* An execution that was accepted and left the stream has a row, unless a run
\* of it returned Err without one or a recovery task's INSERT failed: there is
\* no other way, by crash, shutdown, failed XACK or competing lanes, to lose it.
SettledHasRow == settled \subseteq rows \cup excused

\* When the shutdown wait ends because active_executions is 0, neither loop of
\* the worker is inside execute_flow: the counter covers both of them, and the
\* execution that SIGTERM cancelled can only make it too high.
IdleExitIsClean ==
  [][\A w \in Worker : (mood[w] = "stopping" /\ active[w] = 0 /\ mood'[w] = "down" /\ stops' = stops)
        => \A l \in LanesOf(w) : ~Executing(l)]_vars

=============================================================================
