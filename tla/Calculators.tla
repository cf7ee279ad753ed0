---------------------------- MODULE Calculators ----------------------------
(***************************************************************************)
(* A calculator in the Formula API: the entry in an instance's store, the  *)
(* recipe in Redis, the configuration in the database, the engines that    *)
(* worker threads hold, and the results cached under a generation.         *)
(* Requests run on one event loop: what a handler does between two awaits  *)
(* is one step, and a promise that is settled is followed up before the    *)
(* next event is taken (Quiet).  A worker takes its messages in order.     *)
(*                                                                         *)
(* One instance, one calculator, one set of input values.  A version       *)
(* stands for a configuration, schemas included.                           *)
(***************************************************************************)
EXTENDS Integers, Sequences, FiniteSets

CONSTANTS
  Request,       \* handlers, reused
  Worker,        \* threads of the pool
  Rebuild,       \* the one rebuild that handlers share
  Version,       \* configurations
  MaxGeneration, \* bound: changes of one recipe
  MaxPending,    \* bound, for maxPending: messages before the workers
  Absent

ASSUME CalculatorConstants ==
  /\ Rebuild \notin Request
  /\ MaxGeneration \in Nat /\ MaxPending \in Nat
  /\ Absent \notin Version \cup Worker \cup Request \cup {Rebuild}

Handler == Request \cup {Rebuild}
Generation == 0..MaxGeneration

VARIABLES
  recipe,   \* calc:<id> in Redis
  entry,    \* store
  results,  \* cached result of each generation, in memory and in Redis
  loaded,   \* version each worker has an engine for
  queue,    \* messages each worker has before it
  pc,       \* the await each handler is at
  calc,     \* the entry it works with
  made,     \* the entry it is making
  answer,   \* the promise it waits for, when it is settled
  current,  \* history: the version that was deployed or loaded last
  excused,  \* history: writers overlapped, a deploy timed out, Redis failed
  reborn    \* history: generations started over with results still cached

storeVars == <<recipe, entry, results>>
workerVars == <<loaded, queue>>
handlerVars == <<pc, calc, made, answer>>
historyVars == <<current, excused, reborn>>
calculatorVars == <<storeVars, workerVars, handlerVars, historyVars>>

Nothing == [is |-> "nothing", version |-> Absent]
Failed == [is |-> "failed", version |-> Absent]
NotFound == [is |-> "notFound", version |-> Absent]
Ok(v) == [is |-> "ok", version |-> v]

CalculatorInit ==
  /\ recipe = Absent /\ entry = Absent
  /\ results = [g \in Generation |-> Absent]
  /\ loaded = [w \in Worker |-> Absent]
  /\ queue = [w \in Worker |-> <<>>]
  /\ pc = [h \in Handler |-> "idle"]
  /\ calc = [h \in Handler |-> Absent]
  /\ made = [h \in Handler |-> Absent]
  /\ answer = [h \in Handler |-> Nothing]
  /\ current = Absent /\ excused = FALSE /\ reborn = FALSE

Quiet == \A h \in Handler : answer[h] = Nothing

-----------------------------------------------------------------------------
(* The pool *)

Message(op, v, h) == [op |-> op, version |-> v, by |-> h]

HasRoom == Cardinality(UNION {{w} \X DOMAIN queue[w] : w \in Worker}) < MaxPending

\* _dispatchTo: the promise is rejected at once when the queue is full.
Send(h, w, op, v) ==
  /\ queue' = IF HasRoom THEN [queue EXCEPT ![w] = Append(@, Message(op, v, h))]
                            ELSE queue
  /\ answer' = [answer EXCEPT ![h] = IF HasRoom THEN Nothing ELSE Failed]

\* The dispose callback of the store, which nobody waits for.
Dispose ==
  /\ entry' = Absent
  /\ queue' = IF entry # Absent /\ HasRoom
              THEN [queue EXCEPT ![entry.worker] = Append(@, Message("destroy", Absent, Absent))]
              ELSE queue

Reply(h, a) == answer' = IF h = Absent THEN answer ELSE [answer EXCEPT ![h] = a]

\* A worker handles its next message, and the main thread the reply.
Work(w) ==
  /\ Quiet /\ queue[w] # <<>>
  /\ queue' = [queue EXCEPT ![w] = Tail(@)]
  /\ LET m == Head(queue[w]) IN
       \/ /\ m.op = "create"
          /\ \/ loaded' = [loaded EXCEPT ![w] = m.version] /\ Reply(m.by, Ok(m.version))
             \/ loaded' = loaded /\ Reply(m.by, Failed)
       \/ /\ m.op = "calculate" /\ loaded[w] # Absent
          /\ \/ loaded' = loaded /\ Reply(m.by, Ok(loaded[w]))
             \/ loaded' = [loaded EXCEPT ![w] = Absent] /\ Reply(m.by, Failed)
       \/ /\ m.op = "calculate" /\ loaded[w] = Absent
          /\ loaded' = loaded /\ Reply(m.by, NotFound)
       \/ /\ m.op = "destroy"
          /\ loaded' = [loaded EXCEPT ![w] = Absent] /\ Reply(m.by, Ok(Absent))
  /\ UNCHANGED <<storeVars, pc, calc, made, historyVars>>

\* The worker's own TTL, or its limit of calculators.
Sweep(w) ==
  /\ Quiet /\ loaded[w] # Absent
  /\ loaded' = [loaded EXCEPT ![w] = Absent]
  /\ UNCHANGED <<storeVars, queue, handlerVars, historyVars>>

AwaitedFrom(w) == {queue[w][i].by : i \in DOMAIN queue[w]} \ {Absent}

\* The thread dies, what is pending is rejected, and another one is spawned.
Crash(w) ==
  /\ Quiet /\ (loaded[w] # Absent \/ queue[w] # <<>>)
  /\ loaded' = [loaded EXCEPT ![w] = Absent]
  /\ queue' = [queue EXCEPT ![w] = <<>>]
  /\ answer' = [h \in Handler |-> IF h \in AwaitedFrom(w) THEN Failed ELSE Nothing]
  /\ UNCHANGED <<storeVars, pc, calc, made, historyVars>>

\* The timer of a message.  The worker handles it all the same.
Timeout(h) ==
  /\ Quiet
  /\ \E w \in Worker : h \in AwaitedFrom(w)
  /\ queue' = [w \in Worker |->
       [i \in DOMAIN queue[w] |-> IF queue[w][i].by = h THEN [queue[w][i] EXCEPT !.by = Absent]
                                                        ELSE queue[w][i]]]
  /\ answer' = [answer EXCEPT ![h] = Failed]
  /\ excused' = (excused \/ pc[h] \in {"patched", "posted"})
  /\ UNCHANGED <<storeVars, loaded, pc, calc, made, current, reborn>>

-----------------------------------------------------------------------------
(* Handlers *)

Writers ==
  {r \in Request : pc[r] \in {"patching", "destroying", "patched", "posted", "deleting", "saving"}}
    \cup {h \in {Rebuild} : pc[h] # "idle"}

\* A handler starts to write, beside others or not.
BesideNot(others) == excused' = (excused \/ others # {})
Begin(h) == BesideNot(Writers \ {h})

End(r) ==
  /\ pc' = [pc EXCEPT ![r] = "idle"]
  /\ calc' = [calc EXCEPT ![r] = Absent]
  /\ made' = [made EXCEPT ![r] = Absent]

Answered(h, at) == pc[h] = at /\ answer[h] # Nothing

\* getOrRebuild when the store has no entry: a rebuild is started or joined.
WaitForRebuild(r, waiting) ==
  /\ pc' = [pc EXCEPT ![r] = waiting,
                      ![Rebuild] = IF @ = "idle" THEN "loading" ELSE @]
  /\ BesideNot(IF pc[Rebuild] = "idle" \/ waiting = "patching" THEN Writers \ {Rebuild} ELSE {})

Waiting == {r \in Request : pc[r] \in {"waiting", "rewaiting", "patching"}}

\* Its end, for all that wait.
EndRebuild(a, e) ==
  /\ pc' = [pc EXCEPT ![Rebuild] = "idle"]
  /\ calc' = [h \in Handler |-> IF h \in Waiting THEN e ELSE calc[h]]
  /\ made' = [made EXCEPT ![Rebuild] = Absent]
  /\ answer' = [h \in Handler |-> IF h \in Waiting THEN a
                                 ELSE IF h = Rebuild THEN Nothing ELSE answer[h]]

\* Results of an earlier life are cached, or are going to be.
AnyResult ==
  \/ \E g \in Generation : results[g] # Absent
  \/ \E r \in Request : pc[r] \in {"checking", "calculating", "recalculating"}
  \/ pc[Rebuild] = "limits"

\* Mutant: the recipe from Redis starts over with generation 0.
RecipeFromRedis0 == [gen |-> 0, version |-> recipe.version]

RecipeFromRedis == recipe

RebuildWith(c) ==
  \E w \in Worker :
    /\ Send(Rebuild, w, "create", c.version)
    /\ made' = [made EXCEPT ![Rebuild] = [gen |-> c.gen, version |-> c.version, worker |-> w]]
    /\ pc' = [pc EXCEPT ![Rebuild] = "creating"]

\* loadFromRedis has a recipe,
LoadRecipe ==
  /\ Quiet /\ pc[Rebuild] = "loading"
  /\ recipe # Absent
  /\ RebuildWith(RecipeFromRedis)
  /\ UNCHANGED <<storeVars, loaded, calc, historyVars>>

\* or none, or does not answer, and loadFromDb has one, which is saved,
LoadRow ==
  /\ Quiet /\ pc[Rebuild] = "loading"
  /\ \E v \in Version :
       /\ RebuildWith([gen |-> 0, version |-> v])
       /\ \/ recipe' = [gen |-> 0, version |-> v] /\ excused' = excused
          \/ recipe' = recipe /\ excused' = (excused \/ recipe # Absent)
       /\ current' = v
  /\ reborn' = (reborn \/ AnyResult)
  /\ UNCHANGED <<entry, results, loaded, calc>>

\* or none has.
LoadNothing ==
  /\ Quiet /\ pc[Rebuild] = "loading"
  /\ EndRebuild(NotFound, Absent)
  /\ UNCHANGED <<storeVars, workerVars, historyVars>>

RebuildCreated ==
  /\ Answered(Rebuild, "creating")
  /\ IF answer[Rebuild].is = "ok"
     THEN /\ pc' = [pc EXCEPT ![Rebuild] = "enriching"]
          /\ answer' = [answer EXCEPT ![Rebuild] = Nothing]
          /\ UNCHANGED <<calc, made>>
     ELSE EndRebuild(Failed, Absent)
  /\ UNCHANGED <<storeVars, workerVars, historyVars>>

AsRecipe(e) == [gen |-> e.gen, version |-> e.version]

\* enrichMcpConfig, which saves the recipe when the database has an MCP
\* configuration, and store.set.
Enriched ==
  /\ Quiet /\ pc[Rebuild] = "enriching"
  /\ recipe' \in {recipe, AsRecipe(made[Rebuild])}
  /\ entry' = made[Rebuild]
  /\ pc' = [pc EXCEPT ![Rebuild] = "limits"]
  /\ UNCHANGED <<results, workerVars, calc, made, answer, historyVars>>

LimitsLoaded ==
  /\ Quiet /\ pc[Rebuild] = "limits"
  /\ EndRebuild(Ok(made[Rebuild].version), made[Rebuild])
  /\ UNCHANGED <<storeVars, workerVars, historyVars>>

-----------------------------------------------------------------------------
(* POST /execute/calculator *)

Execute(r) ==
  /\ Quiet /\ pc[r] = "idle"
  /\ IF entry # Absent
     THEN /\ pc' = [pc EXCEPT ![r] = "checking"]
          /\ calc' = [calc EXCEPT ![r] = entry]
          /\ UNCHANGED excused
     ELSE WaitForRebuild(r, "waiting") /\ UNCHANGED calc
  /\ UNCHANGED <<storeVars, workerVars, made, answer, current, reborn>>

Found(r) ==
  /\ Answered(r, "waiting")
  /\ IF answer[r].is = "ok"
     THEN pc' = [pc EXCEPT ![r] = "checking"] /\ UNCHANGED <<calc, made>>
     ELSE End(r)
  /\ answer' = [answer EXCEPT ![r] = Nothing]
  /\ UNCHANGED <<storeVars, workerVars, historyVars>>

\* Limits and quota allow it, and the cache has a result, or not (any more).
Hit(r) ==
  /\ Quiet /\ pc[r] = "checking"
  /\ results[calc[r].gen] # Absent
  /\ End(r)
  /\ UNCHANGED <<storeVars, workerVars, answer, historyVars>>

Calculate(r, at) ==
  /\ Send(r, calc[r].worker, "calculate", Absent)
  /\ pc' = [pc EXCEPT ![r] = at]
  /\ UNCHANGED <<storeVars, loaded, calc, made, historyVars>>

Miss(r) == Quiet /\ pc[r] = "checking" /\ Calculate(r, "calculating")

\* A result, which is stored unless its outputs are invalid, or an error.
Calculated(r) ==
  /\ Answered(r, "calculating") \/ Answered(r, "recalculating")
  /\ answer[r].is = "notFound" => pc[r] = "recalculating"
  /\ \/ answer[r].is = "ok" /\ results' = [results EXCEPT ![calc[r].gen] = answer[r].version]
     \/ results' = results
  /\ End(r)
  /\ answer' = [answer EXCEPT ![r] = Nothing]
  /\ UNCHANGED <<recipe, entry, workerVars, historyVars>>

\* "Calculator not found": store.delete, whatever entry is there by now, and
\* getOrRebuild.
Lost(r) ==
  /\ Answered(r, "calculating") /\ answer[r].is = "notFound"
  /\ Dispose
  /\ WaitForRebuild(r, "rewaiting")
  /\ calc' = [calc EXCEPT ![r] = Absent]
  /\ answer' = [answer EXCEPT ![r] = Nothing]
  /\ UNCHANGED <<recipe, results, loaded, made, current, reborn>>

Recalculate(r) ==
  /\ Answered(r, "rewaiting") /\ answer[r].is = "ok"
  /\ Calculate(r, "recalculating")

GiveUp(r) ==
  /\ Answered(r, "rewaiting") /\ answer[r].is # "ok"
  /\ End(r)
  /\ answer' = [answer EXCEPT ![r] = Nothing]
  /\ UNCHANGED <<storeVars, workerVars, historyVars>>

-----------------------------------------------------------------------------
(* PATCH and POST /calculator *)

\* The data has changed: the old engine is destroyed first.
Replace(r, e) ==
  /\ e.gen < MaxGeneration
  /\ Begin(r)
  /\ calc' = [calc EXCEPT ![r] = e]
  /\ pc' = [pc EXCEPT ![r] = "destroying"]
  /\ Send(r, e.worker, "destroy", Absent)

\* The CMS sends what its database says.
Patch(r) ==
  /\ Quiet /\ pc[r] = "idle"
  /\ \E v \in Version :
       made' = [made EXCEPT ![r] = [gen |-> 0, version |-> v, worker |-> Absent]]
  /\ IF entry # Absent
     THEN Replace(r, entry)
     ELSE WaitForRebuild(r, "patching") /\ UNCHANGED <<calc, queue, answer>>
  /\ UNCHANGED <<storeVars, loaded, current, reborn>>

PatchFound(r) ==
  /\ Answered(r, "patching")
  /\ IF answer[r].is = "ok" /\ calc[r].gen < MaxGeneration
     THEN Replace(r, calc[r]) /\ UNCHANGED made
     ELSE /\ End(r)
          /\ answer' = [answer EXCEPT ![r] = Nothing]
          /\ UNCHANGED <<queue, excused>>
  /\ UNCHANGED <<storeVars, loaded, current, reborn>>

\* Mutant: the generation stays.
SameGeneration(e) == e.gen

NextGeneration(e) == e.gen + 1

CreateFor(r, at, g, v) ==
  \E w \in Worker :
    /\ Send(r, w, "create", v)
    /\ made' = [made EXCEPT ![r] = [gen |-> g, version |-> v, worker |-> w]]
    /\ pc' = [pc EXCEPT ![r] = at]

Destroyed(r) ==
  /\ Answered(r, "destroying")
  /\ CreateFor(r, "patched", NextGeneration(calc[r]), made[r].version)
  /\ calc' = [calc EXCEPT ![r] = Absent]
  /\ UNCHANGED <<storeVars, loaded, historyVars>>

Post(r) ==
  /\ Quiet /\ pc[r] = "idle"
  /\ \E v \in Version : CreateFor(r, "posted", 0, v)
  /\ Begin(r)
  /\ UNCHANGED <<storeVars, loaded, calc, current, reborn>>

\* Mutant: a recipe that is there is kept.
SaveNew(c) ==
  \/ recipe' = (IF recipe = Absent THEN AsRecipe(c) ELSE recipe) /\ excused' = excused
  \/ recipe' = recipe /\ excused' = TRUE

\* saveToRedis, which may fail unnoticed.
Save(c) ==
  \/ recipe' = AsRecipe(c) /\ excused' = excused
  \/ recipe' = recipe /\ excused' = TRUE

\* The worker has the engine: store.set and saveToRedis.
Created(r) ==
  /\ Answered(r, "patched") \/ Answered(r, "posted")
  /\ answer[r].is = "ok"
  /\ entry' = made[r]
  /\ Save(made[r])
  /\ current' = made[r].version
  /\ reborn' = (reborn \/ (pc[r] = "posted" /\ AnyResult))
  /\ End(r)
  /\ answer' = [answer EXCEPT ![r] = Nothing]
  /\ UNCHANGED <<results, workerVars>>

NotCreated(r) ==
  /\ Answered(r, "patched") \/ Answered(r, "posted")
  /\ answer[r].is # "ok"
  /\ End(r)
  /\ answer' = [answer EXCEPT ![r] = Nothing]
  /\ UNCHANGED <<storeVars, workerVars, historyVars>>

-----------------------------------------------------------------------------
(* DELETE, metadata and MCP refresh *)

Delete(r) ==
  /\ Quiet /\ pc[r] = "idle"
  /\ Begin(r)
  /\ calc' = [calc EXCEPT ![r] = entry]
  /\ pc' = [pc EXCEPT ![r] = "deleting"]
  /\ UNCHANGED <<storeVars, workerVars, made, answer, current, reborn>>

Deleted(r) ==
  /\ Quiet /\ pc[r] = "deleting"
  /\ \/ recipe' = Absent /\ excused' = excused
     \/ recipe' = recipe /\ excused' = TRUE
  /\ IF calc[r] # Absent THEN Dispose ELSE UNCHANGED <<entry, queue>>
  /\ current' = Absent
  /\ End(r)
  /\ UNCHANGED <<results, loaded, answer, reborn>>

\* refresh-mcp reads the recipe,
ReadRecipe(r) ==
  /\ Quiet /\ pc[r] = "idle" /\ recipe # Absent
  /\ Begin(r)
  /\ made' = [made EXCEPT ![r] = [gen |-> recipe.gen, version |-> recipe.version, worker |-> Absent]]
  /\ pc' = [pc EXCEPT ![r] = "saving"]
  /\ UNCHANGED <<storeVars, workerVars, calc, answer, current, reborn>>

\* getMetadata the configuration, when neither store nor Redis has one,
ReadRow(r) ==
  /\ Quiet /\ pc[r] = "idle" /\ entry = Absent /\ recipe = Absent
  /\ Begin(r)
  /\ \E v \in Version :
       /\ made' = [made EXCEPT ![r] = [gen |-> 0, version |-> v, worker |-> Absent]]
       /\ current' = v
  /\ reborn' = (reborn \/ AnyResult)
  /\ pc' = [pc EXCEPT ![r] = "saving"]
  /\ UNCHANGED <<storeVars, workerVars, calc, answer>>

\* and both save it.
SaveRecipe(r) ==
  /\ Quiet /\ pc[r] = "saving"
  /\ recipe' \in {recipe, AsRecipe(made[r])}
  /\ End(r)
  /\ UNCHANGED <<entry, results, workerVars, answer, historyVars>>

-----------------------------------------------------------------------------
(* TTLs *)

ExpireEntry ==
  /\ Quiet /\ entry # Absent
  /\ Dispose
  /\ UNCHANGED <<recipe, results, loaded, handlerVars, historyVars>>

ExpireRecipe ==
  /\ Quiet /\ recipe # Absent
  /\ recipe' = Absent
  /\ UNCHANGED <<entry, results, workerVars, handlerVars, historyVars>>

ExpireResult(g) ==
  /\ Quiet /\ results[g] # Absent
  /\ results' = [results EXCEPT ![g] = Absent]
  /\ UNCHANGED <<recipe, entry, workerVars, handlerVars, historyVars>>

-----------------------------------------------------------------------------
Arrive(r) ==
  \/ Execute(r) \/ Patch(r) \/ Post(r) \/ Delete(r) \/ ReadRecipe(r) \/ ReadRow(r)

Proceed(r) ==
  \/ Found(r) \/ Hit(r) \/ Miss(r) \/ Calculated(r) \/ Lost(r) \/ Recalculate(r) \/ GiveUp(r)
  \/ PatchFound(r) \/ Destroyed(r) \/ Created(r) \/ NotCreated(r)
  \/ Deleted(r) \/ SaveRecipe(r)

ProceedRebuild ==
  LoadRecipe \/ LoadRow \/ LoadNothing \/ RebuildCreated \/ Enriched \/ LimitsLoaded

CalculatorNext ==
  \/ \E r \in Request : Arrive(r) \/ Proceed(r)
  \/ ProceedRebuild
  \/ \E h \in Handler : Timeout(h)
  \/ \E w \in Worker : Work(w) \/ Sweep(w) \/ Crash(w)
  \/ ExpireEntry \/ ExpireRecipe \/ \E g \in Generation : ExpireResult(g)

CalculatorSpec == CalculatorInit /\ [][CalculatorNext]_calculatorVars

-----------------------------------------------------------------------------
(* Properties *)

\* Cached results are those of the calculator they are served for, whatever
\* executions ran beside a deploy and whatever was lost and rebuilt: until
\* writers overlap, a deploy times out, Redis fails, or a new life starts with
\* the generations of an old one.
ResultsAreCurrent ==
  Quiet /\ ~excused /\ ~reborn /\ entry # Absent =>
    /\ results[entry.gen] \in {Absent, entry.version}
    /\ loaded[entry.worker] \in {Absent, entry.version}

\* What was deployed last is what store and Redis hold, if anything: no
\* rebuild brings an older version back, and a deleted calculator returns only
\* as the database has it.
LastDeployHolds ==
  ~excused =>
    /\ entry # Absent => entry.version = current
    /\ recipe # Absent => recipe.version = current
=============================================================================
