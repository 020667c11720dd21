------------------------------ MODULE BatchRunner ------------------------------
(***************************************************************************)
(* Tasks over many nodes (panel/internal/batch/runner.go) and the loop     *)
(* that brings nodes up to date after a start (batch/bootstrap.go).        *)
(*                                                                         *)
(* A task runs one goroutine per node, at most MaxConcurrency of them at   *)
(* once; applies are serialised by the Coordinator. The loop looks for     *)
(* nodes whose row is not online, not running or of another configuration  *)
(* than the one it would build, and spares the build when the fingerprint  *)
(* of the tables has not changed.                                          *)
(*                                                                         *)
(* A configuration is the number of edits made before it was built. A      *)
(* fingerprint is made of update times in seconds: two updates within one  *)
(* second leave it as it is. Of it only one thing is kept: whether it      *)
(* still equals the cached one.                                            *)
(*                                                                         *)
(* Abstracted: one pass over the nodes is one step, and so is the dial     *)
(* with its call; what the operator's columns suffer from the writes of    *)
(* whole rows is the matter of NodeRows.                                   *)
(***************************************************************************)
EXTENDS Naturals, FiniteSets

CONSTANTS
    Nodes,
    Uplink,         \* the nodes in control mode "uplink"
    MaxConcurrency,
    Requests,       \* bound: the tasks an operator may ask for, <<type, nodes>>
    Fragile,        \* bound: the nodes an edit may leave without a configuration
    MaxConfig,      \* bound: edits of the configuration
    MaxTrouble      \* bound: failing calls and writes, cancelled requests, restarts

ASSUME BatchAssumption ==
    /\ IsFiniteSet(Nodes)
    /\ Uplink \subseteq Nodes
    /\ MaxConcurrency \in Nat \ {0}
    /\ Requests \subseteq {"apply", "start", "stop"} \X ((SUBSET Nodes) \ {{}})
    /\ Fragile \subseteq Nodes
    /\ MaxConfig \in Nat \ {0}
    /\ MaxTrouble \in Nat

VARIABLES
    table,          \* the nodes table: connectivity, runtime state, config_hash
    agents,         \* the Agents: the configuration they run, running or stopped
    config,         \* the number of edits so far
    broken,         \* nodes whose configuration cannot be built now
    cache,          \* bootstrapCache: hash, and whether the fingerprint still matches
    ticked,         \* a second has passed since the last update of the tables
    tasks,          \* the tasks table: type, nodes, status, results
    mem,            \* mem[t]: results collected by RunTask
    jobs,           \* jobs[t][n]: the goroutine of a node
    cancelled,      \* the context of the request of a task is done
    mutex,          \* the Coordinator: the goroutine that holds it, as a set
    loop,           \* the retry loop: "start", "scan", "run"
    trouble,        \* the number of troubles so far
    since           \* history: the configuration of the moment a task started

batchVars == <<table, agents, config, broken, cache, ticked, tasks, mem, jobs,
               cancelled, mutex, loop, trouble, since>>

Tasks == {"batch", "bootstrap"}     \* the operator's request and the loop's task
Outcomes == {"none", "ok", "failed"}
Line == [online : BOOLEAN, running : BOOLEAN, hash : 0 .. MaxConfig]
NoLine == [online |-> FALSE, running |-> FALSE, hash |-> 0]
NoResults == [n \in Nodes |-> "none"]
NoJob == [pc |-> "none", copy |-> NoLine]
Steps == {"none", "waiting", "call", "lock", "apply", "save", "result", "done"}

BatchTypeOK ==
    /\ table \in [Nodes -> Line]
    /\ agents \in [Nodes -> [hash : 0 .. MaxConfig, running : BOOLEAN]]
    /\ config \in 0 .. MaxConfig
    /\ broken \subseteq Fragile
    /\ cache \in [same : BOOLEAN, hash : 0 .. MaxConfig]
    /\ ticked \in BOOLEAN
    /\ tasks \in [Tasks -> [type : {"apply", "start", "stop"}, nodes : SUBSET Nodes, results : [Nodes -> Outcomes],
                            status : {"none", "pending", "running", "success", "failed", "partial"}]]
    /\ mem \in [Tasks -> [Nodes -> Outcomes]]
    /\ jobs \in [Tasks -> [Nodes -> [pc : Steps, copy : Line]]]
    /\ cancelled \in BOOLEAN
    /\ mutex \in {{}} \cup {{j} : j \in Tasks \X Nodes}
    /\ loop \in {"start", "scan", "run"}
    /\ trouble \in 0 .. MaxTrouble
    /\ since \in [Tasks -> 0 .. MaxConfig]

NoTask == [type |-> "apply", status |-> "none", nodes |-> {}, results |-> NoResults]

BatchInit ==
    /\ table = [n \in Nodes |-> NoLine]
    /\ agents = [n \in Nodes |-> [hash |-> 0, running |-> FALSE]]
    /\ config = 1
    /\ broken = {}
    /\ cache = [same |-> FALSE, hash |-> 0]
    /\ ticked = TRUE
    /\ tasks = [t \in Tasks |-> NoTask]
    /\ mem = [t \in Tasks |-> NoResults]
    /\ jobs = [t \in Tasks |-> [n \in Nodes |-> NoJob]]
    /\ cancelled = FALSE
    /\ mutex = {}
    /\ loop = "start"
    /\ trouble = 0
    /\ since = [t \in Tasks |-> 0]

Trouble == trouble < MaxTrouble /\ trouble' = trouble + 1

\* An update of the tables: the fingerprint changes, unless the last one was made in the
\* same second.
Touched ==
    /\ cache' = IF ticked THEN [same |-> FALSE, hash |-> 0] ELSE cache
    /\ ticked' = FALSE

-----------------------------------------------------------------------------
(* RunTask.                                                                *)

\* A goroutine of the task is at work; wg.Wait() waits for it.
Alive(t) == \E n \in Nodes : jobs[t][n].pc \notin {"none", "done"}
Holding(t) == {n \in Nodes : jobs[t][n].pc \notin {"none", "waiting", "done"}}

\* CreateTask and the start of RunTask: a goroutine for each node of the task.
Started(t, type, ids) ==
    /\ tasks' = [tasks EXCEPT ![t] =
                   [type |-> type, status |-> "running", nodes |-> ids, results |-> NoResults]]
    /\ mem' = [mem EXCEPT ![t] = NoResults]
    /\ jobs' = [jobs EXCEPT ![t] = [n \in Nodes |->
                   IF n \in ids THEN [NoJob EXCEPT !.pc = "waiting"] ELSE NoJob]]
    /\ since' = [since EXCEPT ![t] = config]
    /\ UNCHANGED trouble

\* RunTask cannot mark the task as running: its row stays pending, and nobody runs it.
NotStarted(t, type, ids) ==
    /\ Trouble
    /\ tasks' = [tasks EXCEPT ![t] =
                   [type |-> type, status |-> "pending", nodes |-> ids, results |-> NoResults]]
    /\ UNCHANGED <<mem, jobs, since>>

\* runBatchTask: the operator's request. Bound: one at a time.
BatchRequested ==
    /\ tasks["batch"].status = "none"
    /\ \E request \in Requests :
           \/ Started("batch", request[1], request[2])
           \/ NotStarted("batch", request[1], request[2])
    /\ UNCHANGED <<table, agents, config, broken, cache, ticked, cancelled, mutex, loop>>

Step(t, n, pc) == jobs' = [jobs EXCEPT ![t][n].pc = pc]
Result(t, n, outcome) == mem' = [mem EXCEPT ![t][n] = outcome]

\* The semaphore, and GetNode. A push node's task goes on with a copy of its row ...
TakesSlot(t, n) ==
    /\ jobs[t][n].pc = "waiting"
    /\ Cardinality(Holding(t)) < MaxConcurrency
    /\ n \notin Uplink
    /\ jobs' = [jobs EXCEPT ![t][n] =
           [pc |-> IF tasks[t].type = "apply" THEN "lock" ELSE "call", copy |-> table[n]]]
    /\ UNCHANGED <<table, agents, config, broken, cache, ticked, tasks, mem, cancelled,
                   mutex, loop, trouble, since>>

\* ... an uplink node's ends with the intent: finishUplinkIntent writes the desired runtime,
\* which nothing here reads, for a start or a stop, and nothing for an apply ...
NotesIntent(t, n) ==
    /\ jobs[t][n].pc = "waiting"
    /\ Cardinality(Holding(t)) < MaxConcurrency
    /\ n \in Uplink
    /\ IF tasks[t].type = "apply" THEN UNCHANGED <<cache, ticked>> ELSE Touched
    /\ Result(t, n, "ok")
    /\ Step(t, n, "result")
    /\ UNCHANGED <<table, agents, config, broken, tasks, cancelled, mutex, loop, trouble, since>>

\* ... and either ends there when its row cannot be read, or the intent not be written.
SlotFails(t, n) ==
    /\ jobs[t][n].pc = "waiting"
    /\ Cardinality(Holding(t)) < MaxConcurrency
    /\ Trouble
    /\ Result(t, n, "failed")
    /\ Step(t, n, "result")
    /\ UNCHANGED <<table, agents, config, broken, cache, ticked, tasks, cancelled,
                   mutex, loop, since>>

\* MUTANT: a goroutine that sees the end of the request leaves without a result.
LeavesSilently(t, n) ==
    /\ t = "batch"
    /\ cancelled
    /\ jobs[t][n].pc = "waiting"
    /\ Step(t, n, "done")
    /\ UNCHANGED <<table, agents, config, broken, cache, ticked, tasks, mem, cancelled,
                   mutex, loop, trouble, since>>

\* A goroutine without a slot sees the end of the request; its result is not written yet.
SeesCancel(t, n) ==
    /\ t = "batch"
    /\ cancelled
    /\ jobs[t][n].pc = "waiting"
    /\ Result(t, n, "failed")
    /\ Step(t, n, "done")
    /\ UNCHANGED <<table, agents, config, broken, cache, ticked, tasks, cancelled,
                   mutex, loop, trouble, since>>

\* UpdateNode with the copy of the row.
Written(n, line) == table' = [table EXCEPT ![n] = line]

\* The dial fails, for any type of task.
DialFails(t, n) ==
    /\ jobs[t][n].pc \in {"call", "lock"}
    /\ \/ Trouble
       \/ t = "batch" /\ cancelled /\ UNCHANGED trouble
    /\ Written(n, [jobs[t][n].copy EXCEPT !.online = FALSE])
    /\ Touched
    /\ Result(t, n, "failed")
    /\ Step(t, n, "result")
    /\ UNCHANGED <<agents, config, broken, tasks, cancelled, mutex, loop, since>>

\* Start. A success is written to the row.
Starts(t, n) ==
    /\ jobs[t][n].pc = "call"
    /\ tasks[t].type = "start"
    /\ agents' = [agents EXCEPT ![n].running = TRUE]
    /\ Written(n, [jobs[t][n].copy EXCEPT !.online = TRUE, !.running = TRUE])
    /\ Touched
    /\ Result(t, n, "ok")
    /\ Step(t, n, "result")
    /\ UNCHANGED <<config, broken, tasks, cancelled, mutex, loop, trouble, since>>

\* Stop. The row is left alone.
Stops(t, n) ==
    /\ jobs[t][n].pc = "call"
    /\ tasks[t].type = "stop"
    /\ agents' = [agents EXCEPT ![n].running = FALSE]
    /\ Result(t, n, "ok")
    /\ Step(t, n, "result")
    /\ UNCHANGED <<table, config, broken, cache, ticked, tasks, cancelled, mutex,
                   loop, trouble, since>>

\* Start or Stop fails, before or after its effect; only a failed start writes the row.
CallFails(t, n) ==
    /\ jobs[t][n].pc = "call"
    /\ Trouble
    /\ \/ UNCHANGED agents
       \/ agents' = [agents EXCEPT ![n].running = (tasks[t].type = "start")]
    /\ IF tasks[t].type = "start"
       THEN Written(n, jobs[t][n].copy) /\ Touched
       ELSE UNCHANGED <<table, cache, ticked>>
    /\ Result(t, n, "failed")
    /\ Step(t, n, "result")
    /\ UNCHANGED <<config, broken, tasks, cancelled, mutex, loop, since>>

\* MUTANT: the Coordinator is not waited for.
ApplyLocksAtOnce(t, n) ==
    /\ jobs[t][n].pc = "lock"
    /\ mutex' = mutex \cup {<<t, n>>}
    /\ Step(t, n, "apply")
    /\ UNCHANGED <<table, agents, config, broken, cache, ticked, tasks, mem,
                   cancelled, loop, trouble, since>>

\* applyNode: the Coordinator ...
ApplyLocks(t, n) ==
    /\ jobs[t][n].pc = "lock"
    /\ mutex = {}
    /\ mutex' = {<<t, n>>}
    /\ Step(t, n, "apply")
    /\ UNCHANGED <<table, agents, config, broken, cache, ticked, tasks, mem,
                   cancelled, loop, trouble, since>>

\* ... Build, SaveSnapshot, ApplyConfig: the node runs the configuration of now ...
Applies(t, n) ==
    /\ jobs[t][n].pc = "apply"
    /\ n \notin broken
    /\ agents' = [agents EXCEPT ![n] = [hash |-> config, running |-> TRUE]]
    /\ jobs' = [jobs EXCEPT ![t][n] = [pc |-> "save", copy |->
                   [online |-> TRUE, running |-> TRUE, hash |-> config]]]
    /\ UNCHANGED <<table, config, broken, cache, ticked, tasks, mem, cancelled,
                   mutex, loop, trouble, since>>

\* ... and UpdateNode, whose failure is only mentioned.
Saves(t, n) ==
    /\ jobs[t][n].pc = "save"
    /\ \/ Written(n, jobs[t][n].copy) /\ Touched /\ UNCHANGED trouble
       \/ Trouble /\ UNCHANGED <<table, cache, ticked>>
    /\ mutex' = {}
    /\ Result(t, n, "ok")
    /\ Step(t, n, "result")
    /\ UNCHANGED <<agents, config, broken, tasks, cancelled, loop, since>>

\* The build or the call fails, the call before or after its effect: the copy is
\* written back with the error.
ApplyFails(t, n) ==
    /\ jobs[t][n].pc = "apply"
    /\ IF n \in broken THEN UNCHANGED <<trouble, agents>>
       ELSE /\ Trouble
            /\ \/ UNCHANGED agents
               \/ agents' = [agents EXCEPT ![n] = [hash |-> config, running |-> TRUE]]
    /\ mutex' = {}
    /\ Written(n, jobs[t][n].copy)
    /\ Touched
    /\ Result(t, n, "failed")
    /\ Step(t, n, "result")
    /\ UNCHANGED <<config, broken, tasks, cancelled, loop, since>>

\* The result joins the others, and the task's row gets all of them, under one mutex; an
\* error of this write is dropped.
Records(t, n) ==
    /\ jobs[t][n].pc = "result"
    /\ \/ tasks' = [tasks EXCEPT ![t].results = [m \in Nodes |->
                       IF jobs[t][m].pc = "done" \/ m = n THEN mem[t][m] ELSE "none"]]
          /\ UNCHANGED trouble
       \/ Trouble /\ UNCHANGED tasks
    /\ Step(t, n, "done")
    /\ UNCHANGED <<table, agents, config, broken, cache, ticked, mem, cancelled,
                   mutex, loop, since>>

\* The final status of a task.
Final(results) ==
    IF \A n \in Nodes : results[n] # "failed" THEN "success"
    ELSE IF \A n \in Nodes : results[n] # "ok" THEN "failed"
    ELSE "partial"

\* The end of RunTask; if this write fails the task stays "running" for ever.
Finishes(t) ==
    /\ tasks[t].status = "running"
    /\ ~Alive(t)
    /\ \E n \in Nodes : jobs[t][n].pc = "done"
    /\ \/ tasks' = [tasks EXCEPT ![t].status = Final(mem[t]), ![t].results = mem[t]]
          /\ UNCHANGED trouble
       \/ Trouble /\ UNCHANGED tasks
    /\ mem' = [mem EXCEPT ![t] = NoResults]
    /\ jobs' = [jobs EXCEPT ![t] = [n \in Nodes |-> NoJob]]
    /\ loop' = IF t = "bootstrap" THEN "scan" ELSE loop
    /\ UNCHANGED <<table, agents, config, broken, cache, ticked, cancelled, mutex, since>>

JobStep(t, n) ==
    \/ TakesSlot(t, n) \/ NotesIntent(t, n) \/ SlotFails(t, n) \/ SeesCancel(t, n) \/ DialFails(t, n)
    \/ Starts(t, n) \/ Stops(t, n) \/ CallFails(t, n)
    \/ ApplyLocks(t, n) \/ Applies(t, n) \/ Saves(t, n) \/ ApplyFails(t, n)
    \/ Records(t, n)

-----------------------------------------------------------------------------
(* The loop.                                                               *)

\* BootstrapAll, once after the start, for every node.
BootstrapAll ==
    /\ loop = "start"
    /\ \/ Started("bootstrap", "apply", Nodes) /\ loop' = "run"
       \/ NotStarted("bootstrap", "apply", Nodes) /\ loop' = "scan"
    /\ UNCHANGED <<table, agents, config, broken, cache, ticked, cancelled, mutex>>

\* The configuration a pass compares with: the cached one, or a new build.
Built == IF cache.same THEN cache.hash ELSE config
BuildFails == ~cache.same /\ broken \ Uplink # {}

\* MUTANT: only nodes that look down are brought up to date.
NeedsIfDown == {n \in Nodes \ Uplink : ~(table[n].online /\ table[n].running)}

\* nodesNeedingBootstrap.
Needs ==
    {n \in Nodes \ Uplink :
        ~(table[n].online /\ table[n].running /\ table[n].hash \in {0, Built})}

\* BootstrapPending: the nodes it builds for are cached.
BootstrapPending ==
    /\ loop = "scan"
    /\ ~BuildFails
    /\ Needs # {}
    /\ cache' = [same |-> TRUE, hash |-> Built]
    /\ \/ Started("bootstrap", "apply", Needs) /\ loop' = "run"
       \/ NotStarted("bootstrap", "apply", Needs) /\ UNCHANGED loop
    /\ UNCHANGED <<table, agents, config, broken, ticked, cancelled, mutex>>

\* A pass that finds nothing to do.
FindsNothing ==
    /\ loop = "scan"
    /\ ~BuildFails
    /\ Needs = {}
    /\ cache' = [same |-> TRUE, hash |-> Built]
    /\ cache' # cache
    /\ UNCHANGED <<table, agents, config, broken, ticked, tasks, mem, jobs, cancelled,
                   mutex, loop, trouble, since>>

-----------------------------------------------------------------------------
(* The operator, the clock and the process.                                *)

\* An edit; a node's configuration may become one that cannot be built, or be repaired.
EditConfig ==
    /\ config < MaxConfig
    /\ config' = config + 1
    /\ broken' \in {broken, {}} \cup {broken \cup {n} : n \in Fragile}
    /\ Touched
    /\ UNCHANGED <<table, agents, tasks, mem, jobs, cancelled, mutex, loop, trouble, since>>

SecondPasses ==
    /\ ~ticked
    /\ ticked' = TRUE
    /\ UNCHANGED <<table, agents, config, broken, cache, tasks, mem, jobs, cancelled,
                   mutex, loop, trouble, since>>

RequestCancelled ==
    /\ ~cancelled
    /\ Alive("batch")
    /\ Trouble
    /\ cancelled' = TRUE
    /\ UNCHANGED <<table, agents, config, broken, cache, ticked, tasks, mem, jobs, mutex, loop, since>>

\* The Panel stops: tasks stay as they were written, and nobody goes on with them.
BatchRestart ==
    /\ Trouble
    /\ mem' = [t \in Tasks |-> NoResults]
    /\ jobs' = [t \in Tasks |-> [n \in Nodes |-> NoJob]]
    /\ cache' = [same |-> FALSE, hash |-> 0]
    /\ mutex' = {}
    /\ loop' = "start"
    /\ UNCHANGED <<table, agents, config, broken, ticked, tasks, cancelled, since>>

BatchNext ==
    \/ BatchRequested \/ RequestCancelled
    \/ \E t \in Tasks, n \in Nodes : JobStep(t, n)
    \/ \E t \in Tasks : Finishes(t)
    \/ BootstrapAll \/ BootstrapPending \/ FindsNothing
    \/ EditConfig \/ SecondPasses \/ BatchRestart

\* Goroutines are scheduled, the loop has no exit, time passes.
BatchFairness ==
    /\ WF_batchVars(\E t \in Tasks, n \in Nodes : JobStep(t, n))
    /\ WF_batchVars(\E t \in Tasks : Finishes(t))
    /\ WF_batchVars(BootstrapAll)
    /\ WF_batchVars(BootstrapPending)
    /\ WF_batchVars(FindsNothing)

-----------------------------------------------------------------------------
\* What a task's row says is what happened, in every order the goroutines end, with failed
\* progress writes and cancelled requests: a row with a final status has a result for each
\* node of the request and for no other, the status is that of these results, and a push
\* node whose apply is "ok" runs a configuration no older than the task.
TaskResultsExact ==
    \A t \in Tasks :
        /\ tasks[t].status \in {"success", "failed", "partial"} =>
               \A n \in Nodes : tasks[t].results[n] # "none" <=> n \in tasks[t].nodes
        /\ tasks[t].status = "success" => \A n \in tasks[t].nodes : tasks[t].results[n] = "ok"
        /\ tasks[t].status = "failed" => \A n \in tasks[t].nodes : tasks[t].results[n] = "failed"
        /\ tasks[t].status = "partial" =>
               {"ok", "failed"} \subseteq {tasks[t].results[n] : n \in tasks[t].nodes}
        /\ tasks[t].type = "apply" =>
               \A n \in Nodes \ Uplink : tasks[t].results[n] = "ok" =>
                   agents[n].hash >= since[t]

\* A hole of the fingerprint: the cached configuration is not that of the tables, and
\* nothing tells (an edit in the second of another update).
Hidden == cache.same /\ cache.hash # config

\* A hole of the comparison: a row without a configuration hash passes for synced. An
\* Agent whose first apply failed and that was then started by a task has such a row.
Blank(n) == table[n].online /\ table[n].running /\ table[n].hash = 0

\* Every push node runs the latest configuration in the end, through failing calls, lost
\* answers, restarts and tasks of the operator, unless one node cannot be built, the edit
\* is hidden from the fingerprint (store.go:1653) or the row is blank (bootstrap.go:128).
BootstrapConverges ==
    \A n \in Nodes \ Uplink :
        agents[n].hash # config ~>
            agents[n].hash = config \/ Hidden \/ Blank(n) \/ broken # {}
=============================================================================
