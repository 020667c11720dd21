--------------------------- MODULE BatchRunner_proofs ---------------------------
(***************************************************************************)
(* Proofs about the tasks of the batch runner, for any number of nodes,    *)
(* goroutines, edits and troubles.                                         *)
(***************************************************************************)
EXTENDS BatchRunner, TLAPS

BatchSpec == BatchInit /\ [][BatchNext]_batchVars

FinalStatus == {"success", "failed", "partial"}
JobState == [pc : Steps, copy : Line]

\* Nobody runs a configuration, and no task has seen one, that does not exist yet.
Known ==
    /\ \A n \in Nodes : agents[n].hash <= config
    /\ \A t \in Tasks : since[t] <= config

\* An apply that succeeded, recorded or not, left a configuration no older than its task.
OkRuns ==
    \A t \in Tasks, n \in Nodes \ Uplink :
        tasks[t].type = "apply" /\ (mem[t][n] = "ok" \/ tasks[t].results[n] = "ok" \/ jobs[t][n].pc = "save") =>
            agents[n].hash >= since[t]

\* While RunTask is at work each node of its task, and no other, has a goroutine; one that
\* has ended, or is about to, has left its result.
Gathered ==
    \A t \in Tasks, n \in Nodes :
        /\ jobs[t][n].pc # "none" =>
               /\ tasks[t].status = "running" /\ n \in tasks[t].nodes
               /\ \A m \in tasks[t].nodes : jobs[t][m].pc # "none"
        /\ mem[t][n] # "none" <=> jobs[t][n].pc \in {"result", "done"}

\* The loop waits for its task.
LoopWaits == loop # "run" => \A n \in Nodes : jobs["bootstrap"][n].pc = "none"

\* What a final row says, by its status.
Fits(row) ==
    /\ row.status \in FinalStatus => \A n \in Nodes : row.results[n] # "none" <=> n \in row.nodes
    /\ row.status = "success" => \A n \in row.nodes : row.results[n] = "ok"
    /\ row.status = "failed" => \A n \in row.nodes : row.results[n] = "failed"
    /\ row.status = "partial" => {"ok", "failed"} \subseteq {row.results[n] : n \in row.nodes}

StatusFits == \A t \in Tasks : Fits(tasks[t])

BatchInv == BatchTypeOK /\ Known /\ OkRuns /\ Gathered /\ LoopWaits /\ StatusFits

(***************************************************************************)
(* Types.                                                                  *)
(***************************************************************************)

TaskRow == [type : {"apply", "start", "stop"}, nodes : SUBSET Nodes, results : [Nodes -> Outcomes],
            status : {"none", "pending", "running", "success", "failed", "partial"}]

LEMMA Constants ==
    /\ NoLine \in Line /\ NoResults \in [Nodes -> Outcomes] /\ NoJob \in JobState /\ NoTask \in TaskRow
    /\ NoJob.pc = "none" /\ NoTask.status = "none" /\ NoTask.type = "apply"
    /\ \A n \in Nodes : NoResults[n] = "none" /\ NoTask.results[n] = "none"
<1>1. NoLine \in Line
  BY BatchAssumption DEF NoLine, Line
<1>2. NoResults \in [Nodes -> Outcomes]
  BY DEF NoResults, Outcomes
<1>3. NoJob \in JobState
  BY <1>1 DEF NoJob, JobState, Steps
<1>4. NoTask \in TaskRow
  BY <1>2 DEF NoTask, TaskRow
<1> QED BY <1>1, <1>2, <1>3, <1>4 DEF NoJob, NoTask, NoResults

LEMMA BatchInitial == BatchInit => BatchInv
<1> SUFFICES ASSUME BatchInit PROVE BatchInv
  OBVIOUS
<1>1. /\ \A t \in Tasks : tasks[t] = NoTask /\ mem[t] = NoResults /\ since[t] = 0
      /\ \A t \in Tasks, n \in Nodes : jobs[t][n] = NoJob
      /\ \A n \in Nodes : agents[n].hash = 0
  BY DEF BatchInit
<1>2. table \in [Nodes -> Line] /\ tasks \in [Tasks -> TaskRow] /\ mem \in [Tasks -> [Nodes -> Outcomes]]
  BY Constants DEF BatchInit
<1>3. jobs \in [Tasks -> [Nodes -> JobState]]
  BY Constants DEF BatchInit
<1>4. agents \in [Nodes -> [hash : 0 .. MaxConfig, running : BOOLEAN]] /\ since \in [Tasks -> 0 .. MaxConfig]
  BY BatchAssumption DEF BatchInit
<1>5. config \in 0 .. MaxConfig /\ trouble \in 0 .. MaxTrouble /\ broken \subseteq Fragile
      /\ mutex = {} /\ loop \in {"start", "scan", "run"}
  BY BatchAssumption DEF BatchInit
<1>6. ticked \in BOOLEAN /\ cancelled \in BOOLEAN
  BY Zenon DEF BatchInit
<1>7. cache \in [same : BOOLEAN, hash : 0 .. MaxConfig]
  BY BatchAssumption DEF BatchInit
<1>8. BatchTypeOK
  BY <1>2, <1>3, <1>4, <1>5, <1>6, <1>7 DEF BatchTypeOK, TaskRow, JobState
<1>9. Known
  BY <1>1 DEF Known, BatchInit
<1>10. OkRuns /\ StatusFits
  BY <1>1, Constants DEF OkRuns, StatusFits, Fits, FinalStatus
<1>11. Gathered /\ LoopWaits
  BY <1>1, Constants DEF Gathered, LoopWaits, Tasks
<1> QED BY <1>8, <1>9, <1>10, <1>11 DEF BatchInv

(***************************************************************************)
(* The goroutine of a node.                                                *)
(***************************************************************************)

\* What every step of a goroutine does: its own place moves, its own result may be set,
\* the configuration an Agent runs is never an older one.
Works(t, n) ==
    /\ BatchTypeOK'
    /\ UNCHANGED <<config, since, loop>>
    /\ \A m \in Nodes : agents[m].hash <= agents'[m].hash /\ agents'[m].hash <= config
    /\ jobs[t][n].pc # "none" /\ jobs'[t][n].pc # "none"
    /\ mem'[t][n] # "none" <=> jobs'[t][n].pc \in {"result", "done"}
    /\ \A u \in Tasks, m \in Nodes :
           /\ u # t \/ m # n => jobs'[u][m] = jobs[u][m] /\ mem'[u][m] = mem[u][m]
           /\ u = t /\ m = n /\ m \notin Uplink /\ tasks[u].type = "apply" =>
                  /\ jobs'[u][m].pc = "save" => agents'[m].hash >= since[u]
                  /\ mem'[u][m] = "ok" => mem[u][m] = "ok" \/ agents'[m].hash >= since[u]

LEMMA WorksKeep ==
    ASSUME BatchInv, NEW t \in Tasks, NEW n \in Nodes, Works(t, n), tasks' = tasks
    PROVE  BatchInv'
<1> USE DEF BatchInv, Works
<1>0. \A m \in Nodes, u \in Tasks : agents[m].hash \in Nat /\ since[u] \in Nat /\ agents'[m].hash \in Nat
  BY DEF BatchTypeOK
<1>1. Known'
  BY DEF Known
<1>2. Gathered'
  <2> SUFFICES ASSUME NEW u \in Tasks, NEW m \in Nodes
               PROVE  /\ jobs'[u][m].pc # "none" =>
                             /\ tasks[u].status = "running" /\ m \in tasks[u].nodes
                             /\ \A k \in tasks[u].nodes : jobs'[u][k].pc # "none"
                      /\ mem'[u][m] # "none" <=> jobs'[u][m].pc \in {"result", "done"}
    BY DEF Gathered
  <2>1. mem'[u][m] # "none" <=> jobs'[u][m].pc \in {"result", "done"}
    BY DEF Gathered
  <2>2. tasks[u].nodes \subseteq Nodes
    BY DEF BatchTypeOK
  <2>3. \A k \in Nodes : jobs'[u][k].pc # "none" <=> jobs[u][k].pc # "none"
    OBVIOUS
  <2> QED BY <2>1, <2>2, <2>3 DEF Gathered
<1>3. StatusFits' /\ LoopWaits'
  <2>1. StatusFits'
    BY DEF StatusFits, Fits
  <2>2. \A k \in Nodes : jobs'["bootstrap"][k].pc # "none" <=> jobs["bootstrap"][k].pc # "none"
    BY DEF Tasks
  <2> QED BY <2>1, <2>2 DEF LoopWaits
<1>4. OkRuns'
  <2> SUFFICES ASSUME NEW u \in Tasks, NEW m \in Nodes \ Uplink, tasks[u].type = "apply",
                      mem'[u][m] = "ok" \/ tasks[u].results[m] = "ok" \/ jobs'[u][m].pc = "save"
               PROVE  agents'[m].hash >= since[u]
    BY DEF OkRuns
  <2>1. mem[u][m] = "ok" \/ tasks[u].results[m] = "ok" \/ jobs[u][m].pc = "save" => agents'[m].hash >= since[u]
    BY <1>0 DEF OkRuns
  <2> QED BY <2>1
<1> QED BY <1>1, <1>2, <1>3, <1>4

\* The operators the steps are made of.
LEMMA StepTo ==
    ASSUME BatchTypeOK, NEW t \in Tasks, NEW n \in Nodes, NEW pc \in Steps, Step(t, n, pc)
    PROVE  /\ jobs' \in [Tasks -> [Nodes -> JobState]]
           /\ jobs'[t][n].pc = pc
           /\ \A u \in Tasks, m \in Nodes : u # t \/ m # n => jobs'[u][m] = jobs[u][m]
<1>1. jobs \in [Tasks -> [Nodes -> JobState]]
  BY DEF BatchTypeOK, JobState
<1>2. PICK j : j = [jobs[t][n] EXCEPT !.pc = pc]
  OBVIOUS
<1>3. j \in JobState /\ j.pc = pc
  BY <1>1, <1>2 DEF JobState
<1>4. jobs' = [jobs EXCEPT ![t] = [jobs[t] EXCEPT ![n] = j]]
  BY <1>2 DEF Step
<1> QED BY <1>1, <1>3, <1>4

LEMMA JobSet ==
    ASSUME BatchTypeOK, NEW t \in Tasks, NEW n \in Nodes, NEW j \in JobState, jobs' = [jobs EXCEPT ![t][n] = j]
    PROVE  /\ jobs' \in [Tasks -> [Nodes -> JobState]]
           /\ jobs'[t][n] = j
           /\ \A u \in Tasks, m \in Nodes : u # t \/ m # n => jobs'[u][m] = jobs[u][m]
<1>1. jobs \in [Tasks -> [Nodes -> JobState]]
  BY DEF BatchTypeOK, JobState
<1>2. jobs' = [jobs EXCEPT ![t] = [jobs[t] EXCEPT ![n] = j]]
  OBVIOUS
<1> QED BY <1>1, <1>2

LEMMA ResultSet ==
    ASSUME BatchTypeOK, NEW t \in Tasks, NEW n \in Nodes, NEW o \in Outcomes, Result(t, n, o)
    PROVE  /\ mem' \in [Tasks -> [Nodes -> Outcomes]]
           /\ mem'[t][n] = o
           /\ \A u \in Tasks, m \in Nodes : u # t \/ m # n => mem'[u][m] = mem[u][m]
<1>1. mem \in [Tasks -> [Nodes -> Outcomes]]
  BY DEF BatchTypeOK
<1>2. mem' = [mem EXCEPT ![t] = [mem[t] EXCEPT ![n] = o]]
  BY DEF Result
<1> QED BY <1>1, <1>2

LEMMA RowWritten ==
    ASSUME BatchTypeOK, NEW n \in Nodes, NEW line \in Line, Written(n, line), Touched
    PROVE  table' \in [Nodes -> Line] /\ cache' \in [same : BOOLEAN, hash : 0 .. MaxConfig] /\ ticked' \in BOOLEAN
<1>1. table' \in [Nodes -> Line]
  BY DEF BatchTypeOK, Written
<1>2. [same |-> FALSE, hash |-> 0] \in [same : BOOLEAN, hash : 0 .. MaxConfig]
  BY BatchAssumption
<1>3. cache' \in [same : BOOLEAN, hash : 0 .. MaxConfig]
  BY <1>2 DEF Touched, BatchTypeOK
<1>4. ticked' \in BOOLEAN
  BY Zenon DEF Touched
<1> QED BY <1>1, <1>3, <1>4

\* The Agents' hashes in a step that leaves them alone, or sets one Agent.
LEMMA AgentSet ==
    ASSUME BatchInv, NEW n \in Nodes,
           \/ agents' = agents
           \/ \E running \in BOOLEAN : agents' = [agents EXCEPT ![n].running = running]
           \/ agents' = [agents EXCEPT ![n] = [hash |-> config, running |-> TRUE]]
    PROVE  /\ agents' \in [Nodes -> [hash : 0 .. MaxConfig, running : BOOLEAN]]
           /\ \A m \in Nodes : agents[m].hash <= agents'[m].hash /\ agents'[m].hash <= config
<1> USE DEF BatchInv, BatchTypeOK, Known
<1>1. CASE agents' = agents
  BY <1>1
<1>2. ASSUME NEW running \in BOOLEAN, agents' = [agents EXCEPT ![n].running = running]
      PROVE  /\ agents' \in [Nodes -> [hash : 0 .. MaxConfig, running : BOOLEAN]]
             /\ \A m \in Nodes : agents[m].hash <= agents'[m].hash /\ agents'[m].hash <= config
  <2>1. PICK a : a = [agents[n] EXCEPT !.running = running]
    OBVIOUS
  <2>2. a \in [hash : 0 .. MaxConfig, running : BOOLEAN] /\ a.hash = agents[n].hash
    BY <2>1
  <2>3. agents' = [agents EXCEPT ![n] = a]
    BY <1>2, <2>1
  <2> QED BY <2>2, <2>3
<1>3. CASE agents' = [agents EXCEPT ![n] = [hash |-> config, running |-> TRUE]]
  <2>1. [hash |-> config, running |-> TRUE] \in [hash : 0 .. MaxConfig, running : BOOLEAN]
    OBVIOUS
  <2> QED BY <1>3, <2>1
<1> QED BY <1>1, <1>2, <1>3

LEMMA MutexType ==
    ASSUME BatchTypeOK, NEW t \in Tasks, NEW n \in Nodes, mutex' \in {mutex, {}, {<<t, n>>}}
    PROVE  mutex' \in {{}} \cup {{j} : j \in Tasks \X Nodes}
BY DEF BatchTypeOK

\* What a goroutine reads.
LEMMA JobFacts ==
    ASSUME BatchInv, NEW t \in Tasks, NEW n \in Nodes
    PROVE  /\ jobs[t][n] \in JobState /\ jobs[t][n].copy \in Line /\ table[n] \in Line
           /\ agents[n] \in [hash : 0 .. MaxConfig, running : BOOLEAN]
           /\ config \in 0 .. MaxConfig /\ since[t] \in 0 .. MaxConfig
           /\ tasks \in [Tasks -> TaskRow]
           /\ \A m \in Nodes : agents[m].hash \in Nat /\ agents[m].hash <= config
           /\ BatchTypeOK
BY DEF BatchInv, BatchTypeOK, JobState, TaskRow, Known

\* A step of the goroutine of t and n that does not end an apply well.
LEMMA QuietWork ==
    ASSUME BatchInv, NEW t \in Tasks, NEW n \in Nodes, BatchTypeOK', jobs[t][n].pc # "none", jobs'[t][n].pc # "none",
           mem'[t][n] # "none" <=> jobs'[t][n].pc \in {"result", "done"},
           UNCHANGED <<config, since, tasks, loop>>,
           \A m \in Nodes : agents[m].hash <= agents'[m].hash /\ agents'[m].hash <= config,
           \A u \in Tasks, m \in Nodes : u # t \/ m # n => jobs'[u][m] = jobs[u][m] /\ mem'[u][m] = mem[u][m],
           n \notin Uplink /\ tasks[t].type = "apply" => jobs'[t][n].pc # "save" /\ mem'[t][n] \in {"failed", mem[t][n]}
    PROVE  BatchInv'
<1>1. Works(t, n)
  BY DEF Works
<1> QED BY <1>1, WorksKeep

LEMMA SlotKeeps ==
    ASSUME BatchInv, NEW t \in Tasks, NEW n \in Nodes, TakesSlot(t, n) \/ SeesCancel(t, n)
    PROVE  BatchInv'
<1> USE JobFacts
<1>1. /\ jobs[t][n].pc = "waiting"
      /\ UNCHANGED <<table, agents, config, broken, cache, ticked, tasks, cancelled, mutex, loop, trouble, since>>
  BY DEF TakesSlot, SeesCancel
<1>2. CASE TakesSlot(t, n)
  <2>1. PICK j : j = [pc |-> IF tasks[t].type = "apply" THEN "lock" ELSE "call", copy |-> table[n]]
    OBVIOUS
  <2>2. j \in JobState /\ j.pc \in {"lock", "call"}
    BY <2>1 DEF JobState, Steps
  <2>3. jobs' = [jobs EXCEPT ![t][n] = j] /\ mem' = mem
    BY <1>2, <2>1 DEF TakesSlot
  <2>4. BatchTypeOK'
    BY <1>1, <2>2, <2>3, JobSet DEF BatchTypeOK, JobState
  <2>5. mem[t][n] = "none"
    BY <1>1 DEF BatchInv, Gathered
  <2> QED BY <1>1, <2>2, <2>3, <2>4, <2>5, JobSet, QuietWork
<1>3. CASE SeesCancel(t, n)
  <2>1. Result(t, n, "failed") /\ Step(t, n, "done")
    BY <1>3 DEF SeesCancel
  <2>2. BatchTypeOK'
    BY <1>1, <2>1, StepTo, ResultSet DEF BatchTypeOK, Steps, Outcomes, JobState
  <2>3. /\ jobs'[t][n].pc = "done" /\ mem'[t][n] = "failed"
        /\ \A u \in Tasks, m \in Nodes : u # t \/ m # n => jobs'[u][m] = jobs[u][m] /\ mem'[u][m] = mem[u][m]
    BY <2>1, StepTo, ResultSet DEF Steps, Outcomes
  <2> QED BY <1>1, <2>2, <2>3, QuietWork
<1> QED BY <1>2, <1>3

\* A goroutine that ends with the result o.
LEMMA EndsWith ==
    ASSUME BatchInv, NEW t \in Tasks, NEW n \in Nodes, NEW o \in {"ok", "failed"},
           jobs[t][n].pc # "none", Result(t, n, o), Step(t, n, "result"),
           n \notin Uplink /\ tasks[t].type = "apply" => o = "failed" \/ agents[n].hash >= since[t],
           UNCHANGED <<config, broken, tasks, cancelled, loop, since>>,
           table' \in [Nodes -> Line], cache' \in [same : BOOLEAN, hash : 0 .. MaxConfig],
           ticked' \in BOOLEAN, trouble' \in 0 .. MaxTrouble, mutex' \in {mutex, {}},
           \/ agents' = agents
           \/ \E running \in BOOLEAN : agents' = [agents EXCEPT ![n].running = running]
           \/ agents' = [agents EXCEPT ![n] = [hash |-> config, running |-> TRUE]]
    PROVE  BatchInv'
<1>1. /\ agents' \in [Nodes -> [hash : 0 .. MaxConfig, running : BOOLEAN]]
      /\ \A m \in Nodes : agents[m].hash <= agents'[m].hash /\ agents'[m].hash <= config
  BY AgentSet
<1>2. mutex' \in {{}} \cup {{j} : j \in Tasks \X Nodes}
  BY MutexType DEF BatchInv
<1>3. /\ jobs' \in [Tasks -> [Nodes -> JobState]] /\ jobs'[t][n].pc = "result"
      /\ mem' \in [Tasks -> [Nodes -> Outcomes]] /\ mem'[t][n] = o
      /\ \A u \in Tasks, m \in Nodes : u # t \/ m # n => jobs'[u][m] = jobs[u][m] /\ mem'[u][m] = mem[u][m]
  BY StepTo, ResultSet DEF BatchInv, Steps, Outcomes
<1>4. BatchTypeOK'
  BY <1>1, <1>2, <1>3 DEF BatchInv, BatchTypeOK, JobState
<1>5. agents'[n].hash \in Nat /\ agents[n].hash \in Nat /\ since[t] \in Nat
  BY <1>1, JobFacts
<1>6. n \notin Uplink /\ tasks[t].type = "apply" /\ o = "ok" => agents'[n].hash >= since[t]
  BY <1>1, <1>5
<1>7. Works(t, n)
  BY <1>1, <1>3, <1>4, <1>6 DEF Works
<1> QED BY <1>7, WorksKeep

LEMMA TroubleType == ASSUME BatchInv, Trouble \/ UNCHANGED trouble PROVE trouble' \in 0 .. MaxTrouble
BY BatchAssumption DEF BatchInv, BatchTypeOK, Trouble

LEMMA CacheKept ==
    ASSUME BatchInv, UNCHANGED <<table, cache, ticked>>
    PROVE  table' \in [Nodes -> Line] /\ cache' \in [same : BOOLEAN, hash : 0 .. MaxConfig] /\ ticked' \in BOOLEAN
BY DEF BatchInv, BatchTypeOK

LEMMA LineSet ==
    ASSUME NEW line \in Line
    PROVE  /\ [line EXCEPT !.online = FALSE] \in Line
           /\ [line EXCEPT !.online = TRUE, !.running = TRUE] \in Line
<1>1. \A a \in Line, b \in BOOLEAN : [a EXCEPT !.online = b] \in Line /\ [a EXCEPT !.running = b] \in Line
  BY DEF Line
<1>2. PICK a : a = [line EXCEPT !.online = TRUE]
  OBVIOUS
<1>3. a \in Line /\ [a EXCEPT !.running = TRUE] \in Line
  BY <1>1, <1>2
<1> QED BY <1>1, <1>2, <1>3

LEMMA IntentKeeps ==
    ASSUME BatchInv, NEW t \in Tasks, NEW n \in Nodes, NotesIntent(t, n) \/ SlotFails(t, n)
    PROVE  BatchInv'
<1>0. BatchTypeOK
  BY JobFacts
<1>1. CASE NotesIntent(t, n)
  <2>1. /\ jobs[t][n].pc # "none" /\ n \in Uplink /\ Result(t, n, "ok") /\ Step(t, n, "result")
        /\ UNCHANGED <<cache, ticked>> \/ Touched
        /\ UNCHANGED <<table, agents, config, broken, tasks, cancelled, mutex, loop, trouble, since>>
    BY <1>1 DEF NotesIntent
  <2>2. table' \in [Nodes -> Line] /\ cache' \in [same : BOOLEAN, hash : 0 .. MaxConfig] /\ ticked' \in BOOLEAN
    <3>1. CASE UNCHANGED <<cache, ticked>>
      BY <2>1, <3>1, CacheKept
    <3>2. CASE Touched
      <4>1. table' \in [Nodes -> Line]
        BY <1>0, <2>1 DEF BatchTypeOK
      <4>2. [same |-> FALSE, hash |-> 0] \in [same : BOOLEAN, hash : 0 .. MaxConfig]
        BY BatchAssumption
      <4>3. cache' \in [same : BOOLEAN, hash : 0 .. MaxConfig]
        BY <1>0, <3>2, <4>2 DEF Touched, BatchTypeOK
      <4>4. ticked' \in BOOLEAN
        BY <3>2, Zenon DEF Touched
      <4> QED BY <4>1, <4>3, <4>4
    <3> QED BY <2>1, <3>1, <3>2
  <2> QED BY <2>1, <2>2, TroubleType, EndsWith
<1>2. CASE SlotFails(t, n)
  <2>1. /\ jobs[t][n].pc # "none" /\ Result(t, n, "failed") /\ Step(t, n, "result") /\ Trouble
        /\ UNCHANGED <<table, agents, config, broken, cache, ticked, tasks, cancelled, mutex, loop, since>>
    BY <1>2 DEF SlotFails
  <2> QED BY <2>1, CacheKept, TroubleType, EndsWith
<1> QED BY <1>1, <1>2

LEMMA CallsKeep ==
    ASSUME BatchInv, NEW t \in Tasks, NEW n \in Nodes,
           DialFails(t, n) \/ Starts(t, n) \/ Stops(t, n) \/ CallFails(t, n)
    PROVE  BatchInv'
<1>0. jobs[t][n].copy \in Line /\ BatchTypeOK
  BY JobFacts
<1>1. CASE DialFails(t, n)
  <2>1. PICK line : line = [jobs[t][n].copy EXCEPT !.online = FALSE]
    OBVIOUS
  <2>2. /\ jobs[t][n].pc # "none" /\ Written(n, line) /\ Touched
        /\ Result(t, n, "failed") /\ Step(t, n, "result")
        /\ Trouble \/ UNCHANGED trouble
        /\ UNCHANGED <<agents, config, broken, tasks, cancelled, mutex, loop, since>>
    BY <1>1, <2>1 DEF DialFails
  <2>3. line \in Line
    BY <1>0, <2>1, LineSet
  <2>4. table' \in [Nodes -> Line] /\ cache' \in [same : BOOLEAN, hash : 0 .. MaxConfig] /\ ticked' \in BOOLEAN
    BY <1>0, <2>2, <2>3, RowWritten
  <2>5. trouble' \in 0 .. MaxTrouble
    BY <2>2, TroubleType
  <2> QED BY <2>2, <2>4, <2>5, EndsWith
<1>2. CASE Starts(t, n)
  <2>1. PICK line : line = [jobs[t][n].copy EXCEPT !.online = TRUE, !.running = TRUE]
    OBVIOUS
  <2>2. /\ jobs[t][n].pc # "none" /\ tasks[t].type = "start" /\ Written(n, line) /\ Touched
        /\ Result(t, n, "ok") /\ Step(t, n, "result")
        /\ \E running \in BOOLEAN : agents' = [agents EXCEPT ![n].running = running]
        /\ UNCHANGED <<config, broken, tasks, cancelled, mutex, loop, trouble, since>>
    BY <1>2, <2>1 DEF Starts
  <2>3. line \in Line
    BY <1>0, <2>1, LineSet
  <2>4. table' \in [Nodes -> Line] /\ cache' \in [same : BOOLEAN, hash : 0 .. MaxConfig] /\ ticked' \in BOOLEAN
    BY <1>0, <2>2, <2>3, RowWritten
  <2>5. trouble' \in 0 .. MaxTrouble
    BY <2>2, TroubleType
  <2> QED BY <2>2, <2>4, <2>5, EndsWith
<1>3. CASE Stops(t, n)
  <2>1. /\ jobs[t][n].pc # "none" /\ tasks[t].type = "stop"
        /\ Result(t, n, "ok") /\ Step(t, n, "result")
        /\ agents' = [agents EXCEPT ![n].running = FALSE]
        /\ UNCHANGED <<table, config, broken, cache, ticked, tasks, cancelled, mutex, loop, trouble, since>>
    BY <1>3 DEF Stops
  <2> QED BY <2>1, CacheKept, TroubleType, EndsWith
<1>4. CASE CallFails(t, n)
  <2>1. /\ jobs[t][n].pc # "none" /\ Trouble
        /\ Result(t, n, "failed") /\ Step(t, n, "result")
        /\ agents' = agents \/ \E running \in BOOLEAN : agents' = [agents EXCEPT ![n].running = running]
        /\ \/ Written(n, jobs[t][n].copy) /\ Touched
           \/ UNCHANGED <<table, cache, ticked>>
        /\ UNCHANGED <<config, broken, tasks, cancelled, mutex, loop, since>>
    BY <1>4 DEF CallFails
  <2>2. table' \in [Nodes -> Line] /\ cache' \in [same : BOOLEAN, hash : 0 .. MaxConfig] /\ ticked' \in BOOLEAN
    BY <1>0, <2>1, CacheKept, RowWritten
  <2> QED BY <2>1, <2>2, TroubleType, EndsWith
<1> QED BY <1>1, <1>2, <1>3, <1>4

LEMMA AppliesKeep ==
    ASSUME BatchInv, NEW t \in Tasks, NEW n \in Nodes,
           ApplyLocks(t, n) \/ Applies(t, n) \/ Saves(t, n) \/ ApplyFails(t, n)
    PROVE  BatchInv'
<1>0. jobs[t][n].copy \in Line /\ BatchTypeOK /\ config \in 0 .. MaxConfig
  BY JobFacts
<1>1. CASE ApplyLocks(t, n)
  <2>1. /\ jobs[t][n].pc = "lock" /\ Step(t, n, "apply") /\ mutex' = {<<t, n>>}
        /\ UNCHANGED <<table, agents, config, broken, cache, ticked, tasks, mem, cancelled, loop, trouble, since>>
    BY <1>1 DEF ApplyLocks
  <2>2. BatchTypeOK'
    BY <1>0, <2>1, StepTo, MutexType DEF BatchTypeOK, Steps, JobState
  <2>3. mem[t][n] = "none"
    BY <2>1 DEF BatchInv, Gathered
  <2> QED BY <1>0, <2>1, <2>2, <2>3, StepTo, JobFacts, QuietWork DEF Steps
<1>2. CASE Applies(t, n)
  <2>1. PICK j : j = [pc |-> "save", copy |-> [online |-> TRUE, running |-> TRUE, hash |-> config]]
    OBVIOUS
  <2>2. j \in JobState /\ j.pc = "save"
    BY <1>0, <2>1 DEF JobState, Line, Steps
  <2>3. /\ jobs[t][n].pc = "apply" /\ agents' = [agents EXCEPT ![n] = [hash |-> config, running |-> TRUE]]
        /\ jobs' = [jobs EXCEPT ![t][n] = j]
        /\ UNCHANGED <<table, config, broken, cache, ticked, tasks, mem, cancelled, mutex, loop, trouble, since>>
    BY <1>2, <2>1 DEF Applies
  <2>4. /\ agents' \in [Nodes -> [hash : 0 .. MaxConfig, running : BOOLEAN]]
        /\ \A m \in Nodes : agents[m].hash <= agents'[m].hash /\ agents'[m].hash <= config
    BY <2>3, AgentSet
  <2>5. BatchTypeOK'
    BY <1>0, <2>2, <2>3, <2>4, JobSet DEF BatchTypeOK, JobState
  <2>6. agents'[n].hash = config
    BY <1>0, <2>3 DEF BatchTypeOK
  <2>7. since[t] <= config /\ since[t] \in Nat
    BY JobFacts DEF BatchInv, Known
  <2>8. mem[t][n] = "none"
    BY <2>3 DEF BatchInv, Gathered
  <2>9. Works(t, n)
    BY <1>0, <2>2, <2>3, <2>4, <2>5, <2>6, <2>7, <2>8, JobSet DEF Works
  <2> QED BY <2>3, <2>9, WorksKeep
<1>3. CASE Saves(t, n)
  <2>1. /\ jobs[t][n].pc = "save" /\ Result(t, n, "ok") /\ Step(t, n, "result") /\ mutex' = {}
        /\ \/ Written(n, jobs[t][n].copy) /\ Touched /\ UNCHANGED trouble
           \/ Trouble /\ UNCHANGED <<table, cache, ticked>>
        /\ UNCHANGED <<agents, config, broken, tasks, cancelled, loop, since>>
    BY <1>3 DEF Saves
  <2>2. table' \in [Nodes -> Line] /\ cache' \in [same : BOOLEAN, hash : 0 .. MaxConfig] /\ ticked' \in BOOLEAN
    BY <1>0, <2>1, CacheKept, RowWritten
  <2>3. n \notin Uplink /\ tasks[t].type = "apply" => agents[n].hash >= since[t]
    BY <2>1 DEF BatchInv, OkRuns
  <2> QED BY <2>1, <2>2, <2>3, TroubleType, EndsWith
<1>4. CASE ApplyFails(t, n)
  <2>1. /\ jobs[t][n].pc = "apply" /\ Result(t, n, "failed") /\ Step(t, n, "result") /\ mutex' = {}
        /\ Written(n, jobs[t][n].copy) /\ Touched
        /\ Trouble \/ UNCHANGED trouble
        /\ agents' = agents \/ agents' = [agents EXCEPT ![n] = [hash |-> config, running |-> TRUE]]
        /\ UNCHANGED <<config, broken, tasks, cancelled, loop, since>>
    BY <1>4 DEF ApplyFails
  <2>2. table' \in [Nodes -> Line] /\ cache' \in [same : BOOLEAN, hash : 0 .. MaxConfig] /\ ticked' \in BOOLEAN
    BY <1>0, <2>1, RowWritten
  <2>3. trouble' \in 0 .. MaxTrouble
    BY <2>1, TroubleType
  <2> QED BY <2>1, <2>2, <2>3, EndsWith
<1> QED BY <1>1, <1>2, <1>3, <1>4

\* The write of the results, and of the final status.
LEMMA RecordsKeep ==
    ASSUME BatchInv, NEW t \in Tasks, NEW n \in Nodes, Records(t, n)
    PROVE  BatchInv'
<1> USE DEF BatchInv
<1>0. tasks \in [Tasks -> TaskRow] /\ mem \in [Tasks -> [Nodes -> Outcomes]] /\ BatchTypeOK
  BY DEF BatchTypeOK, TaskRow
<1>1. /\ jobs[t][n].pc = "result" /\ Step(t, n, "done")
      /\ UNCHANGED <<table, agents, config, broken, cache, ticked, mem, cancelled, mutex, loop, since>>
  BY DEF Records
<1>2. /\ jobs' \in [Tasks -> [Nodes -> JobState]] /\ jobs'[t][n].pc = "done"
      /\ \A u \in Tasks, m \in Nodes : u # t \/ m # n => jobs'[u][m] = jobs[u][m]
  BY <1>0, <1>1, StepTo DEF Steps
<1>3. PICK r : r = [m \in Nodes |-> IF jobs[t][m].pc = "done" \/ m = n THEN mem[t][m] ELSE "none"]
  OBVIOUS
<1>4. r \in [Nodes -> Outcomes] /\ \A m \in Nodes : r[m] \in {mem[t][m], "none"}
  BY <1>0, <1>3 DEF Outcomes
<1>5. tasks' = tasks \/ tasks' = [tasks EXCEPT ![t].results = r]
  BY <1>3 DEF Records
<1>6. /\ tasks' \in [Tasks -> TaskRow]
      /\ \A u \in Tasks : /\ tasks'[u].type = tasks[u].type /\ tasks'[u].status = tasks[u].status
                           /\ tasks'[u].nodes = tasks[u].nodes
      /\ \A u \in Tasks : tasks'[u].results = tasks[u].results \/ (u = t /\ tasks'[u].results = r)
  <2>1. CASE tasks' = tasks
    BY <1>0, <2>1
  <2>2. CASE tasks' = [tasks EXCEPT ![t].results = r]
    <3>1. PICK k : k = [tasks[t] EXCEPT !.results = r]
      OBVIOUS
    <3>2. k \in TaskRow /\ k.type = tasks[t].type /\ k.status = tasks[t].status /\ k.nodes = tasks[t].nodes /\ k.results = r
      BY <1>0, <1>4, <3>1 DEF TaskRow
    <3>3. tasks' = [tasks EXCEPT ![t] = k]
      BY <2>2, <3>1
    <3> QED BY <1>0, <3>2, <3>3
  <2> QED BY <1>5, <2>1, <2>2
<1>7. trouble' \in 0 .. MaxTrouble
  BY TroubleType DEF Records
<1>8. BatchTypeOK'
  BY <1>0, <1>1, <1>2, <1>6, <1>7 DEF BatchTypeOK, TaskRow, JobState
<1>9. Known'
  BY <1>1 DEF Known
<1>10. Gathered' /\ LoopWaits'
  <2>1. \A u \in Tasks, m \in Nodes : jobs'[u][m].pc = jobs[u][m].pc \/ (jobs[u][m].pc = "result" /\ jobs'[u][m].pc = "done")
    BY <1>1, <1>2
  <2>2. \A u \in Tasks : tasks[u].nodes \subseteq Nodes
    BY <1>0 DEF TaskRow
  <2>3. Gathered'
    <3> SUFFICES ASSUME NEW u \in Tasks, NEW m \in Nodes
                 PROVE  /\ jobs'[u][m].pc # "none" =>
                               /\ tasks'[u].status = "running" /\ m \in tasks'[u].nodes
                               /\ \A k \in tasks'[u].nodes : jobs'[u][k].pc # "none"
                        /\ mem'[u][m] # "none" <=> jobs'[u][m].pc \in {"result", "done"}
      BY DEF Gathered
    <3> QED BY <1>1, <1>6, <2>1, <2>2 DEF Gathered
  <2>4. LoopWaits'
    BY <1>1, <2>1 DEF LoopWaits, Tasks
  <2> QED BY <2>3, <2>4
<1>11. tasks[t].status = "running"
  BY <1>1 DEF Gathered
<1>12. StatusFits'
  <2> SUFFICES ASSUME NEW u \in Tasks PROVE Fits(tasks'[u])
    BY DEF StatusFits
  <2>1. CASE u = t
    BY <1>6, <1>11, <2>1 DEF Fits, FinalStatus
  <2>2. CASE u # t
    <3>1. /\ tasks'[u].status = tasks[u].status /\ tasks'[u].nodes = tasks[u].nodes
          /\ tasks'[u].results = tasks[u].results
      BY <1>6, <2>2
    <3> QED BY <3>1 DEF StatusFits, Fits
  <2> QED BY <2>1, <2>2
<1>13. OkRuns'
  <2> SUFFICES ASSUME NEW u \in Tasks, NEW m \in Nodes \ Uplink, tasks'[u].type = "apply",
                      mem[u][m] = "ok" \/ tasks'[u].results[m] = "ok" \/ jobs'[u][m].pc = "save"
               PROVE  agents[m].hash >= since[u]
    BY <1>1 DEF OkRuns
  <2>1. mem[u][m] = "ok" \/ tasks[u].results[m] = "ok" \/ jobs[u][m].pc = "save"
    BY <1>2, <1>4, <1>6
  <2> QED BY <1>6, <2>1 DEF OkRuns
<1> QED BY <1>8, <1>9, <1>10, <1>12, <1>13

LEMMA FinishesKeep ==
    ASSUME BatchInv, NEW t \in Tasks, Finishes(t)
    PROVE  BatchInv'
<1> USE DEF BatchInv
<1>0. tasks \in [Tasks -> TaskRow] /\ mem \in [Tasks -> [Nodes -> Outcomes]] /\ BatchTypeOK
  BY DEF BatchTypeOK, TaskRow
<1>1. /\ tasks[t].status = "running" /\ \A n \in Nodes : jobs[t][n].pc \in {"none", "done"}
      /\ \E n \in Nodes : jobs[t][n].pc = "done"
      /\ mem' = [mem EXCEPT ![t] = NoResults]
      /\ jobs' = [jobs EXCEPT ![t] = [n \in Nodes |-> NoJob]]
      /\ loop' = IF t = "bootstrap" THEN "scan" ELSE loop
      /\ UNCHANGED <<table, agents, config, broken, cache, ticked, cancelled, mutex, since>>
  BY DEF Finishes, Alive
<1>2. PICK f, r : f = Final(mem[t]) /\ r = mem[t]
  OBVIOUS
<1>3. /\ f \in FinalStatus /\ r \in [Nodes -> Outcomes] /\ tasks[t].nodes \subseteq Nodes
      /\ \A n \in Nodes : r[n] # "none" <=> n \in tasks[t].nodes
      /\ f = "success" => \A n \in tasks[t].nodes : r[n] = "ok"
      /\ f = "failed" => \A n \in tasks[t].nodes : r[n] = "failed"
      /\ f = "partial" => {"ok", "failed"} \subseteq {r[n] : n \in tasks[t].nodes}
  <2>1. f \in FinalStatus /\ r \in [Nodes -> Outcomes] /\ tasks[t].nodes \subseteq Nodes
    BY <1>0, <1>2 DEF Final, FinalStatus, TaskRow
  <2>2. \A n \in Nodes : r[n] # "none" <=> n \in tasks[t].nodes
    <3>1. \A n \in tasks[t].nodes : jobs[t][n].pc # "none"
      BY <1>1 DEF Gathered
    <3>2. \A n \in Nodes : jobs[t][n].pc # "none" <=> n \in tasks[t].nodes
      BY <2>1, <3>1 DEF Gathered
    <3>3. \A n \in Nodes : jobs[t][n].pc # "none" <=> jobs[t][n].pc \in {"result", "done"}
      BY <1>1
    <3> QED BY <1>2, <3>2, <3>3 DEF Gathered
  <2>3. \A n \in tasks[t].nodes : r[n] \in {"ok", "failed"}
    BY <2>1, <2>2 DEF Outcomes
  <2>4. f = "success" => \A n \in Nodes : r[n] # "failed"
    BY <1>2 DEF Final
  <2>5. f = "failed" => \A n \in Nodes : r[n] # "ok"
    BY <1>2 DEF Final
  <2>6. f = "partial" => (\E n \in Nodes : r[n] = "ok") /\ (\E n \in Nodes : r[n] = "failed")
    BY <1>2 DEF Final
  <2>7. f = "partial" => {"ok", "failed"} \subseteq {r[n] : n \in tasks[t].nodes}
    BY <2>2, <2>6
  <2> QED BY <2>1, <2>2, <2>3, <2>4, <2>5, <2>7
<1>4. tasks' = tasks \/ tasks' = [tasks EXCEPT ![t].status = f, ![t].results = r]
  BY <1>2 DEF Finishes
<1>5. /\ tasks' \in [Tasks -> TaskRow]
      /\ \A u \in Tasks : tasks'[u].type = tasks[u].type /\ tasks'[u].nodes = tasks[u].nodes
      /\ \A u \in Tasks : tasks'[u] = tasks[u] \/ (u = t /\ tasks'[u].results = r /\ tasks'[u].status = f)
  <2>1. CASE tasks' = tasks
    BY <1>0, <2>1
  <2>2. CASE tasks' = [tasks EXCEPT ![t].status = f, ![t].results = r]
    <3>1. PICK k : k = [type |-> tasks[t].type, status |-> f, nodes |-> tasks[t].nodes, results |-> r]
      OBVIOUS
    <3>2. k \in TaskRow
      BY <1>0, <1>3, <3>1 DEF TaskRow, FinalStatus
    <3>3. tasks' = [tasks EXCEPT ![t] = k]
      <4>1. tasks[t] \in TaskRow
        BY <1>0
      <4>2. PICK a : a = [tasks[t] EXCEPT !.status = f]
        OBVIOUS
      <4>3. a = [type |-> tasks[t].type, status |-> f, nodes |-> tasks[t].nodes, results |-> tasks[t].results]
        BY <4>1, <4>2 DEF TaskRow
      <4>4. [a EXCEPT !.results = r] = k
        BY <3>1, <4>3
      <4>5. PICK b : b = [tasks EXCEPT ![t] = a]
        OBVIOUS
      <4>6. tasks' = [b EXCEPT ![t] = [b[t] EXCEPT !.results = r]]
        BY <2>2, <4>2, <4>5
      <4>7. b[t] = a
        BY <1>0, <4>5
      <4>8. tasks' = [b EXCEPT ![t] = k]
        BY <4>4, <4>6, <4>7
      <4> QED BY <1>0, <4>5, <4>8
    <3>4. k.type = tasks[t].type /\ k.status = f /\ k.nodes = tasks[t].nodes /\ k.results = r
      BY <3>1
    <3> QED BY <1>0, <3>2, <3>3, <3>4
  <2> QED BY <1>4, <2>1, <2>2
<1>6. /\ mem' \in [Tasks -> [Nodes -> Outcomes]] /\ mem'[t] = NoResults
      /\ \A u \in Tasks \ {t} : mem'[u] = mem[u]
      /\ \A u \in Tasks, n \in Nodes : mem'[u][n] \in {"none", mem[u][n]}
  BY <1>0, <1>1, Constants
<1>6a. /\ jobs' \in [Tasks -> [Nodes -> JobState]] /\ \A n \in Nodes : jobs'[t][n] = NoJob
       /\ \A u \in Tasks \ {t} : jobs'[u] = jobs[u]
  <2>1. jobs \in [Tasks -> [Nodes -> JobState]] /\ [n \in Nodes |-> NoJob] \in [Nodes -> JobState]
    BY Constants DEF BatchTypeOK, JobState
  <2> QED BY <1>1, <2>1
<1>7. trouble' \in 0 .. MaxTrouble
  BY TroubleType DEF Finishes
<1>8. BatchTypeOK'
  BY <1>0, <1>1, <1>5, <1>6, <1>6a, <1>7 DEF BatchTypeOK, TaskRow, JobState
<1>9. Known'
  BY <1>1 DEF Known
<1>10. Gathered' /\ LoopWaits'
  <2>1. Gathered'
    <3> SUFFICES ASSUME NEW u \in Tasks, NEW m \in Nodes
                 PROVE  /\ jobs'[u][m].pc # "none" =>
                               /\ tasks'[u].status = "running" /\ m \in tasks'[u].nodes
                               /\ \A k \in tasks'[u].nodes : jobs'[u][k].pc # "none"
                        /\ mem'[u][m] # "none" <=> jobs'[u][m].pc \in {"result", "done"}
      BY DEF Gathered
    <3>1. CASE u = t
      BY <1>6, <1>6a, <3>1, Constants
    <3>2. CASE u # t
      <4>1. tasks'[u] = tasks[u] /\ mem'[u] = mem[u] /\ jobs'[u] = jobs[u]
        BY <1>5, <1>6, <1>6a, <3>2
      <4> QED BY <4>1 DEF Gathered
    <3> QED BY <3>1, <3>2
  <2>2. LoopWaits'
    <3>1. CASE t = "bootstrap"
      BY <1>6a, <3>1, Constants DEF LoopWaits
    <3>2. CASE t # "bootstrap"
      <4>1. loop' = loop /\ jobs'["bootstrap"] = jobs["bootstrap"]
        BY <1>1, <1>6a, <3>2 DEF Tasks
      <4> QED BY <4>1 DEF LoopWaits
    <3> QED BY <3>1, <3>2
  <2> QED BY <2>1, <2>2
<1>11. StatusFits'
  <2> SUFFICES ASSUME NEW u \in Tasks PROVE Fits(tasks'[u])
    BY DEF StatusFits
  <2>1. CASE tasks'[u] = tasks[u]
    BY <2>1 DEF StatusFits
  <2>2. CASE u = t /\ tasks'[u].results = r /\ tasks'[u].status = f
    <3>1. tasks'[u].nodes = tasks[t].nodes
      BY <1>5, <2>2
    <3> QED BY <1>3, <2>2, <3>1 DEF Fits
  <2> QED BY <1>5, <2>1, <2>2
<1>12. OkRuns'
  <2> SUFFICES ASSUME NEW u \in Tasks, NEW m \in Nodes \ Uplink, tasks'[u].type = "apply",
                      mem'[u][m] = "ok" \/ tasks'[u].results[m] = "ok" \/ jobs'[u][m].pc = "save"
               PROVE  agents[m].hash >= since[u]
    BY <1>1 DEF OkRuns
  <2>1. mem[u][m] = "ok" \/ tasks[u].results[m] = "ok" \/ jobs[u][m].pc = "save"
    <3>1. jobs'[u][m].pc = "save" => jobs[u][m].pc = "save"
      BY <1>6a, Constants
    <3> QED BY <1>2, <1>5, <1>6, <3>1
  <2> QED BY <1>5, <2>1 DEF OkRuns
<1> QED BY <1>8, <1>9, <1>10, <1>11, <1>12

LEMMA JobKeeps == ASSUME BatchInv, NEW t \in Tasks, NEW n \in Nodes, JobStep(t, n) PROVE BatchInv'
BY SlotKeeps, IntentKeeps, CallsKeep, AppliesKeep, RecordsKeep DEF JobStep

(***************************************************************************)
(* The other steps.                                                        *)
(***************************************************************************)

\* A task begins with no results and the configuration of the moment.
LEMMA StartsTask ==
    ASSUME BatchInv, NEW t \in Tasks, NEW type \in {"apply", "start", "stop"},
           NEW ids \in SUBSET Nodes, Started(t, type, ids),
           UNCHANGED <<table, agents, config, broken, ticked, cancelled, mutex>>,
           loop' = "run" \/ (t = "batch" /\ loop' = loop), cache' \in [same : BOOLEAN, hash : 0 .. MaxConfig]
    PROVE  BatchInv'
<1> USE DEF BatchInv
<1>0. /\ tasks \in [Tasks -> TaskRow] /\ mem \in [Tasks -> [Nodes -> Outcomes]] /\ jobs \in [Tasks -> [Nodes -> JobState]]
      /\ since \in [Tasks -> 0 .. MaxConfig] /\ config \in 0 .. MaxConfig
  BY DEF BatchTypeOK, TaskRow, JobState
<1>1. PICK k : k = [type |-> type, status |-> "running", nodes |-> ids, results |-> NoResults]
  OBVIOUS
<1>2. k \in TaskRow /\ k.status = "running" /\ k.nodes = ids /\ \A n \in Nodes : k.results[n] = "none"
  BY <1>1, Constants DEF TaskRow
<1>3. PICK j : j = [n \in Nodes |-> IF n \in ids THEN [NoJob EXCEPT !.pc = "waiting"] ELSE NoJob]
  OBVIOUS
<1>4. [NoJob EXCEPT !.pc = "waiting"] \in JobState /\ [NoJob EXCEPT !.pc = "waiting"].pc = "waiting"
  BY Constants DEF NoJob, JobState, Steps
<1>5. /\ j \in [Nodes -> JobState]
      /\ \A n \in Nodes : j[n].pc \in {"none", "waiting"} /\ (j[n].pc # "none" <=> n \in ids)
  BY <1>3, <1>4, Constants
<1>6. /\ tasks' = [tasks EXCEPT ![t] = k] /\ mem' = [mem EXCEPT ![t] = NoResults]
      /\ jobs' = [jobs EXCEPT ![t] = j] /\ since' = [since EXCEPT ![t] = config]
      /\ trouble' = trouble
  BY <1>1, <1>3 DEF Started
<1>7. /\ tasks' \in [Tasks -> TaskRow] /\ mem' \in [Tasks -> [Nodes -> Outcomes]]
      /\ jobs' \in [Tasks -> [Nodes -> JobState]] /\ since' \in [Tasks -> 0 .. MaxConfig]
      /\ tasks'[t] = k /\ mem'[t] = NoResults /\ jobs'[t] = j /\ since'[t] = config
      /\ \A u \in Tasks \ {t} : tasks'[u] = tasks[u] /\ mem'[u] = mem[u] /\ jobs'[u] = jobs[u] /\ since'[u] = since[u]
  BY <1>0, <1>2, <1>5, <1>6, Constants
<1>8. BatchTypeOK'
  <2>1. loop' \in {"start", "scan", "run"}
    BY DEF BatchTypeOK
  <2> QED BY <1>6, <1>7, <2>1 DEF BatchTypeOK, TaskRow, JobState
<1>9. Known'
  <2>1. config' = config /\ agents' = agents /\ config <= config
    BY <1>0, BatchAssumption
  <2>2. \A n \in Nodes : agents[n].hash <= config
    BY DEF Known
  <2>3. \A u \in Tasks : since'[u] <= config
    <3> SUFFICES ASSUME NEW u \in Tasks PROVE since'[u] <= config
      OBVIOUS
    <3>1. CASE u = t
      BY <1>7, <2>1, <3>1
    <3>2. CASE u # t
      BY <1>7, <3>2 DEF Known
    <3> QED BY <3>1, <3>2
  <2> QED BY <2>1, <2>2, <2>3 DEF Known
<1>10. Gathered' /\ LoopWaits' /\ StatusFits'
  <2>1. Gathered'
    <3> SUFFICES ASSUME NEW u \in Tasks, NEW m \in Nodes
                 PROVE  /\ jobs'[u][m].pc # "none" =>
                               /\ tasks'[u].status = "running" /\ m \in tasks'[u].nodes
                               /\ \A i \in tasks'[u].nodes : jobs'[u][i].pc # "none"
                        /\ mem'[u][m] # "none" <=> jobs'[u][m].pc \in {"result", "done"}
      BY DEF Gathered
    <3>1. CASE u = t
      <4>1. tasks'[u].status = "running" /\ tasks'[u].nodes = ids
        BY <1>2, <1>7, <3>1
      <4>2. \A i \in Nodes : jobs'[u][i].pc \in {"none", "waiting"} /\ (jobs'[u][i].pc # "none" <=> i \in ids)
        BY <1>5, <1>7, <3>1
      <4>3. mem'[u][m] = "none"
        BY <1>7, <3>1, Constants
      <4> QED BY <4>1, <4>2, <4>3
    <3>2. CASE u # t
      <4>1. tasks'[u] = tasks[u] /\ mem'[u] = mem[u] /\ jobs'[u] = jobs[u]
        BY <1>7, <3>2
      <4> QED BY <4>1 DEF Gathered
    <3> QED BY <3>1, <3>2
  <2>2. LoopWaits'
    <3>1. CASE loop' = "run"
      BY <3>1 DEF LoopWaits
    <3>2. CASE t = "batch" /\ loop' = loop
      <4>1. jobs'["bootstrap"] = jobs["bootstrap"]
        BY <1>7, <3>2 DEF Tasks
      <4> QED BY <3>2, <4>1 DEF LoopWaits
    <3> QED BY <3>1, <3>2
  <2>3. StatusFits'
    <3> SUFFICES ASSUME NEW u \in Tasks PROVE Fits(tasks'[u])
      BY DEF StatusFits
    <3>1. CASE u = t
      BY <1>2, <1>7, <3>1 DEF Fits, FinalStatus
    <3>2. CASE u # t
      BY <1>7, <3>2 DEF StatusFits
    <3> QED BY <3>1, <3>2
  <2> QED BY <2>1, <2>2, <2>3
<1>11. OkRuns'
  <2> SUFFICES ASSUME NEW u \in Tasks, NEW n \in Nodes \ Uplink, tasks'[u].type = "apply",
                      mem'[u][n] = "ok" \/ tasks'[u].results[n] = "ok" \/ jobs'[u][n].pc = "save"
               PROVE  agents[n].hash >= since'[u]
    BY DEF OkRuns
  <2>1. u # t
    BY <1>2, <1>5, <1>7, Constants
  <2>2. tasks'[u] = tasks[u] /\ mem'[u] = mem[u] /\ jobs'[u] = jobs[u] /\ since'[u] = since[u]
    BY <1>7, <2>1
  <2> QED BY <2>2 DEF OkRuns
<1> QED BY <1>8, <1>9, <1>10, <1>11

\* A task that never begins has no results and no goroutine.
LEMMA TaskPends ==
    ASSUME BatchInv, NEW t \in Tasks, NEW type \in {"apply", "start", "stop"},
           NEW ids \in SUBSET Nodes, NotStarted(t, type, ids), \A n \in Nodes : jobs[t][n].pc = "none",
           UNCHANGED <<table, agents, config, broken, ticked, cancelled, mutex>>,
           loop' \in {loop, "scan"}, t = "batch" => loop' = loop,
           cache' \in [same : BOOLEAN, hash : 0 .. MaxConfig]
    PROVE  BatchInv'
<1> USE DEF BatchInv
<1>0. tasks \in [Tasks -> TaskRow]
  BY DEF BatchTypeOK, TaskRow
<1>1. PICK k : k = [type |-> type, status |-> "pending", nodes |-> ids, results |-> NoResults]
  OBVIOUS
<1>2. k \in TaskRow /\ k.status = "pending" /\ \A n \in Nodes : k.results[n] = "none"
  BY <1>1, Constants DEF TaskRow
<1>3. /\ tasks' = [tasks EXCEPT ![t] = k] /\ Trouble
      /\ UNCHANGED <<mem, jobs, since>>
  BY <1>1 DEF NotStarted
<1>4. /\ tasks' \in [Tasks -> TaskRow] /\ tasks'[t] = k
      /\ \A u \in Tasks \ {t} : tasks'[u] = tasks[u]
  BY <1>0, <1>2, <1>3
<1>5. BatchTypeOK'
  <2>1. loop' \in {"start", "scan", "run"}
    BY DEF BatchTypeOK
  <2>2. trouble' \in 0 .. MaxTrouble
    BY <1>3, TroubleType
  <2> QED BY <1>3, <1>4, <2>1, <2>2 DEF BatchTypeOK, TaskRow
<1>6. Known'
  BY <1>3 DEF Known
<1>7. Gathered'
  <2> SUFFICES ASSUME NEW u \in Tasks, NEW m \in Nodes
               PROVE  /\ jobs'[u][m].pc # "none" =>
                             /\ tasks'[u].status = "running" /\ m \in tasks'[u].nodes
                             /\ \A i \in tasks'[u].nodes : jobs'[u][i].pc # "none"
                      /\ mem'[u][m] # "none" <=> jobs'[u][m].pc \in {"result", "done"}
    BY DEF Gathered
  <2>1. CASE u = t
    BY <1>3, <2>1 DEF Gathered
  <2>2. CASE u # t
    BY <1>3, <1>4, <2>2 DEF Gathered
  <2> QED BY <2>1, <2>2
<1>8. LoopWaits'
  <2>1. CASE t = "batch"
    BY <1>3, <2>1 DEF LoopWaits
  <2>2. CASE t # "batch"
    BY <1>3, <2>2 DEF LoopWaits, Tasks
  <2> QED BY <2>1, <2>2
<1>9. StatusFits'
  <2> SUFFICES ASSUME NEW u \in Tasks PROVE Fits(tasks'[u])
    BY DEF StatusFits
  <2>1. CASE u = t
    BY <1>2, <1>4, <2>1 DEF Fits, FinalStatus
  <2>2. CASE u # t
    BY <1>4, <2>2 DEF StatusFits
  <2> QED BY <2>1, <2>2
<1>10. OkRuns'
  <2> SUFFICES ASSUME NEW u \in Tasks, NEW n \in Nodes \ Uplink, tasks'[u].type = "apply",
                      mem[u][n] = "ok" \/ tasks'[u].results[n] = "ok" \/ jobs[u][n].pc = "save"
               PROVE  agents[n].hash >= since[u]
    BY <1>3 DEF OkRuns
  <2>1. CASE u = t
    <3>1. mem[u][n] = "none"
      BY <2>1 DEF Gathered
    <3> QED BY <1>2, <1>4, <2>1, <3>1
  <2>2. CASE u # t
    BY <1>4, <2>2 DEF OkRuns
  <2> QED BY <2>1, <2>2
<1> QED BY <1>5, <1>6, <1>7, <1>8, <1>9, <1>10

\* Tasks, results and goroutines stay; the configuration may be a newer one.
LEMMA QuietBatch ==
    ASSUME BatchInv, BatchTypeOK', UNCHANGED <<agents, tasks, mem, jobs, since, loop>>, config <= config'
    PROVE  BatchInv'
<1> USE DEF BatchInv
<1>1. /\ \A n \in Nodes : agents[n].hash \in Nat
      /\ \A t \in Tasks : since[t] \in Nat
      /\ config \in Nat /\ config' \in Nat
  BY BatchAssumption DEF BatchTypeOK
<1>2. Known'
  BY <1>1 DEF Known
<1>3. Gathered' /\ LoopWaits' /\ StatusFits' /\ OkRuns'
  BY DEF Gathered, LoopWaits, StatusFits, Fits, OkRuns
<1> QED BY <1>2, <1>3

LEMMA LoopKeeps ==
    ASSUME BatchInv, BatchRequested \/ BootstrapAll \/ BootstrapPending \/ FindsNothing
    PROVE  BatchInv'
<1>0. /\ BatchTypeOK /\ cache \in [same : BOOLEAN, hash : 0 .. MaxConfig] /\ config \in 0 .. MaxConfig
      /\ loop \in {"start", "scan", "run"}
  BY DEF BatchInv, BatchTypeOK
<1>1. [same |-> TRUE, hash |-> Built] \in [same : BOOLEAN, hash : 0 .. MaxConfig]
  <2>1. Built \in 0 .. MaxConfig
    BY <1>0 DEF Built
  <2> QED BY <2>1
<1>2. CASE BatchRequested
  <2>1. PICK request \in Requests : \/ Started("batch", request[1], request[2])
                                   \/ NotStarted("batch", request[1], request[2])
    BY <1>2 DEF BatchRequested
  <2>2. PICK type \in {"apply", "start", "stop"}, ids \in SUBSET Nodes : request = <<type, ids>>
    <3>1. request \in {"apply", "start", "stop"} \X ((SUBSET Nodes) \ {{}})
      BY BatchAssumption
    <3> QED BY <3>1
  <2>3. Started("batch", type, ids) \/ NotStarted("batch", type, ids)
    BY <2>1, <2>2
  <2>4. /\ UNCHANGED <<table, agents, config, broken, cache, ticked, cancelled, mutex, loop>>
        /\ tasks["batch"].status = "none"
    BY <1>2 DEF BatchRequested
  <2>5. "batch" \in Tasks
    BY DEF Tasks
  <2>6. \A n \in Nodes : jobs["batch"][n].pc = "none"
    BY <2>4, <2>5 DEF BatchInv, Gathered
  <2>7. cache' \in [same : BOOLEAN, hash : 0 .. MaxConfig]
    BY <1>0, <2>4
  <2>8. CASE Started("batch", type, ids)
    BY <2>4, <2>5, <2>7, <2>8, StartsTask
  <2>9. CASE NotStarted("batch", type, ids)
    BY <2>4, <2>5, <2>6, <2>7, <2>9, TaskPends
  <2> QED BY <2>3, <2>8, <2>9
<1>3. ASSUME loop # "run", NEW ids \in SUBSET Nodes,
             \/ Started("bootstrap", "apply", ids) /\ loop' = "run"
             \/ NotStarted("bootstrap", "apply", ids) /\ loop' = "scan",
             UNCHANGED <<table, agents, config, broken, ticked, cancelled, mutex>>,
             cache' \in [same : BOOLEAN, hash : 0 .. MaxConfig]
      PROVE  BatchInv'
  <2>1. "bootstrap" \in Tasks /\ \A n \in Nodes : jobs["bootstrap"][n].pc = "none"
    BY <1>3 DEF Tasks, BatchInv, LoopWaits
  <2>2. CASE Started("bootstrap", "apply", ids) /\ loop' = "run"
    BY <1>3, <2>1, <2>2, StartsTask
  <2>3. CASE NotStarted("bootstrap", "apply", ids) /\ loop' = "scan"
    BY <1>3, <2>1, <2>3, TaskPends
  <2> QED BY <1>3, <2>2, <2>3
<1>4. CASE BootstrapAll
  <2>1. /\ loop # "run"
        /\ \/ Started("bootstrap", "apply", Nodes) /\ loop' = "run"
           \/ NotStarted("bootstrap", "apply", Nodes) /\ loop' = "scan"
        /\ UNCHANGED <<table, agents, config, broken, cache, ticked, cancelled, mutex>>
    BY <1>4 DEF BootstrapAll
  <2> QED BY <1>0, <1>3, <2>1
<1>6. CASE BootstrapPending
  <2>1. /\ loop # "run" /\ cache' = [same |-> TRUE, hash |-> Built]
        /\ \/ Started("bootstrap", "apply", Needs) /\ loop' = "run"
           \/ NotStarted("bootstrap", "apply", Needs) /\ loop' = "scan"
        /\ UNCHANGED <<table, agents, config, broken, ticked, cancelled, mutex>>
    BY <1>6 DEF BootstrapPending
  <2>2. Needs \in SUBSET Nodes
    BY DEF Needs
  <2> QED BY <1>1, <1>3, <2>1, <2>2
<1>5. CASE FindsNothing
  <2>1. /\ cache' \in [same : BOOLEAN, hash : 0 .. MaxConfig]
        /\ UNCHANGED <<table, agents, config, broken, ticked, tasks, mem, jobs, cancelled, mutex, loop, trouble, since>>
    BY <1>1, <1>5 DEF FindsNothing
  <2>2. BatchTypeOK'
    BY <1>0, <2>1 DEF BatchTypeOK
  <2> QED BY <1>0, <2>1, <2>2, QuietBatch
<1> QED BY <1>2, <1>4, <1>5, <1>6

LEMMA OutsideKeeps ==
    ASSUME BatchInv, EditConfig \/ SecondPasses \/ RequestCancelled \/ UNCHANGED batchVars
    PROVE  BatchInv'
<1>0. BatchTypeOK /\ config \in 0 .. MaxConfig
  BY DEF BatchInv, BatchTypeOK
<1>1. CASE EditConfig
  <2>1. config' \in 0 .. MaxConfig /\ config <= config'
    <3>1. config < MaxConfig /\ config' = config + 1 /\ MaxConfig \in Nat
      BY <1>1, BatchAssumption DEF EditConfig
    <3> QED BY <1>0, <3>1
  <2>2. broken' \subseteq Fragile
    BY <1>0, <1>1 DEF EditConfig, BatchTypeOK
  <2>3. cache' \in [same : BOOLEAN, hash : 0 .. MaxConfig]
    BY <1>0, <1>1, BatchAssumption DEF EditConfig, Touched, BatchTypeOK
  <2>4. ticked' = FALSE
    BY <1>1 DEF EditConfig, Touched
  <2>5. UNCHANGED <<table, agents, tasks, mem, jobs, cancelled, mutex, loop, trouble, since>>
    BY <1>1 DEF EditConfig
  <2>6. BatchTypeOK'
    BY <1>0, <2>1, <2>2, <2>3, <2>4, <2>5 DEF BatchTypeOK
  <2> QED BY <2>1, <2>5, <2>6, QuietBatch
<1>2. CASE SecondPasses
  <2>1. /\ ticked' = TRUE
        /\ UNCHANGED <<table, agents, config, broken, cache, tasks, mem, jobs, cancelled, mutex, loop, trouble, since>>
    BY <1>2 DEF SecondPasses
  <2>2. BatchTypeOK'
    BY <1>0, <2>1 DEF BatchTypeOK
  <2> QED BY <1>0, <2>1, <2>2, QuietBatch
<1>3. CASE RequestCancelled
  <2>1. /\ cancelled' = TRUE
        /\ UNCHANGED <<table, agents, config, broken, cache, ticked, tasks, mem, jobs, mutex, loop, since>>
    BY <1>3 DEF RequestCancelled
  <2>2. trouble' \in 0 .. MaxTrouble
    BY <1>3, TroubleType DEF RequestCancelled
  <2>3. BatchTypeOK'
    BY <1>0, <2>1, <2>2 DEF BatchTypeOK
  <2> QED BY <1>0, <2>1, <2>3, QuietBatch
<1>4. CASE UNCHANGED batchVars
  <2>1. BatchTypeOK'
    BY <1>0, <1>4 DEF batchVars, BatchTypeOK
  <2> QED BY <1>0, <1>4, <2>1, QuietBatch DEF batchVars
<1> QED BY <1>1, <1>2, <1>3, <1>4

LEMMA RestartKeeps == ASSUME BatchInv, BatchRestart PROVE BatchInv'
<1> USE DEF BatchInv
<1>1. /\ \A t \in Tasks : mem'[t] = NoResults
      /\ \A t \in Tasks, n \in Nodes : jobs'[t][n] = NoJob
      /\ mutex' = {} /\ loop' = "start"
      /\ UNCHANGED <<table, agents, config, broken, ticked, tasks, cancelled, since>>
  BY DEF BatchRestart
<1>2. BatchTypeOK'
  <2>1. mem' \in [Tasks -> [Nodes -> Outcomes]] /\ jobs' \in [Tasks -> [Nodes -> JobState]]
    BY Constants DEF BatchRestart
  <2>2. cache' \in [same : BOOLEAN, hash : 0 .. MaxConfig]
    BY BatchAssumption DEF BatchRestart
  <2>3. trouble' \in 0 .. MaxTrouble
    BY TroubleType DEF BatchRestart
  <2> QED BY <1>1, <2>1, <2>2, <2>3 DEF BatchTypeOK, JobState
<1>3. Known'
  BY <1>1 DEF Known
<1>4. Gathered' /\ LoopWaits' /\ StatusFits'
  BY <1>1, Constants DEF Gathered, LoopWaits, StatusFits, Fits, Tasks
<1>5. OkRuns'
  BY <1>1, Constants DEF OkRuns
<1> QED BY <1>2, <1>3, <1>4, <1>5

(***************************************************************************)
(* The theorems.                                                           *)
(***************************************************************************)

THEOREM BatchInvariant == BatchSpec => []BatchInv
<1>1. BatchInv /\ [BatchNext]_batchVars => BatchInv'
  <2> SUFFICES ASSUME BatchInv, [BatchNext]_batchVars PROVE BatchInv'
    OBVIOUS
  <2>1. CASE \E t \in Tasks, n \in Nodes : JobStep(t, n)
    BY <2>1, JobKeeps
  <2>2. CASE \E t \in Tasks : Finishes(t)
    BY <2>2, FinishesKeep
  <2> QED BY <2>1, <2>2, LoopKeeps, OutsideKeeps, RestartKeeps DEF BatchNext
<1> QED BY BatchInitial, <1>1, PTL DEF BatchSpec

\* The tables, the goroutines and the cache keep their types.
THEOREM BatchTypeCorrect == BatchSpec => []BatchTypeOK
<1>1. BatchInv => BatchTypeOK
  BY DEF BatchInv
<1> QED BY BatchInvariant, <1>1, PTL

\* What the row of a task says is what happened, for any number of nodes and goroutines, in any
\* order of their ends, with any number of failed writes, cancelled requests and restarts: a
\* final row has a result for each node of the request, and its status is theirs.
THEOREM ResultsAlwaysExact == BatchSpec => []TaskResultsExact
<1>1. BatchInv => TaskResultsExact
  BY DEF BatchInv, StatusFits, Fits, FinalStatus, OkRuns, TaskResultsExact
<1> QED BY BatchInvariant, <1>1, PTL
=============================================================================
