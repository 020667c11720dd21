---------------------- MODULE ProtocolCertificates_proofs ----------------------
(***************************************************************************)
(* Proofs about the job table and the life of a managed certificate, for   *)
(* any number of job rows, goroutines, restarts and generations.           *)
(***************************************************************************)
EXTENDS ProtocolCertificates, FiniteSetTheorems, TLAPS

(***************************************************************************)
(* The job table.                                                          *)
(***************************************************************************)

\* A row with a lease owner is running.
OwnerRuns == \A j \in Jobs : jobs[j].owner # 0 => jobs[j].state = "running"

\* OneActiveJob, without counting.
OneActive == \A i, j \in ActiveJobs : i = j

\* As long as no lease was lost, who executes a job has its lease, and it is live.
HoldersLease ==
    ~lost => \A w \in Workers : held[w] # None =>
        /\ beating[w]
        /\ jobs[held[w]].state = "running"
        /\ jobs[held[w]].owner = owner
        /\ jobs[held[w]].live

\* As long as no lease was lost, or no two executions overlapped, there is one execution.
OneHolder ==
    ~lost \/ ~overlapped => \A v, w \in Workers : held[v] # None /\ held[w] # None => v = w

JobsInv == JobsTypeOK /\ OwnerRuns /\ OneActive /\ HoldersLease /\ OneHolder

JobRow == [state : Active \cup Ended, owner : 0 .. MaxRestarts + 1, live : BOOLEAN]

LEMMA JobsInitial == JobsInit => JobsInv
<1> SUFFICES ASSUME JobsInit PROVE JobsInv
  OBVIOUS
<1> USE JobsAssumption DEF JobsInit
<1>1. JobsTypeOK
  <2>1. [state |-> "none", owner |-> 0, live |-> FALSE] \in
            [state : Active \cup Ended, owner : 0 .. MaxRestarts + 1, live : BOOLEAN]
    BY DEF Ended
  <2>2. jobs \in [Jobs -> JobRow]
    BY <2>1 DEF JobRow
  <2>3. held \in [Workers -> Jobs \cup {None}]
    OBVIOUS
  <2>4. beating \in [Workers -> BOOLEAN]
    BY Zenon
  <2>5. listed \in BOOLEAN /\ lost \in BOOLEAN /\ overlapped \in BOOLEAN
    BY Zenon
  <2>6. owner \in 1 .. MaxRestarts + 1
    OBVIOUS
  <2> HIDE DEF JobsInit
  <2> QED BY <2>2, <2>3, <2>4, <2>5, <2>6 DEF JobsTypeOK, JobRow
<1>2. OwnerRuns /\ OneActive
  BY DEF OwnerRuns, OneActive, ActiveJobs, Active
<1>3. HoldersLease /\ OneHolder
  BY DEF HoldersLease, OneHolder
<1> QED BY <1>1, <1>2, <1>3 DEF JobsInv

\* A new row takes a slot whose row has ended and that nobody executes.
LEMMA InsertedRow ==
    ASSUME NEW table \in [Jobs -> JobRow], Free(table) # {}
    PROVE  /\ Inserted(table) \in [Jobs -> JobRow]
           /\ \E n \in Jobs :
                 /\ table[n].state \in Ended
                 /\ n \notin Range(held)
                 /\ Inserted(table)[n] = [state |-> "pending", owner |-> 0, live |-> FALSE]
                 /\ \A j \in Jobs \ {n} : Inserted(table)[j] = table[j]
<1> DEFINE n == NewSlot(table)
<1>1. n \in Free(table)
  BY DEF NewSlot
<1>2. n \in Jobs /\ table[n].state \in Ended /\ n \notin Range(held)
  BY <1>1 DEF Free
<1>3. [state |-> "pending", owner |-> 0, live |-> FALSE] \in JobRow
  BY JobsAssumption DEF JobRow, Active
<1>4. Inserted(table) = [table EXCEPT ![n] = [state |-> "pending", owner |-> 0, live |-> FALSE]]
  BY DEF Inserted
<1> HIDE DEF n
<1> QED BY <1>2, <1>3, <1>4

\* What a table is in which only rows that nobody holds have changed, and one row at most
\* is active.
LEMMA TableChanges ==
    ASSUME JobsInv, jobs' \in [Jobs -> JobRow],
           UNCHANGED <<owner, held, beating, lost, overlapped>>, listed' \in BOOLEAN,
           \A i, j \in Jobs : jobs'[i].state \in Active /\ jobs'[j].state \in Active => i = j,
           \A j \in Jobs : jobs'[j].owner # 0 => jobs'[j].state = "running",
           ~lost => \A w \in Workers : held[w] # None => jobs'[held[w]] = jobs[held[w]]
    PROVE  JobsInv'
<1> USE DEF JobsInv
<1>1. JobsTypeOK'
  BY DEF JobsTypeOK, JobRow
<1>2. OwnerRuns'
  BY DEF OwnerRuns
<1>3. OneActive'
  BY DEF OneActive, ActiveJobs
<1>4. HoldersLease'
  BY DEF HoldersLease
<1>5. OneHolder'
  BY DEF OneHolder
<1> QED BY <1>1, <1>2, <1>3, <1>4, <1>5

LEMMA HeldInRange ==
    ASSUME JobsTypeOK, NEW w \in Workers, held[w] # None
    PROVE  held[w] \in Range(held) /\ held[w] \in Jobs
BY DEF JobsTypeOK, Range

\* Both ways to enqueue leave one active job.
LEMMA Enqueues ==
    ASSUME JobsInv, EnqueueAutomationJob \/ ForceEnqueueAutomationJob,
           UNCHANGED <<owner, held, beating, lost, overlapped>>, listed' \in BOOLEAN
    PROVE  JobsInv' /\ ActiveJobs' # {}
<1> USE DEF JobsInv
<1>0. jobs \in [Jobs -> JobRow]
  BY DEF JobsTypeOK, JobRow
<1>1. CASE ActiveJobs # {} /\ UNCHANGED jobs
  <2>1. \A i, j \in Jobs : jobs[i].state \in Active /\ jobs[j].state \in Active => i = j
    BY DEF OneActive, ActiveJobs
  <2>2. JobsInv'
    BY <1>0, <1>1, <2>1, TableChanges DEF OwnerRuns
  <2> QED BY <1>1, <2>2 DEF ActiveJobs
<1>2. CASE ActiveJobs = {} /\ Free(jobs) # {} /\ jobs' = Inserted(jobs)
  <2>1. PICK n \in Jobs :
            /\ n \notin Range(held)
            /\ jobs'[n] = [state |-> "pending", owner |-> 0, live |-> FALSE]
            /\ \A j \in Jobs \ {n} : jobs'[j] = jobs[j]
    BY <1>0, <1>2, InsertedRow
  <2>2. jobs' \in [Jobs -> JobRow]
    BY <1>0, <1>2, InsertedRow
  <2>3. \A j \in Jobs \ {n} : jobs'[j].state \notin Active
    BY <1>2, <2>1 DEF ActiveJobs
  <2>4. \A j \in Jobs : jobs'[j].owner # 0 => jobs'[j].state = "running"
    BY <2>1 DEF OwnerRuns
  <2>5. \A w \in Workers : held[w] # None => jobs'[held[w]] = jobs[held[w]]
    BY <2>1, HeldInRange
  <2>6. JobsInv'
    BY <2>2, <2>3, <2>4, <2>5, TableChanges
  <2> QED BY <2>1, <2>6 DEF ActiveJobs, Active
<1>3. CASE ForceReplaces
  <2>1. PICK f \in ActiveJobs :
            /\ \/ jobs[f].state = "retry_wait"
               \/ jobs[f].state = "running" /\ ~jobs[f].live
            /\ Free(Failed(jobs, f)) # {}
            /\ jobs' = Inserted(Failed(jobs, f))
    BY <1>3 DEF ForceReplaces
  <2>2. f \in Jobs
    BY DEF ActiveJobs
  <2> DEFINE table == Failed(jobs, f)
  <2>3. table \in [Jobs -> JobRow] /\ table[f].state = "failed" /\ table[f].owner = 0
        /\ \A j \in Jobs \ {f} : table[j] = jobs[j]
    BY <1>0, <2>2, JobsAssumption DEF Failed, JobRow, Ended
  <2>3a. Free(table) # {} /\ jobs' = Inserted(table)
    BY <2>1
  <2> HIDE DEF table
  <2>4. PICK n \in Jobs :
            /\ n \notin Range(held)
            /\ jobs'[n] = [state |-> "pending", owner |-> 0, live |-> FALSE]
            /\ \A j \in Jobs \ {n} : jobs'[j] = table[j]
    BY <2>3, <2>3a, InsertedRow
  <2>5. jobs' \in [Jobs -> JobRow]
    BY <2>3, <2>3a, InsertedRow
  <2>6. \A j \in Jobs \ {n} : jobs'[j].state \notin Active
    <3>1. \A j \in Jobs \ {f} : jobs[j].state \notin Active
      BY <2>2 DEF OneActive, ActiveJobs
    <3> QED BY <2>3, <2>4, <3>1 DEF Active
  <2>7. \A j \in Jobs : jobs'[j].owner # 0 => jobs'[j].state = "running"
    BY <2>3, <2>4 DEF OwnerRuns
  <2>8. ~lost => \A w \in Workers : held[w] # None => jobs'[held[w]] = jobs[held[w]]
    <3> SUFFICES ASSUME ~lost, NEW w \in Workers, held[w] # None
                 PROVE  jobs'[held[w]] = jobs[held[w]]
      OBVIOUS
    <3>1. held[w] # f
      BY <2>1 DEF HoldersLease
    <3>2. held[w] \in Jobs /\ held[w] # n
      BY <2>4, HeldInRange
    <3> QED BY <2>3, <2>4, <3>1, <3>2
  <2>9. JobsInv'
    BY <2>5, <2>6, <2>7, <2>8, TableChanges
  <2> QED BY <2>4, <2>9 DEF ActiveJobs, Active
<1>4. CASE ForceReuses
  <2>1. ActiveJobs # {} /\ UNCHANGED jobs
    BY <1>4 DEF ForceReuses
  <2> QED BY <2>1, <1>1
<1> QED BY <1>1, <1>2, <1>3, <1>4 DEF EnqueueAutomationJob, ForceEnqueueAutomationJob, ForceInserts

\* With one active job at most, a claim starts one goroutine, and only for a job nobody has
\* a lease of.
LEMMA OneStarts ==
    ASSUME JobsInv, Started # {}
    PROVE  \E w \in Idle, j \in Jobs : Started = {w} /\ Claimable = {j} /\ j \in ActiveJobs
<1> USE DEF JobsInv
<1>1. IsFiniteSet(Idle) /\ Cardinality(Idle) \in Nat
  BY JobsAssumption, FS_Subset, FS_CardinalityType DEF Idle
<1>2. Claimable \subseteq ActiveJobs
  BY DEF Claimable, ActiveJobs, Active
<1>3. Claimable # {}
  <2> SUFFICES ASSUME Claimable = {} PROVE FALSE
    OBVIOUS
  <2>1. Cardinality(Claimable) = 0
    BY FS_EmptySet
  <2>2. Started = Goroutines(0)
    BY <1>1, <2>1 DEF Started
  <2>3. {} \in SUBSET Idle /\ Cardinality({}) = 0
    BY FS_EmptySet
  <2>4. Goroutines(0) \in SUBSET Idle /\ Cardinality(Goroutines(0)) = 0
    BY <2>3 DEF Goroutines
  <2>5. IsFiniteSet(Goroutines(0))
    BY <1>1, <2>4, FS_Subset
  <2>6. Goroutines(0) = {}
    BY <2>4, <2>5, FS_EmptySet
  <2> QED BY <2>2, <2>6
<1>4. PICK j \in Claimable : TRUE
  BY <1>3
<1>5. Claimable = {j} /\ j \in Jobs /\ j \in ActiveJobs
  BY <1>2, <1>4 DEF OneActive, ActiveJobs
<1>6. Cardinality(Claimable) = 1
  BY <1>5, FS_Singleton
<1>7. CASE 1 <= Cardinality(Idle)
  <2>1. Idle # {}
    BY <1>7, FS_EmptySet
  <2>2. PICK i \in Idle : TRUE
    BY <2>1
  <2>3. {i} \in SUBSET Idle /\ Cardinality({i}) = 1
    BY <2>2, FS_Singleton
  <2>4. Goroutines(1) \in SUBSET Idle /\ Cardinality(Goroutines(1)) = 1
    BY <2>3 DEF Goroutines
  <2>5. IsFiniteSet(Goroutines(1))
    BY <1>1, <2>4, FS_Subset
  <2>6. PICK w : Goroutines(1) = {w}
    BY <2>4, <2>5, FS_Singleton
  <2>7. Started = {w} /\ w \in Idle
    BY <1>6, <1>7, <2>4, <2>6 DEF Started
  <2> QED BY <1>5, <2>7
<1>8. CASE ~(1 <= Cardinality(Idle))
  <2>1. Started = Idle
    BY <1>6, <1>8 DEF Started
  <2>2. Cardinality(Idle) = 0
    BY <1>1, <1>8
  <2> QED BY <1>1, <2>1, <2>2, FS_EmptySet
<1> QED BY <1>7, <1>8

LEMMA Claims ==
    ASSUME JobsInv, ClaimAutomationJobs(Started)
    PROVE  /\ JobsInv' /\ ActiveJobs' # {}
           /\ \A w \in Workers : held'[w] = None <=> (held[w] = None /\ w \notin Started)
<1> USE DEF JobsInv
<1>1. Started # {}
  BY DEF ClaimAutomationJobs
<1>2. PICK w \in Idle, j \in Jobs : Started = {w} /\ Claimable = {j} /\ j \in ActiveJobs
  BY <1>1, OneStarts
<1>3. PICK r \in [Started -> Claimable] :
           /\ jobs' = [i \in Jobs |-> IF i \in Range(r)
                           THEN [state |-> "running", owner |-> owner, live |-> TRUE]
                           ELSE jobs[i]]
           /\ held' = [v \in Workers |-> IF v \in Started THEN r[v] ELSE held[v]]
           /\ beating' = [v \in Workers |-> v \in Started \/ beating[v]]
           /\ overlapped' = (overlapped \/ Cardinality((Workers \ Idle) \cup Started) > 1)
  BY DEF ClaimAutomationJobs
<1>4. r[w] = j /\ Range(r) = {j}
  BY <1>2, <1>3 DEF Range
<1>5. w \in Workers /\ held[w] = None /\ j # None
  BY <1>2, JobsAssumption DEF Idle
<1>6. /\ jobs' = [i \in Jobs |-> IF i = j THEN [state |-> "running", owner |-> owner, live |-> TRUE]
                                        ELSE jobs[i]]
      /\ held' = [v \in Workers |-> IF v = w THEN j ELSE held[v]]
      /\ beating' = [v \in Workers |-> v = w \/ beating[v]]
  BY <1>2, <1>3, <1>4
<1>7. UNCHANGED <<owner, listed, lost>>
  BY DEF ClaimAutomationJobs
<1>8. ~lost => \A v \in Workers : held[v] = None
  <2> SUFFICES ASSUME ~lost, NEW v \in Workers, held[v] # None PROVE FALSE
    OBVIOUS
  <2>1. jobs[held[v]].state = "running" /\ jobs[held[v]].live /\ held[v] \in Jobs
    BY HeldInRange DEF HoldersLease
  <2>2. held[v] \in ActiveJobs
    BY <2>1 DEF ActiveJobs, Active
  <2>3. held[v] = j
    BY <1>2, <2>2 DEF OneActive
  <2> QED BY <1>2, <2>1, <2>3 DEF Claimable
<1>9. ~overlapped' => \A v \in Workers : held[v] = None
  <2> SUFFICES ASSUME ~overlapped', NEW v \in Workers, held[v] # None PROVE FALSE
    OBVIOUS
  <2>1. w \in (Workers \ Idle) \cup Started /\ v \in (Workers \ Idle) \cup Started /\ v # w
    BY <1>2, <1>5 DEF Idle
  <2>2. (Workers \ Idle) \cup Started \in SUBSET Workers
    BY <1>2, <1>5
  <2> DEFINE B == (Workers \ Idle) \cup Started
  <2>3. IsFiniteSet(B) /\ Cardinality(B) \in Nat
    BY <2>2, JobsAssumption, FS_Subset, FS_CardinalityType
  <2>4. ~(Cardinality(B) > 1)
    BY <1>3
  <2>5. w \in B /\ v \in B /\ v # w
    BY <2>1
  <2> HIDE DEF B
  <2>6. Cardinality(B) # 0
    BY <2>3, <2>5, FS_EmptySet
  <2>7. Cardinality(B) # 1
    BY <2>3, <2>5, FS_Singleton
  <2> QED BY <2>3, <2>4, <2>6, <2>7
<1>10. JobsTypeOK'
  <2>1. overlapped' \in BOOLEAN /\ listed' \in BOOLEAN /\ lost' \in BOOLEAN
    BY <1>3, <1>7 DEF JobsTypeOK
  <2>2. owner \in 0 .. MaxRestarts + 1
    BY JobsAssumption DEF JobsTypeOK
  <2>3. [state |-> "running", owner |-> owner, live |-> TRUE] \in JobRow
    BY <2>2 DEF JobRow, Active
  <2>4. jobs' \in [Jobs -> JobRow]
    BY <1>6, <2>3 DEF JobsTypeOK, JobRow
  <2>5. held' \in [Workers -> Jobs \cup {None}] /\ beating' \in [Workers -> BOOLEAN]
    BY <1>6 DEF JobsTypeOK
  <2> QED BY <1>7, <2>1, <2>4, <2>5 DEF JobsTypeOK, JobRow
<1>11. OwnerRuns'
  BY <1>6 DEF OwnerRuns
<1>12. OneActive'
  <2>1. \A i \in Jobs \ {j} : jobs'[i].state \notin Active
    BY <1>2, <1>6 DEF OneActive, ActiveJobs
  <2> QED BY <2>1 DEF OneActive, ActiveJobs
<1>13. HoldersLease'
  BY <1>5, <1>6, <1>7, <1>8 DEF HoldersLease
<1>14. OneHolder'
  BY <1>5, <1>6, <1>7, <1>8, <1>9 DEF OneHolder
<1>15. jobs'[j].state = "running"
  BY <1>6
<1>16. ActiveJobs' # {}
  BY <1>15 DEF ActiveJobs, Active
<1> QED BY <1>2, <1>5, <1>6, <1>10, <1>11, <1>12, <1>13, <1>14, <1>16

\* The heartbeat and the end of a lease keep every row's state.
LEMMA LeaseMoves ==
    ASSUME JobsInv,
           \/ \E w \in Workers : Heartbeat(w) \/ HeartbeatFails(w)
           \/ \E j \in Jobs : LeaseExpires(j) \/ Stall(j)
    PROVE  JobsInv' /\ ActiveJobs' = ActiveJobs /\ UNCHANGED held
<1> USE DEF JobsInv
<1>0. jobs \in [Jobs -> JobRow]
  BY DEF JobsTypeOK, JobRow
<1>1. ASSUME NEW j \in Jobs, NEW live \in BOOLEAN, jobs' = [jobs EXCEPT ![j].live = live],
             jobs[j].state = "running",
             UNCHANGED <<owner, held, beating, listed, overlapped>>,
             lost' \in BOOLEAN, lost => lost',
             ~lost' /\ ~live => \A w \in Workers : held[w] # j
      PROVE  JobsInv' /\ ActiveJobs' = ActiveJobs /\ UNCHANGED held
  <2>1. /\ jobs' \in [Jobs -> JobRow]
        /\ \A i \in Jobs : jobs'[i].state = jobs[i].state /\ jobs'[i].owner = jobs[i].owner
        /\ \A i \in Jobs \ {j} : jobs'[i] = jobs[i]
        /\ jobs'[j].live = live
    BY <1>0, <1>1 DEF JobRow
  <2>2. JobsTypeOK'
    BY <1>1, <2>1 DEF JobsTypeOK, JobRow
  <2>3. ActiveJobs' = ActiveJobs
    BY <2>1 DEF ActiveJobs
  <2>4. OwnerRuns' /\ OneActive' /\ OneHolder'
    BY <1>1, <2>1, <2>3 DEF OwnerRuns, OneActive, OneHolder
  <2>5. HoldersLease'
    <3> SUFFICES ASSUME ~lost', NEW w \in Workers, held[w] # None
                 PROVE  /\ beating[w]
                        /\ jobs'[held[w]].state = "running"
                        /\ jobs'[held[w]].owner = owner
                        /\ jobs'[held[w]].live
      BY <1>1 DEF HoldersLease
    <3>1. held[w] \in Jobs
      BY HeldInRange
    <3>2. ~lost
      BY <1>1
    <3>3. beating[w] /\ jobs[held[w]].state = "running" /\ jobs[held[w]].owner = owner /\ jobs[held[w]].live
      BY <3>2 DEF HoldersLease
    <3> QED BY <1>1, <2>1, <3>1, <3>3
  <2> QED BY <1>1, <2>2, <2>3, <2>4, <2>5
<1>2. ASSUME NEW w \in Workers, beating' = [beating EXCEPT ![w] = FALSE], lost' = TRUE,
             UNCHANGED <<jobs, owner, held, listed, overlapped>>
      PROVE  JobsInv' /\ ActiveJobs' = ActiveJobs /\ UNCHANGED held
  <2>1. JobsTypeOK'
    BY <1>2 DEF JobsTypeOK
  <2>2. ActiveJobs' = ActiveJobs
    BY <1>2 DEF ActiveJobs
  <2>3. OwnerRuns' /\ OneActive' /\ OneHolder' /\ HoldersLease'
    BY <1>2, <2>2 DEF OwnerRuns, OneActive, OneHolder, HoldersLease
  <2> QED BY <1>2, <2>1, <2>2, <2>3
<1>3. ASSUME NEW w \in Workers, Heartbeat(w)
      PROVE  JobsInv' /\ ActiveJobs' = ActiveJobs /\ UNCHANGED held
  <2>1. held[w] \in Jobs /\ UNCHANGED <<owner, held, listed, overlapped>> /\ lost \in BOOLEAN
    BY <1>3, HeldInRange DEF Heartbeat, JobsTypeOK
  <2>2. CASE jobs[held[w]].state = "running" /\ jobs[held[w]].owner = owner
    <3>1. jobs' = [jobs EXCEPT ![held[w]].live = TRUE] /\ UNCHANGED <<beating, lost>>
      BY <1>3, <2>2 DEF Heartbeat
    <3> QED BY <1>1, <2>1, <2>2, <3>1
  <2>3. CASE ~(jobs[held[w]].state = "running" /\ jobs[held[w]].owner = owner)
    <3>1. beating' = [beating EXCEPT ![w] = FALSE] /\ lost' = TRUE /\ UNCHANGED jobs
      BY <1>3, <2>3 DEF Heartbeat
    <3> QED BY <1>2, <2>1, <3>1
  <2> QED BY <2>2, <2>3
<1>4. ASSUME NEW w \in Workers, HeartbeatFails(w)
      PROVE  JobsInv' /\ ActiveJobs' = ActiveJobs /\ UNCHANGED held
  BY <1>2, <1>4 DEF HeartbeatFails
<1>5. ASSUME NEW j \in Jobs, LeaseExpires(j)
      PROVE  JobsInv' /\ ActiveJobs' = ActiveJobs /\ UNCHANGED held
  <2>1. ~lost => \A w \in Workers : held[w] # j
    BY <1>5, JobsAssumption DEF LeaseExpires, HoldersLease
  <2>2. /\ jobs' = [jobs EXCEPT ![j].live = FALSE] /\ jobs[j].state = "running"
        /\ UNCHANGED <<owner, held, beating, listed, lost, overlapped>>
    BY <1>5 DEF LeaseExpires
  <2>3. lost \in BOOLEAN
    BY DEF JobsTypeOK
  <2> QED BY <1>1, <2>1, <2>2, <2>3
<1>6. ASSUME NEW j \in Jobs, Stall(j)
      PROVE  JobsInv' /\ ActiveJobs' = ActiveJobs /\ UNCHANGED held
  <2>1. /\ jobs' = [jobs EXCEPT ![j].live = FALSE] /\ jobs[j].state = "running" /\ lost' = TRUE
        /\ UNCHANGED <<owner, held, beating, listed, overlapped>>
    BY <1>6 DEF Stall
  <2> QED BY <1>1, <2>1
<1> QED BY <1>3, <1>4, <1>5, <1>6

\* The end of an execution: the table may have changed, but only the row of the job.
LEMMA Ends ==
    ASSUME JobsInv, NEW w \in Workers, held[w] # None,
           NEW state \in {"success", "retry_wait"}, Finish(w, state) \/ FinishFails(w)
    PROVE  /\ JobsInv'
           /\ held' = [held EXCEPT ![w] = None]
           /\ state = "retry_wait" => ActiveJobs' = ActiveJobs
<1> USE DEF JobsInv
<1> DEFINE h == held[w]
<1>0. jobs \in [Jobs -> JobRow] /\ h \in Jobs /\ owner # 0
  BY HeldInRange DEF JobsTypeOK, JobRow
<1>1. /\ held' = [held EXCEPT ![w] = None] /\ beating' = [beating EXCEPT ![w] = FALSE]
      /\ UNCHANGED <<owner, listed, lost, overlapped>>
  BY DEF Finish, FinishFails
<1>2. \/ UNCHANGED jobs
      \/ /\ jobs[h].owner = owner
         /\ jobs' = [jobs EXCEPT ![h] = [state |-> state, owner |-> 0, live |-> FALSE]]
  BY DEF Finish, FinishFails, Finished
<1>3. /\ jobs' \in [Jobs -> JobRow]
      /\ \A j \in Jobs \ {h} : jobs'[j] = jobs[j]
      /\ jobs'[h] = jobs[h] \/ (jobs[h].owner = owner /\ jobs'[h].state = state /\ jobs'[h].owner = 0)
  <2>1. [state |-> state, owner |-> 0, live |-> FALSE] \in JobRow
    BY JobsAssumption DEF JobRow, Active, Ended
  <2> HIDE DEF h
  <2>2. CASE UNCHANGED jobs
    BY <1>0, <2>2
  <2>3. CASE jobs[h].owner = owner
             /\ jobs' = [jobs EXCEPT ![h] = [state |-> state, owner |-> 0, live |-> FALSE]]
    <3>1. jobs' \in [Jobs -> JobRow] /\ \A j \in Jobs \ {h} : jobs'[j] = jobs[j]
      BY <1>0, <2>1, <2>3
    <3>2. jobs'[h] = [state |-> state, owner |-> 0, live |-> FALSE]
      BY <1>0, <2>3
    <3> QED BY <2>3, <3>1, <3>2
  <2> QED BY <1>2, <2>2, <2>3
<1> HIDE DEF h
<1>4. ActiveJobs' \subseteq ActiveJobs /\ (state = "retry_wait" => ActiveJobs' = ActiveJobs)
  <2>1. jobs[h].owner = owner => jobs[h].state = "running"
    BY <1>0 DEF OwnerRuns
  <2> QED BY <1>0, <1>3, <2>1 DEF ActiveJobs, Active
<1>5. JobsTypeOK'
  BY <1>1, <1>3 DEF JobsTypeOK, JobRow
<1>6. OwnerRuns'
  BY <1>1, <1>3 DEF OwnerRuns
<1>7. OneActive'
  BY <1>4 DEF OneActive
<1>8. \A v \in Workers : held'[v] # None => v # w /\ held[v] # None /\ held'[v] = held[v] /\ beating'[v] = beating[v]
  BY <1>1 DEF JobsTypeOK
<1>9. OneHolder'
  BY <1>1, <1>8 DEF OneHolder
<1>10. HoldersLease'
  <2> SUFFICES ASSUME ~lost, NEW v \in Workers, held'[v] # None PROVE FALSE
    BY <1>1 DEF HoldersLease
  <2> QED BY <1>8 DEF OneHolder
<1> QED BY <1>1, <1>4, <1>5, <1>6, <1>7, <1>9, <1>10

LEMMA Restarts ==
    ASSUME JobsInv, RunnerRestart
    PROVE  JobsInv' /\ ActiveJobs' = ActiveJobs /\ \A w \in Workers : held'[w] = None
<1> USE JobsAssumption DEF JobsInv, RunnerRestart
<1>1. JobsTypeOK'
  <2>1. held' \in [Workers -> Jobs \cup {None}]
    OBVIOUS
  <2>2. beating' \in [Workers -> BOOLEAN]
    BY Zenon
  <2>3. owner' \in 1 .. MaxRestarts + 1
    BY DEF JobsTypeOK
  <2>4. listed' \in BOOLEAN /\ UNCHANGED <<jobs, lost, overlapped>>
    BY Zenon
  <2> HIDE DEF RunnerRestart
  <2> QED BY <2>1, <2>2, <2>3, <2>4 DEF JobsTypeOK
<1>2. ActiveJobs' = ActiveJobs
  BY DEF ActiveJobs
<1>3. OwnerRuns' /\ OneActive' /\ HoldersLease' /\ OneHolder'
  BY <1>2 DEF OwnerRuns, OneActive, HoldersLease, OneHolder
<1> QED BY <1>1, <1>2, <1>3

LEMMA Drops ==
    ASSUME JobsInv, jobs' = Dropped(jobs), \A j \in Jobs : jobs[j].state # "running",
           UNCHANGED <<owner, held, beating, listed, lost, overlapped>>
    PROVE  JobsInv'
<1> USE DEF JobsInv
<1>1. [state |-> "none", owner |-> 0, live |-> FALSE] \in JobRow
  BY JobsAssumption DEF JobRow, Ended
<1>2. jobs' \in [Jobs -> JobRow]
  BY <1>1 DEF Dropped
<1>3. \A j \in Jobs : jobs'[j].state \notin Active /\ jobs'[j].owner = 0
  BY DEF Dropped, Active
<1>4. ~lost => \A w \in Workers : held[w] = None
  BY HeldInRange DEF HoldersLease
<1>5. listed' \in BOOLEAN
  BY DEF JobsTypeOK
<1> QED BY <1>2, <1>3, <1>4, <1>5, TableChanges

LEMMA JobsStutter == JobsInv /\ UNCHANGED jobVars => JobsInv' /\ ActiveJobs' = ActiveJobs
BY DEF JobsInv, jobVars, JobsTypeOK, OwnerRuns, OneActive, HoldersLease, OneHolder, ActiveJobs

(***************************************************************************)
(* The certificate.                                                        *)
(***************************************************************************)

Mid == {"authorizing", "installing", "deploying"}

\* The candidate of a row is its active generation or the next one.
RowGood(r) == r.active = r.rev /\ r.cand \in {r.rev, r.rev + 1}
RowsGood == RowGood(cert) /\ \A w \in Workers : RowGood(copy[w])

\* Whatever row or copy names has its files on the Agent's disk.
FilesOf(r) == (r.active # 0 => Loadable(r.active)) /\ (r.cand # 0 => Loadable(r.cand))
FilesKept == FilesOf(cert) /\ \A w \in Workers : FilesOf(copy[w])

\* What a copy says at a step of the execution.
Fits(s, r) ==
    /\ s \in {"deploy", "lock", "push"} => r.cand = r.rev + 1
    /\ s \in {"order", "install"} => r.rev < MaxGen
    /\ s = "settle" => r.status = "active"
StepsFit == \A w \in Workers : Fits(step[w], copy[w])

\* Unless executions overlapped, a copy is no older than the row.
CopyCurrent ==
    ~overlapped => \A w \in Workers :
        step[w] \notin {"idle", "read"} /\ cert.status # "absent" => copy[w].active >= cert.active

\* Unless executions overlapped, an issuance has an active job, and ends only outside of Mid.
StillWorking ==
    ~overlapped /\ (cert.status \in Mid \/ \E w \in Workers : held[w] # None) =>
        ActiveJobs # {} \/ cert.status = "absent"
SettledRow ==
    ~overlapped => \A w \in Workers : step[w] = "success" => cert.status \notin Mid

CertInv ==
    /\ JobsInv /\ TypeOK
    /\ RowsGood /\ FilesKept /\ StepsFit
    /\ CopyCurrent /\ StillWorking /\ SettledRow

\* What BaselineKept says of a step.
Baseline == cert'.status # "absent" /\ ~overlapped => cert'.active >= cert.active

LEMMA BlankRow ==
    ASSUME NEW status \in Statuses
    PROVE  NewRow(status) \in Row /\ RowGood(NewRow(status)) /\ FilesOf(NewRow(status))
BY GenAssumption DEF NewRow, Row, RowGood, FilesOf

LEMMA CertInitial == Init => CertInv
<1> SUFFICES ASSUME Init PROVE CertInv
  OBVIOUS
<1>1. JobsInv
  BY JobsInitial DEF Init
<1>2. /\ cert = NewRow("pending") /\ \A w \in Workers : copy[w] = NewRow("absent")
      /\ \A w \in Workers : step[w] = "idle" /\ held[w] = None
  BY DEF Init, JobsInit
<1>3. TypeOK
  <2>1. copy \in [Workers -> Row] /\ cert \in Row
    BY BlankRow DEF Init, Statuses
  <2>2. step \in [Workers -> Steps] /\ key \in [Gens -> {"none", "torn", "ok"}]
    BY DEF Init, Steps
  <2>3. chain \in [Gens -> BOOLEAN]
    BY Zenon DEF Init
  <2>4. bound \in BOOLEAN /\ calm \in BOOLEAN /\ lock \in Workers \cup {None} /\ created \in {"row", "done"}
    BY Zenon DEF Init
  <2> QED BY <1>1, <1>2, <2>1, <2>2, <2>3, <2>4 DEF TypeOK, JobsInv
<1>4. RowsGood /\ FilesKept
  BY <1>2, BlankRow DEF RowsGood, FilesKept, Statuses
<1>5. StepsFit /\ CopyCurrent /\ SettledRow
  BY <1>2 DEF StepsFit, Fits, CopyCurrent, SettledRow
<1>6. StillWorking
  BY <1>2 DEF StillWorking, NewRow, Mid
<1> QED BY <1>1, <1>3, <1>4, <1>5, <1>6 DEF CertInv

(***************************************************************************)
(* A step of an execution, by what it does.                                *)
(***************************************************************************)

\* It goes on at s with the copy r, and may write r to the row.
Moves(w, s, r) ==
    /\ step[w] \notin {"idle", "success", "retry_wait"}
    /\ s \in Steps \ {"idle"}
    /\ step' = [step EXCEPT ![w] = s]
    /\ r \in Row /\ copy' = [copy EXCEPT ![w] = r]
    /\ RowGood(r) /\ Fits(s, r)
    /\ cert' = cert \/ cert' = Updated(r)
    /\ ~overlapped /\ cert.status # "absent" => r.active >= cert.active
    /\ s = "success" => cert'.status \notin Mid
    /\ UNCHANGED jobVars
    /\ UNCHANGED <<bound, created, calm>>
    /\ lock' \in Workers \cup {None}

\* The Agent's files only grow.
FilesGrow ==
    /\ key' \in [Gens -> {"none", "torn", "ok"}] /\ chain' \in [Gens -> BOOLEAN]
    /\ \A g \in Gens : Loadable(g) => Loadable(g)'

LEMMA FilesStay ==
    ASSUME TypeOK, FilesGrow, NEW r \in Row, FilesOf(r)
    PROVE  FilesOf(r)'
<1>1. \A g \in 0 .. MaxGen : g # 0 => g \in Gens
  BY GenAssumption DEF Gens
<1>2. r.active \in 0 .. MaxGen /\ r.cand \in 0 .. MaxGen
  BY DEF Row
<1> QED BY <1>1, <1>2 DEF FilesOf, FilesGrow

LEMMA MovesKeep ==
    ASSUME CertInv, NEW w \in Workers, NEW s, NEW r, Moves(w, s, r), FilesGrow, FilesOf(r)'
    PROVE  CertInv' /\ Baseline
<1> USE DEF CertInv, Moves
<1>1. JobsInv' /\ ActiveJobs' = ActiveJobs /\ held' = held /\ overlapped' = overlapped
  BY JobsStutter DEF jobVars
<1>2. held[w] # None
  BY DEF TypeOK
<1>3. cert' \in Row
  BY DEF Updated, TypeOK
<1>4. copy' \in [Workers -> Row] /\ step' \in [Workers -> Steps]
  BY DEF TypeOK
<1>5. /\ copy'[w] = r /\ step'[w] = s
      /\ \A v \in Workers \ {w} : copy'[v] = copy[v] /\ step'[v] = step[v]
  BY DEF TypeOK
<1>6. TypeOK'
  <2>1. \A v \in Workers : step'[v] = "idle" <=> held'[v] = None
    BY <1>1, <1>2, <1>5 DEF TypeOK
  <2> QED BY <1>1, <1>3, <1>4, <2>1 DEF TypeOK, JobsInv, FilesGrow
<1>7. cert' = cert \/ (cert' = r /\ cert.status # "absent")
  BY DEF Updated
<1>8. RowsGood'
  <2>1. RowGood(cert)'
    BY <1>7 DEF RowsGood, RowGood
  <2> QED BY <1>5, <2>1 DEF RowsGood, RowGood
<1>9. FilesKept'
  <2>1. FilesOf(cert)'
    <3>1. CASE cert' = cert
      BY <3>1, FilesStay DEF FilesKept, TypeOK, FilesOf
    <3>2. CASE cert' = r
      BY <3>2 DEF FilesOf
    <3> QED BY <1>7, <3>1, <3>2
  <2>2. ASSUME NEW v \in Workers PROVE FilesOf(copy[v])'
    <3>1. CASE v = w
      BY <1>5, <3>1 DEF FilesOf
    <3>2. CASE v # w
      <4>1. FilesOf(copy[v]) /\ copy[v] \in Row
        BY DEF FilesKept, TypeOK
      <4> QED BY <1>5, <3>2, <4>1, FilesStay DEF FilesOf
    <3> QED BY <3>1, <3>2
  <2> QED BY <2>1, <2>2 DEF FilesKept
<1>10. StepsFit'
  BY <1>5 DEF StepsFit
<1>11. ~overlapped => \A v \in Workers \ {w} : step'[v] = "idle"
  BY <1>2, <1>5 DEF JobsInv, OneHolder, TypeOK
<1>12. r.active \in Nat /\ cert.active \in Nat
  BY DEF Row, TypeOK
<1>13. CopyCurrent'
  BY <1>1, <1>5, <1>7, <1>11, <1>12 DEF CopyCurrent
<1>14. StillWorking'
  BY <1>1, <1>2, <1>7 DEF StillWorking
<1>15. SettledRow'
  BY <1>1, <1>5, <1>11 DEF SettledRow
<1>16. Baseline
  BY <1>7, <1>12 DEF Baseline
<1> QED BY <1>1, <1>6, <1>8, <1>9, <1>10, <1>13, <1>14, <1>15, <1>16

\* Where the Agent does nothing.
LEMMA AgentIdle ==
    ASSUME TypeOK, agentKept
    PROVE  FilesGrow /\ \A r : FilesOf(r) => FilesOf(r)'
BY DEF TypeOK, agentKept, FilesGrow, FilesOf, Loadable

\* A copy in the middle of an execution.
LEMMA CopyFacts ==
    ASSUME CertInv, NEW w \in Workers
    PROVE  /\ copy[w] \in Row /\ RowGood(copy[w]) /\ FilesOf(copy[w]) /\ Fits(step[w], copy[w])
           /\ cert \in Row /\ RowGood(cert) /\ FilesOf(cert)
           /\ lock \in Workers \cup {None}
           /\ step[w] \in Steps
           /\ \A r \in Row : r.active \in 0 .. MaxGen /\ r.cand \in 0 .. MaxGen /\ r.rev \in 0 .. MaxGen
BY DEF CertInv, TypeOK, RowsGood, FilesKept, StepsFit, Row

\* A copy with another status, or promoted.
LEMMA StatusSet ==
    ASSUME NEW r \in Row, RowGood(r), NEW status \in Statuses
    PROVE  /\ [r EXCEPT !.status = status] \in Row
           /\ RowGood([r EXCEPT !.status = status])
           /\ [r EXCEPT !.status = status].active = r.active
           /\ [r EXCEPT !.status = status].cand = r.cand
           /\ [r EXCEPT !.status = status].rev = r.rev
           /\ [r EXCEPT !.status = status].status = status
BY DEF Row, RowGood

LEMMA PromotedRow ==
    ASSUME NEW r \in Row, RowGood(r), r.cand = r.rev + 1
    PROVE  /\ Promoted(r) \in Row /\ RowGood(Promoted(r))
           /\ Promoted(r).active = r.cand /\ Promoted(r).cand = r.cand
           /\ Promoted(r).status = "active" /\ Promoted(r).active >= r.active
<1>1. r.active \in 0 .. MaxGen /\ r.cand \in 0 .. MaxGen /\ r.rev \in 0 .. MaxGen
  BY DEF Row
<1>2. Promoted(r) = [status |-> "active", cand |-> r.cand, active |-> r.cand, rev |-> r.rev + 1]
  <2>1. r = [status |-> r.status, cand |-> r.cand, active |-> r.active, rev |-> r.rev]
    BY DEF Row
  <2>3. [r EXCEPT !.active = r.cand] = [status |-> r.status, cand |-> r.cand, active |-> r.cand, rev |-> r.rev]
    BY <2>1
  <2>4. PICK a : a = [status |-> r.status, cand |-> r.cand, active |-> r.cand, rev |-> r.rev]
    OBVIOUS
  <2>5. PICK b : b = [status |-> r.status, cand |-> r.cand, active |-> r.cand, rev |-> r.rev + 1]
    OBVIOUS
  <2>6. [a EXCEPT !.rev = r.rev + 1] = b
    BY <2>4, <2>5
  <2>7. [b EXCEPT !.status = "active"] =
            [status |-> "active", cand |-> r.cand, active |-> r.cand, rev |-> r.rev + 1]
    BY <2>5
  <2>8. Promoted(r) = [[[r EXCEPT !.active = r.cand] EXCEPT !.rev = r.rev + 1] EXCEPT !.status = "active"]
    BY DEF Promoted, NextGen
  <2> QED BY <2>3, <2>4, <2>6, <2>7, <2>8
<1> QED BY <1>1, <1>2, GenAssumption DEF Row, RowGood, Statuses

\* The row of the copy with another status is what is written.
LEMMA WritesStatus ==
    ASSUME CertInv, NEW w \in Workers, NEW status \in Statuses, NEW s \in Steps \ {"idle", "success", "settle"},
           step[w] \notin {"idle", "read", "success", "retry_wait"},
           step' = [step EXCEPT ![w] = s],
           copy' = [copy EXCEPT ![w] = [copy[w] EXCEPT !.status = status]],
           cert' = cert \/ cert' = Updated([copy[w] EXCEPT !.status = status]),
           s \in {"deploy", "lock", "push"} => copy[w].cand = copy[w].rev + 1,
           s \in {"order", "install"} => copy[w].rev < MaxGen,
           UNCHANGED jobVars, UNCHANGED <<bound, created, calm>>,
           lock' \in Workers \cup {None}, FilesGrow
    PROVE  CertInv' /\ Baseline
<1>0. PICK r : r = [copy[w] EXCEPT !.status = status]
  OBVIOUS
<1>1. copy[w] \in Row /\ RowGood(copy[w]) /\ FilesOf(copy[w])
  BY CopyFacts
<1>2. r \in Row /\ RowGood(r) /\ r.active = copy[w].active /\ r.cand = copy[w].cand /\ r.rev = copy[w].rev
  BY <1>0, <1>1, StatusSet
<1>3. FilesOf(r)
  BY <1>1, <1>2 DEF FilesOf
<1>4. ~overlapped /\ cert.status # "absent" => r.active >= cert.active
  BY <1>2 DEF CertInv, CopyCurrent
<1>5. copy' = [copy EXCEPT ![w] = r] /\ (cert' = cert \/ cert' = Updated(r))
  BY <1>0
<1>6. Fits(s, r)
  BY <1>2 DEF Fits
<1>7. Moves(w, s, r)
  BY <1>2, <1>4, <1>5, <1>6 DEF Moves
<1>8. FilesOf(r)'
  BY <1>2, <1>3, FilesStay DEF CertInv, FilesOf
<1> QED BY <1>7, <1>8, MovesKeep

\* A step that leaves copy and row alone.
LEMMA OnlyStep ==
    ASSUME CertInv, NEW w \in Workers, NEW s \in Steps \ {"idle", "success"},
           step[w] \notin {"idle", "read", "success", "retry_wait"},
           step' = [step EXCEPT ![w] = s], copy' = copy, cert' = cert,
           Fits(s, copy[w]), UNCHANGED jobVars, UNCHANGED <<bound, created, calm>>,
           lock' \in Workers \cup {None}, FilesGrow
    PROVE  CertInv' /\ Baseline
<1>1. copy[w] \in Row /\ RowGood(copy[w]) /\ FilesOf(copy[w])
  BY CopyFacts
<1>2. ~overlapped /\ cert.status # "absent" => copy[w].active >= cert.active
  BY DEF CertInv, CopyCurrent
<1>3. copy' = [copy EXCEPT ![w] = copy[w]]
  BY DEF CertInv, TypeOK
<1>4. Moves(w, s, copy[w])
  BY <1>1, <1>2, <1>3 DEF Moves
<1>5. \A r : r = copy[w] => FilesOf(r)'
  BY <1>1, FilesStay DEF CertInv
<1> QED BY <1>4, <1>5, MovesKeep

LEMMA ReadsKeep ==
    ASSUME CertInv, NEW w \in Workers, IssueReads(w)
    PROVE  CertInv' /\ Baseline
<1> USE DEF IssueReads
<1>1. step[w] = "read" /\ UNCHANGED <<cert, lock>> /\ agentKept /\ jobsKept /\ adminKept
  OBVIOUS
<1>2. copy' = [copy EXCEPT ![w] = cert]
  OBVIOUS
<1>3. FilesGrow /\ \A r : FilesOf(r) => FilesOf(r)'
  BY <1>1, AgentIdle DEF CertInv
<1>4. cert \in Row /\ RowGood(cert) /\ FilesOf(cert) /\ lock \in Workers \cup {None}
  BY CopyFacts
<1>5. cert.active \in Nat /\ cert.cand \in Nat /\ cert.rev \in Nat
  BY <1>4 DEF Row
<1>6. ASSUME NEW s \in Steps \ {"idle"}, Goes(w, s), Fits(s, cert), s = "success" => cert.status \notin Mid
      PROVE  CertInv' /\ Baseline
  <2>1. Moves(w, s, cert)
    BY <1>1, <1>2, <1>4, <1>5, <1>6 DEF Moves, Goes, jobsKept, adminKept
  <2>2. \A r : r = cert => FilesOf(r)'
    BY <1>3, <1>4
  <2> QED BY <1>3, <2>1, <2>2, MovesKeep
<1>7. CASE cert.status = "absent" /\ Goes(w, "retry_wait")
  BY <1>6, <1>7 DEF Steps, Fits
<1>8. CASE cert.status = "active" /\ Goes(w, "success")
  BY <1>6, <1>8 DEF Steps, Fits, Mid
<1>9. CASE Goes(w, IF HasStagedCandidate(cert) THEN "deploy" ELSE "prepare")
  <2>1. CASE HasStagedCandidate(cert)
    <3>1. cert.cand = cert.rev + 1
      BY <1>4, <2>1 DEF HasStagedCandidate, RowGood
    <3> QED BY <1>6, <1>9, <2>1, <3>1 DEF Steps, Fits
  <2>2. CASE ~HasStagedCandidate(cert)
    BY <1>6, <1>9, <2>2 DEF Steps, Fits
  <2> QED BY <2>1, <2>2
<1>10. CASE Goes(w, "fail")
  BY <1>6, <1>10 DEF Steps, Fits
<1> QED BY <1>7, <1>8, <1>9, <1>10

\* A key that is complete stays so.
LEMMA KeyWritten ==
    ASSUME TypeOK, NEW g \in Gens, NEW k \in {"none", "torn", "ok"},
           k = key[g] \/ KeyAfterPrepare(g, k),
           key' = [key EXCEPT ![g] = k], chain' = chain
    PROVE  FilesGrow
<1>1. key' \in [Gens -> {"none", "torn", "ok"}] /\ chain' \in [Gens -> BOOLEAN]
  BY DEF TypeOK
<1>2. \A h \in Gens : key[h] = "ok" => key'[h] = "ok"
  BY DEF TypeOK, KeyAfterPrepare
<1> QED BY <1>1, <1>2 DEF FilesGrow, Loadable

LEMMA PreparesKeep ==
    ASSUME CertInv, NEW w \in Workers, IssuePrepares(w) \/ IssuePrepareFails(w)
    PROVE  CertInv' /\ Baseline
<1>0. copy[w] \in Row /\ RowGood(copy[w]) /\ lock \in Workers \cup {None} /\ TypeOK
      /\ copy[w].rev \in 0 .. MaxGen
  BY CopyFacts DEF CertInv
<1>1. CASE IssuePrepares(w)
  <2> DEFINE s == IF cert.status = "absent" THEN "fail" ELSE "order"
  <2>1. /\ step[w] = "prepare" /\ NextGen(copy[w]) \in Gens
        /\ KeyAfterPrepare(NextGen(copy[w]), "ok")
        /\ key' = [key EXCEPT ![NextGen(copy[w])] = "ok"]
        /\ copy' = [copy EXCEPT ![w] = [copy[w] EXCEPT !.status = "authorizing"]]
        /\ cert' = Updated([copy[w] EXCEPT !.status = "authorizing"])
        /\ step' = [step EXCEPT ![w] = s]
        /\ UNCHANGED jobVars /\ UNCHANGED <<bound, created, calm>>
        /\ UNCHANGED <<chain, lock>>
    BY <1>1 DEF IssuePrepares, Goes, jobsKept, adminKept
  <2>2. copy[w].rev < MaxGen
    BY <1>0, <2>1, GenAssumption DEF NextGen, Gens
  <2>3. FilesGrow
    BY <1>0, <2>1, KeyWritten
  <2>4. s \in {"fail", "order"}
    OBVIOUS
  <2> HIDE DEF s
  <2> QED BY <1>0, <2>1, <2>2, <2>3, <2>4, WritesStatus DEF Steps, Statuses
<1>2. CASE IssuePrepareFails(w)
  <2>1. /\ step[w] = "prepare" /\ NextGen(copy[w]) \in Gens
        /\ step' = [step EXCEPT ![w] = "fail"]
        /\ UNCHANGED jobVars /\ UNCHANGED <<bound, created, calm>>
        /\ UNCHANGED <<cert, copy, chain, lock>>
    BY <1>2 DEF IssuePrepareFails, Goes, jobsKept, adminKept
  <2>2. PICK k \in {"none", "torn", "ok"} :
            /\ k = key[NextGen(copy[w])] \/ KeyAfterPrepare(NextGen(copy[w]), k)
            /\ key' = [key EXCEPT ![NextGen(copy[w])] = k]
    BY <1>2 DEF IssuePrepareFails
  <2>3. FilesGrow
    BY <1>0, <2>1, <2>2, KeyWritten
  <2> QED BY <1>0, <2>1, <2>3, OnlyStep DEF Steps, Fits
<1> QED BY <1>1, <1>2

LEMMA OrdersKeep ==
    ASSUME CertInv, NEW w \in Workers, IssueOrders(w) \/ IssueOrderFails(w)
    PROVE  CertInv' /\ Baseline
<1>0. lock \in Workers \cup {None} /\ Fits(step[w], copy[w])
  BY CopyFacts
<1>1. FilesGrow /\ step[w] = "order" /\ UNCHANGED jobVars /\ UNCHANGED <<bound, created, calm>> /\ UNCHANGED lock
  BY AgentIdle DEF CertInv, IssueOrders, IssueOrderFails, jobsKept, adminKept
<1>2. CASE IssueOrders(w)
  <2> DEFINE s == IF cert.status = "absent" THEN "fail" ELSE "install"
  <2>1. /\ copy' = [copy EXCEPT ![w] = [copy[w] EXCEPT !.status = "installing"]]
        /\ cert' = Updated([copy[w] EXCEPT !.status = "installing"])
        /\ step' = [step EXCEPT ![w] = s]
    BY <1>2 DEF IssueOrders, Goes
  <2>2. s \in {"fail", "install"}
    OBVIOUS
  <2>3. copy[w].rev < MaxGen
    BY <1>0, <1>1 DEF Fits
  <2> HIDE DEF s
  <2> QED BY <1>0, <1>1, <2>1, <2>2, <2>3, WritesStatus DEF Steps, Statuses
<1>3. CASE IssueOrderFails(w)
  BY <1>0, <1>1, <1>3, OnlyStep DEF IssueOrderFails, Goes, Steps, Fits
<1> QED BY <1>2, <1>3

LEMMA InstallsKeep ==
    ASSUME CertInv, NEW w \in Workers, IssueInstalls(w) \/ IssueInstallFails(w)
    PROVE  CertInv' /\ Baseline
<1>0. /\ copy[w] \in Row /\ RowGood(copy[w]) /\ FilesOf(copy[w]) /\ Fits(step[w], copy[w])
      /\ lock \in Workers \cup {None} /\ TypeOK /\ copy[w].rev \in 0 .. MaxGen
  BY CopyFacts DEF CertInv
<1>1. /\ step[w] = "install" /\ UNCHANGED jobVars /\ UNCHANGED <<bound, created, calm>>
      /\ UNCHANGED <<cert, key, lock>>
  BY DEF IssueInstalls, IssueInstallFails, jobsKept, adminKept
<1>2. PICK g : g = NextGen(copy[w])
  OBVIOUS
<1>3. g \in Gens /\ g = copy[w].rev + 1 /\ g \in 0 .. MaxGen
  BY <1>0, <1>1, <1>2, GenAssumption DEF Fits, NextGen, Gens
<1>4. ASSUME NEW effect \in BOOLEAN, effect => key[g] = "ok", chain' = [chain EXCEPT ![g] = chain[g] \/ effect]
      PROVE  FilesGrow /\ (effect => Loadable(g)')
  <2>1. chain[g] \in BOOLEAN
    BY <1>0, <1>3 DEF TypeOK
  <2>2. chain' \in [Gens -> BOOLEAN]
    <3>1. (chain[g] \/ effect) \in BOOLEAN
      BY <2>1
    <3>2. PICK b \in BOOLEAN : b = (chain[g] \/ effect)
      BY <3>1
    <3>3. chain' = [chain EXCEPT ![g] = b]
      BY <1>4, <3>2
    <3> QED BY <1>0, <1>3, <3>3 DEF TypeOK
  <2>3. \A h \in Gens : chain[h] => chain'[h]
    BY <1>0, <1>3, <1>4 DEF TypeOK
  <2>4. effect => chain'[g]
    BY <1>0, <1>3, <1>4 DEF TypeOK
  <2> QED BY <1>0, <1>1, <1>4, <2>2, <2>3, <2>4 DEF FilesGrow, Loadable, TypeOK
<1>5. CASE IssueInstalls(w)
  <2>1. /\ key[g] = "ok" /\ chain' = [chain EXCEPT ![g] = TRUE]
        /\ copy' = [copy EXCEPT ![w].cand = g] /\ step' = [step EXCEPT ![w] = "deploy"]
    BY <1>2, <1>5 DEF IssueInstalls, Goes
  <2>2. FilesGrow /\ Loadable(g)'
    <3>1. chain' = [chain EXCEPT ![g] = chain[g] \/ TRUE]
      BY <2>1
    <3> QED BY <1>4, <2>1, <3>1
  <2>3. PICK r : r = [copy[w] EXCEPT !.cand = g]
    OBVIOUS
  <2>4. r \in Row /\ r.active = copy[w].active /\ r.cand = g /\ r.rev = copy[w].rev /\ r.status = copy[w].status
    BY <1>0, <1>3, <2>3 DEF Row
  <2>5. RowGood(r) /\ Fits("deploy", r)
    BY <1>0, <1>3, <2>4 DEF RowGood, Fits
  <2>6. ~overlapped /\ cert.status # "absent" => r.active >= cert.active
    BY <1>1, <2>4 DEF CertInv, CopyCurrent
  <2>7. copy' = [copy EXCEPT ![w] = r]
    BY <2>1, <2>3
  <2>8. Moves(w, "deploy", r)
    BY <1>0, <1>1, <2>1, <2>4, <2>5, <2>6, <2>7 DEF Moves, Steps
  <2>9. FilesOf(r)'
    <3>1. r.active # 0 => r.active \in Gens /\ Loadable(r.active)
      BY <1>0, <2>4, GenAssumption DEF FilesOf, Gens, Row
    <3> QED BY <2>2, <2>4, <3>1 DEF FilesOf, FilesGrow
  <2> QED BY <2>2, <2>8, <2>9, MovesKeep
<1>6. CASE IssueInstallFails(w)
  <2>1. PICK e \in BOOLEAN : (e => key[g] = "ok") /\ chain' = [chain EXCEPT ![g] = chain[g] \/ e]
    BY <1>2, <1>6 DEF IssueInstallFails
  <2>2. FilesGrow
    BY <1>4, <2>1
  <2>3. copy' = copy /\ step' = [step EXCEPT ![w] = "fail"]
    BY <1>6 DEF IssueInstallFails, Goes
  <2> QED BY <1>0, <1>1, <2>2, <2>3, OnlyStep DEF Steps, Fits
<1> QED BY <1>5, <1>6

\* The candidate of the copy becomes its active generation.
LEMMA PromotesKeep ==
    ASSUME CertInv, NEW w \in Workers, step[w] \in {"deploy", "push"},
           step' = [step EXCEPT ![w] = "settle"],
           copy' = [copy EXCEPT ![w] = Promoted(copy[w])],
           UNCHANGED <<cert, key, chain, bound, created, calm>>, UNCHANGED jobVars,
           lock' \in Workers \cup {None}
    PROVE  CertInv' /\ Baseline
<1>0. /\ copy[w] \in Row /\ RowGood(copy[w]) /\ FilesOf(copy[w]) /\ Fits(step[w], copy[w])
      /\ cert.active \in Nat
  BY CopyFacts DEF Row
<1>1. copy[w].cand = copy[w].rev + 1
  BY <1>0 DEF Fits
<1>2. PICK r : r = Promoted(copy[w])
  OBVIOUS
<1>3. /\ r \in Row /\ RowGood(r) /\ r.active = copy[w].cand /\ r.cand = copy[w].cand
      /\ r.status = "active" /\ r.active >= copy[w].active
  BY <1>0, <1>1, <1>2, PromotedRow
<1>4. FilesGrow /\ \A q : FilesOf(q) => FilesOf(q)'
  BY AgentIdle DEF CertInv, agentKept
<1>5. FilesOf(r)
  BY <1>0, <1>3 DEF FilesOf
<1>6. ~overlapped /\ cert.status # "absent" => copy[w].active >= cert.active
  BY DEF CertInv, CopyCurrent
<1>7. r.active \in Nat /\ copy[w].active \in Nat
  BY <1>0, <1>3 DEF Row
<1>8. Moves(w, "settle", r)
  BY <1>0, <1>2, <1>3, <1>6, <1>7 DEF Moves, Steps, Fits
<1> QED BY <1>4, <1>5, <1>8, MovesKeep

LEMMA DeploysKeep ==
    ASSUME CertInv, NEW w \in Workers,
           \/ IssueSkipsDeploy(w) \/ IssueWaits(w) \/ IssueLocks(w)
           \/ IssueDeploys(w) \/ IssueDeployFails(w)
    PROVE  CertInv' /\ Baseline
<1>0. lock \in Workers \cup {None} /\ Fits(step[w], copy[w])
  BY CopyFacts
<1>1. UNCHANGED jobVars /\ UNCHANGED <<key, chain, bound, created, calm>>
  BY DEF IssueSkipsDeploy, IssueWaits, IssueLocks, IssueDeploys, IssueDeployFails,
         jobsKept, agentKept, adminKept
<1>2. FilesGrow
  BY <1>1, AgentIdle DEF CertInv, agentKept
<1>3. CASE IssueSkipsDeploy(w)
  BY <1>0, <1>1, <1>3, PromotesKeep DEF IssueSkipsDeploy, Goes
<1>4. CASE IssueWaits(w)
  BY <1>0, <1>1, <1>2, <1>4, OnlyStep DEF IssueWaits, Goes, Steps, Fits
<1>5. CASE IssueLocks(w)
  <2> DEFINE s == IF cert.status = "absent" THEN "fail" ELSE "push"
  <2>1. /\ copy' = [copy EXCEPT ![w] = [copy[w] EXCEPT !.status = "deploying"]]
        /\ cert' = Updated([copy[w] EXCEPT !.status = "deploying"])
        /\ step' = [step EXCEPT ![w] = s] /\ step[w] = "lock"
        /\ lock' \in Workers \cup {None}
    BY <1>0, <1>5 DEF IssueLocks, Goes
  <2>2. s \in {"fail", "push"}
    OBVIOUS
  <2>3. copy[w].cand = copy[w].rev + 1
    BY <1>0, <2>1 DEF Fits
  <2> HIDE DEF s
  <2> QED BY <1>1, <1>2, <2>1, <2>2, <2>3, WritesStatus DEF Steps, Statuses
<1>6. CASE IssueDeploys(w)
  BY <1>0, <1>1, <1>6, PromotesKeep DEF IssueDeploys, Goes
<1>7. CASE IssueDeployFails(w)
  BY <1>0, <1>1, <1>2, <1>7, OnlyStep DEF IssueDeployFails, Goes, Steps, Fits
<1> QED BY <1>3, <1>4, <1>5, <1>6, <1>7

LEMMA SettlesKeep ==
    ASSUME CertInv, NEW w \in Workers, IssueSettles(w) \/ IssueFails(w)
    PROVE  CertInv' /\ Baseline
<1>0. /\ copy[w] \in Row /\ RowGood(copy[w]) /\ FilesOf(copy[w]) /\ Fits(step[w], copy[w])
      /\ lock \in Workers \cup {None}
  BY CopyFacts
<1>1. UNCHANGED jobVars /\ UNCHANGED <<key, chain, bound, created, calm, lock>>
  BY DEF IssueSettles, IssueFails, jobsKept, agentKept, adminKept
<1>2. FilesGrow /\ \A q : FilesOf(q) => FilesOf(q)'
  BY <1>1, AgentIdle DEF CertInv, agentKept
<1>3. CASE IssueSettles(w)
  <2>1. step[w] = "settle" /\ copy' = copy /\ copy[w].status = "active"
    BY <1>0, <1>3 DEF IssueSettles, Fits
  <2>2. CASE cert' = cert /\ Goes(w, "fail")
    BY <1>0, <1>1, <1>2, <2>1, <2>2, OnlyStep DEF Goes, Steps, Fits
  <2>3. CASE cert' = Updated(copy[w]) /\ Goes(w, IF cert.status = "absent" THEN "fail" ELSE "success")
    <3>1. PICK s : s = IF cert.status = "absent" THEN "fail" ELSE "success"
      OBVIOUS
    <3>2. s \in Steps \ {"idle"} /\ Fits(s, copy[w]) /\ step' = [step EXCEPT ![w] = s]
      BY <2>3, <3>1 DEF Goes, Steps, Fits
    <3>3. s = "success" => cert'.status \notin Mid
      BY <2>1, <2>3, <3>1 DEF Updated, Mid
    <3>4. ~overlapped /\ cert.status # "absent" => copy[w].active >= cert.active
      BY <2>1 DEF CertInv, CopyCurrent
    <3>5. copy' = [copy EXCEPT ![w] = copy[w]]
      BY <2>1 DEF CertInv, TypeOK
    <3>6. Moves(w, s, copy[w])
      BY <1>0, <1>1, <2>1, <2>3, <3>2, <3>3, <3>4, <3>5 DEF Moves
    <3>7. \A r : r = copy[w] => FilesOf(r)'
      BY <1>0, <1>2
    <3> QED BY <1>2, <3>6, <3>7, MovesKeep
  <2> QED BY <1>3, <2>2, <2>3 DEF IssueSettles
<1>4. CASE IssueFails(w)
  <2>1. /\ step[w] = "fail" /\ step' = [step EXCEPT ![w] = "retry_wait"]
        /\ copy' = [copy EXCEPT ![w] = [copy[w] EXCEPT !.status = "retry_wait"]]
        /\ cert' = cert \/ cert' = Updated([copy[w] EXCEPT !.status = "retry_wait"])
    BY <1>4 DEF IssueFails, Goes
  <2> QED BY <1>0, <1>1, <1>2, <2>1, WritesStatus DEF Steps, Statuses
<1> QED BY <1>3, <1>4

LEMMA EndsKeep ==
    ASSUME CertInv, NEW w \in Workers, IssueEnds(w)
    PROVE  CertInv' /\ Baseline
<1>0. step[w] \in {"success", "retry_wait"} /\ held[w] # None /\ JobsInv
  BY DEF CertInv, TypeOK, IssueEnds
<1>1. /\ UNCHANGED <<key, chain, bound, created, calm, cert, lock>>
      /\ step' = [step EXCEPT ![w] = "idle"] /\ copy' = [copy EXCEPT ![w] = NewRow("absent")]
      /\ Finish(w, step[w]) \/ FinishFails(w)
  BY DEF IssueEnds, agentKept, adminKept, Goes
<1>2. /\ JobsInv' /\ held' = [held EXCEPT ![w] = None]
      /\ step[w] = "retry_wait" => ActiveJobs' = ActiveJobs
  BY <1>0, <1>1, Ends
<1>3. overlapped' = overlapped
  BY <1>1 DEF Finish, FinishFails
<1>4. NewRow("absent") \in Row /\ RowGood(NewRow("absent")) /\ FilesOf(NewRow("absent"))
  BY BlankRow DEF Statuses
<1>5. /\ copy'[w] = NewRow("absent") /\ step'[w] = "idle" /\ held'[w] = None
      /\ \A v \in Workers \ {w} : copy'[v] = copy[v] /\ step'[v] = step[v] /\ held'[v] = held[v]
  BY <1>1, <1>2 DEF CertInv, TypeOK, JobsTypeOK
<1>6. TypeOK'
  <2>1. copy' \in [Workers -> Row] /\ step' \in [Workers -> Steps]
    BY <1>1, <1>4 DEF CertInv, TypeOK, Steps
  <2>2. \A v \in Workers : step'[v] = "idle" <=> held'[v] = None
    BY <1>5 DEF CertInv, TypeOK
  <2> QED BY <1>1, <1>2, <2>1, <2>2 DEF CertInv, TypeOK, JobsInv
<1>7. FilesGrow /\ \A r : FilesOf(r) => FilesOf(r)'
  BY <1>1, AgentIdle DEF CertInv, agentKept
<1>8. RowsGood' /\ StepsFit' /\ CopyCurrent'
  BY <1>1, <1>3, <1>4, <1>5 DEF CertInv, RowsGood, StepsFit, Fits, CopyCurrent
<1>9. FilesKept'
  <2>1. FilesOf(cert)'
    BY <1>1, <1>7 DEF CertInv, FilesKept, FilesOf
  <2>2. ASSUME NEW v \in Workers PROVE FilesOf(copy[v])'
    <3>1. PICK r : r = copy'[v]
      OBVIOUS
    <3>2. FilesOf(r)
      BY <1>4, <1>5, <3>1 DEF CertInv, FilesKept
    <3> QED BY <1>7, <3>1, <3>2 DEF FilesOf
  <2> QED BY <2>1, <2>2 DEF FilesKept
<1>10. ~overlapped => \A v \in Workers : held'[v] = None
  BY <1>0, <1>5 DEF JobsInv, OneHolder
<1>11. StillWorking'
  <2> SUFFICES ASSUME ~overlapped, cert.status \in Mid PROVE ActiveJobs' # {}
    BY <1>1, <1>3, <1>10 DEF StillWorking
  <2>1. step[w] = "retry_wait"
    BY <1>0 DEF CertInv, SettledRow
  <2>2. ActiveJobs # {}
    BY DEF CertInv, StillWorking, Mid
  <2> QED BY <1>2, <2>1, <2>2
<1>12. SettledRow'
  BY <1>1, <1>3, <1>5 DEF CertInv, SettledRow
<1>13. Baseline
  <2>1. cert.active \in Nat
    BY CopyFacts DEF Row
  <2> QED BY <1>1, <2>1 DEF Baseline
<1> QED BY <1>2, <1>6, <1>8, <1>9, <1>11, <1>12, <1>13 DEF CertInv

LEMMA IssueKeeps ==
    ASSUME CertInv, NEW w \in Workers, IssueStep(w)
    PROVE  CertInv' /\ Baseline
BY ReadsKeep, PreparesKeep, OrdersKeep, InstallsKeep, DeploysKeep, SettlesKeep, EndsKeep DEF IssueStep

(***************************************************************************)
(* The other steps.                                                        *)
(***************************************************************************)

\* Only the job table, the binding or the flags change.
LEMMA QuietStep ==
    ASSUME CertInv, JobsInv', UNCHANGED <<cert, copy, step, key, chain, lock, held, overlapped>>,
           bound' \in BOOLEAN, created' \in {"row", "done"}, calm' \in BOOLEAN,
           ActiveJobs # {} => ActiveJobs' # {}
    PROVE  CertInv' /\ Baseline
<1> USE DEF CertInv
<1>1. TypeOK'
  BY DEF TypeOK, JobsInv
<1>2. RowsGood' /\ StepsFit' /\ CopyCurrent' /\ SettledRow'
  BY DEF RowsGood, StepsFit, CopyCurrent, SettledRow
<1>3. FilesKept'
  BY DEF FilesKept, FilesOf, Loadable
<1>4. StillWorking'
  BY DEF StillWorking
<1>5. Baseline
  BY CopyFacts DEF Baseline, Row, TypeOK
<1> QED BY <1>1, <1>2, <1>3, <1>4, <1>5

LEMMA FlagTypes == CertInv => bound \in BOOLEAN /\ created \in {"row", "done"} /\ calm \in BOOLEAN /\ JobsInv
BY DEF CertInv, TypeOK

LEMMA QuietSteps ==
    ASSUME CertInv, PollStep \/ LeaseStep \/ LeaseLost \/ CalmDown \/ CreateEnqueues \/ ForceIssue
                    \/ Bind \/ Unbind \/ UNCHANGED vars
    PROVE  CertInv' /\ Baseline
<1>0. bound \in BOOLEAN /\ created \in {"row", "done"} /\ calm \in BOOLEAN /\ JobsInv
  BY FlagTypes
<1>1. CASE PollStep
  <2>1. UNCHANGED certVars
    BY <1>1 DEF PollStep
  <2>2. CASE PollLists(Due)
    <3>1. UNCHANGED <<jobs, owner, held, beating, lost, overlapped>> /\ listed' \in BOOLEAN
      BY <2>2 DEF PollLists
    <3>2. JobsInv' /\ ActiveJobs' = ActiveJobs
      BY <1>0, <3>1 DEF JobsInv, JobsTypeOK, OwnerRuns, OneActive, HoldersLease, OneHolder, ActiveJobs
    <3> QED BY <1>0, <2>1, <3>1, <3>2, QuietStep DEF certVars
  <2>3. CASE PollEnqueues
    <3>1. UNCHANGED <<owner, held, beating, lost, overlapped>> /\ listed' \in BOOLEAN /\ EnqueueAutomationJob
      BY <2>3 DEF PollEnqueues
    <3> QED BY <1>0, <2>1, <3>1, Enqueues, QuietStep DEF certVars
  <2> QED BY <1>1, <2>2, <2>3 DEF PollStep
<1>2. CASE LeaseStep \/ LeaseLost
  <2>1. UNCHANGED certVars
    BY <1>2 DEF LeaseStep, LeaseLost
  <2>2. \/ \E w \in Workers : Heartbeat(w) \/ HeartbeatFails(w)
        \/ \E j \in Jobs : LeaseExpires(j) \/ Stall(j)
    BY <1>2 DEF LeaseStep, LeaseLost
  <2>3. JobsInv' /\ ActiveJobs' = ActiveJobs /\ UNCHANGED held
    BY <1>0, <2>2, LeaseMoves
  <2>4. UNCHANGED overlapped
    BY <2>2 DEF Heartbeat, HeartbeatFails, LeaseExpires, Stall
  <2> QED BY <1>0, <2>1, <2>3, <2>4, QuietStep DEF certVars
<1>3. CASE CalmDown \/ Bind \/ Unbind \/ UNCHANGED vars
  <2>1. UNCHANGED jobVars /\ UNCHANGED <<cert, copy, step, key, chain, lock>>
        /\ bound' \in BOOLEAN /\ created' \in {"row", "done"} /\ calm' \in BOOLEAN
    BY <1>0, <1>3 DEF CalmDown, Bind, Unbind, vars, certVars, jobsKept, agentKept
  <2>2. JobsInv' /\ ActiveJobs' = ActiveJobs
    BY <1>0, <2>1, JobsStutter
  <2> QED BY <2>1, <2>2, QuietStep DEF jobVars
<1>4. CASE CreateEnqueues \/ ForceIssue
  <2>1. /\ EnqueueAutomationJob \/ ForceEnqueueAutomationJob
        /\ UNCHANGED <<owner, held, beating, listed, lost, overlapped>>
        /\ UNCHANGED <<cert, copy, step, key, chain, lock, bound, calm>> /\ created' \in {"row", "done"}
    BY <1>0, <1>4 DEF CreateEnqueues, ForceIssue, agentKept, certVars
  <2>2. listed' \in BOOLEAN
    BY <1>0, <2>1 DEF JobsInv, JobsTypeOK
  <2>3. JobsInv' /\ ActiveJobs' # {}
    BY <1>0, <2>1, <2>2, Enqueues
  <2> QED BY <1>0, <2>1, <2>3, QuietStep
<1> QED BY <1>1, <1>2, <1>3, <1>4

LEMMA ClaimKeeps == ASSUME CertInv, Claim PROVE CertInv' /\ Baseline
<1>0. JobsInv
  BY DEF CertInv
<1>1. /\ ClaimAutomationJobs(Started)
      /\ step' = [w \in Workers |-> IF w \in Started THEN "read" ELSE step[w]]
      /\ UNCHANGED <<cert, copy, key, chain, lock, bound, created, calm>>
  BY DEF Claim, agentKept, adminKept
<1>2. /\ JobsInv' /\ ActiveJobs' # {}
      /\ \A w \in Workers : held'[w] = None <=> (held[w] = None /\ w \notin Started)
  BY <1>0, <1>1, Claims
<1>3. overlapped => overlapped'
  BY <1>1 DEF ClaimAutomationJobs
<1>4. TypeOK'
  <2>1. step' \in [Workers -> Steps]
    BY <1>1 DEF CertInv, TypeOK, Steps
  <2>2. \A w \in Workers : step'[w] = "idle" <=> held'[w] = None
    BY <1>1, <1>2 DEF CertInv, TypeOK
  <2> QED BY <1>1, <1>2, <2>1, <2>2 DEF CertInv, TypeOK, JobsInv
<1>5. RowsGood' /\ FilesKept'
  BY <1>1 DEF CertInv, RowsGood, FilesKept, FilesOf, Loadable
<1>6. StepsFit'
  <2> SUFFICES ASSUME NEW w \in Workers PROVE Fits(step'[w], copy[w])
    BY <1>1 DEF StepsFit
  <2> QED BY <1>1 DEF CertInv, StepsFit, Fits
<1>7. CopyCurrent' /\ SettledRow'
  BY <1>1, <1>3 DEF CertInv, CopyCurrent, SettledRow
<1>8. StillWorking'
  BY <1>2 DEF StillWorking
<1>9. Baseline
  BY <1>1, CopyFacts DEF Baseline, Row, CertInv, TypeOK
<1> QED BY <1>2, <1>4, <1>5, <1>6, <1>7, <1>8, <1>9 DEF CertInv

LEMMA RestartKeeps == ASSUME CertInv, PanelRestart PROVE CertInv' /\ Baseline
<1>0. JobsInv /\ bound \in BOOLEAN /\ calm \in BOOLEAN
  BY FlagTypes
<1>1. /\ RunnerRestart /\ UNCHANGED <<cert, key, chain, bound, calm>>
      /\ \A w \in Workers : copy'[w] = NewRow("absent") /\ step'[w] = "idle"
      /\ lock' = None
  BY DEF PanelRestart, agentKept
<1>2. JobsInv' /\ ActiveJobs' = ActiveJobs /\ \A w \in Workers : held'[w] = None
  BY <1>0, <1>1, Restarts
<1>3. overlapped' = overlapped
  BY <1>1 DEF RunnerRestart
<1>4. NewRow("absent") \in Row /\ RowGood(NewRow("absent")) /\ FilesOf(NewRow("absent"))
  BY BlankRow DEF Statuses
<1>5. TypeOK'
  <2>1. copy' \in [Workers -> Row] /\ step' \in [Workers -> Steps]
    BY <1>4 DEF PanelRestart, Steps
  <2>2. created' \in {"row", "done"}
    BY DEF PanelRestart, CertInv, TypeOK
  <2> QED BY <1>0, <1>1, <1>2, <2>1, <2>2 DEF CertInv, TypeOK, JobsInv
<1>6. RowsGood' /\ StepsFit' /\ CopyCurrent' /\ SettledRow'
  BY <1>1, <1>4 DEF CertInv, RowsGood, StepsFit, Fits, CopyCurrent, SettledRow
<1>7. FilesKept'
  BY <1>1, <1>4 DEF CertInv, FilesKept, FilesOf, Loadable
<1>8. StillWorking'
  BY <1>1, <1>2, <1>3 DEF CertInv, StillWorking
<1>9. Baseline
  BY <1>1, CopyFacts DEF Baseline, Row, CertInv, TypeOK
<1> QED BY <1>2, <1>5, <1>6, <1>7, <1>8, <1>9 DEF CertInv

LEMMA DeleteKeeps == ASSUME CertInv, DeleteCertificate PROVE CertInv' /\ Baseline
<1>0. JobsInv
  BY DEF CertInv
<1>1. /\ jobs' = Dropped(jobs) /\ \A j \in Jobs : jobs[j].state # "running"
      /\ UNCHANGED <<owner, held, beating, listed, lost, overlapped>>
      /\ UNCHANGED <<copy, step, key, chain, lock, bound, created, calm>>
      /\ cert' = NewRow("absent")
  BY DEF DeleteCertificate, agentKept, adminKept
<1>2. JobsInv'
  BY <1>0, <1>1, Drops
<1>3. cert' \in Row /\ RowGood(cert)' /\ FilesOf(NewRow("absent")) /\ cert'.status = "absent"
  BY <1>1, BlankRow DEF Statuses, NewRow, RowGood
<1>4. TypeOK'
  BY <1>1, <1>2, <1>3 DEF CertInv, TypeOK, JobsInv
<1>5. RowsGood' /\ StepsFit' /\ CopyCurrent' /\ SettledRow' /\ StillWorking'
  BY <1>1, <1>3 DEF CertInv, RowsGood, StepsFit, CopyCurrent, SettledRow, StillWorking, Mid
<1>6. FilesKept'
  BY <1>1, <1>3 DEF CertInv, FilesKept, FilesOf, Loadable
<1>7. Baseline
  BY <1>3 DEF Baseline
<1> QED BY <1>2, <1>4, <1>5, <1>6, <1>7 DEF CertInv

LEMMA CertStep ==
    ASSUME CertInv, [Next]_vars
    PROVE  CertInv' /\ Baseline
BY IssueKeeps, QuietSteps, ClaimKeeps, RestartKeeps, DeleteKeeps DEF Next

(***************************************************************************)
(* The theorems.                                                           *)
(***************************************************************************)

THEOREM CertInvariant == Spec => []CertInv
<1>1. CertInv /\ [Next]_vars => CertInv'
  BY CertStep
<1> QED BY CertInitial, <1>1, PTL DEF Spec

\* The table, the executions and the certificate keep their types.
THEOREM CertTypeCorrect == Spec => []TypeOK
<1>1. CertInv => TypeOK
  BY DEF CertInv
<1> QED BY CertInvariant, <1>1, PTL

\* At no time has the target two active jobs, through any number of polls, retries of the
\* operator, claims, lost leases, crashes and deletions.
THEOREM AlwaysOneActiveJob == Spec => []OneActiveJob
<1>1. CertInv => OneActiveJob
  <2> SUFFICES ASSUME CertInv PROVE Cardinality(ActiveJobs) <= 1
    BY DEF OneActiveJob
  <2>1. CASE ActiveJobs = {}
    BY <2>1, FS_EmptySet
  <2>2. CASE ActiveJobs # {}
    <3>1. PICK j : j \in ActiveJobs
      BY <2>2
    <3>2. ActiveJobs = {j}
      BY <3>1 DEF CertInv, JobsInv, OneActive
    <3> QED BY <3>2, FS_Singleton
  <2> QED BY <2>1, <2>2
<1> QED BY CertInvariant, <1>1, PTL

\* Two executions of the certificate run at once only after a lease was lost.
THEOREM OverlapAlwaysNeedsLostLease == Spec => []OverlapNeedsLostLease
<1>1. CertInv => OverlapNeedsLostLease
  <2> SUFFICES ASSUME CertInv, ~lost PROVE ~(Cardinality(Workers \ Idle) > 1)
    BY DEF OverlapNeedsLostLease
  <2> DEFINE B == Workers \ Idle
  <2>1. \A v, w \in B : v = w
    BY DEF CertInv, JobsInv, OneHolder, Idle
  <2> HIDE DEF B
  <2>2. CASE B = {}
    BY <2>2, FS_EmptySet DEF B
  <2>3. CASE B # {}
    <3>1. PICK w : B = {w}
      BY <2>1, <2>3
    <3> QED BY <3>1, FS_Singleton DEF B
  <2> QED BY <2>2, <2>3
<1> QED BY CertInvariant, <1>1, PTL

\* A certificate in the middle of an issuance always has the job that will end it.
THEOREM NeverAbandoned == Spec => []NoAbandonedRenewal
<1>1. CertInv => NoAbandonedRenewal
  BY DEF CertInv, StillWorking, Mid, NoAbandonedRenewal
<1> QED BY CertInvariant, <1>1, PTL

\* The generations the row names are complete on the Agent's disk, even when executions
\* overlap and the Agent stops while it writes.
THEOREM AlwaysInstalled == Spec => []ActiveInstalled
<1>1. CertInv => ActiveInstalled
  BY DEF CertInv, FilesKept, FilesOf, ActiveInstalled
<1> QED BY CertInvariant, <1>1, PTL

\* No failure, retry or restart takes the active generation back.
THEOREM BaselineAlwaysKept == Spec => BaselineKept
<1>1. CertInv /\ [Next]_vars => [cert'.status # "absent" /\ ~overlapped => cert'.active >= cert.active]_vars
  BY CertStep DEF Baseline
<1> QED BY CertInvariant, <1>1, PTL DEF Spec, BaselineKept
=============================================================================
