---------------------------- MODULE AutomationJobs ----------------------------
(***************************************************************************)
(* The persistent job table of the Panel (panel/internal/store/            *)
(* automation.go) and the runner that executes it                          *)
(* (panel/internal/automation/runner.go), for one target: every statement  *)
(* of the table selects by type and target, so targets do not meet.        *)
(*                                                                         *)
(* A job is leased to the process that claimed it. The execution's         *)
(* heartbeat renews the lease and gives up at its first error; the process *)
(* is one owner, whatever goroutine executes.                              *)
(*                                                                         *)
(* Abstracted: the clock. A lease is live or has run out; it runs out when *)
(* no heartbeat is left to renew it, or when the process stalls. A job     *)
(* that waits for a retry may be due at any time. Rows that have ended are *)
(* only displayed: their slot is used again once no execution refers to    *)
(* it. What an execution does is left to the module that extends this one. *)
(***************************************************************************)
EXTENDS Naturals, FiniteSets, Functions

CONSTANTS
    Jobs,           \* the slots of the table
    Workers,        \* the goroutines of runAsync (batchSize)
    None,           \* no job
    MaxRestarts     \* bound: restarts of the Panel

ASSUME JobsAssumption ==
    /\ None \notin Jobs
    /\ IsFiniteSet(Workers)
    /\ MaxRestarts \in Nat

VARIABLES
    jobs,           \* the rows: state, lease owner (0: ''), lease not yet expired
    owner,          \* r.Owner: the process; a new one for every start
    held,           \* held[w]: the job the goroutine executes, or None
    beating,        \* beating[w]: its heartbeat goroutine still runs
    listed,         \* the loop of Run has listed the target as due and not yet enqueued it
    lost,           \* history: a heartbeat has given up, or the process has stalled
    overlapped      \* history: two executions of the target have run at once

jobVars == <<jobs, owner, held, beating, listed, lost, overlapped>>

Active == {"pending", "running", "retry_wait"}
Ended == {"none", "success", "failed"}

JobsTypeOK ==
    /\ jobs \in [Jobs -> [state : Active \cup Ended,
                          owner : 0 .. MaxRestarts + 1, live : BOOLEAN]]
    /\ owner \in 1 .. MaxRestarts + 1
    /\ held \in [Workers -> Jobs \cup {None}]
    /\ beating \in [Workers -> BOOLEAN]
    /\ listed \in BOOLEAN
    /\ lost \in BOOLEAN
    /\ overlapped \in BOOLEAN

JobsInit ==
    /\ jobs = [j \in Jobs |-> [state |-> "none", owner |-> 0, live |-> FALSE]]
    /\ owner = 1
    /\ held = [w \in Workers |-> None]
    /\ beating = [w \in Workers |-> FALSE]
    /\ listed = FALSE
    /\ lost = FALSE
    /\ overlapped = FALSE

Idle == {w \in Workers : held[w] = None}
ActiveJobs == {j \in Jobs : jobs[j].state \in Active}

\* A slot for a new row, and n goroutines for as many jobs: which ones does not matter.
Free(table) == {j \in Jobs : table[j].state \in Ended /\ j \notin Range(held)}
NewSlot(table) == CHOOSE j \in Free(table) : TRUE
Goroutines(n) == CHOOSE G \in SUBSET Idle : Cardinality(G) = n

-----------------------------------------------------------------------------
(* The table. Each operator is one transaction.                            *)

\* A new pending row.
Inserted(table) ==
    [table EXCEPT ![NewSlot(table)] = [state |-> "pending", owner |-> 0, live |-> FALSE]]
Failed(table, j) == [table EXCEPT ![j] = [state |-> "failed", owner |-> 0, live |-> FALSE]]

\* MUTANT: the look for an active job is dropped.
EnqueueUnchecked == Free(jobs) # {} /\ jobs' = Inserted(jobs)

\* EnqueueAutomationJob: an active job of the target is returned as it is.
EnqueueAutomationJob ==
    \/ ActiveJobs # {} /\ UNCHANGED jobs
    \/ ActiveJobs = {} /\ Free(jobs) # {} /\ jobs' = Inserted(jobs)

\* ForceEnqueueAutomationJob, without an active job ...
ForceInserts == ActiveJobs = {} /\ Free(jobs) # {} /\ jobs' = Inserted(jobs)

\* ... with one that is pending or running under a live lease, which is reused ...
ForceReuses ==
    /\ \E j \in ActiveJobs :
           \/ jobs[j].state = "pending"
           \/ jobs[j].state = "running" /\ jobs[j].live
    /\ UNCHANGED jobs

\* ... and with one that waits for a retry or whose lease has run out: it fails
\* and is replaced.
ForceReplaces ==
    \E j \in ActiveJobs :
        /\ \/ jobs[j].state = "retry_wait"
           \/ jobs[j].state = "running" /\ ~jobs[j].live
        /\ Free(Failed(jobs, j)) # {}
        /\ jobs' = Inserted(Failed(jobs, j))

ForceEnqueueAutomationJob == ForceInserts \/ ForceReuses \/ ForceReplaces

\* MUTANT: a running job is taken over whatever its lease.
ClaimableRunning == {j \in Jobs : jobs[j].state \in Active}

\* MUTANT: a job that waits for its retry is not taken again.
ClaimablePending ==
    {j \in Jobs : jobs[j].state = "pending" \/ (jobs[j].state = "running" /\ ~jobs[j].live)}

\* The rows ClaimAutomationJobs selects.
Claimable ==
    {j \in Jobs : \/ jobs[j].state \in {"pending", "retry_wait"}
                  \/ jobs[j].state = "running" /\ ~jobs[j].live}

\* MUTANT: the row is settled whoever owns it.
FinishedByAnyone(table, j, state) ==
    [table EXCEPT ![j] = [state |-> state, owner |-> 0, live |-> FALSE]]

\* FinishAutomationJob: only the owner of the lease settles the row.
Finished(table, j, state) ==
    IF table[j].owner = owner
    THEN [table EXCEPT ![j] = [state |-> state, owner |-> 0, live |-> FALSE]]
    ELSE table

\* The goroutines a claim starts: as many as there are rows and room.
Started ==
    IF Cardinality(Claimable) <= Cardinality(Idle) THEN Goroutines(Cardinality(Claimable)) ELSE Idle

\* The jobs of a target that is deleted.
Dropped(table) == [j \in Jobs |-> [state |-> "none", owner |-> 0, live |-> FALSE]]

-----------------------------------------------------------------------------
(* The runner.                                                             *)

\* One claim takes as many rows as goroutines are free. The module that extends this one
\* says what the goroutines it starts do first.
ClaimAutomationJobs(started) ==
    /\ ~listed
    /\ started # {}
    /\ \E row \in [started -> Claimable] :
           /\ IsInjective(row)
           /\ jobs' = [j \in Jobs |-> IF j \in Range(row)
                           THEN [state |-> "running", owner |-> owner, live |-> TRUE]
                           ELSE jobs[j]]
           /\ held' = [w \in Workers |-> IF w \in started THEN row[w] ELSE held[w]]
           /\ beating' = [w \in Workers |-> w \in started \/ beating[w]]
           /\ overlapped' = (overlapped \/ Cardinality((Workers \ Idle) \cup started) > 1)
    /\ UNCHANGED <<owner, listed, lost>>

\* enqueueDueCertificates: the query, and then the insert, which looks again for an
\* active job but not again at the target. A round that lists nothing goes on to the claim.
PollLists(due) ==
    /\ ~listed
    /\ due
    /\ listed' = TRUE
    /\ UNCHANGED <<jobs, owner, held, beating, lost, overlapped>>

PollEnqueues ==
    /\ listed
    /\ listed' = FALSE
    /\ EnqueueAutomationJob
    /\ UNCHANGED <<owner, held, beating, lost, overlapped>>

\* RenewAutomationJobLease from the heartbeat of w; an error ends the heartbeat.
Heartbeat(w) ==
    /\ held[w] # None
    /\ beating[w]
    /\ IF jobs[held[w]].state = "running" /\ jobs[held[w]].owner = owner
       THEN /\ jobs' = [jobs EXCEPT ![held[w]].live = TRUE]
            /\ UNCHANGED <<beating, lost>>
       ELSE /\ beating' = [beating EXCEPT ![w] = FALSE]
            /\ lost' = TRUE
            /\ UNCHANGED jobs
    /\ UNCHANGED <<owner, held, listed, overlapped>>

\* The statement of the heartbeat fails.
HeartbeatFails(w) ==
    /\ held[w] # None
    /\ beating[w]
    /\ beating' = [beating EXCEPT ![w] = FALSE]
    /\ lost' = TRUE
    /\ UNCHANGED <<jobs, owner, held, listed, overlapped>>

\* A lease runs out: nothing renews it ...
LeaseExpires(j) ==
    /\ jobs[j].state = "running"
    /\ jobs[j].live
    /\ ~\E w \in Workers : held[w] = j /\ beating[w]
    /\ jobs' = [jobs EXCEPT ![j].live = FALSE]
    /\ UNCHANGED <<owner, held, beating, listed, lost, overlapped>>

\* ... or the process did not run for longer than the lease. Bound: once, and only if no
\* heartbeat has given up.
Stall(j) ==
    /\ jobs[j].state = "running"
    /\ jobs[j].live
    /\ \E w \in Workers : held[w] = j /\ beating[w]
    /\ ~lost
    /\ lost' = TRUE
    /\ jobs' = [jobs EXCEPT ![j].live = FALSE]
    /\ UNCHANGED <<owner, held, beating, listed, overlapped>>

\* The end of execute: the heartbeat is stopped, the row settled if the lease is still ours.
Finish(w, state) ==
    /\ jobs' = Finished(jobs, held[w], state)
    /\ held' = [held EXCEPT ![w] = None]
    /\ beating' = [beating EXCEPT ![w] = FALSE]
    /\ UNCHANGED <<owner, listed, lost, overlapped>>

\* MUTANT: the goroutine gives its place up only after the UPDATE.
FinishFailsHolding(w) ==
    /\ beating' = [beating EXCEPT ![w] = FALSE]
    /\ UNCHANGED <<jobs, held, owner, listed, lost, overlapped>>

\* The UPDATE of FinishAutomationJob fails: the row stays running.
FinishFails(w) ==
    /\ held' = [held EXCEPT ![w] = None]
    /\ beating' = [beating EXCEPT ![w] = FALSE]
    /\ UNCHANGED <<jobs, owner, listed, lost, overlapped>>

\* The process ends and starts again: its executions are gone, its rows are not.
RunnerRestart ==
    /\ owner <= MaxRestarts
    /\ owner' = owner + 1
    /\ held' = [w \in Workers |-> None]
    /\ beating' = [w \in Workers |-> FALSE]
    /\ listed' = FALSE
    /\ UNCHANGED <<jobs, lost, overlapped>>

-----------------------------------------------------------------------------
\* A target has at most one active job: docs/dns-acme.md:44, and what keeps two
\* issuances of one certificate apart.
OneActiveJob == Cardinality(ActiveJobs) <= 1

\* Two executions run at once only after a lease was lost under one of them: its
\* heartbeat gave up or the process stalled. Neither a stale list of due certificates, nor an operator's
\* retry, nor a takeover after a restart starts a second one.
OverlapNeedsLostLease ==
    Cardinality(Workers \ Idle) > 1 => lost
=============================================================================
