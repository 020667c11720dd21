---------------------------- MODULE CommandQueue ----------------------------
(***************************************************************************)
(* The uplink command queue of one node: rows of the agent_commands table,  *)
(* the Panel's long-poll handlers with their per-node wakeup channel, and    *)
(* the Agent's command loop.  The Panel may restart, the Agent may restart,  *)
(* requests and responses may be lost, and a SQLite statement may fail.      *)
(*                                                                         *)
(* Seconds are abstract ticks.  The handlers are goroutines: a poll the      *)
(* Agent gave up on keeps running until it notices (hconn = FALSE).          *)
(***************************************************************************)
EXTENDS Integers, FiniteSets

CONSTANTS
    Cmds,         \* command identifiers
    Handlers,     \* poll-handler goroutines that can exist at a time
    TTL,          \* defaultCommandTTLSec
    LeaseSec,     \* defaultLeaseSec
    PollWait,     \* the wait budget of a poll
    BatchLimit,   \* maxLeaseBatch
    MaxTime,      \* bound: the clock stops here
    LastEnqueue,  \* bound: no command is enqueued after this instant
    MaxRestarts   \* bound: Panel and Agent restarts together

ASSUME QueueAssumption ==
    /\ TTL \in Nat \ {0}
    /\ LeaseSec \in Nat \ {0}
    /\ PollWait \in Nat
    /\ BatchLimit \in Nat \ {0}
    /\ MaxTime \in Nat
    /\ LastEnqueue \in Nat
    /\ MaxRestarts \in Nat

VARIABLES
    now,       \* nowUnix(), shared by Panel and Agent only through the Panel
    status,    \* agent_commands.status, "none" before the row exists
    attempt,   \* agent_commands.attempt
    lease,     \* agent_commands.lease_expires_unix
    created,   \* agent_commands.created_at_unix
    unnotified,\* rows inserted by enqueueCommand, notifyNode not yet called
    wakeup,    \* cmdWaiters[node]: "nil", or the size-1 channel "empty" / "full"
    hpc,       \* handler: "free", "lease", "parked" or "reply"
    hconn,     \* handler: its client is still waiting for the response
    hdeadline, \* handler: deadline, 0 while free
    hcmds,     \* handler: commands leased for its response
    agent,     \* Agent loop: "idle", "poll", "exec" or "post"
    batch,     \* commands of the last poll not yet executed
    posts,     \* result POSTs on their way to the Panel
    execs,     \* history: how often the Agent ran each command
    leftBehind,\* history: the last lease turn left deliverable rows unclaimed
    restarts   \* history: restarts so far

rowVars == <<status, attempt, lease, created>>
handlerVars == <<hpc, hconn, hdeadline, hcmds>>
agentVars == <<agent, batch, posts, execs>>
historyVars == <<leftBehind, restarts>>
vars == <<now, rowVars, unnotified, wakeup, handlerVars, agentVars, historyVars>>

Terminal == {"succeeded", "failed", "expired"}
Open == {"pending", "leased"}
Status == {"none"} \cup Open \cup Terminal
Results == [cmd : Cmds, run : Nat, ok : BOOLEAN]

Init ==
    /\ now = 0
    /\ status = [c \in Cmds |-> "none"]
    /\ attempt = [c \in Cmds |-> 0]
    /\ lease = [c \in Cmds |-> 0]
    /\ created = [c \in Cmds |-> 0]
    /\ unnotified = {}
    /\ wakeup = "nil"
    /\ hpc = [h \in Handlers |-> "free"]
    /\ hconn = [h \in Handlers |-> FALSE]
    /\ hdeadline = [h \in Handlers |-> 0]
    /\ hcmds = [h \in Handlers |-> {}]
    /\ agent = "idle"
    /\ batch = {}
    /\ posts = {}
    /\ execs = [c \in Cmds |-> 0]
    /\ leftBehind = FALSE
    /\ restarts = 0

Tick ==
    /\ now < MaxTime
    /\ now' = now + 1
    /\ UNCHANGED <<rowVars, unnotified, wakeup, handlerVars, agentVars, historyVars>>

(***************************************************************************)
(* The store, under Store.mu.                                              *)
(***************************************************************************)

\* CreateAgentCommand: the INSERT commits before notifyNode is called.
Enqueue(c) ==
    /\ status[c] = "none"
    /\ now <= LastEnqueue
    /\ status' = [status EXCEPT ![c] = "pending"]
    /\ created' = [created EXCEPT ![c] = now]
    /\ unnotified' = unnotified \cup {c}
    /\ UNCHANGED <<now, attempt, lease, wakeup, handlerVars, agentVars, historyVars>>

\* notifyNode: a non-blocking send on the waiter channel, if one was ever made.
Notify(c) ==
    /\ c \in unnotified
    /\ unnotified' = unnotified \ {c}
    /\ wakeup' = IF wakeup = "nil" THEN "nil" ELSE "full"
    /\ UNCHANGED <<now, rowVars, handlerVars, agentVars, historyVars>>

ExpiresAt(c) == created[c] + TTL

\* Mutant: the sweep forgets the leased rows.
SweptPendingOnly == {c \in Cmds : status[c] = "pending" /\ ExpiresAt(c) <= now}

\* Rows the sweep of LeaseAgentCommands turns to expired.
Swept == {c \in Cmds : status[c] \in Open /\ ExpiresAt(c) <= now}

\* Mutant: a leased row is redelivered without waiting for its lease.
DeliverableAnyLease == {c \in Cmds \ Swept : status[c] \in Open}

\* Rows its SELECT returns before LIMIT, which reads the table after the sweep.
Deliverable ==
    {c \in Cmds \ Swept :
        \/ status[c] = "pending"
        \/ status[c] = "leased" /\ lease[c] <= now}

\* A set the ORDER BY created_at_unix loop has reached: no later row before an
\* earlier one.
OldestFirst(S) ==
    \A c \in S : \A d \in Deliverable \ S : created[c] <= created[d]

\* What ORDER BY ... LIMIT may return.
Claim(S) ==
    /\ S \subseteq Deliverable
    /\ OldestFirst(S)
    /\ \/ S = Deliverable /\ Cardinality(S) <= BatchLimit
       \/ Cardinality(Deliverable) > BatchLimit /\ Cardinality(S) = BatchLimit

\* Mutant: the UPDATE leaves attempt alone.
SweepAndLeaseUncounted(S) ==
    /\ status' = [c \in Cmds |-> IF c \in Swept THEN "expired"
                                 ELSE IF c \in S THEN "leased" ELSE status[c]]
    /\ lease' = [c \in Cmds |-> IF c \in S THEN now + LeaseSec ELSE lease[c]]
    /\ UNCHANGED <<attempt, created>>

\* The sweep, then the UPDATE of every claimed row that was reached.
SweepAndLease(S) ==
    /\ status' = [c \in Cmds |-> IF c \in Swept THEN "expired"
                                 ELSE IF c \in S THEN "leased" ELSE status[c]]
    /\ attempt' = [c \in Cmds |-> IF c \in S THEN attempt[c] + 1 ELSE attempt[c]]
    /\ lease' = [c \in Cmds |-> IF c \in S THEN now + LeaseSec ELSE lease[c]]
    /\ UNCHANGED created

\* Mutant: the last result wins.
CompleteAlways(c, ok) ==
    /\ status' = [status EXCEPT ![c] = IF ok THEN "succeeded" ELSE "failed"]
    /\ lease' = [lease EXCEPT ![c] = 0]
    /\ UNCHANGED <<attempt, created>>

\* Mutant: a failure is stored under a word of its own.
CompleteUnchecked(c, ok) ==
    IF status[c] \in Terminal
    THEN UNCHANGED rowVars
    ELSE /\ status' = [status EXCEPT ![c] = IF ok THEN "succeeded" ELSE "error"]
         /\ lease' = [lease EXCEPT ![c] = 0]
         /\ UNCHANGED <<attempt, created>>

\* CompleteAgentCommand: a terminal row is left alone (applied = false).
Complete(c, ok) ==
    IF status[c] \in Terminal
    THEN UNCHANGED rowVars
    ELSE /\ status' = [status EXCEPT ![c] = IF ok THEN "succeeded" ELSE "failed"]
         /\ lease' = [lease EXCEPT ![c] = 0]
         /\ UNCHANGED <<attempt, created>>

(***************************************************************************)
(* The Panel's poll handlers.                                              *)
(***************************************************************************)

\* Mutant: the handler reads the channel map without creating the channel.
PollStartUnsubscribed(h) ==
    /\ agent = "idle"
    /\ hpc[h] = "free"
    /\ agent' = "poll"
    /\ hpc' = [hpc EXCEPT ![h] = "lease"]
    /\ hconn' = [hconn EXCEPT ![h] = TRUE]
    /\ hdeadline' = [hdeadline EXCEPT ![h] = now + PollWait]
    /\ leftBehind' = FALSE
    /\ UNCHANGED <<now, rowVars, unnotified, wakeup, hcmds, batch, posts, execs, restarts>>

\* The Agent's GET reaches the Panel; the handler subscribes (waiterFor) before
\* its first lease.
PollStart(h) ==
    /\ agent = "idle"
    /\ hpc[h] = "free"
    /\ agent' = "poll"
    /\ hpc' = [hpc EXCEPT ![h] = "lease"]
    /\ hconn' = [hconn EXCEPT ![h] = TRUE]
    /\ hdeadline' = [hdeadline EXCEPT ![h] = now + PollWait]
    /\ wakeup' = IF wakeup = "nil" THEN "empty" ELSE wakeup
    /\ leftBehind' = FALSE
    /\ UNCHANGED <<now, rowVars, unnotified, hcmds, batch, posts, execs, restarts>>

\* One turn of the handler's loop: lease, then answer or park.
PollLease(h) ==
    /\ hpc[h] = "lease"
    /\ \E S \in SUBSET Cmds :
        /\ Claim(S)
        /\ SweepAndLease(S)
        /\ hcmds' = [hcmds EXCEPT ![h] = S]
        /\ hpc' = [hpc EXCEPT ![h] =
                     IF S # {} \/ hdeadline[h] <= now THEN "reply" ELSE "parked"]
        /\ leftBehind' = (Deliverable \ S # {})
    /\ UNCHANGED <<now, unnotified, wakeup, hconn, hdeadline, agentVars, restarts>>

\* A statement of LeaseAgentCommands fails: before the sweep, or after some of
\* the claimed rows were updated.  They stay leased; the answer is a 500.
PollLeaseFails(h) ==
    /\ hpc[h] = "lease"
    /\ \/ UNCHANGED rowVars
       \/ \E S \in SUBSET Deliverable :
            /\ OldestFirst(S)
            /\ Cardinality(S) < BatchLimit
            /\ SweepAndLease(S)
    /\ leftBehind' = TRUE
    /\ hpc' = [hpc EXCEPT ![h] = "free"]
    /\ hconn' = [hconn EXCEPT ![h] = FALSE]
    /\ agent' = IF hconn[h] THEN "idle" ELSE agent
    /\ hdeadline' = [hdeadline EXCEPT ![h] = 0]
    /\ UNCHANGED <<now, unnotified, wakeup, hcmds, batch, posts, execs, restarts>>

\* select: the wakeup channel.
PollWake(h) ==
    /\ hpc[h] = "parked"
    /\ wakeup = "full"
    /\ wakeup' = "empty"
    /\ hpc' = [hpc EXCEPT ![h] = "lease"]
    /\ UNCHANGED <<now, rowVars, unnotified, hconn, hdeadline, hcmds, agentVars, historyVars>>

\* select: the timer; the answer is an empty list.
PollTimeout(h) ==
    /\ hpc[h] = "parked"
    /\ hdeadline[h] <= now
    /\ hpc' = [hpc EXCEPT ![h] = "reply"]
    /\ UNCHANGED <<now, rowVars, unnotified, wakeup, hconn, hdeadline, hcmds, agentVars, historyVars>>

\* select: r.Context() is done because the client went away.
PollGone(h) ==
    /\ hpc[h] = "parked"
    /\ ~hconn[h]
    /\ hpc' = [hpc EXCEPT ![h] = "free"]
    /\ hdeadline' = [hdeadline EXCEPT ![h] = 0]
    /\ UNCHANGED <<now, rowVars, unnotified, wakeup, hconn, hcmds, agentVars, historyVars>>

\* writeJSON: the response reaches the client if it is still there.
PollReply(h) ==
    /\ hpc[h] = "reply"
    /\ IF hconn[h]
       THEN /\ agent' = IF hcmds[h] = {} THEN "idle" ELSE "exec"
            /\ batch' = hcmds[h]
       ELSE UNCHANGED <<agent, batch>>
    /\ hpc' = [hpc EXCEPT ![h] = "free"]
    /\ hconn' = [hconn EXCEPT ![h] = FALSE]
    /\ hcmds' = [hcmds EXCEPT ![h] = {}]
    /\ hdeadline' = [hdeadline EXCEPT ![h] = 0]
    /\ UNCHANGED <<now, rowVars, unnotified, wakeup, posts, execs, historyVars>>

\* The Panel process restarts: the table survives, goroutines and channels do
\* not, and an enqueue that had not notified yet never does.
PanelRestart ==
    /\ restarts < MaxRestarts
    /\ restarts' = restarts + 1
    /\ unnotified' = {}
    /\ wakeup' = "nil"
    /\ hpc' = [h \in Handlers |-> "free"]
    /\ hconn' = [h \in Handlers |-> FALSE]
    /\ hcmds' = [h \in Handlers |-> {}]
    /\ hdeadline' = [h \in Handlers |-> 0]
    /\ agent' = IF agent = "poll" THEN "idle" ELSE agent
    /\ UNCHANGED <<now, rowVars, batch, posts, execs, leftBehind>>

(***************************************************************************)
(* The Agent's command loop.                                               *)
(***************************************************************************)

\* The poll fails on the client side: deadline of getJSON or a transport error.
\* The handler, or its answer, may still be on the way.
AgentGivesUp ==
    /\ agent = "poll"
    /\ agent' = "idle"
    /\ hconn' = [h \in Handlers |-> FALSE]
    /\ UNCHANGED <<now, rowVars, unnotified, wakeup, hpc, hdeadline, hcmds, batch, posts, execs, historyVars>>

\* dispatchCommand runs the oldest command of the batch and posts its result.
AgentExecute(c) ==
    /\ agent = "exec"
    /\ c \in batch
    /\ \A d \in batch : created[c] <= created[d]
    /\ batch' = batch \ {c}
    /\ execs' = [execs EXCEPT ![c] = @ + 1]
    /\ \E ok \in BOOLEAN :
        posts' = posts \cup {[cmd |-> c, run |-> execs[c] + 1, ok |-> ok]}
    /\ agent' = "post"
    /\ UNCHANGED <<now, rowVars, unnotified, wakeup, handlerVars, historyVars>>

\* postJSON returns, with the Panel's answer or an error that is only logged: in
\* both cases the loop goes on, and the request may still be on its way.
AgentPostReturns ==
    /\ agent = "post"
    /\ agent' = IF batch = {} THEN "idle" ELSE "exec"
    /\ UNCHANGED <<now, rowVars, unnotified, wakeup, handlerVars, batch, posts, execs, historyVars>>

\* handleAgentCommandResult.  A POST that is lost is one that never arrives.
ResultArrives(m) ==
    /\ Complete(m.cmd, m.ok)
    /\ posts' = posts \ {m}
    /\ UNCHANGED <<now, unnotified, wakeup, handlerVars, agent, batch, execs, historyVars>>

\* The Agent process restarts: the batch is forgotten.
AgentRestart ==
    /\ restarts < MaxRestarts
    /\ restarts' = restarts + 1
    /\ agent' = "idle"
    /\ batch' = {}
    /\ hconn' = [h \in Handlers |-> FALSE]
    /\ UNCHANGED <<now, rowVars, unnotified, wakeup, hpc, hdeadline, hcmds, posts, execs, leftBehind>>

HandlerStep(h) ==
    \/ PollLease(h) \/ PollWake(h) \/ PollTimeout(h) \/ PollGone(h) \/ PollReply(h)

Next ==
    \/ Tick
    \/ \E c \in Cmds : Enqueue(c) \/ Notify(c) \/ AgentExecute(c)
    \/ \E h \in Handlers : PollStart(h) \/ HandlerStep(h) \/ PollLeaseFails(h)
    \/ \E m \in posts : ResultArrives(m)
    \/ AgentGivesUp \/ AgentPostReturns
    \/ PanelRestart \/ AgentRestart

Spec == Init /\ [][Next]_vars

(***************************************************************************)
(* Fairness.  The clock and the goroutines run on, a statement does not     *)
(* fail for ever (SF), and a living Agent polls again, works through its    *)
(* batch and gives up on an unanswered POST.  Nothing is assumed of the     *)
(* network: every poll may be given up and every result lost.               *)
(***************************************************************************)
PanelFairness ==
    /\ WF_vars(Tick)
    /\ \A c \in Cmds : WF_vars(Notify(c))
    /\ \A h \in Handlers : WF_vars(HandlerStep(h)) /\ SF_vars(PollLease(h))

AgentFairness ==
    /\ WF_vars(\E h \in Handlers : PollStart(h))
    /\ WF_vars(\E c \in Cmds : AgentExecute(c))
    /\ WF_vars(AgentPostReturns)

FairSpec == Spec /\ PanelFairness /\ AgentFairness

-----------------------------------------------------------------------------
(***************************************************************************)
(* Properties.                                                             *)
(***************************************************************************)

\* Every variable keeps its type; a command in a handler's or the Agent's hands
\* was enqueued.
TypeOK ==
    /\ now \in Nat
    /\ status \in [Cmds -> Status]
    /\ attempt \in [Cmds -> Nat]
    /\ lease \in [Cmds -> Nat]
    /\ created \in [Cmds -> Nat]
    /\ unnotified \in SUBSET Cmds
    /\ wakeup \in {"nil", "empty", "full"}
    /\ hpc \in [Handlers -> {"free", "lease", "parked", "reply"}]
    /\ hconn \in [Handlers -> BOOLEAN]
    /\ hdeadline \in [Handlers -> Nat]
    /\ hcmds \in [Handlers -> SUBSET Cmds]
    /\ agent \in {"idle", "poll", "exec", "post"}
    /\ batch \in SUBSET Cmds
    /\ posts \in SUBSET Results
    /\ execs \in [Cmds -> Nat]
    /\ leftBehind \in BOOLEAN
    /\ restarts \in Nat

\* Commands delivered to the living Agent, or about to be, and not yet run.
InHand == batch \cup UNION {hcmds[h] : h \in {g \in Handlers : hconn[g]}}

\* Every run of a command is paid for by an attempt the table counted: nothing is
\* executed that was not leased, and one lease never buys two runs, whatever is
\* lost, retried or restarted (attempt in LeaseAgentCommands).
RunsAreCharged ==
    \A c \in Cmds : execs[c] + (IF c \in InHand THEN 1 ELSE 0) <= attempt[c]

\* A command is delivered at most ceil(TTL / LeaseSec) times: redelivery waits for
\* the lease, and the sweep ends it at the TTL even for a leased row.  This bounds
\* how often a side effect such as an upgrade can be repeated.
RedeliveryBounded ==
    \A c \in Cmds : attempt[c] > 0 => (attempt[c] - 1) * LeaseSec < TTL

\* No lost wakeup: while a poll is parked, a command whose enqueue has notified is
\* never left pending with the channel empty, unless the last lease turn failed or
\* hit its limit (notifyNode, waiterFor before the first lease).
NoLostWakeup ==
    \A h \in Handlers, c \in Cmds :
        (hpc[h] = "parked" /\ status[c] = "pending" /\ c \notin unnotified /\ ~leftBehind)
        => wakeup = "full" \/ \E g \in Handlers : hpc[g] = "lease"

\* Every enqueued command reaches a terminal state as long as the Agent lives.
CommandTerminates ==
    \A c \in Cmds : status[c] = "pending" ~> status[c] \in Terminal

\* What the error text of the sweep says ("not executed by the node before the
\* timeout"): an expired command was never run.
ExpiredMeansNotExecuted ==
    \A c \in Cmds : status[c] = "expired" => execs[c] = 0

\* The queue implements the contract its callers rely on.
Contract == INSTANCE CommandContract WITH
    outcome <- [c \in Cmds |-> IF status[c] \in Open THEN "open" ELSE status[c]],
    runs <- execs,
    MaxRuns <- (TTL + LeaseSec - 1) \div LeaseSec

ImplementsContract == Contract!Spec
=============================================================================
