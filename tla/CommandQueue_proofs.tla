------------------------ MODULE CommandQueue_proofs -------------------------
(***************************************************************************)
(* Proofs about the command queue, for any number of commands and handlers  *)
(* and any TTL, lease, wait and batch limit.                                *)
(***************************************************************************)
EXTENDS CommandQueue, TLAPS

(***************************************************************************)
(* Type correctness.                                                       *)
(***************************************************************************)

\* What a lease turn writes keeps the columns' types.
LEMMA SweepAndLeaseType ==
    ASSUME TypeOK, NEW S \in SUBSET Cmds, SweepAndLease(S)
    PROVE  /\ status' \in [Cmds -> Status]
           /\ attempt' \in [Cmds -> Nat]
           /\ lease' \in [Cmds -> Nat]
           /\ created' \in [Cmds -> Nat]
BY QueueAssumption DEF TypeOK, SweepAndLease, Status, Terminal, Open

\* Every step keeps the types.
LEMMA TypeStep == TypeOK /\ [Next]_vars => TypeOK'
<1> SUFFICES ASSUME TypeOK, [Next]_vars PROVE TypeOK'
  OBVIOUS
<1> USE QueueAssumption
<1>1. CASE Tick
  BY <1>1 DEF TypeOK, Tick, rowVars, handlerVars, agentVars, historyVars
<1>2. CASE \E c \in Cmds : Enqueue(c)
  BY <1>2 DEF TypeOK, Enqueue, Status, Open, handlerVars, agentVars, historyVars
<1>3. CASE \E c \in Cmds : Notify(c)
  BY <1>3 DEF TypeOK, Notify, rowVars, handlerVars, agentVars, historyVars
<1>4. CASE \E c \in Cmds : AgentExecute(c)
  <2> PICK c \in Cmds : AgentExecute(c)
    BY <1>4
  <2>1. PICK ok \in BOOLEAN : posts' = posts \cup {[cmd |-> c, run |-> execs[c] + 1, ok |-> ok]}
    BY DEF AgentExecute
  <2>2. posts' \in SUBSET Results
    BY <2>1 DEF TypeOK, Results
  <2> QED BY <2>2 DEF TypeOK, AgentExecute, rowVars, handlerVars, historyVars
<1>5. CASE \E h \in Handlers : PollStart(h)
  <2> PICK h \in Handlers : PollStart(h)
    BY <1>5
  <2>1. hdeadline' \in [Handlers -> Nat] /\ hconn' \in [Handlers -> BOOLEAN]
    BY DEF TypeOK, PollStart
  <2> QED BY <2>1 DEF TypeOK, PollStart, rowVars
<1>6. CASE \E h \in Handlers : PollLease(h)
  <2> PICK h \in Handlers : PollLease(h)
    BY <1>6
  <2>1. PICK S \in SUBSET Cmds :
          /\ SweepAndLease(S)
          /\ hcmds' = [hcmds EXCEPT ![h] = S]
          /\ hpc' = [hpc EXCEPT ![h] =
                       IF S # {} \/ hdeadline[h] <= now THEN "reply" ELSE "parked"]
          /\ leftBehind' = (Deliverable \ S # {})
    BY DEF PollLease
  <2> QED BY <2>1, SweepAndLeaseType DEF TypeOK, PollLease, agentVars
<1>7. CASE \E h \in Handlers : PollLeaseFails(h)
  <2> PICK h \in Handlers : PollLeaseFails(h)
    BY <1>7
  <2>1. \/ UNCHANGED rowVars
        \/ \E S \in SUBSET Cmds : SweepAndLease(S)
    BY DEF PollLeaseFails, Deliverable
  <2>2. /\ status' \in [Cmds -> Status]
        /\ attempt' \in [Cmds -> Nat]
        /\ lease' \in [Cmds -> Nat]
        /\ created' \in [Cmds -> Nat]
    BY <2>1, SweepAndLeaseType DEF TypeOK, rowVars
  <2> QED BY <2>2 DEF TypeOK, PollLeaseFails
<1>8. CASE \E h \in Handlers : PollWake(h)
  BY <1>8 DEF TypeOK, PollWake, rowVars, agentVars, historyVars
<1>9. CASE \E h \in Handlers : PollTimeout(h)
  BY <1>9 DEF TypeOK, PollTimeout, rowVars, agentVars, historyVars
<1>10. CASE \E h \in Handlers : PollGone(h)
  BY <1>10 DEF TypeOK, PollGone, rowVars, agentVars, historyVars
<1>11. CASE \E h \in Handlers : PollReply(h)
  BY <1>11 DEF TypeOK, PollReply, rowVars, agentVars, historyVars
<1>12. CASE \E m \in posts : ResultArrives(m)
  <2> PICK m \in posts : ResultArrives(m)
    BY <1>12
  <2> m.cmd \in Cmds /\ m.ok \in BOOLEAN
    BY DEF TypeOK, Results
  <2> QED BY DEF TypeOK, ResultArrives, Complete, Status, Terminal, rowVars,
                 handlerVars, historyVars
<1>13. CASE AgentGivesUp
  BY <1>13 DEF TypeOK, AgentGivesUp, rowVars, historyVars
<1>14. CASE AgentPostReturns
  BY <1>14 DEF TypeOK, AgentPostReturns, rowVars, handlerVars, historyVars
<1>15. CASE PanelRestart
  BY <1>15 DEF TypeOK, PanelRestart, rowVars
<1>16. CASE AgentRestart
  BY <1>16 DEF TypeOK, AgentRestart, rowVars
<1>17. CASE UNCHANGED vars
  BY <1>17 DEF TypeOK, vars, rowVars, handlerVars, agentVars, historyVars
<1> QED
  BY <1>1, <1>2, <1>3, <1>4, <1>5, <1>6, <1>7, <1>8, <1>9, <1>10, <1>11, <1>12, <1>13,
     <1>14, <1>15, <1>16, <1>17 DEF Next, HandlerStep

LEMMA TypeInit == Init => TypeOK
<1> SUFFICES ASSUME Init PROVE TypeOK
  OBVIOUS
<1>1. status \in [Cmds -> Status] /\ hpc \in [Handlers -> {"free", "lease", "parked", "reply"}]
  BY DEF Init, Status
<1>2. hcmds \in [Handlers -> SUBSET Cmds] /\ hconn \in [Handlers -> BOOLEAN]
  BY DEF Init
<1> QED BY <1>1, <1>2 DEF Init, TypeOK

\* Every reachable state has the types TypeOK lists (all variables of the queue).
THEOREM TypeCorrect == Spec => []TypeOK
BY TypeInit, TypeStep, PTL DEF Spec

(***************************************************************************)
(* One lease, one run.                                                     *)
(***************************************************************************)

\* Only the poll the Agent is waiting for is connected, and only a handler that
\* is about to answer holds commands; the Agent holds a batch only while it
\* works on it; a result on its way comes from a run.
Handover ==
    /\ \A h \in Handlers : hconn[h] => agent = "poll" /\ hpc[h] # "free"
    /\ \A h, g \in Handlers : hconn[h] /\ hconn[g] => h = g
    /\ \A h \in Handlers : hcmds[h] # {} => hpc[h] = "reply"
    /\ agent \in {"idle", "poll"} => batch = {}
    /\ \A m \in posts : execs[m.cmd] > 0

\* Attempts are spaced by leases: the k-th lease of a leased row ends at least k
\* leases after the row was created.
LeasesSpaced ==
    \A c \in Cmds :
        /\ status[c] = "leased" => attempt[c] * LeaseSec <= lease[c] - created[c]
        /\ status[c] \in {"none", "pending"} => attempt[c] = 0
        /\ created[c] <= now

QueueInv == TypeOK /\ Handover /\ RunsAreCharged /\ LeasesSpaced /\ RedeliveryBounded

\* A lease turn, for the rows: counting and spacing survive it.
LEMMA LeaseTurn ==
    ASSUME TypeOK, LeasesSpaced, RedeliveryBounded, now' = now,
           NEW S \in SUBSET Deliverable, SweepAndLease(S)
    PROVE  LeasesSpaced' /\ RedeliveryBounded'
<1> USE QueueAssumption
<1> SUFFICES ASSUME NEW c \in Cmds
             PROVE  /\ status'[c] = "leased" => attempt'[c] * LeaseSec <= lease'[c] - created'[c]
                    /\ status'[c] \in {"none", "pending"} => attempt'[c] = 0
                    /\ created'[c] <= now'
                    /\ attempt'[c] > 0 => (attempt'[c] - 1) * LeaseSec < TTL
  BY DEF LeasesSpaced, RedeliveryBounded
<1>1. CASE c \in S
  <2>1. /\ status'[c] = "leased"
        /\ attempt'[c] = attempt[c] + 1
        /\ lease'[c] = now + LeaseSec
        /\ created'[c] = created[c]
    BY <1>1 DEF SweepAndLease, Deliverable, TypeOK
  <2>2. attempt[c] * LeaseSec <= now - created[c] /\ now - created[c] < TTL
    <3>1. now < created[c] + TTL
      BY <1>1 DEF Deliverable, Swept, ExpiresAt, Open, TypeOK
    <3>2. CASE status[c] = "pending"
      <4>1. attempt[c] = 0
        BY <3>2 DEF LeasesSpaced
      <4> QED BY <4>1, <3>1 DEF TypeOK, LeasesSpaced
    <3>3. CASE status[c] = "leased" /\ lease[c] <= now
      BY <3>1, <3>3 DEF LeasesSpaced, TypeOK
    <3> QED BY <1>1, <3>2, <3>3 DEF Deliverable
  <2>3. (attempt[c] + 1) * LeaseSec = attempt[c] * LeaseSec + LeaseSec
    BY DEF TypeOK
  <2> QED BY <2>1, <2>2, <2>3 DEF TypeOK, LeasesSpaced
<1>2. CASE c \notin S
  BY <1>2 DEF SweepAndLease, LeasesSpaced, RedeliveryBounded, TypeOK
<1> QED BY <1>1, <1>2
\* A command is counted in InHand through the batch or through the one connected
\* handler.
LEMMA InHandMember ==
    ASSUME NEW c \in Cmds
    PROVE  c \in InHand <=> c \in batch \/ \E h \in Handlers : hconn[h] /\ c \in hcmds[h]
BY DEF InHand

LEMMA InHandMemberNext ==
    ASSUME NEW c \in Cmds
    PROVE  (c \in InHand)' <=> c \in batch' \/ \E h \in Handlers : hconn'[h] /\ c \in hcmds'[h]
BY DEF InHand

\* When no command runs, no attempt is taken back and nothing new is in hand,
\* the runs stay charged.
LEMMA ChargedUnlessDelivered ==
    ASSUME TypeOK, RunsAreCharged, TypeOK', execs' = execs,
           \A c \in Cmds : /\ attempt'[c] >= attempt[c]
                           /\ (c \in InHand)' => c \in InHand \/ attempt'[c] > attempt[c]
    PROVE  RunsAreCharged'
<1> SUFFICES ASSUME NEW c \in Cmds
             PROVE  execs'[c] + (IF (c \in InHand)' THEN 1 ELSE 0) <= attempt'[c]
  BY DEF RunsAreCharged
<1>1. execs[c] + (IF c \in InHand THEN 1 ELSE 0) <= attempt[c]
  BY DEF RunsAreCharged
<1>2. execs[c] \in Nat /\ attempt[c] \in Nat /\ attempt'[c] \in Nat
  BY DEF TypeOK
<1>3. CASE (c \in InHand)'
  BY <1>1, <1>2, <1>3
<1>4. CASE ~(c \in InHand)'
  BY <1>1, <1>2, <1>4
<1> QED BY <1>3, <1>4

\* Who holds commands changes consistently in every step.
LEMMA HandoverStep == TypeOK /\ Handover /\ [Next]_vars => Handover'
<1> SUFFICES ASSUME TypeOK, Handover, [Next]_vars PROVE Handover'
  OBVIOUS
<1>1. CASE Tick
  BY <1>1 DEF Handover, Tick, handlerVars, agentVars
<1>2. CASE \E c \in Cmds : Enqueue(c)
  BY <1>2 DEF Handover, Enqueue, handlerVars, agentVars
<1>3. CASE \E c \in Cmds : Notify(c)
  BY <1>3 DEF Handover, Notify, handlerVars, agentVars
<1>4. CASE \E c \in Cmds : AgentExecute(c)
  <2> PICK c \in Cmds : AgentExecute(c)
    BY <1>4
  <2>1. PICK ok \in BOOLEAN : posts' = posts \cup {[cmd |-> c, run |-> execs[c] + 1, ok |-> ok]}
    BY DEF AgentExecute
  <2>2. \A m \in posts' : execs'[m.cmd] > 0
    <3> SUFFICES ASSUME NEW m \in posts' PROVE execs'[m.cmd] > 0
      OBVIOUS
    <3>1. execs' = [execs EXCEPT ![c] = execs[c] + 1] /\ execs[c] \in Nat
      BY DEF AgentExecute, TypeOK
    <3>2. CASE m \in posts
      <4>1. m.cmd \in Cmds /\ execs[m.cmd] \in Nat /\ execs[m.cmd] > 0
        BY <3>2 DEF TypeOK, Results, Handover
      <4> QED BY <3>1, <4>1 DEF TypeOK
    <3>3. CASE m \notin posts
      BY <2>1, <3>1, <3>3 DEF TypeOK
    <3> QED BY <3>2, <3>3
  <2> QED BY <2>2 DEF Handover, AgentExecute, handlerVars
<1>5. CASE \E h \in Handlers : PollStart(h)
  BY <1>5 DEF TypeOK, Handover, PollStart
<1>6. CASE \E h \in Handlers : PollLease(h)
  <2> PICK h \in Handlers : PollLease(h)
    BY <1>6
  <2>1. PICK S \in SUBSET Cmds :
          /\ hcmds' = [hcmds EXCEPT ![h] = S]
          /\ hpc' = [hpc EXCEPT ![h] =
                       IF S # {} \/ hdeadline[h] <= now THEN "reply" ELSE "parked"]
    BY DEF PollLease
  <2> QED BY <2>1 DEF TypeOK, Handover, PollLease, agentVars
<1>7. CASE \E h \in Handlers : PollLeaseFails(h)
  BY <1>7 DEF TypeOK, Handover, PollLeaseFails
<1>8. CASE \E h \in Handlers : PollWake(h)
  BY <1>8 DEF TypeOK, Handover, PollWake, agentVars
<1>9. CASE \E h \in Handlers : PollTimeout(h)
  BY <1>9 DEF TypeOK, Handover, PollTimeout, agentVars
<1>10. CASE \E h \in Handlers : PollGone(h)
  BY <1>10 DEF TypeOK, Handover, PollGone, agentVars
<1>11. CASE \E h \in Handlers : PollReply(h)
  BY <1>11 DEF TypeOK, Handover, PollReply
<1>12. CASE \E m \in posts : ResultArrives(m)
  BY <1>12 DEF Handover, ResultArrives, handlerVars
<1>13. CASE AgentGivesUp
  BY <1>13 DEF TypeOK, Handover, AgentGivesUp
<1>14. CASE AgentPostReturns
  BY <1>14 DEF TypeOK, Handover, AgentPostReturns, handlerVars
<1>15. CASE PanelRestart
  BY <1>15 DEF TypeOK, Handover, PanelRestart
<1>16. CASE AgentRestart
  BY <1>16 DEF TypeOK, Handover, AgentRestart
<1>17. CASE UNCHANGED vars
  BY <1>17 DEF Handover, vars, handlerVars, agentVars
<1> QED
  BY <1>1, <1>2, <1>3, <1>4, <1>5, <1>6, <1>7, <1>8, <1>9, <1>10, <1>11, <1>12, <1>13,
     <1>14, <1>15, <1>16, <1>17 DEF Next, HandlerStep
\* Runs stay charged: only a lease turn hands out commands, and it pays for them.
LEMMA ChargedStep == TypeOK /\ Handover /\ RunsAreCharged /\ [Next]_vars => RunsAreCharged'
<1> SUFFICES ASSUME TypeOK, Handover, RunsAreCharged, [Next]_vars PROVE RunsAreCharged'
  OBVIOUS
<1> TypeOK'
  BY TypeStep
<1> USE InHandMember, InHandMemberNext, ChargedUnlessDelivered
<1>1. CASE UNCHANGED <<attempt, hconn, hcmds, batch, execs>>
  BY <1>1 DEF TypeOK
<1>2. CASE \E c \in Cmds : AgentExecute(c)
  <2> PICK c \in Cmds : AgentExecute(c)
    BY <1>2
  <2>1. /\ attempt' = attempt /\ hconn' = hconn /\ hcmds' = hcmds
        /\ batch' = batch \ {c} /\ c \in batch
        /\ execs' = [execs EXCEPT ![c] = execs[c] + 1]
        /\ \A h \in Handlers : ~hconn[h]
    BY DEF AgentExecute, rowVars, handlerVars, Handover
  <2> SUFFICES ASSUME NEW d \in Cmds
               PROVE  execs'[d] + (IF (d \in InHand)' THEN 1 ELSE 0) <= attempt'[d]
    BY DEF RunsAreCharged
  <2>2. execs[d] + (IF d \in InHand THEN 1 ELSE 0) <= attempt[d]
    BY DEF RunsAreCharged
  <2>3. execs[d] \in Nat /\ attempt[d] \in Nat
    BY DEF TypeOK
  <2>4. CASE d = c
    <3>1. d \in InHand /\ ~(d \in InHand)' /\ execs'[d] = execs[d] + 1
      BY <2>1, <2>4 DEF TypeOK
    <3> QED BY <2>1, <2>2, <2>3, <3>1
  <2>5. CASE d # c
    <3>1. (d \in InHand)' => d \in InHand
      BY <2>1, <2>5
    <3>2. execs'[d] = execs[d]
      BY <2>1, <2>5 DEF TypeOK
    <3> QED BY <2>1, <2>2, <2>3, <3>1, <3>2
  <2> QED BY <2>4, <2>5
<1>3. CASE \E h \in Handlers : PollStart(h)
  BY <1>3 DEF TypeOK, PollStart, Handover, rowVars
<1>4. CASE \E h \in Handlers : PollLease(h)
  <2> PICK h \in Handlers : PollLease(h)
    BY <1>4
  <2>1. PICK S \in SUBSET Cmds : SweepAndLease(S) /\ hcmds' = [hcmds EXCEPT ![h] = S]
    BY DEF PollLease
  <2>2. execs' = execs /\ batch' = batch /\ hconn' = hconn
    BY DEF PollLease, agentVars
  <2>3. ASSUME NEW c \in Cmds
        PROVE  /\ attempt'[c] = IF c \in S THEN attempt[c] + 1 ELSE attempt[c]
               /\ (c \in InHand)' => c \in InHand \/ c \in S
    BY <2>1, <2>2 DEF SweepAndLease, TypeOK
  <2> QED BY <2>2, <2>3 DEF TypeOK
<1>5. CASE \E h \in Handlers : PollLeaseFails(h)
  <2> PICK h \in Handlers : PollLeaseFails(h)
    BY <1>5
  <2>1. attempt' = attempt \/ \E S \in SUBSET Cmds : SweepAndLease(S)
    BY DEF PollLeaseFails, Deliverable, rowVars
  <2>2. \A c \in Cmds : attempt'[c] >= attempt[c]
    BY <2>1 DEF SweepAndLease, TypeOK
  <2>3. execs' = execs /\ batch' = batch /\ hcmds' = hcmds
        /\ \A g \in Handlers : hconn'[g] => hconn[g]
    BY DEF PollLeaseFails, TypeOK
  <2> QED BY <2>2, <2>3
<1>6. CASE \E h \in Handlers : PollReply(h)
  <2> PICK h \in Handlers : PollReply(h)
    BY <1>6
  <2>1. execs' = execs /\ attempt' = attempt
    BY DEF PollReply, rowVars
  <2>2. ASSUME NEW c \in Cmds, (c \in InHand)'
        PROVE  c \in InHand
    BY <2>2 DEF PollReply, TypeOK
  <2> QED BY <2>1, <2>2 DEF TypeOK
<1>7. CASE AgentGivesUp \/ AgentRestart \/ PanelRestart
  <2>1. execs' = execs /\ attempt' = attempt
    BY <1>7 DEF AgentGivesUp, AgentRestart, PanelRestart, rowVars
  <2>2. ASSUME NEW c \in Cmds, (c \in InHand)'
        PROVE  c \in InHand
    BY <1>7, <2>2 DEF AgentGivesUp, AgentRestart, PanelRestart
  <2> QED BY <2>1, <2>2 DEF TypeOK
<1>8. CASE \E m \in posts : ResultArrives(m)
  BY <1>1, <1>8 DEF ResultArrives, Complete, rowVars, handlerVars
<1> QED
  BY <1>1, <1>2, <1>3, <1>4, <1>5, <1>6, <1>7, <1>8
  DEF Next, HandlerStep, Tick, Enqueue, Notify, PollWake, PollTimeout, PollGone,
      AgentPostReturns, vars, rowVars, handlerVars, agentVars
\* Outside a lease turn the counters stay and only the clock moves.
LEMMA SpacedWhenIdle ==
    ASSUME TypeOK, LeasesSpaced, RedeliveryBounded, now' \in Nat, now' >= now,
           UNCHANGED <<attempt, lease, created>>,
           \A c \in Cmds : \/ status'[c] = status[c]
                          \/ status'[c] \in Terminal
    PROVE  LeasesSpaced' /\ RedeliveryBounded'
BY DEF TypeOK, LeasesSpaced, RedeliveryBounded, Terminal

LEMMA SpacedStep ==
    TypeOK /\ LeasesSpaced /\ RedeliveryBounded /\ [Next]_vars
    => LeasesSpaced' /\ RedeliveryBounded'
<1> SUFFICES ASSUME TypeOK, LeasesSpaced, RedeliveryBounded, [Next]_vars
             PROVE  LeasesSpaced' /\ RedeliveryBounded'
  OBVIOUS
<1> now \in Nat
  BY DEF TypeOK
<1>1. CASE Tick
  BY <1>1, SpacedWhenIdle DEF Tick, rowVars
<1>2. CASE \E c \in Cmds : Enqueue(c)
  <2> PICK c \in Cmds : Enqueue(c)
    BY <1>2
  <2>1. /\ status[c] = "none" /\ now' = now /\ attempt' = attempt /\ lease' = lease
        /\ status' = [status EXCEPT ![c] = "pending"]
        /\ created' = [created EXCEPT ![c] = now]
    BY DEF Enqueue
  <2> QED BY <2>1 DEF TypeOK, LeasesSpaced, RedeliveryBounded
<1>3. CASE \E h \in Handlers : PollLease(h)
  <2> PICK h \in Handlers : PollLease(h)
    BY <1>3
  <2>1. PICK S \in SUBSET Deliverable : SweepAndLease(S)
    BY DEF PollLease, Claim
  <2> QED BY <2>1, LeaseTurn DEF PollLease
<1>4. CASE \E h \in Handlers : PollLeaseFails(h)
  <2> PICK h \in Handlers : PollLeaseFails(h)
    BY <1>4
  <2>1. now' = now
    BY DEF PollLeaseFails
  <2>2. CASE \E S \in SUBSET Deliverable : SweepAndLease(S)
    BY <2>1, <2>2, LeaseTurn
  <2>3. CASE UNCHANGED rowVars
    BY <2>1, <2>3, SpacedWhenIdle DEF rowVars
  <2> QED BY <2>2, <2>3 DEF PollLeaseFails
<1>5. CASE \E m \in posts : ResultArrives(m)
  <2> PICK m \in posts : ResultArrives(m)
    BY <1>5
  <2>1. now' = now /\ Complete(m.cmd, m.ok) /\ m.cmd \in Cmds
    BY DEF ResultArrives, TypeOK, Results
  <2>2. CASE UNCHANGED rowVars
    BY <2>1, <2>2, SpacedWhenIdle DEF rowVars
  <2>3. CASE ~UNCHANGED rowVars
    <3>1. /\ status' = [status EXCEPT ![m.cmd] = IF m.ok THEN "succeeded" ELSE "failed"]
          /\ lease' = [lease EXCEPT ![m.cmd] = 0]
          /\ attempt' = attempt /\ created' = created
      BY <2>1, <2>3 DEF Complete
    <3> QED BY <2>1, <3>1 DEF TypeOK, LeasesSpaced, RedeliveryBounded
  <2> QED BY <2>2, <2>3
<1>6. CASE UNCHANGED <<now, rowVars>>
  BY <1>6, SpacedWhenIdle DEF rowVars
<1> QED
  BY <1>1, <1>2, <1>3, <1>4, <1>5, <1>6
  DEF Next, HandlerStep, Notify, AgentExecute, PollStart, PollWake, PollTimeout, PollGone,
      PollReply, AgentGivesUp, AgentPostReturns, PanelRestart, AgentRestart, vars

\* The invariant behind the delivery guarantees.
THEOREM QueueInvariant == Spec => []QueueInv
<1>1. Init => QueueInv
  <2> SUFFICES ASSUME Init PROVE QueueInv
    OBVIOUS
  <2>1. TypeOK
    BY TypeInit
  <2>2. Handover /\ LeasesSpaced /\ RedeliveryBounded
    BY QueueAssumption DEF Init, Handover, LeasesSpaced, RedeliveryBounded
  <2>3. RunsAreCharged
    BY InHandMember DEF Init, RunsAreCharged
  <2> QED BY <2>1, <2>2, <2>3 DEF QueueInv
<1>2. QueueInv /\ [Next]_vars => QueueInv'
  BY TypeStep, HandoverStep, ChargedStep, SpacedStep DEF QueueInv
<1> QED BY <1>1, <1>2, PTL DEF Spec

\* Every run of a command was leased and counted, whatever is lost or restarted.
THEOREM RunsAlwaysCharged == Spec => []RunsAreCharged
<1>1. QueueInv => RunsAreCharged
  BY DEF QueueInv
<1> QED BY <1>1, QueueInvariant, PTL

\* The lease and the TTL together bound how often a command is delivered.
THEOREM RedeliveryAlwaysBounded == Spec => []RedeliveryBounded
<1>1. QueueInv => RedeliveryBounded
  BY DEF QueueInv
<1> QED BY <1>1, QueueInvariant, PTL

(***************************************************************************)
(* No lost wakeup.                                                         *)
(***************************************************************************)

\* A handler subscribed: the channel it will wait on exists.
Subscribed == \A h \in Handlers : hpc[h] # "free" => wakeup # "nil"

WakeupInv == TypeOK /\ Subscribed /\ NoLostWakeup

\* A complete lease turn that leaves nothing deliverable leaves nothing pending.
LEMMA NothingPending ==
    ASSUME TypeOK, NEW S \in SUBSET Cmds, SweepAndLease(S), Deliverable \ S = {}
    PROVE  \A c \in Cmds : status'[c] # "pending"
BY DEF TypeOK, SweepAndLease, Deliverable

LEMMA WakeupStep == WakeupInv /\ [Next]_vars => WakeupInv'
<1> SUFFICES ASSUME TypeOK, Subscribed, NoLostWakeup, [Next]_vars
             PROVE  Subscribed' /\ NoLostWakeup'
  BY TypeStep DEF WakeupInv
<1>1. CASE \E c \in Cmds : Enqueue(c)
  BY <1>1 DEF TypeOK, Subscribed, NoLostWakeup, Enqueue, handlerVars, historyVars
<1>2. CASE \E c \in Cmds : Notify(c)
  BY <1>2 DEF TypeOK, Subscribed, NoLostWakeup, Notify, handlerVars, historyVars, rowVars
<1>3. CASE \E h \in Handlers : PollStart(h)
  BY <1>3 DEF TypeOK, Subscribed, NoLostWakeup, PollStart, rowVars
<1>4. CASE \E h \in Handlers : PollLease(h)
  <2> PICK h \in Handlers : PollLease(h)
    BY <1>4
  <2>1. PICK S \in SUBSET Cmds : SweepAndLease(S) /\ leftBehind' = (Deliverable \ S # {})
    BY DEF PollLease
  <2>2. ~leftBehind' => \A c \in Cmds : status'[c] # "pending"
    BY <2>1, NothingPending
  <2>3. wakeup' = wakeup /\ \A g \in Handlers : hpc'[g] # "free" => hpc[g] # "free"
    BY DEF PollLease, TypeOK
  <2> QED BY <2>2, <2>3 DEF Subscribed, NoLostWakeup
<1>5. CASE \E h \in Handlers : PollLeaseFails(h)
  BY <1>5 DEF TypeOK, Subscribed, NoLostWakeup, PollLeaseFails
<1>6. CASE \E h \in Handlers : PollWake(h)
  BY <1>6 DEF TypeOK, Subscribed, NoLostWakeup, PollWake
<1>7. CASE \E h \in Handlers : PollTimeout(h) \/ PollGone(h) \/ PollReply(h)
  BY <1>7 DEF TypeOK, Subscribed, NoLostWakeup, PollTimeout, PollGone, PollReply, rowVars,
              historyVars
<1>8. CASE \E m \in posts : ResultArrives(m)
  <2> PICK m \in posts : ResultArrives(m)
    BY <1>8
  <2>1. Complete(m.cmd, m.ok) /\ m.cmd \in Cmds
    BY DEF ResultArrives, TypeOK, Results
  <2>2. \A c \in Cmds : status'[c] = "pending" => status[c] = "pending"
    BY <2>1 DEF Complete, TypeOK, rowVars
  <2> QED BY <2>2 DEF Subscribed, NoLostWakeup, ResultArrives, handlerVars, historyVars
<1>9. CASE PanelRestart
  BY <1>9 DEF Subscribed, NoLostWakeup, PanelRestart
<1>10. CASE UNCHANGED <<status, unnotified, wakeup, hpc, leftBehind>>
  BY <1>10 DEF Subscribed, NoLostWakeup
<1> QED
  BY <1>1, <1>2, <1>3, <1>4, <1>5, <1>6, <1>7, <1>8, <1>9, <1>10
  DEF Next, HandlerStep, Tick, AgentExecute, AgentGivesUp, AgentPostReturns, AgentRestart,
      vars, rowVars, handlerVars, historyVars

\* A parked poll never sleeps through a command its enqueue announced.
THEOREM WakeupNeverLost == Spec => []NoLostWakeup
<1>1. Init => WakeupInv
  BY TypeInit DEF WakeupInv, Init, Subscribed, NoLostWakeup
<1>2. WakeupInv => NoLostWakeup
  BY DEF WakeupInv
<1> QED BY <1>1, <1>2, WakeupStep, PTL DEF Spec
(***************************************************************************)
(* The queue implements CommandContract.                                   *)
(***************************************************************************)

\* The number of leases that fit in a TTL, rounded up.
LEMMA LeasesInTTL ==
    ASSUME NEW k \in Nat \ {0}, NEW L \in Nat \ {0}, NEW T \in Nat, (k - 1) * L < T
    PROVE  k <= (T + L - 1) \div L
<1> DEFINE q == (T + L - 1) \div L
<1>1. q \in Nat /\ T + L - 1 < (q + 1) * L
  BY Z3
<1>2. k * L = (k - 1) * L + L
  OBVIOUS
<1>3. k * L <= T + L - 1
  BY <1>2
<1>4. k * L < (q + 1) * L
  BY <1>1, <1>3
<1>5. SUFFICES ASSUME k >= q + 1 PROVE FALSE
  BY <1>1
<1> HIDE DEF q
<1>6. k * L >= (q + 1) * L
  <2>1. (k - (q + 1)) * L >= 0
    BY <1>1, <1>5
  <2>2. k * L = (k - (q + 1)) * L + (q + 1) * L
    BY <1>1
  <2> QED BY <1>1, <2>1, <2>2
<1> QED BY <1>1, <1>4, <1>6

\* A lease turn closes exactly the swept commands, in the contract's eyes.
LEMMA LeaseTurnExpires ==
    ASSUME TypeOK, NEW S \in SUBSET Deliverable, SweepAndLease(S), execs' = execs
    PROVE  Contract!Next
<1> PICK X \in SUBSET Cmds : X = Swept
  BY DEF Swept
<1>1. Contract!Expire(X)
  BY DEF TypeOK, SweepAndLease, Deliverable, Swept, Contract!Expire, Status, Open, Terminal
<1> QED BY <1>1 DEF Contract!Next

LEMMA ContractStep == QueueInv /\ [Next]_vars => [Contract!Next]_(Contract!vars)
<1> SUFFICES ASSUME QueueInv, [Next]_vars PROVE Contract!Next \/ UNCHANGED Contract!vars
  OBVIOUS
<1> USE DEF QueueInv
<1>1. CASE \E c \in Cmds : Enqueue(c)
  <2> PICK c \in Cmds : Enqueue(c)
    BY <1>1
  <2>1. Contract!Submit(c)
    BY DEF Enqueue, Contract!Submit, TypeOK, Open, agentVars
  <2> QED BY <2>1 DEF Contract!Next
<1>2. CASE \E c \in Cmds : AgentExecute(c)
  <2> PICK c \in Cmds : AgentExecute(c)
    BY <1>2
  <2>1. c \in InHand /\ execs[c] \in Nat /\ attempt[c] \in Nat
    BY InHandMember DEF AgentExecute, TypeOK
  <2>2. execs[c] < attempt[c]
    BY <2>1 DEF RunsAreCharged
  <2>3. attempt[c] <= (TTL + LeaseSec - 1) \div LeaseSec
    BY <2>1, <2>2, LeasesInTTL, QueueAssumption DEF RedeliveryBounded
  <2>4. (TTL + LeaseSec - 1) \div LeaseSec \in Int
    BY QueueAssumption
  <2>5. status[c] # "none"
    BY <2>1, <2>2 DEF LeasesSpaced
  <2>6. Contract!Run(c)
    BY <2>1, <2>2, <2>3, <2>4, <2>5 DEF AgentExecute, Contract!Run, rowVars, Open
  <2> QED BY <2>6 DEF Contract!Next
<1>3. CASE \E h \in Handlers : PollLease(h)
  <2> PICK h \in Handlers : PollLease(h)
    BY <1>3
  <2>1. PICK S \in SUBSET Deliverable : SweepAndLease(S)
    BY DEF PollLease, Claim
  <2> QED BY <2>1, LeaseTurnExpires DEF PollLease, agentVars
<1>4. CASE \E h \in Handlers : PollLeaseFails(h)
  <2> PICK h \in Handlers : PollLeaseFails(h)
    BY <1>4
  <2>1. execs' = execs
    BY DEF PollLeaseFails
  <2>2. CASE \E S \in SUBSET Deliverable : SweepAndLease(S)
    BY <2>1, <2>2, LeaseTurnExpires
  <2>3. CASE UNCHANGED rowVars
    BY <2>1, <2>3 DEF Contract!vars, rowVars
  <2> QED BY <2>2, <2>3 DEF PollLeaseFails
<1>5. CASE \E m \in posts : ResultArrives(m)
  <2> PICK m \in posts : ResultArrives(m)
    BY <1>5
  <2>1. /\ execs' = execs /\ Complete(m.cmd, m.ok)
        /\ m.cmd \in Cmds /\ m.ok \in BOOLEAN /\ execs[m.cmd] > 0
    BY DEF ResultArrives, TypeOK, Results, Handover
  <2>2. CASE status[m.cmd] \in Terminal
    BY <2>1, <2>2 DEF Complete, rowVars, Contract!vars
  <2>3. CASE status[m.cmd] \notin Terminal
    <3> DEFINE result == IF m.ok THEN "succeeded" ELSE "failed"
    <3>1. status' = [status EXCEPT ![m.cmd] = result]
      BY <2>1, <2>3 DEF Complete
    <3>2. attempt[m.cmd] > 0
      BY <2>1 DEF RunsAreCharged, TypeOK
    <3>3. status[m.cmd] \in Open
      BY <2>1, <2>3, <3>2 DEF LeasesSpaced, TypeOK, Status
    <3>4. Contract!Answer(m.cmd, result)
      BY <2>1, <3>1, <3>3 DEF Contract!Answer, TypeOK, Open
    <3> QED BY <2>1, <3>4 DEF Contract!Next
  <2> QED BY <2>2, <2>3
<1>6. CASE UNCHANGED <<status, execs>>
  BY <1>6 DEF Contract!vars
<1> QED
  BY <1>1, <1>2, <1>3, <1>4, <1>5, <1>6
  DEF Next, HandlerStep, Tick, Notify, PollStart, PollWake, PollTimeout, PollGone, PollReply,
      AgentGivesUp, AgentPostReturns, PanelRestart, AgentRestart, vars, rowVars, agentVars

\* Seen through its rows, the queue keeps the contract: answers are final, come
\* from runs, and a command runs at most once per lease that fits in its TTL.
THEOREM QueueImplementsContract == Spec => ImplementsContract
<1>1. Init => Contract!Init
  BY DEF Init, Contract!Init, Open
<1> QED BY <1>1, ContractStep, QueueInvariant, PTL DEF Spec, ImplementsContract, Contract!Spec
=============================================================================
