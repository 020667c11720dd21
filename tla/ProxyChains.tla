----------------------------- MODULE ProxyChains ------------------------------
(***************************************************************************)
(* Deploying, replacing and disabling a proxy chain                        *)
(* (panel/internal/proxychain/service.go): the configuration of every hop  *)
(* is planned, the push nodes are given theirs one after the other, and    *)
(* those that were changed are given the old one back when one fails; the  *)
(* row of the chain is written at the end.                                 *)
(*                                                                         *)
(* The deployment holds the Coordinator; the bootstrap loop, which needs   *)
(* it too, repairs a node whose row does not show the configuration the    *)
(* tables ask for. The handlers that edit and delete a disabled chain do   *)
(* not hold it.                                                            *)
(*                                                                         *)
(* One chain: of a node's configuration only the part of this chain is     *)
(* kept, the hops it was built with, or none. Abstracted: what a probe     *)
(* measures, and the checks of names, inbounds and capabilities, which     *)
(* only refuse.                                                            *)
(***************************************************************************)
EXTENDS Naturals, FiniteSets, SequencesExt

CONSTANTS
    Nodes,
    UplinkNodes,    \* their Agents build and fetch by themselves (config-sync)
    HopLists,       \* bound: the hops an operator may choose
    MaxOps,         \* bound: requests of operators
    MaxFailures     \* bound: failing calls and writes, restarts, requests given up

ASSUME ChainAssumption ==
    /\ IsFiniteSet(Nodes)
    /\ UplinkNodes \subseteq Nodes
    /\ HopLists \subseteq Seq(Nodes)
    /\ \A h \in HopLists : Len(h) \in 2 .. 8 /\ IsInjective(h)
    /\ {MaxOps, MaxFailures} \subseteq Nat

VARIABLES
    chain,      \* the chain's row: "none", or enabled, state, hops
    runs,       \* runs[n]: the chain's part of the configuration the Agent runs
    shown,      \* shown[n]: the same of the configuration hash in the node's row
    op,         \* the deployment in progress, which holds the Coordinator (before: what
                \* the Agents ran when it began, a history)
    waiting,    \* the hops a handler wants deployed, while it waits for the Coordinator
    edit,       \* the handler of a disabled chain between its read and its write
    doubt,      \* history: "lost": an apply took effect and the row does not show it, or
                \* an edit overtook a rollback; "left": a rollback failed or was not made
    ops, failures

chainVars == <<chain, runs, shown, op, waiting, edit, doubt, ops, failures>>

Push == Nodes \ UplinkNodes
None == << >>
Parts == HopLists \cup {None}
NoChain == [exists |-> FALSE, enabled |-> FALSE, state |-> "disabled", hops |-> None]
NoOp == [pc |-> "idle", enable |-> FALSE, hops |-> None, old |-> NoChain,
         left |-> << >>, changed |-> << >>, gone |-> FALSE, torn |-> FALSE,
         before |-> [n \in Nodes |-> None]]

ChainTypeOK ==
    /\ chain \in [exists : BOOLEAN, enabled : BOOLEAN, hops : Parts,
                  state : {"disabled", "degraded", "healthy"}]
    /\ runs \in [Nodes -> Parts]
    /\ shown \in [Nodes -> Parts]
    /\ op.pc \in {"idle", "preflight", "apply", "undo", "runtime", "probe",
                  "ok", "undone", "refused", "failed"}
    /\ {op.enable, op.gone, op.torn} \subseteq BOOLEAN /\ op.hops \in Parts
    /\ {op.left, op.changed} \subseteq Seq(Nodes)
    /\ waiting \in Parts
    /\ edit \in {None} \cup (HopLists \X {"update"}) \cup {<<None, "delete">>}
    /\ doubt \in [Nodes -> {"no", "lost", "left"}]
    /\ ops \in 0 .. MaxOps
    /\ failures \in 0 .. MaxFailures

ChainInit ==
    /\ \E h \in HopLists : chain = [NoChain EXCEPT !.exists = TRUE, !.hops = h]
    /\ runs = [n \in Nodes |-> None]
    /\ shown = [n \in Nodes |-> None]
    /\ op = NoOp
    /\ waiting = None
    /\ edit = None
    /\ doubt = [n \in Nodes |-> "no"]
    /\ ops = 0
    /\ failures = 0

Op == ops < MaxOps /\ ops' = ops + 1
Failure == failures < MaxFailures /\ failures' = failures + 1

\* BuildWithChains: the part of a node that is a hop of the chain, if it is enabled.
Part(n, enabled, hops) == IF enabled /\ n \in ToSet(hops) THEN hops ELSE None
Asked(n) == Part(n, chain.enabled, chain.hops)
OldPart(n) == Part(n, op.old.enabled, op.old.hops)
NewPart(n) == Part(n, op.enable, op.hops)

-----------------------------------------------------------------------------
(* Deploy and Disable.                                                     *)

\* appendUnique of the nodes of more, one after the other.
AppendNew(seq, more) ==
    LET upTo[i \in 0 .. Len(more)] ==
            IF i = 0 THEN seq
            ELSE IF more[i] \in ToSet(upTo[i - 1]) THEN upTo[i - 1]
            ELSE Append(upTo[i - 1], more[i])
    IN  upTo[Len(more)]

\* planConfigs: the last hop first, then the nodes of the hops that are left; a chain is
\* disabled from its first hop.
Order(enable, hops, old) == IF enable THEN AppendNew(Reverse(hops), old) ELSE old

\* A handler reads the chain, which is enabled as it is or replaced by other hops, and asks
\* for the Coordinator (bound: one waits at a time).
DeployAsks ==
    /\ waiting = None
    /\ chain.exists
    /\ Op
    /\ waiting' \in IF chain.enabled THEN HopLists ELSE {chain.hops}
    /\ UNCHANGED <<chain, runs, shown, op, edit, doubt, failures>>

\* Deploy, with the Coordinator: the old chain is the row of now, if there is one.
DeployBegins ==
    /\ op.pc = "idle"
    /\ waiting # None
    /\ waiting' = None
    /\ op' = IF chain.exists
             THEN [NoOp EXCEPT !.pc = "preflight", !.enable = TRUE, !.hops = waiting, !.old = chain,
                               !.before = runs, !.left = Order(TRUE, waiting, chain.hops)]
             ELSE op
    /\ UNCHANGED <<chain, runs, shown, edit, doubt, ops, failures>>

\* Disable: there is no preflight.
DisableBegins ==
    /\ op.pc = "idle"
    /\ chain.exists /\ chain.enabled
    /\ Op
    /\ op' = [NoOp EXCEPT !.pc = "apply", !.hops = chain.hops, !.old = chain, !.before = runs,
                          !.left = Order(FALSE, None, chain.hops)]
    /\ UNCHANGED <<chain, runs, shown, edit, doubt, failures, waiting>>

\* The client goes away or the time of the request is up: every later call fails.
GivenUp ==
    /\ op.pc \in {"preflight", "apply", "undo"}
    /\ ~op.gone
    /\ Failure
    /\ op' = [op EXCEPT !.gone = TRUE]
    /\ UNCHANGED <<chain, runs, shown, edit, doubt, ops, waiting>>

\* preflight: every push hop answers a Ping and knows chains.
Preflight ==
    /\ op.pc = "preflight"
    /\ \/ ~op.gone /\ op' = [op EXCEPT !.pc = "apply"] /\ UNCHANGED failures
       \/ op.gone /\ op' = [op EXCEPT !.pc = "refused"] /\ UNCHANGED failures
       \/ Failure /\ op' = [op EXCEPT !.pc = "refused"]
    /\ UNCHANGED <<chain, runs, shown, edit, doubt, ops>>

\* applyOrdered: an uplink node is only given a snapshot, which may fail.
ApplySkips ==
    /\ op.pc = "apply"
    /\ op.left # << >> /\ Head(op.left) \in UplinkNodes
    /\ \/ op' = [op EXCEPT !.left = Tail(@)] /\ UNCHANGED failures
       \/ op' = [op EXCEPT !.pc = "undo"] /\ Failure
    /\ UNCHANGED <<chain, runs, shown, edit, doubt, ops>>

\* The Agent accepts; its row shows it (an error of this write is dropped).
ApplySucceeds ==
    /\ op.pc = "apply"
    /\ ~op.gone
    /\ op.left # << >>
    /\ LET n == Head(op.left) IN
       /\ n \in Push
       /\ runs' = [runs EXCEPT ![n] = NewPart(n)]
       /\ \/ /\ shown' = [shown EXCEPT ![n] = NewPart(n)]
             /\ doubt' = [doubt EXCEPT ![n] = "no"]
             /\ UNCHANGED failures
          \/ /\ Failure
             /\ doubt' = [doubt EXCEPT ![n] = "lost"]
             /\ UNCHANGED shown
       /\ op' = [op EXCEPT !.left = Tail(@), !.changed = Append(@, n)]
    /\ UNCHANGED <<chain, edit, ops>>

\* The call fails, before or after its effect. The node is not among the changed ones.
ApplyFails ==
    /\ op.pc = "apply"
    /\ op.left # << >> /\ Head(op.left) \in Push
    /\ \/ /\ op.gone /\ UNCHANGED <<runs, doubt, failures>>
       \/ /\ ~op.gone /\ Failure
          /\ \/ UNCHANGED <<runs, doubt>>
             \/ /\ runs' = [runs EXCEPT ![Head(op.left)] = NewPart(Head(op.left))]
                /\ doubt' = [doubt EXCEPT ![Head(op.left)] = "lost"]
    /\ op' = [op EXCEPT !.pc = "undo"]
    /\ UNCHANGED <<chain, shown, edit, ops>>

\* A row that does not show what the node runs, when a handler edited the chain during the
\* deployment: the tables may now ask what the row shows.
Overtaken(n) ==
    /\ op.pc # "idle"
    /\ <<chain.enabled, chain.hops>> # <<op.old.enabled, op.old.hops>>
    /\ runs[n] # shown[n]

Left(n) == IF doubt[n] = "lost" THEN "lost" ELSE "left"

\* MUTANT: a node that was given the old configuration back has a row that says so, also
\* when the call failed.
UndoSaves ==
    /\ op.pc = "undo"
    /\ op.changed # << >>
    /\ LET n == Last(op.changed) IN
       /\ \/ /\ ~op.gone
             /\ runs' = [runs EXCEPT ![n] = OldPart(n)]
             /\ UNCHANGED <<doubt, failures>>
          \/ /\ op.gone \/ Failure
             /\ op.gone => UNCHANGED failures
             /\ doubt' = [doubt EXCEPT ![n] = Left(n)]
             /\ UNCHANGED runs
       /\ shown' = [shown EXCEPT ![n] = OldPart(n)]
    /\ op' = [op EXCEPT !.changed = Front(@)]
    /\ UNCHANGED <<chain, edit, ops>>

\* MUTANT: the rollback stops before the first node that was changed.
UndoShort ==
    /\ op.pc = "undo"
    /\ Len(op.changed) > 1
    /\ LET n == Last(op.changed) IN
       /\ runs' = [runs EXCEPT ![n] = OldPart(n)]
       /\ doubt' = [doubt EXCEPT ![n] = "no"]
    /\ op' = [op EXCEPT !.changed = IF Len(@) = 2 THEN << >> ELSE Front(@)]
    /\ UNCHANGED <<chain, shown, edit, ops, failures>>

\* rollback: the changed nodes, the last one first; the first error does not stop it. The
\* rows of the nodes are left as they are.
Undoes ==
    /\ op.pc = "undo"
    /\ op.changed # << >>
    /\ LET n == Last(op.changed) IN
       \/ /\ ~op.gone
          /\ runs' = [runs EXCEPT ![n] = OldPart(n)]
          /\ doubt' = [doubt EXCEPT ![n] = "no"]
          /\ op' = [op EXCEPT !.changed = Front(@)]
          /\ UNCHANGED failures
       \/ /\ IF op.gone THEN UNCHANGED failures ELSE Failure
          /\ runs' \in {runs} \cup (IF op.gone THEN {} ELSE {[runs EXCEPT ![n] = OldPart(n)]})
          /\ doubt' = [doubt EXCEPT ![n] = Left(n)]
          /\ op' = [op EXCEPT !.changed = Front(@), !.torn = TRUE]
    /\ UNCHANGED <<chain, shown, edit, ops>>

\* The end of a rollback. Its error, if any, is written on the chain when an apply had
\* failed (op.left): the row is enabled as it was before the deployment, with hops edited
\* meanwhile, if they were. That write may fail as well.
UndoEnds ==
    /\ op.pc = "undo"
    /\ op.changed = << >>
    /\ op' = [op EXCEPT !.pc = "undone"]
    /\ doubt' = [n \in Nodes |-> IF Overtaken(n) THEN "lost" ELSE doubt[n]]
    /\ LET written == op.torn /\ op.left # << >> /\ chain.exists IN
       \/ /\ written
          /\ chain' = [chain EXCEPT !.enabled = op.old.enabled, !.state = "degraded"]
          /\ UNCHANGED failures
       \/ /\ IF written THEN Failure ELSE UNCHANGED failures
          /\ UNCHANGED chain
    /\ UNCHANGED <<runs, shown, edit, ops>>

\* UpdateProxyChain of Deploy. When it fails, when the hops are taken or the row is gone, the
\* deployment is undone.
Updates ==
    /\ op.pc = "apply" /\ op.enable
    /\ op.left = << >>
    /\ \/ /\ chain.exists
          /\ chain' = [exists |-> TRUE, enabled |-> TRUE, state |-> "degraded", hops |-> op.hops]
          /\ op' = [op EXCEPT !.pc = "runtime"]
          /\ UNCHANGED failures
       \/ /\ IF chain.exists THEN Failure ELSE UNCHANGED failures
          /\ op' = [op EXCEPT !.pc = "undo"]
          /\ UNCHANGED chain
    /\ UNCHANGED <<runs, shown, edit, doubt, ops>>

\* SetProxyChainRuntime, the last write of Deploy and the only one of Disable. When it fails
\* the caller is told so; the nodes keep what they were given.
Runtime ==
    /\ \/ op.pc = "runtime"
       \/ op.pc = "apply" /\ ~op.enable /\ op.left = << >>
    /\ \/ /\ chain.exists
          /\ chain' = [chain EXCEPT !.enabled = op.enable,
                                     !.state = IF op.enable THEN "degraded" ELSE "disabled"]
          /\ op' = [op EXCEPT !.pc = IF op.enable THEN "probe" ELSE "ok"]
          /\ UNCHANGED failures
       \/ /\ IF chain.exists THEN Failure ELSE UNCHANGED failures
          /\ op' = [op EXCEPT !.pc = "failed"]
          /\ UNCHANGED chain
    /\ UNCHANGED <<runs, shown, edit, doubt, ops>>

\* SetProxyChainProbe, WHERE enabled = 1.
Probed(ok) ==
    chain' = IF chain.enabled
             THEN [chain EXCEPT !.state = IF ok THEN "healthy" ELSE "degraded"] ELSE chain

\* ProbeLocked at the end of Deploy.
DeployProbes ==
    /\ op.pc = "probe"
    /\ \E ok \in BOOLEAN : Probed(ok)
    /\ op' = [op EXCEPT !.pc = "ok"]
    /\ UNCHANGED <<runs, shown, edit, doubt, ops, failures>>

\* The Coordinator is released.
DeployEnds ==
    /\ op.pc \in {"ok", "undone", "refused", "failed"}
    /\ op' = NoOp
    /\ UNCHANGED <<chain, runs, shown, edit, doubt, ops, failures>>

DeployStep ==
    /\ \/ Preflight \/ ApplySkips \/ ApplySucceeds \/ ApplyFails
       \/ Undoes \/ UndoEnds \/ Updates \/ Runtime \/ DeployProbes \/ DeployEnds
    /\ UNCHANGED waiting

-----------------------------------------------------------------------------
(* The handlers that do not hold the Coordinator.                          *)

\* CreateProxyChain, once nobody is at work with the one that was deleted, which had another
\* id.
CreateChain ==
    /\ ~chain.exists
    /\ op.pc = "idle" /\ waiting = None /\ edit = None
    /\ Op
    /\ \E h \in HopLists : chain' = [NoChain EXCEPT !.exists = TRUE, !.hops = h]
    /\ UNCHANGED <<runs, shown, op, edit, doubt, failures, waiting>>

\* handleUpdateProxyChain and DeleteProxyChain find the chain disabled ...
EditReads ==
    /\ edit = None
    /\ chain.exists /\ ~chain.enabled
    /\ Op
    /\ edit' \in (HopLists \X {"update"}) \cup {<<None, "delete">>}
    /\ UNCHANGED <<chain, runs, shown, op, doubt, failures, waiting>>

\* A node whose row does not show what it runs is in doubt: the tables may now ask what the
\* row shows.
Doubted == [n \in Nodes |-> IF runs[n] # shown[n] THEN "lost" ELSE doubt[n]]

\* ... and write: the row becomes that of a disabled chain ...
ReplaceWrites ==
    /\ edit # None /\ edit[2] = "update"
    /\ edit' = None
    /\ chain' = IF chain.exists
                THEN [exists |-> TRUE, enabled |-> FALSE, state |-> "disabled", hops |-> edit[1]]
                ELSE chain
    /\ doubt' = Doubted
    /\ UNCHANGED <<runs, shown, op, waiting, ops, failures>>

\* ... or is deleted.
DeleteWrites ==
    /\ edit # None /\ edit[2] = "delete"
    /\ edit' = None
    /\ chain' = NoChain
    /\ doubt' = Doubted
    /\ UNCHANGED <<runs, shown, op, waiting, ops, failures>>

-----------------------------------------------------------------------------
(* The other users of the configuration, and the process.                  *)

\* RunProbeLoop and handleProbeProxyChain.
ProbeLoop ==
    /\ op.pc = "idle"
    /\ chain.enabled
    /\ \E ok \in BOOLEAN : Probed(ok)
    /\ chain' # chain
    /\ UNCHANGED <<runs, shown, op, edit, doubt, ops, failures, waiting>>

\* The bootstrap loop applies to a node whose row shows another configuration.
LoopApplies(n) ==
    /\ op.pc = "idle"
    /\ n \in Push
    /\ shown[n] # Asked(n)
    /\ runs' = [runs EXCEPT ![n] = Asked(n)]
    /\ shown' = [shown EXCEPT ![n] = Asked(n)]
    /\ doubt' = [doubt EXCEPT ![n] = "no"]
    /\ UNCHANGED <<chain, op, edit, ops, failures, waiting>>

\* The config-sync of an uplink node.
UplinkSyncs(n) ==
    /\ op.pc = "idle"
    /\ n \in UplinkNodes
    /\ runs[n] # Asked(n)
    /\ runs' = [runs EXCEPT ![n] = Asked(n)]
    /\ shown' = [shown EXCEPT ![n] = Asked(n)]
    /\ UNCHANGED <<chain, op, edit, doubt, ops, failures, waiting>>

\* The Panel stops: a deployment ends where it is.
ChainsRestart ==
    /\ op # NoOp \/ edit # None \/ waiting # None
    /\ Failure
    /\ doubt' = [n \in Nodes |->
           IF Overtaken(n) THEN "lost"
           ELSE IF n \in ToSet(op.changed) /\ op.pc \in {"apply", "undo"} THEN Left(n)
           ELSE doubt[n]]
    /\ op' = NoOp
    /\ waiting' = None
    /\ edit' = None
    /\ UNCHANGED <<chain, runs, shown, ops>>

ChainNext ==
    \/ DeployAsks \/ DeployBegins \/ DisableBegins \/ GivenUp \/ DeployStep
    \/ CreateChain \/ EditReads \/ ReplaceWrites \/ DeleteWrites
    \/ ProbeLoop
    \/ \E n \in Nodes : LoopApplies(n) \/ UplinkSyncs(n)
    \/ ChainsRestart

\* A deployment goes on, the loop comes round, Agents fetch.
ChainFairness ==
    /\ WF_chainVars(DeployStep)
    /\ WF_chainVars(ReplaceWrites \/ DeleteWrites)
    /\ WF_chainVars(\E n \in Nodes : LoopApplies(n) \/ UplinkSyncs(n))

-----------------------------------------------------------------------------
\* All or nothing among the push nodes, whatever fails on the way and whoever edits or
\* deletes the chain meanwhile: when a deployment ends well each of its nodes runs its new
\* part; when it is rolled back each node runs what it ran before or the old part, but one
\* whose answer was lost or whose rollback failed; when the preflight refused it, no node
\* runs anything else than before. An error of the last write of the row is not rolled back
\* (service.go:163-165 and 200): the caller is told of an error, and yet every node runs its
\* new part ("failed").
DeployOutcome ==
    /\ op.pc \in {"ok", "failed"} => \A n \in Push \cap (ToSet(op.hops) \cup ToSet(op.old.hops)) :
                                       runs[n] = NewPart(n)
    /\ op.pc = "undone" => \A n \in Push :
           runs[n] \in {op.before[n], OldPart(n)} \/ doubt[n] # "no"
    /\ op.pc = "refused" => \A n \in Push : runs[n] = op.before[n]

\* Whatever a deployment leaves behind, and whoever edits the chain meanwhile, every node
\* comes to run what the tables ask of it. A push node whose row does not show what was
\* applied is the exception, because the answer or the write was lost (service.go:333-350)
\* or the chain was edited around a failing deployment (service.go:150).
Converged == \A n \in Nodes : runs[n] = Asked(n) \/ doubt[n] = "lost"
ChainsConverge == ~Converged ~> Converged
=============================================================================
