------------------------------ MODULE ConfigSync ------------------------------
(***************************************************************************)
(* How the configuration an operator edits on the Panel reaches one uplink   *)
(* node.  Two paths lead to the Agent's runtimes: the config-sync loop, which *)
(* compares hashes with what it remembers and pulls, and the live WebSocket,  *)
(* over which a certificate renewal pushes the node's configuration and a PUT *)
(* of the FRPS settings pushes those.  A configuration stands for its hash.   *)
(***************************************************************************)
EXTENDS Integers, FiniteSets

CONSTANTS
    Bases,        \* inbound settings of the node the operator chooses among
    Managed,      \* those with an inbound bound to the managed certificate
    FRPS,         \* FRPS settings the operator chooses among
    Enabled,      \* those that ask for a running server
    None,         \* no configuration, the empty hash
    MaxEdits,     \* bound: edits by the operator
    MaxRenewals   \* bound: renewals of the certificate

ASSUME SyncAssumption ==
    /\ Managed \subseteq Bases
    /\ Enabled \subseteq FRPS
    /\ None \notin FRPS
    /\ MaxEdits \in Nat
    /\ MaxRenewals \in Nat

VARIABLES
    base,       \* the node's inbounds and bindings
    desired,    \* nodes.desired_runtime
    frps,       \* frp_server_configs row, None before the first PUT
    putting,    \* PUTs of FRPS settings that are stored and not yet sent
    certSt,     \* protocol_certificates.status: "active", "renewing", "deploying", "retry_wait"
    gen,        \* generation of Active*
    staged,     \* Candidate* differs from Active* (hasStagedCandidate)
    deployer,   \* deployCandidate: "idle", "locked", "waiting", "applied" or "failed"
    live,       \* the Hub has a Conn of the node
    wire,       \* pushes on their way to the Agent
    pc,         \* syncConfig: "idle", "head", "post", "config", "note", "frps", "align"
    seen,       \* desired_runtime the request's authentication has read
    resp,       \* response of the Panel that syncConfig works on
    configHash, frpsHash, \* what syncConfig remembers
    resting,    \* now is before nextConfigTry
    box,        \* BoxRuntime: configuration and whether the instance runs
    frpsRt,     \* frpsruntime: settings; whether they are served is left out
    frpsDisk,   \* frps-current.json
    drifted,    \* history: runtimes whose configuration was last set by a push or
                \* by an apply that failed, which syncConfig does not remember
    edits,      \* edits so far
    calm        \* the environment: edits and faults have come to an end

panelVars == <<base, desired, frps, putting, edits>>
certVars == <<certSt, gen, staged, deployer>>
linkVars == <<live, wire, calm>>
syncVars == <<pc, seen, resp, configHash, frpsHash, resting>>
runtimeVars == <<box, frpsRt, frpsDisk, drifted>>
vars == <<panelVars, certVars, linkVars, syncVars, runtimeVars>>

Config == [base : Bases, gen : 0 .. MaxRenewals + 1]
Box == [cfg : Config \cup {None}, on : BOOLEAN]
Push == [to : {"box"}, val : Config, awaited : BOOLEAN]
        \cup [to : {"frps"}, val : FRPS, awaited : {FALSE}]
Runs == {"running", "stopped"}
Resp == [cfg : Config \cup {None}, frps : FRPS \cup {None}, run : Runs]
NoResp == [cfg |-> None, frps |-> None, run |-> "running"]

(***************************************************************************)
(* The configuration the Panel builds.                                     *)
(***************************************************************************)

\* applyManagedTLSBinding refuses a certificate that is not active or deploying.
Buildable == base \in Managed => certSt \in {"active", "deploying"}

\* Mutant: the candidate is overlaid whatever the status.
BuildCandidateAlways ==
    [base |-> base, gen |-> IF base \notin Managed THEN 0 ELSE gen + 1]

\* Builder.Build: a deploying certificate is overlaid with its candidate.
Build ==
    [base |-> base,
     gen |-> IF base \notin Managed THEN 0
             ELSE IF certSt = "deploying" THEN gen + 1 ELSE gen]

\* The node starts converged, with a certificate of generation 1 and no FRPS row.
Init ==
    /\ base \in Bases
    /\ desired = "running"
    /\ frps = None
    /\ putting = {}
    /\ certSt = "active"
    /\ gen = 1
    /\ staged = FALSE
    /\ deployer = "idle"
    /\ live = TRUE
    /\ wire = {}
    /\ pc = "idle"
    /\ seen = "running"
    /\ resp = NoResp
    /\ configHash = Build
    /\ frpsHash = None
    /\ resting = FALSE
    /\ box = [cfg |-> Build, on |-> TRUE]
    /\ frpsRt = None
    /\ frpsDisk = None
    /\ drifted = {}
    /\ edits = 0
    /\ calm = FALSE

(***************************************************************************)
(* The operator.                                                           *)
(***************************************************************************)

\* An edit of inbounds or bindings; binding needs an active certificate.
EditBase(b) ==
    /\ ~calm
    /\ edits < MaxEdits
    /\ b # base
    /\ b \in Managed => certSt = "active"
    /\ base' = b
    /\ edits' = edits + 1
    /\ UNCHANGED <<desired, frps, putting, certVars, linkVars, syncVars, runtimeVars>>

\* finishUplinkIntent: start and stop only record the intent.
EditDesired ==
    /\ ~calm
    /\ edits < MaxEdits
    /\ \E r \in Runs \ {desired} : desired' = r
    /\ edits' = edits + 1
    /\ UNCHANGED <<base, frps, putting, certVars, linkVars, syncVars, runtimeVars>>

\* handlePutNodeFRPS stores the settings ...
PutFRPS(f) ==
    /\ ~calm
    /\ edits < MaxEdits
    /\ f # frps
    /\ frps' = f
    /\ putting' = putting \cup {f}
    /\ edits' = edits + 1
    /\ UNCHANGED <<base, desired, certVars, linkVars, syncVars, runtimeVars>>

\* ... and applies them over the socket if there is one.  Its answer only updates
\* the displayed state.
SendFRPS(f) ==
    /\ f \in putting
    /\ putting' = putting \ {f}
    /\ wire' = IF live THEN wire \cup {[to |-> "frps", val |-> f, awaited |-> FALSE]} ELSE wire
    /\ UNCHANGED <<base, desired, frps, edits, certVars, live, calm, syncVars, runtimeVars>>

(***************************************************************************)
(* Renewal of the managed certificate (certmanager.Issue).                 *)
(***************************************************************************)

\* A due certificate; without a socket Issue fails at once.  A staged candidate
\* goes straight to its deployment.
RenewStarts ==
    /\ deployer = "idle"
    /\ certSt \in {"active", "retry_wait"}
    /\ gen <= MaxRenewals
    /\ IF ~live
       THEN certSt' = "retry_wait" /\ UNCHANGED <<deployer, staged>>
       ELSE IF staged
            THEN deployer' = "locked" /\ UNCHANGED <<certSt, staged>>
            ELSE certSt' = "renewing" /\ UNCHANGED <<deployer, staged>>
    /\ UNCHANGED <<panelVars, gen, linkVars, syncVars, runtimeVars>>

\* Authorization, issuance and installation: the candidate is staged.
CertificateInstalled ==
    /\ certSt = "renewing"
    /\ deployer = "idle"
    /\ staged' = TRUE
    /\ deployer' = "locked"
    /\ UNCHANGED <<panelVars, certSt, gen, linkVars, syncVars, runtimeVars>>

RenewalFails ==
    /\ ~calm
    /\ certSt = "renewing"
    /\ deployer = "idle"
    /\ certSt' = "retry_wait"
    /\ UNCHANGED <<panelVars, gen, staged, deployer, linkVars, syncVars, runtimeVars>>

\* deployCandidate: an unbound certificate becomes active; a bound one is marked
\* deploying, and the configuration is built and pushed under the Coordinator.
DeployPushes ==
    /\ deployer = "locked"
    /\ IF base \notin Managed
       THEN deployer' = "applied" /\ UNCHANGED <<certSt, wire>>
       ELSE /\ certSt' = "deploying"
            /\ deployer' = IF live THEN "waiting" ELSE "failed"
            /\ wire' = IF live
                       THEN wire \cup {[to |-> "box", val |-> [base |-> base, gen |-> gen + 1],
                                        awaited |-> TRUE]}
                       ELSE wire
    /\ UNCHANGED <<panelVars, gen, staged, live, calm, syncVars, runtimeVars>>

\* No answer in time, or the socket went away; the push may still arrive.
DeployTimesOut ==
    /\ deployer = "waiting"
    /\ calm => \A m \in wire : ~m.awaited
    /\ deployer' = "failed"
    /\ wire' = {[m EXCEPT !.awaited = FALSE] : m \in wire}
    /\ UNCHANGED <<panelVars, certSt, gen, staged, live, calm, syncVars, runtimeVars>>

\* Issue stores the outcome after deployCandidate has released the Coordinator.
DeploySettles ==
    /\ deployer \in {"applied", "failed"}
    /\ IF deployer = "applied"
       THEN certSt' = "active" /\ gen' = gen + 1 /\ staged' = FALSE
       ELSE certSt' = "retry_wait" /\ UNCHANGED <<gen, staged>>
    /\ deployer' = "idle"
    /\ UNCHANGED <<panelVars, linkVars, syncVars, runtimeVars>>

(***************************************************************************)
(* The Agent's runtimes.                                                   *)
(***************************************************************************)

\* BoxRuntime.applyLocked: the box afterwards and whether Apply succeeded.  A
\* configuration already running is left alone; one that does not parse changes
\* nothing; one that does not start is replaced by the previous one, or by none.
BoxApply(c) ==
    IF box = [cfg |-> c, on |-> TRUE]
    THEN {[box |-> box, ok |-> TRUE]}
    ELSE {[box |-> [cfg |-> c, on |-> TRUE], ok |-> TRUE]}
         \cup IF calm THEN {}
              ELSE {[box |-> box, ok |-> FALSE],
                    [box |-> [box EXCEPT !.on = (box.cfg \notin {None, c})], ok |-> FALSE],
                    [box |-> [box EXCEPT !.on = FALSE], ok |-> FALSE]}

\* frpsruntime.applyLocked: the settings afterwards, the file, and whether Apply
\* succeeded.  A server that does not come up gives way to the previous one, if
\* that was enabled; otherwise the runtime may keep the settings that failed.  The
\* file may fail to be written, which counts as a failure for disabled settings.
FRPSApply(f) ==
    LET to(rt, disk, ok) == [rt |-> rt, disk |-> disk, ok |-> ok]
    IN  IF calm THEN {to(f, f, TRUE)}
        ELSE IF f \notin Enabled THEN {to(f, f, TRUE), to(f, frpsDisk, FALSE)}
        ELSE {to(f, f, TRUE), to(f, frpsDisk, TRUE), to(frpsRt, frpsDisk, FALSE)}
             \cup IF frpsRt \in Enabled THEN {} ELSE {to(f, frpsDisk, FALSE)}

\* A pushed ApplyConfig is handled; its answer finds the deployer or nobody.
PushedConfig(m) ==
    /\ m.to = "box"
    /\ wire' = wire \ {m}
    /\ \E r \in BoxApply(m.val) :
        /\ box' = r.box
        /\ drifted' = IF r.ok THEN drifted \cup {"box"} ELSE drifted
        /\ deployer' = IF ~m.awaited THEN deployer
                       ELSE IF r.ok THEN "applied" ELSE "failed"
    /\ UNCHANGED <<panelVars, certSt, gen, staged, live, calm, syncVars, frpsRt, frpsDisk>>

\* A pushed ApplyFRPServerConfig is handled.
PushedFRPS(m) ==
    /\ m.to = "frps"
    /\ wire' = wire \ {m}
    /\ \E r \in FRPSApply(m.val) :
        /\ frpsRt' = r.rt
        /\ frpsDisk' = r.disk
        /\ drifted' = drifted \cup {"frps"}
    /\ UNCHANGED <<panelVars, certVars, live, calm, syncVars, box>>

\* The socket goes away with the pushes on it, and comes back.
LinkDown ==
    /\ live
    /\ ~calm
    /\ live' = FALSE
    /\ wire' = {}
    /\ UNCHANGED <<panelVars, certVars, calm, syncVars, runtimeVars>>

LinkUp ==
    /\ ~live
    /\ live' = TRUE
    /\ UNCHANGED <<panelVars, certVars, wire, calm, syncVars, runtimeVars>>

\* The Agent process restarts: the sing-box configuration and the remembered
\* hashes are gone; frpsruntime.Restore brings back what was saved, or fails.
AgentRestart ==
    /\ ~calm
    /\ live' = FALSE
    /\ wire' = {}
    /\ pc' = "idle"
    /\ seen' = "running"
    /\ resp' = NoResp
    /\ configHash' = None
    /\ frpsHash' = None
    /\ resting' = FALSE
    /\ box' = [cfg |-> None, on |-> FALSE]
    /\ frpsRt' \in {frpsDisk, None}
    /\ drifted' = {}
    /\ UNCHANGED <<panelVars, certVars, calm, frpsDisk>>

\* From here on the operator rests, and requests and applies succeed.
CalmDown ==
    /\ ~calm
    /\ calm' = TRUE
    /\ UNCHANGED <<panelVars, certVars, live, wire, syncVars, runtimeVars>>

(***************************************************************************)
(* The Agent's syncConfig.                                                 *)
(***************************************************************************)

\* agentDesiredConfig waits for the Coordinator, which a deployment holds.
CoordinatorFree == deployer # "waiting"

\* A request is authenticated, which reads desired_runtime.
Asks(next) == pc' = next /\ seen' = desired

\* syncConfig returns; its local variables are gone.
SyncEnds == pc' = "idle" /\ seen' = "running" /\ resp' = NoResp

SyncFails == SyncEnds /\ resting' = TRUE

\* The ticker fires and the HEAD is sent.
SyncStarts ==
    /\ pc = "idle"
    /\ ~resting
    /\ Asks("head")
    /\ UNCHANGED <<panelVars, certVars, linkVars, resp, configHash, frpsHash, resting,
                   runtimeVars>>

\* HEAD: with both hashes unchanged only the run state is aligned.
SyncHead ==
    /\ pc = "head"
    /\ CoordinatorFree
    /\ IF Buildable /\ Build = configHash /\ frps = frpsHash
       THEN /\ pc' = "align"
            /\ resp' = [cfg |-> None, frps |-> None, run |-> seen]
            /\ UNCHANGED seen
       ELSE Asks("post") /\ UNCHANGED resp
    /\ UNCHANGED <<panelVars, certVars, linkVars, configHash, frpsHash, resting, runtimeVars>>

\* HEAD fails on the network.
SyncHeadLost ==
    /\ ~calm
    /\ pc = "head"
    /\ Asks("post")
    /\ UNCHANGED <<panelVars, certVars, linkVars, resp, configHash, frpsHash, resting,
                   runtimeVars>>

\* Mutant: any difference resends only the sing-box configuration.
SyncPostConfigOnly ==
    /\ pc = "post"
    /\ CoordinatorFree
    /\ IF ~Buildable
       THEN SyncFails
       ELSE /\ pc' = "config"
            /\ resp' = [cfg |-> IF Build = configHash THEN None ELSE Build,
                        frps |-> None,
                        run |-> seen]
            /\ UNCHANGED <<seen, resting>>
    /\ UNCHANGED <<panelVars, certVars, linkVars, configHash, frpsHash, runtimeVars>>

\* POST (handleAgentConfigSync): what differs from the remembered hashes.
SyncPost ==
    /\ pc = "post"
    /\ CoordinatorFree
    /\ IF ~Buildable
       THEN SyncFails
       ELSE /\ pc' = "config"
            /\ resp' = [cfg |-> IF Build = configHash THEN None ELSE Build,
                        frps |-> IF frps = frpsHash THEN None ELSE frps,
                        run |-> seen]
            /\ UNCHANGED <<seen, resting>>
    /\ UNCHANGED <<panelVars, certVars, linkVars, configHash, frpsHash, runtimeVars>>

\* POST fails on the network.
SyncPostLost ==
    /\ ~calm
    /\ pc = "post"
    /\ SyncFails
    /\ UNCHANGED <<panelVars, certVars, linkVars, configHash, frpsHash, runtimeVars>>

\* Mutant: an apply that failed is remembered like one that succeeded.
SyncConfigNotesFailure ==
    /\ pc = "config"
    /\ IF resp.cfg = None
       THEN pc' = "frps" /\ UNCHANGED <<box, drifted, seen, resp, resting>>
       ELSE \E r \in BoxApply(resp.cfg) :
            /\ box' = r.box
            /\ drifted' = IF r.ok THEN drifted \ {"box"} ELSE drifted
            /\ pc' = "note"
            /\ UNCHANGED <<seen, resp, resting>>
    /\ UNCHANGED <<panelVars, certVars, linkVars, configHash, frpsHash, frpsRt, frpsDisk>>

\* applySync: ApplyConfig, when the response carries a configuration.
SyncConfig ==
    /\ pc = "config"
    /\ IF resp.cfg = None
       THEN pc' = "frps" /\ UNCHANGED <<box, drifted, seen, resp, resting>>
       ELSE \E r \in BoxApply(resp.cfg) :
            /\ box' = r.box
            /\ drifted' = IF r.ok THEN drifted \ {"box"} ELSE drifted
            /\ IF r.ok
               THEN pc' = "note" /\ UNCHANGED <<seen, resp, resting>>
               ELSE SyncFails
    /\ UNCHANGED <<panelVars, certVars, linkVars, configHash, frpsHash, frpsRt, frpsDisk>>

\* applySync: the applied hash is remembered; a push may have come in between.
SyncNotes ==
    /\ pc = "note"
    /\ configHash' = resp.cfg
    /\ pc' = "frps"
    /\ UNCHANGED <<panelVars, certVars, linkVars, seen, resp, frpsHash, resting, runtimeVars>>

\* applySync: ApplyFRPServerConfig and its hash, when the response carries one.
SyncFRPS ==
    /\ pc = "frps"
    /\ IF resp.frps = None
       THEN /\ pc' = "align"
            /\ UNCHANGED <<frpsRt, frpsDisk, drifted, frpsHash, seen, resp, resting>>
       ELSE \E r \in FRPSApply(resp.frps) :
            /\ frpsRt' = r.rt
            /\ frpsDisk' = r.disk
            /\ IF r.ok
               THEN /\ pc' = "align"
                    /\ frpsHash' = resp.frps
                    /\ drifted' = drifted \ {"frps"}
                    /\ UNCHANGED <<seen, resp, resting>>
               ELSE /\ SyncFails
                    /\ drifted' = drifted \cup {"frps"}
                    /\ UNCHANGED frpsHash
    /\ UNCHANGED <<panelVars, certVars, linkVars, configHash, box>>

\* applySync: the run state.  A Start that fails is answered with Ok = false and
\* no error, which applySync does not look at.
SyncAligns ==
    /\ pc = "align"
    /\ IF resp.run = "stopped"
       THEN box' = [box EXCEPT !.on = FALSE]
       ELSE IF box.on \/ box.cfg = None
            THEN UNCHANGED box
            ELSE \E r \in BoxApply(box.cfg) : box' = r.box
    /\ SyncEnds
    /\ UNCHANGED <<panelVars, certVars, linkVars, configHash, frpsHash, resting,
                   frpsRt, frpsDisk, drifted>>

\* nextConfigTry has passed.
RestOver ==
    /\ resting
    /\ resting' = FALSE
    /\ UNCHANGED <<panelVars, certVars, linkVars, pc, seen, resp, configHash, frpsHash,
                   runtimeVars>>

SyncStep ==
    \/ SyncStarts \/ SyncHead \/ SyncHeadLost \/ SyncPost \/ SyncPostLost
    \/ SyncConfig \/ SyncNotes \/ SyncFRPS \/ SyncAligns \/ RestOver

Next ==
    \/ \E b \in Bases : EditBase(b)
    \/ EditDesired
    \/ \E f \in FRPS : PutFRPS(f) \/ SendFRPS(f)
    \/ RenewStarts \/ CertificateInstalled \/ RenewalFails
    \/ DeployPushes \/ DeployTimesOut \/ DeploySettles
    \/ \E m \in wire : PushedConfig(m) \/ PushedFRPS(m)
    \/ LinkDown \/ LinkUp \/ AgentRestart \/ CalmDown
    \/ SyncStep

Spec == Init /\ [][Next]_vars

(***************************************************************************)
(* Fairness.  The loops and handlers run on, the Agent dials again, and some *)
(* day edits and faults come to an end; until then any number of requests,   *)
(* renewals and applies may fail.                                           *)
(***************************************************************************)
Fairness ==
    /\ WF_vars(CalmDown)
    /\ WF_vars(SyncStep)
    /\ WF_vars(LinkUp)
    /\ \A f \in FRPS : WF_vars(SendFRPS(f))
    /\ WF_vars(\E m \in wire : PushedConfig(m) \/ PushedFRPS(m))
    /\ WF_vars(RenewStarts)
    /\ WF_vars(CertificateInstalled)
    /\ WF_vars(DeployPushes)
    /\ WF_vars(DeployTimesOut)
    /\ WF_vars(DeploySettles)

FairSpec == Spec /\ Fairness

-----------------------------------------------------------------------------
(***************************************************************************)
(* Properties.                                                             *)
(***************************************************************************)

\* Every variable keeps its type.
TypeOK ==
    /\ base \in Bases
    /\ desired \in Runs
    /\ frps \in FRPS \cup {None}
    /\ putting \in SUBSET FRPS
    /\ certSt \in {"active", "renewing", "deploying", "retry_wait"}
    /\ gen \in 1 .. MaxRenewals + 1
    /\ staged \in BOOLEAN
    /\ deployer \in {"idle", "locked", "waiting", "applied", "failed"}
    /\ live \in BOOLEAN
    /\ wire \in SUBSET Push
    /\ pc \in {"idle", "head", "post", "config", "note", "frps", "align"}
    /\ seen \in Runs
    /\ resp \in Resp
    /\ configHash \in Config \cup {None}
    /\ frpsHash \in FRPS \cup {None}
    /\ resting \in BOOLEAN
    /\ box \in Box
    /\ frpsRt \in FRPS \cup {None}
    /\ frpsDisk \in FRPS \cup {None}
    /\ drifted \in SUBSET {"box", "frps"}
    /\ edits \in 0 .. MaxEdits
    /\ calm \in BOOLEAN

\* What syncConfig remembers is what runs: a remembered hash is the runtime's own,
\* unless a push or a failed apply has come in since, or the apply is not noted yet.
RememberedRuns ==
    /\ configHash # None /\ "box" \notin drifted /\ pc # "note" => box.cfg = configHash
    /\ frpsHash # None /\ "frps" \notin drifted => frpsRt = frpsHash

\* The box runs what the Panel wants.
BoxConverged == Buildable /\ box = [cfg |-> Build, on |-> desired = "running"]

\* Once the operator rests, the Agent ends up with the desired configuration, FRPS
\* settings and run state, across lost requests, failed applies, renewals and
\* restarts - except for a runtime that drifted away from what syncConfig
\* remembers (the convergence of docs/agent-uplink.md).
ConvergesUnlessDrifted ==
    <>[](/\ BoxConverged \/ "box" \in drifted
         /\ frpsRt = frps \/ "frps" \in drifted)

\* What handlePutNodeFRPS relies on ("the uplink node applies FRPS via config-sync;
\* just persist and return"): the FRPS settings stored last end up on the Agent.
FRPSConverges == <>[](frpsRt = frps)
=============================================================================
