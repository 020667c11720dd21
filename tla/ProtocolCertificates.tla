------------------------- MODULE ProtocolCertificates -------------------------
(***************************************************************************)
(* The life of one managed protocol certificate: its row                   *)
(* (panel/internal/store/certificates.go), the executions of               *)
(* certificate.issue (panel/internal/certmanager/service.go) that the job  *)
(* table of AutomationJobs starts, the generations on the Agent's disk     *)
(* (agent/internal/protocolcert/manager.go), and the binding of an inbound. *)
(*                                                                         *)
(* A generation is a number, r1, r2, ... in the code; 0 stands for an empty *)
(* path. Issue reads the row once and writes the whole row several times:  *)
(* each execution works on its copy.                                       *)
(*                                                                         *)
(* Abstracted: ACME and DNS-01 (an order succeeds or fails), the times of  *)
(* renewal (an active certificate may be due at any moment), the           *)
(* rest of the node's configuration, which is always buildable, and what   *)
(* the Agent runs, which is the matter of ConfigSync.                      *)
(***************************************************************************)
EXTENDS AutomationJobs

CONSTANTS
    MaxGen          \* bound: a certificate active at this generation is not renewed

ASSUME GenAssumption == MaxGen \in Nat \ {0}

VARIABLES
    cert,           \* the row in protocol_certificates
    copy,           \* copy[w]: the row as the execution of w read and changed it
    step,           \* step[w]: program counter of the execution
    key,            \* privkey.pem of each generation: "none", "torn", "ok"
    chain,          \* chain[g]: fullchain.pem of generation g is on disk
    bound,          \* an inbound of the node is bound to the certificate
    lock,           \* the holder of the Coordinator, or None
    created,        \* the create handler: "row" (inserted, not yet enqueued), "done"
    calm            \* no faults, edits or operators from now on

certVars == <<cert, copy, step, key, chain, bound, lock, created, calm>>
vars == <<jobVars, certVars>>

Gens == 1 .. MaxGen
Statuses == {"absent", "pending", "authorizing", "installing", "deploying", "active", "retry_wait"}
Row == [status : Statuses, cand : 0 .. MaxGen, active : 0 .. MaxGen, rev : 0 .. MaxGen]
Steps == {"idle", "read", "prepare", "order", "install", "deploy",
          "lock", "push", "settle", "fail", "success", "retry_wait"}

NewRow(status) == [status |-> status, cand |-> 0, active |-> 0, rev |-> 0]

TypeOK ==
    /\ JobsTypeOK
    /\ cert \in Row
    /\ copy \in [Workers -> Row]
    /\ step \in [Workers -> Steps]
    /\ key \in [Gens -> {"none", "torn", "ok"}]
    /\ chain \in [Gens -> BOOLEAN]
    /\ bound \in BOOLEAN
    /\ lock \in Workers \cup {None}
    /\ created \in {"row", "done"}
    /\ calm \in BOOLEAN
    /\ \A w \in Workers : step[w] = "idle" <=> held[w] = None

\* CreateProtocolCertificate has just inserted the row.
Init ==
    /\ JobsInit
    /\ cert = NewRow("pending")
    /\ copy = [w \in Workers |-> NewRow("absent")]
    /\ step = [w \in Workers |-> "idle"]
    /\ key = [g \in Gens |-> "none"]
    /\ chain = [g \in Gens |-> FALSE]
    /\ bound = FALSE
    /\ lock = None
    /\ created = "row"
    /\ calm = FALSE

-----------------------------------------------------------------------------
(* Shared operators.                                                       *)

\* UpdateProtocolCertificate writes every column of the caller's copy; the row
\* of a deleted certificate does not come back.
Updated(row) == IF cert.status = "absent" THEN cert ELSE row

\* ListProtocolCertificatesDue: an active certificate may be due at any time.
\* Bound: that of the last generation is never due.
Due == \/ cert.status = "active" /\ cert.cand < MaxGen
       \/ cert.status = "retry_wait"

\* hasStagedCandidate.
HasStagedCandidate(row) == row.cand # 0 /\ row.cand # row.active

\* The generation that applyManagedTLSBinding overlays, 0 if the build is refused.
Overlaid ==
    IF cert.status \notin {"active", "deploying"} \/ cert.active = 0 THEN 0
    ELSE IF cert.status = "deploying" THEN cert.cand
    ELSE cert.active

\* generationID in Issue.
NextGen(row) == row.rev + 1

\* What sing-box accepts: it opens the certificate files when it starts.
Loadable(g) == key[g] = "ok" /\ chain[g]
Buildable == Overlaid # 0 /\ Loadable(Overlaid)

\* The execution goes on at s, or fails, with its copy changed.
Goes(w, s) == step' = [step EXCEPT ![w] = s]

\* Operators, restarts, failures and lost leases. Bound: none after two executions have overlapped.
Disturbed == ~calm /\ ~overlapped

jobsKept == UNCHANGED jobVars
agentKept == UNCHANGED <<key, chain>>
adminKept == UNCHANGED <<bound, created, calm>>

-----------------------------------------------------------------------------
(* Issue, executed by w.                                                   *)

\* GetProtocolCertificate: a certificate that is gone fails the job and nothing else.
\* With a staged candidate only the deployment is repeated. Otherwise the domain may not be
\* ready, the ACME account not active, or the Agent out of reach or too old.
\* Bound: at the last generation the execution ends at once.
IssueReads(w) ==
    /\ step[w] = "read"
    /\ copy' = [copy EXCEPT ![w] = cert]
    /\ \/ cert.status = "absent" /\ Goes(w, "retry_wait")
       \/ cert.status = "active" /\ cert.rev = MaxGen /\ Goes(w, "success")
       \/ /\ cert.status # "absent"
          /\ ~(cert.status = "active" /\ cert.rev = MaxGen)
          /\ \/ Goes(w, IF HasStagedCandidate(cert) THEN "deploy" ELSE "prepare")
             \/ Disturbed /\ Goes(w, "fail")
    /\ jobsKept /\ agentKept /\ adminKept
    /\ UNCHANGED <<cert, lock>>

\* Manager.Prepare: loadOrCreateKey uses the key it finds and creates it
\* otherwise; the Agent may stop between the creation of the file and its sync.
KeyAfterPrepare(g, k) ==
    \/ key[g] = "none" /\ k \in {"ok", "torn"}
    \/ key[g] # "none" /\ k = key[g]

\* PrepareProtocolCertificate is answered, and the row says "authorizing".
IssuePrepares(w) ==
    LET g == NextGen(copy[w])
        row == [copy[w] EXCEPT !.status = "authorizing"]
    IN  /\ step[w] = "prepare"
        /\ g \in Gens
        /\ KeyAfterPrepare(g, "ok")
        /\ key' = [key EXCEPT ![g] = "ok"]
        /\ copy' = [copy EXCEPT ![w] = row]
        /\ cert' = Updated(row)
        /\ Goes(w, IF cert.status = "absent" THEN "fail" ELSE "order")
        /\ jobsKept /\ adminKept
        /\ UNCHANGED <<chain, lock>>

\* The call fails: it never arrived, its answer is lost, the Agent stopped while it
\* wrote the key, or it found such a key (parseKey).
IssuePrepareFails(w) ==
    LET g == NextGen(copy[w])
    IN  /\ step[w] = "prepare"
        /\ g \in Gens
        /\ Disturbed \/ key[g] = "torn"
        /\ \E k \in {"none", "torn", "ok"} :
               /\ k = key[g] \/ (Disturbed /\ KeyAfterPrepare(g, k))
               /\ key' = [key EXCEPT ![g] = k]
        /\ Goes(w, "fail")
        /\ jobsKept /\ adminKept
        /\ UNCHANGED <<cert, copy, chain, lock>>

\* The ACME order is issued for the CSR, and the row says "installing".
IssueOrders(w) ==
    LET row == [copy[w] EXCEPT !.status = "installing"]
    IN  /\ step[w] = "order"
        /\ copy' = [copy EXCEPT ![w] = row]
        /\ cert' = Updated(row)
        /\ Goes(w, IF cert.status = "absent" THEN "fail" ELSE "install")
        /\ jobsKept /\ agentKept /\ adminKept
        /\ UNCHANGED lock

IssueOrderFails(w) ==
    /\ step[w] = "order"
    /\ Disturbed
    /\ Goes(w, "fail")
    /\ jobsKept /\ agentKept /\ adminKept
    /\ UNCHANGED <<cert, copy, lock>>

\* Manager.Install wants the key the CSR was made with; the copy, not yet the row,
\* gets the candidate and the renewal time of the new certificate.
IssueInstalls(w) ==
    LET g == NextGen(copy[w])
    IN  /\ step[w] = "install"
        /\ key[g] = "ok"
        /\ chain' = [chain EXCEPT ![g] = TRUE]
        /\ copy' = [copy EXCEPT ![w].cand = g]
        /\ Goes(w, "deploy")
        /\ jobsKept /\ adminKept
        /\ UNCHANGED <<cert, key, lock>>

\* MUTANT: the candidate is recorded before the call.
IssueInstallFailsRecorded(w) ==
    LET g == NextGen(copy[w])
    IN  /\ step[w] = "install"
        /\ Disturbed \/ key[g] # "ok"
        /\ copy' = [copy EXCEPT ![w].cand = g]
        /\ Goes(w, "fail")
        /\ jobsKept /\ agentKept /\ adminKept
        /\ UNCHANGED <<cert, lock>>

\* The call fails, before or after its effect.
IssueInstallFails(w) ==
    LET g == NextGen(copy[w])
    IN  /\ step[w] = "install"
        /\ Disturbed \/ key[g] # "ok"
        /\ \E effect \in BOOLEAN :
               /\ effect => key[g] = "ok"
               /\ chain' = [chain EXCEPT ![g] = @ \/ effect]
        /\ Goes(w, "fail")
        /\ jobsKept /\ adminKept
        /\ UNCHANGED <<cert, copy, key, lock>>

\* The candidate becomes the active generation of the copy.
Promoted(row) == [row EXCEPT !.active = row.cand, !.rev = NextGen(row), !.status = "active"]

\* deployCandidate without a binding.
IssueSkipsDeploy(w) ==
    /\ step[w] = "deploy"
    /\ ~bound
    /\ copy' = [copy EXCEPT ![w] = Promoted(@)]
    /\ Goes(w, "settle")
    /\ jobsKept /\ agentKept /\ adminKept
    /\ UNCHANGED <<cert, lock>>

\* deployCandidate with one: it waits for the Coordinator ...
IssueWaits(w) ==
    /\ step[w] = "deploy"
    /\ bound
    /\ Goes(w, "lock")
    /\ jobsKept /\ agentKept /\ adminKept
    /\ UNCHANGED <<cert, copy, lock>>

\* ... and the row says "deploying".
IssueLocks(w) ==
    LET row == [copy[w] EXCEPT !.status = "deploying"]
    IN  /\ step[w] = "lock"
        /\ lock = None
        /\ copy' = [copy EXCEPT ![w] = row]
        /\ cert' = Updated(row)
        /\ IF cert.status = "absent"
           THEN Goes(w, "fail") /\ UNCHANGED lock
           ELSE Goes(w, "push") /\ lock' = w
        /\ jobsKept /\ agentKept /\ adminKept

\* Build and ApplyConfig succeed; a binding removed meanwhile leaves nothing to overlay.
IssueDeploys(w) ==
    /\ step[w] = "push"
    /\ bound => Buildable
    /\ copy' = [copy EXCEPT ![w] = Promoted(@)]
    /\ lock' = None
    /\ Goes(w, "settle")
    /\ jobsKept /\ adminKept
    /\ UNCHANGED <<cert, key, chain>>

\* The build is refused, or the call fails before or after its effect.
IssueDeployFails(w) ==
    /\ step[w] = "push"
    /\ Disturbed \/ (bound /\ ~Buildable)
    /\ lock' = None
    /\ Goes(w, "fail")
    /\ jobsKept /\ adminKept
    /\ UNCHANGED <<cert, copy, key, chain>>

\* The last write of Issue, after the Coordinator has been left.
IssueSettles(w) ==
    /\ step[w] = "settle"
    /\ \/ /\ cert' = Updated(copy[w])
          /\ Goes(w, IF cert.status = "absent" THEN "fail" ELSE "success")
       \/ Disturbed /\ UNCHANGED cert /\ Goes(w, "fail")
    /\ jobsKept /\ agentKept /\ adminKept
    /\ UNCHANGED <<copy, lock>>

\* MUTANT: the deferred function writes nothing and the job is settled as a success.
IssueFailsSilently(w) ==
    /\ step[w] = "fail"
    /\ Goes(w, "success")
    /\ jobsKept /\ agentKept /\ adminKept
    /\ UNCHANGED <<cert, copy, lock>>

\* MUTANT: the deferred function starts again from an empty row.
IssueFailsCleared(w) ==
    /\ step[w] = "fail"
    /\ cert' = Updated(NewRow("retry_wait"))
    /\ Goes(w, "retry_wait")
    /\ jobsKept /\ agentKept /\ adminKept
    /\ UNCHANGED <<copy, lock>>

\* The deferred function of Issue: whatever failed, the whole copy is written with
\* "retry_wait"; an error of this write is dropped.
IssueFails(w) ==
    LET row == [copy[w] EXCEPT !.status = "retry_wait"]
    IN  /\ step[w] = "fail"
        /\ copy' = [copy EXCEPT ![w] = row]
        /\ \/ cert' = Updated(row)
           \/ Disturbed /\ UNCHANGED cert
        /\ Goes(w, "retry_wait")
        /\ jobsKept /\ agentKept /\ adminKept
        /\ UNCHANGED lock

\* execute settles the job.
IssueEnds(w) ==
    /\ step[w] \in {"success", "retry_wait"}
    /\ \/ Finish(w, step[w])
       \/ Disturbed /\ FinishFails(w)
    /\ Goes(w, "idle")
    /\ copy' = [copy EXCEPT ![w] = NewRow("absent")]
    /\ agentKept /\ adminKept
    /\ UNCHANGED <<cert, lock>>

IssueStep(w) ==
    \/ IssueReads(w) \/ IssuePrepares(w) \/ IssuePrepareFails(w)
    \/ IssueOrders(w) \/ IssueOrderFails(w)
    \/ IssueInstalls(w) \/ IssueInstallFails(w)
    \/ IssueSkipsDeploy(w) \/ IssueWaits(w) \/ IssueLocks(w)
    \/ IssueDeploys(w) \/ IssueDeployFails(w)
    \/ IssueSettles(w) \/ IssueFails(w) \/ IssueEnds(w)

-----------------------------------------------------------------------------
(* The runner's loop, the clock and the process.                           *)

PollStep ==
    /\ \/ PollLists(Due)
       \/ PollEnqueues
    /\ UNCHANGED certVars

Claim ==
    /\ ClaimAutomationJobs(Started)
    /\ step' = [w \in Workers |-> IF w \in Started THEN "read" ELSE step[w]]
    /\ agentKept /\ adminKept
    /\ UNCHANGED <<cert, copy, lock>>

LeaseStep ==
    /\ \/ \E w \in Workers : Heartbeat(w)
       \/ \E j \in Jobs : LeaseExpires(j)
    /\ UNCHANGED certVars

LeaseLost ==
    /\ Disturbed
    /\ \/ \E w \in Workers : HeartbeatFails(w)
       \/ \E j \in Jobs : Stall(j)
    /\ UNCHANGED certVars

\* The Panel stops at any point and starts again.
PanelRestart ==
    /\ Disturbed
    /\ RunnerRestart
    /\ copy' = [w \in Workers |-> NewRow("absent")]
    /\ step' = [w \in Workers |-> "idle"]
    /\ lock' = None
    /\ created' = IF created = "row" THEN "done" ELSE created
    /\ agentKept
    /\ UNCHANGED <<cert, bound, calm>>

CalmDown ==
    /\ ~calm
    /\ calm' = TRUE
    /\ jobsKept /\ agentKept
    /\ UNCHANGED <<cert, copy, step, lock, bound, created>>

-----------------------------------------------------------------------------
(* The operator's requests (api/handlers_certificates.go).                 *)

\* handleCreateProtocolCertificate: the row has been inserted, now its job.
CreateEnqueues ==
    /\ created = "row"
    /\ created' = "done"
    /\ EnqueueAutomationJob
    /\ agentKept
    /\ UNCHANGED <<owner, held, beating, listed, lost, overlapped>>
    /\ UNCHANGED <<cert, copy, step, lock, bound, calm>>

\* handleIssueProtocolCertificate.
ForceIssue ==
    /\ Disturbed
    /\ cert.status # "absent"
    /\ ForceEnqueueAutomationJob
    /\ UNCHANGED <<owner, held, beating, listed, lost, overlapped>>
    /\ UNCHANGED certVars

\* handlePutNodeInboundTLS: only an active certificate is bound.
Bind ==
    /\ Disturbed
    /\ ~bound
    /\ cert.status = "active"
    /\ cert.active # 0
    /\ bound' = TRUE
    /\ jobsKept /\ agentKept
    /\ UNCHANGED <<cert, copy, step, lock, created, calm>>

Unbind ==
    /\ Disturbed
    /\ bound
    /\ bound' = FALSE
    /\ jobsKept /\ agentKept
    /\ UNCHANGED <<cert, copy, step, lock, created, calm>>

\* DeleteProtocolCertificate, in one transaction; the Agent keeps its files.
DeleteCertificate ==
    /\ Disturbed
    /\ cert.status # "absent"
    /\ ~bound
    /\ \A j \in Jobs : jobs[j].state # "running"
    /\ jobs' = Dropped(jobs)
    /\ cert' = NewRow("absent")
    /\ agentKept /\ adminKept
    /\ UNCHANGED <<owner, held, beating, listed, lost, overlapped>>
    /\ UNCHANGED <<copy, step, lock>>

Next ==
    \/ \E w \in Workers : IssueStep(w)
    \/ PollStep \/ Claim \/ LeaseStep \/ LeaseLost \/ PanelRestart \/ CalmDown
    \/ CreateEnqueues \/ ForceIssue
    \/ Bind \/ Unbind \/ DeleteCertificate

Spec == Init /\ [][Next]_vars

\* The loop of Run has no exit but its context, and each of its rounds ends with a claim,
\* whatever the round listed before (SF). Goroutines are scheduled, time passes.
\* Nothing is assumed of the operator, the Agent, ACME or DNS before calm.
Fairness ==
    /\ \A w \in Workers : WF_vars(IssueStep(w))
    /\ WF_vars(PollStep)
    /\ SF_vars(Claim)
    /\ WF_vars(LeaseStep)
    /\ WF_vars(CreateEnqueues)
    /\ WF_vars(CalmDown)

FairSpec == Spec /\ Fairness

-----------------------------------------------------------------------------
(* Properties.                                                             *)

\* A certificate in the middle of an issuance has an active job that will finish it,
\* through crashes, failed writes and operators' retries: nothing else looks at these
\* statuses. It fails if two executions overlapped, when the first settles the
\* row both hold.
NoAbandonedRenewal ==
    cert.status \in {"authorizing", "installing", "deploying"} =>
        ActiveJobs # {} \/ overlapped

\* The generations a build may overlay have their files on the Agent's disk.
ActiveInstalled ==
    /\ cert.active # 0 => Loadable(cert.active)
    /\ cert.cand # 0 => Loadable(cert.cand)

\* The last confirmed generation is the rollback baseline: no failure, restart or
\* retry takes it back (docs/dns-acme.md:48), unless two executions overlapped and the
\* later one writes the row it read before the earlier one finished.
BaselineKept ==
    [][cert'.status # "absent" /\ ~overlapped => cert'.active >= cert.active]_vars

\* An issuance that has begun ends with an active certificate once faults stop,
\* unless the Agent stopped while it wrote the key of the generation. Bound: the last
\* generation, which no other follows, is left out.
RenewalEnds ==
    cert.status \in {"authorizing", "installing", "deploying", "retry_wait"} ~>
        \/ cert.status \in {"active", "absent"}
        \/ \E g \in Gens : key[g] = "torn"
        \/ cert.rev = MaxGen
        \/ overlapped
=============================================================================
