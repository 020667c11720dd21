---------------------------- MODULE ManagementPki ----------------------------
(***************************************************************************)
(* The management identity of one node: the certificates the Panel records *)
(* (panel/internal/store/pki.go), the requests that issue, renew and       *)
(* revoke them (api/handlers_pki.go, handlers_agent_enroll.go), and the    *)
(* Agent that asks for them (agent/internal/managementpki/manager.go, the  *)
(* installer). The node's row, with the serial the Panel pins and the      *)
(* Agent's control token, is that of NodeRows.                             *)
(*                                                                         *)
(* A handler works in several transactions; the Agent stops waiting after  *)
(* 30 seconds, the handler does not stop. Serials and tokens are drawn     *)
(* anew: any value nobody refers to any more stands for a fresh one.       *)
(*                                                                         *)
(* Abstracted: keys, CSRs and chains (a request is well formed), and       *)
(* dates: a certificate is valid or has expired, and may be renewed at any *)
(* time.                                                                   *)
(***************************************************************************)
EXTENDS NodeRows

CONSTANTS
    Handlers,       \* requests of the Agent or its installer at the Panel
    Nobody,         \* no handler
    MaxFaults       \* bound: faults and acts of the administrator

ASSUME FaultsAssumption == MaxFaults \in Nat

VARIABLES
    certs,          \* the status of each serial; "none": no such certificate
    valid,          \* the certificate has not expired
    tickets,        \* an enrolment token is in the installer's hands, unused and in time
    req,            \* req[h]: the handler
    waiting,        \* the handler whose answer the Agent waits for, or Nobody
    agent,          \* the Agent: serial of its certificate, control token, running
    faults          \* the number of faults and acts of the administrator so far

pkiVars == <<certs, valid, tickets, req, waiting, agent, faults>>
pkiAll == <<rowVars, pkiVars>>
Blank == [step |-> "idle", kind |-> "issue", cred |-> 0, copy |-> NoRow, want |-> 0, serial |-> 0]

PkiTypeOK ==
    /\ certs \in [Serials -> {"none", "active", "replaced", "expired", "revoked"}]
    /\ valid \in [Serials -> BOOLEAN]
    /\ tickets \in 0 .. 1
    /\ req \in [Handlers -> [step : {"idle", "read", "accept", "record", "reread", "write", "answer"},
                             kind : {"issue", "enroll"}, cred : Tokens \cup {0}, copy : Row,
                             want : Tokens \cup {0}, serial : Serials \cup {0}]]
    /\ waiting \in Handlers \cup {Nobody}
    /\ agent \in [serial : Serials \cup {0}, token : Tokens \cup {0}, up : BOOLEAN]
    /\ faults \in 0 .. MaxFaults

\* handleBootstrapNode hands out the first enrolment token.
PkiInit ==
    /\ certs = [s \in Serials |-> "none"]
    /\ valid = [s \in Serials |-> FALSE]
    /\ tickets = 1
    /\ req = [h \in Handlers |-> Blank]
    /\ waiting = Nobody
    /\ agent = [serial |-> 0, token |-> 0, up |-> FALSE]
    /\ faults = 0

Disturbed == faults < MaxFaults /\ faults' = faults + 1

\* A serial and a token nobody refers to.
FreshSerials == Serials \
    ({row.serial, agent.serial}
        \cup UNION {{req[h].copy.serial, req[h].serial} : h \in Handlers})
FreshTokens == Tokens \
    ({row.token, agent.token}
        \cup UNION {{req[h].copy.token, req[h].want, req[h].cred} : h \in Handlers})
Fresh(values) == CHOOSE v \in values : \A u \in values : v <= u

\* Of the first copy a handler uses only the status once the credential is accepted.
StatusOf(copy) == [NoRow EXCEPT !.status = copy.status]

\* The rest of the node's row stays as it is.
rowRest == UNCHANGED <<alive, sess, clock, reports, edits>>
panelKept == UNCHANGED <<row, enrolled, undone>> /\ rowRest

\* The handler ends; what it says reaches the Agent only if it still waits.
Refused(h) ==
    /\ req' = [req EXCEPT ![h] = Blank]
    /\ waiting' = IF waiting = h THEN Nobody ELSE waiting

-----------------------------------------------------------------------------
(* The Agent and its installer.                                            *)

\* The administrator runs the command of the installer: an uplink node enrols, another
\* asks for a certificate.
InstallerAsks(h) ==
    /\ Disturbed
    /\ tickets = 1
    /\ waiting = Nobody
    /\ req[h].step = "idle"
    /\ \E kind \in {"issue", "enroll"} :
           req' = [req EXCEPT ![h] = [Blank EXCEPT !.step = "read", !.kind = kind]]
    /\ waiting' = h
    /\ panelKept
    /\ UNCHANGED <<certs, valid, tickets, agent>>

\* renewIfNeeded, after two thirds of the lifetime, with the control token.
AgentRenews(h) ==
    /\ agent.up
    /\ agent.serial # 0
    /\ waiting = Nobody
    /\ req[h].step = "idle"
    /\ req' = [req EXCEPT ![h] = [Blank EXCEPT !.step = "read", !.cred = agent.token]]
    /\ waiting' = h
    /\ panelKept
    /\ UNCHANGED <<certs, valid, tickets, agent, faults>>

\* Its 30 seconds are over, or the installer is stopped.
GivesUp ==
    /\ Disturbed
    /\ waiting # Nobody
    /\ waiting' = Nobody
    /\ panelKept
    /\ UNCHANGED <<certs, valid, tickets, req, agent>>

\* The Agent starts again; New refuses a certificate that has expired.
AgentRestarts ==
    /\ Disturbed
    /\ agent.token # 0
    /\ agent' = [agent EXCEPT !.up = agent.serial # 0 => valid[agent.serial]]
    /\ waiting' = Nobody
    /\ panelKept
    /\ UNCHANGED <<certs, valid, tickets, req>>

\* Its certificate was not renewed in time.
Expires(s) ==
    /\ Disturbed
    /\ valid[s]
    /\ valid' = [valid EXCEPT ![s] = FALSE]
    /\ panelKept
    /\ UNCHANGED <<certs, tickets, req, waiting, agent>>

-----------------------------------------------------------------------------
(* The handlers. handleIssueAgentCertificate and handleAgentEnroll share   *)
(* their first two steps and the write of the row.                         *)

HandlerReads(h) ==
    /\ req[h].step = "read"
    /\ IF alive /\ (req[h].kind = "enroll" => row.mode = "uplink")
       THEN /\ req' = [req EXCEPT ![h].step = "accept", ![h].copy = row]
            /\ UNCHANGED waiting
       ELSE Refused(h)
    /\ panelKept
    /\ UNCHANGED <<certs, valid, tickets, agent, faults>>

\* acceptNodeCredential: the control token of the copy ...
TokenAccepted(h) ==
    /\ req[h].step = "accept"
    /\ req[h].cred # 0
    /\ req[h].cred = req[h].copy.token
    /\ req' = [req EXCEPT ![h].step = "record", ![h].want = req[h].copy.token,
                          ![h].copy = StatusOf(@)]
    /\ panelKept
    /\ UNCHANGED <<certs, valid, tickets, waiting, agent, faults>>

\* ... or an enrolment token, burned at once, if the copy has no certificate. A node
\* without a control token gets one, with a write of the whole copy.
TicketAccepted(h) ==
    LET copy == req[h].copy
        want == IF copy.token = 0 THEN Fresh(FreshTokens) ELSE copy.token
    IN  /\ req[h].step = "accept"
        /\ copy.token = 0 => FreshTokens # {}
        /\ req[h].cred = 0
        /\ copy.serial = 0
        /\ tickets = 1
        /\ tickets' = 0
        /\ IF copy.token = 0
           THEN UpdateNode(copy, [copy EXCEPT !.token = want])
           ELSE UNCHANGED <<row, undone>>
        /\ IF copy.token = 0 /\ ~alive
           THEN Refused(h)
           ELSE /\ req' = [req EXCEPT ![h].step = "record", ![h].want = want,
                                      ![h].copy = StatusOf(copy)]
                /\ UNCHANGED waiting
        /\ rowRest
        /\ UNCHANGED <<enrolled, certs, valid, agent, faults>>

CredentialRefused(h) ==
    /\ req[h].step = "accept"
    /\ IF req[h].cred = 0 THEN req[h].copy.serial # 0 \/ tickets = 0
                          ELSE req[h].cred # req[h].copy.token
    /\ Refused(h)
    /\ panelKept
    /\ UNCHANGED <<certs, valid, tickets, agent, faults>>

\* MUTANT: a node that is already bound keeps its serial.
BoundOnce(s) == IF row.serial = 0 THEN [row EXCEPT !.serial = s] ELSE row

\* The row's part of ReplaceActivePKICertificate.
Bound(s) == [row EXCEPT !.serial = s]

\* MUTANT: the certificate it replaces stays active.
RecordedOnly(s) == [certs EXCEPT ![s] = "active"]

\* The table's part: the active certificate is replaced. Rows nobody refers to any more are
\* only displayed, and are forgotten here.
Recorded(s) ==
    [t \in Serials |-> IF t = s THEN "active" ELSE
                       IF t \in FreshSerials THEN "none" ELSE
                       IF certs[t] = "active" THEN "replaced" ELSE certs[t]]

\* SignAgentCSR and ReplaceActivePKICertificate, one transaction. A request that names
\* an address or a port, as the installer's and the Agent's do, goes on to the row.
CertificateRecorded(h) ==
    LET s == Fresh(FreshSerials)
    IN  /\ req[h].step = "record"
        /\ FreshSerials # {}
        /\ req[h].kind = "issue"
        /\ certs' = Recorded(s)
        /\ valid' = [t \in Serials |-> t = s \/ (valid[t] /\ t \notin FreshSerials)]
        /\ row' = IF alive THEN Bound(s) ELSE row
        /\ \E next \in {"reread", "answer"} :
               req' = [req EXCEPT ![h].step = next, ![h].serial = s, ![h].copy = NoRow]
        /\ rowRest
        /\ UNCHANGED <<enrolled, undone, tickets, waiting, agent, faults>>

\* SignAgentCSR refuses, or the transaction fails: the enrolment token is gone.
RecordFails(h) ==
    /\ Disturbed
    /\ req[h].step = "record"
    /\ Refused(h)
    /\ panelKept
    /\ UNCHANGED <<certs, valid, tickets, agent>>

\* MarkAgentEnrolled. The status of the copy says whether the row is written.
EnrollmentRecorded(h) ==
    /\ req[h].step = "record"
    /\ req[h].kind = "enroll"
    /\ enrolled' = (enrolled \/ alive)
    /\ IF alive
       THEN /\ req' = [req EXCEPT ![h].step =
                   IF req[h].copy.status \in {"pending", "unauthorized"} THEN "reread" ELSE "answer"]
            /\ UNCHANGED waiting
       ELSE Refused(h)
    /\ rowRest
    /\ UNCHANGED <<row, undone, certs, valid, tickets, agent, faults>>

\* The row is read again ...
HandlerRereads(h) ==
    /\ req[h].step = "reread"
    /\ req' = [req EXCEPT ![h].step = IF alive THEN "write" ELSE "answer", ![h].copy = row]
    /\ panelKept
    /\ UNCHANGED <<certs, valid, tickets, waiting, agent, faults>>

\* ... and written as a whole, with the address it lacked and its status.
HandlerWrites(h) ==
    LET copy == req[h].copy
        usable == copy.status \in {"pending", "unauthorized"} \/ req[h].kind = "enroll"
    IN  /\ req[h].step = "write"
        /\ UpdateNode(copy, IF usable THEN [copy EXCEPT !.status = "unknown"] ELSE copy)
        /\ req' = [req EXCEPT ![h].step = "answer", ![h].copy = NoRow]
        /\ rowRest
        /\ UNCHANGED <<enrolled, certs, valid, tickets, waiting, agent, faults>>

\* The Agent, or the installer before it starts the Agent, installs what it got.
AnswerInstalled(h) ==
    /\ req[h].step = "answer"
    /\ waiting = h
    /\ req[h].kind = "issue" => valid[req[h].serial]
    /\ agent' = [serial |-> IF req[h].kind = "issue" THEN req[h].serial ELSE 0,
                 token |-> req[h].want, up |-> TRUE]
    /\ Refused(h)
    /\ panelKept
    /\ UNCHANGED <<certs, valid, tickets, faults>>

\* Nobody waits for it, or it is lost.
AnswerLost(h) ==
    /\ req[h].step = "answer"
    /\ IF waiting # h \/ (req[h].kind = "issue" /\ ~valid[req[h].serial])
       THEN UNCHANGED faults ELSE Disturbed
    /\ Refused(h)
    /\ panelKept
    /\ UNCHANGED <<certs, valid, tickets, agent>>

HandlerStep(h) ==
    \/ HandlerReads(h)
    \/ TokenAccepted(h) \/ TicketAccepted(h) \/ CredentialRefused(h)
    \/ CertificateRecorded(h) \/ RecordFails(h) \/ EnrollmentRecorded(h)
    \/ HandlerRereads(h) \/ HandlerWrites(h)
    \/ AnswerInstalled(h) \/ AnswerLost(h)

-----------------------------------------------------------------------------
(* The administrator.                                                      *)

\* The row's part of RevokePKICertificate.
Released(s) ==
    IF alive /\ row.serial = s
    THEN [row EXCEPT !.serial = 0, !.token = 0, !.status = "unauthorized"] ELSE row

Revokes(s) ==
    /\ Disturbed
    /\ certs[s] \notin {"none", "revoked"}
    /\ certs' = [certs EXCEPT ![s] = "revoked"]
    /\ row' = Released(s)
    /\ rowRest
    /\ UNCHANGED <<enrolled, undone, valid, tickets, req, waiting, agent>>

\* handleNodeInstallCommand: an enrolment token only for a node that awaits its
\* registration. Bound: one unused token at a time.
InstallCommand ==
    /\ Disturbed
    /\ alive
    /\ row.serial = 0
    /\ ~(row.mode = "uplink" /\ enrolled)
    /\ tickets = 0
    /\ tickets' = 1
    /\ panelKept
    /\ UNCHANGED <<certs, valid, req, waiting, agent>>

\* Fifteen minutes later.
TicketExpires ==
    /\ tickets = 1
    /\ tickets' = 0
    /\ panelKept
    /\ UNCHANGED <<certs, valid, req, waiting, agent, faults>>

\* ListPKICertificates: two statements, whose errors are dropped.
SweepsCertificates ==
    /\ \E s \in Serials : certs[s] = "active" /\ ~valid[s]
    /\ certs' = [s \in Serials |-> IF certs[s] = "active" /\ ~valid[s] THEN "expired" ELSE certs[s]]
    /\ panelKept
    /\ UNCHANGED <<valid, tickets, req, waiting, agent, faults>>

SweepsNode ==
    /\ alive
    /\ row.serial # 0
    /\ ~valid[row.serial]
    /\ row' = [row EXCEPT !.serial = 0, !.status = "unauthorized"]
    /\ rowRest
    /\ UNCHANGED <<enrolled, undone, certs, valid, tickets, req, waiting, agent, faults>>

\* The operator edits or deletes the node. Bound: the other writers of NodeRows are left
\* out here; what their late writes do, the late writes of a handler do as well.
RowWriters ==
    /\ Disturbed
    /\ EditNode \/ DeleteNode
    /\ UNCHANGED <<certs, valid, tickets, req, waiting, agent>>

PkiNext ==
    \/ \E h \in Handlers : InstallerAsks(h) \/ AgentRenews(h) \/ HandlerStep(h)
    \/ GivesUp \/ AgentRestarts
    \/ \E s \in Serials : Expires(s) \/ Revokes(s)
    \/ InstallCommand \/ TicketExpires
    \/ SweepsCertificates \/ SweepsNode
    \/ RowWriters

\* Handlers and the Agent's loop go on; nothing is assumed of operators.
PkiFairness ==
    /\ \A h \in Handlers : WF_pkiAll(HandlerStep(h))
    /\ WF_pkiAll(\E h \in Handlers : AgentRenews(h))

-----------------------------------------------------------------------------
\* The serial the Panel pins is that of the node's one active certificate
\* (docs/management-pki.md:35, :49): never one it replaced or revoked, unless a write of
\* an older copy of the row brought it back, nor one whose time is over.
PinnedIsActive ==
    /\ Cardinality({s \in Serials : certs[s] = "active"}) <= 1
    /\ row.serial # 0 /\ alive /\ valid[row.serial] =>
           certs[row.serial] = "active" \/ "identity" \in undone

\* After a lost answer the Panel pins a certificate the Agent does not have. An Agent
\* that still runs and has the node's token gets them together again once faults have
\* stopped, and the bound makes them stop.
PinnedEventually ==
    alive /\ agent.up /\ agent.serial # 0 ~>
        \/ row.serial = agent.serial
        \/ agent.token # row.token \/ ~alive \/ ~agent.up
=============================================================================
