------------------------------- MODULE NodeRows -------------------------------
(***************************************************************************)
(* One row of the nodes table (panel/internal/store/store.go) and those    *)
(* who write it. Three kinds of writes meet in it:                         *)
(*   - the operator's, which set single columns in one statement;          *)
(*   - the Agent's reports and the fleet's mark "unreachable", which carry *)
(*     their condition in the statement;                                   *)
(*   - UpdateNode of a row that was read before a dial: probe, refresh,    *)
(*     batch task and upgrade write every column of their copy.            *)
(*                                                                         *)
(* Abstracted: the operator's columns are one number, that of the edit     *)
(* they come from; versions, metrics and messages are left out. A tick of  *)
(* the clock is 45 seconds. A report carries its Agent's clock, which may  *)
(* run ahead.                                                              *)
(***************************************************************************)
EXTENDS Naturals, FiniteSets

CONSTANTS
    Writers,        \* the requests and tasks that hold a copy of the row
    Serials,        \* serials of management certificates, positive numbers
    Tokens,         \* control tokens, positive numbers; 0 is the empty column
    MaxTime,        \* bound: of the clock
    MaxEdits,       \* bound: edits by the operator
    MaxReports,     \* bound: reports on their way at once
    Ahead           \* ApplyNodeReport accepts a time this far ahead (300 s)

ASSUME RowsAssumption ==
    /\ Serials \subseteq Nat \ {0}
    /\ Tokens \subseteq Nat \ {0} /\ Tokens # {}
    /\ {MaxTime, MaxEdits, MaxReports, Ahead} \subseteq Nat

VARIABLES
    row,            \* the row
    alive,          \* it has not been deleted
    enrolled,       \* agent_enrolled, a column UpdateNode leaves alone
    sess,           \* sess[w]: what w does with its copy of the row
    clock,
    reports,        \* collected_at of the reports on their way
    edits,          \* history: the number of edits the operator was told were stored
    undone          \* history: what a write of an older copy may have taken back

rowVars == <<row, alive, enrolled, sess, clock, reports, edits, undone>>

Statuses == {"pending", "unknown", "online", "unreachable", "unauthorized"}
Row == [mode : {"push", "uplink"}, edit : 0 .. MaxEdits, status : Statuses,
        token : Tokens \cup {0}, serial : Serials \cup {0}, seen : 0 .. MaxTime + Ahead]
Ops == {"idle", "probe", "refresh", "task", "upgrade", "switch", "mark"}
NoRow == [mode |-> "push", edit |-> 0, status |-> "pending", token |-> 0, serial |-> 0, seen |-> 0]
Idle == [op |-> "idle", copy |-> NoRow, cutoff |-> 0]
Stale == 1          \* uplinkStaleAfter: 45 s

RowsTypeOK ==
    /\ row \in Row
    /\ alive \in BOOLEAN
    /\ enrolled \in BOOLEAN
    /\ sess \in [Writers -> [op : Ops, copy : Row, cutoff : 0 .. MaxTime]]
    /\ clock \in 0 .. MaxTime
    /\ reports \subseteq 0 .. MaxTime + Ahead + 1
    /\ edits \in 0 .. MaxEdits
    /\ undone \subseteq {"edits", "seen", "identity"}

\* handleBootstrapNode has created the node, with an address or without.
RowsInit ==
    /\ \E mode \in {"push", "uplink"}, status \in {"pending", "unknown"} :
           row = [mode |-> mode, edit |-> 0, status |-> status,
                  token |-> CHOOSE t \in Tokens : TRUE, serial |-> 0, seen |-> 0]
    /\ alive = TRUE
    /\ enrolled = FALSE
    /\ sess = [w \in Writers |-> Idle]
    /\ clock = 0
    /\ reports = {}
    /\ edits = 0
    /\ undone = {}

-----------------------------------------------------------------------------
(* The statements.                                                         *)

\* The columns in which a row and a copy of it differ.
Differs(copy) ==
    (IF copy.edit # row.edit \/ copy.mode # row.mode THEN {"edits"} ELSE {})
        \cup (IF copy.seen # row.seen THEN {"seen"} ELSE {})
        \cup (IF copy.serial # row.serial \/ copy.token # row.token THEN {"identity"} ELSE {})

\* UpdateNode: every column of the caller's row; a deleted row does not come back.
UpdateNode(old, new) ==
    IF alive
    THEN row' = new /\ undone' = undone \cup Differs(old)
    ELSE UNCHANGED <<row, undone>>

\* UpdateNodeOperatorFields. An address given or cleared moves the status with it.
OperatorFields(mode, address, token) ==
    /\ edits < MaxEdits
    /\ edits' = edits + 1
    /\ row' = [row EXCEPT !.mode = mode, !.edit = edits + 1, !.token = token,
                  !.status = CASE address = "cleared" -> "pending"
                               [] address = "given" /\ @ = "pending" -> "unknown"
                               [] OTHER -> @]

\* MUTANT: a clock that runs far ahead is believed.
ReportTimeless(at) == row.seen <= at

\* The condition of ApplyNodeReport.
ReportApplies(at) ==
    /\ at <= clock + Ahead
    /\ row.seen <= at

\* MUTANT: the UPDATE relies on the age read before.
MarkOnSight(cutoff) == row.mode = "uplink"

\* The condition of MarkUplinkUnreachable.
MarkApplies(cutoff) ==
    /\ row.mode = "uplink"
    /\ row.seen > 0
    /\ row.seen < cutoff

-----------------------------------------------------------------------------
(* The operator.                                                           *)

\* handleUpdateNode without a change of the mode, finishUplinkIntent of a task or a request.
\* The control token may be left, replaced or cleared; the Agent is not told.
EditNode ==
    /\ alive
    /\ \E address \in {"kept", "given", "cleared"}, token \in Tokens \cup {0} :
           OperatorFields(row.mode, address, token)
    /\ UNCHANGED <<alive, enrolled, sess, clock, reports, undone>>

\* With one, the row is read again and the switch refused to a node that enrolled
\* without a certificate; to "uplink" the Agent must be new enough.
SwitchChecks(w) ==
    /\ alive
    /\ sess[w].op = "idle"
    /\ ~(row.mode = "uplink" /\ row.serial = 0 /\ enrolled)
    /\ sess' = [sess EXCEPT ![w] = [op |-> "switch", copy |-> row, cutoff |-> 0]]
    /\ UNCHANGED <<row, alive, enrolled, clock, reports, edits, undone>>

SwitchWrites(w) ==
    /\ sess[w].op = "switch"
    /\ sess' = [sess EXCEPT ![w] = Idle]
    /\ \/ /\ alive
          /\ OperatorFields(IF sess[w].copy.mode = "push" THEN "uplink" ELSE "push", "kept", row.token)
       \/ (~alive \/ edits = MaxEdits) /\ UNCHANGED <<row, edits>>
    /\ UNCHANGED <<alive, enrolled, clock, reports, undone>>

\* DeleteNode, of a node that no chain and no running job refers to.
DeleteNode ==
    /\ alive
    /\ alive' = FALSE
    /\ UNCHANGED <<row, enrolled, sess, clock, reports, edits, undone>>

-----------------------------------------------------------------------------
(* Those who read the row, dial, and write it back.                        *)

\* GetNode or ListNodes. A batch task of an uplink node is an edit and dials nobody;
\* a probe or an upgrade of one goes over its socket.
Reads(w, op) ==
    /\ alive
    /\ sess[w].op = "idle"
    /\ op = "task" => row.mode = "push"
    /\ sess' = [sess EXCEPT ![w] = [op |-> op, copy |-> row, cutoff |-> 0]]
    /\ UNCHANGED <<row, alive, enrolled, clock, reports, edits, undone>>

\* What the call left in the copy.
Answered(copy, op) ==
    LET outcome == CASE op = "probe" -> {"online", "unauthorized", "unreachable"}
                     [] op = "refresh" -> {"online", "unauthorized", "unreachable"}
                     [] op = "task" -> {"online", "unreachable", copy.status}
                     [] op = "upgrade" -> {copy.status}
    IN  {[copy EXCEPT !.status = status] : status \in outcome}

\* The end of handleProbeNode, refreshOneNode of a push node, runOne or handleNodeUpgrade.
WritesBack(w) ==
    LET s == sess[w]
    IN  /\ s.op \in {"probe", "refresh", "task", "upgrade"}
        /\ ~(s.op = "refresh" /\ s.copy.mode = "uplink")
        /\ \E new \in Answered(s.copy, s.op) : UpdateNode(s.copy, new)
        /\ sess' = [sess EXCEPT ![w] = Idle]
        /\ UNCHANGED <<alive, enrolled, clock, reports, edits>>

\* refreshOneNode of an uplink node whose last report, in the copy, is too old.
RefreshDecides(w) ==
    LET s == sess[w]
    IN  /\ s.op = "refresh"
        /\ s.copy.mode = "uplink"
        /\ sess' = IF s.copy.seen > 0 /\ clock - s.copy.seen > Stale
                   THEN [sess EXCEPT ![w] = [@ EXCEPT !.op = "mark", !.cutoff = clock - Stale]]
                   ELSE [sess EXCEPT ![w] = Idle]
        /\ UNCHANGED <<row, alive, enrolled, clock, reports, edits, undone>>

\* MUTANT: the whole copy is written.
MarksCopy(w) ==
    /\ sess[w].op = "mark"
    /\ row' = IF alive THEN [sess[w].copy EXCEPT !.status = "unreachable"] ELSE row
    /\ sess' = [sess EXCEPT ![w] = Idle]
    /\ UNCHANGED <<alive, enrolled, clock, reports, edits, undone>>

\* MarkUplinkUnreachable.
Marks(w) ==
    /\ sess[w].op = "mark"
    /\ row' = IF alive /\ MarkApplies(sess[w].cutoff)
              THEN [row EXCEPT !.status = "unreachable"] ELSE row
    /\ sess' = [sess EXCEPT ![w] = Idle]
    /\ UNCHANGED <<alive, enrolled, clock, reports, edits, undone>>

-----------------------------------------------------------------------------
(* The Agent's reports, over HTTP or the socket, and the clock.            *)

\* The Agent samples itself; its clock may be ahead, even more than is accepted.
Collects ==
    /\ alive
    /\ Cardinality(reports) < MaxReports
    /\ \E at \in {clock, clock + Ahead, clock + Ahead + 1} \ {0} : reports' = reports \cup {at}
    /\ UNCHANGED <<row, alive, enrolled, sess, clock, edits, undone>>

\* handleAgentReport, in any order. A report of a deleted node, or of one without a token,
\* changes nothing; one with another token than the row's is as good as lost.
ReportArrives(at) ==
    /\ at \in reports
    /\ reports' = reports \ {at}
    /\ row' = IF alive /\ row.token # 0 /\ ReportApplies(at)
              THEN [row EXCEPT !.status = "online", !.seen = at] ELSE row
    /\ UNCHANGED <<alive, enrolled, sess, clock, edits, undone>>

ReportLost(at) ==
    /\ at \in reports
    /\ reports' = reports \ {at}
    /\ UNCHANGED <<row, alive, enrolled, sess, clock, edits, undone>>

Ticks ==
    /\ clock < MaxTime
    /\ clock' = clock + 1
    /\ UNCHANGED <<row, alive, enrolled, sess, reports, edits, undone>>

WriterStep(w) ==
    \/ SwitchChecks(w) \/ SwitchWrites(w)
    \/ \E op \in {"probe", "refresh", "task", "upgrade"} : Reads(w, op)
    \/ WritesBack(w) \/ RefreshDecides(w) \/ Marks(w)

RowsNext ==
    \/ EditNode \/ DeleteNode
    \/ \E w \in Writers : WriterStep(w)
    \/ Collects \/ Ticks
    \/ \E at \in reports : ReportArrives(at) \/ ReportLost(at)

-----------------------------------------------------------------------------
\* What the operator stored stays stored: reports, refreshes, marks and tasks of others
\* take no edit back, except a writer that read the row before the edit and wrote all of
\* its columns after it.
EditsKept == alive => row.edit = edits \/ "edits" \in undone

\* An older report never replaces a newer one (store.go:975), and a refresh marks only a node
\* whose newest report, at the moment of the mark, is older than 45 seconds
\* (store.go:1081), whatever was read before; a write of an older copy is the one exception.
ReportsWin ==
    [][ /\ row'.seen >= row.seen \/ "seen" \in undone'
        /\ \A w \in Writers :
               sess[w].op = "mark" /\ sess'[w] # sess[w] /\ row'.status # row.status =>
                   clock - row.seen > Stale
      ]_rowVars
=============================================================================
