----------------------------- MODULE Nodes_proofs -----------------------------
(***************************************************************************)
(* Proofs about the row of a node and the node's management identity, for  *)
(* any number of writers, edits, reports and ticks, handlers, serials and  *)
(* faults.                                                                 *)
(***************************************************************************)
EXTENDS MCNodes, FiniteSetTheorems, WellFoundedInduction, TLAPS

RowsSpec == RowsInit /\ [][RowsNext]_rowVars

(***************************************************************************)
(* Type correctness.                                                       *)
(***************************************************************************)

\* A refresh that is about to mark compares with a time at least 45 seconds ago.
CutoffPast == \A w \in Writers : sess[w].op = "mark" => sess[w].cutoff + Stale <= clock

RowsInv == RowsTypeOK /\ CutoffPast /\ EditsKept

\* The row stays one when single columns of it are set.
LEMMA ColumnsOfRow ==
    ASSUME NEW r \in Row
    PROVE  /\ \A s \in Statuses : [r EXCEPT !.status = s] \in Row
           /\ \A s \in Statuses, at \in 0 .. MaxTime + Ahead :
                  [r EXCEPT !.status = s, !.seen = at] \in Row
           /\ \A m \in {"push", "uplink"}, e \in 0 .. MaxEdits, t \in Tokens \cup {0}, s \in Statuses :
                  [r EXCEPT !.mode = m, !.edit = e, !.token = t, !.status = s] \in Row
BY DEF Row

LEMMA InitialRows == RowsInit => RowsInv
<1> SUFFICES ASSUME RowsInit PROVE RowsInv
  OBVIOUS
<1> USE RowsAssumption
<1>1. (CHOOSE t \in Tokens : TRUE) \in Tokens
  OBVIOUS
<1>2. row \in Row
  BY <1>1 DEF RowsInit, Row, Statuses
<1>3. NoRow \in Row
  BY DEF NoRow, Row, Statuses
<1>4. \A w \in Writers : sess[w] = Idle
  BY DEF RowsInit
<1>5. sess \in [Writers -> [op : Ops, copy : Row, cutoff : 0 .. MaxTime]]
  BY <1>3 DEF RowsInit, Idle, Ops
<1>6. RowsTypeOK
  <2>1. alive \in BOOLEAN /\ enrolled \in BOOLEAN
    BY DEF RowsInit
  <2>2. clock \in 0 .. MaxTime /\ edits \in 0 .. MaxEdits
    BY DEF RowsInit
  <2>3. reports = {} /\ undone = {}
    BY DEF RowsInit
  <2> QED BY <1>2, <1>5, <2>1, <2>2, <2>3 DEF RowsTypeOK
<1>7. CutoffPast
  BY <1>4 DEF CutoffPast, Idle
<1>8. EditsKept
  BY DEF EditsKept, RowsInit
<1> QED BY <1>6, <1>7, <1>8 DEF RowsInv

\* The columns an operator sets.
LEMMA OperatorSets ==
    ASSUME RowsInv, NEW mode \in {"push", "uplink"}, NEW address,
           NEW token \in Tokens \cup {0}, OperatorFields(mode, address, token)
    PROVE  row' \in Row /\ edits' \in 0 .. MaxEdits /\ row'.edit = edits' /\ row'.seen = row.seen
<1> USE RowsAssumption DEF RowsInv, RowsTypeOK
<1> DEFINE status == CASE address = "cleared" -> "pending"
                       [] address = "given" /\ row.status = "pending" -> "unknown"
                       [] OTHER -> row.status
<1>1. row' = [row EXCEPT !.mode = mode, !.edit = edits + 1, !.token = token, !.status = status]
  BY DEF OperatorFields
<1>2. row.status \in Statuses
  BY DEF Row
<1>3. status \in Statuses
  <2>1. CASE address = "cleared"
    BY <2>1 DEF Statuses
  <2>2. CASE address # "cleared" /\ address = "given" /\ row.status = "pending"
    BY <2>2 DEF Statuses
  <2>3. CASE address # "cleared" /\ ~(address = "given" /\ row.status = "pending")
    BY <2>3, <1>2
  <2> QED BY <2>1, <2>2, <2>3
<1>4. edits + 1 \in 0 .. MaxEdits /\ edits' = edits + 1
  BY DEF OperatorFields
<1> HIDE DEF status
<1>5. row' \in Row
  BY <1>1, <1>3, <1>4, ColumnsOfRow
<1>6. row'.edit = edits + 1 /\ row'.seen = row.seen
  BY <1>1 DEF Row
<1> QED BY <1>4, <1>5, <1>6

\* A write of a whole copy changes the edit or the last report only where it says so.
LEMMA CopyWritten ==
    ASSUME RowsInv, NEW old \in Row, NEW op, NEW new \in Answered(old, op),
           op \in {"probe", "refresh", "task", "upgrade"}, UpdateNode(old, new)
    PROVE  /\ row' \in Row
           /\ undone \subseteq undone' /\ undone' \subseteq {"edits", "seen", "identity"}
           /\ row'.edit = row.edit \/ "edits" \in undone'
           /\ row'.seen = row.seen \/ "seen" \in undone'
<1> USE DEF RowsInv, RowsTypeOK
<1>1. PICK s \in Statuses : new = [old EXCEPT !.status = s]
  BY DEF Answered, Statuses, Row
<1>2. new \in Row /\ new.edit = old.edit /\ new.seen = old.seen
  BY <1>1, ColumnsOfRow DEF Row
<1>3. Differs(old) \subseteq {"edits", "seen", "identity"}
  BY DEF Differs
<1>4. (old.edit # row.edit => "edits" \in Differs(old)) /\ (old.seen # row.seen => "seen" \in Differs(old))
  BY DEF Differs
<1> QED BY <1>2, <1>3, <1>4 DEF UpdateNode

(***************************************************************************)
(* Every step keeps the invariant, and does to the last report only what   *)
(* ReportsWin allows.                                                      *)
(***************************************************************************)

\* What a step may do to the row's last report and status.
SeenKept == row'.seen >= row.seen \/ "seen" \in undone'
MarkedLate ==
    \A w \in Writers :
        sess[w].op = "mark" /\ sess'[w] # sess[w] /\ row'.status # row.status => clock - row.seen > Stale

\* A session that begins, ends or decides; the row is left alone.
LEMMA SessionChanges ==
    ASSUME RowsInv, NEW w \in Writers, NEW s,
           s \in [op : Ops, copy : Row, cutoff : 0 .. MaxTime],
           s.op = "mark" => s.cutoff + Stale <= clock,
           sess' = [sess EXCEPT ![w] = s],
           UNCHANGED <<row, alive, enrolled, clock, reports, edits, undone>>
    PROVE  RowsInv' /\ SeenKept /\ MarkedLate
<1> USE DEF RowsInv, RowsTypeOK
<1>1. RowsTypeOK'
  OBVIOUS
<1>2. CutoffPast'
  BY DEF CutoffPast
<1>3. EditsKept'
  BY DEF EditsKept
<1>4. SeenKept /\ MarkedLate
  BY DEF SeenKept, MarkedLate, Row
<1> QED BY <1>1, <1>2, <1>3, <1>4

LEMMA IdleSession == Idle \in [op : Ops, copy : Row, cutoff : 0 .. MaxTime] /\ Idle.op # "mark"
BY RowsAssumption DEF Idle, NoRow, Row, Statuses, Ops

\* A writer's session ends with a write of the row.
LEMMA SessionWrites ==
    ASSUME RowsInv, NEW w \in Writers, sess[w].op # "mark",
           sess' = [sess EXCEPT ![w] = Idle],
           row' \in Row, edits' \in 0 .. MaxEdits,
           undone \subseteq undone', undone' \subseteq {"edits", "seen", "identity"},
           row'.edit = edits' \/ "edits" \in undone' \/ ~alive,
           row'.seen = row.seen \/ "seen" \in undone',
           UNCHANGED <<alive, enrolled, clock, reports>>
    PROVE  RowsInv' /\ SeenKept /\ MarkedLate
<1> USE DEF RowsInv, RowsTypeOK
<1>1. RowsTypeOK'
  BY IdleSession
<1>2. CutoffPast'
  BY IdleSession DEF CutoffPast
<1>3. EditsKept'
  BY DEF EditsKept
<1>4. SeenKept
  BY RowsAssumption DEF SeenKept, Row
<1>5. MarkedLate
  BY DEF MarkedLate
<1> QED BY <1>1, <1>2, <1>3, <1>4, <1>5

LEMMA WriterStepKeeps ==
    ASSUME RowsInv, NEW w \in Writers, WriterStep(w)
    PROVE  RowsInv' /\ SeenKept /\ MarkedLate
<1> USE RowsAssumption DEF RowsInv, RowsTypeOK
<1>1. CASE SwitchChecks(w)
  <2>1. [op |-> "switch", copy |-> row, cutoff |-> 0] \in [op : Ops, copy : Row, cutoff : 0 .. MaxTime]
    BY DEF Ops
  <2> QED BY <1>1, <2>1, SessionChanges DEF SwitchChecks
<1>2. CASE SwitchWrites(w)
  <2>1. CASE alive /\ OperatorFields(IF sess[w].copy.mode = "push" THEN "uplink" ELSE "push", "kept", row.token)
    <3>0. row.token \in Tokens \cup {0}
      BY DEF Row
    <3>1. row' \in Row /\ edits' \in 0 .. MaxEdits /\ row'.edit = edits' /\ row'.seen = row.seen
      BY <2>1, <3>0, OperatorSets
    <3> QED BY <1>2, <3>1, SessionWrites DEF SwitchWrites
  <2>2. CASE UNCHANGED <<row, edits>>
    BY <1>2, <2>2, SessionWrites DEF SwitchWrites, EditsKept
  <2> QED BY <1>2, <2>1, <2>2 DEF SwitchWrites
<1>3. ASSUME NEW op \in {"probe", "refresh", "task", "upgrade"}, Reads(w, op)
      PROVE  RowsInv' /\ SeenKept /\ MarkedLate
  <2>1. [op |-> op, copy |-> row, cutoff |-> 0] \in [op : Ops, copy : Row, cutoff : 0 .. MaxTime]
    BY DEF Ops
  <2> QED BY <1>3, <2>1, SessionChanges DEF Reads
<1>4. CASE WritesBack(w)
  <2>1. PICK new \in Answered(sess[w].copy, sess[w].op) : UpdateNode(sess[w].copy, new)
    BY <1>4 DEF WritesBack
  <2>2. sess[w].op \in {"probe", "refresh", "task", "upgrade"} /\ sess[w].copy \in Row
    BY <1>4 DEF WritesBack
  <2>3. /\ row' \in Row
        /\ undone \subseteq undone' /\ undone' \subseteq {"edits", "seen", "identity"}
        /\ row'.edit = row.edit \/ "edits" \in undone'
        /\ row'.seen = row.seen \/ "seen" \in undone'
    BY <2>1, <2>2, CopyWritten
  <2>4. row'.edit = edits' \/ "edits" \in undone' \/ ~alive
    BY <1>4, <2>3 DEF WritesBack, EditsKept
  <2> QED BY <1>4, <2>2, <2>3, <2>4, SessionWrites DEF WritesBack
<1>5. CASE RefreshDecides(w)
  <2> DEFINE s == IF sess[w].copy.seen > 0 /\ clock - sess[w].copy.seen > Stale
                  THEN [sess[w] EXCEPT !.op = "mark", !.cutoff = clock - Stale] ELSE Idle
  <2>1. sess' = [sess EXCEPT ![w] = s]
    BY <1>5 DEF RefreshDecides
  <2>2. s \in [op : Ops, copy : Row, cutoff : 0 .. MaxTime] /\ (s.op = "mark" => s.cutoff + Stale <= clock)
    <3>1. CASE sess[w].copy.seen > 0 /\ clock - sess[w].copy.seen > Stale
      <4>1. s = [op |-> "mark", copy |-> sess[w].copy, cutoff |-> clock - Stale]
        BY <3>1
      <4>2. clock \in Nat /\ clock <= MaxTime /\ sess[w].copy \in Row /\ sess[w].copy.seen \in Nat
        BY DEF Row
      <4>3. clock - Stale \in 0 .. MaxTime /\ clock - Stale + Stale <= clock
        BY <3>1, <4>2 DEF Stale
      <4> HIDE DEF s
      <4> QED BY <4>1, <4>2, <4>3 DEF Ops
    <3>2. CASE ~(sess[w].copy.seen > 0 /\ clock - sess[w].copy.seen > Stale)
      BY <3>2, IdleSession
    <3> QED BY <3>1, <3>2
  <2> HIDE DEF s
  <2> QED BY <1>5, <2>1, <2>2, SessionChanges DEF RefreshDecides
<1>6. CASE Marks(w)
  <2>1. row' \in Row /\ row'.edit = row.edit /\ row'.seen = row.seen
    <3>1. CASE row' = row
      BY <3>1
    <3>2. CASE row' = [row EXCEPT !.status = "unreachable"]
      <4>1. row' \in Row
        BY <3>2, ColumnsOfRow DEF Statuses
      <4> QED BY <3>2, <4>1 DEF Row
    <3> QED BY <1>6, <3>1, <3>2 DEF Marks
  <2>2. RowsTypeOK'
    BY <1>6, <2>1, IdleSession DEF Marks
  <2>3. CutoffPast'
    BY <1>6, IdleSession DEF Marks, CutoffPast
  <2>4. EditsKept'
    BY <1>6, <2>1 DEF Marks, EditsKept
  <2>5. SeenKept
    BY <2>1 DEF SeenKept, Row
  <2>6. MarkedLate
    <3>1. row'.status # row.status => row.seen < sess[w].cutoff /\ sess[w].op = "mark"
      BY <1>6 DEF Marks, MarkApplies
    <3>2. sess[w].op = "mark" => sess[w].cutoff + Stale <= clock
      BY DEF CutoffPast
    <3>3. row'.status # row.status => clock - row.seen > Stale
      BY <3>1, <3>2 DEF Row, Stale
    <3> QED BY <3>3 DEF MarkedLate
  <2> QED BY <2>2, <2>3, <2>4, <2>5, <2>6
<1> QED BY <1>1, <1>2, <1>3, <1>4, <1>5, <1>6 DEF WriterStep

LEMMA RowsStep ==
    ASSUME RowsInv, RowsNext
    PROVE  RowsInv' /\ SeenKept /\ MarkedLate
<1> USE RowsAssumption DEF RowsInv, RowsTypeOK
<1>1. CASE EditNode
  <2>1. row.mode \in {"push", "uplink"}
    BY DEF Row
  <2>2. row' \in Row /\ edits' \in 0 .. MaxEdits /\ row'.edit = edits' /\ row'.seen = row.seen
    BY <1>1, <2>1, OperatorSets DEF EditNode
  <2>3. UNCHANGED <<alive, enrolled, sess, clock, reports, undone>>
    BY <1>1 DEF EditNode
  <2> QED BY <2>2, <2>3 DEF CutoffPast, EditsKept, SeenKept, MarkedLate, Row
<1>2. CASE DeleteNode
  <2>1. UNCHANGED <<row, enrolled, sess, clock, reports, edits, undone>> /\ alive' = FALSE
    BY <1>2 DEF DeleteNode
  <2>2. row.seen >= row.seen
    BY DEF Row
  <2> QED BY <2>1, <2>2 DEF CutoffPast, EditsKept, SeenKept, MarkedLate
<1>3. ASSUME NEW w \in Writers, WriterStep(w)
      PROVE  RowsInv' /\ SeenKept /\ MarkedLate
  BY <1>3, WriterStepKeeps
<1>4. CASE Collects
  BY <1>4 DEF Collects, CutoffPast, EditsKept, SeenKept, MarkedLate, Row
<1>5. CASE Ticks
  BY <1>5 DEF Ticks, CutoffPast, EditsKept, SeenKept, MarkedLate, Row, Stale
<1>6. ASSUME NEW at \in reports, ReportArrives(at) \/ ReportLost(at)
      PROVE  RowsInv' /\ SeenKept /\ MarkedLate
  <2>1. row' \in Row /\ row'.edit = row.edit /\ row'.seen >= row.seen
    <3>1. CASE row' = row
      BY <3>1 DEF Row
    <3>2. CASE ReportApplies(at) /\ row' = [row EXCEPT !.status = "online", !.seen = at]
      <4>1. at \in 0 .. MaxTime + Ahead /\ row.seen <= at
        BY <3>2 DEF ReportApplies
      <4>2. row' \in Row
        BY <3>2, <4>1, ColumnsOfRow DEF Statuses
      <4> QED BY <3>2, <4>1, <4>2 DEF Row
    <3> QED BY <1>6, <3>1, <3>2 DEF ReportArrives, ReportLost
  <2>2. UNCHANGED <<alive, enrolled, sess, clock, edits, undone>> /\ reports' \subseteq reports
    BY <1>6 DEF ReportArrives, ReportLost
  <2> QED BY <2>1, <2>2 DEF CutoffPast, EditsKept, SeenKept, MarkedLate
<1> QED BY <1>1, <1>2, <1>3, <1>4, <1>5, <1>6 DEF RowsNext

LEMMA RowsStutter ==
    ASSUME RowsInv, UNCHANGED rowVars
    PROVE  RowsInv' /\ SeenKept /\ MarkedLate
BY RowsAssumption DEF RowsInv, RowsTypeOK, CutoffPast, EditsKept, SeenKept, MarkedLate, rowVars, Row

(***************************************************************************)
(* The theorems.                                                           *)
(***************************************************************************)

THEOREM RowsInvariant == RowsSpec => []RowsInv
<1>1. RowsInv /\ [RowsNext]_rowVars => RowsInv'
  BY RowsStep, RowsStutter
<1> QED BY InitialRows, <1>1, PTL DEF RowsSpec

\* Whatever the writers of the row do, it stays a row of the table.
THEOREM RowsTypeCorrect == RowsSpec => []RowsTypeOK
<1>1. RowsInv => RowsTypeOK
  BY DEF RowsInv
<1> QED BY RowsInvariant, <1>1, PTL

\* An edit the operator was told is stored is in the row, among any number of reports, probes,
\* refreshes, marks and tasks, but for writes of a copy that was read before it.
THEOREM EditsAlwaysKept == RowsSpec => []EditsKept
<1>1. RowsInv => EditsKept
  BY DEF RowsInv
<1> QED BY RowsInvariant, <1>1, PTL

\* No order of any number of reports lets an older one replace a newer one, and only a node that
\* was silent for 45 seconds is marked.
THEOREM ReportsAlwaysWin == RowsSpec => ReportsWin
<1>1. RowsInv /\ [RowsNext]_rowVars =>
          [ /\ row'.seen >= row.seen \/ "seen" \in undone'
            /\ \A w \in Writers :
                   sess[w].op = "mark" /\ sess'[w] # sess[w] /\ row'.status # row.status =>
                       clock - row.seen > Stale ]_rowVars
  BY RowsStep DEF SeenKept, MarkedLate
<1> QED BY RowsInvariant, <1>1, PTL DEF RowsSpec, ReportsWin

(***************************************************************************)
(* The management identity: what a step does to the node's row.            *)
(***************************************************************************)

PkiSpec == RowsInit /\ PkiInit /\ [][PkiNext]_pkiAll

Steps == {"idle", "read", "accept", "record", "reread", "write", "answer"}
Requests == [step : Steps, kind : {"issue", "enroll"}, cred : Tokens \cup {0}, copy : Row,
             want : Tokens \cup {0}, serial : Serials \cup {0}]
CertStatuses == {"none", "active", "replaced", "expired", "revoked"}

\* A set of natural numbers has a least one.
LEMMA LeastNumber ==
    ASSUME NEW T \in SUBSET Nat, T # {}
    PROVE  \E x \in T : \A y \in T : x <= y
<1> DEFINE R == OpToRel(<, Nat)
<1>1. IsWellFoundedOn(R, Nat)
  BY NatLessThanWellFounded
<1> HIDE DEF R
<1>2. PICK x \in T : \A y \in T : ~(<<y, x>> \in R)
  BY <1>1, WFMin
<1>3. \A y, z \in Nat : y < z => <<y, z>> \in R
  BY DEF R, OpToRel
<1>4. ASSUME NEW y \in T PROVE x <= y
  <2>1. x \in Nat /\ y \in Nat
    OBVIOUS
  <2>2. ~(y < x)
    BY <1>2, <1>3, <2>1
  <2> QED BY <2>1, <2>2
<1> QED BY <1>4

\* A fresh serial or token is one of those nobody refers to.
LEMMA FreshOne ==
    /\ FreshSerials # {} => Fresh(FreshSerials) \in FreshSerials
    /\ FreshTokens # {} => Fresh(FreshTokens) \in FreshTokens
    /\ FreshSerials \subseteq Serials /\ FreshTokens \subseteq Tokens
<1>1. ASSUME NEW T \in SUBSET Nat, T # {} PROVE Fresh(T) \in T
  <2>1. \E v \in T : \A u \in T : v <= u
    BY <1>1, LeastNumber
  <2> QED BY <2>1 DEF Fresh
<1>2. FreshSerials \subseteq Serials /\ FreshTokens \subseteq Tokens
  BY DEF FreshSerials, FreshTokens
<1>3. Serials \subseteq Nat /\ Tokens \subseteq Nat
  BY RowsAssumption
<1>4. FreshSerials \in SUBSET Nat /\ FreshTokens \in SUBSET Nat
  BY <1>2, <1>3
<1> QED BY <1>1, <1>2, <1>4

\* Rows the handlers work on.
LEMMA IdentityColumns ==
    ASSUME NEW r \in Row
    PROVE  /\ NoRow \in Row /\ StatusOf(r) \in Row
           /\ \A s \in Serials \cup {0} :
                  [r EXCEPT !.serial = s] \in Row /\ [r EXCEPT !.serial = s, !.status = "unauthorized"] \in Row
           /\ \A t \in Tokens \cup {0} : [r EXCEPT !.token = t] \in Row
           /\ [r EXCEPT !.serial = 0, !.token = 0, !.status = "unauthorized"] \in Row
           /\ [r EXCEPT !.status = "unknown"] \in Row
<1>1. NoRow \in Row
  BY RowsAssumption DEF Row, NoRow, Statuses
<1>2. {"unknown", "unauthorized", r.status} \subseteq Statuses
  BY DEF Row, Statuses
<1>3. StatusOf(r) \in Row
  BY <1>1, <1>2 DEF StatusOf, Row
<1>4. \A s \in Serials \cup {0} :
          [r EXCEPT !.serial = s] \in Row /\ [r EXCEPT !.serial = s, !.status = "unauthorized"] \in Row
  BY <1>2 DEF Row
<1>5. \A t \in Tokens \cup {0} : [r EXCEPT !.token = t] \in Row
  BY DEF Row
<1>6. [r EXCEPT !.serial = 0, !.token = 0, !.status = "unauthorized"] \in Row
        /\ [r EXCEPT !.status = "unknown"] \in Row
  BY <1>2 DEF Row
<1> QED BY <1>1, <1>3, <1>4, <1>5, <1>6

\* A step that keeps the operator's columns and the last report, or says that it did not.
OperatorKept ==
    /\ row' \in Row
    /\ undone \subseteq undone' /\ undone' \subseteq {"edits", "seen", "identity"}
    /\ row'.edit = row.edit \/ "edits" \in undone'
    /\ row'.seen = row.seen \/ "seen" \in undone'

LEMMA RowKept ==
    ASSUME RowsInv, OperatorKept, rowRest, enrolled' \in BOOLEAN
    PROVE  RowsInv' /\ SeenKept /\ MarkedLate
<1> USE DEF RowsInv, RowsTypeOK, rowRest, OperatorKept
<1>1. RowsTypeOK' /\ CutoffPast'
  BY DEF CutoffPast
<1>2. EditsKept'
  BY DEF EditsKept
<1>3. SeenKept /\ MarkedLate
  BY RowsAssumption DEF SeenKept, MarkedLate, Row
<1> QED BY <1>1, <1>2, <1>3

\* The write of a whole copy.
LEMMA CopyWrites ==
    ASSUME RowsInv, NEW old \in Row, NEW new \in Row, new.edit = old.edit, new.seen = old.seen,
           UpdateNode(old, new)
    PROVE  OperatorKept
<1> USE DEF RowsInv, RowsTypeOK
<1>1. Differs(old) \subseteq {"edits", "seen", "identity"}
  BY DEF Differs
<1>2. (old.edit # row.edit => "edits" \in Differs(old)) /\ (old.seen # row.seen => "seen" \in Differs(old))
  BY DEF Differs
<1> QED BY <1>1, <1>2 DEF UpdateNode, OperatorKept

\* What a copy brings back is named: another serial than the row's is "identity".
LEMMA SerialWritten ==
    ASSUME NEW old, NEW new, new.serial = old.serial, UpdateNode(old, new)
    PROVE  row'.serial = row.serial \/ "identity" \in undone'
<1>1. old.serial # row.serial => "identity" \in Differs(old)
  BY DEF Differs
<1> QED BY <1>1 DEF UpdateNode

(***************************************************************************)
(* The invariant of the identity.                                          *)
(***************************************************************************)

AtMostOneActive ==
    \A s, t \in Serials : certs[s] = "active" /\ certs[t] = "active" => s = t
PinnedHolds ==
    row.serial # 0 /\ alive /\ valid[row.serial] =>
        certs[row.serial] = "active" \/ "identity" \in undone

PkiInv == RowsInv /\ PkiTypeOK /\ AtMostOneActive /\ PinnedHolds

\* What every step shows.
PkiKept == PkiInv' /\ SeenKept /\ MarkedLate

\* A step that leaves the row and the certificates alone.
LEMMA RestKept ==
    ASSUME PkiInv, UNCHANGED <<row, undone>>, rowRest, enrolled' \in BOOLEAN, UNCHANGED <<certs, valid>>,
           PkiTypeOK'
    PROVE  PkiKept
<1>1. OperatorKept
  BY DEF OperatorKept, PkiInv, RowsInv, RowsTypeOK
<1>2. RowsInv' /\ SeenKept /\ MarkedLate
  BY <1>1, RowKept DEF PkiInv
<1>3. AtMostOneActive' /\ PinnedHolds'
  BY DEF PkiInv, AtMostOneActive, PinnedHolds, rowRest
<1> QED BY <1>2, <1>3 DEF PkiInv, PkiKept

\* A handler's request, begun, moved on or ended.
LEMMA RequestMoves ==
    ASSUME PkiTypeOK, NEW h \in Handlers
    PROVE  /\ Blank \in Requests
           /\ req \in [Handlers -> Requests] /\ req[h] \in Requests
           /\ \A r \in Requests : [req EXCEPT ![h] = r] \in [Handlers -> Requests]
           /\ Refused(h) => req' \in [Handlers -> Requests] /\ waiting' \in Handlers \cup {Nobody}
<1>1. req \in [Handlers -> Requests]
  BY DEF PkiTypeOK, Requests, Steps
<1>2. Blank \in Requests
  <2>1. NoRow \in Row
    BY RowsAssumption DEF Row, NoRow, Statuses
  <2> QED BY <2>1 DEF Blank, Requests, Steps
<1>3. waiting \in Handlers \cup {Nobody}
  BY DEF PkiTypeOK
<1> QED BY <1>1, <1>2, <1>3 DEF Refused

\* The Agent or its installer asks for a certificate.
LEMMA AgentAsks ==
    ASSUME PkiInv, NEW h \in Handlers,
           InstallerAsks(h) \/ AgentRenews(h)
    PROVE  PkiKept
<1>0. PkiTypeOK /\ row \in Row /\ enrolled \in BOOLEAN
  BY DEF PkiInv, RowsInv, RowsTypeOK
<1>1. req \in [Handlers -> Requests] /\ Blank \in Requests
        /\ \A r \in Requests : [req EXCEPT ![h] = r] \in [Handlers -> Requests]
  BY <1>0, RequestMoves
<1>2. UNCHANGED <<row, undone>> /\ rowRest /\ enrolled' \in BOOLEAN /\ UNCHANGED <<certs, valid, tickets>>
  BY <1>0 DEF InstallerAsks, AgentRenews, panelKept
<1>3. faults' \in 0 .. MaxFaults
  BY <1>0, FaultsAssumption DEF InstallerAsks, AgentRenews, Disturbed, PkiTypeOK
<1>4. waiting' \in Handlers \cup {Nobody}
  BY <1>0 DEF InstallerAsks, AgentRenews, PkiTypeOK
<1>5. UNCHANGED agent
  BY DEF InstallerAsks, AgentRenews
<1>6. req' \in [Handlers -> Requests]
  <2>1. CASE InstallerAsks(h)
    <3>1. PICK kind \in {"issue", "enroll"} : req' = [req EXCEPT ![h] = [Blank EXCEPT !.step = "read", !.kind = kind]]
      BY <2>1 DEF InstallerAsks
    <3>2. [Blank EXCEPT !.step = "read", !.kind = kind] \in Requests
      BY <1>1 DEF Requests, Steps
    <3> QED BY <1>1, <3>1, <3>2
  <2>2. CASE AgentRenews(h)
    <3>1. req' = [req EXCEPT ![h] = [Blank EXCEPT !.step = "read", !.cred = agent.token]]
      BY <2>2 DEF AgentRenews
    <3>2. agent.token \in Tokens \cup {0}
      BY <1>0 DEF PkiTypeOK
    <3>3. [Blank EXCEPT !.step = "read", !.cred = agent.token] \in Requests
      BY <1>1, <3>2 DEF Requests, Steps
    <3> QED BY <1>1, <3>1, <3>3
  <2> QED BY <2>1, <2>2
<1>7. PkiTypeOK'
  BY <1>0, <1>2, <1>3, <1>4, <1>5, <1>6 DEF PkiTypeOK, Requests, Steps
<1> QED BY <1>2, <1>7, RestKept

\* The steps of a handler that write neither the row nor the certificates.
LEMMA HandlerTurns ==
    ASSUME PkiInv, NEW h \in Handlers,
           \/ HandlerReads(h) \/ TokenAccepted(h) \/ CredentialRefused(h) \/ RecordFails(h)
           \/ EnrollmentRecorded(h) \/ HandlerRereads(h) \/ AnswerInstalled(h) \/ AnswerLost(h)
    PROVE  PkiKept
<1>0. PkiTypeOK /\ row \in Row /\ enrolled \in BOOLEAN /\ alive \in BOOLEAN
  BY DEF PkiInv, RowsInv, RowsTypeOK
<1>1. req \in [Handlers -> Requests] /\ req[h] \in Requests /\ waiting \in Handlers \cup {Nobody}
        /\ \A r \in Requests : [req EXCEPT ![h] = r] \in [Handlers -> Requests]
        /\ (Refused(h) => req' \in [Handlers -> Requests] /\ waiting' \in Handlers \cup {Nobody})
  BY <1>0, RequestMoves DEF PkiTypeOK
<1>2. UNCHANGED <<row, undone>> /\ rowRest /\ enrolled' \in BOOLEAN /\ UNCHANGED <<certs, valid, tickets>>
  BY <1>0 DEF HandlerReads, TokenAccepted, CredentialRefused, RecordFails, EnrollmentRecorded,
              HandlerRereads, AnswerInstalled, AnswerLost, panelKept
<1>3. faults' \in 0 .. MaxFaults
  BY <1>0, FaultsAssumption DEF HandlerReads, TokenAccepted, CredentialRefused, RecordFails, EnrollmentRecorded,
              HandlerRereads, AnswerInstalled, AnswerLost, Disturbed, PkiTypeOK
<1>4. agent' \in [serial : Serials \cup {0}, token : Tokens \cup {0}, up : BOOLEAN]
  <2>1. CASE AnswerInstalled(h)
    <3>1. req[h].serial \in Serials \cup {0} /\ req[h].want \in Tokens \cup {0}
      BY <1>1 DEF Requests
    <3> QED BY <2>1, <3>1 DEF AnswerInstalled
  <2>2. CASE UNCHANGED agent
    BY <1>0, <2>2 DEF PkiTypeOK
  <2> QED BY <2>1, <2>2 DEF HandlerReads, TokenAccepted, CredentialRefused, RecordFails, EnrollmentRecorded,
              HandlerRereads, AnswerLost
<1>5. req' \in [Handlers -> Requests] /\ waiting' \in Handlers \cup {Nobody}
  <2>1. CASE Refused(h)
    BY <1>1, <2>1
  <2>2. CASE req' = [req EXCEPT ![h].step = "accept", ![h].copy = row] /\ UNCHANGED waiting
    <3>1. req' = [req EXCEPT ![h] = [req[h] EXCEPT !.step = "accept", !.copy = row]]
      BY <1>1, <2>2
    <3>2. [req[h] EXCEPT !.step = "accept", !.copy = row] \in Requests
      BY <1>0, <1>1 DEF Requests, Steps
    <3> QED BY <1>1, <2>2, <3>1, <3>2
  <2>3. CASE TokenAccepted(h)
    <3>1. req' = [req EXCEPT ![h] = [req[h] EXCEPT !.step = "record", !.want = req[h].copy.token,
                                                   !.copy = StatusOf(req[h].copy)]]
      BY <1>1, <2>3 DEF TokenAccepted
    <3>2. req[h].copy \in Row /\ req[h].copy.token \in Tokens \cup {0}
      BY <1>1 DEF Requests, Row
    <3>3. [req[h] EXCEPT !.step = "record", !.want = req[h].copy.token,
                         !.copy = StatusOf(req[h].copy)] \in Requests
      BY <1>1, <3>2, IdentityColumns DEF Requests, Steps
    <3> QED BY <1>1, <2>3, <3>1, <3>3 DEF TokenAccepted
  <2>4. ASSUME NEW s \in {"reread", "answer"}, req' = [req EXCEPT ![h].step = s], UNCHANGED waiting
        PROVE  req' \in [Handlers -> Requests] /\ waiting' \in Handlers \cup {Nobody}
    <3>1. req' = [req EXCEPT ![h] = [req[h] EXCEPT !.step = s]]
      BY <1>1, <2>4
    <3>2. [req[h] EXCEPT !.step = s] \in Requests
      BY <1>1 DEF Requests, Steps
    <3> QED BY <1>1, <2>4, <3>1, <3>2
  <2>5. CASE HandlerRereads(h)
    <3> DEFINE s == IF alive THEN "write" ELSE "answer"
    <3>1. req' = [req EXCEPT ![h] = [req[h] EXCEPT !.step = s, !.copy = row]]
      BY <1>1, <2>5 DEF HandlerRereads
    <3>2. [req[h] EXCEPT !.step = s, !.copy = row] \in Requests
      BY <1>0, <1>1 DEF Requests, Steps
    <3> QED BY <1>1, <2>5, <3>1, <3>2 DEF HandlerRereads
  <2>6. CASE EnrollmentRecorded(h)
    <3> DEFINE s == IF req[h].copy.status \in {"pending", "unauthorized"} THEN "reread" ELSE "answer"
    <3>1. (req' = [req EXCEPT ![h].step = s] /\ UNCHANGED waiting) \/ Refused(h)
      BY <2>6 DEF EnrollmentRecorded
    <3> QED BY <2>1, <2>4, <3>1
  <2>7. CASE HandlerReads(h)
    BY <2>1, <2>2, <2>7 DEF HandlerReads
  <2> QED BY <2>1, <2>3, <2>5, <2>6, <2>7 DEF CredentialRefused, RecordFails, AnswerInstalled, AnswerLost
<1>6. PkiTypeOK'
  BY <1>0, <1>2, <1>3, <1>4, <1>5 DEF PkiTypeOK, Requests, Steps
<1> QED BY <1>2, <1>6, RestKept

\* An identity that comes with a row that keeps the other columns.
LEMMA IdentityKept ==
    ASSUME PkiInv, OperatorKept, rowRest, enrolled' \in BOOLEAN, PkiTypeOK', AtMostOneActive', PinnedHolds'
    PROVE  PkiKept
BY RowKept DEF PkiInv, PkiKept

\* An enrolment token is taken; a node without a control token gets one.
LEMMA TicketStep ==
    ASSUME PkiInv, NEW h \in Handlers, TicketAccepted(h)
    PROVE  PkiKept
<1> DEFINE copy == req[h].copy
           want == IF copy.token = 0 THEN Fresh(FreshTokens) ELSE copy.token
<1>0. PkiTypeOK /\ row \in Row /\ enrolled \in BOOLEAN /\ alive \in BOOLEAN /\ RowsInv
  BY DEF PkiInv, RowsInv, RowsTypeOK
<1>1. req \in [Handlers -> Requests] /\ req[h] \in Requests /\ waiting \in Handlers \cup {Nobody}
        /\ \A r \in Requests : [req EXCEPT ![h] = r] \in [Handlers -> Requests]
        /\ (Refused(h) => req' \in [Handlers -> Requests] /\ waiting' \in Handlers \cup {Nobody})
  BY <1>0, RequestMoves DEF PkiTypeOK
<1>2. copy \in Row /\ copy.token \in Tokens \cup {0}
  BY <1>1 DEF Requests, Row
<1>3. want \in Tokens
  BY <1>2, FreshOne DEF TicketAccepted
<1>4. \/ UpdateNode(copy, [copy EXCEPT !.token = want])
      \/ UNCHANGED <<row, undone>>
  BY DEF TicketAccepted
<1>5. \/ req' = [req EXCEPT ![h].step = "record", ![h].want = want, ![h].copy = StatusOf(copy)] /\ UNCHANGED waiting
      \/ Refused(h)
  BY DEF TicketAccepted
<1>6. rowRest /\ enrolled' \in BOOLEAN /\ tickets' = 0 /\ UNCHANGED <<certs, valid, agent, faults>>
  BY <1>0 DEF TicketAccepted
<1> HIDE DEF copy, want
<1>7. [copy EXCEPT !.token = want] \in Row /\ [copy EXCEPT !.token = want].edit = copy.edit
        /\ [copy EXCEPT !.token = want].seen = copy.seen /\ [copy EXCEPT !.token = want].serial = copy.serial
  BY <1>2, <1>3, IdentityColumns DEF Row
<1>8. OperatorKept
  <2>1. CASE UNCHANGED <<row, undone>>
    BY <1>0, <2>1 DEF OperatorKept, RowsInv, RowsTypeOK
  <2> QED BY <1>0, <1>2, <1>4, <1>7, <2>1, CopyWrites
<1>9. row'.serial = row.serial \/ "identity" \in undone'
  BY <1>4, <1>7, SerialWritten
<1>10. PinnedHolds' /\ AtMostOneActive'
  BY <1>6, <1>8, <1>9 DEF PkiInv, PinnedHolds, AtMostOneActive, rowRest, OperatorKept
<1>11. req' \in [Handlers -> Requests] /\ waiting' \in Handlers \cup {Nobody}
  <2>1. CASE req' = [req EXCEPT ![h].step = "record", ![h].want = want, ![h].copy = StatusOf(copy)] /\ UNCHANGED waiting
    <3>1. req' = [req EXCEPT ![h] = [req[h] EXCEPT !.step = "record", !.want = want, !.copy = StatusOf(copy)]]
      BY <1>1, <2>1
    <3>2. [req[h] EXCEPT !.step = "record", !.want = want, !.copy = StatusOf(copy)] \in Requests
      BY <1>1, <1>2, <1>3, IdentityColumns DEF Requests, Steps
    <3> QED BY <1>1, <2>1, <3>1, <3>2
  <2> QED BY <1>1, <1>5, <2>1
<1>12. PkiTypeOK'
  BY <1>0, <1>6, <1>11 DEF PkiTypeOK, Requests, Steps
<1> QED BY <1>6, <1>8, <1>10, <1>12, IdentityKept

\* A certificate is signed: it is the active one, and the one the row pins.
LEMMA CertificateStep ==
    ASSUME PkiInv, NEW h \in Handlers, CertificateRecorded(h)
    PROVE  PkiKept
<1> DEFINE s == Fresh(FreshSerials)
<1>0. PkiTypeOK /\ row \in Row /\ enrolled \in BOOLEAN /\ alive \in BOOLEAN /\ RowsInv
  BY DEF PkiInv, RowsInv, RowsTypeOK
<1>1. req \in [Handlers -> Requests] /\ req[h] \in Requests
        /\ \A r \in Requests : [req EXCEPT ![h] = r] \in [Handlers -> Requests]
  BY <1>0, RequestMoves
<1>2. s \in Serials /\ s # 0
  BY FreshOne, RowsAssumption DEF CertificateRecorded
<1>3. /\ certs' = Recorded(s)
      /\ valid' = [t \in Serials |-> t = s \/ (valid[t] /\ t \notin FreshSerials)]
      /\ row' = IF alive THEN [row EXCEPT !.serial = s] ELSE row
      /\ rowRest /\ UNCHANGED <<enrolled, undone, tickets, waiting, agent, faults>>
  BY DEF CertificateRecorded, Bound
<1>4. PICK next \in {"reread", "answer"} :
          req' = [req EXCEPT ![h].step = next, ![h].serial = s, ![h].copy = NoRow]
  BY DEF CertificateRecorded
<1> HIDE DEF s
<1>5. certs' \in [Serials -> CertStatuses] /\ certs'[s] = "active"
        /\ \A t \in Serials : certs'[t] = "active" => t = s
  BY <1>0, <1>2, <1>3 DEF Recorded, PkiTypeOK, CertStatuses
<1>6. valid' \in [Serials -> BOOLEAN]
  BY <1>3
<1>7. req' \in [Handlers -> Requests]
  <2>1. req' = [req EXCEPT ![h] = [req[h] EXCEPT !.step = next, !.serial = s, !.copy = NoRow]]
    BY <1>1, <1>4
  <2>2. [req[h] EXCEPT !.step = next, !.serial = s, !.copy = NoRow] \in Requests
    BY <1>0, <1>1, <1>2, IdentityColumns DEF Requests, Steps
  <2> QED BY <1>1, <2>1, <2>2
<1>8. PkiTypeOK'
  BY <1>0, <1>3, <1>5, <1>6, <1>7 DEF PkiTypeOK, Requests, Steps, CertStatuses
<1>9. row' \in Row /\ row'.edit = row.edit /\ row'.seen = row.seen /\ (alive => row'.serial = s)
  <2>1. CASE alive
    <3>1. row' = [row EXCEPT !.serial = s]
      BY <1>3, <2>1
    <3> QED BY <1>0, <1>2, <3>1, IdentityColumns DEF Row
  <2>2. CASE ~alive
    BY <1>0, <1>3, <2>2
  <2> QED BY <2>1, <2>2
<1>10. OperatorKept
  BY <1>0, <1>3, <1>9 DEF OperatorKept, RowsInv, RowsTypeOK
<1>11. AtMostOneActive' /\ PinnedHolds'
  BY <1>3, <1>5, <1>9 DEF AtMostOneActive, PinnedHolds, rowRest
<1> QED BY <1>0, <1>3, <1>8, <1>10, <1>11, IdentityKept

\* A handler writes its copy of the row.
LEMMA WriteStep ==
    ASSUME PkiInv, NEW h \in Handlers, HandlerWrites(h)
    PROVE  PkiKept
<1> DEFINE copy == req[h].copy
<1>0. PkiTypeOK /\ row \in Row /\ enrolled \in BOOLEAN /\ alive \in BOOLEAN /\ RowsInv
  BY DEF PkiInv, RowsInv, RowsTypeOK
<1>1. req \in [Handlers -> Requests] /\ req[h] \in Requests
        /\ \A r \in Requests : [req EXCEPT ![h] = r] \in [Handlers -> Requests]
  BY <1>0, RequestMoves
<1>2. copy \in Row
  BY <1>1 DEF Requests
<1>3. PICK new \in {copy, [copy EXCEPT !.status = "unknown"]} : UpdateNode(copy, new)
  BY DEF HandlerWrites
<1>4. /\ req' = [req EXCEPT ![h].step = "answer", ![h].copy = NoRow]
      /\ rowRest /\ UNCHANGED <<enrolled, certs, valid, tickets, waiting, agent, faults>>
  BY DEF HandlerWrites
<1> HIDE DEF copy
<1>5. new \in Row /\ new.edit = copy.edit /\ new.seen = copy.seen /\ new.serial = copy.serial
  BY <1>2, <1>3, IdentityColumns DEF Row
<1>6. OperatorKept
  BY <1>0, <1>2, <1>3, <1>5, CopyWrites
<1>7. row'.serial = row.serial \/ "identity" \in undone'
  BY <1>3, <1>5, SerialWritten
<1>8. PinnedHolds' /\ AtMostOneActive'
  BY <1>4, <1>6, <1>7 DEF PkiInv, PinnedHolds, AtMostOneActive, rowRest, OperatorKept
<1>9. req' \in [Handlers -> Requests]
  <2>1. req' = [req EXCEPT ![h] = [req[h] EXCEPT !.step = "answer", !.copy = NoRow]]
    BY <1>1, <1>4
  <2>2. [req[h] EXCEPT !.step = "answer", !.copy = NoRow] \in Requests
    BY <1>0, <1>1, IdentityColumns DEF Requests, Steps
  <2> QED BY <1>1, <2>1, <2>2
<1>10. PkiTypeOK'
  BY <1>0, <1>4, <1>9 DEF PkiTypeOK, Requests, Steps
<1> QED BY <1>0, <1>4, <1>6, <1>8, <1>10, IdentityKept

\* The administrator, and what a list of the certificates sweeps.
LEMMA AdministratorSteps ==
    ASSUME PkiInv,
           \/ \E s \in Serials : Expires(s) \/ Revokes(s)
           \/ InstallCommand \/ TicketExpires \/ SweepsCertificates \/ SweepsNode
    PROVE  PkiKept
<1>0. PkiTypeOK /\ row \in Row /\ enrolled \in BOOLEAN /\ alive \in BOOLEAN /\ RowsInv
        /\ AtMostOneActive /\ PinnedHolds
  BY DEF PkiInv, RowsInv, RowsTypeOK
<1>1. Disturbed => faults' \in 0 .. MaxFaults
  BY <1>0, FaultsAssumption DEF Disturbed, PkiTypeOK
<1>2. ASSUME UNCHANGED <<row, undone>> PROVE OperatorKept
  BY <1>0, <1>2 DEF OperatorKept, RowsInv, RowsTypeOK
<1>3. ASSUME NEW s \in Serials, Expires(s) PROVE PkiKept
  <2>1. valid' = [valid EXCEPT ![s] = FALSE] /\ panelKept /\ UNCHANGED <<certs, tickets, req, waiting, agent>>
          /\ Disturbed
    BY <1>3 DEF Expires
  <2>2. valid' \in [Serials -> BOOLEAN] /\ \A t \in Serials : valid'[t] => valid[t]
    BY <1>0, <2>1 DEF PkiTypeOK
  <2>3. PkiTypeOK'
    BY <1>0, <1>1, <2>1, <2>2 DEF PkiTypeOK
  <2>4. row.serial \in Serials \cup {0}
    BY <1>0 DEF Row
  <2>5. PinnedHolds' /\ AtMostOneActive'
    BY <1>0, <2>1, <2>2, <2>4 DEF PinnedHolds, AtMostOneActive, panelKept, rowRest
  <2> QED BY <1>0, <1>2, <2>1, <2>3, <2>5, IdentityKept DEF panelKept
<1>4. ASSUME NEW s \in Serials, Revokes(s) PROVE PkiKept
  <2>1. certs' = [certs EXCEPT ![s] = "revoked"] /\ row' = Released(s) /\ rowRest /\ Disturbed
          /\ UNCHANGED <<enrolled, undone, valid, tickets, req, waiting, agent>>
    BY <1>4 DEF Revokes
  <2>2. certs' \in [Serials -> CertStatuses] /\ certs'[s] = "revoked"
          /\ \A t \in Serials \ {s} : certs'[t] = certs[t]
    BY <1>0, <2>1 DEF PkiTypeOK, CertStatuses
  <2>3. PkiTypeOK'
    BY <1>0, <1>1, <2>1, <2>2 DEF PkiTypeOK, CertStatuses
  <2>4. row' \in Row /\ row'.edit = row.edit /\ row'.seen = row.seen
          /\ (alive => row'.serial = IF row.serial = s THEN 0 ELSE row.serial)
    <3>1. CASE alive /\ row.serial = s
      <4>1. row' = [row EXCEPT !.serial = 0, !.token = 0, !.status = "unauthorized"]
        BY <2>1, <3>1 DEF Released
      <4>2. row' \in Row
        BY <1>0, <4>1, IdentityColumns
      <4> QED BY <1>0, <3>1, <4>1, <4>2 DEF Row
    <3>2. CASE ~(alive /\ row.serial = s)
      BY <1>0, <2>1, <3>2 DEF Released
    <3> QED BY <3>1, <3>2
  <2>5. OperatorKept
    BY <1>0, <2>1, <2>4 DEF OperatorKept, RowsInv, RowsTypeOK
  <2>6. row.serial \in Serials \cup {0}
    BY <1>0 DEF Row
  <2>7. PinnedHolds'
    BY <1>0, <2>1, <2>2, <2>4, <2>6 DEF PinnedHolds, rowRest
  <2>8. AtMostOneActive'
    BY <1>0, <2>2 DEF AtMostOneActive
  <2> QED BY <1>0, <2>1, <2>3, <2>5, <2>7, <2>8, IdentityKept
<1>5. CASE InstallCommand \/ TicketExpires
  <2>1. panelKept /\ UNCHANGED <<certs, valid, req, waiting, agent>> /\ tickets' \in 0 .. 1
          /\ (Disturbed \/ UNCHANGED faults)
    BY <1>5 DEF InstallCommand, TicketExpires
  <2>2. PkiTypeOK'
    BY <1>0, <1>1, <2>1 DEF PkiTypeOK
  <2> QED BY <1>0, <2>1, <2>2, RestKept DEF panelKept
<1>6. CASE SweepsCertificates
  <2>1. certs' = [s \in Serials |-> IF certs[s] = "active" /\ ~valid[s] THEN "expired" ELSE certs[s]]
          /\ panelKept /\ UNCHANGED <<valid, tickets, req, waiting, agent, faults>>
    BY <1>6 DEF SweepsCertificates
  <2>2. certs' \in [Serials -> CertStatuses]
          /\ \A s \in Serials : /\ valid[s] => certs'[s] = certs[s]
                                /\ certs'[s] = "active" => certs[s] = "active"
    BY <1>0, <2>1 DEF PkiTypeOK, CertStatuses
  <2>3. PkiTypeOK'
    BY <1>0, <2>1, <2>2 DEF PkiTypeOK, CertStatuses
  <2>4. row.serial \in Serials \cup {0}
    BY <1>0 DEF Row
  <2>5. PinnedHolds' /\ AtMostOneActive'
    BY <1>0, <2>1, <2>2, <2>4 DEF PinnedHolds, AtMostOneActive, panelKept, rowRest
  <2> QED BY <1>0, <1>2, <2>1, <2>3, <2>5, IdentityKept DEF panelKept
<1>7. CASE SweepsNode
  <2>1. row' = [row EXCEPT !.serial = 0, !.status = "unauthorized"] /\ rowRest
          /\ UNCHANGED <<enrolled, undone, certs, valid, tickets, req, waiting, agent, faults>>
    BY <1>7 DEF SweepsNode
  <2>2. row' \in Row
    BY <1>0, <2>1, IdentityColumns
  <2>3. row'.edit = row.edit /\ row'.seen = row.seen /\ row'.serial = 0
    BY <1>0, <2>1 DEF Row
  <2>4. OperatorKept
    BY <1>0, <2>1, <2>2, <2>3 DEF OperatorKept, RowsInv, RowsTypeOK
  <2>5. PkiTypeOK'
    BY <1>0, <2>1 DEF PkiTypeOK
  <2>6. PinnedHolds' /\ AtMostOneActive'
    BY <1>0, <2>1, <2>3 DEF PinnedHolds, AtMostOneActive
  <2> QED BY <1>0, <2>1, <2>4, <2>5, <2>6, IdentityKept
<1> QED BY <1>3, <1>4, <1>5, <1>6, <1>7

\* The operator edits or deletes the node: its serial stays.
LEMMA RowWritersStep ==
    ASSUME PkiInv, RowWriters
    PROVE  PkiKept
<1>0. PkiTypeOK /\ row \in Row /\ RowsInv /\ AtMostOneActive /\ PinnedHolds
  BY DEF PkiInv, RowsInv, RowsTypeOK
<1>1. RowsInv' /\ SeenKept /\ MarkedLate
  BY <1>0, RowsStep DEF RowWriters, RowsNext
<1>2. PkiTypeOK'
  BY <1>0, FaultsAssumption DEF RowWriters, Disturbed, PkiTypeOK
<1>3. row'.serial = row.serial /\ (alive' => alive) /\ UNCHANGED undone
  <2>1. CASE EditNode
    <3>1. PICK address \in {"kept", "given", "cleared"}, token \in Tokens \cup {0} :
              OperatorFields(row.mode, address, token)
      BY <2>1 DEF EditNode
    <3> QED BY <1>0, <2>1, <3>1 DEF EditNode, OperatorFields, Row
  <2>2. CASE DeleteNode
    BY <2>2 DEF DeleteNode
  <2> QED BY <2>1, <2>2 DEF RowWriters
<1>4. PinnedHolds' /\ AtMostOneActive'
  BY <1>0, <1>3 DEF RowWriters, PinnedHolds, AtMostOneActive
<1> QED BY <1>1, <1>2, <1>4 DEF PkiInv, PkiKept

LEMMA PkiStep ==
    ASSUME PkiInv, PkiNext
    PROVE  PkiKept
<1>1. ASSUME NEW h \in Handlers, InstallerAsks(h) \/ AgentRenews(h) \/ HandlerStep(h)
      PROVE  PkiKept
  BY <1>1, AgentAsks, HandlerTurns, TicketStep, CertificateStep, WriteStep DEF HandlerStep
<1>2. CASE GivesUp \/ AgentRestarts
  <2>1. UNCHANGED <<row, undone>> /\ rowRest /\ UNCHANGED <<enrolled, certs, valid, tickets, req>> /\ Disturbed
    BY <1>2 DEF GivesUp, AgentRestarts, panelKept
  <2>2. PkiTypeOK /\ enrolled \in BOOLEAN
    BY DEF PkiInv, RowsInv, RowsTypeOK
  <2>3. agent' \in [serial : Serials \cup {0}, token : Tokens \cup {0}, up : BOOLEAN]
    <3>1. CASE AgentRestarts
      <4>1. agent' = [agent EXCEPT !.up = agent.serial # 0 => valid[agent.serial]]
        BY <3>1 DEF AgentRestarts
      <4>2. (agent.serial # 0 => valid[agent.serial]) \in BOOLEAN
        OBVIOUS
      <4> QED BY <2>2, <4>1, <4>2 DEF PkiTypeOK
    <3>2. CASE UNCHANGED agent
      BY <2>2, <3>2 DEF PkiTypeOK
    <3> QED BY <1>2, <3>1, <3>2 DEF GivesUp
  <2>4. waiting' = Nobody
    BY <1>2 DEF GivesUp, AgentRestarts
  <2>5. PkiTypeOK'
    BY <2>1, <2>2, <2>3, <2>4, FaultsAssumption DEF PkiTypeOK, Disturbed
  <2> QED BY <2>1, <2>2, <2>5, RestKept
<1>3. CASE \/ \E s \in Serials : Expires(s) \/ Revokes(s)
           \/ InstallCommand \/ TicketExpires \/ SweepsCertificates \/ SweepsNode
  BY <1>3, AdministratorSteps
<1>4. CASE RowWriters
  BY <1>4, RowWritersStep
<1> QED BY <1>1, <1>2, <1>3, <1>4 DEF PkiNext

(***************************************************************************)
(* The theorems about the identity, alone and beside the other writers.    *)
(***************************************************************************)

LEMMA InitialIdentity ==
    ASSUME RowsInit, PkiInit
    PROVE  PkiInv /\ \A s \in Serials : ~valid[s]
<1>1. RowsInv
  BY InitialRows
<1>2. row.serial = 0
  BY DEF RowsInit
<1>3. certs = [s \in Serials |-> "none"] /\ valid = [s \in Serials |-> FALSE]
  BY DEF PkiInit
<1>4. NoRow \in Row
  BY RowsAssumption DEF NoRow, Row, Statuses
<1>5. PkiTypeOK
  <2>1. req \in [Handlers -> Requests]
    BY <1>4 DEF PkiInit, Blank, Requests, Steps
  <2>2. certs \in [Serials -> CertStatuses] /\ valid \in [Serials -> BOOLEAN]
    BY <1>3 DEF CertStatuses
  <2>3. agent \in [serial : Serials \cup {0}, token : Tokens \cup {0}, up : BOOLEAN]
    BY DEF PkiInit
  <2>4. tickets \in 0 .. 1 /\ waiting \in Handlers \cup {Nobody} /\ faults \in 0 .. MaxFaults
    BY FaultsAssumption DEF PkiInit
  <2> QED BY <2>1, <2>2, <2>3, <2>4 DEF PkiTypeOK, Requests, Steps, CertStatuses
<1>6. AtMostOneActive
  BY <1>3 DEF AtMostOneActive
<1>7. PinnedHolds
  BY <1>2 DEF PinnedHolds
<1> QED BY <1>1, <1>3, <1>5, <1>6, <1>7 DEF PkiInv

\* At most one active certificate, as a cardinality.
LEMMA OneActive ==
    ASSUME PkiInv
    PROVE  PinnedIsActive
<1> DEFINE A == {s \in Serials : certs[s] = "active"}
<1>1. Cardinality(A) <= 1
  <2>1. CASE A = {}
    BY <2>1, FS_EmptySet
  <2>2. CASE A # {}
    <3>1. PICK s \in A : TRUE
      BY <2>2
    <3>2. A = {s}
      BY <3>1 DEF PkiInv, AtMostOneActive
    <3>3. Cardinality(A) = 1
      BY <3>2, FS_Singleton
    <3> QED BY <3>3
  <2> QED BY <2>1, <2>2
<1>2. row.serial # 0 /\ alive /\ valid[row.serial] =>
          certs[row.serial] = "active" \/ "identity" \in undone
  BY DEF PkiInv, PinnedHolds
<1> QED BY <1>1, <1>2 DEF PinnedIsActive

LEMMA PkiStutter ==
    ASSUME PkiInv, UNCHANGED pkiAll
    PROVE  PkiKept
<1>1. UNCHANGED rowVars /\ UNCHANGED <<certs, valid, tickets, req, waiting, agent, faults>>
  BY DEF pkiAll, pkiVars
<1>2. UNCHANGED <<row, alive, enrolled, sess, clock, reports, edits, undone>>
  BY <1>1 DEF rowVars
<1>3. RowsInv'
  BY <1>1, RowsStutter DEF PkiInv
<1>4. PkiTypeOK' /\ AtMostOneActive' /\ PinnedHolds'
  BY <1>1, <1>2 DEF PkiInv, PkiTypeOK, AtMostOneActive, PinnedHolds
<1>5. row \in Row
  BY DEF PkiInv, RowsInv, RowsTypeOK
<1>6. SeenKept /\ MarkedLate
  BY <1>2, <1>5 DEF SeenKept, MarkedLate, Row
<1> QED BY <1>3, <1>4, <1>6 DEF PkiInv, PkiKept

THEOREM PkiInvariant == PkiSpec => []PkiInv
<1>1. RowsInit /\ PkiInit => PkiInv
  BY InitialIdentity
<1>2. PkiInv /\ [PkiNext]_pkiAll => PkiInv'
  BY PkiStep, PkiStutter DEF PkiKept
<1> QED BY <1>1, <1>2, PTL DEF PkiSpec

\* Whatever requests, renewals, revocations and faults there are, the Panel's and the Agent's
\* records of the identity stay ones the code can hold.
THEOREM PkiTypeCorrect == PkiSpec => []PkiTypeOK
<1>1. PkiInv => PkiTypeOK
  BY DEF PkiInv
<1> QED BY PkiInvariant, <1>1, PTL

\* For any number of handlers, serials and faults: one active certificate at most, and the serial
\* the Panel pins is its serial, unless a write of an older copy of the row brought an old one
\* back or its time is over.
THEOREM PinnedAlwaysActive == PkiSpec => []PinnedIsActive
<1>1. PkiInv => PinnedIsActive
  BY OneActive
<1> QED BY PkiInvariant, <1>1, PTL

\* The behaviours of the run: those of the writers, whose certificates are all to come, and
\* those of the identity.
NodesInv == PkiInv /\ part \in {"reports", "pki"} /\ (part = "reports" => \A s \in Serials : ~valid[s])

LEMMA NodesStep ==
    ASSUME NodesInv, [Next]_<<pkiAll, part>>
    PROVE  NodesInv' /\ SeenKept /\ MarkedLate
<1>1. CASE part = "reports" /\ RowsNext /\ UNCHANGED pkiVars /\ UNCHANGED part
  <2>1. RowsInv' /\ SeenKept /\ MarkedLate
    BY <1>1, RowsStep DEF NodesInv, PkiInv
  <2>2. UNCHANGED <<certs, valid, tickets, req, waiting, agent, faults>>
    BY <1>1 DEF pkiVars
  <2>3. row' \in Row
    BY <2>1 DEF RowsInv, RowsTypeOK
  <2>4. row'.serial \in Serials \cup {0}
    BY <2>3 DEF Row
  <2>5. PinnedHolds' /\ AtMostOneActive' /\ PkiTypeOK'
    BY <1>1, <2>2, <2>4 DEF NodesInv, PkiInv, PinnedHolds, AtMostOneActive, PkiTypeOK
  <2> QED BY <1>1, <2>1, <2>2, <2>5 DEF NodesInv, PkiInv
<1>2. CASE part = "pki" /\ PkiNext /\ UNCHANGED part
  BY <1>2, PkiStep DEF NodesInv, PkiKept
<1>3. CASE UNCHANGED <<pkiAll, part>>
  <2>1. PkiKept
    BY <1>3, PkiStutter DEF NodesInv
  <2>2. UNCHANGED <<valid, part>>
    BY <1>3 DEF pkiAll, pkiVars
  <2> QED BY <2>1, <2>2 DEF NodesInv, PkiKept
<1> QED BY <1>1, <1>2, <1>3 DEF Next

THEOREM NodesInvariant == Spec => []NodesInv
<1>1. Init => NodesInv
  BY InitialIdentity DEF Init, NodesInv
<1>2. NodesInv /\ [Next]_<<pkiAll, part>> => NodesInv'
  BY NodesStep
<1> QED BY <1>1, <1>2, PTL DEF Spec

\* Only the rows and identities the code can hold.
THEOREM NodesTypeCorrect == Spec => []TypeOK
<1>1. NodesInv => TypeOK
  BY DEF NodesInv, PkiInv, RowsInv, TypeOK
<1> QED BY NodesInvariant, <1>1, PTL

\* No order of reports lets an older one replace a newer one, and only a silent node is marked,
\* the writes of the identity's handlers included.
THEOREM ReportsWinBesideIdentity == Spec => ReportsWin
<1>1. NodesInv /\ [Next]_<<pkiAll, part>> =>
          [ /\ row'.seen >= row.seen \/ "seen" \in undone'
            /\ \A w \in Writers :
                   sess[w].op = "mark" /\ sess'[w] # sess[w] /\ row'.status # row.status =>
                       clock - row.seen > Stale ]_rowVars
  BY NodesStep DEF SeenKept, MarkedLate
<1> QED BY NodesInvariant, <1>1, PTL DEF Spec, ReportsWin
===============================================================================
