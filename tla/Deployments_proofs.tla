-------------------------- MODULE Deployments_proofs --------------------------
(***************************************************************************)
(* Proofs about the records of a managed domain and about the deployment   *)
(* of a proxy chain, for any values, nodes and hops and any number of      *)
(* edits, requests and failures.                                           *)
(***************************************************************************)
EXTENDS MCDeployments, WellFoundedInduction, TLAPS

DnsSpec == DnsInit /\ [][DnsNext]_dnsVars

(***************************************************************************)
(* The records of a managed domain: types.                                 *)
(***************************************************************************)

Jobs == [pc : {"idle", "clean", "look", "upsert", "write"}, copy : Row,
         left : SUBSET Types, ok : BOOLEAN]

\* A row that exists has a mode, and so has every copy that may be written back; the
\* handler and the job have copies of rows that existed.
RowsUsable ==
    /\ domain.exists => domain.mode \in Modes
    /\ request.pc = "edit" => request.copy.exists
    /\ job.pc # "idle" => job.copy.exists /\ job.copy.mode \in Modes
    /\ job.pc = "clean" => job.left = job.copy.mode

DnsTypes == DnsTypeOK /\ RowsUsable

\* The empty row is one, and so is one with other values of its columns.
LEMMA RowColumns ==
    ASSUME NEW r \in Row
    PROVE  /\ NoDomain \in Row
           /\ \A m \in Modes, e, a \in BOOLEAN :
                  /\ [r EXCEPT !.mode = m, !.enabled = e, !.manual = a] \in Row
                  /\ [NoDomain EXCEPT !.exists = TRUE, !.enabled = e, !.mode = m, !.manual = a] \in Row
           /\ [r EXCEPT !.enabled = FALSE] \in Row
           /\ \A d \in [Types -> Values \cup {0}], c \in [Types -> BOOLEAN] :
                  [r EXCEPT !.desired = d, !.created = c] \in Row
BY DEF Row, NoDomain

\* What the provider's calls leave in the zone are records.
LEMMA RecordsTyped ==
    ASSUME DnsTypeOK
    PROVE  /\ \A t \in Types, v \in Values : Upserted(t, v) =>
                  zone' \in [Types -> SUBSET Values] /\ written' \in [Types -> Values \cup {0}]
           /\ \A ts, values : Deleted(ts, values) =>
                  zone' \in [Types -> SUBSET Values] /\ written' \in [Types -> Values \cup {0}]
<1> USE DEF DnsTypeOK
<1>1. ASSUME NEW t \in Types, NEW v \in Values, Upserted(t, v)
      PROVE  zone' \in [Types -> SUBSET Values] /\ written' \in [Types -> Values \cup {0}]
  BY <1>1 DEF Upserted
<1>2. ASSUME NEW ts, NEW values, Deleted(ts, values)
      PROVE  zone' \in [Types -> SUBSET Values] /\ written' \in [Types -> Values \cup {0}]
  BY <1>2 DEF Deleted
<1> QED BY <1>1, <1>2

\* The type the job works at is one of those left, and the job's next step is one of its steps.
LEMMA CurrentLeft ==
    ASSUME DnsTypeOK, job.pc \in {"look", "upsert"}
    PROVE  /\ Current \in job.left /\ Current \in Types
           /\ job.copy.desired[Current] \in Values
           /\ TypeDone \in Jobs
           /\ TypeDone.pc \in {"look", "upsert"} =>
                  TypeDone.left # {} /\ \A t \in TypeDone.left : TypeDone.copy.desired[t] # 0
           /\ TypeDone.copy = job.copy /\ TypeDone.left = job.left \ {Current}
           /\ TypeDone.pc = IF job.left = {Current} THEN "write" ELSE "look"
<1> USE DEF DnsTypeOK
<1>1. job.left # {} /\ job.left \subseteq Types
  OBVIOUS
<1>2. Current \in job.left
  BY <1>1 DEF Current
<1>3. job.copy.desired \in [Types -> Values \cup {0}]
  BY DEF Row
<1>4. TypeDone = [job EXCEPT !.left = job.left \ {Current},
                             !.pc = IF job.left = {Current} THEN "write" ELSE "look"]
  BY DEF TypeDone
<1>5. TypeDone \in Jobs /\ TypeDone.copy = job.copy /\ TypeDone.left = job.left \ {Current}
        /\ TypeDone.pc = IF job.left = {Current} THEN "write" ELSE "look"
  BY <1>4 DEF Jobs
<1>6. job.copy.desired[Current] \in Values
  <2>1. Current \in Types /\ job.copy.desired[Current] # 0
    BY <1>1, <1>2
  <2> QED BY <1>3, <2>1
<1> HIDE DEF DnsTypeOK
<1>7. ASSUME TypeDone.pc \in {"look", "upsert"}
      PROVE  TypeDone.left # {} /\ \A t \in TypeDone.left : TypeDone.copy.desired[t] # 0
  <2>1. job.left # {Current}
    BY <1>5, <1>7
  <2>2. \A t \in job.left : job.copy.desired[t] # 0
    BY DEF DnsTypeOK
  <2> QED BY <1>2, <1>5, <2>1, <2>2
<1>8. Current \in Types
  BY <1>1, <1>2
<1> QED BY <1>2, <1>5, <1>6, <1>7, <1>8

LEMMA DnsInitTypes == DnsInit => DnsTypes
<1> SUFFICES ASSUME DnsInit PROVE DnsTypes
  OBVIOUS
<1> USE DnsAssumption DEF DnsInit
<1>1. NoDomain \in Row
  BY DEF Row, NoDomain
<1>2. domain \in Row /\ domain.mode \in Modes
  <2>1. PICK m \in Modes, e, a \in BOOLEAN :
            domain = [NoDomain EXCEPT !.exists = TRUE, !.enabled = e, !.mode = m, !.manual = a]
    OBVIOUS
  <2>2. domain \in Row
    BY <1>1, <2>1, RowColumns
  <2>3. domain.mode = m
    BY <2>1 DEF NoDomain
  <2> QED BY <2>2, <2>3
<1>3. address \in [Types -> Values]
  OBVIOUS
<1>4. zone \in [Types -> SUBSET Values]
  <2>1. (CHOOSE v \in Values : TRUE) \in Values
    OBVIOUS
  <2> QED BY <2>1
<1>5. job \in Jobs /\ job.pc = "idle"
  BY <1>1 DEF NoReconcile, Jobs
<1>6. cleanup \in [pc : {"none", "queued", "delete", "drop"}, copy : Row]
  BY <1>1 DEF NoCleanup
<1>7. request \in [pc : {"none", "edit"}, copy : Row] /\ request.pc = "none"
  BY <1>1 DEF NoRequest
<1>8. written \in [Types -> Values \cup {0}] /\ edits \in 0 .. MaxEdits /\ failed \in 0 .. MaxFailed
  OBVIOUS
<1> QED BY <1>2, <1>3, <1>4, <1>5, <1>6, <1>7, <1>8 DEF DnsTypes, DnsTypeOK, RowsUsable, Jobs

\* The counters stay within their bounds.
LEMMA CountersTyped ==
    ASSUME DnsTypeOK
    PROVE  /\ Failed => failed' \in 0 .. MaxFailed /\ failed' # 0
           /\ Edit => edits' \in 0 .. MaxEdits
           /\ InTurn => failed' \in 0 .. MaxFailed
BY DnsAssumption DEF DnsTypeOK, Failed, Edit, InTurn

\* The steps of the reconcile job.
LEMMA ReconcileTypes == DnsTypes /\ ReconcileStep => DnsTypes'
<1> SUFFICES ASSUME DnsTypes, ReconcileStep PROVE DnsTypes'
  BY Zenon
<1> USE DEF DnsTypes
<1>0. DnsTypeOK /\ job \in Jobs /\ NoDomain \in Row /\ domain \in Row
  BY RowColumns DEF DnsTypeOK, Jobs
<1>1. CASE ReconcileBegins
  <2>1. domain.mode \subseteq Types /\ domain.mode \in Modes /\ domain.exists
    BY <1>1, DnsAssumption DEF ReconcileBegins, RowsUsable, Types
  <2>2. job' \in Jobs /\ job'.pc = "clean" /\ job'.copy = domain /\ job'.left = domain.mode
    BY <1>0, <1>1, <2>1 DEF ReconcileBegins, Jobs
  <2>3. failed' \in 0 .. MaxFailed
    <3>1. Failed \/ failed' = failed
      BY <1>1 DEF ReconcileBegins
    <3>2. failed \in 0 .. MaxFailed
      BY <1>0 DEF DnsTypeOK
    <3> QED BY <1>0, <3>1, <3>2, CountersTyped
  <2> QED BY <1>1, <2>1, <2>2, <2>3 DEF ReconcileBegins, DnsTypeOK, RowsUsable, Jobs
<1>2. CASE ReconcileCleans
  <2> DEFINE d == [t \in Types |-> IF t \in job.copy.mode THEN Resolved[t] ELSE 0]
             c == [t \in Types |-> t \in job.copy.mode /\ job.copy.created[t]]
  <2>1. job' = [job EXCEPT !.pc = "look", !.copy = [job.copy EXCEPT !.desired = d, !.created = c]]
    BY <1>0, <1>2 DEF ReconcileCleans, Jobs, Row
  <2>2. \A t \in Types : Resolved[t] \in Values \cup {0} /\ (t \in job.copy.mode => Resolved[t] \in Values)
    BY <1>0 DEF Resolved, DnsTypeOK
  <2>3. d \in [Types -> Values \cup {0}] /\ c \in [Types -> BOOLEAN]
    BY <2>2
  <2>4. \A t \in job.copy.mode \cap Types : d[t] # 0
    BY <2>2, DnsAssumption
  <2> HIDE DEF d, c
  <2>5. [job.copy EXCEPT !.desired = d, !.created = c] \in Row
    BY <1>0, <2>3, RowColumns DEF Jobs
  <2>6. job.left = job.copy.mode /\ job.copy.mode \in Modes /\ job.copy.exists
    BY <1>2 DEF ReconcileCleans, RowsUsable
  <2>7. job.left # {} /\ job.left \subseteq Types
    BY <2>6, DnsAssumption DEF Types
  <2>8. job' \in Jobs /\ job'.left = job.left /\ job'.pc = "look"
          /\ job'.copy.exists /\ job'.copy.mode \in Modes /\ job'.copy.desired = d
    BY <1>0, <2>1, <2>5, <2>6 DEF Jobs, Row
  <2>9. zone' \in [Types -> SUBSET Values] /\ written' \in [Types -> Values \cup {0}]
    BY <1>0, <1>2, RecordsTyped DEF ReconcileCleans
  <2> QED BY <1>2, <2>4, <2>6, <2>7, <2>8, <2>9 DEF ReconcileCleans, DnsTypeOK, RowsUsable, Jobs
<1>3. CASE ReconcileCleanFails
  <2>1. failed' \in 0 .. MaxFailed
    BY <1>0, <1>3, CountersTyped DEF ReconcileCleanFails
  <2>2. job.copy.exists /\ job.copy.mode \in Modes
    BY <1>3 DEF ReconcileCleanFails, RowsUsable
  <2>3. CASE job' = [job EXCEPT !.pc = "write", !.ok = FALSE] /\ UNCHANGED <<zone, written>>
    <3>1. job' \in Jobs /\ job'.pc = "write" /\ job'.copy = job.copy
      BY <1>0, <2>3 DEF Jobs
    <3> QED BY <1>3, <2>1, <2>2, <2>3, <3>1 DEF ReconcileCleanFails, DnsTypeOK, RowsUsable, Jobs
  <2>4. ASSUME NEW gone \in SUBSET Types, NEW q,
               Deleted(Unused \cap q, job.copy.desired),
               job' = [job EXCEPT !.pc = "write", !.ok = FALSE,
                     !.copy.desired = [t \in Types |-> IF t \in gone THEN 0 ELSE Resolved[t]],
                     !.copy.created = [t \in Types |-> @[t] /\ t \notin gone]]
        PROVE  DnsTypes'
    <3> DEFINE d == [t \in Types |-> IF t \in gone THEN 0 ELSE Resolved[t]]
               c == [t \in Types |-> job.copy.created[t] /\ t \notin gone]
    <3>1. job' = [job EXCEPT !.pc = "write", !.ok = FALSE, !.copy = [job.copy EXCEPT !.desired = d, !.created = c]]
      BY <1>0, <2>4 DEF Jobs, Row
    <3>2. d \in [Types -> Values \cup {0}] /\ c \in [Types -> BOOLEAN]
      BY <1>0 DEF Resolved, DnsTypeOK
    <3> HIDE DEF d, c
    <3>3. [job.copy EXCEPT !.desired = d, !.created = c] \in Row
      BY <1>0, <3>2, RowColumns DEF Jobs
    <3>4. job' \in Jobs /\ job'.pc = "write" /\ job'.copy.exists /\ job'.copy.mode \in Modes
      BY <1>0, <2>2, <3>1, <3>3 DEF Jobs, Row
    <3>5. zone' \in [Types -> SUBSET Values] /\ written' \in [Types -> Values \cup {0}]
      BY <1>0, <2>4, RecordsTyped
    <3> QED BY <1>3, <2>1, <3>4, <3>5 DEF ReconcileCleanFails, DnsTypeOK, RowsUsable, Jobs
  <2>5. ASSUME NEW p \in TypePrefixes PROVE p \ job.copy.mode \in SUBSET Types
    BY DEF TypePrefixes, Types
  <2> QED BY <1>3, <2>3, <2>4, <2>5 DEF ReconcileCleanFails
<1>4. CASE ReconcileLooks
  <2>0. /\ UNCHANGED <<domain, address, zone, cleanup, request, written, edits, failed>>
        /\ job.copy.exists /\ job.copy.mode \in Modes /\ job.pc = "look"
    BY <1>4 DEF ReconcileLooks, RowsUsable
  <2>1. CASE job' = TypeDone
    <3>1. job' \in Jobs /\ job'.copy = job.copy /\ job'.pc \in {"look", "write"}
            /\ (job'.pc \in {"look", "upsert"} =>
                  job'.left # {} /\ \A t \in job'.left : job'.copy.desired[t] # 0)
      BY <1>0, <2>0, <2>1, CurrentLeft
    <3> QED BY <2>0, <3>1 DEF DnsTypeOK, RowsUsable, Jobs
  <2>2. CASE job' = [job EXCEPT !.pc = "upsert", !.copy.created[Current] = @ \/ zone[Current] = {}]
    <3> DEFINE c == [job.copy.created EXCEPT ![Current] = job.copy.created[Current] \/ zone[Current] = {}]
    <3>1. job' = [job EXCEPT !.pc = "upsert", !.copy = [job.copy EXCEPT !.created = c]]
      BY <1>0, <2>2 DEF Jobs, Row
    <3>2. c \in [Types -> BOOLEAN]
      BY <1>0 DEF Jobs, Row
    <3> HIDE DEF c
    <3>3. [job.copy EXCEPT !.created = c] \in Row
      BY <1>0, <3>2 DEF Jobs, Row
    <3>4. job' \in Jobs /\ job'.left = job.left /\ job'.copy.desired = job.copy.desired
            /\ job'.copy.exists /\ job'.copy.mode \in Modes /\ job'.pc = "upsert"
      BY <1>0, <2>0, <3>1, <3>3 DEF Jobs, Row
    <3> QED BY <2>0, <3>4 DEF DnsTypeOK, RowsUsable, Jobs
  <2> QED BY <1>4, <2>1, <2>2 DEF ReconcileLooks
<1>5. CASE ReconcileLookFails
  <2>1. failed' \in 0 .. MaxFailed
    BY <1>0, <1>5, CountersTyped DEF ReconcileLookFails
  <2>2. job' \in Jobs /\ job'.pc = "write" /\ job'.copy = job.copy
    BY <1>0, <1>5 DEF ReconcileLookFails, Jobs
  <2> QED BY <1>5, <2>1, <2>2 DEF ReconcileLookFails, DnsTypeOK, RowsUsable, Jobs
<1>6. CASE ReconcileUpserts
  <2>0. job.copy.exists /\ job.copy.mode \in Modes /\ job.pc = "upsert"
    BY <1>6 DEF ReconcileUpserts, RowsUsable
  <2>1. zone' \in [Types -> SUBSET Values] /\ written' \in [Types -> Values \cup {0}]
    BY <1>0, <1>6, <2>0, CurrentLeft, RecordsTyped DEF ReconcileUpserts
  <2>2. job' \in Jobs /\ job'.copy = job.copy /\ job'.pc \in {"look", "write"}
          /\ (job'.pc \in {"look", "upsert"} =>
                job'.left # {} /\ \A t \in job'.left : job'.copy.desired[t] # 0)
    BY <1>0, <1>6, <2>0, CurrentLeft DEF ReconcileUpserts
  <2> QED BY <1>6, <2>0, <2>1, <2>2 DEF ReconcileUpserts, DnsTypeOK, RowsUsable, Jobs
<1>7. CASE ReconcileUpsertFails
  <2>0. job.copy.exists /\ job.copy.mode \in Modes /\ job.pc = "upsert"
    BY <1>7 DEF ReconcileUpsertFails, RowsUsable
  <2>1. zone' \in [Types -> SUBSET Values] /\ written' \in [Types -> Values \cup {0}]
    <3>1. CASE UNCHANGED <<zone, written>>
      BY <1>0, <3>1 DEF DnsTypeOK
    <3>2. CASE Upserted(Current, job.copy.desired[Current])
      BY <1>0, <2>0, <3>2, CurrentLeft, RecordsTyped
    <3> QED BY <1>7, <3>1, <3>2 DEF ReconcileUpsertFails
  <2>2. job' \in Jobs /\ job'.pc = "write" /\ job'.copy = job.copy
    BY <1>0, <1>7 DEF ReconcileUpsertFails, Jobs
  <2>3. failed' \in 0 .. MaxFailed
    BY <1>0, <1>7, CountersTyped DEF ReconcileUpsertFails
  <2> QED BY <1>7, <2>0, <2>1, <2>2, <2>3 DEF ReconcileUpsertFails, DnsTypeOK, RowsUsable, Jobs
<1>8. CASE ReconcileWrites
  <2>1. job' \in Jobs /\ job'.pc = "idle"
    BY <1>0, <1>8 DEF ReconcileWrites, NoReconcile, Jobs
  <2>2. domain' \in Row /\ (domain'.exists => domain'.mode \in Modes)
    BY <1>0, <1>8 DEF ReconcileWrites, RowsUsable, Jobs
  <2> QED BY <1>8, <2>1, <2>2 DEF ReconcileWrites, DnsTypeOK, RowsUsable, Jobs
<1>9. CASE ReconcilePauses
  <2>1. domain.mode \in Modes /\ domain.exists
    BY <1>9 DEF ReconcilePauses, RowsUsable
  <2>2. job' = [NoReconcile EXCEPT !.pc = "write", !.copy = domain]
    BY <1>9 DEF ReconcilePauses
  <2>3. job' \in Jobs /\ job'.pc = "write" /\ job'.copy = domain
    BY <1>0, <2>2 DEF NoReconcile, Jobs
  <2>4. failed' \in 0 .. MaxFailed /\ edits' \in 0 .. MaxEdits
    BY <1>0, <1>9, CountersTyped DEF ReconcilePauses, DnsTypeOK
  <2> QED BY <1>9, <2>1, <2>3, <2>4 DEF ReconcilePauses, DnsTypeOK, RowsUsable, Jobs
<1> QED BY <1>1, <1>2, <1>3, <1>4, <1>5, <1>6, <1>7, <1>8, <1>9 DEF ReconcileStep

\* The steps of the cleanup job, of the operator and of others.
LEMMA OtherTypes ==
    /\ DnsTypes /\ CleanupStep => DnsTypes'
    /\ DnsTypes /\ DeleteDomain => DnsTypes'
    /\ DnsTypes /\ CreateDomain => DnsTypes'
    /\ DnsTypes /\ UpdateReads => DnsTypes'
    /\ DnsTypes /\ UpdateWrites => DnsTypes'
    /\ DnsTypes /\ (AddressChanges \/ ForeignWrite) => DnsTypes'
    /\ DnsTypes /\ DnsRestart => DnsTypes'
    /\ DnsTypes /\ UNCHANGED dnsVars => DnsTypes'
<1> DEFINE Cleanups == [pc : {"none", "queued", "delete", "drop"}, copy : Row]
           Requests == [pc : {"none", "edit"}, copy : Row]
<1>0. ASSUME DnsTypes
      PROVE  /\ DnsTypeOK /\ job \in Jobs /\ domain \in Row /\ cleanup \in Cleanups /\ request \in Requests
             /\ NoDomain \in Row /\ NoCleanup \in Cleanups
             /\ [NoCleanup EXCEPT !.pc = "queued"] \in Cleanups
             /\ NoRequest \in Requests /\ NoRequest.pc = "none"
             /\ NoReconcile \in Jobs /\ NoReconcile.pc = "idle" /\ ~NoDomain.exists
  <2>1. NoDomain \in Row /\ ~NoDomain.exists
    BY DEF NoDomain, Row
  <2>2. DnsTypeOK /\ job \in Jobs /\ domain \in Row /\ cleanup \in Cleanups /\ request \in Requests
    BY <1>0 DEF DnsTypes, DnsTypeOK, Jobs
  <2> QED BY <2>1, <2>2 DEF NoCleanup, NoRequest, NoReconcile, Jobs
<1>1. ASSUME DnsTypes, CleanupStep PROVE DnsTypes'
  <2>1. CASE CleanupBegins
    <3>1. cleanup' \in Cleanups
      BY <1>0, <1>1, <2>1 DEF CleanupBegins
    <3>2. failed' \in 0 .. MaxFailed
      BY <1>0, <1>1, <2>1, CountersTyped DEF CleanupBegins, DnsTypeOK
    <3> QED BY <1>1, <2>1, <3>1, <3>2 DEF CleanupBegins, DnsTypes, DnsTypeOK, RowsUsable
  <2>2. CASE CleanupDeletes
    <3>1. cleanup' \in Cleanups
      BY <1>0, <1>1, <2>2 DEF CleanupDeletes
    <3>2. zone' \in [Types -> SUBSET Values] /\ written' \in [Types -> Values \cup {0}]
      BY <1>0, <1>1, <2>2, RecordsTyped DEF CleanupDeletes
    <3> QED BY <1>1, <2>2, <3>1, <3>2 DEF CleanupDeletes, DnsTypes, DnsTypeOK, RowsUsable
  <2>3. CASE CleanupFails
    <3>1. cleanup' \in Cleanups
      BY <1>0, <1>1, <2>3 DEF CleanupFails
    <3>2. zone' \in [Types -> SUBSET Values] /\ written' \in [Types -> Values \cup {0}]
      BY <1>0, <1>1, <2>3, RecordsTyped DEF CleanupFails
    <3>3. failed' \in 0 .. MaxFailed
      BY <1>0, <1>1, <2>3, CountersTyped DEF CleanupFails
    <3> QED BY <1>1, <2>3, <3>1, <3>2, <3>3 DEF CleanupFails, DnsTypes, DnsTypeOK, RowsUsable
  <2>4. CASE CleanupDrops
    <3>1. cleanup' \in Cleanups /\ domain' \in Row /\ ~domain'.exists
      BY <1>0, <1>1, <2>4 DEF CleanupDrops
    <3> QED BY <1>1, <2>4, <3>1 DEF CleanupDrops, DnsTypes, DnsTypeOK, RowsUsable
  <2> QED BY <1>1, <2>1, <2>2, <2>3, <2>4 DEF CleanupStep
<1>2. ASSUME DnsTypes, DeleteDomain PROVE DnsTypes'
  <2>1. domain' \in Row /\ cleanup' \in Cleanups /\ (domain'.exists => domain'.mode \in Modes)
    <3>1. CASE domain' = NoDomain /\ UNCHANGED cleanup
      BY <1>0, <1>2, <3>1
    <3>2. CASE /\ domain' = [domain EXCEPT !.enabled = FALSE]
               /\ cleanup' = IF cleanup.pc = "none" THEN [NoCleanup EXCEPT !.pc = "queued"] ELSE cleanup
      <4>0. domain \in Row
        BY <1>0, <1>2
      <4>1. domain' \in Row /\ domain'.exists = domain.exists /\ domain'.mode = domain.mode
        BY <3>2, <4>0 DEF Row
      <4> QED BY <1>0, <1>2, <3>2, <4>1 DEF DnsTypes, RowsUsable
    <3> QED BY <1>2, <3>1, <3>2 DEF DeleteDomain
  <2>2. failed' \in 0 .. MaxFailed /\ edits' \in 0 .. MaxEdits
    BY <1>0, <1>2, CountersTyped DEF DeleteDomain
  <2> QED BY <1>2, <2>1, <2>2 DEF DeleteDomain, DnsTypes, DnsTypeOK, RowsUsable
<1>3. ASSUME DnsTypes, CreateDomain PROVE DnsTypes'
  <2>1. PICK m \in Modes, a \in BOOLEAN :
            domain' = [NoDomain EXCEPT !.exists = TRUE, !.enabled = TRUE, !.mode = m, !.manual = a]
    BY <1>3 DEF CreateDomain
  <2>2. domain' \in Row /\ domain'.mode \in Modes
    BY <1>0, <1>3, <2>1, RowColumns DEF NoDomain
  <2>3. failed' \in 0 .. MaxFailed /\ edits' \in 0 .. MaxEdits
    BY <1>0, <1>3, CountersTyped DEF CreateDomain
  <2> QED BY <1>3, <2>2, <2>3 DEF CreateDomain, DnsTypes, DnsTypeOK, RowsUsable
<1>4. ASSUME DnsTypes, UpdateReads PROVE DnsTypes'
  <2>1. request' \in Requests /\ request'.copy = domain /\ domain.exists
    BY <1>0, <1>4 DEF UpdateReads
  <2>2. failed' \in 0 .. MaxFailed /\ edits' \in 0 .. MaxEdits
    BY <1>0, <1>4, CountersTyped DEF UpdateReads
  <2> QED BY <1>4, <2>1, <2>2 DEF UpdateReads, DnsTypes, DnsTypeOK, RowsUsable
<1>5. ASSUME DnsTypes, UpdateWrites PROVE DnsTypes'
  <2>1. PICK m \in Modes, e, a \in BOOLEAN :
            domain' = IF domain.exists
                      THEN [request.copy EXCEPT !.mode = m, !.enabled = e, !.manual = a] ELSE domain
    BY <1>5 DEF UpdateWrites
  <2>2. [request.copy EXCEPT !.mode = m, !.enabled = e, !.manual = a] \in Row
          /\ [request.copy EXCEPT !.mode = m, !.enabled = e, !.manual = a].mode = m
    <3>1. request.copy \in Row
      BY <1>0, <1>5
    <3> QED BY <3>1 DEF Row
  <2>3. domain' \in Row /\ (domain'.exists => domain'.mode \in Modes)
    BY <1>0, <1>5, <2>1, <2>2
  <2>4. request' \in Requests /\ request'.pc = "none"
    BY <1>0, <1>5 DEF UpdateWrites
  <2> QED BY <1>5, <2>3, <2>4 DEF UpdateWrites, DnsTypes, DnsTypeOK, RowsUsable
<1>6. ASSUME DnsTypes, AddressChanges \/ ForeignWrite PROVE DnsTypes'
  <2>1. failed' \in 0 .. MaxFailed /\ edits' \in 0 .. MaxEdits
    BY <1>0, <1>6, CountersTyped DEF AddressChanges, ForeignWrite
  <2>2. CASE AddressChanges
    <3>1. address' \in [Types -> Values]
      BY <2>2 DEF AddressChanges
    <3> QED BY <1>6, <2>1, <2>2, <3>1 DEF AddressChanges, DnsTypes, DnsTypeOK, RowsUsable
  <2>3. CASE ForeignWrite
    <3>1. zone' \in [Types -> SUBSET Values] /\ written' \in [Types -> Values \cup {0}]
      BY <1>0, <1>6, <2>3 DEF ForeignWrite, DnsTypeOK
    <3> QED BY <1>6, <2>1, <2>3, <3>1 DEF ForeignWrite, DnsTypes, DnsTypeOK, RowsUsable
  <2> QED BY <1>6, <2>2, <2>3
<1>7. ASSUME DnsTypes, DnsRestart PROVE DnsTypes'
  <2>1. job' \in Jobs /\ job'.pc = "idle" /\ cleanup' \in Cleanups /\ request' \in Requests /\ request'.pc = "none"
    BY <1>0, <1>7 DEF DnsRestart
  <2>2. failed' \in 0 .. MaxFailed
    BY <1>0, <1>7, CountersTyped DEF DnsRestart
  <2> QED BY <1>7, <2>1, <2>2 DEF DnsRestart, DnsTypes, DnsTypeOK, RowsUsable, Jobs
<1>8. ASSUME DnsTypes, UNCHANGED dnsVars PROVE DnsTypes'
  BY <1>8 DEF dnsVars, DnsTypes, DnsTypeOK, RowsUsable
<1> QED BY <1>1, <1>2, <1>3, <1>4, <1>5, <1>6, <1>7, <1>8

\* MCDeployments.TypeOK, the part of a domain: rows, copies and jobs are those of the code;
\* a job that looks up or sets a record has a type left to do and a value for it.
THEOREM DnsTypeCorrect == DnsSpec => []DnsTypeOK
<1>1. DnsInit => DnsTypes
  BY DnsInitTypes
<1>2. DnsTypes /\ [DnsNext]_dnsVars => DnsTypes'
  BY ReconcileTypes, OtherTypes DEF DnsNext
<1>3. DnsTypes => DnsTypeOK
  BY DEF DnsTypes
<1> QED BY <1>1, <1>2, <1>3, PTL DEF DnsSpec

(***************************************************************************)
(* The records of a managed domain: none is orphaned.                      *)
(***************************************************************************)

Addresses == {"A", "AAAA"}

\* The row, or a copy of it, knows every address record the Panel created.
Knows(copy) ==
    \A t \in Addresses : written[t] # 0 => copy.created[t] /\ copy.desired[t] = written[t]
NoneWritten == \A t \in Addresses : written[t] = 0

\* A record the Panel created stands in the zone until it is replaced or deleted.
WrittenStands == \A t \in Types : written[t] # 0 => written[t] \in zone[t]

\* Of the job, a cleanup and a handler at most one is at work ...
OneAtATime ==
    /\ job.pc # "idle" => cleanup.pc \in {"none", "queued"} /\ request.pc = "none"
    /\ request.pc # "none" => cleanup.pc \in {"none", "queued"}

\* ... and it works on the row as it is; the records are known to the row until the job has
\* them in its copy, and to the copy when their type is done.
RowAccounts ==
    job.pc \in {"idle", "clean"} /\ cleanup.pc # "drop" =>
        Knows(domain) /\ (domain.exists \/ NoneWritten)
JobAccounts ==
    /\ job.pc # "idle" => domain.exists
    /\ job.pc = "clean" => job.copy = domain
    /\ job.pc \in {"look", "upsert"} =>
           \A t \in Addresses : written[t] # 0 =>
               job.copy.created[t] /\ (t \in job.left \/ job.copy.desired[t] = written[t])
    /\ job.pc = "upsert" => job.copy.created[Current] \/ zone[Current] # {}
    /\ job.pc = "write" => Knows(job.copy)
OthersAccount ==
    /\ request.pc = "edit" => request.copy = domain
    /\ cleanup.pc = "delete" => cleanup.copy = domain
    /\ cleanup.pc = "drop" => NoneWritten

Undisturbed == OneAtATime /\ RowAccounts /\ JobAccounts /\ OthersAccount

DnsInv == DnsTypes /\ WrittenStands /\ (failed = 0 => Undisturbed)

LEMMA DnsInitInv == DnsInit => DnsInv
<1> SUFFICES ASSUME DnsInit PROVE DnsInv
  OBVIOUS
<1>1. DnsTypes
  BY DnsInitTypes
<1>2. job.pc = "idle" /\ cleanup.pc = "none" /\ request.pc = "none"
  BY DEF DnsInit, NoReconcile, NoCleanup, NoRequest
<1>3. \A t \in Types : written[t] = 0
  BY DEF DnsInit
<1>4. NoneWritten /\ WrittenStands /\ Knows(domain)
  BY <1>3 DEF NoneWritten, WrittenStands, Knows, Addresses, Types
<1> QED BY <1>1, <1>2, <1>4 DEF DnsInv, Undisturbed, OneAtATime, RowAccounts, JobAccounts, OthersAccount

\* A step that fails leaves a trace, and so does one that overtakes another.
LEMMA Undisturbing ==
    ASSUME DnsTypeOK, failed' = 0
    PROVE  /\ ~Failed
           /\ InTurn => failed = 0 /\ ~Busy
           /\ UNCHANGED failed => failed = 0
BY DEF DnsTypeOK, Failed, InTurn

LEMMA ZoneKept ==
    ASSUME DnsTypeOK, WrittenStands
    PROVE  /\ \A t \in Types, v \in Values : Upserted(t, v) => WrittenStands'
           /\ \A ts, values : Deleted(ts, values) => WrittenStands'
<1> USE DEF DnsTypeOK, WrittenStands
<1>1. ASSUME NEW t \in Types, NEW v \in Values, Upserted(t, v) PROVE WrittenStands'
  BY <1>1 DEF Upserted
<1>2. ASSUME NEW ts, NEW values, Deleted(ts, values) PROVE WrittenStands'
  BY <1>2 DEF Deleted
<1> QED BY <1>1, <1>2

\* Every step keeps it, a failing one too.
LEMMA WrittenKept == DnsTypes /\ WrittenStands /\ [DnsNext]_dnsVars => WrittenStands'
<1> SUFFICES ASSUME DnsTypes, WrittenStands, [DnsNext]_dnsVars PROVE WrittenStands'
  OBVIOUS
<1>0. DnsTypeOK
  BY DEF DnsTypes
<1>1. CASE UNCHANGED <<zone, written>>
  BY <1>1 DEF WrittenStands
<1>2. CASE ReconcileCleans \/ ReconcileCleanFails \/ CleanupDeletes \/ CleanupFails
  BY <1>0, <1>1, <1>2, ZoneKept DEF ReconcileCleans, ReconcileCleanFails, CleanupDeletes, CleanupFails
<1>3. CASE ReconcileUpserts \/ ReconcileUpsertFails
  BY <1>0, <1>1, <1>3, ZoneKept, CurrentLeft DEF ReconcileUpserts, ReconcileUpsertFails
<1>4. CASE ForeignWrite
  BY <1>0, <1>4 DEF ForeignWrite, WrittenStands, DnsTypeOK
<1>5. CASE \/ ReconcileBegins \/ ReconcilePauses \/ ReconcileLooks \/ ReconcileLookFails \/ ReconcileWrites
           \/ CleanupBegins \/ CleanupDrops
           \/ DeleteDomain \/ CreateDomain \/ UpdateReads \/ UpdateWrites
           \/ AddressChanges \/ DnsRestart \/ UNCHANGED dnsVars
  BY <1>1, <1>5 DEF ReconcileBegins, ReconcilePauses, ReconcileLooks, ReconcileLookFails, ReconcileWrites,
     CleanupBegins, CleanupDrops, DeleteDomain, CreateDomain, UpdateReads, UpdateWrites,
     AddressChanges, DnsRestart, dnsVars
<1> QED BY <1>2, <1>3, <1>4, <1>5 DEF DnsNext, ReconcileStep, CleanupStep

\* The job's steps, when none fails.
LEMMA ReconcileUndisturbed ==
    ASSUME DnsInv, ReconcileStep, failed' = 0
    PROVE  Undisturbed'
<1> DEFINE Alone == cleanup.pc \in {"none", "queued"} /\ request.pc = "none"
<1>0. DnsTypeOK /\ DnsTypes /\ job \in Jobs /\ RowsUsable
  BY DEF DnsInv, DnsTypes, DnsTypeOK, Jobs
<1>1. ~Failed
  BY <1>0, Undisturbing
<1>2. failed = 0
  BY <1>0, <1>1, Undisturbing
     DEF ReconcileStep, ReconcileBegins, ReconcilePauses, ReconcileCleans, ReconcileCleanFails, ReconcileLooks,
         ReconcileLookFails, ReconcileUpserts, ReconcileUpsertFails, ReconcileWrites
<1>3. Undisturbed /\ WrittenStands
  BY <1>2 DEF DnsInv
<1>4. job.pc # "idle" => Alone /\ domain.exists
  BY <1>3 DEF Undisturbed, OneAtATime, JobAccounts
<1>5. CASE ReconcileBegins
  <2>1. job'.pc = "clean" /\ job'.copy = domain /\ domain.exists /\ job.pc = "idle"
    BY <1>1, <1>5 DEF ReconcileBegins
  <2>2. Alone
    BY <1>0, <1>1, <1>5 DEF ReconcileBegins, DnsTypeOK
  <2>3. Knows(domain)
    BY <1>3, <2>1, <2>2 DEF Undisturbed, RowAccounts
  <2>4. Knows(domain)' /\ UNCHANGED <<domain, cleanup, request>>
    BY <1>5, <2>3 DEF ReconcileBegins, Knows
  <2> QED BY <2>1, <2>2, <2>4 DEF Undisturbed, OneAtATime, RowAccounts, JobAccounts, OthersAccount
<1>6. CASE ReconcileCleans
  <2>1. Alone /\ UNCHANGED <<domain, cleanup, request>> /\ domain.exists
    BY <1>4, <1>6 DEF ReconcileCleans
  <2>2. Knows(job.copy) /\ job.left = job.copy.mode
    BY <1>0, <1>3, <1>6, <2>1 DEF ReconcileCleans, Undisturbed, RowAccounts, JobAccounts, RowsUsable
  <2>3. job'.pc = "look" /\ job'.left = job.left
          /\ job'.copy.created = [t \in Types |-> t \in job.copy.mode /\ job.copy.created[t]]
    BY <1>0, <1>6 DEF ReconcileCleans, Jobs, Row
  <2>4. ASSUME NEW t \in Addresses, written'[t] # 0 PROVE job'.copy.created[t] /\ t \in job'.left
    <3>1. t \in Types /\ written[t] # 0
      BY <1>6, <2>4 DEF ReconcileCleans, Deleted, Addresses, Types
    <3>2. job.copy.created[t] /\ job.copy.desired[t] = written[t]
      BY <2>2, <3>1 DEF Knows
    <3>3. t \notin Unused
      BY <1>6, <2>4, <3>1, <3>2 DEF ReconcileCleans, Deleted
    <3>4. t \in job.copy.mode
      BY <3>1, <3>2, <3>3 DEF Unused
    <3> QED BY <2>2, <2>3, <3>1, <3>2, <3>4
  <2> QED BY <2>1, <2>3, <2>4 DEF Undisturbed, OneAtATime, RowAccounts, JobAccounts, OthersAccount
<1>7. CASE ReconcileLooks
  <2>1. Alone /\ UNCHANGED <<domain, zone, written, cleanup, request>> /\ domain.exists /\ job.pc = "look"
    BY <1>4, <1>7 DEF ReconcileLooks
  <2>2. \A t \in Addresses : written[t] # 0 =>
            job.copy.created[t] /\ (t \in job.left \/ job.copy.desired[t] = written[t])
    BY <1>3, <2>1 DEF Undisturbed, JobAccounts
  <2>3. CASE InPlace(Current) /\ job' = TypeDone
    <3>1. job'.copy = job.copy /\ job'.left = job.left \ {Current} /\ Current \in job.left
            /\ job'.pc = IF job.left = {Current} THEN "write" ELSE "look"
      BY <1>0, <2>1, <2>3, CurrentLeft
    <3>2. written[Current] # 0 => job.copy.desired[Current] = written[Current]
      BY <1>0, <1>3, <2>1, <2>3, CurrentLeft DEF WrittenStands, InPlace
    <3>3. \A t \in Addresses : written[t] # 0 =>
              job.copy.created[t] /\ (t \in job'.left \/ job.copy.desired[t] = written[t])
      BY <2>2, <3>1, <3>2
    <3>4. job'.pc = "write" => Knows(job.copy)
      BY <3>1, <3>3 DEF Knows
    <3>5. Knows(job.copy)' <=> Knows(job.copy)
      BY <2>1, <3>1 DEF Knows
    <3>6. job'.pc \in {"look", "write"}
      BY <3>1
    <3> QED BY <2>1, <3>1, <3>3, <3>4, <3>5, <3>6
            DEF Undisturbed, OneAtATime, RowAccounts, JobAccounts, OthersAccount
  <2>4. CASE job' = [job EXCEPT !.pc = "upsert", !.copy.created[Current] = @ \/ zone[Current] = {}]
    <3>1. job'.pc = "upsert" /\ job'.left = job.left /\ job'.copy.desired = job.copy.desired
            /\ job'.copy.created =
                   [job.copy.created EXCEPT ![Current] = job.copy.created[Current] \/ zone[Current] = {}]
      BY <1>0, <2>4 DEF Jobs, Row
    <3>2. Current' = Current /\ Current \in Types
      BY <1>0, <2>1, <3>1, CurrentLeft DEF Current
    <3>3. job.copy.created \in [Types -> BOOLEAN]
      BY <1>0 DEF Jobs, Row
    <3>4. job'.copy.created[Current] \/ zone[Current] # {}
      BY <3>1, <3>2, <3>3
    <3>5. \A t \in Types : job.copy.created[t] => job'.copy.created[t]
      BY <3>1, <3>2, <3>3
    <3>6. \A t \in Addresses : written[t] # 0 =>
              job'.copy.created[t] /\ (t \in job'.left \/ job'.copy.desired[t] = written[t])
      BY <2>2, <3>1, <3>5 DEF Addresses, Types
    <3> QED BY <2>1, <3>1, <3>2, <3>4, <3>6
            DEF Undisturbed, OneAtATime, RowAccounts, JobAccounts, OthersAccount
  <2> QED BY <1>7, <2>3, <2>4 DEF ReconcileLooks
<1>8. CASE ReconcileUpserts
  <2>1. Alone /\ UNCHANGED <<domain, cleanup, request>> /\ domain.exists /\ job.pc = "upsert"
    BY <1>4, <1>8 DEF ReconcileUpserts
  <2>2. \A t \in Addresses : written[t] # 0 =>
            job.copy.created[t] /\ (t \in job.left \/ job.copy.desired[t] = written[t])
    BY <1>3, <2>1 DEF Undisturbed, JobAccounts
  <2>3. job'.copy = job.copy /\ job'.left = job.left \ {Current} /\ Current \in job.left
          /\ job'.pc = IF job.left = {Current} THEN "write" ELSE "look"
    BY <1>0, <1>8, <2>1, CurrentLeft DEF ReconcileUpserts
  <2>4. Current \in Types /\ written \in [Types -> Values \cup {0}]
    BY <1>0, <2>1, CurrentLeft DEF DnsTypeOK
  <2>5. job.copy.created[Current] \/ zone[Current] # {}
    BY <1>3, <2>1 DEF Undisturbed, JobAccounts
  <2>6. \A t \in Types \ {Current} : written'[t] = written[t]
    BY <1>8, <2>4 DEF ReconcileUpserts, Upserted
  <2>7. written'[Current] # 0 =>
            /\ written'[Current] = job.copy.desired[Current]
            /\ zone[Current] = {} \/ written[Current] # 0
    BY <1>8, <2>4 DEF ReconcileUpserts, Upserted
  <2>8. Current \in Addresses /\ written'[Current] # 0 => job.copy.created[Current]
    BY <2>2, <2>5, <2>7
  <2>9. ASSUME NEW t \in Addresses, written'[t] # 0
        PROVE  job.copy.created[t] /\ (t \in job'.left \/ job.copy.desired[t] = written'[t])
    <3>1. CASE t = Current
      BY <2>7, <2>8, <2>9, <3>1
    <3>2. CASE t # Current
      <4>1. written'[t] = written[t]
        BY <2>6, <3>2 DEF Addresses, Types
      <4> QED BY <2>2, <2>3, <2>9, <3>2, <4>1
    <3> QED BY <3>1, <3>2
  <2>10. job'.pc = "write" => Knows(job.copy)'
    BY <2>3, <2>9 DEF Knows
  <2>11. job'.pc \in {"look", "write"}
    BY <2>3
  <2> QED BY <2>1, <2>3, <2>9, <2>10, <2>11
          DEF Undisturbed, OneAtATime, RowAccounts, JobAccounts, OthersAccount
<1>9. CASE ReconcileWrites
  <2>1. Alone /\ UNCHANGED <<cleanup, request, written>> /\ domain' = job.copy /\ job'.pc = "idle"
    BY <1>4, <1>9 DEF ReconcileWrites, NoReconcile
  <2>2. Knows(job.copy) /\ job.copy.exists
    BY <1>0, <1>3, <1>9 DEF ReconcileWrites, Undisturbed, JobAccounts, RowsUsable
  <2>3. Knows(domain)' /\ domain'.exists
    BY <2>1, <2>2 DEF Knows
  <2> QED BY <2>1, <2>3 DEF Undisturbed, OneAtATime, RowAccounts, JobAccounts, OthersAccount
<1>10. CASE ReconcilePauses
  <2>1. job' = [NoReconcile EXCEPT !.pc = "write", !.copy = domain] /\ domain.exists /\ job.pc = "idle"
    BY <1>10 DEF ReconcilePauses
  <2>2. job'.pc = "write" /\ job'.copy = domain
    BY <2>1 DEF NoReconcile
  <2>3. Alone
    BY <1>0, <1>1, <1>10 DEF ReconcilePauses, DnsTypeOK
  <2>4. Knows(domain)
    BY <1>3, <2>1, <2>3 DEF Undisturbed, RowAccounts
  <2>5. UNCHANGED <<domain, cleanup, request, written>>
    BY <1>10 DEF ReconcilePauses
  <2>6. Knows(job.copy)'
    BY <2>2, <2>4, <2>5 DEF Knows
  <2> QED BY <2>1, <2>2, <2>3, <2>5, <2>6 DEF Undisturbed, OneAtATime, RowAccounts, JobAccounts, OthersAccount
<1> QED BY <1>1, <1>5, <1>6, <1>7, <1>8, <1>9, <1>10
        DEF ReconcileStep, ReconcileCleanFails, ReconcileLookFails, ReconcileUpsertFails

\* The steps of a cleanup, of the operator and of others, when none fails or overtakes.
LEMMA OtherUndisturbed ==
    ASSUME DnsInv, [DnsNext]_dnsVars, ~ReconcileStep, failed' = 0
    PROVE  Undisturbed'
<1>0. DnsTypeOK /\ DnsTypes /\ RowsUsable
  BY DEF DnsInv, DnsTypes
<1>1. ~Failed /\ (InTurn => failed = 0 /\ ~Busy) /\ (UNCHANGED failed => failed = 0)
  BY <1>0, Undisturbing
<1>2. failed = 0
  BY <1>1 DEF DnsNext, CleanupStep, CleanupBegins, CleanupDeletes, CleanupFails, CleanupDrops, DeleteDomain,
     CreateDomain, UpdateReads, UpdateWrites, AddressChanges, ForeignWrite, DnsRestart, dnsVars
<1>3. Undisturbed /\ WrittenStands
  BY <1>2 DEF DnsInv
<1> USE DEF Undisturbed, OneAtATime, RowAccounts, JobAccounts, OthersAccount
<1>4. CASE CleanupBegins
  <2>1. job.pc = "idle" /\ request.pc = "none"
    BY <1>1, <1>4 DEF CleanupBegins
  <2>2. UNCHANGED <<domain, job, request, written>>
          /\ cleanup' = IF domain.exists THEN [pc |-> "delete", copy |-> domain] ELSE NoCleanup
    BY <1>4 DEF CleanupBegins
  <2>3. Knows(domain) /\ (domain.exists \/ NoneWritten)
    BY <1>3, <1>4, <2>1 DEF CleanupBegins
  <2>4. Knows(domain)' /\ (domain'.exists \/ NoneWritten')
    BY <2>2, <2>3 DEF Knows, NoneWritten
  <2>5. cleanup'.pc \in {"none", "delete"} /\ (cleanup'.pc = "delete" => cleanup'.copy = domain)
    BY <2>2 DEF NoCleanup
  <2> QED BY <2>1, <2>2, <2>4, <2>5
<1>5. CASE CleanupDeletes
  <2>1. cleanup.pc = "delete" /\ cleanup'.pc = "drop" /\ UNCHANGED <<domain, job, request>>
    BY <1>0, <1>5 DEF CleanupDeletes, DnsTypeOK
  <2>2. job.pc = "idle" /\ request.pc = "none" /\ cleanup.copy = domain /\ Knows(domain)
    BY <1>0, <1>3, <2>1 DEF DnsTypeOK
  <2>3. ASSUME NEW t \in Addresses PROVE written'[t] = 0
    <3>1. t \in Types /\ t \in {"A", "AAAA"}
      BY DEF Addresses, Types
    <3>2. CASE written[t] = 0
      BY <1>5, <3>1, <3>2 DEF CleanupDeletes, Deleted
    <3>3. CASE written[t] # 0
      <4>1. t \in Owned /\ cleanup.copy.desired[t] = written[t]
        BY <2>2, <3>1, <3>3 DEF Knows, Owned
      <4> QED BY <1>5, <3>1, <4>1 DEF CleanupDeletes, Deleted
    <3> QED BY <3>2, <3>3
  <2> QED BY <2>1, <2>2, <2>3 DEF NoneWritten
<1>6. CASE CleanupDrops
  <2>1. job.pc = "idle" /\ request.pc = "none" /\ NoneWritten
    BY <1>0, <1>3, <1>6 DEF CleanupDrops, DnsTypeOK
  <2>2. UNCHANGED <<job, request, written>> /\ cleanup'.pc = "none"
    BY <1>6 DEF CleanupDrops, NoCleanup
  <2>3. NoneWritten' /\ Knows(domain)'
    BY <2>1, <2>2 DEF NoneWritten, Knows
  <2> QED BY <2>1, <2>2, <2>3
<1>7. CASE DeleteDomain
  <2>1. job.pc = "idle" /\ request.pc = "none" /\ cleanup.pc \in {"none", "queued"}
    BY <1>0, <1>1, <1>7 DEF DeleteDomain, Busy, DnsTypeOK
  <2>2. UNCHANGED <<job, request, written>> /\ Knows(domain) /\ domain.exists
    BY <1>3, <1>7, <2>1 DEF DeleteDomain
  <2>3. CASE domain.created["A"] \/ domain.created["AAAA"]
    <3>1. domain' = [domain EXCEPT !.enabled = FALSE]
            /\ cleanup' = IF cleanup.pc = "none" THEN [NoCleanup EXCEPT !.pc = "queued"] ELSE cleanup
      BY <1>7, <2>3 DEF DeleteDomain
    <3>2. domain'.created = domain.created /\ domain'.desired = domain.desired /\ domain'.exists
      BY <1>0, <2>2, <3>1 DEF DnsTypeOK, Row
    <3>3. cleanup'.pc \in {"none", "queued"}
      BY <2>1, <3>1 DEF NoCleanup
    <3>4. Knows(domain)'
      BY <2>2, <3>2 DEF Knows
    <3> QED BY <2>1, <2>2, <3>2, <3>3, <3>4
  <2>4. CASE ~(domain.created["A"] \/ domain.created["AAAA"])
    <3>1. NoneWritten
      BY <2>2, <2>4 DEF Knows, NoneWritten, Addresses
    <3>2. NoneWritten' /\ Knows(domain)' /\ UNCHANGED cleanup
      BY <1>7, <2>2, <2>4, <3>1 DEF DeleteDomain, NoneWritten, Knows
    <3> QED BY <2>1, <2>2, <3>2
  <2> QED BY <2>3, <2>4
<1>8. CASE CreateDomain
  <2>1. job.pc = "idle" /\ request.pc = "none" /\ cleanup.pc = "none"
    BY <1>1, <1>8 DEF CreateDomain, Busy
  <2>2. NoneWritten /\ UNCHANGED <<job, request, cleanup, written>>
    BY <1>3, <1>8, <2>1 DEF CreateDomain
  <2>3. NoneWritten' /\ Knows(domain)'
    BY <2>2 DEF NoneWritten, Knows
  <2> QED BY <2>1, <2>2, <2>3
<1>9. CASE UpdateReads
  <2>1. job.pc = "idle" /\ request.pc = "none" /\ cleanup.pc \in {"none", "queued"}
    BY <1>0, <1>1, <1>9 DEF UpdateReads, Busy, DnsTypeOK
  <2>2. UNCHANGED <<domain, job, cleanup, written>> /\ request'.pc = "edit" /\ request'.copy = domain
          /\ domain.exists /\ Knows(domain)
    BY <1>3, <1>9, <2>1 DEF UpdateReads
  <2>3. Knows(domain)'
    BY <2>2 DEF Knows
  <2> QED BY <2>1, <2>2, <2>3
<1>10. CASE UpdateWrites
  <2>1. job.pc = "idle" /\ cleanup.pc \in {"none", "queued"} /\ request.copy = domain /\ Knows(domain)
          /\ domain.exists
    BY <1>0, <1>3, <1>10 DEF UpdateWrites, RowsUsable
  <2>2. UNCHANGED <<job, cleanup, written>> /\ request'.pc = "none"
    BY <1>10 DEF UpdateWrites, NoRequest
  <2>3. PICK m \in Modes, e, a \in BOOLEAN :
            domain' = [domain EXCEPT !.mode = m, !.enabled = e, !.manual = a]
    BY <1>10, <2>1 DEF UpdateWrites
  <2>4. domain'.created = domain.created /\ domain'.desired = domain.desired /\ domain'.exists
    BY <1>0, <2>1, <2>3 DEF DnsTypeOK, Row
  <2>5. Knows(domain)'
    BY <2>1, <2>2, <2>4 DEF Knows
  <2> QED BY <2>1, <2>2, <2>4, <2>5
<1>11. CASE AddressChanges
  <2>1. UNCHANGED <<domain, zone, job, cleanup, request, written>> /\ ~Busy
    BY <1>1, <1>11 DEF AddressChanges
  <2> QED BY <1>3, <2>1 DEF Knows, NoneWritten, Current, Busy
<1>12. CASE ForeignWrite
  <2>1. UNCHANGED <<domain, job, cleanup, request>>
          /\ job.pc = "idle" /\ request.pc = "none" /\ cleanup.pc \in {"none", "queued"}
    BY <1>0, <1>1, <1>12 DEF ForeignWrite, Busy, DnsTypeOK
  <2>2. Knows(domain) /\ (domain.exists \/ NoneWritten)
    BY <1>3, <2>1
  <2>3. \A t \in Addresses : written'[t] \in {0, written[t]}
    BY <1>0, <1>12 DEF ForeignWrite, Addresses, Types, DnsTypeOK
  <2>4. Knows(domain)' /\ (domain'.exists \/ NoneWritten')
    BY <2>1, <2>2, <2>3 DEF Knows, NoneWritten
  <2> QED BY <2>1, <2>4
<1>13. CASE UNCHANGED dnsVars
  BY <1>3, <1>13 DEF dnsVars, Knows, NoneWritten, Current
<1> QED BY <1>1, <1>4, <1>5, <1>6, <1>7, <1>8, <1>9, <1>10, <1>11, <1>12, <1>13
        DEF DnsNext, CleanupStep, CleanupFails, DnsRestart

\* No record is orphaned (DnsReconcile.OwnedAccounted): whatever the sequence of edits,
\* adoptions, foreign writes and deletions, an address record the Panel created is known to
\* the row until the Panel deletes it, as long as nothing fails and nothing overtakes.
THEOREM NoRecordOrphaned == DnsSpec => []OwnedAccounted
<1>1. DnsInit => DnsInv
  BY DnsInitInv
<1>2. DnsInv /\ [DnsNext]_dnsVars => DnsInv'
  <2> SUFFICES ASSUME DnsInv, [DnsNext]_dnsVars PROVE DnsInv'
    OBVIOUS
  <2>1. DnsTypes'
    BY ReconcileTypes, OtherTypes DEF DnsInv, DnsNext
  <2>2. WrittenStands'
    BY WrittenKept DEF DnsInv
  <2>3. failed' = 0 => Undisturbed'
    BY ReconcileUndisturbed, OtherUndisturbed
  <2> QED BY <2>1, <2>2, <2>3 DEF DnsInv
<1>3. DnsInv => OwnedAccounted
  <2> SUFFICES ASSUME DnsInv, failed = 0, ~Busy, NEW t \in Addresses, written[t] # 0
               PROVE  domain.exists /\ domain.created[t] /\ domain.desired[t] = written[t]
    BY DEF OwnedAccounted, Addresses
  <2>1. job.pc = "idle" /\ cleanup.pc # "drop"
    BY DEF Busy
  <2>2. Knows(domain) /\ (domain.exists \/ NoneWritten)
    BY <2>1 DEF DnsInv, Undisturbed, RowAccounts
  <2> QED BY <2>2 DEF Knows, NoneWritten
<1> QED BY <1>1, <1>2, <1>3, PTL DEF DnsSpec

(***************************************************************************)
(* Sequences, and induction over numbers: the library's theorem takes the  *)
(* predicate as a parameter, which no prover can instantiate; a set does   *)
(* as well.                                                                *)
(***************************************************************************)

\* A set of natural numbers has a least one.
LEMMA LeastNumber ==
    ASSUME NEW T \in SUBSET Nat, T # {}
    PROVE  \E x \in T : \A y \in T : x <= y
<1> DEFINE R == OpToRel(<, Nat)
<1>1. IsWellFoundedOn(R, Nat)
  BY NatLessThanWellFounded
<1> HIDE DEF R
<1>2. PICK x \in T : \A y \in T : ~(<<y, x>> \in R)
  BY <1>1, WFMin
<1>3. \A y, z \in Nat : y < z => <<y, z>> \in R
  BY DEF R, OpToRel
<1>4. ASSUME NEW y \in T PROVE x <= y
  <2>1. x \in Nat /\ y \in Nat
    OBVIOUS
  <2>2. ~(y < x)
    BY <1>2, <1>3, <2>1
  <2> QED BY <2>1, <2>2
<1> QED BY <1>4

\* Induction up to a number, over a set instead of a predicate.
LEMMA Inductive ==
    ASSUME NEW m \in Nat, NEW S, 0 \in S, \A i \in 1 .. m : i - 1 \in S => i \in S
    PROVE  0 .. m \subseteq S
<1> DEFINE T == (0 .. m) \ S
<1> SUFFICES ASSUME T # {} PROVE FALSE
  OBVIOUS
<1>1. T \in SUBSET Nat
  OBVIOUS
<1> HIDE DEF T
<1>2. PICK x \in T : \A y \in T : x <= y
  BY <1>1, LeastNumber
<1> USE DEF T
<1>3. x \in 1 .. m
  OBVIOUS
<1>4. x - 1 \in 0 .. m /\ x - 1 \in S
  BY <1>2, <1>3
<1> QED BY <1>3, <1>4

\* What the sequence operators keep of a sequence's elements.
LEMMA ToSetReverse ==
    ASSUME NEW S, NEW s \in Seq(S)
    PROVE  ToSet(Reverse(s)) = ToSet(s) /\ Reverse(s) \in Seq(S)
<1>1. Len(s) \in Nat /\ DOMAIN s = 1 .. Len(s) /\ DOMAIN Reverse(s) = 1 .. Len(s)
  BY DEF Reverse
<1>2. \A i \in 1 .. Len(s) : Len(s) - i + 1 \in 1 .. Len(s) /\ Reverse(s)[Len(s) - i + 1] = s[i]
                               /\ Reverse(s)[i] = s[Len(s) - i + 1] 
  BY <1>1 DEF Reverse
<1>3. ToSet(s) \subseteq ToSet(Reverse(s))
  BY <1>1, <1>2 DEF ToSet
<1>4. ToSet(Reverse(s)) \subseteq ToSet(s)
  BY <1>1, <1>2 DEF ToSet
<1>5. Reverse(s) \in Seq(S)
  BY <1>1 DEF Reverse
<1> QED BY <1>3, <1>4, <1>5

LEMMA ToSetFront ==
    ASSUME NEW S, NEW s \in Seq(S), s # << >>
    PROVE  /\ Front(s) \in Seq(S) /\ Last(s) \in S /\ Last(s) \in ToSet(s)
           /\ ToSet(s) \subseteq ToSet(Front(s)) \cup {Last(s)}
           /\ ToSet(Front(s)) \subseteq ToSet(s)
<1>1. PICK n \in Nat : n = Len(s) /\ DOMAIN s = 1 .. n /\ n # 0
  OBVIOUS
<1>2. Front(s) \in Seq(S) /\ Last(s) = s[n] /\ n \in 1 .. n
  BY <1>1 DEF Front, Last
<1>3. DOMAIN Front(s) = 1 .. n - 1 /\ \A i \in 1 .. n - 1 : Front(s)[i] = s[i]
  BY <1>1 DEF Front
<1>4. \A i \in 1 .. n : i \in 1 .. n - 1 \/ i = n
  OBVIOUS
<1> QED BY <1>1, <1>2, <1>3, <1>4 DEF ToSet

LEMMA ToSetTail ==
    ASSUME NEW S, NEW s \in Seq(S), s # << >>
    PROVE  /\ Tail(s) \in Seq(S) /\ Head(s) \in S
           /\ ToSet(s) \subseteq ToSet(Tail(s)) \cup {Head(s)}
<1>1. PICK n \in Nat : n = Len(s) /\ DOMAIN s = 1 .. n /\ n # 0
  OBVIOUS
<1>2. Tail(s) \in Seq(S) /\ Head(s) = s[1]
  BY <1>1
<1>3. DOMAIN Tail(s) = 1 .. n - 1 /\ \A i \in 1 .. n - 1 : Tail(s)[i] = s[i + 1]
  BY <1>1
<1>4. ASSUME NEW i \in 1 .. n PROVE s[i] \in ToSet(Tail(s)) \cup {Head(s)}
  <2>1. CASE i = 1
    BY <1>2, <2>1
  <2>2. CASE i # 1
    <3>1. i - 1 \in 1 .. n - 1 /\ Tail(s)[i - 1] = s[i]
      BY <1>1, <1>3, <2>2
    <3> QED BY <1>3, <3>1 DEF ToSet
  <2> QED BY <2>1, <2>2
<1>5. ToSet(s) \subseteq ToSet(Tail(s)) \cup {Head(s)}
  BY <1>1, <1>4 DEF ToSet
<1> QED BY <1>2, <1>5

LEMMA ToSetAppend ==
    ASSUME NEW S, NEW s \in Seq(S), NEW e \in S
    PROVE  Append(s, e) \in Seq(S) /\ ToSet(Append(s, e)) = ToSet(s) \cup {e}
<1>1. PICK n \in Nat : n = Len(s) /\ DOMAIN s = 1 .. n
  OBVIOUS
<1>2. Append(s, e) \in Seq(S) /\ DOMAIN Append(s, e) = 1 .. n + 1 /\ Append(s, e)[n + 1] = e
        /\ \A i \in 1 .. n : Append(s, e)[i] = s[i]
  BY <1>1
<1>3. ToSet(Append(s, e)) \subseteq ToSet(s) \cup {e}
  <2>1. \A i \in 1 .. n + 1 : i \in 1 .. n \/ i = n + 1
    OBVIOUS
  <2> QED BY <1>1, <1>2, <2>1 DEF ToSet
<1>4. ToSet(s) \cup {e} \subseteq ToSet(Append(s, e))
  <2>1. n + 1 \in 1 .. n + 1 /\ \A i \in 1 .. n : i \in 1 .. n + 1
    OBVIOUS
  <2> QED BY <1>1, <1>2, <2>1 DEF ToSet
<1> QED BY <1>2, <1>3, <1>4

\* appendUnique, one after the other, keeps what there was and adds every new one.
LEMMA AppendNewAll ==
    ASSUME NEW S, NEW seq \in Seq(S), NEW more \in Seq(S)
    PROVE  /\ AppendNew(seq, more) \in Seq(S)
           /\ ToSet(seq) \cup ToSet(more) \subseteq ToSet(AppendNew(seq, more))
<1> DEFINE n == Len(more)
           Step(f, i) == IF i = 0 THEN seq
                         ELSE IF more[i] \in ToSet(f[i - 1]) THEN f[i - 1] ELSE Append(f[i - 1], more[i])
           UpTo(f, m) == f \in [0 .. m -> Seq(S)] /\ \A i \in 0 .. m : f[i] = Step(f, i)
           f == CHOOSE g : g = [i \in 0 .. n |-> Step(g, i)]
<1>0. n \in Nat /\ DOMAIN more = 1 .. n /\ \A i \in 1 .. n : more[i] \in S
  OBVIOUS
<1>1. AppendNew(seq, more) = f[n]
  BY DEF AppendNew
<1> HIDE DEF f
<1>2. \A m \in 0 .. n : \E g : UpTo(g, m)
  <2> DEFINE I == {m \in 0 .. n : \E g : UpTo(g, m)}
  <2>1. 0 \in I
    <3>1. UpTo([i \in 0 .. 0 |-> seq], 0)
      OBVIOUS
    <3> HIDE DEF UpTo
    <3> QED BY <1>0, <3>1
  <2>2. ASSUME NEW m \in 1 .. n, m - 1 \in I PROVE m \in I
    <3>1. PICK g : UpTo(g, m - 1)
      BY <2>2
    <3> DEFINE h == [i \in 0 .. m |-> IF i = m THEN Step(g, m) ELSE g[i]]
    <3>2. Step(g, m) \in Seq(S)
      <4>1. m \in Nat /\ m # 0 /\ g[m - 1] \in Seq(S) /\ more[m] \in S
        BY <1>0, <3>1
      <4> QED BY <4>1, ToSetAppend
    <3>3. h \in [0 .. m -> Seq(S)]
      <4>1. \A i \in 0 .. m : i # m => i \in 0 .. m - 1
        BY <1>0
      <4> QED BY <3>1, <3>2, <4>1
    <3>4. ASSUME NEW i \in 0 .. m PROVE h[i] = Step(h, i)
      <4>1. CASE i = 0
        BY <1>0, <3>1, <4>1
      <4>2. CASE i # 0
        <5>1. i - 1 \in 0 .. m - 1 /\ h[i - 1] = g[i - 1]
          BY <1>0, <4>2
        <5>2. Step(h, i) = Step(g, i)
          BY <4>2, <5>1
        <5>3. i # m => i \in 0 .. m - 1
          BY <1>0
        <5>4. i # m => g[i] = Step(g, i)
          BY <3>1, <5>3
        <5> QED BY <5>2, <5>4
      <4> QED BY <4>1, <4>2
    <3>5. UpTo(h, m)
      BY <3>3, <3>4
    <3> HIDE DEF UpTo, h
    <3> QED BY <1>0, <3>5
  <2> HIDE DEF I, UpTo
  <2>3. 0 .. n \subseteq I
    BY <1>0, <2>1, <2>2, Inductive
  <2> QED BY <2>3 DEF I
<1>3. f \in [0 .. n -> Seq(S)] /\ \A i \in 0 .. n : f[i] = Step(f, i)
  <2>1. PICK g : UpTo(g, n)
    <3> HIDE DEF UpTo
    <3> QED BY <1>0, <1>2
  <2>2. g = [i \in 0 .. n |-> Step(g, i)]
    BY <2>1, Zenon
  <2>3. f = [i \in 0 .. n |-> Step(f, i)]
    BY <2>2, Zenon DEF f
  <2>4. \A i \in 0 .. n : f[i] = Step(f, i)
    BY <2>3, Zenon
  <2>5. DOMAIN f = 0 .. n
    BY <2>3, Zenon
  <2> DEFINE I == {m \in 0 .. n : f[m] \in Seq(S)}
  <2>6. 0 \in I
    BY <1>0, <2>4
  <2>7. ASSUME NEW m \in 1 .. n, m - 1 \in I PROVE m \in I
    <3>1. m \in 0 .. n /\ m # 0 /\ f[m - 1] \in Seq(S) /\ more[m] \in S
      BY <1>0, <2>7
    <3>2. f[m] = IF more[m] \in ToSet(f[m - 1]) THEN f[m - 1] ELSE Append(f[m - 1], more[m])
      BY <2>4, <3>1
    <3>3. f[m] \in Seq(S)
      BY <3>1, <3>2, ToSetAppend
    <3> QED BY <3>1, <3>3
  <2> HIDE DEF I
  <2>8. 0 .. n \subseteq I
    BY <1>0, <2>6, <2>7, Inductive
  <2>9. \A m \in 0 .. n : f[m] \in Seq(S)
    BY <2>8 DEF I
  <2> HIDE DEF Step
  <2> QED BY <2>3, <2>4, <2>9
<1>4. \A m \in 0 .. n : ToSet(seq) \cup {more[i] : i \in 1 .. m} \subseteq ToSet(f[m])
  <2> DEFINE Got(m) == ToSet(seq) \cup {more[i] : i \in 1 .. m}
             I == {m \in 0 .. n : Got(m) \subseteq ToSet(f[m])}
  <2>1. 0 \in I
    BY <1>0, <1>3
  <2>2. ASSUME NEW m \in 1 .. n, m - 1 \in I PROVE m \in I
    <3>1. m \in 0 .. n /\ m # 0 /\ m - 1 \in 0 .. n /\ f[m - 1] \in Seq(S) /\ more[m] \in S
      <4> HIDE DEF f, Got, Step, I
      <4>1. m \in 0 .. n /\ m # 0 /\ m - 1 \in 0 .. n
        BY <1>0, <2>2
      <4>2. more[m] \in S
        BY <1>0, <2>2
      <4> QED BY <1>3, <4>1, <4>2
    <3>2. f[m] = IF more[m] \in ToSet(f[m - 1]) THEN f[m - 1] ELSE Append(f[m - 1], more[m])
      BY <1>3, <3>1
    <3>3. ToSet(f[m - 1]) \cup {more[m]} \subseteq ToSet(f[m])
      BY <3>1, <3>2, ToSetAppend
    <3>4. Got(m) \subseteq Got(m - 1) \cup {more[m]}
      <4>1. \A i \in 1 .. m : i \in 1 .. m - 1 \/ i = m
        BY <3>1
      <4> QED BY <4>1
    <3> HIDE DEF Got
    <3> QED BY <2>2, <3>1, <3>3, <3>4
  <2> HIDE DEF I
  <2>3. 0 .. n \subseteq I
    BY <1>0, <2>1, <2>2, Inductive
  <2> QED BY <2>3 DEF I
<1>5. n \in 0 .. n /\ ToSet(more) = {more[i] : i \in 1 .. n}
  BY <1>0 DEF ToSet
<1> QED BY <1>1, <1>3, <1>4, <1>5

(***************************************************************************)
(* The deployment of a chain: types.                                       *)
(***************************************************************************)

ChainSpec == ChainInit /\ [][ChainNext]_chainVars

ChainRows == [exists : BOOLEAN, enabled : BOOLEAN, hops : Parts,
              state : {"disabled", "degraded", "healthy"}]
Deployments ==
    [pc : {"idle", "preflight", "apply", "undo", "runtime", "probe", "ok", "undone", "refused", "failed"},
     enable : BOOLEAN, hops : Parts, old : ChainRows, left : Seq(Nodes), changed : Seq(Nodes),
     gone : BOOLEAN, torn : BOOLEAN, before : [Nodes -> Parts]]
Doubts == {"no", "lost", "left"}

ChainTypes == ChainTypeOK /\ op \in Deployments

\* Chains, parts and hops.
LEMMA PartsTyped ==
    ASSUME ChainTypes
    PROVE  /\ HopLists \subseteq Parts /\ None \in Parts /\ Parts \subseteq Seq(Nodes)
           /\ chain \in ChainRows /\ NoChain \in ChainRows /\ NoOp \in Deployments
           /\ runs \in [Nodes -> Parts] /\ shown \in [Nodes -> Parts] /\ doubt \in [Nodes -> Doubts]
           /\ \A n : Asked(n) \in Parts /\ OldPart(n) \in Parts /\ NewPart(n) \in Parts
           /\ \A n : Left(n) \in {"lost", "left"}
<1>1. HopLists \subseteq Parts /\ None \in Parts /\ Parts \subseteq Seq(Nodes)
  <2>1. HopLists \subseteq Seq(Nodes)
    BY ChainAssumption
  <2>2. None \in Seq(Nodes)
    BY DEF None
  <2> QED BY <2>1, <2>2 DEF Parts
<1>2. NoChain \in ChainRows
  BY <1>1 DEF NoChain, ChainRows
<1>3. NoOp \in Deployments
  BY <1>1, <1>2 DEF NoOp, Deployments, None
<1>4. /\ chain \in ChainRows /\ op \in Deployments
      /\ runs \in [Nodes -> Parts] /\ shown \in [Nodes -> Parts] /\ doubt \in [Nodes -> Doubts]
  BY DEF ChainTypes, ChainTypeOK, ChainRows, Doubts
<1>5. \A n : Asked(n) \in Parts /\ OldPart(n) \in Parts /\ NewPart(n) \in Parts
  BY <1>1, <1>4 DEF Asked, OldPart, NewPart, Part, ChainRows, Deployments
<1>6. \A n : Left(n) \in {"lost", "left"}
  BY DEF Left
<1> QED BY <1>1, <1>2, <1>3, <1>4, <1>5, <1>6

\* The deployment with other values of its fields.
LEMMA DeploymentFields ==
    ASSUME NEW o \in Deployments
    PROVE  /\ \A p \in {"apply", "undo", "runtime", "probe", "ok", "undone", "refused", "failed"} :
                  [o EXCEPT !.pc = p] \in Deployments
           /\ [o EXCEPT !.gone = TRUE] \in Deployments
           /\ \A s \in Seq(Nodes) : [o EXCEPT !.left = s] \in Deployments
           /\ \A s \in Seq(Nodes) : /\ [o EXCEPT !.changed = s] \in Deployments
                                    /\ [o EXCEPT !.changed = s, !.torn = TRUE] \in Deployments
           /\ \A s, t \in Seq(Nodes) : [o EXCEPT !.left = s, !.changed = t] \in Deployments
BY DEF Deployments

LEMMA ChainCounters ==
    ASSUME ChainTypes
    PROVE  /\ Op => ops' \in 0 .. MaxOps
           /\ Failure => failures' \in 0 .. MaxFailures
           /\ ops \in 0 .. MaxOps /\ failures \in 0 .. MaxFailures
BY ChainAssumption DEF ChainTypes, ChainTypeOK, Op, Failure

\* The order of a deployment has every hop, of the new ones and of the old ones.
LEMMA OrderComplete ==
    ASSUME ChainTypes, NEW enable \in BOOLEAN, NEW hops \in Seq(Nodes), NEW old \in Seq(Nodes)
    PROVE  /\ Order(enable, hops, old) \in Seq(Nodes)
           /\ ToSet(old) \subseteq ToSet(Order(enable, hops, old))
           /\ enable => ToSet(hops) \subseteq ToSet(Order(enable, hops, old))
<1>1. Reverse(hops) \in Seq(Nodes) /\ ToSet(Reverse(hops)) = ToSet(hops)
  BY ToSetReverse
<1>2. /\ AppendNew(Reverse(hops), old) \in Seq(Nodes)
      /\ ToSet(Reverse(hops)) \cup ToSet(old) \subseteq ToSet(AppendNew(Reverse(hops), old))
  BY <1>1, AppendNewAll
<1> QED BY <1>1, <1>2 DEF Order

\* A deployment as it begins.
LEMMA DeployStarted ==
    ASSUME ChainTypes, (DeployBegins /\ chain.exists) \/ DisableBegins
    PROVE  /\ op' \in Deployments /\ op'.pc \in {"preflight", "apply"}
           /\ op'.before = runs /\ op'.old = chain /\ op'.changed = << >>
           /\ ToSet(op'.hops) \cup ToSet(op'.old.hops) \subseteq ToSet(op'.left)
           /\ UNCHANGED <<chain, runs, shown, edit, doubt, failures>>
           /\ waiting' \in Parts /\ ops' \in 0 .. MaxOps
<1>0. /\ HopLists \subseteq Parts /\ Parts \subseteq Seq(Nodes) /\ None \in Parts
      /\ chain \in ChainRows /\ NoOp \in Deployments /\ runs \in [Nodes -> Parts]
      /\ chain.hops \in Parts /\ waiting \in Parts
  BY PartsTyped DEF ChainRows, ChainTypes, ChainTypeOK
<1>1. /\ UNCHANGED <<chain, runs, shown, edit, doubt, failures>>
      /\ waiting' \in Parts /\ ops' \in 0 .. MaxOps
  BY <1>0, ChainCounters DEF DeployBegins, DisableBegins
<1>2. CASE DeployBegins /\ chain.exists
  <2>1. PICK h \in Parts :
          op' = [NoOp EXCEPT !.pc = "preflight", !.enable = TRUE, !.hops = h, !.old = chain, !.before = runs,
                             !.left = Order(TRUE, h, chain.hops)]
    BY <1>0, <1>2 DEF DeployBegins
  <2>2. /\ Order(TRUE, h, chain.hops) \in Seq(Nodes)
        /\ ToSet(h) \cup ToSet(chain.hops) \subseteq ToSet(Order(TRUE, h, chain.hops))
    BY <1>0, OrderComplete
  <2>3. /\ op'.pc = "preflight" /\ op'.hops = h /\ op'.old = chain /\ op'.before = runs
        /\ op'.left = Order(TRUE, h, chain.hops) /\ op'.changed = << >>
    BY <2>1 DEF NoOp
  <2>4. op' \in Deployments
    BY <1>0, <2>1, <2>2 DEF Deployments
  <2> QED BY <1>1, <2>2, <2>3, <2>4
<1>3. CASE DisableBegins
  <2>1. op' = [NoOp EXCEPT !.pc = "apply", !.hops = chain.hops, !.old = chain, !.before = runs,
                           !.left = Order(FALSE, None, chain.hops)]
    BY <1>3 DEF DisableBegins
  <2>2. /\ Order(FALSE, None, chain.hops) \in Seq(Nodes)
        /\ ToSet(chain.hops) \subseteq ToSet(Order(FALSE, None, chain.hops))
    BY <1>0, OrderComplete
  <2>3. /\ op'.pc = "apply" /\ op'.hops = chain.hops /\ op'.old = chain /\ op'.before = runs
        /\ op'.left = Order(FALSE, None, chain.hops) /\ op'.changed = << >>
    BY <2>1 DEF NoOp
  <2>4. op' \in Deployments
    BY <1>0, <2>1, <2>2 DEF Deployments
  <2> QED BY <1>1, <2>2, <2>3, <2>4
<1> QED BY <1>2, <1>3

\* The steps of a deployment.
LEMMA DeploySteps == ChainTypes /\ (DeployStep \/ GivenUp) => ChainTypes'
<1> SUFFICES ASSUME ChainTypes, DeployStep \/ GivenUp PROVE ChainTypes'
  OBVIOUS
<1> USE DEF Doubts
<1>0. /\ op \in Deployments /\ chain \in ChainRows /\ NoOp \in Deployments
      /\ runs \in [Nodes -> Parts] /\ shown \in [Nodes -> Parts] /\ doubt \in [Nodes -> Doubts]
      /\ \A n : OldPart(n) \in Parts /\ NewPart(n) \in Parts /\ Left(n) \in {"lost", "left"}
      /\ op.left \in Seq(Nodes) /\ op.changed \in Seq(Nodes)
  BY PartsTyped DEF ChainTypes, Deployments
<1>1. /\ waiting' = waiting /\ waiting \in Parts
      /\ edit \in {None} \cup (HopLists \X {"update"}) \cup {<<None, "delete">>}
      /\ ops \in 0 .. MaxOps /\ failures \in 0 .. MaxFailures
      /\ Failure => failures' \in 0 .. MaxFailures
  BY ChainCounters DEF ChainTypes, ChainTypeOK, DeployStep, GivenUp
<1>2. CASE GivenUp
  <2>1. op' \in Deployments /\ failures' \in 0 .. MaxFailures
    BY <1>0, <1>1, <1>2, DeploymentFields DEF GivenUp
  <2> QED BY <1>0, <1>1, <1>2, <2>1 DEF GivenUp, ChainTypes, ChainTypeOK, Deployments, ChainRows
<1>3. CASE Preflight
  <2>1. op' \in Deployments /\ failures' \in 0 .. MaxFailures
    BY <1>0, <1>1, <1>3, DeploymentFields DEF Preflight
  <2> QED BY <1>0, <1>1, <1>3, <2>1 DEF Preflight, ChainTypes, ChainTypeOK, Deployments, ChainRows
<1>4. CASE ApplySkips
  <2>1. op' \in Deployments
    <3>1. Tail(op.left) \in Seq(Nodes)
      BY <1>0, <1>4, ToSetTail DEF ApplySkips
    <3>2. op' = [op EXCEPT !.left = Tail(op.left)] \/ op' = [op EXCEPT !.pc = "undo"]
      BY <1>4 DEF ApplySkips
    <3> QED BY <1>0, <3>1, <3>2 DEF Deployments
  <2>2. failures' \in 0 .. MaxFailures
    BY <1>1, <1>4 DEF ApplySkips
  <2> QED BY <1>0, <1>1, <1>4, <2>1, <2>2 DEF ApplySkips, ChainTypes, ChainTypeOK, Deployments, ChainRows
<1>5. CASE ApplySucceeds
  <2> DEFINE n == Head(op.left)
  <2>1. n \in Nodes /\ Tail(op.left) \in Seq(Nodes) /\ Append(op.changed, n) \in Seq(Nodes)
    BY <1>0, <1>5, ToSetTail, ToSetAppend DEF ApplySucceeds
  <2>2. op' = [op EXCEPT !.left = Tail(op.left), !.changed = Append(op.changed, n)]
    BY <1>5 DEF ApplySucceeds
  <2>3. runs' = [runs EXCEPT ![n] = NewPart(n)]
    BY <1>5 DEF ApplySucceeds
  <2>4. \/ shown' = [shown EXCEPT ![n] = NewPart(n)] /\ doubt' = [doubt EXCEPT ![n] = "no"] /\ UNCHANGED failures
        \/ Failure /\ doubt' = [doubt EXCEPT ![n] = "lost"] /\ UNCHANGED shown
    BY <1>5 DEF ApplySucceeds
  <2>5. UNCHANGED <<chain, edit, ops>>
    BY <1>5 DEF ApplySucceeds
  <2> HIDE DEF n
  <2>6. op' \in Deployments
    BY <1>0, <2>1, <2>2, DeploymentFields
  <2>7. runs' \in [Nodes -> Parts]
    BY <1>0, <2>3
  <2>8. shown' \in [Nodes -> Parts]
    BY <1>0, <2>4
  <2>9. doubt' \in [Nodes -> Doubts] /\ failures' \in 0 .. MaxFailures
    BY <1>0, <1>1, <2>4
  <2> QED BY <1>0, <1>1, <2>5, <2>6, <2>7, <2>8, <2>9 DEF ChainTypes, ChainTypeOK, Deployments, ChainRows
<1>6. CASE ApplyFails
  <2> DEFINE n == Head(op.left)
  <2>1. op' \in Deployments
    BY <1>0, <1>6, DeploymentFields DEF ApplyFails
  <2>2. \/ UNCHANGED <<runs, doubt, failures>>
        \/ /\ Failure
           /\ \/ UNCHANGED <<runs, doubt>>
              \/ runs' = [runs EXCEPT ![n] = NewPart(n)] /\ doubt' = [doubt EXCEPT ![n] = "lost"]
    BY <1>6 DEF ApplyFails
  <2> HIDE DEF n
  <2>3. runs' \in [Nodes -> Parts] /\ doubt' \in [Nodes -> Doubts] /\ failures' \in 0 .. MaxFailures
    BY <1>0, <1>1, <2>2
  <2> QED BY <1>0, <1>1, <1>6, <2>1, <2>3 DEF ApplyFails, ChainTypes, ChainTypeOK, Deployments, ChainRows
<1>7. CASE Undoes
  <2> DEFINE n == Last(op.changed)
  <2>1. op' \in Deployments
    <3>1. Front(op.changed) \in Seq(Nodes)
      BY <1>0, <1>7, ToSetFront DEF Undoes
    <3>2. op' = [op EXCEPT !.changed = Front(op.changed)]
            \/ op' = [op EXCEPT !.changed = Front(op.changed), !.torn = TRUE]
      BY <1>7 DEF Undoes
    <3> QED BY <1>0, <3>1, <3>2 DEF Deployments
  <2>2. failures' \in 0 .. MaxFailures
    BY <1>1, <1>7 DEF Undoes
  <2>3. runs' \in {runs, [runs EXCEPT ![n] = OldPart(n)]} /\ doubt' \in {[doubt EXCEPT ![n] = "no"], [doubt EXCEPT ![n] = Left(n)]}
    BY <1>7 DEF Undoes
  <2> HIDE DEF n
  <2>4. runs' \in [Nodes -> Parts] /\ doubt' \in [Nodes -> Doubts]
    BY <1>0, <2>3
  <2> QED BY <1>0, <1>1, <1>7, <2>1, <2>2, <2>4 DEF Undoes, ChainTypes, ChainTypeOK, Deployments, ChainRows
<1>8. CASE UndoEnds
  <2>1. op' \in Deployments
    BY <1>0, <1>8, DeploymentFields DEF UndoEnds
  <2>2. doubt' \in [Nodes -> Doubts]
    BY <1>0, <1>8 DEF UndoEnds
  <2>3. chain' \in ChainRows
    <3>1. chain' = chain \/ chain' = [chain EXCEPT !.enabled = op.old.enabled, !.state = "degraded"]
      BY <1>8 DEF UndoEnds
    <3>2. op.old.enabled \in BOOLEAN
      BY <1>0 DEF ChainRows, Deployments
    <3> QED BY <1>0, <3>1, <3>2 DEF ChainRows
  <2>4. failures' \in 0 .. MaxFailures
    BY <1>1, <1>8 DEF UndoEnds
  <2> QED BY <1>0, <1>1, <1>8, <2>1, <2>2, <2>3, <2>4 DEF UndoEnds, ChainTypes, ChainTypeOK, Deployments, ChainRows
<1>9. CASE Updates \/ Runtime
  <2>1. op' \in Deployments
    BY <1>0, <1>9, DeploymentFields DEF Updates, Runtime
  <2>2. failures' \in 0 .. MaxFailures
    <3>1. Failure \/ UNCHANGED failures
      <4>1. CASE chain.exists
        BY <1>9, <4>1 DEF Updates, Runtime
      <4>2. CASE ~chain.exists
        BY <1>9, <4>2 DEF Updates, Runtime
      <4> QED BY <4>1, <4>2
    <3> QED BY <1>1, <3>1
  <2>3. chain' \in ChainRows
    <3>1. op.enable \in BOOLEAN /\ op.hops \in Parts
      BY <1>0 DEF Deployments
    <3>2. CASE UNCHANGED chain
      BY <1>0, <3>2
    <3>3. CASE chain' = [exists |-> TRUE, enabled |-> TRUE, state |-> "degraded", hops |-> op.hops]
      BY <3>1, <3>3 DEF ChainRows
    <3>4. CASE chain' = [chain EXCEPT !.enabled = op.enable,
                                      !.state = IF op.enable THEN "degraded" ELSE "disabled"]
      BY <1>0, <3>1, <3>4 DEF ChainRows
    <3> QED BY <1>9, <3>2, <3>3, <3>4 DEF Updates, Runtime
  <2>4. UNCHANGED <<runs, shown, edit, doubt, ops>>
    BY <1>9 DEF Updates, Runtime
  <2> QED BY <1>0, <1>1, <2>1, <2>2, <2>3, <2>4 DEF ChainTypes, ChainTypeOK, Deployments, ChainRows
<1>10. CASE DeployProbes
  <2>1. op' \in Deployments
    BY <1>0, <1>10, DeploymentFields DEF DeployProbes
  <2>2. chain' \in ChainRows
    BY <1>0, <1>10 DEF DeployProbes, Probed, ChainRows
  <2> QED BY <1>0, <1>1, <1>10, <2>1, <2>2 DEF DeployProbes, ChainTypes, ChainTypeOK, Deployments, ChainRows
<1>11. CASE DeployEnds
  BY <1>0, <1>1, <1>11 DEF DeployEnds, ChainTypes, ChainTypeOK, Deployments, ChainRows
<1> QED BY <1>2, <1>3, <1>4, <1>5, <1>6, <1>7, <1>8, <1>9, <1>10, <1>11 DEF DeployStep

\* The other steps.
LEMMA ChainSteps == ChainTypes /\ [ChainNext]_chainVars => ChainTypes'
<1> SUFFICES ASSUME ChainTypes, [ChainNext]_chainVars PROVE ChainTypes'
  OBVIOUS
<1> DEFINE Edits == {None} \cup (HopLists \X {"update"}) \cup {<<None, "delete">>}
<1>0. /\ HopLists \subseteq Parts /\ op \in Deployments /\ chain \in ChainRows
      /\ NoOp \in Deployments /\ NoChain \in ChainRows
      /\ runs \in [Nodes -> Parts] /\ shown \in [Nodes -> Parts] /\ doubt \in [Nodes -> Doubts]
      /\ \A n : Asked(n) \in Parts /\ Left(n) \in {"lost", "left"}
  BY PartsTyped DEF ChainTypes
<1>1. /\ edit \in Edits /\ waiting \in Parts /\ None \in Parts
      /\ ops \in 0 .. MaxOps /\ failures \in 0 .. MaxFailures
      /\ Op => ops' \in 0 .. MaxOps
      /\ Failure => failures' \in 0 .. MaxFailures
  BY ChainCounters, PartsTyped DEF ChainTypes, ChainTypeOK
<1>2. CASE (DeployBegins /\ chain.exists) \/ DisableBegins
  <2>1. /\ op' \in Deployments /\ UNCHANGED <<chain, runs, shown, edit, doubt, failures>>
        /\ waiting' \in Parts /\ ops' \in 0 .. MaxOps
    BY <1>2, DeployStarted
  <2> QED BY <1>0, <1>1, <2>1 DEF ChainTypes, ChainTypeOK, Deployments, ChainRows
<1>3. CASE GivenUp \/ DeployStep
  BY <1>3, DeploySteps
<1>4. CASE CreateChain
  <2>1. chain' \in ChainRows
    BY <1>0, <1>4 DEF CreateChain, NoChain, ChainRows
  <2> QED BY <1>0, <1>1, <1>4, <2>1 DEF CreateChain, ChainTypes, ChainTypeOK, Deployments, ChainRows
<1>5. CASE EditReads
  BY <1>0, <1>1, <1>5 DEF EditReads, ChainTypes, ChainTypeOK, Deployments, ChainRows
<1>6. CASE ReplaceWrites \/ DeleteWrites
  <2>1. edit[2] = "update" /\ edit # None => edit[1] \in HopLists
    BY <1>1
  <2>2. chain' \in ChainRows
    <3>1. CASE ReplaceWrites
      BY <1>0, <2>1, <3>1 DEF ReplaceWrites, ChainRows
    <3>2. CASE DeleteWrites
      BY <1>0, <3>2 DEF DeleteWrites
    <3> QED BY <1>6, <3>1, <3>2
  <2>3. doubt' \in [Nodes -> Doubts] /\ edit' \in Edits
    BY <1>0, <1>6 DEF ReplaceWrites, DeleteWrites, Doubted, Doubts
  <2>4. UNCHANGED <<runs, shown, op, waiting, ops, failures>>
    BY <1>6 DEF ReplaceWrites, DeleteWrites
  <2> QED BY <1>0, <1>1, <2>2, <2>3, <2>4 DEF ChainTypes, ChainTypeOK, Deployments, ChainRows, Doubts
<1>7. CASE ProbeLoop
  <2>1. chain' \in ChainRows
    BY <1>0, <1>7 DEF ProbeLoop, Probed, ChainRows
  <2> QED BY <1>0, <1>1, <1>7, <2>1 DEF ProbeLoop, ChainTypes, ChainTypeOK, Deployments, ChainRows
<1>8. ASSUME NEW n \in Nodes, LoopApplies(n) \/ UplinkSyncs(n) PROVE ChainTypes'
  <2>1. runs' = [runs EXCEPT ![n] = Asked(n)] /\ shown' = [shown EXCEPT ![n] = Asked(n)]
          /\ doubt' \in {doubt, [doubt EXCEPT ![n] = "no"]} /\ UNCHANGED <<chain, op, edit, ops, failures, waiting>>
    BY <1>8 DEF LoopApplies, UplinkSyncs
  <2>2. runs' \in [Nodes -> Parts] /\ shown' \in [Nodes -> Parts] /\ doubt' \in [Nodes -> Doubts]
    BY <1>0, <2>1 DEF Doubts
  <2> QED BY <1>0, <1>1, <2>1, <2>2 DEF ChainTypes, ChainTypeOK, Deployments, ChainRows, Doubts
<1>9. CASE ChainsRestart
  <2>1. op' \in Deployments /\ edit' \in Edits /\ waiting' \in Parts /\ failures' \in 0 .. MaxFailures
    BY <1>0, <1>1, <1>9 DEF ChainsRestart
  <2>2. doubt' \in [Nodes -> Doubts]
    BY <1>0, <1>9 DEF ChainsRestart, Doubts
  <2> QED BY <1>0, <1>1, <1>9, <2>1, <2>2 DEF ChainsRestart, ChainTypes, ChainTypeOK, Deployments, ChainRows, Doubts
<1>10. CASE UNCHANGED chainVars
  BY <1>10 DEF chainVars, ChainTypes, ChainTypeOK
<1>11. CASE DeployBegins /\ ~chain.exists
  <2>1. UNCHANGED <<chain, runs, shown, op, edit, doubt, ops, failures>> /\ waiting' = None
    BY <1>11 DEF DeployBegins
  <2> QED BY <1>0, <1>1, <2>1 DEF ChainTypes, ChainTypeOK, Deployments, ChainRows
<1>12. CASE DeployAsks
  <2>1. waiting' \in Parts
    BY <1>0, <1>12 DEF DeployAsks, ChainRows
  <2> QED BY <1>0, <1>1, <1>12, <2>1 DEF DeployAsks, ChainTypes, ChainTypeOK, Deployments, ChainRows
<1> QED BY <1>2, <1>3, <1>4, <1>5, <1>6, <1>7, <1>8, <1>9, <1>10, <1>11, <1>12 DEF ChainNext

LEMMA ChainInitTypes == ChainInit => ChainTypes
<1> SUFFICES ASSUME ChainInit PROVE ChainTypes
  OBVIOUS
<1> USE ChainAssumption DEF ChainInit
<1>1. HopLists \subseteq Parts /\ None \in Parts /\ NoChain \in ChainRows
  BY DEF Parts, NoChain, ChainRows
<1>2. None \in Seq(Nodes)
  BY DEF None
<1>3. op \in Deployments /\ NoOp.pc = "idle"
  BY <1>1, <1>2 DEF NoOp, Deployments, None
<1>4. chain \in ChainRows
  BY <1>1 DEF NoChain, ChainRows
<1>5. ops \in 0 .. MaxOps /\ failures \in 0 .. MaxFailures
  OBVIOUS
<1> QED BY <1>1, <1>3, <1>4, <1>5 DEF ChainTypes, ChainTypeOK, Deployments, ChainRows

\* MCDeployments.TypeOK, the part of a chain.
THEOREM ChainTypeCorrect == ChainSpec => []ChainTypeOK
<1>1. ChainTypes => ChainTypeOK
  BY DEF ChainTypes
<1> QED BY <1>1, ChainInitTypes, ChainSteps, PTL DEF ChainSpec

(***************************************************************************)
(* The deployment of a chain: all or nothing.                              *)
(***************************************************************************)

Concerned(n) == n \in Push /\ (n \in ToSet(op.hops) \/ n \in ToSet(op.old.hops))

\* A node of the deployment has its new part or is still to be given it.
AppliedOrLeft ==
    /\ op.pc \in {"preflight", "apply", "runtime", "probe", "ok", "failed"} =>
           \A n \in Nodes : Concerned(n) => n \in ToSet(op.left) \/ runs[n] = NewPart(n)
    /\ op.pc \in {"runtime", "probe", "ok", "failed"} => op.left = << >>

\* A node that does not run what it ran before, nor the old part, is in doubt or among those
\* the rollback still has to visit.
OldOrChanged ==
    /\ op.pc = "preflight" => op.changed = << >>
    /\ op.pc \in {"preflight", "refused"} => \A n \in Push : runs[n] = op.before[n]
    /\ op.pc \in {"apply", "undo", "undone"} =>
           \A n \in Push : \/ runs[n] \in {op.before[n], OldPart(n)}
                           \/ doubt[n] # "no"
                           \/ n \in ToSet(op.changed)
    /\ op.pc = "undone" => op.changed = << >>

Outcome == AppliedOrLeft /\ OldOrChanged
ChainInv == ChainTypes /\ Outcome

\* Between deployments it says nothing.
LEMMA IdleOutcome == op.pc = "idle" => Outcome
BY DEF Outcome, AppliedOrLeft, OldOrChanged

\* What a deployment is for does not change while it goes on.
Same == op'.enable = op.enable /\ op'.hops = op.hops /\ op'.old = op.old /\ op'.before = op.before

LEMMA SameParts ==
    ASSUME Same
    PROVE  \A n : /\ NewPart(n)' = NewPart(n) /\ OldPart(n)' = OldPart(n)
                  /\ Concerned(n)' <=> Concerned(n)
BY DEF Same, NewPart, OldPart, Part, Concerned, Push

\* No step that leaves the Agents alone and takes no doubt back disturbs it.
LEMMA OutcomeStands ==
    ASSUME Outcome, UNCHANGED <<op, runs>>, \A n \in Push : doubt'[n] = doubt[n] \/ doubt'[n] # "no"
    PROVE  Outcome'
<1>1. \A n : NewPart(n)' = NewPart(n) /\ OldPart(n)' = OldPart(n) /\ (Concerned(n)' <=> Concerned(n))
  BY SameParts DEF Same
<1> QED BY <1>1 DEF Outcome, AppliedOrLeft, OldOrChanged

\* The steps of applying.
LEMMA ApplyOutcome ==
    ASSUME ChainInv,
           (DeployBegins /\ chain.exists) \/ DisableBegins \/ GivenUp \/ Preflight \/ ApplySkips \/ ApplySucceeds \/ ApplyFails
    PROVE  Outcome'
<1>0. /\ op \in Deployments /\ runs \in [Nodes -> Parts] /\ doubt \in [Nodes -> Doubts]
      /\ op.left \in Seq(Nodes) /\ op.changed \in Seq(Nodes)
      /\ Outcome
  BY PartsTyped DEF ChainInv, ChainTypes, Deployments
<1>1. CASE (DeployBegins /\ chain.exists) \/ DisableBegins
  <2>1. /\ op'.pc \in {"preflight", "apply"} /\ op'.before = runs /\ op'.changed = << >>
        /\ ToSet(op'.hops) \cup ToSet(op'.old.hops) \subseteq ToSet(op'.left)
        /\ UNCHANGED runs
    BY <1>1, DeployStarted DEF ChainInv
  <2>2. \A n \in Nodes : Concerned(n)' => n \in ToSet(op'.left)
    BY <2>1 DEF Concerned
  <2>3. AppliedOrLeft'
    BY <2>1, <2>2 DEF AppliedOrLeft
  <2>4. OldOrChanged'
    BY <2>1 DEF OldOrChanged
  <2> QED BY <2>3, <2>4 DEF Outcome
<1>2. CASE GivenUp
  <2>1. Same /\ op'.pc = op.pc /\ op'.left = op.left /\ op'.changed = op.changed /\ UNCHANGED <<runs, doubt>>
    BY <1>0, <1>2 DEF GivenUp, Same, Deployments
  <2> QED BY <1>0, <2>1, SameParts DEF Outcome, AppliedOrLeft, OldOrChanged, Same
<1>3. CASE Preflight
  <2>1. Same /\ op.pc = "preflight" /\ op'.pc \in {"apply", "refused"} /\ op'.left = op.left
          /\ op'.changed = op.changed /\ UNCHANGED <<runs, doubt>>
    BY <1>0, <1>3 DEF Preflight, Same, Deployments
  <2> QED BY <1>0, <2>1, SameParts DEF Outcome, AppliedOrLeft, OldOrChanged, Same
<1>4. CASE ApplySkips
  <2>0. /\ Same /\ op.pc = "apply" /\ op.left # << >> /\ Head(op.left) \notin Push
        /\ op'.changed = op.changed /\ UNCHANGED <<runs, doubt>>
        /\ \/ op'.pc = "apply" /\ op'.left = Tail(op.left)
           \/ op'.pc = "undo"
    BY <1>0, <1>4 DEF ApplySkips, Same, Deployments, Push
  <2>1. OldOrChanged'
    BY <1>0, <2>0, SameParts DEF Outcome, OldOrChanged, Same
  <2>2. CASE op'.pc = "apply" /\ op'.left = Tail(op.left)
    <3>1. ToSet(op.left) \subseteq ToSet(op'.left) \cup {Head(op.left)}
      BY <1>0, <2>0, <2>2, ToSetTail
    <3>2. \A n \in Nodes : Concerned(n) => n \in ToSet(op'.left) \/ runs[n] = NewPart(n)
      BY <1>0, <2>0, <3>1 DEF Outcome, AppliedOrLeft, Concerned
    <3>3. AppliedOrLeft'
      BY <2>0, <2>2, <3>2, SameParts DEF AppliedOrLeft
    <3> QED BY <2>1, <3>3 DEF Outcome
  <2>3. CASE op'.pc = "undo"
    BY <2>1, <2>3 DEF Outcome, AppliedOrLeft
  <2> QED BY <2>0, <2>2, <2>3
<1>5. CASE ApplySucceeds
  <2> DEFINE m == Head(op.left)
  <2>1. Same /\ op.pc = "apply" /\ op'.pc = "apply" /\ op'.left = Tail(op.left) /\ op.left # << >>
          /\ op'.changed = Append(op.changed, m) /\ m \in Push
    BY <1>0, <1>5 DEF ApplySucceeds, Same, Deployments
  <2>2. runs' = [runs EXCEPT ![m] = NewPart(m)] /\ \E d \in Doubts : doubt' = [doubt EXCEPT ![m] = d]
    BY <1>5 DEF ApplySucceeds, Doubts
  <2>3. ToSet(op.left) \subseteq ToSet(op'.left) \cup {m} /\ m \in Nodes
    BY <1>0, <2>1, ToSetTail
  <2>4. ToSet(op'.changed) = ToSet(op.changed) \cup {m}
    BY <1>0, <2>1, <2>3, ToSetAppend
  <2> HIDE DEF m
  <2>5. \A n \in Nodes : runs'[n] = (IF n = m THEN NewPart(m) ELSE runs[n])
                           /\ (n # m => doubt'[n] = doubt[n])
    BY <1>0, <2>2, <2>3
  <2>6. \A n \in Nodes : Concerned(n) => n \in ToSet(op'.left) \/ runs'[n] = NewPart(n)
    BY <1>0, <2>1, <2>3, <2>5 DEF Outcome, AppliedOrLeft
  <2>7. AppliedOrLeft'
    BY <2>1, <2>6, SameParts DEF AppliedOrLeft
  <2>8. \A n \in Push : \/ runs'[n] \in {op.before[n], OldPart(n)}
                        \/ doubt'[n] # "no"
                        \/ n \in ToSet(op'.changed)
    BY <1>0, <2>1, <2>4, <2>5 DEF Outcome, OldOrChanged, Push
  <2>9. OldOrChanged'
    BY <2>1, <2>8, SameParts DEF OldOrChanged, Same
  <2> QED BY <2>7, <2>9 DEF Outcome
<1>6. CASE ApplyFails
  <2> DEFINE m == Head(op.left)
  <2>1. Same /\ op.pc = "apply" /\ op'.pc = "undo" /\ op'.changed = op.changed /\ m \in Nodes
    BY <1>0, <1>6 DEF ApplyFails, Same, Deployments, Push
  <2>2. \/ UNCHANGED <<runs, doubt>>
        \/ runs' = [runs EXCEPT ![m] = NewPart(m)] /\ doubt' = [doubt EXCEPT ![m] = "lost"]
    BY <1>6 DEF ApplyFails
  <2> HIDE DEF m
  <2>3. \A n \in Nodes : (runs'[n] = runs[n] /\ doubt'[n] = doubt[n]) \/ doubt'[n] # "no"
    BY <1>0, <2>1, <2>2
  <2>4. \A n \in Push : \/ runs'[n] \in {op.before[n], OldPart(n)}
                        \/ doubt'[n] # "no"
                        \/ n \in ToSet(op.changed)
    BY <1>0, <2>1, <2>3 DEF Outcome, OldOrChanged, Push
  <2> QED BY <2>1, <2>4, SameParts DEF Outcome, AppliedOrLeft, OldOrChanged, Same
<1> QED BY <1>1, <1>2, <1>3, <1>4, <1>5, <1>6

\* The steps of the end of a deployment and of a rollback.
LEMMA EndOutcome ==
    ASSUME ChainInv, Undoes \/ UndoEnds \/ Updates \/ Runtime \/ DeployProbes \/ DeployEnds
    PROVE  Outcome'
<1>0. /\ op \in Deployments /\ runs \in [Nodes -> Parts] /\ doubt \in [Nodes -> Doubts]
      /\ op.left \in Seq(Nodes) /\ op.changed \in Seq(Nodes)
      /\ Outcome /\ \A n : Left(n) \in {"lost", "left"}
  BY PartsTyped DEF ChainInv, ChainTypes, Deployments
<1>1. CASE Undoes
  <2> DEFINE m == Last(op.changed)
  <2>1. Same /\ op.pc = "undo" /\ op'.pc = "undo" /\ op'.changed = Front(op.changed) /\ op.changed # << >>
    BY <1>0, <1>1 DEF Undoes, Same, Deployments
  <2>2. /\ runs' \in {runs, [runs EXCEPT ![m] = OldPart(m)]}
        /\ \/ runs' = [runs EXCEPT ![m] = OldPart(m)] /\ doubt' = [doubt EXCEPT ![m] = "no"]
           \/ doubt' = [doubt EXCEPT ![m] = Left(m)]
    BY <1>1 DEF Undoes
  <2>3. ToSet(op.changed) \subseteq ToSet(op'.changed) \cup {m} /\ m \in Nodes
    BY <1>0, <2>1, ToSetFront
  <2> HIDE DEF m
  <2>4. \A n \in Nodes \ {m} : runs'[n] = runs[n] /\ doubt'[n] = doubt[n]
    BY <1>0, <2>2, <2>3
  <2>5. runs'[m] = OldPart(m) \/ doubt'[m] # "no"
    BY <1>0, <2>2, <2>3
  <2>6. \A n \in Push : \/ runs'[n] \in {op.before[n], OldPart(n)}
                        \/ doubt'[n] # "no"
                        \/ n \in ToSet(op'.changed)
    BY <1>0, <2>1, <2>3, <2>4, <2>5 DEF Outcome, OldOrChanged, Push
  <2> QED BY <2>1, <2>6, SameParts DEF Outcome, AppliedOrLeft, OldOrChanged, Same
<1>2. CASE UndoEnds
  <2>1. Same /\ op.pc = "undo" /\ op'.pc = "undone" /\ op.changed = << >> /\ op'.changed = op.changed
          /\ UNCHANGED runs
    BY <1>0, <1>2 DEF UndoEnds, Same, Deployments
  <2>2. \A n \in Nodes : doubt'[n] = doubt[n] \/ doubt'[n] = "lost"
    BY <1>2 DEF UndoEnds
  <2>3. \A n \in Push : \/ runs[n] \in {op.before[n], OldPart(n)}
                        \/ doubt'[n] # "no"
                        \/ n \in ToSet(op.changed)
    BY <1>0, <2>1, <2>2 DEF Outcome, OldOrChanged, Push
  <2> QED BY <2>1, <2>3, SameParts DEF Outcome, AppliedOrLeft, OldOrChanged, Same
<1>3. CASE Updates \/ Runtime
  <2>1. Same /\ op.pc \in {"apply", "runtime"} /\ op'.pc \in {"runtime", "probe", "ok", "undo", "failed"}
          /\ op'.left = op.left /\ op'.changed = op.changed /\ UNCHANGED <<runs, doubt>>
    BY <1>0, <1>3 DEF Updates, Runtime, Same, Deployments
  <2>2. op.left = << >>
    BY <1>0, <1>3 DEF Updates, Runtime, Outcome, AppliedOrLeft
  <2>3. op'.pc = "undo" => op.pc = "apply"
    BY <1>0, <1>3 DEF Updates, Runtime, Deployments
  <2> QED BY <1>0, <2>1, <2>2, <2>3, SameParts DEF Outcome, AppliedOrLeft, OldOrChanged, Same
<1>4. CASE DeployProbes
  <2>1. Same /\ op.pc = "probe" /\ op'.pc = "ok" /\ op'.left = op.left /\ UNCHANGED runs
    BY <1>0, <1>4 DEF DeployProbes, Same, Deployments
  <2> QED BY <1>0, <2>1, SameParts DEF Outcome, AppliedOrLeft, OldOrChanged, Same
<1>5. CASE DeployEnds
  <2>1. op'.pc = "idle"
    BY <1>5 DEF DeployEnds, NoOp
  <2> QED BY <2>1 DEF Outcome, AppliedOrLeft, OldOrChanged
<1> QED BY <1>1, <1>2, <1>3, <1>4, <1>5

\* All or nothing among the push nodes (ProxyChains.DeployOutcome), for any nodes, hops,
\* edits and failing calls and writes. A deployment that ends well has given every node its new
\* part; so has one that fails at its last write of the row, whose caller is told of an error
\* (service.go:163-165 and 200); one that is rolled back leaves every node with what it ran,
\* with the old part, or in doubt; one that is refused leaves every node with what it ran.
THEOREM DeploymentsAreAtomic == ChainSpec => []DeployOutcome
<1>1. ChainInit => ChainInv
  <2> SUFFICES ASSUME ChainInit PROVE ChainInv
    OBVIOUS
  <2>1. op.pc = "idle"
    BY DEF ChainInit, NoOp
  <2> QED BY <2>1, ChainInitTypes, IdleOutcome DEF ChainInv
<1>2. ChainInv /\ [ChainNext]_chainVars => ChainInv'
  <2> SUFFICES ASSUME ChainInv, [ChainNext]_chainVars PROVE ChainInv'
    OBVIOUS
  <2>1. ChainTypes'
    BY ChainSteps DEF ChainInv
  <2>2. Outcome /\ doubt \in [Nodes -> Doubts]
    BY PartsTyped DEF ChainInv
  <2>3. CASE ChainsRestart
    <3>1. op'.pc = "idle"
      BY <2>3 DEF ChainsRestart, NoOp
    <3> QED BY <2>1, <3>1 DEF ChainInv, Outcome, AppliedOrLeft, OldOrChanged
  <2>4. CASE \E n \in Nodes : LoopApplies(n) \/ UplinkSyncs(n)
    <3>1. op'.pc = "idle"
      BY <2>4 DEF LoopApplies, UplinkSyncs
    <3> QED BY <2>1, <3>1 DEF ChainInv, Outcome, AppliedOrLeft, OldOrChanged
  <2>5. CASE CreateChain \/ EditReads \/ DeployAsks \/ (DeployBegins /\ ~chain.exists)
             \/ ProbeLoop \/ UNCHANGED chainVars
    <3>1. UNCHANGED <<op, runs, doubt>>
      BY <2>5 DEF CreateChain, EditReads, DeployAsks, DeployBegins, ProbeLoop, chainVars
    <3> QED BY <2>1, <2>2, <3>1, OutcomeStands DEF ChainInv
  <2>6. CASE ReplaceWrites \/ DeleteWrites
    <3>1. UNCHANGED <<op, runs>> /\ \A n \in Push : doubt'[n] = doubt[n] \/ doubt'[n] # "no"
      BY <2>6 DEF ReplaceWrites, DeleteWrites, Doubted, Push
    <3> QED BY <2>1, <2>2, <3>1, OutcomeStands DEF ChainInv
  <2> QED BY <2>1, <2>3, <2>4, <2>5, <2>6, ApplyOutcome, EndOutcome DEF ChainNext, DeployStep, ChainInv
<1>3. ChainInv => DeployOutcome
  <2> SUFFICES ASSUME ChainInv PROVE DeployOutcome
    OBVIOUS
  <2>1. op.pc \in {"ok", "failed"} => \A n \in Push \cap (ToSet(op.hops) \cup ToSet(op.old.hops)) : runs[n] = NewPart(n)
    <3>1. ToSet(<< >>) = {}
      BY DEF ToSet
    <3> QED BY <3>1 DEF ChainInv, Outcome, AppliedOrLeft, Concerned, Push
  <2>2. op.pc = "undone" => \A n \in Push : runs[n] \in {op.before[n], OldPart(n)} \/ doubt[n] # "no"
    <3>1. ToSet(<< >>) = {}
      BY DEF ToSet
    <3> QED BY <3>1 DEF ChainInv, Outcome, OldOrChanged
  <2>3. op.pc = "refused" => \A n \in Push : runs[n] = op.before[n]
    BY DEF ChainInv, Outcome, OldOrChanged
  <2> QED BY <2>1, <2>2, <2>3 DEF DeployOutcome
<1> QED BY <1>1, <1>2, <1>3, PTL DEF ChainSpec

(***************************************************************************)
(* The instance: a behaviour of MCDeployments is one of each part.         *)
(***************************************************************************)

DeploymentsSpec == Init /\ [][Next]_vars

\* Both parts go on as they do alone.
LEMMA Separate == DeploymentsSpec => ChainSpec /\ DnsSpec
<1>1. Init => ChainInit /\ DnsInit
  BY DEF Init
<1>2. [Next]_vars => [ChainNext]_chainVars /\ [DnsNext]_dnsVars
  BY DEF Next, vars
<1> QED BY <1>1, <1>2, PTL DEF DeploymentsSpec, ChainSpec, DnsSpec

\* Rows, jobs and deployments are those the code can hold (MCDeployments.TypeOK).
THEOREM DeploymentsTypeCorrect == DeploymentsSpec => []TypeOK
<1>1. ChainTypeOK /\ DnsTypeOK => TypeOK
  BY DEF TypeOK
<1> QED BY <1>1, Separate, ChainTypeCorrect, DnsTypeCorrect, PTL
===============================================================================
