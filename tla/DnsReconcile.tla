---------------------------- MODULE DnsReconcile ------------------------------
(***************************************************************************)
(* Keeping the records of a managed domain at its addresses                *)
(* (panel/internal/dnsreconcile/service.go, store/dns.go,                  *)
(* api/handlers_dns.go): the reconcile job, the cleanup job that ends a    *)
(* domain, the operator's edits of its row, and whoever else writes to the *)
(* zone.                                                                   *)
(*                                                                         *)
(* The jobs are those of AutomationJobs: at most one of a type runs, and   *)
(* one that stopped half way is started again. Each of them works on a     *)
(* copy of the row and writes back every column at the end.                *)
(*                                                                         *)
(* A value is an address or a target of a CNAME. Abstracted: where a       *)
(* domain's addresses come from (the operator, the node's row, a probe of  *)
(* the Agent) and accounts; a probe that fails, an account that is         *)
(* disabled and a call that fails are all a failing step.                  *)
(***************************************************************************)
EXTENDS Naturals, FiniteSets

CONSTANTS
    Modes,          \* bound: the record modes an operator chooses, sets of types
    Values,         \* bound: the values of records
    MaxEdits,       \* bound: edits of the row, of the addresses and of the zone
    MaxFailed       \* bound: failing calls, restarts, writes that meet other writes

Types == {"A", "AAAA", "CNAME"}

ASSUME DnsAssumption ==
    /\ Modes \subseteq {{"A"}, {"AAAA"}, {"A", "AAAA"}, {"CNAME"}} /\ Modes # {}
    /\ Values \subseteq Nat \ {0} /\ Values # {}
    /\ {MaxEdits, MaxFailed} \subseteq Nat

VARIABLES
    domain,     \* the managed_domains row: mode, enabled, manual (who gives the addresses is the
                \* operator, not the node), desired and created_by_panel of a type
    address,    \* address[t]: the value the domain's source has for a type
    zone,       \* zone[t]: the records of that type under the domain's name
    job,        \* the reconcile job: its step, its copy of the row, the types left to do
    cleanup,    \* the cleanup job: "none", "queued", or its copy of the row
    request,    \* the handler of an edit between its read and its write
    written,    \* history: written[t]: the value of a record the Panel created where there was
                \* none and has not deleted; 0 if there is none
    edits, failed

dnsVars == <<domain, address, zone, job, cleanup, request, written, edits, failed>>

NoDomain == [exists |-> FALSE, enabled |-> FALSE, manual |-> FALSE, mode |-> {},
             desired |-> [t \in Types |-> 0], created |-> [t \in Types |-> FALSE]]
NoReconcile == [pc |-> "idle", copy |-> NoDomain, left |-> {}, ok |-> TRUE]
NoCleanup == [pc |-> "none", copy |-> NoDomain]
NoRequest == [pc |-> "none", copy |-> NoDomain]

Row == [exists : BOOLEAN, enabled : BOOLEAN, manual : BOOLEAN, mode : Modes \cup {{}},
        desired : [Types -> Values \cup {0}], created : [Types -> BOOLEAN]]

DnsTypeOK ==
    /\ domain \in Row
    /\ address \in [Types -> Values]
    /\ zone \in [Types -> SUBSET Values]
    /\ job \in [pc : {"idle", "clean", "look", "upsert", "write"}, copy : Row,
                left : SUBSET Types, ok : BOOLEAN]
    /\ job.pc \in {"look", "upsert"} =>
           job.left # {} /\ \A t \in job.left : job.copy.desired[t] # 0
    /\ cleanup \in [pc : {"none", "queued", "delete", "drop"}, copy : Row]
    /\ request \in [pc : {"none", "edit"}, copy : Row]
    /\ written \in [Types -> Values \cup {0}]
    /\ edits \in 0 .. MaxEdits
    /\ failed \in 0 .. MaxFailed

Failed == failed < MaxFailed /\ failed' = failed + 1
Edit == edits < MaxEdits /\ edits' = edits + 1

\* Something else is under way that may be overtaken.
Busy == job.pc # "idle" \/ cleanup.pc \notin {"none", "queued"} \/ request.pc # "none"
InTurn == IF Busy THEN Failed ELSE UNCHANGED failed

\* buildManagedDomain: the target of a CNAME is the operator's.
Allowed(mode, manual) == mode = {"CNAME"} => manual

DnsInit ==
    /\ \E m \in Modes, e, a \in BOOLEAN :
           /\ Allowed(m, a)
           /\ domain = [NoDomain EXCEPT !.exists = TRUE, !.enabled = e, !.mode = m, !.manual = a]
    /\ \E v \in Values : address = [t \in Types |-> v]
    /\ zone \in [Types -> {{}, {CHOOSE v \in Values : TRUE}}]
    /\ job = NoReconcile
    /\ cleanup = NoCleanup
    /\ request = NoRequest
    /\ written = [t \in Types |-> 0]
    /\ edits = 0
    /\ failed = 0

-----------------------------------------------------------------------------
(* The provider: Lookup, Upsert (SetRecords) and Delete of a value.        *)

Upserted(t, v) ==
    /\ zone' = [zone EXCEPT ![t] = {v}]
    /\ written' = [written EXCEPT ![t] = IF zone[t] = {} \/ @ # 0 THEN v ELSE 0]

\* Delete of the values of the types in ts, all at once.
Deleted(ts, values) ==
    /\ zone' = [t \in Types |-> IF t \in ts THEN zone[t] \ {values[t]} ELSE zone[t]]
    /\ written' = [t \in Types |-> IF t \in ts /\ written[t] = values[t] THEN 0 ELSE written[t]]

-----------------------------------------------------------------------------
(* Reconcile.                                                              *)

\* Only an enabled domain.
ReconcileBegins ==
    /\ job.pc = "idle"
    /\ domain.exists /\ domain.enabled
    /\ job' = [pc |-> "clean", copy |-> domain, left |-> domain.mode, ok |-> TRUE]
    /\ IF cleanup.pc \in {"delete", "drop"} \/ request.pc # "none" THEN Failed ELSE UNCHANGED failed
    /\ UNCHANGED <<domain, address, zone, cleanup, request, written, edits>>

\* When the node's switch for DDNS is off, the domain is paused: its row is written back as
\* it was read (an edit: the operator turns the switch for one round).
ReconcilePauses ==
    /\ job.pc = "idle"
    /\ domain.exists /\ domain.enabled /\ ~domain.manual
    /\ Edit
    /\ job' = [NoReconcile EXCEPT !.pc = "write", !.copy = domain]
    /\ IF cleanup.pc \in {"delete", "drop"} \/ request.pc # "none" THEN Failed ELSE UNCHANGED failed
    /\ UNCHANGED <<domain, address, zone, cleanup, request, written>>

\* desiredAddresses: of a type that is not used, only an address the operator has entered is
\* returned, and none beside a CNAME.
Resolved ==
    LET row == job.copy IN
    [t \in Types |-> IF t \in row.mode \/ (row.manual /\ "CNAME" \notin row.mode \cup {t})
                     THEN address[t] ELSE 0]

\* MUTANT: the old record of a type that is not used any more is forgotten.
UnusedNone == {}

\* The types whose record cleanupDisabledRecord deletes.
Unused == {t \in Types \ job.copy.mode : job.copy.created[t] /\ job.copy.desired[t] # 0}

\* The types are gone through in this order.
TypePrefixes == {{}, {"A"}, {"A", "AAAA"}}

\* The records of types that are not used any more, as far as the Panel created them.
ReconcileCleans ==
    /\ job.pc = "clean"
    /\ Deleted(Unused, job.copy.desired)
    /\ job' = [job EXCEPT !.pc = "look", !.copy.desired =
                   [t \in Types |-> IF t \in job.copy.mode THEN Resolved[t] ELSE 0],
               !.copy.created = [t \in Types |-> t \in job.copy.mode /\ @[t]]]
    /\ UNCHANGED <<domain, address, cleanup, request, edits, failed>>

\* No address, or a Delete that fails, before or after its effect: the desired values are
\* the new ones by then, and are written back with the error.
ReconcileCleanFails ==
    /\ job.pc = "clean"
    /\ Failed
    /\ \/ /\ job' = [job EXCEPT !.pc = "write", !.ok = FALSE]
          /\ UNCHANGED <<zone, written>>
       \/ \E p \in TypePrefixes, q \in TypePrefixes \cup {Types} :
              LET gone == p \ job.copy.mode IN
              /\ p \subseteq q /\ ~(Unused \subseteq p) /\ Cardinality(Unused \cap (q \ p)) <= 1
              /\ Deleted(Unused \cap q, job.copy.desired)
              /\ job' = [job EXCEPT !.pc = "write", !.ok = FALSE,
                     !.copy.desired = [t \in Types |-> IF t \in gone THEN 0 ELSE Resolved[t]],
                     !.copy.created = [t \in Types |-> @[t] /\ t \notin gone]]
    /\ UNCHANGED <<domain, address, cleanup, request, edits>>

\* reconcileRecord of the types in turn, A first.
Current == IF "A" \in job.left THEN "A" ELSE CHOOSE t \in job.left : TRUE

\* MUTANT: after the last type another one is looked for.
TypeDoneAgain == [job EXCEPT !.left = @ \ {Current}, !.pc = "look"]

TypeDone == [job EXCEPT !.left = @ \ {Current},
                        !.pc = IF job.left = {Current} THEN "write" ELSE "look"]

\* MUTANT: one of several values is enough.
InPlaceLoosely(t) == job.copy.desired[t] \in zone[t]

\* The only value is the desired one.
InPlace(t) == zone[t] = {job.copy.desired[t]}

\* Lookup, and what it says of the creator.
ReconcileLooks ==
    /\ job.pc = "look"
    /\ IF InPlace(Current) THEN job' = TypeDone
       ELSE job' = [job EXCEPT !.pc = "upsert",
                               !.copy.created[Current] = @ \/ zone[Current] = {}]
    /\ UNCHANGED <<domain, address, zone, cleanup, request, written, edits, failed>>

ReconcileLookFails ==
    /\ job.pc = "look"
    /\ Failed
    /\ job' = [job EXCEPT !.pc = "write", !.ok = FALSE]
    /\ UNCHANGED <<domain, address, zone, cleanup, request, written, edits>>

\* Upsert and the second Lookup.
ReconcileUpserts ==
    /\ job.pc = "upsert"
    /\ Upserted(Current, job.copy.desired[Current])
    /\ job' = TypeDone
    /\ UNCHANGED <<domain, address, cleanup, request, edits, failed>>

\* Either of them fails, with or without the effect of the Upsert.
ReconcileUpsertFails ==
    /\ job.pc = "upsert"
    /\ Failed
    /\ \/ Upserted(Current, job.copy.desired[Current])
       \/ UNCHANGED <<zone, written>>
    /\ job' = [job EXCEPT !.pc = "write", !.ok = FALSE]
    /\ UNCHANGED <<domain, address, cleanup, request, edits>>

\* UpdateManagedDomain with every column of the copy, after an error too.
ReconcileWrites ==
    /\ job.pc = "write"
    /\ domain' = IF domain.exists THEN job.copy ELSE domain
    /\ job' = NoReconcile
    /\ UNCHANGED <<address, zone, cleanup, request, written, edits, failed>>

ReconcileStep ==
    \/ ReconcileBegins \/ ReconcilePauses
    \/ ReconcileCleans \/ ReconcileCleanFails
    \/ ReconcileLooks \/ ReconcileLookFails
    \/ ReconcileUpserts \/ ReconcileUpsertFails
    \/ ReconcileWrites

-----------------------------------------------------------------------------
(* Deleting a domain.                                                      *)

\* handleDeleteManagedDomain: at once, or, when the Panel created an address record, by a
\* cleanup job.
DeleteDomain ==
    /\ domain.exists
    /\ Edit
    /\ InTurn
    /\ IF domain.created["A"] \/ domain.created["AAAA"]
       THEN /\ domain' = [domain EXCEPT !.enabled = FALSE]
            /\ cleanup' = IF cleanup.pc = "none" THEN [NoCleanup EXCEPT !.pc = "queued"] ELSE cleanup
       ELSE domain' = NoDomain /\ UNCHANGED cleanup
    /\ UNCHANGED <<address, zone, job, request, written>>

\* Cleanup reads the row ...
CleanupBegins ==
    /\ cleanup.pc = "queued"
    /\ cleanup' = IF domain.exists THEN [pc |-> "delete", copy |-> domain] ELSE NoCleanup
    /\ IF job.pc # "idle" \/ request.pc # "none" THEN Failed ELSE UNCHANGED failed
    /\ UNCHANGED <<domain, address, zone, job, request, written, edits>>

\* MUTANT: only A records are cleaned up.
OwnedA == {t \in {"A"} : cleanup.copy.created[t] /\ cleanup.copy.desired[t] # 0}

\* The records Cleanup deletes; those of a CNAME stay.
Owned == {t \in {"A", "AAAA"} : cleanup.copy.created[t] /\ cleanup.copy.desired[t] # 0}

\* ... deletes the records ...
CleanupDeletes ==
    /\ cleanup.pc = "delete"
    /\ Deleted(Owned, cleanup.copy.desired)
    /\ cleanup' = [cleanup EXCEPT !.pc = "drop"]
    /\ UNCHANGED <<domain, address, job, request, edits, failed>>

\* ... or fails at one of them, and is tried again ...
CleanupFails ==
    /\ cleanup.pc = "delete"
    /\ Failed
    /\ \E p \in TypePrefixes : Deleted(Owned \cap p, cleanup.copy.desired)
    /\ cleanup' = [NoCleanup EXCEPT !.pc = "queued"]
    /\ UNCHANGED <<domain, address, job, request, edits>>

\* ... and then the row.
CleanupDrops ==
    /\ cleanup.pc = "drop"
    /\ domain' = NoDomain
    /\ cleanup' = NoCleanup
    /\ UNCHANGED <<address, zone, job, request, written, edits, failed>>

CleanupStep == CleanupBegins \/ CleanupDeletes \/ CleanupFails \/ CleanupDrops

-----------------------------------------------------------------------------
(* The operator, other writers of the zone, the process.                   *)

\* handleCreateManagedDomain.
CreateDomain ==
    /\ ~domain.exists /\ cleanup.pc = "none"
    /\ Edit
    /\ InTurn
    /\ \E m \in Modes, a \in BOOLEAN :
           /\ Allowed(m, a)
           /\ domain' = [NoDomain EXCEPT !.exists = TRUE, !.enabled = TRUE, !.mode = m, !.manual = a]
    /\ UNCHANGED <<address, zone, job, cleanup, request, written>>

\* handleUpdateManagedDomain reads the row ...
UpdateReads ==
    /\ domain.exists
    /\ request.pc = "none"
    /\ Edit
    /\ InTurn
    /\ request' = [pc |-> "edit", copy |-> domain]
    /\ UNCHANGED <<domain, address, zone, job, cleanup, written>>

\* ... and writes every column.
UpdateWrites ==
    /\ request.pc = "edit"
    /\ \E m \in Modes, e, a \in BOOLEAN :
           /\ Allowed(m, a)
           /\ domain' = IF domain.exists
                        THEN [request.copy EXCEPT !.mode = m, !.enabled = e, !.manual = a] ELSE domain
    /\ request' = NoRequest
    /\ UNCHANGED <<address, zone, job, cleanup, written, edits, failed>>

\* The addresses of the source change.
AddressChanges ==
    /\ Edit
    /\ InTurn
    /\ \E v \in Values : address' = [t \in Types |-> v] /\ address' # address
    /\ UNCHANGED <<domain, zone, job, cleanup, request, written>>

\* Somebody else writes to the zone.
ForeignWrite ==
    /\ Edit
    /\ InTurn
    /\ \E t \in Types, records \in SUBSET Values :
           /\ zone' = [zone EXCEPT ![t] = records]
           /\ zone' # zone
           /\ written' = [written EXCEPT ![t] = IF @ \in records THEN @ ELSE 0]
    /\ UNCHANGED <<domain, address, job, cleanup, request>>

\* The Panel stops; its jobs are claimed again.
DnsRestart ==
    /\ Busy
    /\ Failed
    /\ job' = NoReconcile
    /\ cleanup' = IF cleanup.pc = "none" THEN cleanup ELSE [NoCleanup EXCEPT !.pc = "queued"]
    /\ request' = NoRequest
    /\ UNCHANGED <<domain, address, zone, written, edits>>

DnsNext ==
    \/ ReconcileStep \/ CleanupStep
    \/ DeleteDomain \/ CreateDomain \/ UpdateReads \/ UpdateWrites
    \/ AddressChanges \/ ForeignWrite \/ DnsRestart

\* A due domain is reconciled and a job is retried (AutomationJobs).
DnsFairness ==
    /\ WF_dnsVars(ReconcileStep)
    /\ WF_dnsVars(CleanupStep)
    /\ WF_dnsVars(UpdateWrites)

-----------------------------------------------------------------------------
\* No record is orphaned, over any sequence of changes of mode and address, adoptions,
\* foreign writes and deletions that meet no failing step and no other writer: an address
\* record the Panel created is known to the row, with its value, until the Panel deletes it.
OwnedAccounted ==
    failed = 0 /\ ~Busy =>
        \A t \in {"A", "AAAA"} : written[t] # 0 =>
            domain.exists /\ domain.created[t] /\ domain.desired[t] = written[t]

\* The zone holds exactly the addresses of the domain.
Published == \A t \in domain.mode : zone[t] = {address[t]}

\* An enabled domain comes to be published, through failing calls, lost answers, restarts,
\* foreign writes and edits that overtake each other.
DnsConverges ==
    domain.exists /\ domain.enabled ~> Published \/ ~domain.exists \/ ~domain.enabled
=============================================================================
