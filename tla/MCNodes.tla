------------------------------- MODULE MCNodes -------------------------------
(***************************************************************************)
(* A small instance of NodeRows and ManagementPki for TLC. The two share   *)
(* the node's row; a behaviour follows either everybody who writes the row *)
(* ("reports") or the node's management identity ("pki").                  *)
(***************************************************************************)
EXTENDS ManagementPki

VARIABLE part

Init == RowsInit /\ PkiInit /\ part \in {"reports", "pki"}

Next ==
    /\ \/ part = "reports" /\ RowsNext /\ UNCHANGED pkiVars
       \/ part = "pki" /\ PkiNext
    /\ UNCHANGED part

Spec == Init /\ [][Next]_<<pkiAll, part>>
FairSpec == Spec /\ (part = "pki" => PkiFairness)

\* Only the rows and identities the code can hold.
TypeOK == RowsTypeOK /\ PkiTypeOK
=============================================================================
