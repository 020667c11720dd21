------------------------- MODULE SubscriptionEndpoints -------------------------
(***************************************************************************)
(* The endpoints of a subscription (panel/internal/subscription/merge.go,  *)
(* NormalizePortMappings and MapPublicPort of store/models.go): the        *)
(* Panel's own first, then those of external sources; what cannot be       *)
(* dialled and what reaches a host and port that is there already is       *)
(* dropped, names are made unique.                                         *)
(*                                                                         *)
(* An endpoint is a name, a host and a port. A name is a word in upper or  *)
(* lower case with the numbers appended to it.                             *)
(***************************************************************************)
EXTENDS Integers, SequencesExt

CONSTANTS
    Addresses,      \* Addresses[h]: what host h resolves to, {} when the lookup fails
    Undialable      \* 0.0.0.0, localhost and what else no client can dial

ASSUME EndpointsAssumption == Undialable \subseteq DOMAIN Addresses

DialPorts == 1 .. 65535

Word(base, upper, tail) == [base |-> base, upper |-> upper, tail |-> tail]
Plain(base) == Word(base, FALSE, <<>>)
Lower(name) == [name EXCEPT !.upper = FALSE]

-----------------------------------------------------------------------------
(* dedupeByHost: one lookup per host and request.                          *)

Dialable(ep) == ep.port \in DialPorts /\ ep.host \notin Undialable

\* filterDialableEndpoints.
DialableOnes(eps) ==
    LET upTo[i \in 0 .. Len(eps)] ==
            IF i = 0 THEN <<>>
            ELSE IF Dialable(eps[i]) THEN Append(upTo[i - 1], eps[i]) ELSE upTo[i - 1]
    IN  upTo[Len(eps)]

\* hostIdentity: the addresses, or the name when there are none.
Identity(ep) ==
    IF Addresses[ep.host] = {} THEN {<<"name", ep.host, ep.port>>}
    ELSE {<<"ip", ip, ep.port>> : ip \in Addresses[ep.host]}

\* seenIPPort and seenNamePort: what reaches the endpoints kept so far.
Seen(kept) == UNION {Identity(kept[i]) : i \in DOMAIN kept}

\* MUTANT: only an endpoint with all its addresses taken is dropped.
TakenWhole(ep, kept) == Identity(ep) \subseteq Seen(kept)

\* One address of it is taken.
Taken(ep, kept) == Identity(ep) \cap Seen(kept) # {}

Kept(eps) ==
    LET upTo[i \in 0 .. Len(eps)] ==
            IF i = 0 THEN <<>>
            ELSE IF Taken(eps[i], upTo[i - 1]) THEN upTo[i - 1] ELSE Append(upTo[i - 1], eps[i])
    IN  upTo[Len(eps)]

-----------------------------------------------------------------------------
(* uniquifyNames.                                                          *)

\* MUTANT: a number is appended without a look at the names that are there.
NextFree(name, n, names) == n + 1

\* The next number that gives a name nobody has.
FreeNumber(name, n, names) ==
    LET free(k) == Lower([name EXCEPT !.tail = Append(@, k)]) \notin names
    IN CHOOSE k \in n + 1 .. n + 1 + Cardinality(names) :
           free(k) /\ \A j \in n + 1 .. k - 1 : ~free(j)

\* seen: the names so far and the last number appended to each, case ignored.
Named(acc, ep) ==
    LET name == IF ep.name.base = "" THEN Plain("proxy") ELSE ep.name
        key == Lower(name)
        names == DOMAIN acc.seen
        number == FreeNumber(name, acc.seen[key], names)
        renamed == [name EXCEPT !.tail = Append(@, number)]
    IN IF key \notin names
       THEN [eps |-> Append(acc.eps, [ep EXCEPT !.name = name]),
             seen |-> [k \in names \cup {key} |-> IF k = key THEN 1 ELSE acc.seen[k]]]
       ELSE [eps |-> Append(acc.eps, [ep EXCEPT !.name = renamed]),
             seen |-> [k \in names \cup {Lower(renamed)} |->
                          IF k = Lower(renamed) THEN 1 ELSE IF k = key THEN number ELSE acc.seen[k]]]

UniquifyNames(eps) ==
    LET upTo[i \in 0 .. Len(eps)] ==
            IF i = 0 THEN [eps |-> <<>>, seen |-> [k \in {} |-> 0]] ELSE Named(upTo[i - 1], eps[i])
    IN  upTo[Len(eps)].eps

MergeEndpoints(local, external) == UniquifyNames(Kept(DialableOnes(local \o external)))

-----------------------------------------------------------------------------
(* Port mappings of a node.                                                *)

First(places) == CHOOSE i \in places : \A j \in places : i <= j

\* One row: it overwrites the earlier one of its listen port, in its place; a row that maps
\* nothing takes that one back.
WithMapping(acc, m) ==
    LET at == {i \in DOMAIN acc : acc[i].listen = m.listen} IN
    IF m.listen \notin DialPorts THEN acc
    ELSE IF m.public \notin DialPorts \/ m.public = m.listen
         THEN IF at = {} THEN acc ELSE RemoveAt(acc, First(at))
    ELSE IF at = {} THEN Append(acc, m) ELSE [acc EXCEPT ![First(at)] = m]

NormalizePortMappings(rows) ==
    LET upTo[i \in 0 .. Len(rows)] == IF i = 0 THEN <<>> ELSE WithMapping(upTo[i - 1], rows[i])
    IN  upTo[Len(rows)]

MapPublicPort(mappings, listen) ==
    LET hits == {i \in DOMAIN mappings : mappings[i].listen = listen /\ mappings[i].public \in DialPorts}
    IN IF hits = {} THEN listen ELSE mappings[First(hits)].public

-----------------------------------------------------------------------------

\* Of endpoints whose addresses overlap only the first is offered, and nothing else is lost:
\* what was dropped shares an address with one that is offered and came before it, so an
\* external source never displaces an endpoint of the Panel. No two names are alike, case
\* ignored, and whoever came first keeps its own.
OfferedFrom(out, kept, all) ==
    /\ \A i, j \in DOMAIN out : i # j =>
           /\ Lower(out[i].name) # Lower(out[j].name)
           /\ Identity(out[i]) \cap Identity(out[j]) = {}
    /\ \A i \in DOMAIN all : Dialable(all[i]) =>
           \E j \in DOMAIN kept :
               /\ Identity(kept[j]) \cap Identity(all[i]) # {}
               /\ \E k \in 1 .. i : kept[j] = all[k]
    /\ DOMAIN out = DOMAIN kept
    /\ \A i \in DOMAIN out :
           /\ Dialable(out[i]) /\ out[i].host = kept[i].host /\ out[i].port = kept[i].port
           /\ kept[i].name.base # "" =>
                  \/ out[i].name = kept[i].name
                  \/ \E j \in 1 .. i - 1 : Lower(out[j].name) = Lower(kept[i].name)

MergeSound(local, external) ==
    LET all == local \o external
    IN  OfferedFrom(MergeEndpoints(local, external), Kept(DialableOnes(all)), all)

\* The last row of a listen port counts, and one that maps nothing removes it.
MappingsSound(rows, listen) ==
    LET mine == {i \in DOMAIN rows : rows[i].listen = listen}
        last == rows[CHOOSE i \in mine : \A j \in mine : j <= i]
    IN MapPublicPort(NormalizePortMappings(rows), listen) =
           IF mine # {} /\ last.public \in DialPorts THEN last.public ELSE listen
=============================================================================
