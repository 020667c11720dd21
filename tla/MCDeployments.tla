---------------------------- MODULE MCDeployments -----------------------------
(***************************************************************************)
(* A small instance of ProxyChains and DnsReconcile for TLC. They share no *)
(* state; a behaviour follows one of them.                                 *)
(***************************************************************************)
EXTENDS ProxyChains, DnsReconcile

CONSTANTS n1, n2, n3

\* A chain of two push nodes, and one with the uplink node.
MCHopLists == {<<n1, n2>>, <<n1, n3>>}
MCModes == {{"A"}, {"A", "AAAA"}, {"CNAME"}}

VARIABLE part

vars == <<chainVars, dnsVars, part>>

\* The part that stands still has nothing to do.
Init ==
    /\ ChainInit /\ DnsInit
    /\ \/ part = "chains" /\ ~domain.enabled /\ ~domain.manual /\ domain.mode = {"A"} /\ address["A"] = 1
                          /\ zone = [t \in Types |-> {}]
       \/ part = "dns" /\ (domain.manual => domain.mode = {"CNAME"}) /\ chain.hops = <<n1, n2>>

Next ==
    /\ \/ part = "chains" /\ ChainNext /\ UNCHANGED dnsVars
       \/ part = "dns" /\ DnsNext /\ UNCHANGED chainVars
    /\ UNCHANGED part

FairSpec == Init /\ [][Next]_vars /\ ChainFairness /\ DnsFairness

\* Only the rows, jobs and deployments the code can hold.
TypeOK == ChainTypeOK /\ DnsTypeOK
=============================================================================
