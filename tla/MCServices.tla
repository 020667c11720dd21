------------------------------ MODULE MCServices -------------------------------
(***************************************************************************)
(* Small instances of the Panel's services and of its pure functions for   *)
(* TLC. They share no state; a behaviour follows one of them, and the      *)
(* functions are evaluated on one input each.                              *)
(***************************************************************************)
EXTENDS ExternalSources, AdminSettings, AgentUpgrade, PanelPkiFiles, InboundRows,
        SubscriptionEndpoints, Versions

VARIABLES part, input

vars == <<sourceVars, adminVars, upgradeVars, pkiVars, inboundVars, part, input>>

-----------------------------------------------------------------------------
(* The inputs of the functions.                                            *)

\* Endpoints an inbound or a source can give.
Offers ==
    [protocol : PasswordTls \cup {"shadowsocks", "vless", "tuic", "vmess"},
     params : [method : {"", "aead"}, password : PasswordForms \cup {"psk "}, uuid : {"", "uuid"},
               tls_mode : {"", "none", "tls", "reality", "other"}, private_key : {0, 1}, public_key : {0, 2},
               short_id : {"", "sid"}, server_name : {"", "name"}],
     skip : {"unset", "yes", "no"}]

\* Parameters a request can give, for every protocol.
Forms ==
    [protocol : PasswordTls \cup {"shadowsocks", "vless", "tuic", "vmess"},
     params : [port : {1}, method : {"", "2022"}, password : PasswordForms, uuid : {"", "uuid"},
               tls_mode : Values.tls_mode, tls : Values.tls, private_key : {0, 1}, public_key : {0, 1, 2},
               short_id : {""}, server_name : {"", "name"}, congestion : {"", "cubic"}]]

\* Hosts of one address and of two, and one the lookup of fails; "h3" cannot be dialled.
MCAddresses == [h1 |-> {1}, h2 |-> {2}, both |-> {1, 2}, lost |-> {}, h3 |-> {3}]

MCNames == {Plain(""), Plain("n"), Word("n", TRUE, <<>>), Word("n", FALSE, <<2>>)}
MCEndpoints == {ep \in [name : MCNames, host : DOMAIN MCAddresses, port : 0 .. 2] :
                   <<ep.host, ep.port>> \in {<<"h1", 1>>, <<"h1", 2>>, <<"h2", 1>>, <<"both", 1>>,
                                            <<"lost", 1>>, <<"h3", 1>>, <<"h1", 0>>}}

Mappings == {<<>>} \cup UNION {[1 .. n -> [listen : {0, 1, 2}, public : {0, 2, 3}]] : n \in 1 .. 4}

Parts == {[word |-> word, value |-> value] : word \in BOOLEAN, value \in {1, 2}}
Texts == {Text("version", <<1, 0, 0>>, pre, "") :
              pre \in {<<>>} \cup UNION {[1 .. n -> Parts] : n \in 1 .. 2}}
         \cup {Text("version", <<1, 1, 0>>, <<>>, "")}
         \cup {Text("empty", <<0, 0, 0>>, <<>>, loose) : loose \in {"x", "y"}}
         \cup {Text("bare", <<0, 0, 0>>, <<>>, loose) : loose \in {"x", "y"}}
         \cup {Text("other", <<0, 0, 0>>, <<>>, loose) : loose \in {"x", "y"}}

NoInput == <<>>

-----------------------------------------------------------------------------

\* The parts that stand still are at one initial state.
Init ==
    /\ SourcesInit /\ AdminInit /\ PkiFilesInit /\ InboundInit /\ UpgradeInit
    /\ \/ /\ part = "upgrade" /\ input = NoInput
       \/ /\ \A k \in Stagings : staging[k].kind = "sha256"
          /\ \/ part \in {"sources", "settings", "pki", "inbounds"} /\ input = NoInput
             \/ part = "offers" /\ input \in Offers
             \/ part = "forms" /\ input \in Forms
             \/ part = "merge" /\ \E eps \in [1 .. 3 -> MCEndpoints] :
                    input = [local |-> SubSeq(eps, 1, 1), external |-> SubSeq(eps, 2, 3)]
             \/ part = "merge" /\ \E names \in [1 .. 5 -> MCNames] :
                    input = [local |-> [i \in 1 .. 5 |-> [name |-> names[i], host |-> "h1", port |-> i]],
                             external |-> <<>>]
             \/ part = "mappings" /\ input \in Mappings
             \/ part = "versions" /\ input \in Texts \X Texts \X Texts

Next ==
    /\ \/ /\ part = "sources" /\ SourcesNext
          /\ UNCHANGED <<adminVars, upgradeVars, pkiVars, inboundVars>>
       \/ /\ part = "settings" /\ AdminNext
          /\ UNCHANGED <<sourceVars, upgradeVars, pkiVars, inboundVars>>
       \/ /\ part = "upgrade" /\ UpgradeNext
          /\ UNCHANGED <<sourceVars, adminVars, pkiVars, inboundVars>>
       \/ /\ part = "pki" /\ PkiFilesNext
          /\ UNCHANGED <<sourceVars, adminVars, upgradeVars, inboundVars>>
       \/ /\ part = "inbounds" /\ InboundNext
          /\ UNCHANGED <<sourceVars, adminVars, upgradeVars, pkiVars>>
    /\ UNCHANGED <<part, input>>

Symmetry == Permutations(Callers) \cup Permutations(Requests)

\* Only the rows, files and requests the code can hold.
TypeOK == SourcesTypeOK /\ AdminTypeOK /\ UpgradeTypeOK /\ PkiFilesTypeOK /\ InboundTypeOK

\* Files that belong together: what the root helper installs was verified, the Panel's identity
\* is complete after every start, and a stop between two files leaves what can be opened.
FilesConsistent == OnlyVerifiedInstalled /\ IdentityUsable /\ OpensAgain

\* The last good body of a source, and the root certificate all Agents trust.
GoodKept == LastGoodKept /\ RootKept

\* The functions, each on its inputs: see SurvivesSource, Meets, MergeSound, MappingsSound and
\* UpgradesEnd; and the rows of inbounds, whose parameters come from a series of requests.
FunctionsAgree ==
    CASE part = "offers" -> SurvivesSource(input)
      [] part = "forms" -> \A psk \in Psks :
                               FillRefuses(input.protocol, input.params) \/
                               Meets(input.protocol, Fill(input.protocol, input.params, 3, psk))
      [] part = "merge" -> MergeSound(input.local, input.external)
      [] part = "mappings" -> \A listen \in 1 .. 3 : MappingsSound(input, listen)
      [] part = "versions" -> UpgradesEnd(input[1], input[2], input[3])
      [] OTHER -> ListenerMeetsClients /\ ChainKeepsRow
=============================================================================
