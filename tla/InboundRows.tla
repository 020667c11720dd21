------------------------------ MODULE InboundRows ------------------------------
(***************************************************************************)
(* The rows of inbounds: what the Panel fills in                           *)
(* (panel/internal/inboundfill/fill.go), the handlers that write them      *)
(* (api/handlers_inbounds.go, the inbound rows of store.go), and the       *)
(* listener a row becomes on a node (panel/internal/converter/converter.go)*)
(* beside the entry a client gets for it (SubscriptionFormats).            *)
(*                                                                         *)
(* One inbound and its parameters. Abstracted: the listen address, the     *)
(* flow, rates, alter_id and handshake target, the name and `enabled`; a   *)
(* secret is known by its form (SubscriptionFormats; Psks are keys the     *)
(* 2022 methods accept), a private key and its public key by the same      *)
(* number; FRP and managed certificates are the builder's. Of the chains,  *)
(* whether one uses it.                                                    *)
(***************************************************************************)
EXTENDS Naturals, SubscriptionFormats

CONSTANTS
    Protocols,      \* bound: the protocols used, of those in templates
    MaxInboundOps   \* bound: requests

ASSUME InboundAssumption ==
    Protocols \subseteq PasswordTls \cup {"shadowsocks", "vless", "tuic", "vmess"} /\ MaxInboundOps \in Nat

VARIABLES
    inbound,        \* the row
    update,         \* handleUpdateInbound between its check and its write
    chainUse,       \* whether a chain has it as a hop
    deployedRow,    \* history: the row when that chain was enabled
    inboundOps

inboundVars == <<inbound, update, chainUse, deployedRow, inboundOps>>

PemPair == {"cert_pem", "key_pem"}
PathPair == {"cert_path", "key_path"}

\* What a request may give for a parameter; 0, "" and {} leave it out or empty it.
Values == [port |-> {0, 1, 70000}, method |-> {"", "aead", "2022"}, password |-> PasswordForms,
           uuid |-> {"", "uuid", "other"}, tls_mode |-> {"", "none", "tls", "reality", "other"},
           tls |-> {{}, {"cert_pem"}, PathPair, PemPair}, private_key |-> {0, 1}, public_key |-> {0, 1, 2},
           short_id |-> {"", "sid"}, server_name |-> {"", "name"}, congestion |-> {"", "cubic", "other"}]
Blank == [port |-> 0, method |-> "", password |-> "", uuid |-> "", tls_mode |-> "", tls |-> {},
          private_key |-> 0, public_key |-> 0, short_id |-> "", server_name |-> "", congestion |-> ""]

\* The parameters of a request, as a function: one, to create a row the port as well.
Given == UNION {[{f} -> Values[f]] : f \in DOMAIN Values}
Nothing == [f \in {} |-> 0]

\* skipped: history, whether its protocol was changed by a request without parameters since
\* it was last filled.
NoRow == [at |-> "none", protocol |-> "", params |-> Blank, skipped |-> FALSE]
NoUpdate == [on |-> FALSE, row |-> NoRow, overlapped |-> FALSE]

InboundTypeOK ==
    /\ inbound.at \in {"none", "live"} /\ inbound.protocol \in Protocols \cup {""}
    /\ inbound.params.tls_mode \in Values.tls_mode /\ inbound.params.port \in Values.port
    /\ update.on \in BOOLEAN
    /\ chainUse \in {"none", "disabled", "enabled"}
    /\ chainUse # "none" => inbound.at = "live"
    /\ inboundOps \in 0 .. MaxInboundOps

InboundInit ==
    /\ inbound = NoRow
    /\ update = NoUpdate
    /\ chainUse = "none" /\ deployedRow = NoRow
    /\ inboundOps = 0

-----------------------------------------------------------------------------
(* Fill.                                                                   *)

Psks == {"psk", "psk+", "psk/"}

Or(given, default) == IF given = "" THEN default ELSE given
FillPassword(p) == [p EXCEPT !.password = Or(@, "text")]
FillUuid(p) == [p EXCEPT !.uuid = Or(@, "uuid")]

\* MUTANT: the password is one of the older methods whatever the method is.
RepairedAlike(p, psk) == FillPassword(p)

\* RepairShadowsocks2022Password: what is not a PSK of the method is replaced by one in
\* standard Base64.
Repaired(p, psk) ==
    CASE p.method # "2022" -> FillPassword(p)
      [] p.method = "2022" /\ p.password \in Psks -> p
      [] OTHER -> [p EXCEPT !.password = psk]

HasTls(p) == PemPair \subseteq p.tls \/ PathPair \subseteq p.tls
FillTls(p) == IF HasTls(p) THEN p ELSE [p EXCEPT !.tls = @ \cup PemPair]

FillReality(p, key) ==
    [p EXCEPT !.private_key = IF @ = 0 THEN key ELSE @,
              !.short_id = Or(@, "sid"), !.server_name = Or(@, "microsoft")]

\* The modes of TLS a protocol may have, and the one it gets.
ModesOf(protocol) == IF protocol = "vless" THEN {"none", "tls", "reality"} ELSE {"none", "tls"}
FillMode(protocol, p) == [p EXCEPT !.tls_mode = Or(@, IF protocol = "vless" THEN "reality" ELSE "none")]

FillByMode(p, key) ==
    CASE p.tls_mode = "tls" -> FillTls(p)
      [] p.tls_mode = "reality" -> FillReality(p, key)
      [] OTHER -> p

\* An invalid mode of TLS is the only thing refused.
FillRefuses(protocol, p) ==
    protocol \in {"vless", "vmess"} /\ FillMode(protocol, p).tls_mode \notin ModesOf(protocol)

\* key, psk: the number of a key pair and the form of a PSK generated now.
Fill(protocol, p, key, psk) ==
    CASE protocol = "shadowsocks" -> Repaired([p EXCEPT !.method = Or(@, "aead")], psk)
      [] protocol \in PasswordTls -> FillTls(FillPassword(p))
      [] protocol = "tuic" -> FillTls(FillPassword(FillUuid([p EXCEPT !.congestion = Or(@, "cubic")])))
      [] protocol \in {"vless", "vmess"} -> FillByMode(FillUuid(FillMode(protocol, p)), key)

-----------------------------------------------------------------------------
(* mapInbound: the listener of a row, or what Convert refuses.             *)

\* buildTLS, and for Reality a key (a public key will do), short id and server name.
TlsComplete(protocol, p) ==
    LET mode == Mode(protocol, p) IN
    /\ mode \in (IF protocol \in {"vless", "vmess"} THEN ModesOf(protocol) ELSE {"none", "tls"})
    /\ mode = "tls" => HasTls(p)
    /\ mode = "reality" => /\ {p.private_key, p.public_key} # {0}
                           /\ "" \notin {p.short_id, p.server_name}

\* No secret is empty, and the 2022 methods have a key of their length.
SecretsGiven(protocol, p) ==
    /\ "" \notin Secrets(protocol, p)
    /\ protocol = "shadowsocks" /\ p.method = "2022" => p.password \in Psks

Ports == 1 .. 65535

Converts(protocol, p) ==
    /\ p.port \in Ports
    /\ SecretsGiven(protocol, p)
    /\ protocol \in {"vless", "vmess", "tuic"} => p.uuid = "uuid"
    /\ protocol = "tuic" => p.congestion \in {"", "cubic"}
    /\ TlsComplete(protocol, p)

ListenerKey(p) == IF p.private_key # 0 THEN p.private_key ELSE p.public_key

-----------------------------------------------------------------------------
(* The handlers.                                                           *)

Request == inboundOps < MaxInboundOps /\ inboundOps' = inboundOps + 1
FreshKey == 10 + inboundOps
Merge(given, p) == [f \in DOMAIN p |-> IF f \in DOMAIN given THEN given[f] ELSE p[f]]

CreateInbound(protocol, given, psk) ==
    LET p == Merge(given, [Blank EXCEPT !.port = 1]) IN
    /\ inbound.at = "none" /\ Request
    /\ ~FillRefuses(protocol, p)
    /\ inbound' = [at |-> "live", protocol |-> protocol, params |-> Fill(protocol, p, FreshKey, psk),
                   skipped |-> FALSE]
    /\ UNCHANGED <<update, chainUse, deployedRow>>

\* Refused while an enabled chain uses the row. What is not given stays; then gaps are filled,
\* unless the request has no parameters.
UpdateChecks(protocol, given, psk) ==
    LET p == Merge(given, inbound.params)
        row == IF given = Nothing
               THEN [inbound EXCEPT !.protocol = protocol,
                                    !.skipped = @ \/ protocol # inbound.protocol]
               ELSE [inbound EXCEPT !.protocol = protocol, !.params = Fill(protocol, p, FreshKey, psk),
                                    !.skipped = FALSE]
    IN
    /\ ~update.on /\ inbound.at = "live" /\ chainUse # "enabled" /\ Request
    /\ given = Nothing \/ ~FillRefuses(protocol, p)
    /\ update' = [on |-> TRUE, row |-> row, overlapped |-> FALSE]
    /\ UNCHANGED <<inbound, chainUse, deployedRow>>

UpdateWrites ==
    /\ update.on
    /\ inbound' = IF inbound.at = "live" THEN update.row ELSE inbound
    /\ update' = NoUpdate
    /\ deployedRow' = IF update.overlapped THEN inbound' ELSE deployedRow
    /\ UNCHANGED <<chainUse, inboundOps>>

\* The foreign key of the hops refuses what the check lets through.
DeleteInbound ==
    /\ inbound.at = "live" /\ chainUse = "none"
    /\ inbound' = NoRow
    /\ UNCHANGED <<update, chainUse, deployedRow, inboundOps>>

\* A chain with the inbound as a hop is written, enabled, disabled or deleted (ProxyChains).
ChainChanges(use) ==
    /\ inbound.at = "live" /\ use # chainUse
    /\ chainUse' = use
    /\ deployedRow' = IF use = "enabled" THEN inbound ELSE NoRow
    /\ update' = IF update.on /\ use = "enabled" THEN [update EXCEPT !.overlapped = TRUE] ELSE update
    /\ UNCHANGED <<inbound, inboundOps>>

InboundNext ==
    \/ \E protocol \in Protocols, given \in Given \cup {Nothing}, psk \in Psks :
           CreateInbound(protocol, given, psk) \/ UpdateChecks(protocol, given, psk)
    \/ UpdateWrites \/ DeleteInbound
    \/ \E use \in {"none", "disabled", "enabled"} : ChainChanges(use)

-----------------------------------------------------------------------------

\* What only an operator can have got wrong.
WellGiven(protocol, p) ==
    /\ p.port \in Ports
    /\ protocol \in {"vless", "vmess", "tuic"} => p.uuid = "uuid"
    /\ protocol = "tuic" => p.congestion # "other"
    /\ protocol = "vmess" => p.tls_mode # "reality"

\* Parameters filled for a protocol become a listener, and in each format the entry of a client
\* has the listener's kind of TLS, the public half of its Reality key, its short id and its
\* name, and what a Panel reads of the entry its secrets; unless the operator gave a public key
\* that is not the key's, or the format is a link that does not carry the password.
Meets(protocol, p) ==
    /\ WellGiven(protocol, p) => Converts(protocol, p)
    /\ Converts(protocol, p) =>
           \A format \in Formats :
               LET ep == [protocol |-> protocol, params |-> p, skip |-> "unset"]
                   entry == Render(format, ep)
               IN
               /\ Carries(format, ep) =>
                      SecretsInOrder(protocol, Parse(format, entry).params) = SecretsInOrder(protocol, p)
               /\ entry.mode = Mode(protocol, p)
               /\ entry.mode = "reality" =>
                      /\ p.public_key \in {0, ListenerKey(p)} => entry.public = ListenerKey(p)
                      /\ entry.short = p.short_id /\ entry.sni = p.server_name

\* Whatever a series of requests gave, emptied or left over from another protocol: the listener
\* of a row that was filled for its protocol meets the clients of every format.
ListenerMeetsClients ==
    inbound.at = "live" /\ ~inbound.skipped => Meets(inbound.protocol, inbound.params)

\* Parameters do not change under an enabled chain, whose other hops dial with them, unless the
\* request overlapped the enabling.
ChainKeepsRow == chainUse = "enabled" => inbound = deployedRow
=============================================================================
