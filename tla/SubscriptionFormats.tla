-------------------------- MODULE SubscriptionFormats --------------------------
(***************************************************************************)
(* The three formats of a subscription: how an endpoint is written in each *)
(* (clashProxy and SingboxOutbound of panel/internal/subscription/         *)
(* render.go, render_links.go) and how an external source of that format   *)
(* is read (parse_clash.go, parse_singbox.go, parse_links.go). One Panel's *)
(* subscription may be a source of another's.                              *)
(*                                                                         *)
(* An entry of a document is what a client needs of it: secrets, the kind  *)
(* of TLS, Reality's public key and short id, the name it asks for ("": it *)
(* takes the server's), whether it skips the verification of certificates  *)
(* ("unset": the format says nothing).                                     *)
(*                                                                         *)
(* A password stands for those with the same characters of interest:       *)
(* "text" has letters only, "a:b" a colon, "%41" an escape, "psk+" and     *)
(* "psk/" the plus and the slash of Base64 (the slash also for the other   *)
(* characters that end or may not be in the user part of a URI), "psk " a  *)
(* blank. A method and a uuid have none of them.                           *)
(***************************************************************************)
EXTENDS Naturals

PasswordTls == {"trojan", "hysteria2", "anytls"}
Formats == {"clash", "singbox", "link"}
PasswordForms == {"", "text", "psk", "psk+", "psk/", "a:b", "%41"}

\* The secrets of a protocol, in the order they are written.
SecretsInOrder(protocol, p) ==
    CASE protocol = "shadowsocks" -> <<p.method, p.password>>
      [] protocol \in PasswordTls -> <<p.password>>
      [] protocol = "tuic" -> <<p.uuid, p.password>>
      [] protocol \in {"vless", "vmess"} -> <<p.uuid>>

Secrets(protocol, p) == LET s == SecretsInOrder(protocol, p) IN {s[i] : i \in DOMAIN s}

\* tls_mode counts for two protocols only.
Mode(protocol, p) ==
    CASE protocol = "shadowsocks" -> "none"
      [] protocol \in PasswordTls \cup {"tuic"} -> "tls"
      [] protocol \in {"vless", "vmess"} -> IF p.tls_mode = "" THEN "none" ELSE p.tls_mode

\* resolveRealityPublicKey: a public key that is known, else that of the private key; 0: none.
PublicKey(p) == IF p.public_key # 0 THEN p.public_key ELSE p.private_key

-----------------------------------------------------------------------------
(* Rendering.                                                              *)

\* clashProxy and SingboxOutbound refuse the same endpoints.
DocumentRefuses(ep) ==
    LET mode == Mode(ep.protocol, ep.params) IN
    \/ "" \in Secrets(ep.protocol, ep.params)
    \/ mode \notin {"none", "tls", "reality"} \/ (ep.protocol = "vmess" /\ mode = "reality")
    \/ mode = "reality" /\ PublicKey(ep.params) = 0

\* A link needs the secrets only.
Refuses(format, ep) ==
    IF format = "link" THEN "" \in Secrets(ep.protocol, ep.params) ELSE DocumentRefuses(ep)

EntryMode(format, ep) ==
    LET mode == Mode(ep.protocol, ep.params) IN
    IF format # "link" THEN mode
    ELSE IF mode = "tls" \/ (mode = "reality" /\ ep.protocol = "vless") THEN mode ELSE "none"

\* server_name, for Reality with a default, else in sing-box that of the server.
Sni(format, mode, p) ==
    IF p.server_name # "" THEN p.server_name
    ELSE CASE mode = "reality" /\ format # "link" -> "microsoft"
           [] mode = "tls" /\ format = "singbox" -> "server"
           [] OTHER -> ""

Render(format, ep) ==
    LET p == ep.params
        mode == EntryMode(format, ep)
        reality == mode = "reality"
    IN [protocol |-> ep.protocol,
        secrets |-> SecretsInOrder(ep.protocol, p),
        mode |-> mode,
        public |-> IF reality THEN PublicKey(p) ELSE 0,
        short |-> IF reality THEN p.short_id ELSE "",
        sni |-> IF ep.protocol = "shadowsocks" \/ (mode = "none" /\ format # "link") THEN "" ELSE Sni(format, mode, p),
        skip |-> IF format = "link" \/ mode # "tls" THEN "unset"
                 ELSE IF ep.skip = "yes" THEN "yes" ELSE "no"]

-----------------------------------------------------------------------------
(* Parsing.                                                                *)

\* MUTANT: TLS is looked at before the options of Reality, which is TLS too.
TlsFirst(entry) == IF entry.mode = "none" THEN "none" ELSE "tls"

\* The mode of an entry: Reality's options first.
ParsedMode(entry) == entry.mode

\* Each secret under its own key again.
ParsedSecrets(protocol, s) ==
    [method |-> IF protocol = "shadowsocks" THEN s[1] ELSE "",
     password |-> IF protocol \in PasswordTls THEN s[1]
                  ELSE IF protocol \in {"shadowsocks", "tuic"} THEN s[2] ELSE "",
     uuid |-> IF protocol \in {"vless", "vmess", "tuic"} THEN s[1] ELSE ""]

\* url.QueryUnescape.
QueryUnescaped(password) ==
    CASE password = "psk+" -> "psk " [] password = "%41" -> "A" [] OTHER -> password

\* The user part of a URI as url.Parse has it: what ends it early, or is not allowed in it,
\* leaves none; and what is before its first colon.
UserPart(password) == CASE password \in {"psk/", "psk "} -> "" [] password = "%41" -> "A" [] OTHER -> password
UserName(password) == IF password = "a:b" THEN "a" ELSE password

\* Base64 in a Shadowsocks link, as it is in the links of the others, which two read up to a
\* colon only; "": the link is incomplete. The documents say it as it is.
ReadPassword(via, protocol, password) ==
    IF via # "link" THEN password
    ELSE CASE protocol = "shadowsocks" -> QueryUnescaped(password)
           [] protocol \in {"hysteria2", "anytls"} -> UserName(UserPart(password))
           [] OTHER -> UserPart(password)

\* A link that lacks a secret is no endpoint.
Incomplete(ep) == "" \in Secrets(ep.protocol, ep.params)

\* Whether certificates are verified: not read from sing-box, not said by links of this Panel.
ParsedSkip(via, entry) == IF via = "singbox" THEN "unset" ELSE entry.skip

\* clashMapToEndpoint, singboxMapToEndpoint, parseOneShareURI.
Parse(via, entry) ==
    LET secrets == ParsedSecrets(entry.protocol, entry.secrets)
        keepsMode == \/ entry.protocol \in {"vless", "vmess"}
                     \/ via = "singbox" /\ entry.protocol # "shadowsocks"
    IN [protocol |-> entry.protocol,
        params |-> [method |-> secrets.method,
                    password |-> ReadPassword(via, entry.protocol, secrets.password),
                    uuid |-> secrets.uuid, tls_mode |-> IF keepsMode THEN ParsedMode(entry) ELSE "",
                    private_key |-> 0, public_key |-> entry.public, short_id |-> entry.short,
                    server_name |-> entry.sni],
        skip |-> ParsedSkip(via, entry)]

-----------------------------------------------------------------------------

\* How a client connects with an entry: no name is asked for without TLS.
Connection(entry) ==
    [entry EXCEPT !.sni = IF entry.mode = "none" THEN "" ELSE IF @ # "" THEN @ ELSE "server",
                  !.skip = @ = "yes"]

\* The characters of a password that its link does not carry.
LinkLoses(protocol) ==
    CASE protocol = "shadowsocks" -> {"psk+", "%41"}
      [] protocol \in {"trojan", "tuic"} -> {"psk/", "psk ", "%41"}
      [] protocol \in {"hysteria2", "anytls"} -> {"psk/", "psk ", "%41", "a:b"}
      [] OTHER -> {}

Carries(via, ep) == via # "link" \/ ep.params.password \notin LinkLoses(ep.protocol)

\* An endpoint the Panel can offer, read back from its subscription in one format and offered
\* again in another, connects as before, where the format carries its password; where it does
\* not, the endpoint is dropped or has another password and is otherwise as before. Excepted:
\* the choice not to verify certificates survives Clash only, and Reality without a name gets
\* the documents' default, which a link of the same endpoint does not say.
SurvivesSource(ep) ==
    ~DocumentRefuses(ep) =>
        \A via, format \in Formats :
            LET again == Parse(via, Render(via, ep))
                offered == IF Carries(via, ep) THEN ep
                           ELSE [ep EXCEPT !.params.password = again.params.password]
                kept == IF via = "clash" THEN ep.skip ELSE "unset"
                named == Mode(ep.protocol, ep.params) # "reality" \/ ep.params.server_name # ""
            IN IF Incomplete(again) THEN ~Carries(via, ep)
               ELSE /\ ~Refuses(format, again)
                    /\ named \/ via = "link" \/ format # "link" =>
                           Connection(Render(format, again)) =
                               Connection(Render(format, [offered EXCEPT !.skip = kept]))
=============================================================================
