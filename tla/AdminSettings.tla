----------------------------- MODULE AdminSettings ----------------------------
(***************************************************************************)
(* The administrator's sessions, the settings row and the rows of          *)
(* subscriptions (panel/internal/api/auth.go, handlers_settings.go,        *)
(* handlers_subscription.go, the settings and subscription rows of         *)
(* store.go).                                                              *)
(*                                                                         *)
(* Handlers run at once. Those that change a row read it, change their     *)
(* copy and write every column back; only session_version is written by    *)
(* an increment of its own. Every statement may fail, and the Panel may    *)
(* stop between two of them.                                               *)
(*                                                                         *)
(* Abstracted: passwords and link tokens are numbers, the other settings   *)
(* are left out, the sources of a subscription are "good" or not, and a   *)
(* cookie does not expire (its session ends by a new version only).        *)
(***************************************************************************)
EXTENDS Naturals, FiniteSets

CONSTANTS
    Requests,       \* bound: handlers under way at once
    Passwords,      \* bound: the passwords tried and set
    LoginLimit,     \* loginMaxFailures
    MaxAdminOps     \* bound: requests made

ASSUME AdminAssumption ==
    /\ Passwords \subseteq Nat \ {0} /\ 1 \in Passwords
    /\ LoginLimit \in Nat \ {0}
    /\ MaxAdminOps \in Nat

VARIABLES
    settings,       \* the settings row
    sub,            \* the row of a subscription, with its sources
    cookies,        \* the session cookies handed out
    attempt,        \* loginAttempts of the client's address: failures, locked
    req,            \* req[r]: a handler between its read and its write
    adminOps,       \* requests made
    history         \* history: see History

adminVars == <<settings, sub, cookies, attempt, req, adminOps, history>>

SettingsRow == [hash : Passwords, version : Nat, migrated : BOOLEAN]
SubRow == [exists : BOOLEAN, token : 0 .. MaxAdminOps, disabled : BOOLEAN,
           standalone : BOOLEAN, sources : 0 .. MaxAdminOps]
NoSub == [exists |-> FALSE, token |-> 0, disabled |-> FALSE, standalone |-> FALSE, sources |-> 0]

NoReq == [pc |-> "none", op |-> 0, settings |-> [hash |-> 1, version |-> 1, migrated |-> FALSE],
          sub |-> NoSub, before |-> NoSub, pw |-> 0, overlap |-> FALSE]

\* sub: the row the last request that was answered without an error left; hash: the one saved
\* last; revocations: how often all sessions were ended; raced: rows written by requests that
\* overlapped; half: a new password was saved and the sessions were not ended, a failed request
\* was not undone, and nothing has made up for it since; migrations: how often the
\* subscriptions were moved to chains.
History == [sub : SubRow, hash : Passwords, revocations : Nat, raced : SUBSET {"settings", "sub"},
            half : SUBSET {"settings", "sub"}, migrations : Nat]

SubSteps == {"sub", "created", "sources", "rollback"}
SettingsSteps == {"put", "bump"}

AdminTypeOK ==
    /\ settings \in SettingsRow /\ settings.version \in 1 .. 1 + MaxAdminOps
    /\ sub \in SubRow
    /\ cookies \subseteq [version : 0 .. 1 + MaxAdminOps, at : 0 .. MaxAdminOps, pw : Passwords,
                          overlap : BOOLEAN]
    /\ attempt \in [failures : 0 .. MaxAdminOps, locked : BOOLEAN]
    /\ \A r \in Requests : req[r].pc \in {"none", "token"} \cup SubSteps \cup SettingsSteps
    /\ adminOps \in 0 .. MaxAdminOps
    /\ history \in History

AdminInit ==
    /\ settings = [hash |-> 1, version |-> 1, migrated |-> FALSE]
    /\ sub = NoSub
    /\ cookies = {}
    /\ attempt = [failures |-> 0, locked |-> FALSE]
    /\ req = [r \in Requests |-> NoReq]
    /\ adminOps = 0
    /\ history = [sub |-> NoSub, hash |-> 1, revocations |-> 0, raced |-> {}, half |-> {},
                  migrations |-> 0]

\* validateSessionToken.
Valid(c) == c.version = settings.version
Authenticated == \E c \in cookies : Valid(c)

\* A new request; its number tells what it sets from what others set.
Asks == adminOps < MaxAdminOps /\ adminOps' = adminOps + 1

\* history: others at work on the same row.
Others(r, steps) == \E q \in Requests \ {r} : req[q].pc \in steps
Raced(r, row, steps) == IF Others(r, steps) THEN history.raced \cup {row} ELSE history.raced

-----------------------------------------------------------------------------
(* Logins and logout.                                                      *)

LoginBegins(r, pw) ==
    /\ req[r].pc = "none" /\ Asks
    /\ ~attempt.locked
    /\ \/ /\ pw # settings.hash
          /\ attempt' = [failures |-> attempt.failures + 1,
                         locked |-> attempt.failures + 1 >= LoginLimit]
          /\ UNCHANGED req
       \/ /\ pw = settings.hash
          /\ attempt' = [failures |-> 0, locked |-> FALSE]
          /\ req' = [req EXCEPT ![r] = [NoReq EXCEPT !.pc = "token", !.pw = pw,
                                                     !.overlap = Others(r, SettingsSteps)]]
    /\ UNCHANGED <<settings, sub, cookies, history>>

\* issueSessionToken reads the settings a second time; an error there is version 0.
LoginEnds(r) ==
    /\ req[r].pc = "token"
    /\ \E v \in {0, settings.version} :
           cookies' = cookies \cup {[version |-> v, at |-> history.revocations, pw |-> req[r].pw,
                                     overlap |-> req[r].overlap]}
    /\ req' = [req EXCEPT ![r] = NoReq]
    /\ UNCHANGED <<settings, sub, attempt, adminOps, history>>

LockEnds ==
    /\ attempt.locked
    /\ attempt' = [attempt EXCEPT !.locked = FALSE]
    /\ UNCHANGED <<settings, sub, cookies, req, adminOps, history>>

\* BumpSessionVersion.
Bumped == [settings EXCEPT !.version = @ + 1]
Revoked == [history EXCEPT !.revocations = @ + 1, !.half = @ \ {"settings"}]

Logout ==
    /\ Asks
    /\ Authenticated
    /\ settings' = Bumped
    /\ history' = Revoked
    /\ UNCHANGED <<sub, cookies, attempt, req>>

-----------------------------------------------------------------------------
(* handlePutSettings.                                                      *)

PutReads(r, pw) ==
    /\ req[r].pc = "none" /\ Authenticated /\ Asks
    /\ req' = [req EXCEPT ![r] = [NoReq EXCEPT
                  !.pc = "put", !.op = adminOps', !.pw = pw,
                  !.settings = IF pw = 0 THEN settings ELSE [settings EXCEPT !.hash = pw]]]
    /\ UNCHANGED <<settings, sub, cookies, attempt, history>>

\* MUTANT: the session version is one more column of the row that is written back.
SavedWhole(copy) == copy

\* SaveSettings: all columns of the copy except session_version.
SavedSettings(copy) == [copy EXCEPT !.version = settings.version]

\* History: logins that are between their two reads.
LoginsOverlap == [q \in Requests |-> IF req[q].pc = "token" THEN [req[q] EXCEPT !.overlap = TRUE] ELSE req[q]]

PutSaves(r) ==
    /\ req[r].pc = "put"
    /\ settings' = SavedSettings(req[r].settings)
    /\ req' = [LoginsOverlap EXCEPT ![r] = IF req[r].pw = 0 THEN NoReq ELSE [@ EXCEPT !.pc = "bump"]]
    /\ history' = [history EXCEPT
                      !.hash = IF req[r].pw = 0 THEN @ ELSE req[r].pw,
                      !.raced = Raced(r, "settings", SettingsSteps)]
    /\ UNCHANGED <<sub, cookies, attempt, adminOps>>

\* SaveSettings fails: nothing was written.
PutFails(r) ==
    /\ req[r].pc = "put"
    /\ req' = [req EXCEPT ![r] = NoReq]
    /\ UNCHANGED <<settings, sub, cookies, attempt, adminOps, history>>

\* MUTANT: a new password leaves the sessions alone.
BumpedNot == settings

\* After a new password all sessions end.
PasswordBumped == Bumped

PutBumps(r) ==
    /\ req[r].pc = "bump"
    /\ settings' = PasswordBumped
    /\ req' = [req EXCEPT ![r] = NoReq]
    /\ history' = Revoked
    /\ UNCHANGED <<sub, cookies, attempt, adminOps>>

\* BumpSessionVersion fails: the request ends with an error, and its password stays.
BumpFails(r) ==
    /\ req[r].pc = "bump"
    /\ req' = [req EXCEPT ![r] = NoReq]
    /\ history' = [history EXCEPT !.half = @ \cup {"settings"}]
    /\ UNCHANGED <<settings, sub, cookies, attempt, adminOps>>

-----------------------------------------------------------------------------
(* MigrateSubscriptionsToChains: after a probe of a chain that went well,  *)
(* subscriptions with endpoints of the nodes get those of the chains, once.*)

Migrate ==
    /\ ~settings.migrated
    /\ settings' = [settings EXCEPT !.migrated = TRUE]
    /\ sub' = [sub EXCEPT !.standalone = FALSE]
    /\ history' = [history EXCEPT
           !.migrations = @ + 1, !.sub.standalone = FALSE,
           !.raced = @ \cup (IF \E r \in Requests : req[r].pc \in SubSteps THEN {"sub"} ELSE {})
                       \cup (IF \E r \in Requests : req[r].pc = "put" THEN {"settings"} ELSE {})]
    /\ UNCHANGED <<cookies, attempt, req, adminOps>>

-----------------------------------------------------------------------------
(* The handlers of subscriptions.                                          *)

Take(r, pc, copy) ==
    /\ req[r].pc = "none" /\ Authenticated /\ Asks
    /\ req' = [req EXCEPT ![r] = [NoReq EXCEPT !.pc = pc, !.op = adminOps', !.sub = copy, !.before = sub]]
    /\ UNCHANGED <<settings, cookies, attempt>>

\* A request ends: with an answer of the row as it is now, or with an error.
SubAnswers(r) ==
    /\ req' = [req EXCEPT ![r] = NoReq]
    /\ history' = [history EXCEPT !.sub = sub', !.raced = Raced(r, "sub", SubSteps), !.half = @ \ {"sub"}]

SubFails(r) ==
    /\ req' = [req EXCEPT ![r] = NoReq]
    /\ history' = [history EXCEPT !.raced = Raced(r, "sub", SubSteps)]

SubMoves(r, pc) ==
    /\ req' = [req EXCEPT ![r].pc = pc]
    /\ history' = [history EXCEPT !.raced = Raced(r, "sub", SubSteps)]

\* The row first; a row with sources gets them in a transaction of its own.
CreateSub(r) ==
    /\ ~sub.exists
    /\ Take(r, "created", NoSub)
    /\ sub' = [exists |-> TRUE, token |-> adminOps', disabled |-> FALSE,
               standalone |-> ~settings.migrated, sources |-> 0]
    /\ UNCHANGED history

\* Update, rotate, disable, enable: a copy with the change, and the sources of the request.
SubReads(r) ==
    /\ sub.exists
    /\ \E t \in {sub.token, adminOps + 1}, d, s \in BOOLEAN :
           Take(r, "sub", [sub EXCEPT !.token = t, !.disabled = d, !.standalone = s])
    /\ UNCHANGED <<sub, history>>

\* UpdateSubscription: the sources are not a column of the row.
Written(row) == IF sub.exists THEN [row EXCEPT !.sources = sub.sources] ELSE sub

SubWrites(r) ==
    /\ req[r].pc = "sub"
    /\ \/ sub.exists /\ sub' = Written(req[r].sub) /\ (SubAnswers(r) \/ SubMoves(r, "sources"))
       \/ UNCHANGED sub /\ SubFails(r)
    /\ UNCHANGED <<settings, cookies, attempt, adminOps>>

\* SetSubscriptionExternalSources: all of them or, when one does not exist, an error.
SourcesSet(r) ==
    /\ req[r].pc \in {"created", "sources"}
    /\ \/ /\ sub.exists
          /\ sub' = [sub EXCEPT !.sources = req[r].op]
          /\ SubAnswers(r)
       \/ SubMoves(r, "rollback") /\ UNCHANGED sub
    /\ UNCHANGED <<settings, cookies, attempt, adminOps>>

\* MUTANT: the copy that was kept is the row that was changed.
Aliased(r) == req[r].sub

\* The row as it was read, not there when the request was to create it.
Before(r) == req[r].before

SubRollsBack(r) ==
    /\ req[r].pc = "rollback"
    /\ sub' = IF Before(r).exists THEN Written(Before(r)) ELSE NoSub
    /\ SubFails(r)
    /\ UNCHANGED <<settings, cookies, attempt, adminOps>>

\* The statement that undoes the request fails as well.
RollbackFails(r) ==
    /\ req[r].pc = "rollback"
    /\ req' = [req EXCEPT ![r] = NoReq]
    /\ history' = [history EXCEPT !.half = @ \cup {"sub"}]
    /\ UNCHANGED <<settings, sub, cookies, attempt, adminOps>>

DeleteSub ==
    /\ sub.exists /\ Authenticated /\ Asks
    /\ sub' = NoSub
    /\ history' = [history EXCEPT !.sub = NoSub, !.half = @ \ {"sub"},
           !.raced = @ \cup IF \E r \in Requests : req[r].pc \in SubSteps THEN {"sub"} ELSE {}]
    /\ UNCHANGED <<settings, cookies, attempt, req>>

-----------------------------------------------------------------------------
(* The Panel stops and starts: what handlers and loginAttempts hold is     *)
(* gone, and with a session secret made at the start all cookies are.      *)

HalfDone ==
    (IF \E r \in Requests : req[r].pc = "bump" THEN {"settings"} ELSE {})
        \cup (IF \E r \in Requests : req[r].pc \in SubSteps \ {"sub"} THEN {"sub"} ELSE {})

AdminRestart ==
    /\ req' = [r \in Requests |-> NoReq]
    /\ attempt' = [failures |-> 0, locked |-> FALSE]
    /\ cookies' \in {cookies, {}}
    /\ history' = [history EXCEPT !.half = @ \cup HalfDone]
    /\ UNCHANGED <<settings, sub, adminOps>>

AdminNext ==
    \/ \E r \in Requests :
           \/ \E pw \in Passwords : LoginBegins(r, pw) \/ PutReads(r, pw)
           \/ PutReads(r, 0) \/ LoginEnds(r)
           \/ PutSaves(r) \/ PutFails(r) \/ PutBumps(r) \/ BumpFails(r)
           \/ CreateSub(r) \/ SubReads(r) \/ SubWrites(r) \/ SourcesSet(r)
           \/ SubRollsBack(r) \/ RollbackFails(r)
    \/ Logout \/ LockEnds \/ Migrate \/ DeleteSub \/ AdminRestart

-----------------------------------------------------------------------------

\* A session that counts was opened after all sessions were last ended; and with the password
\* that is set now, but for a login that was between its two reads when the password changed,
\* and for a change that has not ended the sessions yet, or could not (it failed, or the Panel
\* stopped, after the password was saved) until they are ended by another request.
SessionsRevoked ==
    \A c \in cookies : Valid(c) =>
        /\ c.at = history.revocations
        /\ c.overlap \/ c.pw = settings.hash
           \/ \E r \in Requests : req[r].pc = "bump"
           \/ "settings" \in history.raced \cup history.half

\* handlePublicSubscription.
Served(token) == sub.exists /\ ~sub.disabled /\ sub.token = token

\* Between requests the link that is served is the one the last answer without an error gave:
\* a rotated token and a disabled link stay dead, and a request that failed half way (a source
\* that does not exist) has left nothing, unless requests overlapped, or it could not be undone
\* and no request has been answered since. Likewise the password is the one saved last, and the
\* move to chains happens once.
AnswersHold ==
    /\ "sub" \notin history.raced \cup history.half /\ (\A r \in Requests : req[r].pc \notin SubSteps) =>
           sub = history.sub /\ \A t \in 0 .. MaxAdminOps : Served(t) => t = history.sub.token
    /\ "settings" \notin history.raced => settings.hash = history.hash /\ history.migrations <= 1

RevokedStaysRevoked == SessionsRevoked /\ AnswersHold
=============================================================================
