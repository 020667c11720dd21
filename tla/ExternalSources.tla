---------------------------- MODULE ExternalSources ---------------------------
(***************************************************************************)
(* The cache of external subscription sources                              *)
(* (panel/internal/subscription/cache.go and fetch.go, the source rows of  *)
(* store.go, api/handlers_external_sources.go): clients that are served    *)
(* from it, refreshes that coalesce per source, the background pass, and   *)
(* the operator who edits the rows meanwhile.                              *)
(*                                                                         *)
(* A row keeps the last good body; a body is represented by the URL it was *)
(* fetched from. Abstracted: what a body says (SubscriptionFormats,        *)
(* SubscriptionEndpoints), a request for several sources takes them one at *)
(* a time, and of several asynchronous refreshes of one source that wait   *)
(* to run one is kept.                                                     *)
(***************************************************************************)
EXTENDS Naturals, FiniteSets

CONSTANTS
    Sources,        \* bound: the sources an operator may create
    Callers,        \* bound: goroutines that can be in RefreshSource at once
    Urls,           \* bound: the URLs a source may have
    TTL, Grace,     \* effectiveTTL and StaleGrace, in ticks
    Concurrency,    \* BackgroundConcurrency
    MaxTime,        \* bound: ticks
    MaxSourceEdits, \* bound: edits and deletions
    MaxFetchErrors  \* bound: fetches that fail and clients that hang up

NoCaller == "none"

ASSUME SourcesAssumption ==
    /\ {TTL, MaxTime, Concurrency} \subseteq Nat \ {0}
    /\ {Grace, MaxSourceEdits, MaxFetchErrors} \subseteq Nat
    /\ "" \notin Urls /\ Urls # {}
    /\ "" \notin Sources /\ NoCaller \notin Callers

VARIABLES
    source,     \* source[s]: the external_sources row
    inflight,   \* Aggregator.inflight[s]: who refreshes s, NoCaller if nobody
    caller,     \* caller[c]: a goroutine that serves or refreshes a source
    asked,      \* the sources a stale answer started a refresh of
    pass,       \* refreshDue: [on, due]: the sources of the list it has not started yet
    edit,       \* handleUpdateExternalSource between the read and the write of its row
    now, sourceEdits, fetchErrors

sourceVars == <<source, inflight, caller, asked, pass, edit, now, sourceEdits, fetchErrors>>

NoSource == [at |-> "new", enabled |-> FALSE, url |-> "", body |-> "", success |-> 0]
\* edited: history, whether the row was edited or deleted after the copy was read.
Idle == [pc |-> "idle", kind |-> "none", s |-> "", copy |-> NoSource, start |-> 0, edited |-> FALSE]
NoEdit == [s |-> "", copy |-> NoSource, url |-> "", enabled |-> FALSE, overtaken |-> FALSE]

SourceRow == [at : {"new", "live", "deleted"}, enabled : BOOLEAN, url : Urls \cup {""},
              body : Urls \cup {""}, success : 0 .. MaxTime]

SourcesTypeOK ==
    /\ source \in [Sources -> SourceRow]
    /\ inflight \in [Sources -> Callers \cup {NoCaller}]
    /\ \A c \in Callers :
           /\ caller[c].pc \in {"idle", "join", "wait", "fetch", "reread"}
           /\ caller[c].kind \in {"none", "client", "refresh", "pass"}
           /\ caller[c].pc = "wait" => inflight[caller[c].s] \in Callers \ {c}
    /\ \A s \in Sources, c \in Callers :
           (inflight[s] = c) <=> (caller[c].pc = "fetch" /\ caller[c].s = s)
    /\ Cardinality({c \in Callers : caller[c].kind = "pass"}) <= Concurrency
    /\ asked \subseteq Sources /\ pass.due \subseteq Sources
    /\ now \in 1 .. MaxTime
    /\ sourceEdits \in 0 .. MaxSourceEdits /\ fetchErrors \in 0 .. MaxFetchErrors

SourcesInit ==
    /\ source = [s \in Sources |-> NoSource]
    /\ inflight = [s \in Sources |-> NoCaller]
    /\ caller = [c \in Callers |-> Idle]
    /\ asked = {}
    /\ pass = [on |-> FALSE, due |-> {}]
    /\ edit = NoEdit
    /\ now = 1 /\ sourceEdits = 0 /\ fetchErrors = 0

Live(s) == source[s].at = "live"
Age(row) == now - row.success
Fresh(row) == row.body # "" /\ Age(row) < TTL
StaleOK(row) == row.body # "" /\ Age(row) < TTL + Grace

-----------------------------------------------------------------------------
(* EndpointsForSources and bodyForSource.                                  *)

Start(c, s, pc, kind) ==
    caller' = [caller EXCEPT ![c] = [Idle EXCEPT !.pc = pc, !.kind = kind, !.s = s]]

\* Reads the row; a fresh body is served as it is, a stale one with a refresh behind it.
Serve(c, s) ==
    /\ caller[c].pc = "idle" /\ Live(s) /\ source[s].enabled
    /\ \/ /\ ~Fresh(source[s]) /\ StaleOK(source[s])
          /\ asked' = asked \cup {s}
          /\ UNCHANGED caller
       \/ /\ ~StaleOK(source[s])
          /\ Start(c, s, "join", "client")
          /\ UNCHANGED asked
    /\ UNCHANGED <<source, inflight, pass, edit, now, sourceEdits, fetchErrors>>

\* The goroutine of a stale answer; handleRefreshExternalSource.
AskedRuns(c, s) ==
    /\ caller[c].pc = "idle" /\ s \in asked
    /\ asked' = asked \ {s}
    /\ Start(c, s, "join", "refresh")
    /\ UNCHANGED <<source, inflight, pass, edit, now, sourceEdits, fetchErrors>>

OperatorRefreshes(c, s) ==
    /\ caller[c].pc = "idle" /\ Live(s)
    /\ Start(c, s, "join", "refresh")
    /\ UNCHANGED <<source, inflight, asked, pass, edit, now, sourceEdits, fetchErrors>>

\* After a refresh that went well: the body of the row as it is now.
Rereads(c) ==
    /\ caller[c].pc = "reread"
    /\ caller' = [caller EXCEPT ![c] = Idle]
    /\ UNCHANGED <<source, inflight, asked, pass, edit, now, sourceEdits, fetchErrors>>

-----------------------------------------------------------------------------
(* RefreshSource and doRefresh.                                            *)

\* MUTANT: refreshes of one source do not coalesce.
JoinsAlways(c) == FALSE

\* The goroutine finds a refresh of its source under way.
Coalesces(c) == inflight[caller[c].s] # NoCaller

\* The callers that learn the end of the refresh c runs. A client reads the row again if it
\* went well; if not, it is served the body it read before, if there was one.
Learn(c, ok) ==
    LET learns(d) == d = c \/ (caller[d].pc = "wait" /\ caller[d].s = caller[c].s)
    IN [d \in Callers |->
           IF ~learns(d) THEN caller[d]
           ELSE IF ok /\ caller[d].kind = "client"
           THEN [caller[d] EXCEPT !.pc = "reread", !.copy = NoSource, !.start = 0]
           ELSE Idle]

Join(c) ==
    LET s == caller[c].s IN
    /\ caller[c].pc = "join"
    /\ \/ /\ Coalesces(c)
          /\ caller' = [caller EXCEPT ![c].pc = "wait"]
          /\ UNCHANGED inflight
       \/ /\ ~Coalesces(c) /\ Live(s)
          /\ inflight' = [inflight EXCEPT ![s] = c]
          /\ caller' = [caller EXCEPT ![c].pc = "fetch", ![c].copy = source[s],
                                      ![c].start = now, ![c].edited = FALSE]
       \/ /\ ~Coalesces(c) /\ ~Live(s)
          /\ caller' = [caller EXCEPT ![c] = Idle]
          /\ UNCHANGED inflight
    /\ UNCHANGED <<source, asked, pass, edit, now, sourceEdits, fetchErrors>>

\* SaveExternalSourceCache: no row, nothing saved.
Saved(s, body, success) ==
    IF Live(s) THEN [source[s] EXCEPT !.body = body, !.success = success] ELSE source[s]

Ends(c, row, ok) ==
    LET s == caller[c].s IN
    /\ source' = [source EXCEPT ![s] = row]
    /\ edit' = IF edit.s = s THEN [edit EXCEPT !.overtaken = TRUE] ELSE edit
    /\ inflight' = [inflight EXCEPT ![s] = NoCaller]
    /\ caller' = Learn(c, ok)
    /\ UNCHANGED <<asked, pass, now, sourceEdits>>

RefreshSucceeds(c) ==
    LET s == caller[c].s IN
    /\ caller[c].pc = "fetch"
    /\ Ends(c, Saved(s, caller[c].copy.url, caller[c].start), Live(s))
    /\ UNCHANGED fetchErrors

\* The fetch fails, nothing can be parsed, or the client whose request runs the refresh hangs
\* up: the body that was read before is written back.
RefreshFails(c) ==
    LET copy == caller[c].copy IN
    /\ caller[c].pc = "fetch"
    /\ fetchErrors < MaxFetchErrors /\ fetchErrors' = fetchErrors + 1
    /\ Ends(c, Saved(caller[c].s, copy.body, copy.success), FALSE)

\* A client that waits for someone else's refresh hangs up.
WaiterLeaves(c) ==
    /\ caller[c].pc = "wait" /\ caller[c].kind = "client"
    /\ fetchErrors < MaxFetchErrors /\ fetchErrors' = fetchErrors + 1
    /\ caller' = [caller EXCEPT ![c] = Idle]
    /\ UNCHANGED <<source, inflight, asked, pass, edit, now, sourceEdits>>

-----------------------------------------------------------------------------
(* RunBackground and refreshDue.                                           *)

PassBegins ==
    /\ ~pass.on
    /\ LET due == {s \in Sources : /\ Live(s) /\ source[s].enabled
                                   /\ source[s].success = 0 \/ Age(source[s]) >= TTL}
       IN due # {} /\ pass' = [on |-> TRUE, due |-> due]
    /\ UNCHANGED <<source, inflight, caller, asked, edit, now, sourceEdits, fetchErrors>>

PassStarts(c, s) ==
    /\ caller[c].pc = "idle" /\ s \in pass.due
    /\ Cardinality({d \in Callers : caller[d].kind = "pass"}) < Concurrency
    /\ pass' = [pass EXCEPT !.due = @ \ {s}]
    /\ Start(c, s, "join", "pass")
    /\ UNCHANGED <<source, inflight, asked, edit, now, sourceEdits, fetchErrors>>

\* wg.Wait: the next pass begins when the last refresh of this one has ended.
PassEnds ==
    /\ pass.on /\ pass.due = {} /\ \A c \in Callers : caller[c].kind # "pass"
    /\ pass' = [pass EXCEPT !.on = FALSE]
    /\ UNCHANGED <<source, inflight, caller, asked, edit, now, sourceEdits, fetchErrors>>

-----------------------------------------------------------------------------
(* The operator's requests.                                                *)

\* A row is written and, when enabled, fetched within the request.
CreateSource(c, s, u, enabled) ==
    /\ source[s].at = "new" /\ caller[c].pc = "idle"
    /\ LET row == [NoSource EXCEPT !.at = "live", !.url = u, !.enabled = enabled] IN
       /\ source' = [source EXCEPT ![s] = row]
       /\ IF enabled THEN Start(c, s, "join", "refresh") ELSE UNCHANGED caller
    /\ UNCHANGED <<inflight, asked, pass, edit, now, sourceEdits, fetchErrors>>

EditBegins(s, u, enabled) ==
    /\ edit = NoEdit /\ Live(s)
    /\ sourceEdits < MaxSourceEdits /\ sourceEdits' = sourceEdits + 1
    /\ edit' = [s |-> s, copy |-> source[s], url |-> u, enabled |-> enabled, overtaken |-> FALSE]
    /\ UNCHANGED <<source, inflight, caller, asked, pass, now, fetchErrors>>

\* History: the callers with an older copy of the row of s.
Overtaken(s) == [c \in Callers |-> IF caller[c].s = s THEN [caller[c] EXCEPT !.edited = TRUE] ELSE caller[c]]

\* UpdateExternalSource: another URL empties the cache, else the columns it read go back.
SameFetch(row) == row.url = edit.url

EditEnds ==
    LET s == edit.s
        row == [edit.copy EXCEPT !.url = edit.url, !.enabled = edit.enabled]
    IN
    /\ edit # NoEdit
    /\ source' = IF ~Live(s) THEN source
                 ELSE [source EXCEPT ![s] =
                     IF SameFetch(edit.copy) THEN row ELSE [row EXCEPT !.body = "", !.success = 0]]
    /\ caller' = Overtaken(s)
    /\ edit' = NoEdit
    /\ UNCHANGED <<inflight, asked, pass, now, sourceEdits, fetchErrors>>

DeleteSource(s) ==
    /\ Live(s)
    /\ sourceEdits < MaxSourceEdits /\ sourceEdits' = sourceEdits + 1
    /\ source' = [source EXCEPT ![s] = [NoSource EXCEPT !.at = "deleted"]]
    /\ caller' = Overtaken(s)
    /\ UNCHANGED <<inflight, asked, pass, edit, now, fetchErrors>>

Tick ==
    /\ now < MaxTime /\ now' = now + 1
    /\ UNCHANGED <<source, inflight, caller, asked, pass, edit, sourceEdits, fetchErrors>>

SourcesNext ==
    \/ \E c \in Callers, s \in Sources :
           \/ Serve(c, s) \/ AskedRuns(c, s) \/ OperatorRefreshes(c, s) \/ PassStarts(c, s)
           \/ \E u \in Urls, enabled \in BOOLEAN : CreateSource(c, s, u, enabled)
    \/ \E c \in Callers : \/ Join(c) \/ RefreshSucceeds(c) \/ RefreshFails(c)
                          \/ WaiterLeaves(c) \/ Rereads(c)
    \/ \E s \in Sources : \/ DeleteSource(s)
                          \/ \E u \in Urls, enabled \in BOOLEAN : EditBegins(s, u, enabled)
    \/ PassBegins \/ PassEnds \/ EditEnds \/ Tick

-----------------------------------------------------------------------------

\* A row never goes back to an older success, however refreshes of several clients, of the
\* background pass and of the operator overlap: only an edit of the URL, or an edit and a
\* refresh that overlapped, may lose it.
\* And a client whose refresh went well finds a body, unless the row was edited meanwhile.
LastGoodKept ==
    [][/\ \A s \in Sources :
              Live(s) /\ source'[s].at = "live" /\ source'[s].success < source[s].success =>
                  \/ edit.s = s /\ edit' = NoEdit /\ (edit.overtaken \/ edit.url # edit.copy.url)
                  \/ \E c \in Callers : inflight[s] = c /\ inflight'[s] # c /\ caller[c].edited
       /\ \A c \in Callers :
              caller[c].pc = "reread" /\ caller'[c].pc # "reread" /\ ~caller[c].edited =>
                  source[caller[c].s].body # ""]_sourceVars
=============================================================================
