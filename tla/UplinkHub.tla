----------------------------- MODULE UplinkHub ------------------------------
(***************************************************************************)
(* The WebSocket uplink of one node: the Panel's Hub, one Conn per accepted  *)
(* socket, the callers that multiplex requests over it, and the Agent's      *)
(* session that answers them.  Sockets die at any time and the Agent dials   *)
(* again; the teardown of the old socket overlaps the life of the new one.   *)
(***************************************************************************)
EXTENDS Integers, Sequences, FiniteSets

CONSTANTS
    Unary,       \* unary calls
    Streams,     \* StreamLogs calls
    MaxSockets,  \* bound: sockets the Agent dials
    MaxItems,    \* bound: log lines the Agent sends per stream
    StreamDepth  \* buffer of a stream's channel (register: depth)

ASSUME HubAssumption ==
    /\ Unary \cap Streams = {}
    /\ MaxSockets \in Nat \ {0}
    /\ MaxItems \in Nat
    /\ StreamDepth \in Nat \ {0}

Calls == Unary \cup Streams
Sockets == 1 .. MaxSockets
NoSocket == 0

VARIABLES
    net,      \* transport of a socket: "unused", "up" or "down"
    session,  \* the Agent's side: "none", "serving" or "ended"
    serve,    \* Hub.Serve: "none", "accepted", "displacing", "reading",
              \* "blocked" (in deliverStream), "removing" or "done"
    prev,     \* the Conn that Register displaced and must Close
    held,     \* the frame readLoop is blocked on
    shut,     \* Conn.shutdown: "open", "closed" (channel closed) or "swept"
    current,  \* Hub.conns[node]
    newest,   \* history: the last Conn that was registered
    pending,  \* Conn.pending: registered request ids
    down, up, \* frames on their way to the Agent, to the Panel
    pc,       \* a caller: "idle", "got", "checked", "registered", "waiting", "returned"
    on,       \* the Conn a caller uses
    chan,     \* pendingCall.ch
    handler,  \* Agent goroutine of a request: "none", "spawned", "running",
              \* "cancelled" or "done"
    sent,     \* history: log lines a stream handler has sent
    recvd     \* history: log lines a stream caller has received

socketVars == <<net, session, serve, prev, held, shut, current, newest, pending>>
callVars == <<pc, on, chan, recvd>>
agentVars == <<handler, sent>>
vars == <<socketVars, down, up, callVars, agentVars>>

Frame == [type : {"req", "cancel", "resp", "item", "eof", "fail"}, id : Calls, n : Nat]
F(type, c, n) == [type |-> type, id |-> c, n |-> n]
NoFrame == <<>>

\* register: the buffer of a call's channel.
Depth(c) == IF c \in Streams THEN StreamDepth ELSE 1

Init ==
    /\ net = [k \in Sockets |-> "unused"]
    /\ session = [k \in Sockets |-> "none"]
    /\ serve = [k \in Sockets |-> "none"]
    /\ prev = [k \in Sockets |-> NoSocket]
    /\ held = [k \in Sockets |-> NoFrame]
    /\ shut = [k \in Sockets |-> "open"]
    /\ current = NoSocket
    /\ newest = NoSocket
    /\ pending = [k \in Sockets |-> {}]
    /\ down = [k \in Sockets |-> <<>>]
    /\ up = [k \in Sockets |-> <<>>]
    /\ pc = [c \in Calls |-> "idle"]
    /\ on = [c \in Calls |-> NoSocket]
    /\ chan = [c \in Calls |-> <<>>]
    /\ handler = [c \in Calls |-> "none"]
    /\ sent = [c \in Calls |-> 0]
    /\ recvd = [c \in Calls |-> <<>>]

(***************************************************************************)
(* Sockets.                                                                *)
(***************************************************************************)

\* The Agent's loop has one session at a time; a dial that succeeds is accepted
\* by the Panel, which has yet to call Register.
AgentDials(k) ==
    /\ net[k] = "unused"
    /\ \A j \in Sockets : (j < k => net[j] # "unused") /\ session[j] # "serving"
    /\ net' = [net EXCEPT ![k] = "up"]
    /\ session' = [session EXCEPT ![k] = "serving"]
    /\ serve' = [serve EXCEPT ![k] = "accepted"]
    /\ UNCHANGED <<prev, held, shut, current, newest, pending, down, up, callVars, agentVars>>

SocketDies(k) ==
    /\ net[k] = "up"
    /\ net' = [net EXCEPT ![k] = "down"]
    /\ UNCHANGED <<session, serve, prev, held, shut, current, newest, pending, down, up,
                   callVars, agentVars>>

\* The Agent's read fails: serve returns and cancels the contexts of its handlers.
SessionEnds(k) ==
    /\ session[k] = "serving"
    /\ net[k] = "down"
    /\ session' = [session EXCEPT ![k] = "ended"]
    /\ handler' = [c \in Calls |->
                     IF on[c] = k /\ handler[c] \in {"spawned", "running"}
                     THEN "cancelled" ELSE handler[c]]
    /\ UNCHANGED <<net, serve, prev, held, shut, current, newest, pending, down, up,
                   callVars, sent>>

\* Mutant: the displaced socket is left open.
RegisterKeepsPrevious(k) ==
    /\ serve[k] = "accepted"
    /\ current' = k
    /\ newest' = k
    /\ serve' = [serve EXCEPT ![k] = "reading"]
    /\ UNCHANGED <<net, session, prev, held, shut, pending, down, up, callVars, agentVars>>

\* Hub.Register, under Hub.mu: install the Conn and remember the displaced one.
Register(k) ==
    /\ serve[k] = "accepted"
    /\ current' = k
    /\ newest' = k
    /\ prev' = [prev EXCEPT ![k] = current]
    /\ serve' = [serve EXCEPT ![k] = IF current = NoSocket THEN "reading" ELSE "displacing"]
    /\ UNCHANGED <<net, session, held, shut, pending, down, up, callVars, agentVars>>

\* Hub.Register, after the unlock: prev.Close() marks the old Conn closed, unless
\* its own reader did so first (closeOnce), and waits for that shutdown.
DisplacePrevious(k) ==
    /\ serve[k] = "displacing"
    /\ IF shut[prev[k]] = "open"
       THEN /\ shut' = [shut EXCEPT ![prev[k]] = "closed"]
            /\ UNCHANGED serve
       ELSE /\ shut[prev[k]] = "swept"
            /\ serve' = [serve EXCEPT ![k] = "reading"]
            /\ UNCHANGED shut
    /\ UNCHANGED <<net, session, prev, held, current, newest, pending, down, up, callVars,
                   agentVars>>

\* Conn.shutdown after close(closed): every registered call gets an error frame
\* if its buffer has room, and the socket is closed.
ShutdownSweep(k) ==
    /\ shut[k] = "closed"
    /\ shut' = [shut EXCEPT ![k] = "swept"]
    /\ pending' = [pending EXCEPT ![k] = {}]
    /\ chan' = [c \in Calls |->
                  IF c \in pending[k] /\ Len(chan[c]) < Depth(c)
                  THEN Append(chan[c], F("fail", c, 0)) ELSE chan[c]]
    /\ net' = [net EXCEPT ![k] = "down"]
    /\ UNCHANGED <<session, serve, prev, held, current, newest, down, up, pc, on, recvd,
                   agentVars>>

\* readLoop: the read fails and the deferred shutdown runs.
ReaderFails(k) ==
    /\ serve[k] = "reading"
    /\ net[k] = "down"
    /\ shut' = [shut EXCEPT ![k] = IF @ = "open" THEN "closed" ELSE @]
    /\ serve' = [serve EXCEPT ![k] = "removing"]
    /\ UNCHANGED <<net, session, prev, held, current, newest, pending, down, up, callVars,
                   agentVars>>

\* Mutant: the teardown evicts whatever connection is current.
RemoveAny(k) ==
    /\ serve[k] = "removing"
    /\ shut[k] = "swept"
    /\ current' = NoSocket
    /\ serve' = [serve EXCEPT ![k] = "done"]
    /\ UNCHANGED <<net, session, prev, held, shut, newest, pending, down, up, callVars, agentVars>>

\* Hub.Remove, once shutdown has returned: only the current connection is evicted.
Remove(k) ==
    /\ serve[k] = "removing"
    /\ shut[k] = "swept"
    /\ current' = IF current = k THEN NoSocket ELSE current
    /\ serve' = [serve EXCEPT ![k] = "done"]
    /\ UNCHANGED <<net, session, prev, held, shut, newest, pending, down, up, callVars, agentVars>>

(***************************************************************************)
(* The Panel's reader.                                                     *)
(***************************************************************************)

\* deliverResponse: the call is taken out of pending and gets the frame, or the
\* frame is dropped.
DeliverResponse(k, f) ==
    /\ IF f.id \in pending[k]
       THEN chan' = [chan EXCEPT ![f.id] = IF @ = <<>> THEN <<f>> ELSE @]
       ELSE UNCHANGED chan
    /\ pending' = [pending EXCEPT ![k] = @ \ {f.id}]
    /\ UNCHANGED <<serve, held>>

\* Mutant: the first frame of a stream ends its registration.
DeliverStreamOnce(k, f) ==
    /\ pending' = [pending EXCEPT ![k] = @ \ {f.id}]
    /\ IF f.id \in pending[k] /\ Len(chan[f.id]) < StreamDepth
       THEN chan' = [chan EXCEPT ![f.id] = Append(@, f)]
       ELSE UNCHANGED chan
    /\ UNCHANGED <<serve, held>>

\* Mutant: the frame is sent on whatever the buffer holds.
DeliverStreamUnbounded(k, f) ==
    /\ pending' = [pending EXCEPT ![k] = IF f.type = "eof" THEN @ \ {f.id} ELSE @]
    /\ IF f.id \in pending[k]
       THEN chan' = [chan EXCEPT ![f.id] = Append(@, f)]
       ELSE UNCHANGED chan
    /\ UNCHANGED <<serve, held>>

\* Mutant: a full stream buffer drops its oldest frame.
DeliverStreamDrops(k, f) ==
    /\ pending' = [pending EXCEPT ![k] = IF f.type = "eof" THEN @ \ {f.id} ELSE @]
    /\ IF f.id \in pending[k]
       THEN chan' = [chan EXCEPT ![f.id] =
                       Append(IF Len(@) < StreamDepth THEN @ ELSE Tail(@), f)]
       ELSE UNCHANGED chan
    /\ UNCHANGED <<serve, held>>

\* deliverStream: the frame goes to the stream's buffer; with a full buffer the
\* reader, and with it the whole connection, waits. The select may take the closed
\* channel instead, room or not: a closed Conn may drop the frame.
DeliverStream(k, f) ==
    /\ pending' = [pending EXCEPT ![k] = IF f.type = "eof" THEN @ \ {f.id} ELSE @]
    /\ \/ /\ f.id \notin pending[k] \/ shut[k] # "open"
          /\ UNCHANGED <<chan, serve, held>>
       \/ /\ f.id \in pending[k]
          /\ IF Len(chan[f.id]) < StreamDepth
             THEN /\ chan' = [chan EXCEPT ![f.id] = Append(@, f)]
                  /\ UNCHANGED <<serve, held>>
             ELSE /\ serve' = [serve EXCEPT ![k] = "blocked"]
                  /\ held' = [held EXCEPT ![k] = f]
                  /\ UNCHANGED chan

\* readLoop: one frame.
ReaderReads(k) ==
    /\ serve[k] = "reading"
    /\ up[k] # <<>>
    /\ shut[k] # "swept"
    /\ up' = [up EXCEPT ![k] = Tail(@)]
    /\ IF Head(up[k]).type = "resp"
       THEN DeliverResponse(k, Head(up[k]))
       ELSE DeliverStream(k, Head(up[k]))
    /\ UNCHANGED <<net, session, prev, shut, current, newest, down, pc, on, recvd,
                   agentVars>>

\* The select in deliverStream: room in the buffer, or the Conn was closed.
ReaderUnblocks(k) ==
    /\ serve[k] = "blocked"
    /\ \/ /\ Len(chan[held[k].id]) < StreamDepth
          /\ chan' = [chan EXCEPT ![held[k].id] = Append(@, held[k])]
       \/ /\ shut[k] # "open"
          /\ UNCHANGED chan
    /\ serve' = [serve EXCEPT ![k] = "reading"]
    /\ held' = [held EXCEPT ![k] = NoFrame]
    /\ UNCHANGED <<net, session, prev, shut, current, newest, pending, down, up, pc, on,
                   recvd, agentVars>>

(***************************************************************************)
(* Callers on the Panel.                                                   *)
(***************************************************************************)

\* Hub.Client: the caller keeps this Conn whatever happens to it later.
CallGets(c) ==
    /\ pc[c] = "idle"
    /\ current # NoSocket
    /\ pc' = [pc EXCEPT ![c] = "got"]
    /\ on' = [on EXCEPT ![c] = current]
    /\ UNCHANGED <<socketVars, down, up, chan, recvd, agentVars>>

\* call / openStream: the non-blocking look at closed.
CallChecks(c) ==
    /\ pc[c] = "got"
    /\ pc' = [pc EXCEPT ![c] = IF shut[on[c]] = "open" THEN "checked" ELSE "returned"]
    /\ UNCHANGED <<socketVars, down, up, on, chan, recvd, agentVars>>

\* register; shutdown may have swept pending in between.
CallRegisters(c) ==
    /\ pc[c] = "checked"
    /\ pending' = [pending EXCEPT ![on[c]] = @ \cup {c}]
    /\ pc' = [pc EXCEPT ![c] = "registered"]
    /\ UNCHANGED <<net, session, serve, prev, held, shut, current, newest, down, up, on, chan,
                   recvd, agentVars>>

\* The caller is done; the return path of call, and close, unregister it, the
\* other ends of a stream keep the registration.
Return(c, keep) ==
    /\ pc' = [pc EXCEPT ![c] = "returned"]
    /\ pending' = IF keep THEN pending ELSE [pending EXCEPT ![on[c]] = @ \ {c}]

\* writeFrame on a socket that went down may fail, or succeed into a buffer.
CallWrites(c) ==
    /\ pc[c] = "registered"
    /\ \/ /\ pc' = [pc EXCEPT ![c] = "waiting"]
          /\ down' = [down EXCEPT ![on[c]] =
                        IF net[on[c]] = "up" THEN Append(@, F("req", c, 0)) ELSE @]
          /\ UNCHANGED pending
       \/ /\ net[on[c]] = "down"
          /\ Return(c, FALSE)
          /\ UNCHANGED down
    /\ UNCHANGED <<net, session, serve, prev, held, shut, current, newest, up, on, chan, recvd,
                   agentVars>>

\* sendCancel, whose write error is ignored.
SendCancel(c) ==
    down' = [down EXCEPT ![on[c]] = IF net[on[c]] = "up" THEN Append(@, F("cancel", c, 0)) ELSE @]

\* The select of call and of recv, closed channel.
CallSeesClosed(c) ==
    /\ pc[c] = "waiting"
    /\ shut[on[c]] # "open"
    /\ Return(c, c \in Streams)
    /\ UNCHANGED <<net, session, serve, prev, held, shut, current, newest, down, up, on, chan,
                   recvd, agentVars>>

\* The select of call, or recv followed by close: the caller's context is done.
CallCancelled(c) ==
    /\ pc[c] = "waiting"
    /\ Return(c, FALSE)
    /\ SendCancel(c)
    /\ UNCHANGED <<net, session, serve, prev, held, shut, current, newest, up, on, chan, recvd,
                   agentVars>>

\* The select of call and of recv, frame: a log line is consumed, anything else
\* ends the call.
CallReceives(c) ==
    /\ pc[c] = "waiting"
    /\ chan[c] # <<>>
    /\ chan' = [chan EXCEPT ![c] = Tail(@)]
    /\ IF Head(chan[c]).type = "item"
       THEN /\ recvd' = [recvd EXCEPT ![c] = Append(@, Head(chan[c]).n)]
            /\ UNCHANGED <<pc, pending>>
       ELSE /\ Return(c, c \in Streams)
            /\ UNCHANGED recvd
    /\ UNCHANGED <<net, session, serve, prev, held, shut, current, newest, down, up, on, agentVars>>

\* handleNodeLogs returns on a failed write to the browser: the stream is neither
\* closed nor read again.
StreamLeft(c) ==
    /\ pc[c] = "waiting"
    /\ Return(c, TRUE)
    /\ UNCHANGED <<net, session, serve, prev, held, shut, current, newest, down, up, on, chan,
                   recvd, agentVars>>

(***************************************************************************)
(* The Agent's session.                                                    *)
(***************************************************************************)

\* A frame on the socket, if the socket still takes it.
AgentWrites(c, type, n) ==
    up' = [up EXCEPT ![on[c]] = IF net[on[c]] = "up" THEN Append(@, F(type, c, n)) ELSE @]

\* dispatch: a request gets a goroutine; a cancel finds registered streams only.
AgentReads(k) ==
    /\ session[k] = "serving"
    /\ down[k] # <<>>
    /\ LET f == Head(down[k]) IN
        handler' = [handler EXCEPT ![f.id] =
                      IF f.type = "req" THEN "spawned"
                      ELSE IF f.id \in Streams /\ @ = "running" THEN "cancelled" ELSE @]
    /\ down' = [down EXCEPT ![k] = Tail(@)]
    /\ UNCHANGED <<socketVars, up, callVars, sent>>

\* handleRequest for a unary method: the operation runs and its result is
\* written, whether or not the Panel still wants it.
AgentAnswers(c) ==
    /\ handler[c] \in {"spawned", "cancelled"}
    /\ handler' = [handler EXCEPT ![c] = "done"]
    /\ AgentWrites(c, "resp", 0)
    /\ UNCHANGED <<socketVars, down, callVars, sent>>

\* handleStreamLogs registers its cancel function, or rejects the payload.
StreamStarts(c) ==
    /\ handler[c] = "spawned"
    /\ \/ /\ handler' = [handler EXCEPT ![c] = "running"]
          /\ UNCHANGED up
       \/ /\ handler' = [handler EXCEPT ![c] = "done"]
          /\ AgentWrites(c, "eof", 0)
    /\ UNCHANGED <<socketVars, down, callVars, sent>>

\* Send: one log line; a cancelled context does not stop a line that is ready.
StreamSends(c) ==
    /\ handler[c] \in {"running", "cancelled"}
    /\ sent[c] < MaxItems
    /\ IF net[on[c]] = "up"
       THEN sent' = [sent EXCEPT ![c] = @ + 1] /\ UNCHANGED handler
       ELSE handler' = [handler EXCEPT ![c] = "done"] /\ UNCHANGED sent
    /\ AgentWrites(c, "item", sent[c] + 1)
    /\ UNCHANGED <<socketVars, down, callVars>>

\* StreamLogs sees its context done: no terminal frame is written.
StreamStops(c) ==
    /\ handler[c] = "cancelled"
    /\ handler' = [handler EXCEPT ![c] = "done"]
    /\ UNCHANGED <<socketVars, down, up, callVars, sent>>

SocketNext ==
    \E k \in Sockets :
        \/ AgentDials(k) \/ SocketDies(k) \/ SessionEnds(k)
        \/ Register(k) \/ DisplacePrevious(k) \/ ShutdownSweep(k)
        \/ ReaderFails(k) \/ Remove(k) \/ ReaderReads(k) \/ ReaderUnblocks(k)
        \/ AgentReads(k)

CallNext ==
    \/ \E c \in Calls :
        \/ CallGets(c) \/ CallChecks(c) \/ CallRegisters(c) \/ CallWrites(c)
        \/ CallSeesClosed(c) \/ CallCancelled(c) \/ CallReceives(c)
    \/ \E c \in Unary : AgentAnswers(c)
    \/ \E c \in Streams : StreamLeft(c) \/ StreamStarts(c) \/ StreamSends(c) \/ StreamStops(c)

Next == SocketNext \/ CallNext

Spec == Init /\ [][Next]_vars

\* The Panel's goroutines run on; nothing is assumed of the network, the Agent,
\* the callers or the browser behind a log stream.
PanelFairness ==
    \A k \in Sockets :
        WF_vars(DisplacePrevious(k)) /\ WF_vars(ShutdownSweep(k)) /\ WF_vars(ReaderFails(k))
        /\ WF_vars(Remove(k)) /\ WF_vars(ReaderUnblocks(k))

FairSpec == Spec /\ PanelFairness

-----------------------------------------------------------------------------
(***************************************************************************)
(* Properties.                                                             *)
(***************************************************************************)

\* Every variable keeps its type, and a call's channel never holds more than the
\* buffer register made for it.
TypeOK ==
    /\ net \in [Sockets -> {"unused", "up", "down"}]
    /\ session \in [Sockets -> {"none", "serving", "ended"}]
    /\ serve \in [Sockets -> {"none", "accepted", "displacing", "reading", "blocked",
                              "removing", "done"}]
    /\ prev \in [Sockets -> Sockets \cup {NoSocket}]
    /\ held \in [Sockets -> Frame \cup {NoFrame}]
    /\ shut \in [Sockets -> {"open", "closed", "swept"}]
    /\ current \in Sockets \cup {NoSocket}
    /\ newest \in Sockets \cup {NoSocket}
    /\ pending \in [Sockets -> SUBSET Calls]
    /\ down \in [Sockets -> Seq(Frame)]
    /\ up \in [Sockets -> Seq(Frame)]
    /\ pc \in [Calls -> {"idle", "got", "checked", "registered", "waiting", "returned"}]
    /\ on \in [Calls -> Sockets \cup {NoSocket}]
    /\ chan \in [Calls -> Seq(Frame)]
    /\ \A c \in Calls : Len(chan[c]) <= Depth(c)
    /\ handler \in [Calls -> {"none", "spawned", "running", "cancelled", "done"}]
    /\ sent \in [Calls -> Nat]
    /\ recvd \in [Calls -> Seq(Nat)]

\* A caller that waits can still be answered: its request is registered, or a
\* frame for it is in its buffer or in the reader's hands, or its Conn is closed
\* and the select will see that - also when register ran after shutdown's sweep.
NoOrphanedCall ==
    \A c \in Calls : pc[c] = "waiting" =>
        \/ shut[on[c]] # "open"
        \/ c \in pending[on[c]]
        \/ chan[c] # <<>>
        \/ held[on[c]] # NoFrame /\ held[on[c]].id = c

\* The teardown of an older socket never evicts a newer one: while the reader of
\* the last registered Conn runs, the Hub hands out that Conn (Remove).
NewestSocketKept ==
    \A k \in Sockets :
        newest = k /\ serve[k] \in {"displacing", "reading", "blocked"} => current = k

\* A reconnect supersedes the stale socket: whoever was registered before the
\* current Conn is closed, or the Register that displaced it is about to close it.
DisplacedIsClosed ==
    \A j \in Sockets : serve[j] \in {"reading", "blocked"} /\ current # j =>
        \/ shut[j] # "open"
        \/ \E k \in Sockets : serve[k] = "displacing" /\ prev[k] = j

\* A log stream shows the lines in the order they were sent, each at most once, and
\* without a gap for as long as its Conn is open: only a reader freed by the close
\* drops a line (deliverStream, recv).
NoStreamGap ==
    \A c \in Streams : \A i \in 1 .. Len(recvd[c]) :
        /\ shut[on[c]] = "open" => recvd[c][i] = i
        /\ i > 1 => recvd[c][i - 1] < recvd[c][i]

\* A displaced socket's Serve goroutine ends, even when its reader was stuck in a
\* full stream: the Agent's reconnect frees it.
DisplacedSocketEnds ==
    \A k \in Sockets :
        (serve[k] \in {"reading", "blocked"} /\ current # k) ~> serve[k] = "done"

\* What "Client disconnect or stream end - stop cleanly" (handleNodeLogs) promises
\* to the other calls of the node: the reader of an open Conn waits only for a
\* stream that somebody still reads.
BlockedOnlyOnReader ==
    \A k \in Sockets : serve[k] = "blocked" /\ shut[k] = "open" => pc[held[k].id] = "waiting"
=============================================================================
