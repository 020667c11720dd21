-------------------------- MODULE UplinkHub_proofs ---------------------------
(***************************************************************************)
(* Proofs about the WebSocket uplink, for any number of sockets, calls and   *)
(* log lines and any stream buffer.                                         *)
(***************************************************************************)
EXTENDS UplinkHub, TLAPS

(***************************************************************************)
(* Queues.                                                                 *)
(***************************************************************************)

\* What adding to and taking from a queue does.
LEMMA QueueFacts ==
    ASSUME NEW S, NEW s \in Seq(S)
    PROVE  /\ Len(s) \in Nat
           /\ \A x \in S : Append(s, x) \in Seq(S) /\ Len(Append(s, x)) = Len(s) + 1
           /\ \A x \in S : <<x>> \in Seq(S) /\ Len(<<x>>) = 1
           /\ s # <<>> => Head(s) \in S /\ Tail(s) \in Seq(S) /\ Len(Tail(s)) = Len(s) - 1
OBVIOUS

\* The frames the Agent writes: responses of unary calls, and items and ends of
\* streams.
UpFrame == {f \in Frame : IF f.type = "resp" THEN f.id \in Unary ELSE f.id \in Streams}

\* What a call's channel may hold: log lines are for streams only.
BufferFrame(c) == {f \in Frame : f.type = "item" => c \in Streams}

LEMMA FrameType ==
    ASSUME NEW type \in {"req", "cancel", "resp", "item", "eof", "fail"}, NEW c \in Calls,
           NEW n \in Nat
    PROVE  /\ F(type, c, n) \in Frame
           /\ F(type, c, n).type = type
           /\ F(type, c, n).id = c
BY DEF F, Frame

(***************************************************************************)
(* Type correctness.  That a channel never exceeds its buffer needs to know   *)
(* which frames reach which channel, and what a blocked reader holds.        *)
(***************************************************************************)

\* Frames on their way to the Panel are those an Agent writes.
Routed == \A k \in Sockets : up[k] \in Seq(UpFrame)

\* A reader holds a frame exactly while it is blocked, and the frame is a stream's.
Holding ==
    \A k \in Sockets :
        IF serve[k] = "blocked" THEN held[k] \in Frame /\ held[k].id \in Streams
        ELSE held[k] = NoFrame

Buffers == \A c \in Calls : chan[c] \in Seq(BufferFrame(c)) /\ Len(chan[c]) <= Depth(c)

\* A call that has asked for the node's client has a socket.
Placed == \A c \in Calls : pc[c] # "idle" => on[c] \in Sockets

\* A socket that was not dialled has no Serve goroutine.
Fresh == \A k \in Sockets : net[k] = "unused" => serve[k] = "none"

Types == TypeOK /\ Routed /\ Holding /\ Buffers /\ Placed /\ Fresh

\* Nothing of what Types says of frames and buffers is disturbed.
LEMMA SameFrames ==
    ASSUME Types, UNCHANGED <<up, chan, held>>,
           \A k \in Sockets : serve'[k] = "blocked" <=> serve[k] = "blocked"
    PROVE  Routed' /\ Holding' /\ Buffers'
BY DEF Types, Routed, Holding, Buffers

LEMMA TypesInit == Init => Types
<1> SUFFICES ASSUME Init PROVE Types
  OBVIOUS
<1>1. \A S : <<>> \in Seq(S)
  OBVIOUS
<1>2. \A c \in Calls : Depth(c) \in Nat /\ Depth(c) > 0
  BY HubAssumption DEF Depth
<1>3. Routed /\ Holding /\ Placed /\ Fresh
  BY <1>1 DEF Init, Routed, Holding, Placed, Fresh
<1>4. Buffers
  BY <1>1, <1>2 DEF Init, Buffers
<1>5. TypeOK
  BY <1>1, <1>4 DEF Init, TypeOK, Buffers
<1> QED BY <1>3, <1>4, <1>5 DEF Types

\* Opening, displacing and closing sockets.
LEMMA SocketTypes ==
    ASSUME Types, NEW k \in Sockets,
           \/ AgentDials(k) \/ SocketDies(k) \/ SessionEnds(k) \/ Register(k)
           \/ DisplacePrevious(k) \/ ReaderFails(k) \/ Remove(k)
    PROVE  Types'
<1> USE DEF Types
<1>1. CASE AgentDials(k)
  <2>1. Placed' /\ Fresh' /\ Routed' /\ Holding' /\ Buffers'
    BY <1>1, SameFrames DEF AgentDials, TypeOK, callVars, Placed, Fresh
  <2> QED BY <1>1, <2>1 DEF TypeOK, AgentDials, callVars, agentVars
<1>2. CASE SocketDies(k)
  <2>1. Placed' /\ Fresh' /\ Routed' /\ Holding' /\ Buffers'
    BY <1>2, SameFrames DEF SocketDies, TypeOK, callVars, Placed, Fresh
  <2> QED BY <1>2, <2>1 DEF TypeOK, SocketDies, callVars, agentVars
<1>3. CASE SessionEnds(k)
  <2>1. Placed' /\ Fresh' /\ Routed' /\ Holding' /\ Buffers'
    BY <1>3, SameFrames DEF SessionEnds, callVars, Placed, Fresh
  <2> QED BY <1>3, <2>1 DEF TypeOK, SessionEnds, callVars
<1>4. CASE Register(k)
  <2>1. Placed' /\ Fresh' /\ Routed' /\ Holding' /\ Buffers'
    BY <1>4, SameFrames DEF Register, TypeOK, callVars, Placed, Fresh
  <2> QED BY <1>4, <2>1 DEF TypeOK, Register, callVars, agentVars
<1>5. CASE DisplacePrevious(k)
  <2>1. Placed' /\ Fresh' /\ Routed' /\ Holding' /\ Buffers'
    BY <1>5, SameFrames DEF DisplacePrevious, TypeOK, callVars, Placed, Fresh
  <2>a. \/ shut' = [shut EXCEPT ![prev[k]] = "closed"] /\ serve' = serve
        \/ shut' = shut /\ serve' = [serve EXCEPT ![k] = "reading"]
    BY <1>5 DEF DisplacePrevious
  <2>2. shut' \in [Sockets -> {"open", "closed", "swept"}]
    BY <2>a DEF TypeOK
  <2>3. serve' \in [Sockets -> {"none", "accepted", "displacing", "reading", "blocked",
                                "removing", "done"}]
    BY <2>a DEF TypeOK
  <2> QED BY <1>5, <2>1, <2>2, <2>3 DEF TypeOK, DisplacePrevious, callVars, agentVars
<1>6. CASE ReaderFails(k)
  <2>1. Placed' /\ Fresh' /\ Routed' /\ Holding' /\ Buffers'
    BY <1>6, SameFrames DEF ReaderFails, TypeOK, callVars, Placed, Fresh
  <2> QED BY <1>6, <2>1 DEF TypeOK, ReaderFails, callVars, agentVars
<1>7. CASE Remove(k)
  <2>1. Placed' /\ Fresh' /\ Routed' /\ Holding' /\ Buffers'
    BY <1>7, SameFrames DEF Remove, TypeOK, callVars, Placed, Fresh
  <2> QED BY <1>7, <2>1 DEF TypeOK, Remove, callVars, agentVars
<1> QED BY <1>1, <1>2, <1>3, <1>4, <1>5, <1>6, <1>7

\* A frame added to a channel that has room keeps the channel's type.
LEMMA RoomInBuffer ==
    ASSUME Types, NEW c \in Calls, Len(chan[c]) < Depth(c), NEW f \in BufferFrame(c)
    PROVE  /\ Append(chan[c], f) \in Seq(BufferFrame(c))
           /\ Append(chan[c], f) \in Seq(Frame)
           /\ Len(Append(chan[c], f)) <= Depth(c)
<1>1. chan[c] \in Seq(BufferFrame(c)) /\ chan[c] \in Seq(Frame)
  BY DEF Types, Buffers, TypeOK
<1>2. f \in Frame /\ Depth(c) \in Nat
  BY HubAssumption DEF BufferFrame, Depth
<1> QED BY <1>1, <1>2, QueueFacts

\* A channel that is well typed and within its buffer.
LEMMA BuffersType ==
    ASSUME Types, NEW new, new = [c \in Calls |-> new[c]],
           \A c \in Calls : \/ new[c] = chan[c]
                            \/ new[c] \in Seq(BufferFrame(c)) /\ Len(new[c]) <= Depth(c)
    PROVE  /\ new \in [Calls -> Seq(Frame)]
           /\ \A c \in Calls : new[c] \in Seq(BufferFrame(c)) /\ Len(new[c]) <= Depth(c)
<1>1. \A c \in Calls : new[c] \in Seq(BufferFrame(c)) /\ Len(new[c]) <= Depth(c)
  BY DEF Types, Buffers
<1>2. \A c \in Calls : Seq(BufferFrame(c)) \subseteq Seq(Frame)
  BY DEF BufferFrame
<1> QED BY <1>1, <1>2

\* The end of a Conn.
LEMMA SweepTypes ==
    ASSUME Types, NEW k \in Sockets, ShutdownSweep(k)
    PROVE  Types'
<1> USE DEF Types
<1>1. \A c \in Calls : \/ chan'[c] = chan[c]
                       \/ chan'[c] \in Seq(BufferFrame(c)) /\ Len(chan'[c]) <= Depth(c)
  <2> SUFFICES ASSUME NEW c \in Calls, chan'[c] # chan[c]
               PROVE  chan'[c] \in Seq(BufferFrame(c)) /\ Len(chan'[c]) <= Depth(c)
    OBVIOUS
  <2>1. Len(chan[c]) < Depth(c) /\ chan'[c] = Append(chan[c], F("fail", c, 0))
    BY DEF ShutdownSweep
  <2>2. F("fail", c, 0) \in BufferFrame(c)
    BY FrameType DEF BufferFrame
  <2> QED BY <2>1, <2>2, RoomInBuffer
<1>2. chan' = [c \in Calls |-> chan'[c]]
  BY DEF ShutdownSweep
<1>3. chan' \in [Calls -> Seq(Frame)] /\ Buffers'
  BY <1>1, <1>2, BuffersType DEF Buffers
<1>4. Routed' /\ Holding' /\ Placed' /\ Fresh'
  BY DEF ShutdownSweep, Routed, Holding, Placed, Fresh, TypeOK
<1> QED BY <1>3, <1>4 DEF TypeOK, ShutdownSweep, agentVars, Buffers

(***************************************************************************)
(* The Panel's reader.                                                     *)
(***************************************************************************)

\* The first frame on its way to the Panel, and the rest.
LEMMA NextFrame ==
    ASSUME Types, NEW k \in Sockets, up[k] # <<>>
    PROVE  /\ Head(up[k]) \in UpFrame
           /\ Tail(up[k]) \in Seq(UpFrame)
           /\ Tail(up[k]) \in Seq(Frame)
<1>1. up[k] \in Seq(UpFrame) /\ up[k] \in Seq(Frame)
  BY DEF Types, Routed, TypeOK
<1> QED BY <1>1, QueueFacts

LEMMA ReadsTypes ==
    ASSUME Types, NEW k \in Sockets, ReaderReads(k)
    PROVE  Types'
<1> USE DEF Types
<1> DEFINE f == Head(up[k])
<1>1. serve[k] = "reading" /\ up[k] # <<>> /\ up' = [up EXCEPT ![k] = Tail(@)]
  BY DEF ReaderReads
<1>2. f \in UpFrame /\ f \in Frame /\ f.id \in Calls
  BY <1>1, NextFrame DEF UpFrame, Frame
<1>3. up' \in [Sockets -> Seq(Frame)] /\ Routed'
  BY <1>1, NextFrame DEF TypeOK, Routed
<1>4. UNCHANGED <<net, session, prev, shut, current, newest, down, pc, on, recvd, agentVars>>
  BY DEF ReaderReads
<1>5. Placed' /\ held[k] = NoFrame
  BY <1>1, <1>4 DEF Placed, Holding
<1>6. CASE f.type = "resp"
  <2>1. DeliverResponse(k, f)
    BY <1>6 DEF ReaderReads
  <2>2. f \in BufferFrame(f.id)
    BY <1>2, <1>6 DEF BufferFrame
  <2>3. \A c \in Calls : \/ chan'[c] = chan[c]
                         \/ chan'[c] \in Seq(BufferFrame(c)) /\ Len(chan'[c]) <= Depth(c)
    <3> SUFFICES ASSUME NEW c \in Calls, chan'[c] # chan[c]
                 PROVE  chan'[c] \in Seq(BufferFrame(c)) /\ Len(chan'[c]) <= Depth(c)
      OBVIOUS
    <3>1. c = f.id /\ chan'[c] = <<f>>
      BY <2>1 DEF DeliverResponse, TypeOK
    <3>2. Depth(c) \in Nat /\ Depth(c) >= 1
      BY HubAssumption DEF Depth
    <3> QED BY <2>2, <3>1, <3>2, QueueFacts
  <2>4. chan' = [c \in Calls |-> chan'[c]]
    BY <2>1 DEF DeliverResponse, TypeOK
  <2>5. chan' \in [Calls -> Seq(Frame)] /\ Buffers'
    BY <2>3, <2>4, BuffersType DEF Buffers
  <2>6. pending' \in [Sockets -> SUBSET Calls] /\ UNCHANGED <<serve, held>>
    BY <2>1 DEF DeliverResponse, TypeOK
  <2>7. Holding' /\ Fresh'
    BY <1>4, <2>6 DEF Holding, Fresh
  <2> QED BY <1>3, <1>4, <1>5, <2>5, <2>6, <2>7 DEF TypeOK, agentVars, Buffers
<1>7. CASE f.type # "resp"
  <2>1. DeliverStream(k, f)
    BY <1>7 DEF ReaderReads
  <2>2. f.id \in Streams /\ f \in BufferFrame(f.id)
    BY <1>2, <1>7 DEF BufferFrame, UpFrame
  <2>3. \A c \in Calls : \/ chan'[c] = chan[c]
                         \/ chan'[c] \in Seq(BufferFrame(c)) /\ Len(chan'[c]) <= Depth(c)
    <3> SUFFICES ASSUME NEW c \in Calls, chan'[c] # chan[c]
                 PROVE  chan'[c] \in Seq(BufferFrame(c)) /\ Len(chan'[c]) <= Depth(c)
      OBVIOUS
    <3>0. chan' # chan
      OBVIOUS
    <3>1. c = f.id /\ chan'[c] = Append(chan[c], f) /\ Len(chan[c]) < StreamDepth
      <4>1. Len(chan[f.id]) < StreamDepth /\ chan' = [chan EXCEPT ![f.id] = Append(@, f)]
        BY <2>1, <3>0 DEF DeliverStream
      <4> QED BY <4>1 DEF TypeOK
    <3>2. Depth(c) = StreamDepth
      BY <2>2, <3>1 DEF Depth
    <3> QED BY <2>2, <3>1, <3>2, RoomInBuffer
  <2>4. chan' = [c \in Calls |-> chan'[c]]
    BY <2>1 DEF DeliverStream, TypeOK
  <2>5. chan' \in [Calls -> Seq(Frame)] /\ Buffers'
    BY <2>3, <2>4, BuffersType DEF Buffers
  <2>6. pending' \in [Sockets -> SUBSET Calls]
    BY <2>1 DEF DeliverStream, TypeOK
  <2>7. \/ UNCHANGED <<serve, held>>
        \/ serve' = [serve EXCEPT ![k] = "blocked"] /\ held' = [held EXCEPT ![k] = f]
    BY <2>1 DEF DeliverStream
  <2>8. Holding' /\ Fresh'
    <3>1. CASE UNCHANGED <<serve, held>>
      BY <1>4, <3>1 DEF Holding, Fresh
    <3>2. CASE serve' = [serve EXCEPT ![k] = "blocked"] /\ held' = [held EXCEPT ![k] = f]
      <4>1. \A j \in Sockets \ {k} : serve'[j] = serve[j] /\ held'[j] = held[j]
        BY <3>2 DEF TypeOK
      <4>2. serve'[k] = "blocked" /\ held'[k] = f
        BY <3>2 DEF TypeOK
      <4>3. Holding'
        BY <1>2, <2>2, <4>1, <4>2 DEF Holding
      <4>4. Fresh'
        BY <1>1, <1>4, <4>1 DEF Fresh
      <4> QED BY <4>3, <4>4
    <3> QED BY <2>7, <3>1, <3>2
  <2>9. /\ serve' \in [Sockets -> {"none", "accepted", "displacing", "reading", "blocked",
                                  "removing", "done"}]
        /\ held' \in [Sockets -> Frame \cup {NoFrame}]
    BY <1>2, <2>7 DEF TypeOK
  <2> QED BY <1>3, <1>4, <1>5, <2>5, <2>6, <2>8, <2>9 DEF TypeOK, agentVars, Buffers
<1> QED BY <1>6, <1>7

LEMMA UnblocksTypes ==
    ASSUME Types, NEW k \in Sockets, ReaderUnblocks(k)
    PROVE  Types'
<1> USE DEF Types
<1> DEFINE f == held[k]
<1>1. serve[k] = "blocked" /\ f \in Frame /\ f.id \in Streams
  BY DEF ReaderUnblocks, Holding
<1>2. \A c \in Calls : \/ chan'[c] = chan[c]
                       \/ chan'[c] \in Seq(BufferFrame(c)) /\ Len(chan'[c]) <= Depth(c)
  <2> SUFFICES ASSUME NEW c \in Calls, chan'[c] # chan[c]
               PROVE  chan'[c] \in Seq(BufferFrame(c)) /\ Len(chan'[c]) <= Depth(c)
    OBVIOUS
  <2>1. c = f.id /\ chan'[c] = Append(chan[c], f) /\ Len(chan[c]) < StreamDepth
    BY DEF ReaderUnblocks, TypeOK
  <2>2. Depth(c) = StreamDepth /\ f \in BufferFrame(c)
    BY <1>1, <2>1 DEF Depth, BufferFrame
  <2> QED BY <2>1, <2>2, RoomInBuffer
<1>3. chan' = [c \in Calls |-> chan'[c]]
  BY DEF ReaderUnblocks, TypeOK
<1>4. chan' \in [Calls -> Seq(Frame)] /\ Buffers'
  BY <1>2, <1>3, BuffersType DEF Buffers
<1>5. Routed' /\ Holding' /\ Placed' /\ Fresh'
  BY <1>1 DEF ReaderUnblocks, Routed, Holding, Placed, Fresh, TypeOK
<1> QED BY <1>4, <1>5 DEF TypeOK, ReaderUnblocks, agentVars, Buffers

(***************************************************************************)
(* Callers and the Agent.                                                  *)
(***************************************************************************)

\* Frames put on a socket's queue to the Agent.
LEMMA DownType ==
    ASSUME Types, NEW c \in Calls, NEW f \in Frame,
           \/ down' = down
           \/ down' = [down EXCEPT ![on[c]] = Append(@, f)]
    PROVE  down' \in [Sockets -> Seq(Frame)]
<1>1. down \in [Sockets -> Seq(Frame)]
  BY DEF Types, TypeOK
<1>2. \A k \in Sockets : Append(down[k], f) \in Seq(Frame)
  BY <1>1, QueueFacts
<1> QED BY <1>1, <1>2

\* Frames put on a socket's queue to the Panel.
LEMMA UpType ==
    ASSUME Types, NEW c \in Calls, NEW type \in {"resp", "item", "eof"}, NEW n \in Nat,
           IF type = "resp" THEN c \in Unary ELSE c \in Streams,
           AgentWrites(c, type, n)
    PROVE  up' \in [Sockets -> Seq(Frame)] /\ Routed'
<1> DEFINE f == F(type, c, n)
<1>1. f \in Frame /\ f \in UpFrame
  BY FrameType DEF UpFrame
<1>2. \A k \in Sockets : up[k] \in Seq(Frame) /\ up[k] \in Seq(UpFrame)
  BY DEF Types, TypeOK, Routed
<1>3. \A k \in Sockets : Append(up[k], f) \in Seq(Frame) /\ Append(up[k], f) \in Seq(UpFrame)
  BY <1>1, <1>2, QueueFacts
<1>4. up' = up \/ up' = [up EXCEPT ![on[c]] = Append(@, f)]
  BY DEF AgentWrites, Types, TypeOK
<1> HIDE DEF f
<1>5. CASE up' = up
  BY <1>5 DEF Types, TypeOK, Routed
<1>6. CASE up' = [up EXCEPT ![on[c]] = Append(@, f)]
  <2>1. up' \in [Sockets -> Seq(Frame)]
    BY <1>3, <1>6 DEF Types, TypeOK
  <2>2. \A k \in Sockets : up'[k] \in Seq(UpFrame)
    BY <1>2, <1>3, <1>6 DEF Types, TypeOK
  <2> QED BY <2>1, <2>2 DEF Routed
<1> QED BY <1>4, <1>5, <1>6

\* Registrations after a call was taken out.
LEMMA PendingType ==
    ASSUME Types, NEW c \in Calls,
           \/ pending' = pending
           \/ pending' = [pending EXCEPT ![on[c]] = @ \ {c}]
    PROVE  pending' \in [Sockets -> SUBSET Calls]
<1>1. pending \in [Sockets -> SUBSET Calls]
  BY DEF Types, TypeOK
<1>2. CASE pending' = pending
  BY <1>1, <1>2
<1>3. CASE pending' = [pending EXCEPT ![on[c]] = @ \ {c}]
  BY <1>1, <1>3
<1> QED BY <1>2, <1>3

LEMMA CallTypes ==
    ASSUME Types, NEW c \in Calls,
           \/ CallGets(c) \/ CallChecks(c) \/ CallRegisters(c) \/ CallWrites(c)
           \/ CallSeesClosed(c) \/ CallCancelled(c)
           \/ c \in Streams /\ StreamLeft(c)
    PROVE  Types'
<1> USE DEF Types
<1>1. UNCHANGED <<up, chan, held, serve, net>>
  BY DEF CallGets, CallChecks, CallRegisters, CallWrites, CallSeesClosed, CallCancelled,
         StreamLeft, socketVars
<1>2. Routed' /\ Holding' /\ Buffers' /\ Fresh'
  BY <1>1, SameFrames DEF Fresh
<1> DEFINE PC == {"idle", "got", "checked", "registered", "waiting", "returned"}
<1>a. \E x \in PC : pc' = [pc EXCEPT ![c] = x]
  BY DEF CallGets, CallChecks, CallRegisters, CallWrites, CallSeesClosed, CallCancelled,
         StreamLeft, Return
<1>b. pc' \in [Calls -> PC] /\ \A d \in Calls \ {c} : pc'[d] = pc[d]
  BY <1>a DEF TypeOK
<1>3. Placed'
  <2>1. CASE CallGets(c)
    BY <2>1, <1>b DEF CallGets, Placed, TypeOK
  <2>2. CASE ~CallGets(c)
    <3>1. on' = on /\ pc[c] # "idle"
      BY <2>2 DEF CallChecks, CallRegisters, CallWrites, CallSeesClosed, CallCancelled,
                  StreamLeft
    <3> QED BY <3>1, <1>b DEF Placed
  <2> QED BY <2>1, <2>2
<1>4. CASE CallGets(c) \/ CallChecks(c)
  <2>1. on' \in [Calls -> Sockets \cup {NoSocket}]
    BY <1>4 DEF TypeOK, CallGets, CallChecks
  <2>2. UNCHANGED <<socketVars, down, up, chan, recvd, agentVars>>
    BY <1>4 DEF CallGets, CallChecks
  <2> QED BY <1>2, <1>3, <1>b, <2>1, <2>2 DEF TypeOK, socketVars, agentVars
<1>5. CASE CallRegisters(c)
  BY <1>2, <1>3, <1>5 DEF TypeOK, CallRegisters, agentVars
<1>6. CASE CallWrites(c)
  <2>1. down' \in [Sockets -> Seq(Frame)]
    <3>1. F("req", c, 0) \in Frame
      BY FrameType
    <3>2. \/ down' = down
          \/ down' = [down EXCEPT ![on[c]] = Append(@, F("req", c, 0))]
      BY <1>6 DEF CallWrites, TypeOK
    <3> QED BY <3>1, <3>2, DownType
  <2>2. pending' \in [Sockets -> SUBSET Calls]
    <3>1. pending' = pending \/ pending' = [pending EXCEPT ![on[c]] = @ \ {c}]
      BY <1>6 DEF CallWrites, Return
    <3> QED BY <3>1, PendingType
  <2> QED BY <1>2, <1>3, <1>6, <1>b, <2>1, <2>2 DEF TypeOK, CallWrites, agentVars
<1>7. CASE CallSeesClosed(c)
  BY <1>2, <1>3, <1>7 DEF TypeOK, CallSeesClosed, Return, agentVars
<1>8. CASE CallCancelled(c)
  <2>1. down' \in [Sockets -> Seq(Frame)]
    <3>1. F("cancel", c, 0) \in Frame
      BY FrameType
    <3>2. \/ down' = down
          \/ down' = [down EXCEPT ![on[c]] = Append(@, F("cancel", c, 0))]
      BY <1>8 DEF CallCancelled, SendCancel, TypeOK
    <3> QED BY <3>1, <3>2, DownType
  <2>2. pending' \in [Sockets -> SUBSET Calls]
    BY <1>8 DEF TypeOK, CallCancelled, Return
  <2> QED BY <1>2, <1>3, <1>8, <1>b, <2>1, <2>2 DEF TypeOK, CallCancelled, agentVars
<1>9. CASE c \in Streams /\ StreamLeft(c)
  BY <1>2, <1>3, <1>9 DEF TypeOK, StreamLeft, Return, agentVars
<1> QED BY <1>4, <1>5, <1>6, <1>7, <1>8, <1>9

LEMMA ReceivesTypes ==
    ASSUME Types, NEW c \in Calls, CallReceives(c)
    PROVE  Types'
<1> USE DEF Types
<1>1. chan[c] # <<>> /\ chan' = [chan EXCEPT ![c] = Tail(@)]
  BY DEF CallReceives
<1>2. /\ Tail(chan[c]) \in Seq(BufferFrame(c))
      /\ Tail(chan[c]) \in Seq(Frame)
      /\ Len(Tail(chan[c])) <= Depth(c)
      /\ Head(chan[c]) \in Frame
  <2>1. chan[c] \in Seq(BufferFrame(c)) /\ chan[c] \in Seq(Frame) /\ Len(chan[c]) <= Depth(c)
    BY DEF Buffers, TypeOK
  <2>2. Depth(c) \in Nat
    BY HubAssumption DEF Depth
  <2> QED BY <1>1, <2>1, <2>2, QueueFacts
<1>3. chan' \in [Calls -> Seq(Frame)] /\ Buffers'
  BY <1>1, <1>2 DEF Buffers, TypeOK
<1>4. Append(recvd[c], Head(chan[c]).n) \in Seq(Nat)
  BY <1>2, QueueFacts DEF TypeOK, Frame
<1>5. recvd' \in [Calls -> Seq(Nat)]
  BY <1>4 DEF CallReceives, TypeOK
<1>6. /\ pc' \in [Calls -> {"idle", "got", "checked", "registered", "waiting", "returned"}]
      /\ pending' \in [Sockets -> SUBSET Calls]
  <2>1. \/ pc' = pc
        \/ pc' = [pc EXCEPT ![c] = "returned"]
    BY DEF CallReceives, Return
  <2>2. \/ pending' = pending
        \/ pending' = [pending EXCEPT ![on[c]] = @ \ {c}]
    BY DEF CallReceives, Return
  <2>3. pc \in [Calls -> {"idle", "got", "checked", "registered", "waiting", "returned"}]
    BY DEF TypeOK
  <2> QED BY <2>1, <2>2, <2>3, PendingType
<1>7. Routed' /\ Holding' /\ Placed' /\ Fresh'
  BY DEF CallReceives, Return, Routed, Holding, Placed, Fresh, TypeOK
<1> QED BY <1>3, <1>5, <1>6, <1>7 DEF TypeOK, CallReceives, agentVars, Buffers

LEMMA AgentTypes ==
    ASSUME Types,
           \/ \E k \in Sockets : AgentReads(k)
           \/ \E c \in Unary : AgentAnswers(c)
           \/ \E c \in Streams : StreamStarts(c) \/ StreamSends(c) \/ StreamStops(c)
    PROVE  Types'
<1> USE DEF Types
<1>1. UNCHANGED <<socketVars, callVars>>
  BY DEF AgentReads, AgentAnswers, StreamStarts, StreamSends, StreamStops
<1>2. Holding' /\ Buffers' /\ Placed' /\ Fresh'
  BY <1>1 DEF socketVars, callVars, Holding, Buffers, Placed, Fresh
<1>3. CASE \E k \in Sockets : AgentReads(k)
  <2> PICK k \in Sockets : AgentReads(k)
    BY <1>3
  <2>1. down[k] \in Seq(Frame) /\ down[k] # <<>>
    BY DEF TypeOK, AgentReads
  <2>2. Tail(down[k]) \in Seq(Frame) /\ Head(down[k]) \in Frame
    BY <2>1, QueueFacts
  <2>3. down' \in [Sockets -> Seq(Frame)]
    BY <2>2 DEF TypeOK, AgentReads
  <2>4. handler' \in [Calls -> {"none", "spawned", "running", "cancelled", "done"}]
    BY <2>2 DEF TypeOK, AgentReads, Frame
  <2>5. UNCHANGED <<up, sent>>
    BY DEF AgentReads
  <2> QED BY <1>1, <1>2, <2>3, <2>4, <2>5 DEF TypeOK, Routed, socketVars, callVars
<1>4. CASE \E c \in Unary : AgentAnswers(c)
  <2> PICK c \in Unary : AgentAnswers(c)
    BY <1>4
  <2>1. c \in Calls
    BY DEF Calls
  <2>2. up' \in [Sockets -> Seq(Frame)] /\ Routed'
    BY <2>1, UpType DEF AgentAnswers
  <2> QED BY <1>1, <1>2, <2>1, <2>2 DEF TypeOK, AgentAnswers, socketVars, callVars
<1>5. CASE \E c \in Streams : StreamStarts(c) \/ StreamSends(c) \/ StreamStops(c)
  <2> PICK c \in Streams : StreamStarts(c) \/ StreamSends(c) \/ StreamStops(c)
    BY <1>5
  <2>1. c \in Calls /\ c \notin Unary
    BY HubAssumption DEF Calls
  <2>2. sent[c] + 1 \in Nat
    BY <2>1 DEF TypeOK
  <2>3. up' \in [Sockets -> Seq(Frame)] /\ Routed'
    <3>1. CASE up' = up
      BY <3>1 DEF TypeOK, Routed
    <3>2. CASE AgentWrites(c, "eof", 0)
      BY <2>1, <3>2, UpType
    <3>3. CASE AgentWrites(c, "item", sent[c] + 1)
      BY <2>1, <2>2, <3>3, UpType
    <3> QED BY <3>1, <3>2, <3>3 DEF StreamStarts, StreamSends, StreamStops
  <2>4. /\ handler' \in [Calls -> {"none", "spawned", "running", "cancelled", "done"}]
        /\ sent' \in [Calls -> Nat] /\ down' = down
    <3>1. /\ \/ handler' = handler
             \/ \E x \in {"running", "done"} : handler' = [handler EXCEPT ![c] = x]
          /\ sent' = sent \/ sent' = [sent EXCEPT ![c] = @ + 1]
          /\ down' = down
      BY DEF StreamStarts, StreamSends, StreamStops
    <3>2. /\ handler \in [Calls -> {"none", "spawned", "running", "cancelled", "done"}]
          /\ sent \in [Calls -> Nat]
      BY DEF TypeOK
    <3> QED BY <2>1, <2>2, <3>1, <3>2
  <2> QED BY <1>1, <1>2, <2>3, <2>4 DEF TypeOK, socketVars, callVars
<1> QED BY <1>3, <1>4, <1>5

LEMMA TypesStep == Types /\ [Next]_vars => Types'
<1> SUFFICES ASSUME Types, [Next]_vars PROVE Types'
  OBVIOUS
<1>1. CASE SocketNext
  BY <1>1, SocketTypes, SweepTypes, ReadsTypes, UnblocksTypes, AgentTypes DEF SocketNext
<1>2. CASE CallNext
  BY <1>2, CallTypes, ReceivesTypes, AgentTypes DEF CallNext, Calls
<1>3. CASE UNCHANGED vars
  BY <1>3 DEF vars, socketVars, callVars, agentVars, Types, TypeOK, Routed, Holding, Buffers,
              Placed, Fresh
<1> QED BY <1>1, <1>2, <1>3 DEF Next

\* The uplink keeps its types; in particular a call's channel never holds more than
\* the buffer it was made with, however responses, log lines and the shutdown of the
\* Conn interleave.
THEOREM TypeCorrect == Spec => []TypeOK
<1>1. Types => TypeOK
  BY DEF Types
<1> QED BY <1>1, TypesInit, TypesStep, PTL DEF Spec

(***************************************************************************)
(* Old and new sockets.                                                    *)
(***************************************************************************)

\* DisplacedIsClosed for the time a socket is itself displacing another, too: only
\* so is it known when that socket's own reader starts.
Superseded ==
    \A j \in Sockets : serve[j] \in {"displacing", "reading", "blocked"} /\ current # j =>
        \/ shut[j] # "open"
        \/ \E k \in Sockets : serve[k] = "displacing" /\ prev[k] = j

\* A step of the reader or of somebody else, which neither opens nor closes a Conn.
LEMMA SameConns ==
    ASSUME NewestSocketKept, Superseded, UNCHANGED <<prev, shut, current, newest>>,
           \A j \in Sockets : \/ serve'[j] = serve[j]
                              \/ {serve[j], serve'[j]} \subseteq {"reading", "blocked"}
    PROVE  NewestSocketKept' /\ Superseded'
BY DEF NewestSocketKept, Superseded

LEMMA ConnsStep ==
    Types /\ NewestSocketKept /\ Superseded /\ [Next]_vars => NewestSocketKept' /\ Superseded'
<1> SUFFICES ASSUME Types, NewestSocketKept, Superseded, [Next]_vars
             PROVE  NewestSocketKept' /\ Superseded'
  OBVIOUS
<1>0. serve \in [Sockets -> {"none", "accepted", "displacing", "reading", "blocked",
                             "removing", "done"}]
      /\ prev \in [Sockets -> Sockets \cup {NoSocket}]
      /\ shut \in [Sockets -> {"open", "closed", "swept"}]
  BY DEF Types, TypeOK
<1>1. ASSUME NEW k \in Sockets, AgentDials(k)
      PROVE  NewestSocketKept' /\ Superseded'
  <2>1. serve[k] = "none" /\ serve' = [serve EXCEPT ![k] = "accepted"]
    BY <1>1 DEF Types, Fresh, AgentDials
  <2>2. UNCHANGED <<prev, shut, current, newest>>
    BY <1>1 DEF AgentDials
  <2> QED BY <1>0, <2>1, <2>2 DEF NewestSocketKept, Superseded
<1>2. ASSUME NEW k \in Sockets, Register(k)
      PROVE  NewestSocketKept' /\ Superseded'
  <2>1. /\ serve[k] = "accepted" /\ current' = k /\ newest' = k /\ shut' = shut
        /\ prev'[k] = current
        /\ \A j \in Sockets \ {k} : serve'[j] = serve[j] /\ prev'[j] = prev[j]
        /\ current # NoSocket => serve'[k] = "displacing"
    BY <1>0, <1>2 DEF Register
  <2>2. NewestSocketKept'
    BY <2>1 DEF NewestSocketKept
  <2>3. Superseded'
    <3> SUFFICES ASSUME NEW j \in Sockets, serve'[j] \in {"displacing", "reading", "blocked"},
                        j # k, shut[j] = "open"
                 PROVE  \E i \in Sockets : serve'[i] = "displacing" /\ prev'[i] = j
      BY <2>1 DEF Superseded
    <3>1. CASE current = j
      <4>1. current # NoSocket
        BY <3>1, HubAssumption DEF Sockets, NoSocket
      <4> QED BY <2>1, <3>1, <4>1
    <3>2. CASE current # j
      <4>1. PICK i \in Sockets : serve[i] = "displacing" /\ prev[i] = j
        BY <2>1, <3>2 DEF Superseded
      <4> QED BY <2>1, <4>1
    <3> QED BY <3>1, <3>2
  <2> QED BY <2>2, <2>3
<1>3. ASSUME NEW k \in Sockets, DisplacePrevious(k)
      PROVE  NewestSocketKept' /\ Superseded'
  <2>1. UNCHANGED <<prev, current, newest>> /\ serve[k] = "displacing"
    BY <1>3 DEF DisplacePrevious
  <2>2. CASE serve' = serve /\ shut' = [shut EXCEPT ![prev[k]] = "closed"]
    BY <1>0, <2>1, <2>2 DEF NewestSocketKept, Superseded
  <2>3. CASE shut' = shut /\ shut[prev[k]] = "swept" /\ serve' = [serve EXCEPT ![k] = "reading"]
    BY <1>0, <2>1, <2>3 DEF NewestSocketKept, Superseded
  <2> QED BY <1>3, <2>2, <2>3 DEF DisplacePrevious
<1>4. ASSUME NEW k \in Sockets, ShutdownSweep(k)
      PROVE  NewestSocketKept' /\ Superseded'
  <2>1. UNCHANGED <<serve, prev, current, newest>> /\ shut' = [shut EXCEPT ![k] = "swept"]
    BY <1>4 DEF ShutdownSweep
  <2> QED BY <1>0, <2>1 DEF NewestSocketKept, Superseded
<1>5. ASSUME NEW k \in Sockets, ReaderFails(k)
      PROVE  NewestSocketKept' /\ Superseded'
  <2>1. /\ UNCHANGED <<prev, current, newest>>
        /\ serve[k] = "reading" /\ serve' = [serve EXCEPT ![k] = "removing"]
        /\ \A j \in Sockets : shut[j] # "open" => shut'[j] # "open"
    BY <1>0, <1>5 DEF ReaderFails
  <2> QED BY <1>0, <2>1 DEF NewestSocketKept, Superseded
<1>6. ASSUME NEW k \in Sockets, Remove(k)
      PROVE  NewestSocketKept' /\ Superseded'
  <2>1. /\ UNCHANGED <<prev, shut, newest>>
        /\ serve[k] = "removing" /\ serve' = [serve EXCEPT ![k] = "done"]
        /\ current' = IF current = k THEN NoSocket ELSE current
    BY <1>6 DEF Remove
  <2> QED BY <1>0, <2>1 DEF NewestSocketKept, Superseded
<1>7. ASSUME NEW k \in Sockets, ReaderReads(k)
      PROVE  NewestSocketKept' /\ Superseded'
  <2>1. serve[k] = "reading" /\ UNCHANGED <<prev, shut, current, newest>>
    BY <1>7 DEF ReaderReads
  <2>2. serve' = serve \/ serve' = [serve EXCEPT ![k] = "blocked"]
    BY <1>7 DEF ReaderReads, DeliverResponse, DeliverStream
  <2> QED BY <1>0, <2>1, <2>2, SameConns
<1>8. ASSUME NEW k \in Sockets, ReaderUnblocks(k)
      PROVE  NewestSocketKept' /\ Superseded'
  <2>1. /\ serve[k] = "blocked" /\ serve' = [serve EXCEPT ![k] = "reading"]
        /\ UNCHANGED <<prev, shut, current, newest>>
    BY <1>8 DEF ReaderUnblocks
  <2> QED BY <1>0, <2>1, SameConns
<1>9. ASSUME NEW k \in Sockets, SocketDies(k) \/ SessionEnds(k) \/ AgentReads(k)
      PROVE  NewestSocketKept' /\ Superseded'
  BY <1>9, SameConns DEF SocketDies, SessionEnds, AgentReads, socketVars
<1>10. CASE CallNext
  <2>1. UNCHANGED <<serve, prev, shut, current, newest>>
    BY <1>10 DEF CallNext, CallGets, CallChecks, CallRegisters, CallWrites, CallSeesClosed,
                 CallCancelled, CallReceives, AgentAnswers, StreamLeft, StreamStarts, StreamSends,
                 StreamStops, socketVars
  <2> QED BY <2>1, SameConns
<1>11. CASE UNCHANGED vars
  BY <1>11, SameConns DEF vars, socketVars
<1> QED BY <1>1, <1>2, <1>3, <1>4, <1>5, <1>6, <1>7, <1>8, <1>9, <1>10, <1>11
        DEF Next, SocketNext

LEMMA ConnsInit == Init => NewestSocketKept /\ Superseded
BY DEF Init, NewestSocketKept, Superseded

\* Tearing down an old socket never takes the node's newer socket out of the Hub,
\* for any number of overlapping sockets.
THEOREM NewestAlwaysKept == Spec => []NewestSocketKept
BY ConnsInit, ConnsStep, TypesInit, TypesStep, PTL DEF Spec

\* A socket that was superseded is closed, or about to be closed by its successor.
THEOREM DisplacedAlwaysClosed == Spec => []DisplacedIsClosed
<1>1. Superseded => DisplacedIsClosed
  BY DEF Superseded, DisplacedIsClosed
<1> QED BY <1>1, ConnsInit, ConnsStep, TypesInit, TypesStep, PTL DEF Spec

(***************************************************************************)
(* Waiting callers.                                                        *)
(***************************************************************************)

\* The frame that ends a call: a response, an end of stream, or the error of a
\* shutdown.
Ends(f) == f.type # "item"

\* A call can still end: its Conn is closed, or it is registered, or the frame that
\* ends it is in its channel or in the reader's hands.  A log line in the channel is
\* not enough, since the caller waits again after it.
CanEnd(c) ==
    \/ shut[on[c]] # "open"
    \/ c \in pending[on[c]]
    \/ \E i \in 1 .. Len(chan[c]) : Ends(chan[c][i])
    \/ serve[on[c]] = "blocked" /\ held[on[c]].id = c /\ Ends(held[on[c]])

EveryCallCanEnd == \A c \in Calls : pc[c] \in {"registered", "waiting"} => CanEnd(c)

\* A frame added to a channel stays there, behind those that were there.
LEMMA AppendKeeps ==
    ASSUME NEW S, NEW s \in Seq(S), NEW x \in S
    PROVE  /\ \A i \in 1 .. Len(s) : i \in 1 .. Len(Append(s, x)) /\ Append(s, x)[i] = s[i]
           /\ Len(s) + 1 \in 1 .. Len(Append(s, x))
           /\ Append(s, x)[Len(s) + 1] = x
OBVIOUS

\* An ending frame in a channel whose head is a log line is in its tail.
LEMMA TailKeepsEnd ==
    ASSUME NEW s \in Seq(Frame), s # <<>>, ~Ends(Head(s)),
           NEW i \in 1 .. Len(s), Ends(s[i])
    PROVE  \E j \in 1 .. Len(Tail(s)) : Ends(Tail(s)[j])
<1>1. i # 1
  OBVIOUS
<1>2. i - 1 \in 1 .. Len(Tail(s)) /\ Tail(s)[i - 1] = s[i]
  BY <1>1
<1> QED BY <1>2

\* Whatever is appended, a call that can end by its channel still can.
LEMMA EndStays ==
    ASSUME Types, NEW c \in Calls, NEW f \in Frame,
           \/ chan'[c] = chan[c]
           \/ chan'[c] = Append(chan[c], f),
           \E i \in 1 .. Len(chan[c]) : Ends(chan[c][i])
    PROVE  \E i \in 1 .. Len(chan'[c]) : Ends(chan'[c][i])
<1>1. chan[c] \in Seq(Frame)
  BY DEF Types, TypeOK
<1>2. CASE chan'[c] = chan[c]
  BY <1>2
<1>3. CASE chan'[c] = Append(chan[c], f)
  <2> PICK i \in 1 .. Len(chan[c]) : Ends(chan[c][i])
    OBVIOUS
  <2>1. i \in 1 .. Len(chan'[c]) /\ chan'[c][i] = chan[c][i]
    BY <1>1, <1>3, AppendKeeps
  <2> QED BY <2>1
<1> QED BY <1>2, <1>3

LEMMA EndAppended ==
    ASSUME Types, NEW c \in Calls, NEW f \in Frame, Ends(f), chan'[c] = Append(chan[c], f)
    PROVE  \E i \in 1 .. Len(chan'[c]) : Ends(chan'[c][i])
<1>1. chan[c] \in Seq(Frame)
  BY DEF Types, TypeOK
<1>2. Len(chan[c]) + 1 \in 1 .. Len(chan'[c]) /\ chan'[c][Len(chan[c]) + 1] = f
  BY <1>1, AppendKeeps
<1> QED BY <1>2

\* A frame of the node's reader reaches only the call it is for, and leaves that call
\* a way to end.
LEMMA ReadsCanEnd ==
    ASSUME Types, EveryCallCanEnd, NEW k \in Sockets, ReaderReads(k)
    PROVE  EveryCallCanEnd'
<1> DEFINE f == Head(up[k])
<1>1. /\ serve[k] = "reading" /\ up[k] # <<>>
      /\ UNCHANGED <<shut, pc, on>>
  BY DEF ReaderReads
<1>2. f \in UpFrame /\ f \in Frame
  BY <1>1, NextFrame DEF UpFrame
<1>t. /\ chan \in [Calls -> Seq(Frame)]
      /\ pending \in [Sockets -> SUBSET Calls]
      /\ held \in [Sockets -> Frame \cup {NoFrame}]
      /\ serve \in [Sockets -> {"none", "accepted", "displacing", "reading", "blocked",
                                "removing", "done"}]
  BY DEF Types, TypeOK
<1> SUFFICES ASSUME NEW c \in Calls, pc[c] \in {"registered", "waiting"}, CanEnd(c),
                    on[c] \in Sockets
             PROVE  CanEnd(c)'
  BY <1>1 DEF EveryCallCanEnd, Types, Placed
<1>3. CASE f.type = "resp"
  <2>1. DeliverResponse(k, f)
    BY <1>3 DEF ReaderReads
  <2>2. UNCHANGED <<serve, held>>
    BY <2>1 DEF DeliverResponse
  <2>3. CASE c = f.id /\ c \in pending[k]
    <3>1. chan'[c] = IF chan[c] = <<>> THEN <<f>> ELSE chan[c]
      BY <2>1, <2>3, <1>t DEF DeliverResponse
    <3>2. CASE chan[c] = <<>>
      <4>1. chan'[c] = <<f>> /\ Ends(f)
        BY <1>3, <3>1, <3>2 DEF Ends
      <4>2. 1 \in 1 .. Len(chan'[c]) /\ chan'[c][1] = f
        BY <4>1
      <4> QED BY <4>1, <4>2 DEF CanEnd
    <3>3. CASE chan[c] # <<>>
      <4>1. c \in Unary
        BY <1>2, <1>3, <2>3 DEF UpFrame
      <4>2. chan[c] \in Seq(BufferFrame(c))
        BY DEF Types, Buffers
      <4>3. 1 \in 1 .. Len(chan[c]) /\ chan[c][1] \in BufferFrame(c)
        BY <3>3, <4>2
      <4>4. Ends(chan[c][1])
        BY <4>1, <4>3, HubAssumption DEF BufferFrame, Ends
      <4> QED BY <3>1, <3>3, <4>3, <4>4 DEF CanEnd
    <3> QED BY <3>2, <3>3
  <2>4. CASE ~(c = f.id /\ c \in pending[k])
    <3>1. chan'[c] = chan[c]
      BY <2>1, <2>4, <1>t DEF DeliverResponse
    <3>2. c \in pending[on[c]] => c \in pending'[on[c]]
      BY <2>1, <2>4, <1>t DEF DeliverResponse
    <3> QED BY <1>1, <2>2, <3>1, <3>2 DEF CanEnd
  <2> QED BY <2>3, <2>4
<1>4. CASE f.type # "resp"
  <2>1. DeliverStream(k, f)
    BY <1>4 DEF ReaderReads
  <2>2. /\ pending' = [pending EXCEPT ![k] = IF f.type = "eof" THEN @ \ {f.id} ELSE @]
        /\ f.id \notin pending[k] => UNCHANGED <<chan, serve, held>>
        /\ f.id \in pending[k] =>
              \/ shut[k] # "open" /\ UNCHANGED <<chan, serve, held>>
              \/ chan' = [chan EXCEPT ![f.id] = Append(@, f)] /\ UNCHANGED <<serve, held>>
              \/ /\ chan' = chan
                 /\ serve' = [serve EXCEPT ![k] = "blocked"]
                 /\ held' = [held EXCEPT ![k] = f]
    BY <2>1 DEF DeliverStream
  <2>3. chan'[c] = chan[c] \/ chan'[c] = Append(chan[c], f)
    BY <1>t, <2>2
  <2>4. CASE \E i \in 1 .. Len(chan[c]) : Ends(chan[c][i])
    BY <1>2, <2>3, <2>4, EndStays DEF CanEnd
  <2>5. CASE shut[on[c]] # "open"
    BY <1>1, <2>5 DEF CanEnd
  <2>6. CASE serve[on[c]] = "blocked" /\ held[on[c]].id = c /\ Ends(held[on[c]])
    <3>1. on[c] # k
      BY <1>1, <2>6
    <3>2. serve'[on[c]] = serve[on[c]] /\ held'[on[c]] = held[on[c]]
      BY <1>t, <2>2, <3>1
    <3> QED BY <1>1, <2>6, <3>2 DEF CanEnd
  <2>7. CASE c \in pending[on[c]]
    <3>1. CASE on[c] # k \/ f.type # "eof" \/ f.id # c
      <4>1. c \in pending'[on[c]]
        BY <1>t, <2>2, <2>7, <3>1
      <4> QED BY <1>1, <4>1 DEF CanEnd
    <3>2. CASE on[c] = k /\ f.type = "eof" /\ f.id = c
      <4>0. CASE shut[k] # "open"
        BY <2>5, <3>2, <4>0
      <4>1. Ends(f)
        BY <3>2 DEF Ends
      <4>2. CASE chan' = [chan EXCEPT ![f.id] = Append(@, f)]
        <5>1. chan'[c] = Append(chan[c], f)
          BY <1>t, <3>2, <4>2
        <5> QED BY <1>2, <4>1, <5>1, EndAppended DEF CanEnd
      <4>3. CASE serve' = [serve EXCEPT ![k] = "blocked"] /\ held' = [held EXCEPT ![k] = f]
        <5>1. serve'[on[c]] = "blocked" /\ held'[on[c]] = f
          BY <1>t, <3>2, <4>3
        <5> QED BY <1>1, <3>2, <4>1, <5>1 DEF CanEnd
      <4> QED BY <2>2, <2>7, <3>2, <4>0, <4>2, <4>3
    <3> QED BY <3>1, <3>2
  <2> QED BY <2>4, <2>5, <2>6, <2>7 DEF CanEnd
<1> QED BY <1>3, <1>4

LEMMA UnblocksCanEnd ==
    ASSUME Types, EveryCallCanEnd, NEW k \in Sockets, ReaderUnblocks(k)
    PROVE  EveryCallCanEnd'
<1> DEFINE f == held[k]
<1>1. /\ serve[k] = "blocked" /\ f \in Frame /\ f.id \in Calls
      /\ UNCHANGED <<shut, pc, on, pending>>
      /\ serve' = [serve EXCEPT ![k] = "reading"]
      /\ held' = [held EXCEPT ![k] = NoFrame]
  BY DEF ReaderUnblocks, Types, Holding, Calls
<1>t. /\ chan \in [Calls -> Seq(Frame)]
      /\ held \in [Sockets -> Frame \cup {NoFrame}]
      /\ serve \in [Sockets -> {"none", "accepted", "displacing", "reading", "blocked",
                                "removing", "done"}]
  BY DEF Types, TypeOK
<1> SUFFICES ASSUME NEW c \in Calls, pc[c] \in {"registered", "waiting"}, CanEnd(c),
                    on[c] \in Sockets
             PROVE  CanEnd(c)'
  BY <1>1 DEF EveryCallCanEnd, Types, Placed
<1>2. chan'[c] = chan[c] \/ chan'[c] = Append(chan[c], f)
  BY <1>t DEF ReaderUnblocks
<1>3. CASE \E i \in 1 .. Len(chan[c]) : Ends(chan[c][i])
  BY <1>1, <1>2, <1>3, EndStays DEF CanEnd
<1>4. CASE shut[on[c]] # "open" \/ c \in pending[on[c]]
  BY <1>1, <1>4 DEF CanEnd
<1>5. CASE serve[on[c]] = "blocked" /\ held[on[c]].id = c /\ Ends(held[on[c]]) /\ on[c] # k
  <2>1. serve'[on[c]] = serve[on[c]] /\ held'[on[c]] = held[on[c]]
    BY <1>1, <1>5, <1>t
  <2> QED BY <1>1, <1>5, <2>1 DEF CanEnd
<1>6. CASE f.id = c /\ Ends(f) /\ on[c] = k
  <2>1. CASE shut[k] # "open"
    BY <1>1, <1>6, <2>1 DEF CanEnd
  <2>2. CASE chan' = [chan EXCEPT ![f.id] = Append(@, f)]
    <3>1. chan'[c] = Append(chan[c], f)
      BY <1>6, <1>t, <2>2
    <3> QED BY <1>1, <1>6, <3>1, EndAppended DEF CanEnd
  <2> QED BY <2>1, <2>2 DEF ReaderUnblocks
<1> QED BY <1>3, <1>4, <1>5, <1>6 DEF CanEnd

\* The sweep forgets registrations, but only of a Conn that is closed.
LEMMA SweepCanEnd ==
    ASSUME Types, EveryCallCanEnd, NEW k \in Sockets, ShutdownSweep(k)
    PROVE  EveryCallCanEnd'
<1>1. /\ shut[k] = "closed" /\ shut' = [shut EXCEPT ![k] = "swept"]
      /\ pending' = [pending EXCEPT ![k] = {}]
      /\ UNCHANGED <<pc, on, serve, held>>
  BY DEF ShutdownSweep
<1>t. shut \in [Sockets -> {"open", "closed", "swept"}] /\ pending \in [Sockets -> SUBSET Calls]
  BY DEF Types, TypeOK
<1> SUFFICES ASSUME NEW c \in Calls, pc[c] \in {"registered", "waiting"}, CanEnd(c),
                    on[c] \in Sockets
             PROVE  CanEnd(c)'
  BY <1>1 DEF EveryCallCanEnd, Types, Placed
<1>2. CASE on[c] = k
  BY <1>1, <1>2, <1>t DEF CanEnd
<1>3. CASE on[c] # k
  <2>1. shut'[on[c]] = shut[on[c]] /\ pending'[on[c]] = pending[on[c]]
    BY <1>1, <1>3, <1>t
  <2>2. chan'[c] = chan[c] \/ chan'[c] = Append(chan[c], F("fail", c, 0))
    BY DEF ShutdownSweep
  <2>3. CASE \E i \in 1 .. Len(chan[c]) : Ends(chan[c][i])
    BY <2>2, <2>3, EndStays, FrameType DEF CanEnd
  <2>4. CASE ~\E i \in 1 .. Len(chan[c]) : Ends(chan[c][i])
    BY <1>1, <2>1, <2>4 DEF CanEnd
  <2> QED BY <2>3, <2>4
<1> QED BY <1>2, <1>3

\* A caller changes only its own registration and its own channel.
LEMMA CallerCanEnd ==
    ASSUME Types, EveryCallCanEnd, NEW c \in Calls,
           \/ CallGets(c) \/ CallChecks(c) \/ CallRegisters(c) \/ CallWrites(c)
           \/ CallSeesClosed(c) \/ CallCancelled(c) \/ CallReceives(c)
           \/ c \in Streams /\ StreamLeft(c)
    PROVE  EveryCallCanEnd'
<1>t. /\ chan \in [Calls -> Seq(Frame)]
      /\ pending \in [Sockets -> SUBSET Calls]
      /\ pc \in [Calls -> {"idle", "got", "checked", "registered", "waiting", "returned"}]
      /\ on \in [Calls -> Sockets \cup {NoSocket}]
  BY DEF Types, TypeOK
<1>1. /\ UNCHANGED <<shut, serve, held>>
      /\ \A d \in Calls \ {c} :
            pc'[d] = pc[d] /\ on'[d] = on[d] /\ chan'[d] = chan[d]
      /\ \A d \in Calls \ {c}, k \in Sockets : d \in pending[k] => d \in pending'[k]
  <2>1. UNCHANGED <<shut, serve, held>>
    BY DEF CallGets, CallChecks, CallRegisters, CallWrites, CallSeesClosed, CallCancelled,
           CallReceives, StreamLeft, socketVars
  <2>2. /\ \E x \in {"got", "checked", "returned", "registered", "waiting"} :
              pc' = pc \/ pc' = [pc EXCEPT ![c] = x]
        /\ on' = on \/ on' = [on EXCEPT ![c] = current]
        /\ chan' = chan \/ chan' = [chan EXCEPT ![c] = Tail(@)]
    BY DEF CallGets, CallChecks, CallRegisters, CallWrites, CallSeesClosed, CallCancelled,
           CallReceives, StreamLeft, Return
  <2>3. \/ pending' = pending
        \/ pending' = [pending EXCEPT ![on[c]] = @ \ {c}]
        \/ pending' = [pending EXCEPT ![on[c]] = @ \cup {c}]
    BY DEF CallGets, CallChecks, CallRegisters, CallWrites, CallSeesClosed, CallCancelled,
           CallReceives, StreamLeft, Return, socketVars
  <2>4. \A d \in Calls \ {c}, k \in Sockets : d \in pending[k] => d \in pending'[k]
    BY <1>t, <2>3
  <2>5. \A d \in Calls \ {c} : pc'[d] = pc[d] /\ on'[d] = on[d] /\ chan'[d] = chan[d]
    BY <1>t, <2>2
  <2> QED BY <2>1, <2>4, <2>5
<1>2. ASSUME NEW d \in Calls, d # c, pc'[d] \in {"registered", "waiting"}
      PROVE  CanEnd(d)'
  <2>1. CanEnd(d) /\ on[d] \in Sockets
    BY <1>1, <1>2 DEF EveryCallCanEnd, Types, Placed
  <2>2. on'[d] = on[d] /\ chan'[d] = chan[d] /\ (d \in pending[on[d]] => d \in pending'[on[d]])
    BY <1>1, <1>2, <2>1
  <2> QED BY <1>1, <2>1, <2>2 DEF CanEnd
<1>3. ASSUME pc'[c] \in {"registered", "waiting"}
      PROVE  CanEnd(c)'
  <2>1. CASE CallRegisters(c)
    <3>1. pending' = [pending EXCEPT ![on[c]] = @ \cup {c}] /\ on' = on /\ on[c] \in Sockets
      BY <2>1 DEF CallRegisters, Types, Placed
    <3>2. c \in pending'[on'[c]]
      BY <1>t, <3>1
    <3> QED BY <3>2 DEF CanEnd
  <2>2. CASE CallWrites(c)
    <3>1. pc[c] = "registered" /\ UNCHANGED <<on, chan, pending>>
      BY <1>3, <1>t, <2>2 DEF CallWrites, Return
    <3> QED BY <1>1, <3>1 DEF CanEnd, EveryCallCanEnd
  <2>3. CASE CallReceives(c)
    <3>1. pc[c] = "waiting" /\ chan[c] # <<>> /\ chan' = [chan EXCEPT ![c] = Tail(@)]
          /\ UNCHANGED <<on, pending>> /\ ~Ends(Head(chan[c]))
      BY <1>3, <1>t, <2>3 DEF CallReceives, Return, Ends
    <3>2. CanEnd(c) /\ chan'[c] = Tail(chan[c])
      BY <1>t, <3>1 DEF EveryCallCanEnd
    <3>3. CASE \E i \in 1 .. Len(chan[c]) : Ends(chan[c][i])
      BY <1>t, <3>1, <3>2, <3>3, TailKeepsEnd DEF CanEnd
    <3>4. CASE ~\E i \in 1 .. Len(chan[c]) : Ends(chan[c][i])
      BY <1>1, <3>1, <3>2, <3>4 DEF CanEnd
    <3> QED BY <3>3, <3>4
  <2>4. CASE CallGets(c) \/ CallChecks(c)
    BY <1>3, <1>t, <2>4 DEF CallGets, CallChecks
  <2>5. CASE CallSeesClosed(c) \/ CallCancelled(c) \/ StreamLeft(c)
    BY <1>3, <1>t, <2>5 DEF CallSeesClosed, CallCancelled, StreamLeft, Return
  <2> QED BY <2>1, <2>2, <2>3, <2>4, <2>5
<1> QED BY <1>2, <1>3 DEF EveryCallCanEnd

\* A step that neither touches calls nor frees a reader.
LEMMA SameCalls ==
    ASSUME EveryCallCanEnd, Types, UNCHANGED <<pc, on, chan, pending, held>>,
           \A k \in Sockets : /\ shut[k] # "open" => shut'[k] # "open"
                              /\ serve[k] = "blocked" => serve'[k] = "blocked"
    PROVE  EveryCallCanEnd'
<1> SUFFICES ASSUME NEW c \in Calls, CanEnd(c), on[c] \in Sockets
             PROVE  CanEnd(c)'
  BY DEF EveryCallCanEnd, Types, Placed
<1> QED BY DEF CanEnd

LEMMA CanEndStep == Types /\ EveryCallCanEnd /\ [Next]_vars => EveryCallCanEnd'
<1> SUFFICES ASSUME Types, EveryCallCanEnd, [Next]_vars PROVE EveryCallCanEnd'
  OBVIOUS
<1>0. serve \in [Sockets -> {"none", "accepted", "displacing", "reading", "blocked",
                             "removing", "done"}]
      /\ shut \in [Sockets -> {"open", "closed", "swept"}]
  BY DEF Types, TypeOK
<1>1. ASSUME NEW k \in Sockets, AgentDials(k) \/ Register(k) \/ Remove(k)
      PROVE  EveryCallCanEnd'
  <2>1. UNCHANGED <<pc, on, chan, pending, held, shut>>
    BY <1>1 DEF AgentDials, Register, Remove, callVars
  <2>2. serve[k] # "blocked" /\ \A j \in Sockets \ {k} : serve'[j] = serve[j]
    BY <1>0, <1>1 DEF AgentDials, Register, Remove, Types, Fresh
  <2> QED BY <2>1, <2>2, SameCalls
<1>2. ASSUME NEW k \in Sockets, DisplacePrevious(k) \/ ReaderFails(k)
      PROVE  EveryCallCanEnd'
  <2>1. UNCHANGED <<pc, on, chan, pending, held>>
    BY <1>2 DEF DisplacePrevious, ReaderFails, callVars
  <2>2. serve[k] # "blocked" /\ \A j \in Sockets \ {k} : serve'[j] = serve[j]
    BY <1>0, <1>2 DEF DisplacePrevious, ReaderFails
  <2>3. \A j \in Sockets : shut[j] # "open" => shut'[j] # "open"
    BY <1>0, <1>2 DEF DisplacePrevious, ReaderFails
  <2> QED BY <2>1, <2>2, <2>3, SameCalls
<1>3. ASSUME NEW k \in Sockets, SocketDies(k) \/ SessionEnds(k) \/ AgentReads(k)
      PROVE  EveryCallCanEnd'
  BY <1>3, SameCalls DEF SocketDies, SessionEnds, AgentReads, socketVars, callVars
<1>4. CASE SocketNext
  BY <1>1, <1>2, <1>3, <1>4, ReadsCanEnd, UnblocksCanEnd, SweepCanEnd DEF SocketNext
<1>5. CASE CallNext
  <2>1. CASE \/ \E c \in Unary : AgentAnswers(c)
             \/ \E c \in Streams : StreamStarts(c) \/ StreamSends(c) \/ StreamStops(c)
    BY <2>1, SameCalls DEF AgentAnswers, StreamStarts, StreamSends, StreamStops, socketVars,
                           callVars
  <2> QED BY <1>5, <2>1, CallerCanEnd DEF CallNext, Calls
<1>6. CASE UNCHANGED vars
  BY <1>6, SameCalls DEF vars, socketVars, callVars
<1> QED BY <1>4, <1>5, <1>6 DEF Next

\* No caller waits for an answer that can no longer come, in particular one that
\* registered after the shutdown of its Conn had swept the registrations.
THEOREM NoCallOrphaned == Spec => []NoOrphanedCall
<1>1. Init => EveryCallCanEnd
  BY DEF Init, EveryCallCanEnd
<1>2. Types /\ EveryCallCanEnd => NoOrphanedCall
  <2> SUFFICES ASSUME Types, EveryCallCanEnd, NEW c \in Calls, pc[c] = "waiting",
                      shut[on[c]] = "open", c \notin pending[on[c]], chan[c] = <<>>
               PROVE  held[on[c]] # NoFrame /\ held[on[c]].id = c
    BY DEF NoOrphanedCall
  <2>1. on[c] \in Sockets
    BY DEF Types, Placed
  <2>2. serve[on[c]] = "blocked" /\ held[on[c]].id = c
    BY DEF EveryCallCanEnd, CanEnd
  <2>3. held[on[c]] \in Frame
    BY <2>1, <2>2 DEF Types, Holding
  <2>4. NoFrame \notin Frame
    BY DEF NoFrame, Frame
  <2> QED BY <2>2, <2>3, <2>4
<1> QED BY <1>1, <1>2, CanEndStep, TypesInit, TypesStep, PTL DEF Spec

(***************************************************************************)
(* Log lines.  A line passes four stations: the socket, the hands of a       *)
(* blocked reader, the stream's channel, the caller.                         *)
(***************************************************************************)

Line(c, f) == f.type = "item" /\ f.id = c

\* The lines of c in s rise, above lo and up to hi.
Rise(c, s, lo, hi) ==
    \A i \in 1 .. Len(s) : Line(c, s[i]) =>
        /\ lo < s[i].n /\ s[i].n <= hi
        /\ \A j \in 1 .. Len(s) : i < j /\ Line(c, s[j]) => s[i].n < s[j].n

\* None between lo and hi is missing from s.
Complete(c, s, lo, hi) ==
    \A m \in Nat : lo < m /\ m <= hi => \E i \in 1 .. Len(s) : Line(c, s[i]) /\ s[i].n = m

\* What the reader of a queue of lines takes: with none missing, the next one.
LEMMA LineTail ==
    ASSUME NEW c \in Calls, NEW s \in Seq(Frame), s # <<>>, NEW lo \in Nat, NEW hi \in Nat,
           Rise(c, s, lo, hi)
    PROVE  /\ ~Line(c, Head(s)) =>
                 /\ Rise(c, Tail(s), lo, hi)
                 /\ Complete(c, s, lo, hi) => Complete(c, Tail(s), lo, hi)
           /\ Line(c, Head(s)) =>
                 /\ lo < Head(s).n /\ Head(s).n <= hi /\ Head(s).n \in Nat
                 /\ Rise(c, Tail(s), Head(s).n, hi)
                 /\ Complete(c, s, lo, hi) => Head(s).n = lo + 1 /\ Complete(c, Tail(s), lo + 1, hi)
<1>1. /\ Len(s) \in Nat /\ Len(s) > 0 /\ Len(Tail(s)) = Len(s) - 1 /\ Head(s) = s[1]
      /\ \A i \in 1 .. Len(Tail(s)) : Tail(s)[i] = s[i + 1] /\ i + 1 \in 1 .. Len(s)
      /\ \A i \in 2 .. Len(s) : i - 1 \in 1 .. Len(Tail(s)) /\ Tail(s)[i - 1] = s[i]
  OBVIOUS
<1>2. \A i \in 1 .. Len(s) : s[i] \in Frame /\ s[i].n \in Nat
  <2>1. \A f \in Frame : f.n \in Nat
    BY DEF Frame
  <2> QED BY <2>1
<1>3. ASSUME ~Line(c, Head(s)) PROVE Rise(c, Tail(s), lo, hi)
  BY <1>1 DEF Rise
<1>4. ASSUME ~Line(c, Head(s)), Complete(c, s, lo, hi) PROVE Complete(c, Tail(s), lo, hi)
  <2> SUFFICES ASSUME NEW m \in Nat, lo < m, m <= hi
               PROVE  \E i \in 1 .. Len(Tail(s)) : Line(c, Tail(s)[i]) /\ Tail(s)[i].n = m
    BY DEF Complete
  <2>1. PICK i \in 1 .. Len(s) : Line(c, s[i]) /\ s[i].n = m
    BY <1>4 DEF Complete
  <2>2. i \in 2 .. Len(s)
    BY <1>1, <1>4, <2>1
  <2> QED BY <1>1, <2>1, <2>2
<1>5. ASSUME Line(c, Head(s))
      PROVE  /\ lo < Head(s).n /\ Head(s).n <= hi /\ Head(s).n \in Nat
             /\ Rise(c, Tail(s), Head(s).n, hi)
             /\ \A i \in 2 .. Len(s) : Line(c, s[i]) => Head(s).n < s[i].n
  <2>1. 1 \in 1 .. Len(s)
    BY <1>1
  <2>2. /\ lo < s[1].n /\ s[1].n <= hi /\ s[1].n \in Nat
        /\ \A i \in 1 .. Len(s) : 1 < i /\ Line(c, s[i]) => s[1].n < s[i].n
    BY <1>1, <1>2, <1>5, <2>1 DEF Rise
  <2>3. Rise(c, Tail(s), s[1].n, hi)
    <3> SUFFICES ASSUME NEW i \in 1 .. Len(Tail(s)), Line(c, Tail(s)[i])
                 PROVE  /\ s[1].n < Tail(s)[i].n /\ Tail(s)[i].n <= hi
                        /\ \A j \in 1 .. Len(Tail(s)) : i < j /\ Line(c, Tail(s)[j]) => Tail(s)[i].n < Tail(s)[j].n
      BY DEF Rise
    <3>1. Tail(s)[i] = s[i + 1] /\ i + 1 \in 1 .. Len(s) /\ 1 < i + 1
      BY <1>1
    <3>2. s[1].n < s[i + 1].n /\ s[i + 1].n <= hi
      BY <2>2, <3>1 DEF Rise
    <3>3. \A j \in 1 .. Len(Tail(s)) : i < j /\ Line(c, Tail(s)[j]) => Tail(s)[i].n < Tail(s)[j].n
      BY <1>1, <3>1 DEF Rise
    <3> QED BY <3>1, <3>2, <3>3
  <2> QED BY <1>1, <2>2, <2>3
<1>6. ASSUME Line(c, Head(s)), Complete(c, s, lo, hi)
      PROVE  Head(s).n = lo + 1 /\ Complete(c, Tail(s), lo + 1, hi)
  <2>1. PICK i \in 1 .. Len(s) : Line(c, s[i]) /\ s[i].n = lo + 1
    BY <1>5, <1>6 DEF Complete
  <2>2. i = 1
    BY <1>1, <1>2, <1>5, <1>6, <2>1
  <2>3. Head(s).n = lo + 1
    BY <1>1, <2>1, <2>2
  <2>4. ASSUME NEW m \in Nat, lo + 1 < m, m <= hi
        PROVE  \E j \in 1 .. Len(Tail(s)) : Line(c, Tail(s)[j]) /\ Tail(s)[j].n = m
    <3>1. PICK j \in 1 .. Len(s) : Line(c, s[j]) /\ s[j].n = m
      BY <1>6, <2>4 DEF Complete
    <3>2. j \in 2 .. Len(s)
      BY <1>1, <2>3, <2>4, <3>1
    <3> QED BY <1>1, <3>1, <3>2
  <2> QED BY <2>3, <2>4 DEF Complete
<1> QED BY <1>3, <1>4, <1>5, <1>6

\* A frame added to a queue of lines: another's, or a line above all of them.
LEMMA LineAppend ==
    ASSUME NEW c \in Calls, NEW s \in Seq(Frame), NEW f \in Frame, NEW lo \in Nat, NEW hi \in Nat,
           Rise(c, s, lo, hi)
    PROVE  /\ ~Line(c, f) =>
                 /\ Rise(c, Append(s, f), lo, hi)
                 /\ Complete(c, s, lo, hi) => Complete(c, Append(s, f), lo, hi)
           /\ Line(c, f) /\ lo < f.n /\ hi < f.n => Rise(c, Append(s, f), lo, f.n)
           /\ Line(c, f) /\ f.n = hi + 1 /\ Complete(c, s, lo, hi) => Complete(c, Append(s, f), lo, hi + 1)
<1> DEFINE t == Append(s, f)
<1>1. /\ Len(s) \in Nat /\ Len(t) = Len(s) + 1 /\ t[Len(s) + 1] = f
      /\ \A i \in 1 .. Len(s) : t[i] = s[i] /\ i \in 1 .. Len(t)
      /\ \A i \in 1 .. Len(t) : i \in 1 .. Len(s) \/ i = Len(s) + 1
      /\ Len(s) + 1 \in 1 .. Len(t)
  OBVIOUS
<1>2. /\ \A i \in 1 .. Len(s) : s[i] \in Frame /\ s[i].n \in Nat
      /\ f.n \in Nat
  <2>1. \A g \in Frame : g.n \in Nat
    BY DEF Frame
  <2> QED BY <2>1
<1> HIDE DEF t
<1>3. ASSUME ~Line(c, f) PROVE Rise(c, t, lo, hi)
  BY <1>1, <1>3 DEF Rise
<1>4. ASSUME NEW m \in Nat, \E i \in 1 .. Len(s) : Line(c, s[i]) /\ s[i].n = m
      PROVE  \E i \in 1 .. Len(t) : Line(c, t[i]) /\ t[i].n = m
  BY <1>1, <1>4
<1>5. ASSUME Line(c, f), lo < f.n, hi < f.n PROVE Rise(c, t, lo, f.n)
  <2> SUFFICES ASSUME NEW i \in 1 .. Len(t), Line(c, t[i])
               PROVE  /\ lo < t[i].n /\ t[i].n <= f.n
                      /\ \A j \in 1 .. Len(t) : i < j /\ Line(c, t[j]) => t[i].n < t[j].n
    BY DEF Rise
  <2>1. CASE i = Len(s) + 1
    BY <1>1, <1>2, <1>5, <2>1
  <2>2. CASE i \in 1 .. Len(s)
    <3>1. t[i] = s[i] /\ lo < s[i].n /\ s[i].n <= hi /\ s[i].n \in Nat
      BY <1>1, <1>2, <2>2 DEF Rise
    <3>2. ASSUME NEW j \in 1 .. Len(t), i < j, Line(c, t[j]) PROVE t[i].n < t[j].n
      <4>1. CASE j = Len(s) + 1
        BY <1>1, <1>2, <1>5, <3>1, <4>1
      <4>2. CASE j \in 1 .. Len(s)
        BY <1>1, <2>2, <3>1, <3>2, <4>2 DEF Rise
      <4> QED BY <1>1, <4>1, <4>2
    <3> QED BY <1>2, <1>5, <3>1, <3>2
  <2> QED BY <1>1, <2>1, <2>2
<1>6. ASSUME Line(c, f), f.n = hi + 1, Complete(c, s, lo, hi), NEW m \in Nat, lo < m, m <= hi + 1
      PROVE  \E i \in 1 .. Len(t) : Line(c, t[i]) /\ t[i].n = m
  <2>1. CASE m = hi + 1
    BY <1>1, <1>6, <2>1
  <2>2. CASE m <= hi
    BY <1>4, <1>6, <2>2 DEF Complete
  <2> QED BY <1>6, <2>1, <2>2
<1>7. Complete(c, s, lo, hi) /\ ~Line(c, f) => Complete(c, t, lo, hi)
  BY <1>4 DEF Complete
<1>8. Line(c, f) /\ f.n = hi + 1 /\ Complete(c, s, lo, hi) => Complete(c, t, lo, hi + 1)
  BY <1>6 DEF Complete
<1> QED BY <1>3, <1>5, <1>7, <1>8 DEF t

\* The reader of a call's socket holds a frame of the call.
Blocks(c) == serve[on[c]] = "blocked" /\ held[on[c]].id = c

\* How many lines are past the socket.
Reach(c) == Len(recvd[c]) + Len(chan[c]) + (IF Blocks(c) THEN 1 ELSE 0)

\* The stations hold lines of rising numbers, with cuts r, b and h between them.
Ordered(c) ==
    \E r, b, h \in Nat :
        /\ r <= b /\ b <= h /\ h <= sent[c]
        /\ \A i \in 1 .. Len(recvd[c]) :
               /\ recvd[c][i] <= r
               /\ \A j \in 1 .. Len(recvd[c]) : i < j => recvd[c][i] < recvd[c][j]
        /\ Rise(c, chan[c], r, b)
        /\ Blocks(c) /\ Line(c, held[on[c]]) => b < held[on[c]].n /\ held[on[c]].n <= h
        /\ Rise(c, up[on[c]], h, sent[c])

\* While the Conn is open no line is missing; a stream that was ended is not registered any
\* more, and its end is the last frame of its channel.
Exact(c) ==
    shut[on[c]] = "open" =>
        /\ \A i \in 1 .. Len(recvd[c]) : recvd[c][i] = i
        /\ \A i \in 1 .. Len(chan[c]) :
               IF Line(c, chan[c][i]) THEN chan[c][i].n = Len(recvd[c]) + i
               ELSE i = Len(chan[c]) /\ c \notin pending[on[c]] /\ ~Blocks(c)
        /\ Blocks(c) =>
               IF Line(c, held[on[c]]) THEN held[on[c]].n = Len(recvd[c]) + Len(chan[c]) + 1
               ELSE c \notin pending[on[c]]
        /\ c \in pending[on[c]] =>
               /\ Reach(c) <= sent[c]
               /\ Rise(c, up[on[c]], Reach(c), sent[c])
               /\ Complete(c, up[on[c]], Reach(c), sent[c])

NoneOf(c, s) == \A i \in 1 .. Len(s) : s[i].id # c

\* Nothing is sent for a call whose request has not been written.
Unsent ==
    \A c \in Calls : pc[c] \in {"idle", "got", "checked", "registered"} =>
        /\ handler[c] = "none" /\ sent[c] = 0
        /\ \A k \in Sockets : NoneOf(c, down[k]) /\ NoneOf(c, up[k])

Early == {"idle", "got", "checked"}
Untouched == \A c \in Calls : pc[c] \in Early => chan[c] = <<>> /\ recvd[c] = <<>>

\* A call is known to one Conn only.
Mine ==
    \A k \in Sockets :
        /\ \A c \in pending[k] : on[c] = k /\ pc[c] \notin Early
        /\ serve[k] = "blocked" => on[held[k].id] = k /\ pc[held[k].id] \notin Early

Addressed ==
    /\ \A c \in Calls, i \in Nat : i \in 1 .. Len(chan[c]) => chan[c][i].id = c
    /\ \A k \in Sockets, i \in Nat : i \in 1 .. Len(up[k]) => up[k][i].type \in {"resp", "item", "eof"}

Shape == Unsent /\ Untouched /\ Mine /\ Addressed

StreamsInOrder == \A c \in Streams : pc[c] # "idle" => Ordered(c) /\ Exact(c)

\* A queue without a call's frames stays so when its head goes,
LEMMA NoneTail ==
    ASSUME NEW c \in Calls, NEW s \in Seq(Frame), s # <<>>, NoneOf(c, s)
    PROVE  NoneOf(c, Tail(s)) /\ Head(s).id # c
<1>1. /\ Len(s) \in Nat /\ 1 \in 1 .. Len(s) /\ Head(s) = s[1]
      /\ \A i \in 1 .. Len(Tail(s)) : Tail(s)[i] = s[i + 1] /\ i + 1 \in 1 .. Len(s)
  OBVIOUS
<1> QED BY <1>1 DEF NoneOf

\* and when another call's frame is added.
LEMMA NoneAppend ==
    ASSUME NEW c \in Calls, NEW s \in Seq(Frame), NEW f \in Frame, NoneOf(c, s), f.id # c
    PROVE  NoneOf(c, Append(s, f))
<1>1. /\ \A i \in 1 .. Len(s) : Append(s, f)[i] = s[i]
      /\ Append(s, f)[Len(s) + 1] = f
      /\ \A i \in 1 .. Len(Append(s, f)) : i \in 1 .. Len(s) \/ i = Len(s) + 1
  OBVIOUS
<1> QED BY <1>1 DEF NoneOf

\* What a stream has reached depends on its own stations.
LEMMA SameReach ==
    ASSUME NEW c, recvd'[c] = recvd[c], chan'[c] = chan[c], Blocks(c)' <=> Blocks(c),
           recvd[c] \in Seq(Nat), chan[c] \in Seq(Frame)
    PROVE  Reach(c)' = Reach(c) /\ Reach(c) \in Nat
<1>1. Len(recvd[c])' = Len(recvd[c]) /\ Len(chan[c])' = Len(chan[c])
  OBVIOUS
<1>2. PICK a \in Nat, b \in Nat : a = Len(recvd[c]) /\ b = Len(chan[c])
  OBVIOUS
<1>3. CASE Blocks(c)
  <2>1. Reach(c)' = a + b + 1 /\ Reach(c) = a + b + 1
    BY <1>1, <1>2, <1>3 DEF Reach
  <2> QED BY <2>1
<1>4. CASE ~Blocks(c)
  <2>1. Reach(c)' = a + b + 0 /\ Reach(c) = a + b + 0
    BY <1>1, <1>2, <1>4 DEF Reach
  <2> QED BY <2>1
<1> QED BY <1>3, <1>4

\* A stream that a step leaves alone: what moved on its socket is no line of it.
LEMMA SameStream ==
    ASSUME Types, NEW c \in Streams, Ordered(c), Exact(c),
           on'[c] = on[c], on[c] \in Sockets, recvd'[c] = recvd[c], chan'[c] = chan[c], sent'[c] = sent[c],
           Blocks(c)' <=> Blocks(c), Blocks(c) => held'[on[c]] = held[on[c]],
           \/ up'[on[c]] = up[on[c]]
           \/ up[on[c]] # <<>> /\ ~Line(c, Head(up[on[c]])) /\ up'[on[c]] = Tail(up[on[c]])
           \/ \E f \in Frame : ~Line(c, f) /\ up'[on[c]] = Append(up[on[c]], f),
           c \in pending'[on[c]] => c \in pending[on[c]],
           shut'[on[c]] = "open" => shut[on[c]] = "open"
    PROVE  Ordered(c)' /\ Exact(c)'
<1>0. c \in Calls /\ up[on[c]] \in Seq(Frame) /\ sent[c] \in Nat /\ recvd[c] \in Seq(Nat) /\ chan[c] \in Seq(Frame)
  BY DEF Types, TypeOK, Calls
<1>1. \A lo \in Nat : Rise(c, up[on[c]], lo, sent[c]) =>
          /\ Rise(c, up'[on[c]], lo, sent[c])
          /\ Complete(c, up[on[c]], lo, sent[c]) => Complete(c, up'[on[c]], lo, sent[c])
  <2> SUFFICES ASSUME NEW lo \in Nat, Rise(c, up[on[c]], lo, sent[c])
               PROVE  /\ Rise(c, up'[on[c]], lo, sent[c])
                      /\ Complete(c, up[on[c]], lo, sent[c]) => Complete(c, up'[on[c]], lo, sent[c])
    OBVIOUS
  <2>1. CASE up'[on[c]] = up[on[c]]
    BY <2>1
  <2>2. CASE up[on[c]] # <<>> /\ ~Line(c, Head(up[on[c]])) /\ up'[on[c]] = Tail(up[on[c]])
    BY <1>0, <2>2, LineTail
  <2>3. CASE \E f \in Frame : ~Line(c, f) /\ up'[on[c]] = Append(up[on[c]], f)
    BY <1>0, <2>3, LineAppend
  <2> QED BY <2>1, <2>2, <2>3
<1>2. Ordered(c)'
  <2>1. PICK r \in Nat, b \in Nat, h \in Nat :
        /\ r <= b /\ b <= h /\ h <= sent[c]
        /\ \A i \in 1 .. Len(recvd[c]) :
               /\ recvd[c][i] <= r
               /\ \A j \in 1 .. Len(recvd[c]) : i < j => recvd[c][i] < recvd[c][j]
        /\ Rise(c, chan[c], r, b)
        /\ Blocks(c) /\ Line(c, held[on[c]]) => b < held[on[c]].n /\ held[on[c]].n <= h
        /\ Rise(c, up[on[c]], h, sent[c])
    BY DEF Ordered
  <2>2. Rise(c, up'[on[c]], h, sent[c])
    BY <1>1, <2>1
  <2>3. Blocks(c)' /\ Line(c, held'[on[c]]) => b < held'[on[c]].n /\ held'[on[c]].n <= h
    BY <2>1
  <2> QED BY <2>1, <2>2, <2>3 DEF Ordered
<1>3. Exact(c)'
  <2>0. CASE (shut[on[c]])' # "open"
    BY <2>0 DEF Exact
  <2> SUFFICES ASSUME (shut[on[c]])' = "open"
               PROVE  Exact(c)'
    BY <2>0
  <2>1. Reach(c)' = Reach(c) /\ Reach(c) \in Nat
    BY <1>0, SameReach
  <2>2. c \in pending'[on[c]] =>
               /\ Reach(c) <= sent[c]
               /\ Rise(c, up'[on[c]], Reach(c), sent[c])
               /\ Complete(c, up'[on[c]], Reach(c), sent[c])
    BY <1>1, <2>1 DEF Exact
  <2>3. /\ \A i \in 1 .. Len(recvd'[c]) : recvd'[c][i] = i
        /\ \A i \in 1 .. Len(chan'[c]) :
               IF Line(c, chan'[c][i]) THEN chan'[c][i].n = Len(recvd'[c]) + i
               ELSE i = Len(chan'[c]) /\ c \notin pending'[on[c]] /\ ~Blocks(c)'
        /\ Blocks(c)' =>
               IF Line(c, held'[on[c]]) THEN held'[on[c]].n = Len(recvd'[c]) + Len(chan'[c]) + 1
               ELSE c \notin pending'[on[c]]
    BY DEF Exact
  <2> QED BY <2>1, <2>2, <2>3 DEF Exact
<1> QED BY <1>2, <1>3

\* Calls that have not begun stay as they were: callers move forward, and frames, answers
\* and lines are those of others.
LEMMA UnsentStep == Types /\ Shape /\ [Next]_vars => Unsent'
<1> SUFFICES ASSUME Types, Shape, [Next]_vars, NEW c \in Calls,
                    pc'[c] \in {"idle", "got", "checked", "registered"}
             PROVE  /\ handler'[c] = "none" /\ sent'[c] = 0
                    /\ \A k \in Sockets : NoneOf(c, down'[k]) /\ NoneOf(c, up'[k])
  BY DEF Unsent
<1>0. /\ pc \in [Calls -> {"idle", "got", "checked", "registered", "waiting", "returned"}]
      /\ handler \in [Calls -> {"none", "spawned", "running", "cancelled", "done"}]
      /\ sent \in [Calls -> Nat]
      /\ down \in [Sockets -> Seq(Frame)] /\ up \in [Sockets -> Seq(Frame)]
  BY DEF Types, TypeOK
<1>1. pc[c] \in {"idle", "got", "checked", "registered"}
  <2>1. pc' = pc \/ \E d \in Calls, x \in {"got", "checked", "registered", "waiting", "returned"} :
            /\ pc' = [pc EXCEPT ![d] = x]
            /\ x \in {"got", "checked", "registered"} => pc[d] \in {"idle", "got", "checked", "registered"}
    <3>1. CASE SocketNext
      BY <3>1 DEF SocketNext, AgentDials, SocketDies, SessionEnds, Register, DisplacePrevious, ShutdownSweep,
         ReaderFails, Remove, ReaderReads, ReaderUnblocks, AgentReads, callVars
    <3>2. CASE CallNext
      BY <3>2 DEF CallNext, CallGets, CallChecks, CallRegisters, CallWrites, CallSeesClosed, CallCancelled,
         CallReceives, AgentAnswers, StreamLeft, StreamStarts, StreamSends, StreamStops, Return, callVars, Calls
    <3>3. CASE UNCHANGED vars
      BY <3>3 DEF vars, callVars
    <3> QED BY <3>1, <3>2, <3>3 DEF Next
  <2> QED BY <1>0, <2>1
<1>2. /\ handler[c] = "none" /\ sent[c] = 0
      /\ \A k \in Sockets : NoneOf(c, down[k]) /\ NoneOf(c, up[k])
  BY <1>1 DEF Shape, Unsent
<1>3. ASSUME NEW k \in Sockets, up[k] # <<>>, up' = [up EXCEPT ![k] = Tail(@)], UNCHANGED <<down, handler, sent>>
      PROVE  /\ handler'[c] = "none" /\ sent'[c] = 0
             /\ \A j \in Sockets : NoneOf(c, down'[j]) /\ NoneOf(c, up'[j])
  BY <1>0, <1>2, <1>3, NoneTail
<1>4. CASE SocketNext
  <2>1. ASSUME NEW k \in Sockets, AgentReads(k)
        PROVE  /\ handler'[c] = "none" /\ sent'[c] = 0
               /\ \A j \in Sockets : NoneOf(c, down'[j]) /\ NoneOf(c, up'[j])
    <3>1. down[k] # <<>> /\ down' = [down EXCEPT ![k] = Tail(@)] /\ UNCHANGED <<up, sent>>
      BY <2>1 DEF AgentReads
    <3>2. NoneOf(c, Tail(down[k])) /\ Head(down[k]).id # c
      BY <1>0, <1>2, <3>1, NoneTail
    <3>3. handler'[c] = handler[c]
      BY <1>0, <2>1, <3>2 DEF AgentReads
    <3> QED BY <1>0, <1>2, <3>1, <3>2, <3>3
  <2>2. ASSUME NEW k \in Sockets, ReaderReads(k)
        PROVE  /\ handler'[c] = "none" /\ sent'[c] = 0
               /\ \A j \in Sockets : NoneOf(c, down'[j]) /\ NoneOf(c, up'[j])
    BY <1>3, <2>2 DEF ReaderReads, agentVars
  <2>3. ASSUME NEW k \in Sockets, SessionEnds(k)
        PROVE  handler'[c] = handler[c] /\ UNCHANGED <<up, down, sent>>
    BY <1>0, <1>2, <2>3 DEF SessionEnds
  <2>4. ASSUME NEW k \in Sockets, \/ AgentDials(k) \/ SocketDies(k) \/ Register(k) \/ DisplacePrevious(k)
                                  \/ ShutdownSweep(k) \/ ReaderFails(k) \/ Remove(k) \/ ReaderUnblocks(k)
        PROVE  UNCHANGED <<up, down, sent, handler>>
    BY <2>4 DEF AgentDials, SocketDies, Register, DisplacePrevious, ShutdownSweep, ReaderFails, Remove,
                ReaderUnblocks, agentVars
  <2> QED BY <1>2, <1>4, <2>1, <2>2, <2>3, <2>4 DEF SocketNext
<1>5. CASE CallNext
  <2>1. ASSUME NEW d \in Calls, NEW type \in {"req", "cancel"}, d # c, UNCHANGED <<up, handler, sent>>,
               \/ down' = down
               \/ down' = [down EXCEPT ![on[d]] = Append(@, F(type, d, 0))]
        PROVE  /\ handler'[c] = "none" /\ sent'[c] = 0
               /\ \A j \in Sockets : NoneOf(c, down'[j]) /\ NoneOf(c, up'[j])
    <3>1. F(type, d, 0) \in Frame /\ F(type, d, 0).id # c
      BY <2>1, FrameType
    <3>2. \A j \in Sockets : NoneOf(c, Append(down[j], F(type, d, 0)))
      BY <1>0, <1>2, <3>1, NoneAppend
    <3>3. \A j \in Sockets : down'[j] = down[j] \/ down'[j] = Append(down[j], F(type, d, 0))
      <4>1. PICK f : f = F(type, d, 0)
        OBVIOUS
      <4>2. down' = down \/ down' = [down EXCEPT ![on[d]] = Append(@, f)]
        BY <2>1, <4>1
      <4> QED BY <1>0, <4>1, <4>2
    <3>4. UNCHANGED <<up, handler, sent>>
      BY <2>1
    <3> QED BY <1>2, <3>2, <3>3, <3>4
  <2>2. ASSUME NEW d \in Calls, NEW type \in {"resp", "item", "eof"}, NEW n \in Nat, d # c, down' = down,
               AgentWrites(d, type, n), handler'[c] = handler[c], sent'[c] = sent[c]
        PROVE  /\ handler'[c] = "none" /\ sent'[c] = 0
               /\ \A j \in Sockets : NoneOf(c, down'[j]) /\ NoneOf(c, up'[j])
    <3>1. F(type, d, n) \in Frame /\ F(type, d, n).id # c
      BY <2>2, FrameType
    <3>2. \A j \in Sockets : NoneOf(c, Append(up[j], F(type, d, n)))
      BY <1>0, <1>2, <3>1, NoneAppend
    <3>3. up' = up \/ up' = [up EXCEPT ![on[d]] = Append(@, F(type, d, n))]
      BY <1>0, <2>2 DEF AgentWrites
    <3> QED BY <1>0, <1>2, <2>2, <3>2, <3>3
  <2>3. ASSUME NEW d \in Calls, CallWrites(d)
        PROVE  /\ handler'[c] = "none" /\ sent'[c] = 0
               /\ \A j \in Sockets : NoneOf(c, down'[j]) /\ NoneOf(c, up'[j])
    <3>1. pc[d] = "registered" /\ pc'[d] \in {"waiting", "returned"} /\ UNCHANGED <<up, handler, sent>>
      BY <1>0, <2>3 DEF CallWrites, Return, agentVars
    <3>2. \/ down' = down
          \/ down' = [down EXCEPT ![on[d]] = Append(@, F("req", d, 0))]
      BY <1>0, <2>3 DEF CallWrites
    <3> QED BY <2>1, <3>1, <3>2
  <2>4. ASSUME NEW d \in Calls, CallCancelled(d)
        PROVE  /\ handler'[c] = "none" /\ sent'[c] = 0
               /\ \A j \in Sockets : NoneOf(c, down'[j]) /\ NoneOf(c, up'[j])
    <3>1. pc[d] = "waiting" /\ UNCHANGED <<up, handler, sent>>
      BY <2>4 DEF CallCancelled, agentVars
    <3>2. \/ down' = down
          \/ down' = [down EXCEPT ![on[d]] = Append(@, F("cancel", d, 0))]
      BY <1>0, <2>4 DEF CallCancelled, SendCancel
    <3> QED BY <1>1, <2>1, <3>1, <3>2
  <2>5. ASSUME NEW d \in Calls, \/ CallGets(d) \/ CallChecks(d) \/ CallRegisters(d) \/ CallSeesClosed(d)
                                \/ CallReceives(d) \/ StreamLeft(d)
        PROVE  UNCHANGED <<up, down, sent, handler>>
    BY <2>5 DEF CallGets, CallChecks, CallRegisters, CallSeesClosed, CallReceives, StreamLeft, agentVars
  <2>6. ASSUME NEW d \in Unary, AgentAnswers(d)
        PROVE  /\ handler'[c] = "none" /\ sent'[c] = 0
               /\ \A j \in Sockets : NoneOf(c, down'[j]) /\ NoneOf(c, up'[j])
    <3>1. d \in Calls /\ handler[d] # "none" /\ handler' = [handler EXCEPT ![d] = "done"]
      BY <2>6 DEF AgentAnswers, Calls
    <3>2. d # c /\ AgentWrites(d, "resp", 0) /\ UNCHANGED <<down, sent>>
      BY <1>2, <2>6, <3>1 DEF AgentAnswers
    <3> QED BY <1>0, <2>2, <3>1, <3>2
  <2>7. ASSUME NEW d \in Streams, StreamStarts(d) \/ StreamSends(d) \/ StreamStops(d)
        PROVE  /\ handler'[c] = "none" /\ sent'[c] = 0
               /\ \A j \in Sockets : NoneOf(c, down'[j]) /\ NoneOf(c, up'[j])
    <3>1. d \in Calls /\ handler[d] # "none" /\ down' = down
      BY <2>7 DEF StreamStarts, StreamSends, StreamStops, Calls
    <3>2. d # c
      BY <1>2, <3>1
    <3>3. handler'[c] = handler[c] /\ sent'[c] = sent[c]
      BY <1>0, <2>7, <3>1, <3>2 DEF StreamStarts, StreamSends, StreamStops
    <3>4. \/ up' = up
          \/ AgentWrites(d, "eof", 0)
          \/ AgentWrites(d, "item", sent[d] + 1) /\ sent[d] + 1 \in Nat
      BY <1>0, <2>7, <3>1 DEF StreamStarts, StreamSends, StreamStops
    <3> QED BY <1>2, <2>2, <3>1, <3>2, <3>3, <3>4
  <2> QED BY <1>2, <1>5, <2>3, <2>4, <2>5, <2>6, <2>7 DEF CallNext, Calls
<1>6. CASE UNCHANGED vars
  BY <1>2, <1>6 DEF vars, agentVars
<1> QED BY <1>4, <1>5, <1>6 DEF Next

\* A buffer of one call's frames takes another frame of that call.
LEMMA AppendAddressed ==
    ASSUME NEW c \in Calls, NEW s \in Seq(Frame), NEW f \in Frame, f.id = c,
           \A i \in Nat : i \in 1 .. Len(s) => s[i].id = c
    PROVE  \A i \in Nat : i \in 1 .. Len(Append(s, f)) => Append(s, f)[i].id = c
<1>1. /\ \A i \in 1 .. Len(s) : i \in Nat /\ Append(s, f)[i] = s[i]
      /\ Append(s, f)[Len(s) + 1] = f
      /\ \A i \in 1 .. Len(Append(s, f)) : i \in 1 .. Len(s) \/ i = Len(s) + 1
  OBVIOUS
<1> QED BY <1>1

\* Returning and answering only unregister.
LEMMA PendingLess ==
    ASSUME pending \in [Sockets -> SUBSET Calls], NEW k, NEW c,
           \/ pending' = pending
           \/ pending' = [pending EXCEPT ![k] = @ \ {c}]
    PROVE  \A j \in Sockets : pending'[j] \subseteq pending[j]
<1>1. CASE pending' = pending
  BY <1>1
<1>2. CASE pending' = [pending EXCEPT ![k] = @ \ {c}]
  <2> SUFFICES ASSUME NEW j \in Sockets PROVE pending'[j] \subseteq pending[j]
    OBVIOUS
  <2>1. pending'[j] = IF j = k THEN pending[j] \ {c} ELSE pending[j]
    BY <1>2
  <2> QED BY <2>1
<1> QED BY <1>1, <1>2

\* Only Conns and callers past their checks know a call.
LEMMA MineStep == Types /\ Shape /\ [Next]_vars => Mine' /\ Untouched' /\ Addressed'
<1> SUFFICES ASSUME Types, Shape, [Next]_vars PROVE Mine' /\ Untouched' /\ Addressed'
  OBVIOUS
<1>0. /\ pc \in [Calls -> {"idle", "got", "checked", "registered", "waiting", "returned"}]
      /\ on \in [Calls -> Sockets \cup {NoSocket}]
      /\ chan \in [Calls -> Seq(Frame)] /\ recvd \in [Calls -> Seq(Nat)]
      /\ up \in [Sockets -> Seq(Frame)] /\ pending \in [Sockets -> SUBSET Calls]
      /\ serve \in [Sockets -> {"none", "accepted", "displacing", "reading", "blocked", "removing", "done"}]
      /\ held \in [Sockets -> Frame \cup {NoFrame}]
      /\ \A k \in Sockets : serve[k] = "blocked" => held[k] \in Frame /\ held[k].id \in Calls
      /\ \A c \in Calls : pc[c] # "idle" => on[c] \in Sockets
      /\ Mine /\ Untouched /\ Addressed
  BY DEF Types, TypeOK, Shape, Holding, Placed, Calls
\* Nothing is delivered, registered or put on a socket's way to the Panel.
<1>1. ASSUME UNCHANGED <<up, recvd, held>>,
             \A c \in Calls : chan'[c] = chan[c],
             \A c \in Calls : /\ pc[c] \notin Early => pc'[c] \notin Early /\ on'[c] = on[c]
                              /\ pc[c] = "idle" \/ on'[c] = on[c],
             \A k \in Sockets : /\ pending'[k] \subseteq pending[k]
                                /\ serve'[k] = "blocked" => serve[k] = "blocked"
      PROVE  Mine' /\ Untouched' /\ Addressed'
  <2>1. Mine'
    BY <1>0, <1>1 DEF Mine
  <2>2. Untouched'
    <3>1. \A c \in Calls : pc'[c] \in Early => pc[c] \in Early
      BY <1>1
    <3> QED BY <1>0, <1>1, <3>1 DEF Untouched
  <2>3. Addressed'
    BY <1>0, <1>1 DEF Addressed
  <2> QED BY <2>1, <2>2, <2>3
<1>2. CASE SocketNext
  <2>1. ASSUME NEW k \in Sockets, \/ AgentDials(k) \/ SocketDies(k) \/ SessionEnds(k) \/ Register(k)
                                  \/ DisplacePrevious(k) \/ ReaderFails(k) \/ Remove(k) \/ AgentReads(k)
        PROVE  Mine' /\ Untouched' /\ Addressed'
    <3>1. UNCHANGED <<up, recvd, held, chan, pc, on, pending>>
      BY <2>1 DEF AgentDials, SocketDies, SessionEnds, Register, DisplacePrevious, ReaderFails, Remove, AgentReads,
                  callVars, socketVars
    <3>2. serve' = serve \/ \E x \in {"accepted", "displacing", "reading", "removing", "done"} : serve' = [serve EXCEPT ![k] = x]
      BY <2>1 DEF AgentDials, SocketDies, SessionEnds, Register, DisplacePrevious, ReaderFails, Remove, AgentReads, socketVars
    <3>3. \A j \in Sockets : serve'[j] = "blocked" => serve[j] = "blocked"
      BY <1>0, <3>2
    <3> QED BY <1>1, <3>1, <3>3
  <2>2. ASSUME NEW k \in Sockets, ShutdownSweep(k)
        PROVE  Mine' /\ Untouched' /\ Addressed'
    <3>1. UNCHANGED <<up, recvd, held, pc, on, serve>> /\ pending' = [pending EXCEPT ![k] = {}]
      BY <2>2 DEF ShutdownSweep
    <3>2. \A c \in Calls : \/ chan'[c] = chan[c]
                           \/ chan'[c] = Append(chan[c], F("fail", c, 0)) /\ c \in pending[k]
      <4> SUFFICES ASSUME NEW c \in Calls
                   PROVE  \/ chan'[c] = chan[c]
                          \/ chan'[c] = Append(chan[c], F("fail", c, 0)) /\ c \in pending[k]
        OBVIOUS
      <4>1. chan'[c] = IF c \in pending[k] /\ Len(chan[c]) < Depth(c)
                       THEN Append(chan[c], F("fail", c, 0)) ELSE chan[c]
        BY <2>2 DEF ShutdownSweep
      <4> QED BY <4>1
    <3>3. Mine'
      BY <1>0, <3>1 DEF Mine
    <3>4. Untouched'
      BY <1>0, <3>1, <3>2 DEF Mine, Untouched
    <3>5. \A c \in Calls, i \in Nat : i \in 1 .. Len(chan'[c]) => chan'[c][i].id = c
      <4> SUFFICES ASSUME NEW c \in Calls, NEW i \in Nat, i \in 1 .. Len(chan'[c]) PROVE chan'[c][i].id = c
        OBVIOUS
      <4>1. CASE chan'[c] = chan[c]
        BY <1>0, <4>1 DEF Addressed
      <4>2. CASE chan'[c] = Append(chan[c], F("fail", c, 0))
        <5>1. F("fail", c, 0) \in Frame /\ F("fail", c, 0).id = c
          BY FrameType
        <5> QED BY <1>0, <4>2, <5>1, AppendAddressed DEF Addressed
      <4> QED BY <3>2, <4>1, <4>2
    <3> QED BY <1>0, <3>1, <3>3, <3>4, <3>5 DEF Addressed
  <2>3. ASSUME NEW k \in Sockets, ReaderReads(k)
        PROVE  Mine' /\ Untouched' /\ Addressed'
    <3>1. PICK f : f = Head(up[k])
      OBVIOUS
    <3>2. /\ up[k] # <<>> /\ f \in Frame /\ f.id \in Calls /\ up' = [up EXCEPT ![k] = Tail(@)]
          /\ UNCHANGED <<recvd, pc, on>> /\ serve[k] = "reading"
      <4>1. /\ up[k] # <<>> /\ up' = [up EXCEPT ![k] = Tail(@)]
            /\ UNCHANGED <<recvd, pc, on>> /\ serve[k] = "reading"
        BY <2>3 DEF ReaderReads
      <4>2. f \in UpFrame
        BY <3>1, <4>1, NextFrame
      <4> QED BY <4>1, <4>2 DEF UpFrame, Frame
    <3>3. /\ f.id \notin pending[k] => chan' = chan /\ UNCHANGED <<serve, held>>
          /\ \/ chan' = chan
             \/ chan' = [chan EXCEPT ![f.id] = Append(@, f)]
             \/ chan' = [chan EXCEPT ![f.id] = <<f>>]
          /\ pending' = pending \/ pending' = [pending EXCEPT ![k] = @ \ {f.id}]
          /\ \/ UNCHANGED <<serve, held>>
             \/ f.id \in pending[k] /\ serve' = [serve EXCEPT ![k] = "blocked"] /\ held' = [held EXCEPT ![k] = f]
      BY <1>0, <2>3, <3>1, <3>2 DEF ReaderReads, DeliverResponse, DeliverStream
    <3>4. f.id \in pending[k] => on[f.id] = k /\ pc[f.id] \notin Early
      BY <1>0 DEF Mine
    <3>5. Mine'
      <4>1. \A j \in Sockets : pending'[j] \subseteq pending[j]
        BY <1>0, <3>3, PendingLess
      <4>2. \A j \in Sockets : serve'[j] = "blocked" => on[held'[j].id] = j /\ pc[held'[j].id] \notin Early
        <5>1. CASE UNCHANGED <<serve, held>>
          BY <1>0, <5>1 DEF Mine
        <5>2. CASE f.id \in pending[k] /\ serve' = [serve EXCEPT ![k] = "blocked"] /\ held' = [held EXCEPT ![k] = f]
          BY <1>0, <3>4, <5>2 DEF Mine
        <5> QED BY <3>3, <5>1, <5>2
      <4> QED BY <1>0, <3>2, <4>1, <4>2 DEF Mine
    <3>6. Untouched'
      BY <1>0, <3>2, <3>3, <3>4 DEF Untouched
    <3>7. \A c \in Calls, i \in Nat : i \in 1 .. Len(chan'[c]) => chan'[c][i].id = c
      <4> SUFFICES ASSUME NEW c \in Calls, NEW i \in Nat, i \in 1 .. Len(chan'[c]) PROVE chan'[c][i].id = c
        OBVIOUS
      <4>1. CASE chan'[c] = chan[c]
        BY <1>0, <4>1 DEF Addressed
      <4>2. CASE c = f.id /\ chan'[c] = Append(chan[c], f)
        BY <1>0, <3>2, <4>2, AppendAddressed DEF Addressed
      <4>3. CASE c = f.id /\ chan'[c] = <<f>>
        BY <4>3
      <4> QED BY <1>0, <3>3, <4>1, <4>2, <4>3
    <3>8. \A j \in Sockets, i \in Nat : i \in 1 .. Len(up'[j]) => up'[j][i].type \in {"resp", "item", "eof"}
      <4>1. /\ \A i \in 1 .. Len(Tail(up[k])) : Tail(up[k])[i] = up[k][i + 1] /\ i + 1 \in 1 .. Len(up[k]) /\ i + 1 \in Nat
        <5>1. up[k] \in Seq(Frame)
          BY <1>0
        <5> QED BY <3>2, <5>1
      <4>2. \A j \in Sockets : up'[j] = IF j = k THEN Tail(up[k]) ELSE up[j]
        BY <1>0, <3>2
      <4>3. \A i \in 1 .. Len(Tail(up[k])) : Tail(up[k])[i].type \in {"resp", "item", "eof"}
        BY <1>0, <4>1 DEF Addressed
      <4> QED BY <1>0, <4>2, <4>3 DEF Addressed
    <3> QED BY <3>5, <3>6, <3>7, <3>8 DEF Addressed
  <2>4. ASSUME NEW k \in Sockets, ReaderUnblocks(k)
        PROVE  Mine' /\ Untouched' /\ Addressed'
    <3>1. PICK f : f = held[k]
      OBVIOUS
    <3>2. /\ serve[k] = "blocked" /\ f \in Frame /\ f.id \in Calls /\ pc[f.id] \notin Early
          /\ UNCHANGED <<recvd, pc, on, up, pending>>
          /\ serve' = [serve EXCEPT ![k] = "reading"] /\ held' = [held EXCEPT ![k] = NoFrame]
          /\ chan' = chan \/ chan' = [chan EXCEPT ![f.id] = Append(@, f)]
      BY <1>0, <2>4, <3>1 DEF ReaderUnblocks, Mine
    <3>3. Mine'
      BY <1>0, <3>2 DEF Mine
    <3>4. Untouched'
      BY <1>0, <3>2 DEF Untouched
    <3>5. \A c \in Calls, i \in Nat : i \in 1 .. Len(chan'[c]) => chan'[c][i].id = c
      <4> SUFFICES ASSUME NEW c \in Calls, NEW i \in Nat, i \in 1 .. Len(chan'[c]) PROVE chan'[c][i].id = c
        OBVIOUS
      <4>1. CASE chan'[c] = chan[c]
        BY <1>0, <4>1 DEF Addressed
      <4>2. CASE c = f.id /\ chan'[c] = Append(chan[c], f)
        BY <1>0, <3>2, <4>2, AppendAddressed DEF Addressed
      <4> QED BY <1>0, <3>2, <4>1, <4>2
    <3> QED BY <1>0, <3>2, <3>3, <3>4, <3>5 DEF Addressed
  <2> QED BY <1>2, <2>1, <2>2, <2>3, <2>4 DEF SocketNext
<1>3. CASE CallNext
  <2>1. ASSUME NEW c \in Calls, CallGets(c)
        PROVE  Mine' /\ Untouched' /\ Addressed'
    <3>1. /\ pc[c] = "idle" /\ pc' = [pc EXCEPT ![c] = "got"] /\ on' = [on EXCEPT ![c] = current]
          /\ UNCHANGED <<up, recvd, held, chan, pending, serve>>
      BY <2>1 DEF CallGets, socketVars
    <3>2. Mine'
      <4>1. \A j \in Sockets : \A d \in pending[j] : d # c
        BY <1>0, <3>1 DEF Mine, Early
      <4>2. \A j \in Sockets : serve[j] = "blocked" => held[j].id # c
        BY <1>0, <3>1 DEF Mine, Early
      <4> QED BY <1>0, <3>1, <4>1, <4>2 DEF Mine
    <3>3. Untouched'
      BY <1>0, <3>1 DEF Untouched, Early
    <3> QED BY <1>0, <3>1, <3>2, <3>3 DEF Addressed
  <2>2. ASSUME NEW c \in Calls, CallRegisters(c)
        PROVE  Mine' /\ Untouched' /\ Addressed'
    <3>1. /\ pc[c] = "checked" /\ pc' = [pc EXCEPT ![c] = "registered"]
          /\ pending' = [pending EXCEPT ![on[c]] = @ \cup {c}]
          /\ UNCHANGED <<up, recvd, held, chan, on, serve>>
      BY <2>2 DEF CallRegisters
    <3>2. pc'[c] \notin Early /\ on[c] \in Sockets
      BY <1>0, <3>1 DEF Early
    <3>3. Mine'
      BY <1>0, <3>1, <3>2 DEF Mine
    <3>4. Untouched'
      BY <1>0, <3>1, <3>2 DEF Untouched
    <3> QED BY <1>0, <3>1, <3>3, <3>4 DEF Addressed
  <2>3. ASSUME NEW c \in Calls, CallReceives(c)
        PROVE  Mine' /\ Untouched' /\ Addressed'
    <3>1. /\ pc[c] = "waiting" /\ chan[c] # <<>> /\ chan' = [chan EXCEPT ![c] = Tail(@)]
          /\ UNCHANGED <<up, held, on, serve>>
          /\ pc' = pc \/ pc' = [pc EXCEPT ![c] = "returned"]
          /\ recvd' = recvd \/ recvd' = [recvd EXCEPT ![c] = Append(@, Head(chan[c]).n)]
          /\ pending' = pending \/ pending' = [pending EXCEPT ![on[c]] = @ \ {c}]
      BY <2>3 DEF CallReceives, Return
    <3>2. \A d \in Calls : pc'[d] \in Early <=> pc[d] \in Early
      BY <1>0, <3>1 DEF Early
    <3>3. Mine'
      <4>1. \A j \in Sockets : pending'[j] \subseteq pending[j]
        BY <1>0, <3>1, PendingLess
      <4> QED BY <1>0, <3>1, <3>2, <4>1 DEF Mine
    <3>4. Untouched'
      <4>1. pc[c] \notin Early
        BY <3>1 DEF Early
      <4>2. \A d \in Calls \ {c} : chan'[d] = chan[d] /\ recvd'[d] = recvd[d]
        BY <1>0, <3>1
      <4> QED BY <1>0, <3>2, <4>1, <4>2 DEF Untouched
    <3>5. \A d \in Calls, i \in Nat : i \in 1 .. Len(chan'[d]) => chan'[d][i].id = d
      <4>1. \A i \in 1 .. Len(Tail(chan[c])) : Tail(chan[c])[i] = chan[c][i + 1] /\ i + 1 \in 1 .. Len(chan[c]) /\ i + 1 \in Nat
        <5>1. chan[c] \in Seq(Frame)
          BY <1>0
        <5> QED BY <3>1, <5>1
      <4>2. \A i \in 1 .. Len(Tail(chan[c])) : Tail(chan[c])[i].id = c
        BY <1>0, <4>1 DEF Addressed
      <4>3. \A d \in Calls : chan'[d] = IF d = c THEN Tail(chan[c]) ELSE chan[d]
        BY <1>0, <3>1
      <4> QED BY <1>0, <4>2, <4>3 DEF Addressed
    <3> QED BY <1>0, <3>1, <3>3, <3>4, <3>5 DEF Addressed
  <2>4. ASSUME NEW c \in Calls, \/ CallChecks(c) \/ CallWrites(c) \/ CallSeesClosed(c) \/ CallCancelled(c) \/ StreamLeft(c)
        PROVE  Mine' /\ Untouched' /\ Addressed'
    <3>1. /\ UNCHANGED <<up, recvd, held, chan, on, serve>>
          /\ \/ pc[c] = "got" /\ \E x \in {"checked", "returned"} : pc' = [pc EXCEPT ![c] = x]
             \/ \E x \in {"waiting", "returned"} : pc' = [pc EXCEPT ![c] = x]
          /\ pending' = pending \/ pending' = [pending EXCEPT ![on[c]] = @ \ {c}]
      BY <2>4 DEF CallChecks, CallWrites, CallSeesClosed, CallCancelled, StreamLeft, Return, socketVars
    <3>2. \A d \in Calls : pc[d] \notin Early => pc'[d] \notin Early
      BY <1>0, <3>1 DEF Early
    <3>3. \A k \in Sockets : pending'[k] \subseteq pending[k]
      BY <1>0, <3>1, PendingLess
    <3> QED BY <1>1, <3>1, <3>2, <3>3
  <2>5. ASSUME NEW c \in Calls, NEW type \in {"resp", "item", "eof"}, NEW n \in Nat, AgentWrites(c, type, n),
               UNCHANGED <<socketVars, callVars>>
        PROVE  Mine' /\ Untouched' /\ Addressed'
    <3>1. PICK f \in Frame : f = F(type, c, n)
      BY FrameType
    <3>2. f.type \in {"resp", "item", "eof"}
      BY <3>1, FrameType
    <3>3. \A k \in Sockets : up'[k] = up[k] \/ up'[k] = Append(up[k], f)
      BY <1>0, <2>5, <3>1 DEF AgentWrites
    <3>4. \A k \in Sockets, i \in Nat : i \in 1 .. Len(up'[k]) => up'[k][i].type \in {"resp", "item", "eof"}
      <4> SUFFICES ASSUME NEW k \in Sockets, NEW i \in Nat, i \in 1 .. Len(up'[k])
                   PROVE  up'[k][i].type \in {"resp", "item", "eof"}
        OBVIOUS
      <4>1. up[k] \in Seq(Frame)
        BY <1>0
      <4>2. CASE up'[k] = up[k]
        BY <1>0, <4>2 DEF Addressed
      <4>3. CASE up'[k] = Append(up[k], f)
        <5>1. \A j \in 1 .. Len(up[k]) : j \in Nat /\ Append(up[k], f)[j] = up[k][j]
          BY <4>1
        <5>2. Append(up[k], f)[Len(up[k]) + 1] = f /\ (i \in 1 .. Len(up[k]) \/ i = Len(up[k]) + 1)
          BY <4>1, <4>3
        <5> QED BY <1>0, <3>2, <4>3, <5>1, <5>2 DEF Addressed
      <4> QED BY <3>3, <4>2, <4>3
    <3> QED BY <1>0, <2>5, <3>4 DEF socketVars, callVars, Mine, Untouched, Addressed
  <2>6. ASSUME NEW c \in Unary, AgentAnswers(c)
        PROVE  Mine' /\ Untouched' /\ Addressed'
    BY <2>5, <2>6 DEF AgentAnswers, Calls
  <2>7. ASSUME NEW c \in Streams, StreamStarts(c) \/ StreamSends(c) \/ StreamStops(c)
        PROVE  Mine' /\ Untouched' /\ Addressed'
    <3>1. c \in Calls /\ UNCHANGED <<socketVars, callVars>>
      BY <2>7 DEF StreamStarts, StreamSends, StreamStops, Calls
    <3>2. \/ up' = up
          \/ AgentWrites(c, "eof", 0)
          \/ AgentWrites(c, "item", sent[c] + 1) /\ sent[c] + 1 \in Nat
      BY <2>7, <3>1 DEF StreamStarts, StreamSends, StreamStops, Types, TypeOK
    <3>3. CASE up' = up
      BY <1>0, <3>1, <3>3 DEF socketVars, callVars, Mine, Untouched, Addressed
    <3> QED BY <2>5, <3>1, <3>2, <3>3
  <2> QED BY <1>3, <2>1, <2>2, <2>3, <2>4, <2>6, <2>7 DEF CallNext, Calls
<1>4. CASE UNCHANGED vars
  BY <1>0, <1>4 DEF vars, socketVars, callVars, Mine, Untouched, Addressed
<1> QED BY <1>2, <1>3, <1>4 DEF Next

\* A lower bound may be lowered.
LEMMA RiseFrom ==
    ASSUME NEW c, NEW s \in Seq(Frame), NEW lo \in Nat, NEW low \in Nat, NEW hi \in Nat, low <= lo, Rise(c, s, lo, hi)
    PROVE  Rise(c, s, low, hi)
<1>1. \A i \in 1 .. Len(s) : s[i].n \in Nat
  <2>1. \A f \in Frame : f.n \in Nat
    BY DEF Frame
  <2> QED BY <2>1
<1> QED BY <1>1 DEF Rise

\* A queue without a call's frames has no line of it.
LEMMA RiseNone ==
    ASSUME NEW c, NEW s, NoneOf(c, s), NEW lo, NEW hi
    PROVE  Rise(c, s, lo, hi)
BY DEF NoneOf, Rise, Line

\* The facts the steps of a stream need.
LEMMA StreamTypes ==
    ASSUME Types, Shape, NEW c \in Streams, pc[c] # "idle"
    PROVE  /\ c \in Calls /\ c \notin Unary /\ on[c] \in Sockets /\ Depth(c) = StreamDepth
           /\ up[on[c]] \in Seq(Frame) /\ chan[c] \in Seq(Frame) /\ recvd[c] \in Seq(Nat) /\ sent[c] \in Nat
           /\ \A i \in 1 .. Len(chan[c]) : chan[c][i].id = c
           /\ Blocks(c) => held[on[c]] \in Frame
<1>1. c \in Calls /\ c \notin Unary /\ Depth(c) = StreamDepth
  BY HubAssumption DEF Calls, Depth
<1>2. on[c] \in Sockets
  BY <1>1 DEF Types, Placed
<1>3. up[on[c]] \in Seq(Frame) /\ chan[c] \in Seq(Frame) /\ recvd[c] \in Seq(Nat) /\ sent[c] \in Nat
  BY <1>1, <1>2 DEF Types, TypeOK
<1>4. \A i \in 1 .. Len(chan[c]) : chan[c][i].id = c
  <2>1. \A i \in 1 .. Len(chan[c]) : i \in Nat
    BY <1>3
  <2> QED BY <1>1, <2>1 DEF Shape, Addressed
<1>5. Blocks(c) => held[on[c]] \in Frame
  BY <1>2 DEF Types, Holding, Blocks
<1> QED BY <1>1, <1>2, <1>3, <1>4, <1>5

\* A stream whose queues a step leaves alone.
LEMMA QuietStreams ==
    ASSUME Types, Shape, StreamsInOrder, UNCHANGED <<recvd, chan, sent, held, up, on>>,
           \A c \in Streams : pc'[c] # "idle" => pc[c] # "idle",
           \A k \in Sockets : /\ pending'[k] \subseteq pending[k]
                              /\ serve'[k] = "blocked" <=> serve[k] = "blocked"
                              /\ shut'[k] = "open" => shut[k] = "open"
    PROVE  StreamsInOrder'
<1> SUFFICES ASSUME NEW c \in Streams, pc'[c] # "idle" PROVE Ordered(c)' /\ Exact(c)'
  BY DEF StreamsInOrder
<1>1. pc[c] # "idle" /\ Ordered(c) /\ Exact(c)
  BY DEF StreamsInOrder
<1>2. on[c] \in Sockets
  BY <1>1, StreamTypes
<1>3. Blocks(c)' <=> Blocks(c)
  BY <1>2 DEF Blocks
<1>4. /\ c \in pending'[on[c]] => c \in pending[on[c]]
      /\ shut'[on[c]] = "open" => shut[on[c]] = "open"
  BY <1>2
<1> QED BY <1>1, <1>2, <1>3, <1>4, SameStream

\* A stream that is about to be registered is empty at every station.
LEMMA BeginsStream ==
    ASSUME Types, Shape, StreamsInOrder, NEW c \in Calls, CallGets(c) \/ CallRegisters(c)
    PROVE  StreamsInOrder'
<1>0. /\ pc \in [Calls -> {"idle", "got", "checked", "registered", "waiting", "returned"}]
      /\ on \in [Calls -> Sockets \cup {NoSocket}] /\ current \in Sockets \cup {NoSocket}
      /\ pending \in [Sockets -> SUBSET Calls] /\ Streams \subseteq Calls
      /\ up \in [Sockets -> Seq(Frame)]
  BY DEF Types, TypeOK, Calls
<1>1. /\ pc[c] \in Early /\ sent[c] = 0 /\ chan[c] = <<>> /\ recvd[c] = <<>>
      /\ \A k \in Sockets : NoneOf(c, up[k]) /\ c \notin pending[k] /\ ~(serve[k] = "blocked" /\ held[k].id = c)
  <2>1. pc[c] \in {"idle", "checked"}
    BY DEF CallGets, CallRegisters
  <2> QED BY <2>1 DEF Shape, Unsent, Untouched, Mine, Early
<1>2. /\ UNCHANGED <<recvd, chan, sent, held, up, serve, shut>>
      /\ \E x \in {"got", "registered"} : pc' = [pc EXCEPT ![c] = x]
      /\ on' = on \/ on' = [on EXCEPT ![c] = current]
      /\ pending' = pending \/ pending' = [pending EXCEPT ![on[c]] = @ \cup {c}]
  BY DEF CallGets, CallRegisters, socketVars, agentVars
<1>3. on'[c] \in Sockets
  <2>1. CASE CallGets(c)
    BY <1>0, <2>1 DEF CallGets
  <2>2. CASE CallRegisters(c)
    <3>1. pc[c] # "idle" /\ on' = on
      BY <2>2 DEF CallRegisters
    <3> QED BY <3>1 DEF Types, Placed
  <2> QED BY <2>1, <2>2
<1>4. ASSUME NEW d \in Streams, d # c, pc'[d] # "idle" PROVE Ordered(d)' /\ Exact(d)'
  <2>1. pc[d] # "idle" /\ on'[d] = on[d] /\ Ordered(d) /\ Exact(d)
    BY <1>0, <1>2, <1>4 DEF StreamsInOrder
  <2>2. on[d] \in Sockets
    BY <2>1, StreamTypes
  <2>3. d \in pending'[on[d]] => d \in pending[on[d]]
    <3>1. PICK j : j = on[c]
      OBVIOUS
    <3>2. pending' = pending \/ pending' = [pending EXCEPT ![j] = @ \cup {c}]
      BY <1>2, <3>1
    <3>3. pending'[on[d]] = pending[on[d]] \/ pending'[on[d]] = pending[on[d]] \cup {c}
      BY <1>0, <2>2, <3>2
    <3> QED BY <1>4, <3>3
  <2>4. Blocks(d)' <=> Blocks(d)
    BY <1>2, <2>1 DEF Blocks
  <2> QED BY <1>2, <2>1, <2>2, <2>3, <2>4, SameStream
<1>5. ASSUME c \in Streams PROVE Ordered(c)' /\ Exact(c)'
  <2>1. /\ sent'[c] = 0 /\ chan'[c] = <<>> /\ recvd'[c] = <<>> /\ NoneOf(c, up'[on'[c]]) /\ ~Blocks(c)'
    BY <1>1, <1>2, <1>3 DEF Blocks
  <2>2. Rise(c, up'[on'[c]], 0, 0) /\ Rise(c, <<>>, 0, 0)
    <3>1. NoneOf(c, <<>>)
      <4>1. Len(<<>>) = 0
        OBVIOUS
      <4> QED BY <4>1 DEF NoneOf
    <3> QED BY <2>1, <3>1, RiseNone
  <2>3. Ordered(c)'
    <3>1. /\ 0 <= 0 /\ 0 <= sent'[c]
          /\ \A i \in 1 .. Len(recvd'[c]) :
                 /\ recvd'[c][i] <= 0
                 /\ \A j \in 1 .. Len(recvd'[c]) : i < j => recvd'[c][i] < recvd'[c][j]
          /\ Rise(c, chan'[c], 0, 0)
          /\ Rise(c, up'[on'[c]], 0, sent'[c])
      BY <2>1, <2>2
    <3> QED BY <2>1, <3>1 DEF Ordered
  <2>4. Reach(c)' = 0
    <3>1. Reach(c)' = Len(recvd'[c]) + Len(chan'[c]) + 0
      BY <2>1 DEF Reach
    <3>2. Len(recvd'[c]) = 0 /\ Len(chan'[c]) = 0
      BY <2>1
    <3>3. PICK a \in Nat, b \in Nat : a = Len(recvd'[c]) /\ b = Len(chan'[c]) /\ a = 0 /\ b = 0
      BY <3>2
    <3> QED BY <3>1, <3>3
  <2>5. Complete(c, up'[on'[c]], 0, 0)
    BY DEF Complete
  <2>6. Exact(c)'
    <3>1. Reach(c)' <= sent'[c] /\ Rise(c, up'[on'[c]], Reach(c)', sent'[c]) /\ Complete(c, up'[on'[c]], Reach(c)', sent'[c])
      BY <2>1, <2>2, <2>4, <2>5
    <3>2. Len(recvd'[c]) = 0 /\ Len(chan'[c]) = 0
      BY <2>1
    <3> QED BY <2>1, <3>1, <3>2 DEF Exact
  <2> QED BY <2>3, <2>6
<1> QED BY <1>4, <1>5 DEF StreamsInOrder

\* The caller takes the next frame of its channel: the line after those it has.
LEMMA ReceivesLine ==
    ASSUME Types, Shape, StreamsInOrder, NEW c \in Calls, CallReceives(c)
    PROVE  StreamsInOrder'
<1>0. /\ pc \in [Calls -> {"idle", "got", "checked", "registered", "waiting", "returned"}]
      /\ chan \in [Calls -> Seq(Frame)] /\ recvd \in [Calls -> Seq(Nat)]
      /\ pending \in [Sockets -> SUBSET Calls] /\ Streams \subseteq Calls
  BY DEF Types, TypeOK, Calls
<1>1. PICK f : f = Head(chan[c])
  OBVIOUS
<1>2. /\ pc[c] = "waiting" /\ chan[c] # <<>> /\ chan' = [chan EXCEPT ![c] = Tail(@)]
      /\ UNCHANGED <<up, held, on, serve, sent, shut>>
      /\ pc' = pc \/ pc' = [pc EXCEPT ![c] = "returned"]
      /\ f.type = "item" => recvd' = [recvd EXCEPT ![c] = Append(@, f.n)] /\ pending' = pending
      /\ f.type # "item" => recvd' = recvd /\ pending' = IF c \in Streams THEN pending ELSE [pending EXCEPT ![on[c]] = @ \ {c}]
  BY <1>1 DEF CallReceives, Return, agentVars
<1>3. ASSUME NEW d \in Streams, d # c, pc'[d] # "idle" PROVE Ordered(d)' /\ Exact(d)'
  <2>1. pc[d] # "idle" /\ recvd'[d] = recvd[d] /\ chan'[d] = chan[d] /\ Ordered(d) /\ Exact(d)
    BY <1>0, <1>2, <1>3 DEF StreamsInOrder
  <2>2. on[d] \in Sockets
    BY <2>1, StreamTypes
  <2>3. d \in pending'[on[d]] => d \in pending[on[d]]
    <3>1. pending' = pending \/ pending' = [pending EXCEPT ![on[c]] = @ \ {c}]
      BY <1>2
    <3> QED BY <1>0, <2>2, <3>1, PendingLess
  <2>4. Blocks(d)' <=> Blocks(d)
    BY <1>2 DEF Blocks
  <2> QED BY <1>2, <2>1, <2>2, <2>3, <2>4, SameStream
<1>4. ASSUME c \in Streams PROVE Ordered(c)' /\ Exact(c)'
  <2>1. /\ chan'[c] = Tail(chan[c]) /\ pending' = pending /\ Ordered(c) /\ Exact(c)
        /\ IF f.type = "item" THEN recvd'[c] = Append(recvd[c], f.n) ELSE recvd'[c] = recvd[c]
    BY <1>0, <1>2, <1>4 DEF StreamsInOrder
  <2>2. /\ up[on[c]] \in Seq(Frame) /\ chan[c] \in Seq(Frame) /\ recvd[c] \in Seq(Nat) /\ sent[c] \in Nat
        /\ f \in Frame /\ f.n \in Nat /\ (Line(c, f) <=> f.type = "item") /\ Blocks(c)' = Blocks(c)
    <3>1. f = chan[c][1] /\ 1 \in 1 .. Len(chan[c])
      BY <1>0, <1>1, <1>2
    <3>2. f \in Frame /\ f.id = c
      BY <1>0, <1>2, <1>4, <3>1, StreamTypes
    <3>3. f.n \in Nat
      BY <3>2 DEF Frame
    <3>4. Blocks(c)' = Blocks(c)
      BY <1>2 DEF Blocks
    <3> QED BY <1>2, <1>4, <3>2, <3>3, <3>4, StreamTypes DEF Line
  <2>3. /\ Len(chan[c]) \in Nat /\ Len(recvd[c]) \in Nat /\ Len(chan[c]) > 0
        /\ Len(Tail(chan[c])) = Len(chan[c]) - 1 /\ chan[c][1] = f
        /\ \A i \in 1 .. Len(Tail(chan[c])) : Tail(chan[c])[i] = chan[c][i + 1] /\ i + 1 \in 1 .. Len(chan[c])
    BY <1>1, <1>2, <2>2
  <2>4. /\ Len(Append(recvd[c], f.n)) = Len(recvd[c]) + 1 /\ Append(recvd[c], f.n)[Len(recvd[c]) + 1] = f.n
        /\ \A i \in 1 .. Len(recvd[c]) : Append(recvd[c], f.n)[i] = recvd[c][i] /\ recvd[c][i] \in Nat
        /\ \A i \in 1 .. Len(recvd[c]) + 1 : i \in 1 .. Len(recvd[c]) \/ i = Len(recvd[c]) + 1
    BY <2>2
  <2>a. PICK a \in Nat, z \in Nat : a = Len(recvd[c]) /\ z = Len(chan[c])
    BY <2>2
  <2>5. Ordered(c)'
    <3>1. PICK r \in Nat, b \in Nat, h \in Nat :
        /\ r <= b /\ b <= h /\ h <= sent[c]
        /\ \A i \in 1 .. Len(recvd[c]) :
               /\ recvd[c][i] <= r
               /\ \A j \in 1 .. Len(recvd[c]) : i < j => recvd[c][i] < recvd[c][j]
        /\ Rise(c, chan[c], r, b)
        /\ Blocks(c) /\ Line(c, held[on[c]]) => b < held[on[c]].n /\ held[on[c]].n <= h
        /\ Rise(c, up[on[c]], h, sent[c])
      BY <2>1 DEF Ordered
    <3>2. /\ Blocks(c)' /\ Line(c, held'[on'[c]]) => b < held'[on'[c]].n /\ held'[on'[c]].n <= h
          /\ Rise(c, up'[on'[c]], h, sent'[c]) /\ h <= sent'[c]
      BY <1>2, <2>2, <3>1
    <3>3. CASE Line(c, f)
      <4>1. r < f.n /\ f.n <= b /\ Rise(c, chan'[c], f.n, b)
        BY <1>0, <1>1, <1>2, <2>1, <2>2, <3>1, <3>3, LineTail
      <4>2. recvd'[c] = Append(recvd[c], f.n)
        BY <2>1, <2>2, <3>3
      <4>3. \A i \in 1 .. Len(recvd'[c]) :
               /\ recvd'[c][i] <= f.n
               /\ \A j \in 1 .. Len(recvd'[c]) : i < j => recvd'[c][i] < recvd'[c][j]
        <5> SUFFICES ASSUME NEW i \in 1 .. Len(recvd[c]) + 1
                     PROVE  /\ recvd'[c][i] <= f.n
                            /\ \A j \in 1 .. Len(recvd[c]) + 1 : i < j => recvd'[c][i] < recvd'[c][j]
          BY <2>4, <4>2
        <5>1. CASE i = Len(recvd[c]) + 1
          BY <2>2, <2>3, <2>4, <4>2, <5>1
        <5>2. CASE i \in 1 .. Len(recvd[c])
          <6>1. recvd'[c][i] = recvd[c][i] /\ recvd[c][i] <= r /\ recvd[c][i] \in Nat
            BY <2>4, <3>1, <4>2, <5>2
          <6>2. recvd'[c][i] < f.n
            BY <2>2, <4>1, <6>1
          <6>3. ASSUME NEW j \in 1 .. Len(recvd[c]) + 1, i < j PROVE recvd'[c][i] < recvd'[c][j]
            <7>1. CASE j = Len(recvd[c]) + 1
              BY <2>4, <4>2, <6>2, <7>1
            <7>2. CASE j \in 1 .. Len(recvd[c])
              BY <2>4, <3>1, <4>2, <5>2, <6>3, <7>2
            <7> QED BY <2>4, <7>1, <7>2
          <6> QED BY <2>2, <6>1, <6>2, <6>3
        <5> QED BY <2>4, <5>1, <5>2
      <4>4. f.n <= b /\ b <= h
        BY <3>1, <4>1
      <4> QED BY <2>2, <3>1, <3>2, <4>1, <4>3, <4>4 DEF Ordered
    <3>4. CASE ~Line(c, f)
      <4>1. Rise(c, chan'[c], r, b) /\ recvd'[c] = recvd[c]
        BY <1>0, <1>1, <1>2, <2>1, <2>2, <3>1, <3>4, LineTail
      <4> QED BY <3>1, <3>2, <4>1 DEF Ordered
    <3> QED BY <3>3, <3>4
  <2>6. Exact(c)'
    <3>0. CASE (shut[on[c]])' # "open"
      BY <3>0 DEF Exact
    <3> SUFFICES ASSUME shut[on[c]] = "open", shut'[on'[c]] = "open"
                 PROVE  Exact(c)'
      BY <1>2, <3>0
    <3>1. /\ \A i \in 1 .. Len(recvd[c]) : recvd[c][i] = i
          /\ \A i \in 1 .. Len(chan[c]) :
                 IF Line(c, chan[c][i]) THEN chan[c][i].n = Len(recvd[c]) + i
                 ELSE i = Len(chan[c]) /\ c \notin pending[on[c]] /\ ~Blocks(c)
          /\ Blocks(c) =>
                 IF Line(c, held[on[c]]) THEN held[on[c]].n = Len(recvd[c]) + Len(chan[c]) + 1
                 ELSE c \notin pending[on[c]]
          /\ c \in pending[on[c]] =>
                 /\ Reach(c) <= sent[c]
                 /\ Rise(c, up[on[c]], Reach(c), sent[c])
                 /\ Complete(c, up[on[c]], Reach(c), sent[c])
      BY <2>1 DEF Exact
    <3>2. CASE Line(c, f)
      <4>1. recvd'[c] = Append(recvd[c], f.n) /\ Len(recvd'[c]) = Len(recvd[c]) + 1 /\ Len(chan'[c]) = Len(chan[c]) - 1
        BY <2>1, <2>2, <2>3, <2>4, <3>2
      <4>2. f.n = Len(recvd[c]) + 1
        <5>1. 1 \in 1 .. Len(chan[c]) /\ Line(c, chan[c][1])
          BY <2>3, <3>2
        <5> QED BY <2>3, <3>1, <5>1
      <4>3. \A i \in 1 .. Len(recvd'[c]) : recvd'[c][i] = i
        BY <2>4, <3>1, <4>1, <4>2
      <4>4. \A i \in 1 .. Len(chan'[c]) :
                 IF Line(c, chan'[c][i]) THEN chan'[c][i].n = Len(recvd'[c]) + i
                 ELSE i = Len(chan'[c]) /\ c \notin pending'[on'[c]] /\ ~Blocks(c)'
        <5> SUFFICES ASSUME NEW i \in 1 .. Len(chan'[c])
                     PROVE  IF Line(c, chan'[c][i]) THEN chan'[c][i].n = Len(recvd'[c]) + i
                            ELSE i = Len(chan'[c]) /\ c \notin pending'[on'[c]] /\ ~Blocks(c)'
          OBVIOUS
        <5>1. PICK k \in Nat : k = i /\ k + 1 \in 1 .. Len(chan[c]) /\ chan'[c][i] = chan[c][k + 1]
          BY <2>1, <2>3
        <5>2. CASE Line(c, chan[c][k + 1])
          <6>1. chan[c][k + 1].n = a + (k + 1)
            BY <2>a, <3>1, <5>1, <5>2
          <6>2. Len(recvd'[c]) + i = a + 1 + k
            BY <2>a, <4>1, <5>1
          <6>3. chan[c][k + 1].n = Len(recvd'[c]) + i
            BY <6>1, <6>2
          <6> QED BY <5>1, <5>2, <6>3
        <5>3. CASE ~Line(c, chan[c][k + 1])
          <6>1. k + 1 = z /\ c \notin pending[on[c]] /\ ~Blocks(c)
            BY <2>a, <3>1, <5>1, <5>3
          <6>2. i = Len(chan'[c])
            BY <2>a, <4>1, <5>1, <6>1
          <6> QED BY <1>2, <2>1, <2>2, <5>1, <5>3, <6>1, <6>2
        <5> QED BY <5>2, <5>3
      <4>5. Reach(c)' = Reach(c)
        <5>1. Len(recvd'[c]) + Len(chan'[c]) = a + z
          <6>1. Len(recvd'[c]) = a + 1 /\ Len(chan'[c]) = z - 1
            BY <2>a, <4>1
          <6> QED BY <6>1
        <5>2. Reach(c) = a + z + (IF Blocks(c) THEN 1 ELSE 0)
          BY <2>a DEF Reach
        <5>3. Reach(c)' = Len(recvd'[c]) + Len(chan'[c]) + (IF Blocks(c)' THEN 1 ELSE 0)
          BY DEF Reach
        <5>4. CASE Blocks(c)
          <6>1. Blocks(c)'
            BY <2>2, <5>4
          <6> QED BY <5>1, <5>2, <5>3, <5>4, <6>1
        <5>5. CASE ~Blocks(c)
          <6>1. ~Blocks(c)'
            BY <2>2, <5>5
          <6> QED BY <5>1, <5>2, <5>3, <5>5, <6>1
        <5> QED BY <5>4, <5>5
      <4>6. Blocks(c)' =>
                 IF Line(c, held'[on'[c]]) THEN held'[on'[c]].n = Len(recvd'[c]) + Len(chan'[c]) + 1
                 ELSE c \notin pending'[on'[c]]
        <5>1. Len(recvd'[c]) + Len(chan'[c]) + 1 = Len(recvd[c]) + Len(chan[c]) + 1
          <6>1. Len(recvd'[c]) = a + 1 /\ Len(chan'[c]) = z - 1
            BY <2>a, <4>1
          <6>2. Len(recvd'[c]) + Len(chan'[c]) + 1 = a + z + 1
            BY <6>1
          <6> QED BY <2>a, <6>2
        <5> QED BY <1>2, <2>1, <2>2, <3>1, <5>1
      <4>7. c \in pending'[on'[c]] =>
                 /\ Reach(c)' <= sent'[c]
                 /\ Rise(c, up'[on'[c]], Reach(c)', sent'[c])
                 /\ Complete(c, up'[on'[c]], Reach(c)', sent'[c])
        BY <1>2, <2>1, <3>1, <4>5
      <4> QED BY <4>3, <4>4, <4>6, <4>7 DEF Exact
    <3>3. CASE ~Line(c, f)
      <4>1. 1 = Len(chan[c]) /\ c \notin pending[on[c]] /\ ~Blocks(c)
        <5>1. 1 \in 1 .. Len(chan[c]) /\ ~Line(c, chan[c][1])
          BY <2>3, <3>3
        <5> QED BY <3>1, <5>1
      <4>2. Len(chan'[c]) = 0 /\ recvd'[c] = recvd[c] /\ c \notin pending'[on'[c]] /\ ~Blocks(c)'
        <5>1. Len(chan'[c]) = 0
          BY <2>1, <2>3, <4>1
        <5>2. recvd'[c] = recvd[c] /\ c \notin pending'[on'[c]]
          BY <1>2, <2>1, <2>2, <3>3, <4>1
        <5>3. ~Blocks(c)'
          BY <2>2, <4>1
        <5> QED BY <5>1, <5>2, <5>3
      <4>3. \A i \in 1 .. Len(chan'[c]) : FALSE
        BY <4>2
      <4>4. \A i \in 1 .. Len(recvd'[c]) : recvd'[c][i] = i
        BY <3>1, <4>2
      <4> QED BY <4>2, <4>3, <4>4 DEF Exact
    <3> QED BY <3>2, <3>3
  <2> QED BY <2>5, <2>6
<1> QED BY <1>3, <1>4, <1>2 DEF StreamsInOrder

\* The Agent sends something that is no line of the stream.
LEMMA SendsOther ==
    ASSUME Types, Shape, StreamsInOrder, NEW d \in Streams, pc[d] # "idle", UNCHANGED <<socketVars, callVars>>,
           NEW c \in Calls, NEW type \in {"resp", "item", "eof"}, NEW n \in Nat,
           up' = up \/ AgentWrites(c, type, n), d # c \/ type # "item", sent'[d] = sent[d]
    PROVE  Ordered(d)' /\ Exact(d)'
<1>1. Ordered(d) /\ Exact(d) /\ on[d] \in Sockets /\ up \in [Sockets -> Seq(Frame)]
  BY StreamTypes DEF StreamsInOrder, Types, TypeOK
<1>2. PICK f \in Frame : f = F(type, c, n) /\ f.id = c /\ f.type = type
  <2>1. F(type, c, n) \in Frame
    BY FrameType
  <2>2. F(type, c, n).id = c /\ F(type, c, n).type = type
    BY DEF F
  <2> QED BY <2>1, <2>2
<1>3. ~Line(d, f)
  BY <1>2 DEF Line
<1>4. up'[on[d]] = up[on[d]] \/ up'[on[d]] = Append(up[on[d]], f)
  <2>1. PICK j : j = on[c]
    OBVIOUS
  <2>2. up' = up \/ up' = [up EXCEPT ![j] = IF net[j] = "up" THEN Append(@, f) ELSE @]
    BY <1>2, <2>1 DEF AgentWrites
  <2> QED BY <1>1, <2>2
<1>5. Blocks(d)' <=> Blocks(d)
  BY DEF Blocks, socketVars, callVars
<1>6. /\ on'[d] = on[d] /\ recvd'[d] = recvd[d] /\ chan'[d] = chan[d] /\ held'[on[d]] = held[on[d]]
      /\ pending' = pending /\ shut' = shut
  BY DEF socketVars, callVars
<1>7. \/ up'[on[d]] = up[on[d]]
      \/ \E g \in Frame : ~Line(d, g) /\ up'[on[d]] = Append(up[on[d]], g)
  BY <1>3, <1>4
<1>8. d \in pending'[on[d]] => d \in pending[on[d]]
  BY <1>6
<1>9. shut'[on[d]] = "open" => shut[on[d]] = "open"
  BY <1>6
<1> QED BY <1>1, <1>5, <1>6, <1>7, <1>8, <1>9, SameStream

\* The Agent writes the next line, above all it has sent.
LEMMA SendsLine ==
    ASSUME Types, Shape, StreamsInOrder, NEW c \in Streams, StreamSends(c)
    PROVE  StreamsInOrder'
<1> SUFFICES ASSUME NEW d \in Streams, pc'[d] # "idle" PROVE Ordered(d)' /\ Exact(d)'
  BY DEF StreamsInOrder
<1>0. /\ pc[d] # "idle" /\ UNCHANGED <<socketVars, callVars>> /\ c \in Calls
      /\ sent \in [Calls -> Nat] /\ up \in [Sockets -> Seq(Frame)] /\ Streams \subseteq Calls
  BY DEF StreamSends, callVars, Types, TypeOK, Calls
<1>1. AgentWrites(c, "item", sent[c] + 1) /\ sent[c] + 1 \in Nat
  BY <1>0 DEF StreamSends
<1>2. \/ sent'[d] = sent[d]
      \/ d = c /\ net[on[c]] = "up"
  <2>1. CASE net[on[c]] = "up"
    <3>1. sent' = [sent EXCEPT ![c] = sent[c] + 1]
      BY <2>1 DEF StreamSends
    <3> QED BY <1>0, <2>1, <3>1
  <2>2. CASE net[on[c]] # "up"
    BY <2>2 DEF StreamSends
  <2> QED BY <2>1, <2>2
<1>3. CASE d # c
  BY <1>0, <1>1, <1>2, <1>3, SendsOther
<1>4. CASE d = c /\ net[on[c]] # "up"
  <2>1. PICK j \in Sockets : j = on[c]
    BY <1>0, <1>4, StreamTypes
  <2>2. up' = [up EXCEPT ![j] = up[j]]
    BY <1>1, <1>4, <2>1 DEF AgentWrites
  <2>3. up' = up
    BY <1>0, <2>2
  <2>4. sent' = sent
    BY <1>4 DEF StreamSends
  <2> QED BY <1>0, <1>1, <1>4, <2>3, <2>4, SendsOther
<1>5. CASE d = c /\ net[on[c]] = "up"
  <2>0. /\ Ordered(c) /\ Exact(c) /\ c \in Calls /\ on[c] \in Sockets
        /\ up[on[c]] \in Seq(Frame) /\ chan[c] \in Seq(Frame) /\ recvd[c] \in Seq(Nat) /\ sent[c] \in Nat
    BY <1>0, <1>5, StreamTypes DEF StreamsInOrder
  <2>1. PICK f \in Frame : f = F("item", c, sent[c] + 1) /\ Line(c, f) /\ f.n = sent[c] + 1
    <3>1. F("item", c, sent[c] + 1) \in Frame
      BY <1>1, <2>0, FrameType
    <3>2. LET f == F("item", c, sent[c] + 1) IN f.type = "item" /\ f.id = c /\ f.n = sent[c] + 1
      BY DEF F
    <3> QED BY <3>1, <3>2 DEF Line
  <2>2. sent'[c] = sent[c] + 1 /\ up'[on[c]] = Append(up[on[c]], f)
    <3>1. PICK j \in Sockets : j = on[c]
      BY <2>0
    <3>2. up' = [up EXCEPT ![j] = Append(@, f)]
      BY <1>0, <1>1, <1>5, <2>1, <3>1 DEF AgentWrites
    <3>3. sent'[c] = sent[c] + 1
      BY <1>0, <1>5, <2>0 DEF StreamSends
    <3> QED BY <1>0, <3>1, <3>2, <3>3
  <2>3. /\ on' = on /\ recvd' = recvd /\ chan' = chan /\ held' = held /\ pending' = pending /\ shut' = shut
        /\ (Blocks(c)' <=> Blocks(c))
    BY <1>0 DEF Blocks, socketVars, callVars
  <2>4. \A lo \in Nat : lo <= sent[c] /\ Rise(c, up[on[c]], lo, sent[c]) =>
            /\ Rise(c, up'[on'[c]], lo, sent'[c])
            /\ Complete(c, up[on[c]], lo, sent[c]) => Complete(c, up'[on'[c]], lo, sent'[c])
    <3> SUFFICES ASSUME NEW lo \in Nat, lo <= sent[c], Rise(c, up[on[c]], lo, sent[c])
                 PROVE  /\ Rise(c, Append(up[on[c]], f), lo, sent[c] + 1)
                        /\ Complete(c, up[on[c]], lo, sent[c]) => Complete(c, Append(up[on[c]], f), lo, sent[c] + 1)
      BY <2>2, <2>3
    <3>1. lo < f.n /\ sent[c] < f.n /\ f.n = sent[c] + 1
      BY <2>0, <2>1
    <3> QED BY <2>0, <2>1, <3>1, LineAppend
  <2>5. Ordered(c)'
    <3>1. PICK r \in Nat, b \in Nat, h \in Nat :
        /\ r <= b /\ b <= h /\ h <= sent[c]
        /\ \A i \in 1 .. Len(recvd[c]) :
               /\ recvd[c][i] <= r
               /\ \A j \in 1 .. Len(recvd[c]) : i < j => recvd[c][i] < recvd[c][j]
        /\ Rise(c, chan[c], r, b)
        /\ Blocks(c) /\ Line(c, held[on[c]]) => b < held[on[c]].n /\ held[on[c]].n <= h
        /\ Rise(c, up[on[c]], h, sent[c])
      BY <2>0 DEF Ordered
    <3>2. h <= sent'[c] /\ Rise(c, up'[on'[c]], h, sent'[c])
      BY <2>0, <2>2, <2>4, <3>1
    <3>3. /\ Rise(c, chan'[c], r, b)
          /\ Blocks(c)' /\ Line(c, held'[on'[c]]) => b < held'[on'[c]].n /\ held'[on'[c]].n <= h
          /\ \A i \in 1 .. Len(recvd'[c]) :
               /\ recvd'[c][i] <= r
               /\ \A j \in 1 .. Len(recvd'[c]) : i < j => recvd'[c][i] < recvd'[c][j]
      BY <2>3, <3>1
    <3> QED BY <3>1, <3>2, <3>3 DEF Ordered
  <2>6. Exact(c)'
    <3>0. CASE (shut[on[c]])' # "open"
      BY <3>0 DEF Exact
    <3> SUFFICES ASSUME (shut[on[c]])' = "open"
                 PROVE  Exact(c)'
      BY <3>0
    <3>1. Reach(c)' = Reach(c) /\ Reach(c) \in Nat
      BY <2>0, <2>3, SameReach
    <3>2. c \in pending[on[c]] => Reach(c) <= sent[c] /\ Rise(c, up[on[c]], Reach(c), sent[c])
                                 /\ Complete(c, up[on[c]], Reach(c), sent[c])
      BY <2>0, <2>3 DEF Exact
    <3>3. c \in pending'[on'[c]] =>
               /\ Reach(c)' <= sent'[c]
               /\ Rise(c, up'[on'[c]], Reach(c)', sent'[c])
               /\ Complete(c, up'[on'[c]], Reach(c)', sent'[c])
      <4> SUFFICES ASSUME c \in pending[on[c]]
                   PROVE  /\ Reach(c)' <= sent'[c]
                          /\ Rise(c, up'[on'[c]], Reach(c)', sent'[c])
                          /\ Complete(c, up'[on'[c]], Reach(c)', sent'[c])
        BY <2>3
      <4>1. Reach(c) <= sent'[c]
        BY <2>0, <2>2, <3>1, <3>2
      <4> QED BY <2>4, <3>1, <3>2, <4>1
    <3>4. /\ \A i \in 1 .. Len(recvd'[c]) : recvd'[c][i] = i
          /\ \A i \in 1 .. Len(chan'[c]) :
                 IF Line(c, chan'[c][i]) THEN chan'[c][i].n = Len(recvd'[c]) + i
                 ELSE i = Len(chan'[c]) /\ c \notin pending'[on'[c]] /\ ~Blocks(c)'
          /\ Blocks(c)' =>
                 IF Line(c, held'[on'[c]]) THEN held'[on'[c]].n = Len(recvd'[c]) + Len(chan'[c]) + 1
                 ELSE c \notin pending'[on'[c]]
      BY <2>0, <2>3 DEF Exact
    <3> QED BY <3>3, <3>4 DEF Exact
  <2> QED BY <1>5, <2>5, <2>6
<1> QED BY <1>3, <1>4, <1>5

\* Stations of c: the parts of Exact(c) when lines are still missing from no station.
LEMMA PendingLines ==
    ASSUME Types, Shape, NEW c \in Streams, pc[c] # "idle", Exact(c), shut[on[c]] = "open",
           c \in pending[on[c]] \/ Blocks(c)
    PROVE  \A i \in 1 .. Len(chan[c]) : Line(c, chan[c][i]) /\ chan[c][i].n = Len(recvd[c]) + i
BY DEF Exact

\* The buffer of a stream gets the frame that follows everything it has.
LEMMA GetsFrame ==
    ASSUME NEW c \in Calls, NEW s \in Seq(Frame), NEW f \in Frame, NEW a \in Nat, NEW z \in Nat, z = Len(s),
           \A i \in 1 .. Len(s) : Line(c, s[i]) /\ s[i].n = a + i
    PROVE  /\ Len(Append(s, f)) = z + 1
           /\ Line(c, f) /\ f.n = a + z + 1 =>
                  \A i \in 1 .. Len(Append(s, f)) : Line(c, Append(s, f)[i]) /\ Append(s, f)[i].n = a + i
           /\ ~Line(c, f) =>
                  \A i \in 1 .. Len(Append(s, f)) :
                      IF Line(c, Append(s, f)[i]) THEN Append(s, f)[i].n = a + i ELSE i = Len(Append(s, f))
<1>1. /\ Len(Append(s, f)) = z + 1
      /\ \A i \in 1 .. Len(s) : Append(s, f)[i] = s[i]
      /\ Append(s, f)[z + 1] = f
      /\ \A i \in 1 .. Len(Append(s, f)) : i \in 1 .. Len(s) \/ i = z + 1
  OBVIOUS
<1>2. ASSUME Line(c, f), f.n = a + z + 1, NEW i \in 1 .. Len(Append(s, f))
      PROVE  Line(c, Append(s, f)[i]) /\ Append(s, f)[i].n = a + i
  <2>1. CASE i \in 1 .. Len(s)
    BY <1>1, <2>1
  <2>2. CASE i = z + 1
    <3>1. a + i = a + z + 1
      BY <2>2
    <3> QED BY <1>1, <1>2, <2>2, <3>1
  <2> QED BY <1>1, <2>1, <2>2
<1>3. ASSUME ~Line(c, f), NEW i \in 1 .. Len(Append(s, f))
      PROVE  IF Line(c, Append(s, f)[i]) THEN Append(s, f)[i].n = a + i ELSE i = Len(Append(s, f))
  <2>1. CASE i \in 1 .. Len(s)
    BY <1>1, <2>1
  <2>2. CASE i = z + 1
    BY <1>1, <1>3, <2>2
  <2> QED BY <1>1, <2>1, <2>2
<1> QED BY <1>1, <1>2, <1>3

\* The frames of s are the lines that follow the first a lines of c.
Numbered(c, s, a) == \A i \in 1 .. Len(s) : Line(c, s[i]) /\ s[i].n = a + i

\* The case of GetsFrame where the frame is the next line.
LEMMA GetsLine ==
    ASSUME NEW c \in Calls, NEW s \in Seq(Frame), NEW f \in Frame, NEW a \in Nat, NEW z \in Nat, z = Len(s),
           Numbered(c, s, a), Line(c, f), f.n = a + z + 1
    PROVE  Numbered(c, Append(s, f), a)
BY GetsFrame DEF Numbered

\* The reader takes the next frame of a stream.
LEMMA ReadsLine ==
    ASSUME Types, Shape, StreamsInOrder, NEW k \in Sockets, ReaderReads(k)
    PROVE  StreamsInOrder'
<1> SUFFICES ASSUME NEW c \in Streams, pc'[c] # "idle" PROVE Ordered(c)' /\ Exact(c)'
  BY DEF StreamsInOrder
<1>0. /\ chan \in [Calls -> Seq(Frame)] /\ up \in [Sockets -> Seq(Frame)] /\ pending \in [Sockets -> SUBSET Calls]
      /\ serve \in [Sockets -> {"none", "accepted", "displacing", "reading", "blocked", "removing", "done"}]
      /\ held \in [Sockets -> Frame \cup {NoFrame}]
  BY DEF Types, TypeOK
<1>1. PICK f : f = Head(up[k])
  OBVIOUS
<1>2. /\ serve[k] = "reading" /\ up[k] # <<>> /\ up' = [up EXCEPT ![k] = Tail(@)]
      /\ UNCHANGED <<shut, pc, on, recvd, sent>>
  BY DEF ReaderReads, agentVars
<1>3. f \in Frame /\ f.id \in Calls /\ f.n \in Nat
  <2>1. f \in UpFrame
    BY <1>1, <1>2, NextFrame
  <2> QED BY <2>1 DEF UpFrame, Frame
<1>4. /\ f.id \notin pending[k] => UNCHANGED <<chan, serve, held>>
      /\ \/ chan' = chan
         \/ chan' = [chan EXCEPT ![f.id] = Append(@, f)]
         \/ chan' = [chan EXCEPT ![f.id] = <<f>>]
      /\ pending' = pending \/ pending' = [pending EXCEPT ![k] = @ \ {f.id}]
      /\ \/ UNCHANGED <<serve, held>>
         \/ serve' = [serve EXCEPT ![k] = "blocked"] /\ held' = [held EXCEPT ![k] = f]
  BY <1>0, <1>1, <1>2, <1>3 DEF ReaderReads, DeliverResponse, DeliverStream
<1>5. /\ pc[c] # "idle" /\ Ordered(c) /\ Exact(c) /\ on[c] \in Sockets /\ c \in Calls /\ c \notin Unary
      /\ up[on[c]] \in Seq(Frame) /\ chan[c] \in Seq(Frame) /\ recvd[c] \in Seq(Nat) /\ sent[c] \in Nat
  BY <1>2, StreamTypes DEF StreamsInOrder
<1>6. CASE on[c] # k \/ f.id # c
  <2>1. chan'[c] = chan[c]
    <3>1. CASE f.id # c
      BY <1>0, <1>3, <1>4, <1>5, <3>1
    <3>2. CASE f.id = c /\ on[c] # k
      <4>1. f.id \notin pending[k]
        BY <3>2 DEF Shape, Mine
      <4> QED BY <1>4, <4>1
    <3> QED BY <1>6, <3>1, <3>2
  <2>2. Blocks(c)' <=> Blocks(c)
    <3>1. CASE on[c] # k
      <4>1. serve'[on[c]] = serve[on[c]] /\ held'[on[c]] = held[on[c]]
        BY <1>0, <1>4, <1>5, <3>1
      <4> QED BY <1>2, <4>1 DEF Blocks
    <3>2. CASE on[c] = k
      <4>1. ~Blocks(c)
        BY <1>2, <3>2 DEF Blocks
      <4>2. serve'[k] = "reading" \/ held'[k] = f
        BY <1>0, <1>2, <1>4
      <4>3. ~Blocks(c)'
        BY <1>2, <1>6, <3>2, <4>2 DEF Blocks
      <4> QED BY <4>1, <4>3
    <3> QED BY <3>1, <3>2
  <2>3. Blocks(c) => held'[on[c]] = held[on[c]]
    <3>1. CASE on[c] # k
      BY <1>0, <1>4, <1>5, <3>1
    <3>2. CASE on[c] = k
      BY <1>2, <3>2 DEF Blocks
    <3> QED BY <3>1, <3>2
  <2>4. \/ up'[on[c]] = up[on[c]]
        \/ up[on[c]] # <<>> /\ ~Line(c, Head(up[on[c]])) /\ up'[on[c]] = Tail(up[on[c]])
    <3>1. CASE on[c] # k
      BY <1>0, <1>2, <1>5, <3>1
    <3>2. CASE on[c] = k
      BY <1>0, <1>1, <1>2, <1>6, <3>2 DEF Line
    <3> QED BY <3>1, <3>2
  <2>5. c \in pending'[on[c]] => c \in pending[on[c]]
    BY <1>0, <1>4, <1>5, PendingLess
  <2> QED BY <1>2, <1>5, <2>1, <2>2, <2>3, <2>4, <2>5, SameStream
<1>7. CASE on[c] = k /\ f.id = c
  <2>1. PICK r \in Nat, b \in Nat, h \in Nat :
        /\ r <= b /\ b <= h /\ h <= sent[c]
        /\ \A i \in 1 .. Len(recvd[c]) :
               /\ recvd[c][i] <= r
               /\ \A j \in 1 .. Len(recvd[c]) : i < j => recvd[c][i] < recvd[c][j]
        /\ Rise(c, chan[c], r, b)
        /\ Blocks(c) /\ Line(c, held[on[c]]) => b < held[on[c]].n /\ held[on[c]].n <= h
        /\ Rise(c, up[on[c]], h, sent[c])
    BY <1>5 DEF Ordered
  <2>2. up'[on'[c]] = Tail(up[k]) /\ ~Blocks(c)
    BY <1>0, <1>2, <1>7 DEF Blocks
  <2>3. /\ ~Line(c, f) => Rise(c, up'[on'[c]], h, sent[c])
        /\ Line(c, f) => h < f.n /\ f.n <= sent[c] /\ Rise(c, up'[on'[c]], f.n, sent[c])
    BY <1>1, <1>2, <1>5, <1>7, <2>1, <2>2, LineTail
  <2>4. Line(c, f) \/ f.type = "eof"
    <3>1. f.type \in {"item", "eof"}
      <4>1. f.type # "resp"
        <5>1. f \in UpFrame
          BY <1>1, <1>2, NextFrame
        <5> QED BY <1>5, <1>7, <5>1 DEF UpFrame
      <4>2. f.type \in {"resp", "item", "eof"}
        <5>1. 1 \in 1 .. Len(up[k]) /\ f = up[k][1] /\ 1 \in Nat
          BY <1>1, <1>2, <1>5, <1>7
        <5> QED BY <5>1 DEF Shape, Addressed
      <4> QED BY <4>1, <4>2
    <3> QED BY <1>7, <3>1 DEF Line
  <2>5. \A lo \in Nat : Rise(c, up[k], lo, sent[c]) => Rise(c, up'[on'[c]], lo, sent[c])
    <3> SUFFICES ASSUME NEW lo \in Nat, Rise(c, up[k], lo, sent[c])
                 PROVE  Rise(c, Tail(up[k]), lo, sent[c])
      BY <2>2
    <3>1. CASE ~Line(c, f)
      BY <1>1, <1>2, <1>5, <1>7, <3>1, LineTail
    <3>2. CASE Line(c, f)
      <4>1. lo < f.n /\ Rise(c, Tail(up[k]), f.n, sent[c])
        BY <1>1, <1>2, <1>5, <1>7, <3>2, LineTail
      <4>2. Tail(up[k]) \in Seq(Frame) /\ lo <= f.n
        BY <1>2, <1>3, <1>5, <1>7, <4>1
      <4> QED BY <1>3, <1>5, <4>1, <4>2, RiseFrom
    <3> QED BY <3>1, <3>2
  <2>6. UNCHANGED <<shut, on, recvd, sent>> /\ Rise(c, up[k], h, sent[c])
    BY <1>2, <1>7, <2>1
  <2>7. CASE c \notin pending[k]
    <3>1. /\ UNCHANGED <<chan, serve, held>> /\ c \notin pending'[on'[c]]
          /\ ~Blocks(c)'
      <4>1. UNCHANGED <<chan, serve, held>>
        BY <1>4, <1>7, <2>7
      <4>2. pending'[k] \subseteq pending[k]
        BY <1>0, <1>4, PendingLess
      <4>3. ~Blocks(c)'
        BY <2>2, <2>6, <4>1 DEF Blocks
      <4> QED BY <1>7, <2>6, <2>7, <4>1, <4>2, <4>3
    <3>2. Rise(c, up'[on'[c]], h, sent'[c])
      BY <2>5, <2>6
    <3>3. Ordered(c)'
      BY <2>1, <2>6, <3>1, <3>2 DEF Ordered
    <3>4. Exact(c)'
      BY <1>5, <2>6, <2>2, <3>1 DEF Exact
    <3> QED BY <3>3, <3>4
  <2>8. CASE c \in pending[k]
    <3>a. PICK a \in Nat, z \in Nat : a = Len(recvd[c]) /\ z = Len(chan[c])
      BY <1>5
    <3>1. /\ Depth(c) = StreamDepth /\ StreamDepth \in Nat /\ f.type # "resp"
          /\ DeliverStream(k, f)
      <4>1. f.type # "resp"
        BY <2>4 DEF Line
      <4> QED BY <1>1, <1>5, <4>1, StreamTypes, HubAssumption DEF ReaderReads
    <3>2. /\ f.type = "eof" => c \notin pending'[k]
          /\ pending'[k] \subseteq pending[k]
      <4>1. f.type = "eof" => c \notin pending'[k]
        BY <1>0, <1>7, <3>1 DEF DeliverStream
      <4> QED BY <1>0, <1>4, <4>1, PendingLess
    <3>3. shut[k] = "open" =>
             /\ \A i \in 1 .. Len(recvd[c]) : recvd[c][i] = i
             /\ \A i \in 1 .. Len(chan[c]) : Line(c, chan[c][i]) /\ chan[c][i].n = a + i
             /\ a + z <= sent[c] /\ Rise(c, up[k], a + z, sent[c]) /\ Complete(c, up[k], a + z, sent[c])
      <4>1. Reach(c) = a + z
        BY <2>2, <3>a DEF Reach
      <4>2. shut[k] = "open" => \A i \in 1 .. Len(chan[c]) : Line(c, chan[c][i]) /\ chan[c][i].n = a + i
        BY <1>5, <1>7, <2>8, <3>a, PendingLines
      <4> QED BY <1>5, <1>7, <2>8, <4>1, <4>2 DEF Exact
    <3>4. shut[k] = "open" /\ Line(c, f) =>
             /\ f.n = a + z + 1 /\ f.n <= sent[c]
             /\ Rise(c, up'[on'[c]], a + z + 1, sent[c]) /\ Complete(c, up'[on'[c]], a + z + 1, sent[c])
      <4> SUFFICES ASSUME shut[k] = "open", Line(c, f)
                   PROVE  /\ f.n = a + z + 1 /\ f.n <= sent[c]
                          /\ Rise(c, Tail(up[k]), a + z + 1, sent[c]) /\ Complete(c, Tail(up[k]), a + z + 1, sent[c])
        BY <2>2
      <4>1. PICK lo \in Nat : lo = a + z
        OBVIOUS
      <4>2. up[k] \in Seq(Frame) /\ up[k] # <<>> /\ Rise(c, up[k], lo, sent[c]) /\ Complete(c, up[k], lo, sent[c])
        BY <1>2, <1>5, <1>7, <3>3, <4>1
      <4>3. f.n = lo + 1 /\ f.n <= sent[c] /\ Rise(c, Tail(up[k]), f.n, sent[c]) /\ Complete(c, Tail(up[k]), lo + 1, sent[c])
        BY <1>1, <1>5, <4>2, LineTail
      <4> QED BY <4>1, <4>3
    <3>b. CASE shut[k] # "open" /\ UNCHANGED <<chan, serve, held>>
      <4>1. ~Blocks(c)'
        BY <2>2, <2>6, <3>b DEF Blocks
      <4>2. Rise(c, up'[on'[c]], h, sent'[c])
        BY <2>5, <2>6
      <4>3. Ordered(c)'
        BY <2>1, <2>6, <3>b, <4>1, <4>2 DEF Ordered
      <4>4. Exact(c)'
        BY <1>7, <2>6, <3>b DEF Exact
      <4> QED BY <4>3, <4>4
    <3>5. CASE /\ Len(chan[c]) < StreamDepth
               /\ chan' = [chan EXCEPT ![c] = Append(@, f)] /\ UNCHANGED <<serve, held>>
      <4>1. /\ chan'[c] = Append(chan[c], f) /\ UNCHANGED <<serve, held>> /\ ~Blocks(c)'
        <5>1. ~Blocks(c)'
          BY <2>2, <2>6, <3>5 DEF Blocks
        <5> QED BY <1>0, <1>5, <3>5, <5>1
      <4>2. Ordered(c)'
        <5>1. CASE Line(c, f)
          <6>1. h < f.n /\ f.n <= sent'[c] /\ Rise(c, up'[on'[c]], f.n, sent'[c])
            BY <2>3, <2>6, <5>1
          <6>2. Rise(c, chan'[c], r, f.n)
            <7>1. r < f.n /\ b < f.n
              BY <1>3, <2>1, <6>1
            <7> QED BY <1>3, <1>5, <2>1, <4>1, <5>1, <7>1, LineAppend
          <6>3. r <= f.n /\ f.n <= f.n
            BY <1>3, <2>1, <6>1
          <6> QED BY <1>3, <2>1, <2>6, <4>1, <6>1, <6>2, <6>3 DEF Ordered
        <5>2. CASE ~Line(c, f)
          <6>1. Rise(c, up'[on'[c]], h, sent'[c]) /\ Rise(c, chan'[c], r, b)
            BY <1>3, <1>5, <2>1, <2>3, <2>6, <4>1, <5>2, LineAppend
          <6> QED BY <2>1, <2>6, <4>1, <6>1 DEF Ordered
        <5> QED BY <5>1, <5>2
      <4>3. Exact(c)'
        <5>0. CASE shut[k] # "open"
          BY <1>7, <2>6, <5>0 DEF Exact
        <5>1. CASE shut[k] = "open" /\ Line(c, f)
          <6>1. Len(chan'[c]) = z + 1 /\ \A i \in 1 .. Len(chan'[c]) : Line(c, chan'[c][i]) /\ chan'[c][i].n = a + i
            <7>1. PICK s \in Seq(Frame) : s = chan[c]
              BY <1>5
            <7>2. z = Len(s) /\ f.n = a + z + 1 /\ \A i \in 1 .. Len(s) : Line(c, s[i]) /\ s[i].n = a + i
              BY <3>a, <3>3, <3>4, <5>1, <7>1
            <7>3. chan'[c] = Append(s, f)
              BY <4>1, <7>1
            <7>4. Len(Append(s, f)) = z + 1 /\ \A i \in 1 .. Len(Append(s, f)) : Line(c, Append(s, f)[i]) /\ Append(s, f)[i].n = a + i
              <8>1. PICK t : t = Append(s, f)
                OBVIOUS
              <8>2. Len(t) = z + 1 /\ \A i \in 1 .. Len(t) : Line(c, t[i]) /\ t[i].n = a + i
                <9>1. c \in Calls /\ f \in Frame /\ Line(c, f)
                  BY <1>3, <1>5, <5>1
                <9>2. /\ Len(Append(s, f)) = z + 1
                      /\ Line(c, f) /\ f.n = a + z + 1 =>
                           \A i \in 1 .. Len(Append(s, f)) : Line(c, Append(s, f)[i]) /\ Append(s, f)[i].n = a + i
                  BY <7>2, <9>1, GetsFrame
                <9> QED BY <7>2, <8>1, <9>1, <9>2
              <8> QED BY <8>1, <8>2
            <7> QED BY <7>3, <7>4
          <6>2. Reach(c)' = a + z + 1
            <7>1. Len(recvd'[c]) = a /\ Len(chan'[c]) = z + 1 /\ ~Blocks(c)'
              BY <2>6, <3>a, <4>1, <6>1
            <7>2. Reach(c)' = Len(recvd'[c]) + Len(chan'[c]) + 0
              BY <7>1 DEF Reach
            <7> QED BY <7>1, <7>2
          <6>3. c \in pending'[on'[c]] =>
                   /\ Reach(c)' <= sent'[c]
                   /\ Rise(c, up'[on'[c]], Reach(c)', sent'[c])
                   /\ Complete(c, up'[on'[c]], Reach(c)', sent'[c])
            BY <2>6, <3>4, <5>1, <6>2
          <6> QED BY <2>6, <3>a, <3>3, <4>1, <5>1, <6>1, <6>3 DEF Exact
        <5>2. CASE shut[k] = "open" /\ ~Line(c, f)
          <6>1. \A i \in 1 .. Len(chan'[c]) :
                    IF Line(c, chan'[c][i]) THEN chan'[c][i].n = a + i ELSE i = Len(chan'[c])
            <7>1. PICK s \in Seq(Frame) : s = chan[c]
              BY <1>5
            <7>2. z = Len(s) /\ \A i \in 1 .. Len(s) : Line(c, s[i]) /\ s[i].n = a + i
              BY <3>a, <3>3, <5>2, <7>1
            <7>3. chan'[c] = Append(s, f)
              BY <4>1, <7>1
            <7>4. \A i \in 1 .. Len(Append(s, f)) :
                     IF Line(c, Append(s, f)[i]) THEN Append(s, f)[i].n = a + i ELSE i = Len(Append(s, f))
              BY <1>3, <1>5, <5>2, <7>2, GetsFrame
            <7> QED BY <7>3, <7>4
          <6>2. c \notin pending'[on'[c]]
            BY <1>7, <2>4, <2>6, <3>2, <5>2
          <6> QED BY <2>6, <3>a, <3>3, <4>1, <5>2, <6>1, <6>2 DEF Exact
        <5> QED BY <5>0, <5>1, <5>2
      <4> QED BY <4>2, <4>3
    <3>6. CASE chan' = chan /\ serve' = [serve EXCEPT ![k] = "blocked"] /\ held' = [held EXCEPT ![k] = f]
      <4>1. /\ chan' = chan /\ serve'[k] = "blocked" /\ held'[k] = f /\ on'[c] = k /\ Blocks(c)'
        <5>1. serve'[k] = "blocked" /\ held'[k] = f /\ on'[c] = k
          BY <1>0, <1>7, <2>6, <3>6
        <5> QED BY <1>7, <3>6, <5>1 DEF Blocks
      <4>2. Ordered(c)'
        <5>1. CASE Line(c, f)
          <6>1. h < f.n /\ f.n <= sent'[c] /\ Rise(c, up'[on'[c]], f.n, sent'[c]) /\ b < f.n /\ b <= f.n
            <7>1. h < f.n /\ f.n <= sent[c] /\ Rise(c, up'[on'[c]], f.n, sent[c])
              BY <2>3, <5>1
            <7> QED BY <1>3, <2>1, <2>6, <7>1
          <6>2. /\ Rise(c, chan'[c], r, b) /\ f.n <= f.n
                /\ Blocks(c)' /\ Line(c, held'[on'[c]]) => b < held'[on'[c]].n /\ held'[on'[c]].n <= f.n
            BY <1>3, <2>1, <4>1, <6>1
          <6> QED BY <1>3, <2>1, <2>6, <6>1, <6>2 DEF Ordered
        <5>2. CASE ~Line(c, f)
          <6>1. Rise(c, up'[on'[c]], h, sent'[c]) /\ Rise(c, chan'[c], r, b)
            BY <2>1, <2>3, <2>6, <4>1, <5>2
          <6> QED BY <2>1, <2>6, <4>1, <5>2, <6>1 DEF Ordered
        <5> QED BY <5>1, <5>2
      <4>3. Exact(c)'
        <5>0. CASE shut[k] # "open"
          BY <1>7, <2>6, <5>0 DEF Exact
        <5>1. CASE shut[k] = "open"
          <6>1. \A i \in 1 .. Len(chan'[c]) : Line(c, chan'[c][i]) /\ chan'[c][i].n = Len(recvd'[c]) + i
            BY <2>6, <3>a, <3>3, <4>1, <5>1
          <6>2. Reach(c)' = a + z + 1
            BY <2>6, <3>a, <4>1 DEF Reach
          <6>3. ~Line(c, f) => c \notin pending'[on'[c]]
            BY <2>4, <3>2, <4>1
          <6>4. Line(c, f) => f.n = Len(recvd'[c]) + Len(chan'[c]) + 1
            BY <2>6, <3>a, <3>4, <4>1, <5>1
          <6>5. c \in pending'[on'[c]] =>
                   /\ Reach(c)' <= sent'[c]
                   /\ Rise(c, up'[on'[c]], Reach(c)', sent'[c])
                   /\ Complete(c, up'[on'[c]], Reach(c)', sent'[c])
            BY <2>6, <3>4, <5>1, <6>2, <6>3
          <6>6. \A i \in 1 .. Len(recvd'[c]) : recvd'[c][i] = i
            BY <2>6, <3>3, <5>1
          <6> QED BY <4>1, <6>1, <6>3, <6>4, <6>5, <6>6 DEF Exact
        <5> QED BY <5>0, <5>1
      <4> QED BY <4>2, <4>3
    <3> QED BY <1>7, <2>8, <3>1, <3>b, <3>5, <3>6 DEF DeliverStream
  <2> QED BY <2>7, <2>8
<1> QED BY <1>6, <1>7

\* A blocked reader hands its frame to the stream, or drops it because the Conn was closed.
LEMMA UnblocksLine ==
    ASSUME Types, Shape, StreamsInOrder, NEW k \in Sockets, ReaderUnblocks(k)
    PROVE  StreamsInOrder'
<1> SUFFICES ASSUME NEW c \in Streams, pc'[c] # "idle" PROVE Ordered(c)' /\ Exact(c)'
  BY DEF StreamsInOrder
<1>0. /\ chan \in [Calls -> Seq(Frame)] /\ held \in [Sockets -> Frame \cup {NoFrame}]
      /\ serve \in [Sockets -> {"none", "accepted", "displacing", "reading", "blocked", "removing", "done"}]
  BY DEF Types, TypeOK
<1>1. PICK f : f = held[k]
  OBVIOUS
<1>2. /\ serve[k] = "blocked" /\ serve' = [serve EXCEPT ![k] = "reading"] /\ held' = [held EXCEPT ![k] = NoFrame]
      /\ UNCHANGED <<shut, pending, up, pc, on, recvd, sent>>
      /\ \/ Len(chan[f.id]) < StreamDepth /\ chan' = [chan EXCEPT ![f.id] = Append(@, f)]
         \/ shut[k] # "open" /\ chan' = chan
  BY <1>1 DEF ReaderUnblocks, agentVars
<1>3. f \in Frame /\ f.id \in Streams /\ f.id \in Calls /\ f.n \in Nat /\ on[f.id] = k
  <2>1. f \in Frame /\ f.id \in Streams
    BY <1>1, <1>2 DEF Types, Holding
  <2> QED BY <1>1, <1>2, <2>1 DEF Frame, Shape, Mine
<1>5. /\ pc[c] # "idle" /\ Ordered(c) /\ Exact(c) /\ on[c] \in Sockets /\ c \in Calls
      /\ up[on[c]] \in Seq(Frame) /\ chan[c] \in Seq(Frame) /\ recvd[c] \in Seq(Nat) /\ sent[c] \in Nat
  BY <1>2, StreamTypes DEF StreamsInOrder
<1>6. CASE f.id # c
  <2>1. chan'[c] = chan[c]
    BY <1>0, <1>2, <1>3, <1>5, <1>6
  <2>2. CASE on[c] = k
    <3>1. ~Blocks(c)
      BY <1>1, <1>6, <2>2 DEF Blocks
    <3>2. serve'[k] = "reading"
      BY <1>0, <1>2
    <3>3. ~Blocks(c)'
      BY <1>2, <2>2, <3>2 DEF Blocks
    <3> QED BY <1>2, <1>5, <2>1, <3>1, <3>3, SameStream
  <2>3. CASE on[c] # k
    <3>1. serve'[on[c]] = serve[on[c]] /\ held'[on[c]] = held[on[c]]
      BY <1>0, <1>2, <1>5, <2>3
    <3>2. Blocks(c)' <=> Blocks(c)
      BY <1>2, <3>1 DEF Blocks
    <3> QED BY <1>2, <1>5, <2>1, <3>1, <3>2, SameStream
  <2> QED BY <2>2, <2>3
<1>7. CASE f.id = c
  <2>1. PICK r \in Nat, b \in Nat, h \in Nat :
        /\ r <= b /\ b <= h /\ h <= sent[c]
        /\ \A i \in 1 .. Len(recvd[c]) :
               /\ recvd[c][i] <= r
               /\ \A j \in 1 .. Len(recvd[c]) : i < j => recvd[c][i] < recvd[c][j]
        /\ Rise(c, chan[c], r, b)
        /\ Blocks(c) /\ Line(c, held[on[c]]) => b < held[on[c]].n /\ held[on[c]].n <= h
        /\ Rise(c, up[on[c]], h, sent[c])
    BY <1>5 DEF Ordered
  <2>2. on[c] = k /\ Blocks(c) /\ held[on[c]] = f
    BY <1>1, <1>2, <1>3, <1>7 DEF Blocks
  <2>3. ~Blocks(c)'
    <3>1. serve'[k] = "reading"
      BY <1>0, <1>2
    <3> QED BY <1>2, <2>2, <3>1 DEF Blocks
  <2>4. CASE shut[k] # "open" /\ chan' = chan
    <3>1. Exact(c)'
      BY <1>2, <2>2, <2>4 DEF Exact
    <3>2. Ordered(c)'
      BY <1>2, <2>1, <2>3, <2>4 DEF Ordered
    <3> QED BY <3>1, <3>2
  <2>5. CASE chan' = [chan EXCEPT ![f.id] = Append(@, f)]
    <3>1. chan'[c] = Append(chan[c], f)
      BY <1>0, <1>5, <1>7, <2>5
    <3>2. Ordered(c)'
      <4>1. CASE Line(c, f)
        <5>1. b < f.n /\ f.n <= h /\ r < f.n /\ r <= f.n
          BY <1>3, <2>1, <2>2, <4>1
        <5>2. Rise(c, chan'[c], r, f.n)
          BY <1>3, <1>5, <2>1, <3>1, <4>1, <5>1, LineAppend
        <5> QED BY <1>2, <1>3, <2>1, <2>3, <5>1, <5>2 DEF Ordered
      <4>2. CASE ~Line(c, f)
        <5>1. Rise(c, chan'[c], r, b)
          BY <1>3, <1>5, <2>1, <3>1, <4>2, LineAppend
        <5> QED BY <1>2, <2>1, <2>3, <5>1 DEF Ordered
      <4> QED BY <4>1, <4>2
    <3>3. Exact(c)'
      <4>0. CASE shut[k] # "open"
        BY <1>2, <2>2, <4>0 DEF Exact
      <4> SUFFICES ASSUME shut[k] = "open" PROVE Exact(c)'
        BY <4>0
      <4>a. PICK a \in Nat, z \in Nat : a = Len(recvd[c]) /\ z = Len(chan[c])
        BY <1>5
      <4>b. PICK s \in Seq(Frame) : s = chan[c]
        BY <1>5
      <4>1. /\ z = Len(s) /\ \A i \in 1 .. Len(s) : Line(c, s[i]) /\ s[i].n = a + i
        BY <1>5, <2>2, <4>a, <4>b, PendingLines
      <4>2. /\ \A i \in 1 .. Len(recvd[c]) : recvd[c][i] = i
            /\ IF Line(c, f) THEN f.n = a + z + 1 ELSE c \notin pending[k]
            /\ c \in pending[k] =>
                   /\ Reach(c) <= sent[c]
                   /\ Rise(c, up[k], Reach(c), sent[c])
                   /\ Complete(c, up[k], Reach(c), sent[c])
        BY <1>5, <2>2, <4>a DEF Exact
      <4>3. PICK t : t = Append(s, f) /\ t = chan'[c]
        BY <3>1, <4>b
      <4>4. /\ Len(t) = z + 1
            /\ Line(c, f) => \A i \in 1 .. Len(t) : Line(c, t[i]) /\ t[i].n = a + i
            /\ ~Line(c, f) => \A i \in 1 .. Len(t) : IF Line(c, t[i]) THEN t[i].n = a + i ELSE i = Len(t)
        <5>0. c \in Calls /\ f \in Frame
          BY <1>3, <1>5
        <5>1. Line(c, f) /\ f.n = a + z + 1 =>
                 \A i \in 1 .. Len(Append(s, f)) : Line(c, Append(s, f)[i]) /\ Append(s, f)[i].n = a + i
          <6>1. Numbered(c, s, a)
            BY <4>1 DEF Numbered
          <6>2. Line(c, f) /\ f.n = a + z + 1 => Numbered(c, Append(s, f), a)
            BY <4>1, <5>0, <6>1, GetsLine
          <6> QED BY <6>2 DEF Numbered
        <5>2. ~Line(c, f) =>
                 \A i \in 1 .. Len(Append(s, f)) :
                     IF Line(c, Append(s, f)[i]) THEN Append(s, f)[i].n = a + i ELSE i = Len(Append(s, f))
          BY <4>1, <5>0, GetsFrame
        <5>3. Len(Append(s, f)) = z + 1
          BY <4>1, <5>0
        <5> QED BY <4>2, <4>3, <5>1, <5>2, <5>3
      <4>5. Reach(c)' = Reach(c)
        <5>1. Len(recvd'[c]) = a /\ Len(chan'[c]) = z + 1
          BY <1>2, <4>3, <4>4, <4>a
        <5>2. Reach(c)' = a + (z + 1) + 0
          BY <2>3, <5>1 DEF Reach
        <5>3. Reach(c) = a + z + 1
          BY <2>2, <4>a DEF Reach
        <5> QED BY <5>2, <5>3
      <4>6. /\ \A i \in 1 .. Len(recvd'[c]) : recvd'[c][i] = i
            /\ \A i \in 1 .. Len(chan'[c]) :
                   IF Line(c, chan'[c][i]) THEN chan'[c][i].n = Len(recvd'[c]) + i
                   ELSE i = Len(chan'[c]) /\ c \notin pending'[on'[c]] /\ ~Blocks(c)'
        <5>1. Len(recvd'[c]) = a /\ recvd' = recvd /\ pending'[on'[c]] = pending[k]
          BY <1>2, <2>2, <4>a
        <5> QED BY <2>3, <4>2, <4>3, <4>4, <5>1
      <4>7. c \in pending'[on'[c]] =>
                   /\ Reach(c)' <= sent'[c]
                   /\ Rise(c, up'[on'[c]], Reach(c)', sent'[c])
                   /\ Complete(c, up'[on'[c]], Reach(c)', sent'[c])
        BY <1>2, <2>2, <4>2, <4>5
      <4> QED BY <2>3, <4>6, <4>7 DEF Exact
    <3> QED BY <3>2, <3>3
  <2> QED BY <1>2, <2>4, <2>5
<1> QED BY <1>6, <1>7

\* The shutdown of a Conn ends what is registered on it; nothing but its error frame is added.
LEMMA SweepLine ==
    ASSUME Types, Shape, StreamsInOrder, NEW k \in Sockets, ShutdownSweep(k)
    PROVE  StreamsInOrder'
<1> SUFFICES ASSUME NEW c \in Streams, pc'[c] # "idle" PROVE Ordered(c)' /\ Exact(c)'
  BY DEF StreamsInOrder
<1>1. /\ shut \in [Sockets -> {"open", "closed", "swept"}] /\ pending \in [Sockets -> SUBSET Calls]
  BY DEF Types, TypeOK
<1>2. /\ shut' = [shut EXCEPT ![k] = "swept"] /\ pending' = [pending EXCEPT ![k] = {}]
      /\ UNCHANGED <<serve, held, up, pc, on, recvd, sent>>
  BY DEF ShutdownSweep, agentVars
<1>3. /\ pc[c] # "idle" /\ Ordered(c) /\ Exact(c) /\ on[c] \in Sockets /\ c \in Calls
      /\ chan[c] \in Seq(Frame) /\ recvd[c] \in Seq(Nat) /\ sent[c] \in Nat
  BY <1>2, StreamTypes DEF StreamsInOrder
<1>4. chan'[c] = IF c \in pending[k] /\ Len(chan[c]) < Depth(c) THEN Append(chan[c], F("fail", c, 0)) ELSE chan[c]
  BY <1>3 DEF ShutdownSweep
<1>5. CASE on[c] # k
  <2>1. c \notin pending[k]
    BY <1>5 DEF Shape, Mine
  <2>2. chan'[c] = chan[c]
    BY <1>4, <2>1
  <2>3. shut'[on[c]] = shut[on[c]] /\ pending'[on[c]] = pending[on[c]]
    BY <1>1, <1>2, <1>3, <1>5
  <2>4. Blocks(c)' <=> Blocks(c)
    BY <1>2 DEF Blocks
  <2> QED BY <1>2, <1>3, <2>2, <2>3, <2>4, SameStream
<1>6. CASE on[c] = k
  <2>1. shut'[on'[c]] # "open"
    BY <1>1, <1>2, <1>6
  <2>2. Exact(c)'
    BY <2>1 DEF Exact
  <2>3. F("fail", c, 0) \in Frame /\ ~Line(c, F("fail", c, 0))
    BY <1>3, FrameType DEF Line, F
  <2>4. \A r, b \in Nat : Rise(c, chan[c], r, b) => Rise(c, chan'[c], r, b)
    BY <1>3, <1>4, <2>3, LineAppend
  <2>5. Blocks(c)' <=> Blocks(c)
    BY <1>2 DEF Blocks
  <2>6. Ordered(c)'
    <3>1. PICK r \in Nat, b \in Nat, h \in Nat :
        /\ r <= b /\ b <= h /\ h <= sent[c]
        /\ \A i \in 1 .. Len(recvd[c]) :
               /\ recvd[c][i] <= r
               /\ \A j \in 1 .. Len(recvd[c]) : i < j => recvd[c][i] < recvd[c][j]
        /\ Rise(c, chan[c], r, b)
        /\ Blocks(c) /\ Line(c, held[on[c]]) => b < held[on[c]].n /\ held[on[c]].n <= h
        /\ Rise(c, up[on[c]], h, sent[c])
      BY <1>3 DEF Ordered
    <3>2. Blocks(c)' /\ Line(c, held'[on'[c]]) => b < held'[on'[c]].n /\ held'[on'[c]].n <= h
      BY <1>2, <2>5, <3>1
    <3>3. Rise(c, chan'[c], r, b)
      BY <2>4, <3>1
    <3> QED BY <1>2, <3>1, <3>2, <3>3 DEF Ordered
  <2> QED BY <2>2, <2>6
<1> QED BY <1>5, <1>6

\* Opening, displacing and closing sockets moves no line.
LEMMA SocketLines ==
    ASSUME Types, Shape, StreamsInOrder, NEW k \in Sockets,
           \/ AgentDials(k) \/ SocketDies(k) \/ SessionEnds(k) \/ Register(k)
           \/ DisplacePrevious(k) \/ ReaderFails(k) \/ Remove(k) \/ AgentReads(k)
    PROVE  StreamsInOrder'
<1>1. UNCHANGED <<recvd, chan, sent, held, up, on, pc, pending>>
  BY DEF AgentDials, SocketDies, SessionEnds, Register, DisplacePrevious, ReaderFails, Remove, AgentReads,
         socketVars, callVars, agentVars
<1>2. /\ serve \in [Sockets -> {"none", "accepted", "displacing", "reading", "blocked", "removing", "done"}]
      /\ shut \in [Sockets -> {"open", "closed", "swept"}]
  BY DEF Types, TypeOK
<1>3. \/ serve' = serve
      \/ serve[k] # "blocked" /\ \E x \in {"accepted", "displacing", "reading", "removing", "done"} : serve' = [serve EXCEPT ![k] = x]
  <2>1. CASE AgentDials(k)
    BY <2>1 DEF AgentDials, Types, Fresh
  <2>2. CASE \/ SocketDies(k) \/ SessionEnds(k) \/ AgentReads(k)
    BY <2>2 DEF SocketDies, SessionEnds, AgentReads, socketVars
  <2>3. CASE \/ Register(k) \/ DisplacePrevious(k) \/ ReaderFails(k) \/ Remove(k)
    BY <2>3 DEF Register, DisplacePrevious, ReaderFails, Remove
  <2> QED BY <2>1, <2>2, <2>3
<1>4. \A j \in Sockets : serve'[j] = "blocked" <=> serve[j] = "blocked"
  <2> SUFFICES ASSUME NEW j \in Sockets PROVE serve'[j] = "blocked" <=> serve[j] = "blocked"
    OBVIOUS
  <2>1. CASE serve' = serve
    BY <2>1
  <2>2. CASE serve' # serve
    <3>1. PICK x \in {"accepted", "displacing", "reading", "removing", "done"} :
             serve[k] # "blocked" /\ serve' = [serve EXCEPT ![k] = x]
      BY <1>3, <2>2
    <3> QED BY <1>2, <3>1
  <2> QED BY <2>1, <2>2
<1>5. \A j \in Sockets : shut'[j] = "open" => shut[j] = "open"
  <2>1. \/ shut' = shut
        \/ shut' = [shut EXCEPT ![prev[k]] = "closed"]
        \/ shut' = [shut EXCEPT ![k] = IF @ = "open" THEN "closed" ELSE @]
    BY DEF AgentDials, SocketDies, SessionEnds, Register, DisplacePrevious, ReaderFails, Remove, AgentReads,
           socketVars
  <2>2. CASE shut' = [shut EXCEPT ![prev[k]] = "closed"]
    <3>1. PICK j : j = prev[k]
      OBVIOUS
    <3>2. shut' = [shut EXCEPT ![j] = "closed"]
      BY <2>2, <3>1
    <3> QED BY <1>2, <3>2
  <2> QED BY <1>2, <2>1, <2>2
<1> QED BY <1>1, <1>4, <1>5, QuietStreams

\* Callers that write, leave or give up move no line.
LEMMA CallerLines ==
    ASSUME Types, Shape, StreamsInOrder, NEW c \in Calls,
           \/ CallChecks(c) \/ CallWrites(c) \/ CallSeesClosed(c) \/ CallCancelled(c) \/ StreamLeft(c)
    PROVE  StreamsInOrder'
<1>1. /\ UNCHANGED <<recvd, chan, sent, held, up, on, serve, shut>>
      /\ pc[c] # "idle"
      /\ \E x : pc' = [pc EXCEPT ![c] = x]
      /\ pending' = pending \/ pending' = [pending EXCEPT ![on[c]] = @ \ {c}]
  BY DEF CallChecks, CallWrites, CallSeesClosed, CallCancelled, StreamLeft, Return, socketVars, callVars, agentVars
<1>2. \A j \in Sockets : pending'[j] \subseteq pending[j]
  <2>1. pending \in [Sockets -> SUBSET Calls]
    BY DEF Types, TypeOK
  <2> QED BY <1>1, <2>1, PendingLess
<1>3. \A d \in Streams : pc'[d] # "idle" => pc[d] # "idle"
  <2>1. pc \in [Calls -> {"idle", "got", "checked", "registered", "waiting", "returned"}] /\ Streams \subseteq Calls
    BY DEF Types, TypeOK, Calls
  <2> QED BY <1>1, <2>1
<1> QED BY <1>1, <1>2, <1>3, QuietStreams

\* Answers, and the begin and end of a stream's handler, add no line.
LEMMA AgentLines ==
    ASSUME Types, Shape, StreamsInOrder, NEW c \in Calls,
           \/ c \in Unary /\ AgentAnswers(c)
           \/ c \in Streams /\ (StreamStarts(c) \/ StreamStops(c))
    PROVE  StreamsInOrder'
<1> SUFFICES ASSUME NEW d \in Streams, pc'[d] # "idle" PROVE Ordered(d)' /\ Exact(d)'
  BY DEF StreamsInOrder
<1>1. /\ UNCHANGED <<socketVars, callVars>> /\ sent' = sent
      /\ \/ up' = up
         \/ AgentWrites(c, "resp", 0)
         \/ AgentWrites(c, "eof", 0)
  BY DEF AgentAnswers, StreamStarts, StreamStops
<1>2. pc[d] # "idle" /\ sent'[d] = sent[d]
  BY <1>1 DEF callVars
<1>3. CASE up' = up \/ AgentWrites(c, "resp", 0)
  <2>1. "resp" \in {"resp", "item", "eof"} /\ "resp" # "item" /\ 0 \in Nat
    OBVIOUS
  <2> QED BY <1>1, <1>2, <1>3, <2>1, SendsOther
<1>4. CASE AgentWrites(c, "eof", 0)
  <2>1. "eof" \in {"resp", "item", "eof"} /\ "eof" # "item" /\ 0 \in Nat
    OBVIOUS
  <2> QED BY <1>1, <1>2, <1>4, <2>1, SendsOther
<1> QED BY <1>1, <1>3, <1>4

\* Every step keeps the lines in order.
LEMMA StreamsStep == Types /\ Shape /\ StreamsInOrder /\ [Next]_vars => StreamsInOrder'
<1> SUFFICES ASSUME Types, Shape, StreamsInOrder, [Next]_vars PROVE StreamsInOrder'
  OBVIOUS
<1>1. CASE SocketNext
  BY <1>1, SocketLines, SweepLine, ReadsLine, UnblocksLine DEF SocketNext
<1>2. CASE CallNext
  <2>1. CASE \E c \in Calls :
        \/ CallGets(c) \/ CallChecks(c) \/ CallRegisters(c) \/ CallWrites(c)
        \/ CallSeesClosed(c) \/ CallCancelled(c) \/ CallReceives(c)
    BY <2>1, BeginsStream, CallerLines, ReceivesLine
  <2>2. CASE \E c \in Unary : AgentAnswers(c)
    BY <2>2, AgentLines DEF Calls
  <2>3. CASE \E c \in Streams : StreamLeft(c) \/ StreamStarts(c) \/ StreamSends(c) \/ StreamStops(c)
    BY <2>3, CallerLines, AgentLines, SendsLine DEF Calls
  <2> QED BY <1>2, <2>1, <2>2, <2>3 DEF CallNext
<1>3. CASE UNCHANGED vars
  BY <1>3, QuietStreams DEF vars, socketVars, callVars, agentVars
<1> QED BY <1>1, <1>2, <1>3 DEF Next

\* Nothing has been sent.
LEMMA StreamsInit == Init => Shape /\ StreamsInOrder
<1> SUFFICES ASSUME Init PROVE Shape /\ StreamsInOrder
  OBVIOUS
<1>1. Len(<<>>) = 0 /\ \A c : NoneOf(c, <<>>)
  <2>1. Len(<<>>) = 0
    OBVIOUS
  <2> QED BY <2>1 DEF NoneOf
<1>2. Unsent /\ Untouched
  BY <1>1 DEF Init, Unsent, Untouched
<1>3. Mine
  BY DEF Init, Mine
<1>4. Addressed
  BY <1>1 DEF Init, Addressed
<1>5. StreamsInOrder
  BY DEF Init, StreamsInOrder, Calls
<1> QED BY <1>2, <1>3, <1>4, <1>5 DEF Shape

\* A caller that follows the log of a node reads its lines as they were sent: none twice,
\* none out of order, and none missing for as long as its Conn is open, whatever is buffered,
\* held by a blocked reader or still on the socket.
THEOREM StreamsNeverGap == Spec => []NoStreamGap
<1> DEFINE IInv == Types /\ Shape /\ StreamsInOrder
<1>1. Init => IInv
  BY TypesInit, StreamsInit
<1>2. IInv /\ [Next]_vars => IInv'
  BY TypesStep, UnsentStep, MineStep, StreamsStep DEF Shape
<1>3. IInv => NoStreamGap
  <2> SUFFICES ASSUME Types, Shape, StreamsInOrder, NEW c \in Streams, NEW i \in 1 .. Len(recvd[c])
               PROVE  /\ shut[on[c]] = "open" => recvd[c][i] = i
                      /\ i > 1 => recvd[c][i - 1] < recvd[c][i]
    BY DEF NoStreamGap
  <2>1. c \in Calls /\ recvd[c] \in Seq(Nat)
    BY DEF Calls, Types, TypeOK
  <2>2. CASE pc[c] = "idle"
    <3>1. recvd[c] = <<>>
      BY <2>1, <2>2 DEF Shape, Untouched, Early
    <3>2. FALSE
      BY <3>1
    <3> QED BY <3>2
  <2>3. CASE pc[c] # "idle"
    <3>1. Ordered(c) /\ Exact(c)
      BY <2>3 DEF StreamsInOrder
    <3>2. \A m \in 1 .. Len(recvd[c]) : \A j \in 1 .. Len(recvd[c]) : m < j => recvd[c][m] < recvd[c][j]
      BY <3>1 DEF Ordered
    <3>3. shut[on[c]] = "open" => recvd[c][i] = i
      BY <3>1 DEF Exact
    <3>4. i > 1 => i - 1 \in 1 .. Len(recvd[c]) /\ i - 1 < i
      BY <2>1
    <3> QED BY <3>2, <3>3, <3>4
  <2> QED BY <2>2, <2>3
<1> QED BY <1>1, <1>2, <1>3, PTL DEF Spec
=============================================================================
