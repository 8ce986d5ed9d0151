---------------------------- MODULE AgentChannel ----------------------------
(***************************************************************************)
(* The typed command channel between the control plane and an agent:       *)
(* agentwire.Conn (internal/agentwire/conn.go), its owner and registry     *)
(* (internal/handlers/agent.go, agentconn.go), and at the other end the    *)
(* channel and the executor of the agent (internal/agent/agent.go,         *)
(* executor.go).                                                           *)
(*                                                                         *)
(* A channel is one WebSocket: two FIFO links that are lost together.  The *)
(* two ends notice the loss at different times.  Every call is a command   *)
(* with a result, or a stream: an acknowledging result and then chunks.    *)
(***************************************************************************)
EXTENDS Naturals, Sequences, FiniteSets

CONSTANTS
    Calls,      \* calls of Command, Stream or Attach
    Streams,    \* those that are streams
    Follows,    \* streams without an end of their own (logs -f, events)
    Chunks,     \* data chunks of a stream that ends
    Buffer,     \* conn.go: StreamBuffer
    Window,     \* bound: frames in flight towards the control plane
    DownWindow, \* bound: frames towards the agent when a chunk is shed
    Channels,   \* 1 .. n: connections, in the order they are dialled
    None

ASSUME ChannelAssumption ==
    /\ IsFiniteSet(Calls) /\ IsFiniteSet(Channels)
    /\ Streams \subseteq Calls /\ Follows \subseteq Streams
    /\ Chunks \in Nat
    /\ Buffer \in Nat \ {0} /\ Window \in Nat \ {0} /\ DownWindow \in Nat \ {0}
    /\ Channels = 1 .. Cardinality(Channels)
    /\ None \notin Calls \cup Channels

VARIABLES
    chan,      \* the connections: their state at both ends and in between
    registry,  \* AgentConns: the channel calls are routed to
    down, up,  \* frames towards the agent, and towards the control plane
    nextID,    \* Conn.nextID, one per channel
    shed,      \* the read loop has found this stream's buffer full
    call,      \* control plane: the calls
    exec,      \* agent: the goroutine that executes a call's command
    inflight   \* Executor.inflight, keyed by the command id only

vars == <<chan, registry, down, up, nextID, shed, call, exec, inflight>>

Ids == 1 .. Cardinality(Calls)

NoCall == [pc |-> "idle", ch |-> None, id |-> 0, listed |-> FALSE,
           res |-> "none", from |-> None, chunks |-> <<>>, got |-> <<>>,
           end |-> "none", ctxDone |-> FALSE]
NoExec == [pc |-> "none", cancelled |-> FALSE, sent |-> 0, ok |-> FALSE]

Init ==
    /\ chan = [h \in Channels |-> [cp |-> "none", ag |-> "none",
                                   wire |-> FALSE]]
    /\ registry = None
    /\ down = [h \in Channels |-> <<>>]
    /\ up = [h \in Channels |-> <<>>]
    /\ nextID = [h \in Channels |-> 0]
    /\ shed = [h \in Channels |-> None]
    /\ call = [c \in Calls |-> NoCall]
    /\ exec = [c \in Calls |-> NoExec]
    /\ inflight = [i \in Ids |-> None]

Data == 1 .. Chunks
\* A frame names the command by its id; of is the call it really belongs to.
\* Only a data chunk has a number other than 0.
Frame(type, id, c, n) == [type |-> type, id |-> id, of |-> c, n |-> n]
ResultTypes == {"ok", "error"}
ChunkTypes == {"data", "eof", "fault"}
Chunk(type, n) == [type |-> type, n |-> n]

-----------------------------------------------------------------------------
(* The connection.                                                         *)

\* dialWS succeeds: the agent has no channel and the next one is accepted.
Dial(h) ==
    /\ chan[h].cp = "none"
    /\ \A g \in Channels : g < h => chan[g].ag = "closed"
    /\ chan' = [chan EXCEPT ![h] = [cp |-> "accepted", ag |-> "live",
                                    wire |-> TRUE]]
    /\ UNCHANGED <<registry, down, up, nextID, shed, call, exec, inflight>>

\* AgentConns.register: the latest registration wins.
Register(h) ==
    /\ chan[h].cp = "accepted"
    /\ chan' = [chan EXCEPT ![h].cp = "live"]
    /\ registry' = h
    /\ UNCHANGED <<down, up, nextID, shed, call, exec, inflight>>

\* The network loses the connection, and every frame in flight.
Break(h) ==
    /\ chan[h].wire
    /\ chan' = [chan EXCEPT ![h].wire = FALSE]
    /\ down' = [down EXCEPT ![h] = <<>>]
    /\ up' = [up EXCEPT ![h] = <<>>]
    /\ UNCHANGED <<registry, nextID, shed, call, exec, inflight>>

\* A read or a ping fails: AgentChannel returns, its context ends and the
\* channel is unregistered unless another has replaced it.
CloseCP(h) ==
    /\ chan[h].cp = "live" /\ ~chan[h].wire
    /\ chan' = [chan EXCEPT ![h].cp = "closed"]
    /\ registry' = IF registry = h THEN None ELSE registry
    /\ shed' = [shed EXCEPT ![h] = None]
    /\ UNCHANGED <<down, up, nextID, call, exec, inflight>>

\* closeWS, once the flusher has failed to send a batch: the context of the
\* commands of this channel ends.
CloseAgent(h) ==
    /\ chan[h].ag = "live" /\ ~chan[h].wire
    /\ chan' = [chan EXCEPT ![h].ag = "closed"]
    /\ exec' = [c \in Calls |-> IF call[c].ch = h
                                THEN [exec[c] EXCEPT !.cancelled = TRUE]
                                ELSE exec[c]]
    /\ UNCHANGED <<registry, down, up, nextID, shed, call, inflight>>

\* The same on a connection that is fine: sendWS has waited in vain for the
\* acknowledgement of a batch.  The control plane may still read what was sent.
AckTimesOut(h) ==
    /\ chan[h].ag = "live" /\ chan[h].wire
    /\ chan' = [chan EXCEPT ![h].ag = "closed", ![h].wire = FALSE]
    /\ down' = [down EXCEPT ![h] = <<>>]
    /\ up' \in {up, [up EXCEPT ![h] = <<>>]}
    /\ exec' = [c \in Calls |-> IF call[c].ch = h
                                THEN [exec[c] EXCEPT !.cancelled = TRUE]
                                ELSE exec[c]]
    /\ UNCHANGED <<registry, nextID, shed, call, inflight>>

-----------------------------------------------------------------------------
(* Control plane: Command, Stream and stream.                              *)

Alive(h) == chan[h].cp = "live"

\* WriteFrame: a frame written to a lost connection is lost, whether or not
\* the write reports it.
Sent(h, f) == IF chan[h].wire THEN [down EXCEPT ![h] = Append(@, f)] ELSE down

CancelFrame(c) == Frame("cancel", call[c].id, c, 0)

\* The call returns, and finish takes it out of Conn.calls: what it held is
\* garbage.
Returned(c, end) ==
    [NoCall EXCEPT !.pc = "returned", !.ch = call[c].ch, !.id = call[c].id,
                   !.end = end,
                   !.got = IF end = "eof" THEN call[c].got ELSE <<>>]

\* Faulty variant of Open: an id is handed out twice.
OpenSameID(c) ==
    /\ call[c].pc = "idle" /\ registry # None
    /\ nextID' = [nextID EXCEPT ![registry] = 1]
    /\ call' = [call EXCEPT ![c] = [@ EXCEPT !.pc = "writing",
                  !.ch = registry, !.id = 1, !.listed = TRUE]]
    /\ UNCHANGED <<chan, registry, down, up, shed, exec, inflight>>

\* dynamicSender.current, open and start.
Open(c) ==
    /\ call[c].pc = "idle" /\ registry # None
    /\ nextID' = [nextID EXCEPT ![registry] = @ + 1]
    /\ call' = [call EXCEPT ![c] = [@ EXCEPT !.pc = "writing",
                  !.ch = registry, !.id = nextID[registry] + 1,
                  !.listed = TRUE]]
    /\ UNCHANGED <<chan, registry, down, up, shed, exec, inflight>>

OpenUnavailable(c) ==
    /\ call[c].pc = "idle" /\ registry = None
    /\ call' = [call EXCEPT ![c] = Returned(c, "unavailable")]
    /\ UNCHANGED <<chan, registry, down, up, nextID, shed, exec, inflight>>

WriteCommand(c) ==
    LET h == call[c].ch IN
    /\ call[c].pc = "writing"
    /\ \/ /\ Alive(h)
          /\ down' = Sent(h, Frame("cmd", call[c].id, c, 0))
          /\ call' = [call EXCEPT ![c].pc = "waiting"]
       \/ /\ ~chan[h].wire
          /\ call' = [call EXCEPT ![c] = Returned(c, "unavailable")]
          /\ UNCHANGED down
    /\ UNCHANGED <<chan, registry, up, nextID, shed, exec, inflight>>

\* The caller's context ends.
CtxEnds(c) ==
    /\ call[c].pc \in {"writing", "waiting", "reading"} /\ ~call[c].ctxDone
    /\ call' = [call EXCEPT ![c].ctxDone = TRUE]
    /\ UNCHANGED <<chan, registry, down, up, nextID, shed, exec, inflight>>

\* The three cases of the select, any of which is taken when several are
\* ready.
AwaitCanceled(c) ==
    /\ call[c].pc = "waiting" /\ call[c].ctxDone
    /\ down' = Sent(call[c].ch, CancelFrame(c))
    /\ call' = [call EXCEPT ![c] = Returned(c, "canceled")]
    /\ UNCHANGED <<chan, registry, up, nextID, shed, exec, inflight>>

\* Faulty variant of AwaitClosed: only a context that ends interrupts it.
AwaitClosedAndCanceled(c) ==
    /\ call[c].pc = "waiting" /\ ~Alive(call[c].ch) /\ call[c].ctxDone
    /\ call' = [call EXCEPT ![c] = Returned(c, "unavailable")]
    /\ UNCHANGED <<chan, registry, down, up, nextID, shed, exec, inflight>>

AwaitClosed(c) ==
    /\ call[c].pc = "waiting" /\ ~Alive(call[c].ch)
    /\ call' = [call EXCEPT ![c] = Returned(c, "unavailable")]
    /\ UNCHANGED <<chan, registry, down, up, nextID, shed, exec, inflight>>

AwaitResult(c) ==
    /\ call[c].pc = "waiting" /\ call[c].res # "none"
    /\ call' = [call EXCEPT ![c] =
                  IF call[c].res = "ok" /\ c \in Streams
                  THEN [@ EXCEPT !.pc = "reading"]
                  ELSE Returned(c, call[c].res)]
    /\ UNCHANGED <<chan, registry, down, up, nextID, shed, exec, inflight>>

\* stream.Read: the next chunk, or an end that every later Read repeats.
ReadChunk(c) ==
    LET chunk == Head(call[c].chunks) IN
    /\ call[c].pc = "reading" /\ call[c].end = "none"
    /\ call[c].chunks # <<>>
    /\ call' = [call EXCEPT
                 ![c].chunks = Tail(@),
                 ![c].got = IF chunk.type = "data" /\ c \notin Follows
                            THEN Append(@, chunk.n) ELSE @,
                 ![c].end = IF chunk.type = "data" THEN @ ELSE chunk.type]
    /\ UNCHANGED <<chan, registry, down, up, nextID, shed, exec, inflight>>

ReadInterrupted(c) ==
    /\ call[c].pc = "reading" /\ call[c].end = "none"
    /\ \/ /\ call[c].ctxDone
          /\ call' = [call EXCEPT ![c].end = "interrupted"]
       \/ /\ ~Alive(call[c].ch)
          /\ call' = [call EXCEPT ![c].end = "unavailable"]
    /\ UNCHANGED <<chan, registry, down, up, nextID, shed, exec, inflight>>

\* stream.Close, after the last Read or before it: the peer is told to stop,
\* except after a clean end and after the caller's own context has ended.
CloseStream(c) ==
    LET end == call[c].end IN
    /\ call[c].pc = "reading"
    /\ down' = IF end = "none" \/ (end # "eof" /\ ~call[c].ctxDone)
               THEN Sent(call[c].ch, CancelFrame(c)) ELSE down
    /\ call' = [call EXCEPT ![c] = Returned(c, IF end = "none" THEN "closed"
                                               ELSE end)]
    /\ UNCHANGED <<chan, registry, up, nextID, shed, exec, inflight>>

-----------------------------------------------------------------------------
(* Control plane: the read loop of the channel's owner.                    *)

\* Conn.lookup.
Listed(h, id) ==
    {c \in Calls : call[c].listed /\ call[c].ch = h /\ call[c].id = id}

\* DeliverResult: the first result wins.
DeliverResult(h) ==
    /\ Alive(h) /\ shed[h] = None
    /\ up[h] # <<>> /\ Head(up[h]).type \in ResultTypes
    /\ up' = [up EXCEPT ![h] = Tail(@)]
    /\ LET f == Head(up[h]) IN
       call' = [c \in Calls |->
                  IF c \in Listed(h, f.id) /\ call[c].res = "none"
                  THEN [call[c] EXCEPT !.res = f.type, !.from = f.of]
                  ELSE call[c]]
    /\ UNCHANGED <<chan, registry, down, nextID, shed, exec, inflight>>

\* A send to the stream's channel would block.
Full(c) == Len(call[c].chunks) >= Buffer

\* DeliverChunk: the chunk is queued, dropped when nobody waits for it, or
\* found to overflow the stream's buffer.
DeliverChunk(h) ==
    /\ Alive(h) /\ shed[h] = None
    /\ up[h] # <<>> /\ Head(up[h]).type \in ChunkTypes
    /\ up' = [up EXCEPT ![h] = Tail(@)]
    /\ LET f == Head(up[h])
           l == Listed(h, f.id) \cap Streams
           full == {c \in l : Full(c)}
       IN  /\ call' = [c \in Calls |->
                         IF c \in l \ full
                         THEN [call[c] EXCEPT !.chunks = Append(@, Chunk(f.type, f.n))]
                         ELSE call[c]]
           /\ shed' = [shed EXCEPT ![h] = IF full = {} THEN None
                                          ELSE CHOOSE c \in full : TRUE]
    /\ UNCHANGED <<chan, registry, down, nextID, exec, inflight>>

\* Faulty variant of ShedChunk: the overflowing chunk is dropped quietly.
ShedQuietly(h) ==
    /\ shed[h] # None
    /\ shed' = [shed EXCEPT ![h] = None]
    /\ UNCHANGED <<chan, registry, down, up, nextID, call, exec, inflight>>

\* The rest of DeliverChunk on a full buffer: CancelRemote, one chunk is
\* shed, and an error takes the place of the chunk that did not fit.  The
\* reader may have taken chunks in the meantime.
ShedChunk(h) ==
    LET c == shed[h] IN
    /\ c # None /\ Len(down[h]) < DownWindow
    /\ down' = Sent(h, CancelFrame(c))
    /\ call' = [call EXCEPT ![c].chunks =
                  Append(IF @ = <<>> THEN @ ELSE Tail(@), Chunk("fault", 0))]
    /\ shed' = [shed EXCEPT ![h] = None]
    /\ UNCHANGED <<chan, registry, up, nextID, exec, inflight>>

-----------------------------------------------------------------------------
(* Agent: the read loop and Executor.Execute.                              *)

AgentReads(h) == chan[h].ag = "live" /\ down[h] # <<>>

\* A command is handed to a goroutine of its own.
ReceiveCommand(h) ==
    /\ AgentReads(h) /\ Head(down[h]).type = "cmd"
    /\ down' = [down EXCEPT ![h] = Tail(@)]
    /\ exec' = [exec EXCEPT ![Head(down[h]).of].pc = "spawned"]
    /\ UNCHANGED <<chan, registry, up, nextID, shed, call, inflight>>

\* Executor.Cancel cancels what inflight holds under the id, if anything.
ReceiveCancel(h) ==
    /\ AgentReads(h) /\ Head(down[h]).type = "cancel"
    /\ down' = [down EXCEPT ![h] = Tail(@)]
    /\ LET c == inflight[Head(down[h]).id] IN
       exec' = IF c = None THEN exec ELSE [exec EXCEPT ![c].cancelled = TRUE]
    /\ UNCHANGED <<chan, registry, up, nextID, shed, call, inflight>>

\* The goroutine is scheduled and registers its cancel function.
ExecuteStart(c) ==
    /\ exec[c].pc = "spawned"
    /\ exec' = [exec EXCEPT ![c].pc = "running"]
    /\ inflight' = [inflight EXCEPT ![call[c].id] = c]
    /\ UNCHANGED <<chan, registry, down, up, nextID, shed, call>>

\* wsChannel.write: possible while the channel's context lives; a lost
\* connection swallows the frame or fails the write.
CanSend(c) == chan[call[c].ch].ag = "live" /\ Len(up[call[c].ch]) < Window
Send(c, type, n) ==
    up' = IF chan[call[c].ch].wire
          THEN [up EXCEPT ![call[c].ch] =
                  Append(@, Frame(type, call[c].id, c, n))]
          ELSE up

\* executeUnary or the open of a stream ends; its result is sent.
ExecuteResult(c, ok) ==
    /\ exec[c].pc = "running" /\ CanSend(c)
    /\ Send(c, IF ok THEN "ok" ELSE "error", 0)
    /\ exec' = [exec EXCEPT ![c].pc = IF ok /\ c \in Streams THEN "pumping"
                                      ELSE "ending",
                            ![c].ok = ok]
    /\ UNCHANGED <<chan, registry, down, nextID, shed, call, inflight>>

\* PumpReader: one chunk of the daemon's output.
PumpChunk(c) ==
    /\ exec[c].pc = "pumping" /\ ~exec[c].cancelled /\ CanSend(c)
    /\ c \in Follows \/ exec[c].sent < Chunks
    /\ Send(c, "data", IF c \in Follows THEN 0 ELSE exec[c].sent + 1)
    /\ exec' = [exec EXCEPT ![c].sent = IF c \in Follows THEN 0 ELSE @ + 1]
    /\ UNCHANGED <<chan, registry, down, nextID, shed, call, inflight>>

\* The terminal chunk: EOF at the end of the output and after a cancellation,
\* the error of a daemon that fails half-way (pumpEvents reports its
\* cancellation as an error).
PumpEnd(c) ==
    /\ exec[c].pc = "pumping" /\ CanSend(c)
    /\ \/ /\ exec[c].cancelled \/ (c \notin Follows /\ exec[c].sent = Chunks)
          /\ Send(c, "eof", 0)
       \/ Send(c, "fault", 0)
    /\ exec' = [exec EXCEPT ![c].pc = "ending"]
    /\ UNCHANGED <<chan, registry, down, nextID, shed, call, inflight>>

\* A write fails, which it does at the latest when the channel is closed.
SendFails(c) ==
    /\ exec[c].pc \in {"running", "pumping"} /\ ~chan[call[c].ch].wire
    /\ exec' = [exec EXCEPT ![c].pc = "ending"]
    /\ UNCHANGED <<chan, registry, down, up, nextID, shed, call, inflight>>

\* The deferred delete: whatever inflight holds under the id.
ExecuteEnd(c) ==
    /\ exec[c].pc = "ending"
    /\ exec' = [exec EXCEPT ![c].pc = "done", ![c].cancelled = TRUE,
                            ![c].sent = 0]
    /\ inflight' = [inflight EXCEPT ![call[c].id] = None]
    /\ UNCHANGED <<chan, registry, down, up, nextID, shed, call>>

-----------------------------------------------------------------------------
CallStep(c) ==
    \/ WriteCommand(c) \/ AwaitCanceled(c) \/ AwaitClosed(c) \/ AwaitResult(c)
    \/ ReadChunk(c) \/ ReadInterrupted(c)

OwnerStep(h) ==
    \/ Register(h) \/ CloseCP(h)
    \/ DeliverResult(h) \/ DeliverChunk(h) \/ ShedChunk(h)

AgentReadStep(h) == ReceiveCommand(h) \/ ReceiveCancel(h)

\* A stream that was cancelled ends; one that was not may go on.
ExecStep(c) ==
    \/ ExecuteStart(c) \/ ExecuteResult(c, TRUE) \/ ExecuteResult(c, FALSE)
    \/ PumpChunk(c) \/ SendFails(c) \/ ExecuteEnd(c)

Next ==
    \/ \E c \in Calls : \/ Open(c) \/ OpenUnavailable(c) \/ CtxEnds(c)
                        \/ CallStep(c) \/ CloseStream(c)
                        \/ ExecStep(c) \/ PumpEnd(c)
    \/ \E h \in Channels : \/ Dial(h) \/ Break(h) \/ CloseAgent(h) \/ AckTimesOut(h)
                           \/ OwnerStep(h) \/ AgentReadStep(h)

Spec == Init /\ [][Next]_vars

\* The goroutines of both ends keep running: a blocked select is woken, the
\* read loops read, a dead peer is noticed (the 30 s ping, the flusher's ack
\* timeout), the daemon answers.  Nothing is assumed of the callers, of the
\* network, or of a stream that nobody cancels.
Fairness ==
    /\ \A c \in Calls : /\ WF_vars(CallStep(c))
                        /\ WF_vars(ExecStep(c))
                        /\ WF_vars(exec[c].cancelled /\ PumpEnd(c))
    /\ \A h \in Channels : /\ WF_vars(OwnerStep(h))
                           /\ WF_vars(AgentReadStep(h))
                           /\ WF_vars(CloseAgent(h))

FairSpec == Spec /\ Fairness

-----------------------------------------------------------------------------
(* Properties.                                                             *)

Ends == {"none", "ok", "error", "eof", "fault", "closed", "canceled",
         "interrupted", "unavailable"}

FrameState(types) == [type : types, id : Ids, of : Calls, n : 0 .. Chunks]
CallState ==
    [pc : {"idle", "writing", "waiting", "reading", "returned"},
     ch : Channels \cup {None}, id : 0 .. Cardinality(Calls), listed : BOOLEAN,
     res : {"none"} \cup ResultTypes, from : Calls \cup {None},
     chunks : Seq([type : ChunkTypes, n : 0 .. Chunks]), got : Seq(Nat),
     end : Ends, ctxDone : BOOLEAN]
ExecState ==
    [pc : {"none", "spawned", "running", "pumping", "ending", "done"},
     cancelled : BOOLEAN, sent : 0 .. Chunks, ok : BOOLEAN]

TypeOK ==
    /\ chan \in [Channels -> [cp : {"none", "accepted", "live", "closed"},
                              ag : {"none", "live", "closed"},
                              wire : BOOLEAN]]
    /\ registry \in Channels \cup {None}
    /\ down \in [Channels -> Seq(FrameState({"cmd", "cancel"}))]
    /\ up \in [Channels -> Seq(FrameState(ResultTypes \cup ChunkTypes))]
    /\ nextID \in [Channels -> 0 .. Cardinality(Calls)]
    /\ shed \in [Channels -> Streams \cup {None}]
    /\ call \in [Calls -> CallState]
    /\ \A c \in Calls : Len(call[c].chunks) <= Buffer
    /\ exec \in [Calls -> ExecState]
    /\ inflight \in [Ids -> Calls \cup {None}]

\* A result is delivered to the call it answers, on the channel it was sent
\* on, and a call succeeds only if its own command did.
AnswersOwnCall ==
    \A c \in Calls :
        /\ call[c].res # "none" => call[c].from = c
        /\ call[c].end = "ok" \/ call[c].pc = "reading" => exec[c].ok

\* A stream that ends in a clean EOF was delivered whole and in order, however
\* slow its reader was, whatever was cancelled and whichever connection broke.
CleanEndIsComplete ==
    \A c \in Streams \ Follows :
        call[c].end = "eof" => call[c].got = [i \in Data |-> i]

\* The state of a connection: channels are dialled one after the other, calls
\* are routed to one that is registered, and no id is handed out twice.
Opened == {c \in Calls : call[c].pc # "idle"}
Early == {"none", "spawned", "running"}
ChannelKept(h) ==
    /\ chan[h].cp = "none" <=> chan[h].ag = "none"
    /\ \A g \in Channels : g < h /\ chan[h].cp # "none" => chan[g].ag = "closed"
    /\ registry = h => chan[h].cp = "live"
    /\ shed[h] # None => call[shed[h]].ch = h /\ exec[shed[h]].pc \notin Early
    /\ nextID[h] <= Cardinality(Opened)

\* A call is named by its channel and its id.  Its command is executed only
\* after it was written, and before that has sent nothing.
CallNamed(c) ==
    LET r == call[c] IN
    /\ r.pc = "idle" => r = NoCall
    /\ r.listed <=> r.pc \in {"writing", "waiting", "reading"}
    /\ r.listed => r.ch # None
    /\ r.ch # None => /\ chan[r.ch].cp \in {"live", "closed"}
                      /\ r.id \in 1 .. nextID[r.ch]
                      /\ \A d \in Calls \ {c} : call[d].ch = r.ch => call[d].id # r.id
    /\ r.ch = None => exec[c] = NoExec
    /\ exec[c].pc # "none" => r.ch # None /\ r.pc \notin {"idle", "writing"}
    /\ r.res = "ok" => exec[c].ok
    /\ exec[c].pc \in Early => /\ r.chunks = <<>> /\ r.got = <<>>
                               /\ r.res = "none"
                               /\ ~exec[c].ok /\ exec[c].sent = 0

\* A frame belongs to the call whose channel and id it carries; a command is
\* received once, and an answer comes from a command that was executed.
DownNamed(h) ==
    \A i \in 1 .. Len(down[h]) :
        LET f == down[h][i] IN
        /\ call[f.of].ch = h /\ call[f.of].id = f.id
        /\ call[f.of].pc \notin {"idle", "writing"}
        /\ f.type = "cmd" =>
              /\ exec[f.of].pc = "none"
              /\ \A j \in 1 .. Len(down[h]) :
                    down[h][j].type = "cmd" /\ down[h][j].of = f.of => j = i
UpNamed(h) ==
    \A i \in 1 .. Len(up[h]) :
        LET f == up[h][i] IN
        /\ call[f.of].ch = h /\ call[f.of].id = f.id
        /\ exec[f.of].pc \notin Early
        /\ f.type = "ok" => exec[f.of].ok

\* The agent's table, keyed by the id alone, holds a command with that id.
InflightNamed ==
    \A i \in Ids : inflight[i] # None =>
        call[inflight[i]].id = i /\ exec[inflight[i]].pc # "none"

\* The stream c still delivers to its reader, and is not to report an error.
Flowing(c) == call[c].listed /\ call[c].end = "none"
Faulted(c) == \E i \in 1 .. Len(call[c].chunks) : call[c].chunks[i].type = "fault"

\* The places of the chunks of c in a link w towards the control plane.  Data
\* chunks are numbered from 1; the EOF comes after the last of them.
Places(w, c) == {i \in 1 .. Len(w) : w[i].of = c /\ w[i].type \in ChunkTypes}
Num(x) == IF x.type = "data" THEN x.n ELSE Chunks + 1

\* Nothing of a stream follows its terminal chunk; its chunks continue what
\* was delivered, d, one after the other; n is the last that was sent.
EndsLast(w, c) ==
    \A i, j \in Places(w, c) : w[i].type # "data" => j <= i
Chained(w, c, d) ==
    \A i \in Places(w, c) : w[i].type # "fault" =>
        \/ Num(w[i]) = d + 1 /\ \A j \in Places(w, c) : i <= j
        \/ \E k \in Places(w, c) : /\ k < i /\ Num(w[i]) = Num(w[k]) + 1
                                   /\ \A j \in Places(w, c) : j <= k \/ i <= j
LastSent(w, c, d, n) ==
    \/ n = d /\ Places(w, c) = {}
    \/ \E k \in Places(w, c) : Num(w[k]) = n /\ \A j \in Places(w, c) : j <= k

\* A stream is ended once, by its own pump.
EndsOnce(c) ==
    LET r == call[c]
        w == up[r.ch]
    IN  /\ \A i \in 1 .. Len(r.chunks) : r.chunks[i].type = "eof" =>
              /\ i = Len(r.chunks) /\ exec[c].pc \in {"ending", "done"}
              /\ shed[r.ch] # c /\ Places(w, c) = {}
        /\ \A i \in Places(w, c) :
              w[i].type # "data" => exec[c].pc \in {"ending", "done"}
        /\ EndsLast(w, c)

\* The agent is told to cancel a stream only when its reader has gone, has
\* lost the connection, or has an error to read.
CancelSent(c) ==
    \E i \in 1 .. Len(down[call[c].ch]) :
        down[call[c].ch][i].type = "cancel" /\ down[call[c].ch][i].of = c
CancelledFor(c) ==
    \/ CancelSent(c)
    \/ /\ exec[c].cancelled /\ exec[c].pc \notin {"ending", "done"}
       /\ chan[call[c].ch].ag = "live"
    => ~Flowing(c) \/ Faulted(c) \/ chan[call[c].ch].cp # "live"

\* What the reader has, what is buffered for it and what is on the wire are
\* consecutive, up to the last chunk that was sent.
InOrder(c) ==
    LET r == call[c]
        h == r.ch
        d == Len(r.got) + Len(r.chunks)
    IN  Flowing(c) /\ ~Faulted(c) =>
            /\ \A i \in 1 .. Len(r.got) : r.got[i] = i
            /\ \A i \in 1 .. Len(r.chunks) : Num(r.chunks[i]) = Len(r.got) + i
            /\ chan[h].cp = "live" /\ shed[h] # c =>
                  /\ Chained(up[h], c, d)
                  /\ exec[c].pc = "pumping" /\ ~exec[c].cancelled /\ chan[h].wire =>
                        LastSent(up[h], c, d, exec[c].sent)

\* What every step keeps: each frame, table entry and answer belongs to the
\* call its channel and id name, and each stream is delivered in order, ends
\* once and is cancelled only when its reader no longer counts on it.
ChannelInv ==
    /\ TypeOK
    /\ \A h \in Channels : ChannelKept(h) /\ DownNamed(h) /\ UpNamed(h)
    /\ \A c \in Calls : CallNamed(c)
    /\ InflightNamed
    /\ AnswersOwnCall
    /\ \A c \in Streams : call[c].ch # None => EndsOnce(c) /\ CancelledFor(c)
    /\ \A c \in Streams \ Follows : call[c].ch # None => InOrder(c)
    /\ CleanEndIsComplete

\* No call hangs: a caller that waits for an answer gets one, or learns that
\* the channel is gone.
CallsAreAnswered ==
    \A c \in Calls : call[c].pc \in {"writing", "waiting"}
                        ~> call[c].pc \in {"reading", "returned"}

Stopped(c) == exec[c].pc \in {"none", "done"}

\* executor.go: Cancel aborts the command when the control plane's context
\* ended or the stream's consumer closed.  Here the caller's context ends
\* while it reads an acknowledged stream.
ReaderGoneStopsStream ==
    \A c \in Follows :
        call[c].pc = "returned" /\ call[c].end = "interrupted" ~> Stopped(c)

\* The same where a cancel frame is sent: the caller gives up before the
\* acknowledgement, or closes the stream.
CancelReachesStream ==
    \A c \in Follows :
        call[c].pc = "returned" /\ call[c].end \in {"canceled", "closed"}
            ~> Stopped(c)

\* agentconn.go: the latest connection wins, so that the agent's live channel
\* is the one calls are routed to.
LiveChannelIsRouted ==
    \A h \in Channels : chan[h].ag = "live"
        ~> (chan[h].ag = "closed" \/ ~chan[h].wire \/ registry = h)

=============================================================================
