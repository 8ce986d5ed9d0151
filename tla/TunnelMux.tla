----------------------------- MODULE TunnelMux ------------------------------
(***************************************************************************)
(* One tunnel session: TCP streams multiplexed over a WebSocket, between   *)
(* an Origin, which opens streams for its callers                          *)
(* (internal/tunnel/origin.go), and a Bridge, which dials a fixed target   *)
(* for each of them (internal/tunnel/tunnel.go).  Both feed a stream's     *)
(* consumer from a bounded queue (internal/tunnel/stream_queue.go).        *)
(*                                                                         *)
(* A side is "origin" or "bridge"; the far end of a stream is the caller   *)
(* on the origin's side and the target on the bridge's.  A stream id is    *)
(* never used twice (nextID), so a call of OpenStream and its stream share *)
(* their name here.  The WebSocket keeps the order of each direction.      *)
(***************************************************************************)
EXTENDS Naturals, Sequences, FiniteSets

CONSTANTS
    Streams,      \* bound: 1 .. n, calls of OpenStream, in order of arrival
    MaxStreams,   \* the admission bound of both sides
    MaxQueued,    \* MaxPendingStreams
    Queue,        \* streamQueueChunks
    Chunks,       \* bound: what the far end of each side sends on each stream
    Closers,      \* bound: the far ends that may close, of Sides \X Streams
    Enders        \* bound: the sides that may end without the other

Sides == {"origin", "bridge"}

ASSUME MuxAssumption ==
    /\ IsFiniteSet(Streams) /\ Streams = 1 .. Cardinality(Streams)
    /\ MaxStreams \in Nat \ {0} /\ MaxQueued \in Nat /\ Queue \in Nat \ {0}
    /\ Chunks \in [Sides -> [Streams -> Nat]]
    /\ Closers \subseteq Sides \X Streams /\ Enders \subseteq Sides

VARIABLES
    call,      \* where OpenStream is
    slots,     \* tokens in streamSlots
    queued,    \* callers waiting for one
    pending,   \* opens whose answer is awaited by the origin's decoder
    answer,    \* what the wait channel of an open holds
    phase,     \* of each side's loop: "running", "ending" (the origin's done is
               \* closed), "shut" (its streams are closed), "gone"
    dial,      \* what the bridge's decoder is dialing
    st,        \* the streams of each side
    resets,    \* streams whose close frame a goroutine is about to send
    wire,      \* frames on their way to each side
    hole       \* history: a far end was given a chunk after one was lost

vars == <<call, slots, queued, pending, answer, phase, dial, st, resets, wire,
          hole>>
admission == <<slots, queued>>

NoStream ==
    [reg  |-> FALSE,   \* in the map of streams
     shut |-> FALSE,   \* its queue and its connection are closed
     far  |-> FALSE,   \* the far end has closed the connection
     q    |-> <<>>,    \* chunks in the queue
     pump |-> "none", hold |-> 0,   \* the pump, and the chunk it writes
     got  |-> 0,       \* the last chunk the far end was given
     sent |-> 0,       \* chunks taken from the far end
     rd   |-> "none"]  \* the goroutine that reads the far end

Init ==
    /\ call = [k \in Streams |-> "new"]
    /\ slots = 0 /\ queued = 0
    /\ pending = {} /\ answer = [k \in Streams |-> "none"]
    /\ phase = [s \in Sides |-> "running"]
    /\ dial = [pc |-> "idle", id |-> 0]
    /\ st = [s \in Sides |-> [k \in Streams |-> NoStream]]
    /\ resets = [s \in Sides |-> {}]
    /\ wire = [s \in Sides |-> <<>>]
    /\ hole = FALSE

Other(s) == IF s = "origin" THEN "bridge" ELSE "origin"
Open(s) == {k \in Streams : st[s][k].reg}
Frame(t, k, n) == [t |-> t, id |-> k, n |-> n]

\* The socket carries frames while neither side has closed it.
Connected == \A s \in Sides : phase[s] # "gone"
Sent(s, f) ==
    IF Connected THEN [wire EXCEPT ![Other(s)] = Append(@, f)] ELSE wire
Send(s, f) == wire' = Sent(s, f)

\* closeStream, closeAll and the sweep of shutdown: what is in the map leaves
\* it, and its queue and its connection are closed.
Shut(r) == IF r.reg THEN [r EXCEPT !.reg = FALSE, !.shut = TRUE] ELSE r
Closed(s, K) ==
    [st EXCEPT ![s] = [k \in Streams |-> IF k \in K THEN Shut(@[k]) ELSE @[k]]]

\* Faulty variant of Release: a token is taken back for every close.
ReleaseAlways(s, K) ==
    IF s = "origin" THEN /\ slots' = slots - Cardinality(K)
                         /\ pending' = pending \ K
                    ELSE UNCHANGED <<slots, pending>>

\* The origin forgets who waits, and gives the slots back.  It does the latter
\* after it has left the mutex of the map; nothing reads both, so an arrival in
\* between is one that came before the close.
Release(s, K) ==
    IF s = "origin" THEN /\ slots' = slots - Cardinality(K \cap Open(s))
                         /\ pending' = pending \ K
                    ELSE UNCHANGED <<slots, pending>>
\* A stream that is closed and has no goroutine left is forgotten.
Tidy(r) ==
    IF r.pump = "over" /\ r.rd = "over"
    THEN [NoStream EXCEPT !.shut = TRUE, !.pump = "over", !.rd = "over"]
    ELSE r
CloseStream(s, k) == st' = Closed(s, {k}) /\ Release(s, {k})

-----------------------------------------------------------------------------
(* OpenStream: admission.                                                  *)

\* acquireStream.  Arrivals are in order.
Arrive(k) ==
    /\ call[k] = "new" /\ (k > 1 => call[k - 1] # "new")
    /\ \/ /\ phase["origin"] # "running"
          /\ call' = [call EXCEPT ![k] = "failed"]
          /\ UNCHANGED admission
       \/ /\ phase["origin"] = "running"
          /\ queued = 0 /\ slots < MaxStreams
          /\ call' = [call EXCEPT ![k] = "admitted"]
          /\ slots' = slots + 1
          /\ UNCHANGED queued
       \/ /\ phase["origin"] = "running"
          /\ queued > 0 \/ slots >= MaxStreams
          /\ call' = [call EXCEPT ![k] = IF queued >= MaxQueued THEN "failed"
                                                               ELSE "waiting"]
          /\ queued' = IF queued >= MaxQueued THEN queued ELSE queued + 1
          /\ UNCHANGED slots
    /\ UNCHANGED <<pending, answer, phase, dial, st, resets, wire, hole>>

TakeSlot(k) ==
    /\ call[k] = "waiting" /\ slots < MaxStreams
    /\ slots' = slots + 1
    /\ call' = [call EXCEPT ![k] = "took"]
    /\ UNCHANGED <<queued, pending, answer, phase, dial, st, resets, wire, hole>>

\* The deferred decrement comes after the slot was taken.
LeaveQueue(k) ==
    /\ call[k] = "took"
    /\ queued' = queued - 1
    /\ call' = [call EXCEPT ![k] = "admitted"]
    /\ UNCHANGED <<slots, pending, answer, phase, dial, st, resets, wire, hole>>

\* The caller's context, the queue timeout or the end of the session.
GiveUp(k) ==
    /\ call[k] = "waiting"
    /\ queued' = queued - 1
    /\ call' = [call EXCEPT ![k] = "failed"]
    /\ UNCHANGED <<slots, pending, answer, phase, dial, st, resets, wire, hole>>

\* A slot and the end of the session may have come together.
CheckDone(k) ==
    /\ call[k] = "admitted"
    /\ IF phase["origin"] = "running"
       THEN call' = [call EXCEPT ![k] = "cleared"] /\ UNCHANGED slots
       ELSE call' = [call EXCEPT ![k] = "failed"] /\ slots' = slots - 1
    /\ UNCHANGED <<queued, pending, answer, phase, dial, st, resets, wire, hole>>

\* Under the mutex shutdown takes: refused once it has swept the map.
Register(k) ==
    /\ call[k] = "cleared"
    /\ IF phase["origin"] \in {"running", "ending"}
       THEN /\ call' = [call EXCEPT ![k] = "opening"]
            /\ st' = [st EXCEPT !["origin"][k] =
                         [NoStream EXCEPT !.reg = TRUE, !.pump = "idle"]]
            /\ pending' = pending \cup {k}
            /\ UNCHANGED slots
       ELSE /\ call' = [call EXCEPT ![k] = "failed"]
            /\ slots' = slots - 1
            /\ UNCHANGED <<st, pending>>
    /\ UNCHANGED <<queued, answer, phase, dial, resets, wire, hole>>

\* A frame that cannot be written drops the stream: the socket is closed, or
\* the caller's context has ended.
SendOpen(k) ==
    /\ call[k] = "opening"
    /\ \/ /\ Connected
          /\ Send("origin", Frame("open", k, 0))
          /\ call' = [call EXCEPT ![k] = "await"]
          /\ UNCHANGED <<st, slots, pending>>
       \/ /\ call' = [call EXCEPT ![k] = "failed"]
          /\ CloseStream("origin", k)
          /\ UNCHANGED wire
    /\ UNCHANGED <<queued, answer, phase, dial, resets, hole>>

\* open_ok: the goroutine that reads the caller starts, whatever has become
\* of the stream since.
Answered(k) ==
    /\ call[k] = "await" /\ answer[k] # "none"
    /\ \/ /\ answer[k] = "ok"
          /\ call' = [call EXCEPT ![k] = "open"]
          /\ st' = [st EXCEPT !["origin"][k].rd = "reading"]
          /\ UNCHANGED <<slots, pending>>
       \/ /\ answer[k] # "ok"
          /\ call' = [call EXCEPT ![k] = "failed"]
          /\ CloseStream("origin", k)
    /\ answer' = [answer EXCEPT ![k] = "none"]
    /\ UNCHANGED <<queued, phase, dial, resets, wire, hole>>

\* openTimeout, the caller's context or the end of the session: the bridge is
\* not told.
OpenTimesOut(k) ==
    /\ call[k] = "await"
    /\ call' = [call EXCEPT ![k] = "failed"]
    /\ CloseStream("origin", k)
    /\ answer' = [answer EXCEPT ![k] = "none"]
    /\ UNCHANGED <<queued, phase, dial, resets, wire, hole>>

-----------------------------------------------------------------------------
(* The decoders: readLoop of each side.                                    *)

\* resolvePending.
ReadAnswer(f) ==
    /\ f.t \in {"ok", "err"}
    /\ answer' = IF f.id \in pending THEN [answer EXCEPT ![f.id] = f.t]
                                     ELSE answer
    /\ pending' = pending \ {f.id}
    /\ UNCHANGED <<slots, dial, st, resets>>

\* openStream: over the limit it is refused, else the decoder dials.
ReadOpen(f) ==
    /\ f.t = "open"
    /\ dial' = IF Cardinality(Open("bridge")) < MaxStreams
               THEN [pc |-> "dial", id |-> f.id]
               ELSE [pc |-> "refuse", id |-> f.id]
    /\ UNCHANGED <<slots, pending, answer, st, resets>>

ReadEnd(s, f) ==
    /\ f.t \in {"eof", "close"}
    /\ CloseStream(s, f.id)
    /\ UNCHANGED <<answer, dial, resets>>

\* Faulty variant of Room: the decoder waits for the far end to have read.
RoomAwaited(s, k) ==
    st[s][k].reg => st[s][k].pump = "idle" /\ st[s][k].q = <<>>

\* enqueue answers whatever the state of the queue is: it does not block.
Room(s, k) == TRUE

\* Faulty variant of Enqueue: the oldest chunk makes room.
EnqueueDropsOldest(s, k, n) ==
    /\ st' = [st EXCEPT ![s][k].q =
                 Append(IF Len(@) < Queue THEN @ ELSE Tail(@), n)]
    /\ UNCHANGED <<slots, pending, resets>>

\* enqueue: without room the stream is reset, and a goroutine says so.  A chunk
\* is what one Read of the far end returned, into a buffer of
\* streamFramePayload bytes: it is neither empty nor too large.
Enqueue(s, k, n) ==
    IF Len(st[s][k].q) < Queue
    THEN /\ st' = [st EXCEPT ![s][k].q = Append(@, n)]
         /\ UNCHANGED <<slots, pending, resets>>
    ELSE /\ CloseStream(s, k)
         /\ resets' = [resets EXCEPT ![s] = @ \cup {k}]

ReadData(s, f) ==
    /\ f.t = "data" /\ Room(s, f.id)
    /\ IF st[s][f.id].reg THEN Enqueue(s, f.id, f.n)
                          ELSE UNCHANGED <<st, slots, pending, resets>>
    /\ UNCHANGED <<answer, dial>>

\* The bridge's decoder does not read while it dials.
ReadFrame(s) ==
    /\ wire[s] # <<>>
    /\ s = "bridge" => dial.pc = "idle"
    /\ LET f == Head(wire[s]) IN
          \/ ReadAnswer(f) \/ ReadOpen(f) \/ ReadEnd(s, f) \/ ReadData(s, f)
    /\ wire' = [wire EXCEPT ![s] = Tail(@)]
    /\ UNCHANGED <<call, queued, phase, hole>>

SendReset(s, k) ==
    /\ k \in resets[s]
    /\ resets' = [resets EXCEPT ![s] = @ \ {k}]
    /\ Send(s, Frame("close", k, 0))
    /\ UNCHANGED <<call, admission, pending, answer, phase, dial, st, hole>>

\* dial fails, or the open was refused.
DialFails ==
    /\ dial.pc \in {"dial", "refuse"}
    /\ dial' = [pc |-> "idle", id |-> 0]
    /\ Send("bridge", Frame("err", dial.id, 0))
    /\ UNCHANGED <<call, admission, pending, answer, phase, st, resets, hole>>

\* The dial carries the context that ends with the session.
DialConnects ==
    /\ dial.pc = "dial" /\ phase["bridge"] # "gone"
    /\ dial' = [dial EXCEPT !.pc = "connected"]
    /\ UNCHANGED <<call, admission, pending, answer, phase, st, resets, wire,
                   hole>>

\* The stream is registered, its goroutines start, and open_ok is sent.
BridgeOpens ==
    /\ dial.pc = "connected"
    /\ dial' = [pc |-> "idle", id |-> 0]
    /\ st' = [st EXCEPT !["bridge"][dial.id] =
                 [NoStream EXCEPT !.reg = TRUE, !.pump = "idle",
                                  !.rd = "reading"]]
    /\ Send("bridge", Frame("ok", dial.id, 0))
    /\ UNCHANGED <<call, admission, pending, answer, phase, resets, hole>>

-----------------------------------------------------------------------------
(* The goroutines of a stream, and its far end.                            *)

Rest == UNCHANGED <<call, queued, answer, phase, dial, resets>>

PumpTakes(s, k) ==
    /\ st[s][k].pump = "idle" /\ st[s][k].q # <<>>
    /\ st' = [st EXCEPT ![s][k].pump = "writing", ![s][k].q = Tail(@),
                        ![s][k].hold = Head(st[s][k].q)]
    /\ Rest /\ UNCHANGED <<slots, pending, wire, hole>>

\* The far end takes the chunk.
FarReads(s, k) ==
    /\ st[s][k].pump = "writing" /\ ~st[s][k].shut /\ ~st[s][k].far
    /\ st' = [st EXCEPT ![s][k].pump = "idle", ![s][k].hold = 0,
                        ![s][k].got = st[s][k].hold]
    /\ hole' = (hole \/ st[s][k].hold # st[s][k].got + 1)
    /\ Rest /\ UNCHANGED <<slots, pending, wire>>

\* Faulty variant of PumpStops: an idle pump does not watch the queue's end.
PumpStopsWriting(s, k) ==
    /\ st[s][k].pump = "writing" /\ (st[s][k].shut \/ st[s][k].far)
    /\ st' = [Closed(s, {k}) EXCEPT ![s][k] =
                 Tidy([@ EXCEPT !.pump = "over", !.hold = 0, !.q = <<>>])]
    /\ Release(s, {k})
    /\ Rest /\ UNCHANGED <<wire, hole>>

\* The queue is closed, or the write fails: what is left in the queue is
\* released, and the stream is closed.
PumpStops(s, k) ==
    /\ \/ st[s][k].pump = "idle" /\ st[s][k].shut
       \/ st[s][k].pump = "writing" /\ (st[s][k].shut \/ st[s][k].far)
    /\ st' = [Closed(s, {k}) EXCEPT ![s][k] =
                 Tidy([@ EXCEPT !.pump = "over", !.hold = 0, !.q = <<>>])]
    /\ Release(s, {k})
    /\ Rest /\ UNCHANGED <<wire, hole>>

\* A chunk of the far end goes into a frame, or meets a closed socket.
FarSends(s, k) ==
    /\ st[s][k].rd = "reading" /\ ~st[s][k].shut /\ ~st[s][k].far
    /\ st[s][k].sent < Chunks[s][k]
    /\ st' = [st EXCEPT ![s][k].sent = @ + 1,
                        ![s][k].rd = IF Connected THEN @ ELSE "ending"]
    /\ Send(s, Frame("data", k, st[s][k].sent + 1))
    /\ Rest /\ UNCHANGED <<slots, pending, hole>>

FarCloses(s, k) ==
    /\ <<s, k>> \in Closers
    /\ st[s][k].rd # "none" /\ ~st[s][k].far /\ ~st[s][k].shut
    /\ st' = [st EXCEPT ![s][k].far = TRUE]
    /\ Rest /\ UNCHANGED <<slots, pending, wire, hole>>

ReaderBreaks(s, k) ==
    /\ st[s][k].rd = "reading" /\ (st[s][k].shut \/ st[s][k].far)
    /\ st' = [st EXCEPT ![s][k].rd = "ending"]
    /\ Rest /\ UNCHANGED <<slots, pending, wire, hole>>

\* The origin announces the end and then closes the stream; the bridge closes
\* it and then announces the end.
ReaderAnnounces(s, k) ==
    /\ st[s][k].rd = IF s = "origin" THEN "ending" ELSE "closing"
    /\ st' = [st EXCEPT ![s][k] =
                 Tidy([@ EXCEPT !.rd = IF s = "origin" THEN "closing" ELSE "over"])]
    /\ Send(s, Frame(IF s = "origin" THEN "eof" ELSE "close", k, 0))
    /\ Rest /\ UNCHANGED <<slots, pending, hole>>

ReaderCloses(s, k) ==
    /\ st[s][k].rd = IF s = "origin" THEN "closing" ELSE "ending"
    /\ st' = [Closed(s, {k}) EXCEPT ![s][k] =
                 Tidy([@ EXCEPT !.rd = IF s = "origin" THEN "over" ELSE "closing"])]
    /\ Release(s, {k})
    /\ Rest /\ UNCHANGED <<wire, hole>>

-----------------------------------------------------------------------------
(* The end of the session: a timer, a heartbeat, a cancellation, or a read *)
(* that failed.                                                            *)

MayEnd(s) == s \in Enders \/ phase[Other(s)] = "gone"

OriginEnds ==
    /\ phase["origin"] = "running" /\ MayEnd("origin")
    /\ phase' = [phase EXCEPT !["origin"] = "ending"]
    /\ UNCHANGED <<call, admission, pending, answer, dial, st, resets, wire,
                   hole>>

\* shutdown, under the mutex of the map.
Shutdown ==
    /\ phase["origin"] = "ending"
    /\ phase' = [phase EXCEPT !["origin"] = "shut"]
    /\ st' = Closed("origin", Streams) /\ Release("origin", Streams)
    /\ answer' = [k \in Streams |-> IF k \in pending THEN "closed" ELSE answer[k]]
    /\ UNCHANGED <<call, queued, dial, resets, wire, hole>>

\* Bridge returns through closeAll.
CloseAll ==
    /\ phase["bridge"] = "running" /\ MayEnd("bridge")
    /\ phase' = [phase EXCEPT !["bridge"] = "shut"]
    /\ st' = Closed("bridge", Streams)
    /\ UNCHANGED <<call, admission, pending, answer, dial, resets, wire, hole>>

\* Run and Bridge cancel the context, with which their decoders read, and
\* their caller closes the socket: nobody reads what was on its way here.
Returns(s) ==
    /\ phase[s] = "shut"
    /\ phase' = [phase EXCEPT ![s] = "gone"]
    /\ wire' = [wire EXCEPT ![s] = <<>>]
    /\ UNCHANGED <<call, admission, pending, answer, dial, st, resets, hole>>

-----------------------------------------------------------------------------
CallStep(k) ==
    \/ TakeSlot(k) \/ LeaveQueue(k) \/ GiveUp(k) \/ CheckDone(k) \/ Register(k)
    \/ SendOpen(k) \/ Answered(k) \/ OpenTimesOut(k)

PumpStep(s, k) == PumpTakes(s, k) \/ PumpStops(s, k)
ReaderStep(s, k) ==
    ReaderBreaks(s, k) \/ ReaderAnnounces(s, k) \/ ReaderCloses(s, k)
DialStep == DialFails \/ DialConnects \/ BridgeOpens

Next ==
    \/ \E k \in Streams : Arrive(k) \/ CallStep(k)
    \/ \E s \in Sides : ReadFrame(s) \/ Returns(s)
    \/ \E s \in Sides, k \in Streams :
          \/ SendReset(s, k) \/ PumpStep(s, k) \/ ReaderStep(s, k)
          \/ FarReads(s, k) \/ FarSends(s, k) \/ FarCloses(s, k)
    \/ DialStep \/ OriginEnds \/ Shutdown \/ CloseAll

Spec == Init /\ [][Next]_vars

\* What the goroutines, the timers and the dials of the session do by
\* themselves, learning that the other side is gone included.
SessionStep ==
    \/ \E k \in Streams : CallStep(k)
    \/ \E s \in Sides : ReadFrame(s) \/ Returns(s)
    \/ \E s \in Sides, k \in Streams :
          SendReset(s, k) \/ PumpStep(s, k) \/ ReaderStep(s, k)
    \/ DialStep \/ Shutdown
    \/ phase["bridge"] = "gone" /\ OriginEnds
    \/ phase["origin"] = "gone" /\ CloseAll

\* The session never stops while it has a step to take; it takes finitely many.
\* Nothing is assumed of callers and targets: they may read or send nothing
\* for ever.
Fairness == WF_vars(SessionStep)

FairSpec == Spec /\ Fairness

-----------------------------------------------------------------------------
(* Properties.                                                             *)

StreamState ==
    [reg : BOOLEAN, shut : BOOLEAN, far : BOOLEAN, q : Seq(Nat),
     pump : {"none", "idle", "writing", "over"}, hold : Nat, got : Nat,
     sent : Nat, rd : {"none", "reading", "ending", "closing", "over"}]
FrameState(s) ==
    [t : IF s = "origin" THEN {"ok", "err", "data", "close"}
                         ELSE {"open", "data", "eof", "close"},
     id : Streams, n : Nat]

TypeOK ==
    /\ call \in [Streams -> {"new", "waiting", "took", "admitted", "cleared",
                             "opening", "await", "open", "failed"}]
    /\ slots \in 0 .. MaxStreams /\ queued \in 0 .. MaxQueued
    /\ pending \subseteq Streams
    /\ answer \in [Streams -> {"none", "ok", "err", "closed"}]
    /\ phase \in [Sides -> {"running", "ending", "shut", "gone"}]
    /\ dial \in [pc : {"idle", "dial", "refuse", "connected"},
                  id : Streams \cup {0}]
    /\ dial.pc # "idle" => dial.id \in Streams
    /\ st \in [Sides -> [Streams -> StreamState]]
    /\ resets \in [Sides -> SUBSET Streams]
    /\ DOMAIN wire = Sides
    /\ wire["origin"] \in Seq(FrameState("origin"))
    /\ wire["bridge"] \in Seq(FrameState("bridge"))
    /\ hole \in BOOLEAN

\* The admission semaphore is exact, however closes by the decoder, the pump,
\* the reader, an open that is given up and the end of the session meet: one
\* token for each stream in the map and each call between its admission and
\* its registration.  One too many starves later callers; one too few blocks
\* releaseStream.
SlotsAccounted ==
    slots = Cardinality(Open("origin"))
            + Cardinality({k \in Streams : call[k] \in {"took", "admitted", "cleared"}})

\* A stream that lost a chunk gives its far end nothing more: what a caller or
\* a target has read is a prefix of what was sent.
NoHole == ~hole

\* Callers that wait for a slot, or hold one and have still to say so.
QueueAccounted ==
    queued = Cardinality({k \in Streams : call[k] \in {"waiting", "took"}})

\* The bridge's decoder counts the streams, then dials: nobody else opens one
\* in between.
BridgeBounded ==
    /\ Cardinality(Open("bridge")) <= MaxStreams
    /\ dial.pc \in {"dial", "connected"} => Cardinality(Open("bridge")) < MaxStreams

\* A stream has a connection and a queue, open as long as it is in the map.
Live(r) == r.pump # "none" /\ ~r.shut
Mapped(r) ==
    /\ r.reg <=> Live(r)
    /\ r.reg => r.pump \in {"idle", "writing"}
    /\ r.pump = "none" => r = NoStream

InWire(s, t, k, i) == wire[s][i].t = t /\ wire[s][i].id = k
Dialing(k) == dial.pc # "idle" /\ dial.id = k
Unopened == {"new", "waiting", "took", "admitted", "cleared"}

\* A stream is opened once at each side, by its origin first, and its caller
\* is read only when both have it.
OpenedOnce(k) ==
    /\ call[k] \in Unopened => st["origin"][k].pump = "none"
    /\ call[k] \in {"opening", "await", "open"} => st["origin"][k].pump # "none"
    /\ call[k] # "open" => st["origin"][k].rd = "none"
    /\ call[k] \in Unopened \cup {"opening"} =>
          /\ st["bridge"][k].pump = "none" /\ ~Dialing(k)
          /\ \A i \in 1 .. Len(wire["bridge"]) : ~InWire("bridge", "open", k, i)
    /\ \A i \in 1 .. Len(wire["bridge"]) : InWire("bridge", "open", k, i) =>
          /\ st["bridge"][k].pump = "none" /\ ~Dialing(k)
          /\ \A j \in 1 .. Len(wire["bridge"]) : InWire("bridge", "open", k, j) => j = i
    /\ Dialing(k) => st["bridge"][k].pump = "none"
    /\ st["bridge"][k].pump = "none" =>
          /\ st["origin"][k].rd = "none" /\ answer[k] # "ok"
          /\ st["bridge"][k].rd = "none"
          /\ \A i \in 1 .. Len(wire["origin"]) : ~InWire("origin", "ok", k, i)

\* The last chunk in the queue of a stream, or with its pump or its far end.
Base(r) == IF r.pump = "writing" THEN r.hold ELSE r.got
QueueEnd(r) == Base(r) + Len(r.q)

\* From the far end of the sender to the far end of the receiver, the chunks
\* of a live stream are consecutive: with the pump, in the queue and on the
\* wire, in this order.
Consecutive(s, k) ==
    LET r == st[s][k] IN
    Live(r) =>
        /\ r.pump = "writing" => r.hold = r.got + 1
        /\ \A i \in 1 .. Len(r.q) : r.q[i] = Base(r) + i
        /\ \A i \in 1 .. Len(wire[s]) : InWire(s, "data", k, i) =>
              \/ wire[s][i].n = QueueEnd(r) + 1
              \/ \E j \in 1 .. i - 1 : /\ InWire(s, "data", k, j)
                                       /\ wire[s][i].n = wire[s][j].n + 1
        /\ st[Other(s)][k].rd = "reading" /\ Connected =>
              \/ st[Other(s)][k].sent = QueueEnd(r)
              \/ \E i \in 1 .. Len(wire[s]) :
                    InWire(s, "data", k, i) /\ wire[s][i].n = st[Other(s)][k].sent

\* No chunk is on the wire twice, or before it was sent.
SentOnce(s, k) ==
    LET o == st[Other(s)][k] IN
    /\ \A i, j \in 1 .. Len(wire[s]) :
          InWire(s, "data", k, i) /\ InWire(s, "data", k, j)
              /\ wire[s][i].n = wire[s][j].n => i = j
    /\ o.rd = "reading" => \A i \in 1 .. Len(wire[s]) :
          InWire(s, "data", k, i) => wire[s][i].n <= o.sent
    /\ o.rd = "none" =>
          /\ o.sent = 0 /\ (Live(st[s][k]) => QueueEnd(st[s][k]) = 0)
          /\ \A i \in 1 .. Len(wire[s]) : ~InWire(s, "data", k, i)

\* The inductive invariant: tokens and waiting calls are counted exactly, a
\* stream is in the map as long as its connection and its queue are open, it is
\* opened once by each side, and its chunks stay consecutive from the reader of
\* one far end through the wire and the queue to the pump of the other.
MuxInv ==
    /\ TypeOK
    /\ SlotsAccounted /\ QueueAccounted /\ BridgeBounded
    /\ \A k \in Streams : OpenedOnce(k)
    /\ \A s \in Sides, k \in Streams :
          Mapped(st[s][k]) /\ Consecutive(s, k) /\ SentOnce(s, k)
    /\ NoHole

\* Frames are decoded although callers and targets may stop reading: a stalled
\* stream never blocks the socket.
DecoderFlows ==
    (\E s \in Sides : wire[s] # <<>>) ~>
        (\A s \in Sides : wire[s] = <<>>) \/ ~Connected

\* Once the origin's session has ended every OpenStream returns, no slot is
\* taken and no goroutine of a stream is left, whatever was half-way.
OriginTornDown ==
    phase["origin"] = "gone" ~>
        /\ slots = 0
        /\ \A k \in Streams : call[k] \in {"new", "open", "failed"}
        /\ \A k \in Streams : /\ st["origin"][k].pump \in {"none", "over"}
                              /\ st["origin"][k].rd \in {"none", "over"}

\* tunnel.go: the bridge tears every stream down before it returns.
BridgeTornDown ==
    phase["bridge"] = "gone" ~>
        \A k \in Streams : st["bridge"][k].pump \in {"none", "over"}

\* origin_test.go, tunnel.go: when the open of a replacement arrives, the
\* bridge has a slot for it.
ReplacementAdmitted ==
    wire["bridge"] # <<>> /\ Head(wire["bridge"]).t = "open" /\ dial.pc = "idle"
        => Cardinality(Open("bridge")) < MaxStreams

\* ADR-032: eof is a half-close, so what was sent before it still reaches a
\* target that has closed nothing.
EofKeepsData ==
    [][\A k \in Streams :
          LET b == st["bridge"][k]
          IN  /\ PumpStops("bridge", k)
              /\ ~b.far /\ st["origin"][k].rd \in {"closing", "over"}
              /\ \A s \in Sides : phase[s] = "running"
              => b.q = <<>> /\ b.hold = 0]_vars

=============================================================================
