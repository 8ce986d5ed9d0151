-------------------------- MODULE TunnelMuxProofs ---------------------------
(***************************************************************************)
(* A tunnel session accounts for its slots and loses no chunk in the       *)
(* middle, for any number of streams, any limits and any queue length.     *)
(*                                                                         *)
(* Slots: a token belongs to a stream in the origin's map or to a call     *)
(* that has one and has not registered yet, and a stream leaves the map    *)
(* once, whoever closes it.                                                *)
(*                                                                         *)
(* Chunks: from the far end that sends to the far end that reads, the      *)
(* chunks of a live stream are consecutive.  They are on the wire after    *)
(* those in the queue, and in the queue after the one with the pump.  A    *)
(* chunk without room closes the stream for good, so nothing follows it.   *)
(***************************************************************************)
EXTENDS TunnelMux, FiniteSetTheorems, SequenceTheorems, TLAPS

-----------------------------------------------------------------------------
(* Frames.                                                                 *)

LEMMA SidesFacts ==
    /\ Sides = {"origin", "bridge"}
    /\ \A s \in Sides : Other(s) \in Sides /\ Other(s) # s /\ Other(Other(s)) = s
    /\ Other("origin") = "bridge" /\ Other("bridge") = "origin"
  BY DEF Sides, Other

LEMMA WireType ==
    ASSUME TypeOK, NEW s \in Sides
    PROVE  /\ wire[s] \in Seq(FrameState(s)) /\ Len(wire[s]) \in Nat
           /\ \A i \in 1 .. Len(wire[s]) :
                 /\ wire[s][i] \in FrameState(s) /\ wire[s][i].id \in Streams
                 /\ wire[s][i].n \in Nat
                 /\ s = "origin" => wire[s][i].t \in {"ok", "err", "data", "close"}
                 /\ s = "bridge" => wire[s][i].t \in {"open", "data", "eof", "close"}
  <1>1. wire[s] \in Seq(FrameState(s))
    BY DEF TypeOK, Sides
  <1>2. \A i \in 1 .. Len(wire[s]) : wire[s][i] \in FrameState(s)
    BY <1>1
  <1> QED
    BY <1>1, <1>2 DEF FrameState, Sides

LEMMA Appended ==
    ASSUME NEW F, NEW w \in Seq(F), NEW f \in F
    PROVE  /\ Append(w, f) \in Seq(F) /\ Len(Append(w, f)) = Len(w) + 1
           /\ Append(w, f)[Len(w) + 1] = f
           /\ \A i \in 1 .. Len(w) : Append(w, f)[i] = w[i]
  OBVIOUS

LEMMA Tailed ==
    ASSUME NEW F, NEW w \in Seq(F), w # <<>>
    PROVE  /\ Tail(w) \in Seq(F) /\ Len(Tail(w)) = Len(w) - 1 /\ Len(w) >= 1
           /\ Head(w) = w[1] /\ Head(w) \in F
           /\ \A i \in 1 .. Len(w) - 1 : Tail(w)[i] = w[i + 1]
  OBVIOUS

-----------------------------------------------------------------------------
(* The flow of chunks.                                                     *)

Flows(s, k) == Consecutive(s, k) /\ SentOnce(s, k)

\* The sender goes on as it was, or stops reading its far end for good.
SenderSteady(o, k) ==
    \/ st'[o][k].rd = st[o][k].rd /\ st'[o][k].sent = st[o][k].sent
    \/ st'[o][k].rd \notin {"none", "reading"}

\* The receiver keeps its queue, or is no longer live.
ReceiverSteady(s, k) ==
    \/ /\ st'[s][k].pump = st[s][k].pump /\ st'[s][k].shut = st[s][k].shut
       /\ st'[s][k].hold = st[s][k].hold /\ st'[s][k].got = st[s][k].got
       /\ st'[s][k].q = st[s][k].q
    \/ ~Live(st'[s][k])

\* Nothing happens on the wire, or a frame is added that is no chunk of k.
LEMMA FlowAppends ==
    ASSUME TypeOK, NEW s \in Sides, NEW k \in Streams, Flows(s, k),
           SenderSteady(Other(s), k), ReceiverSteady(s, k),
           Connected' => Connected,
           \/ wire'[s] = wire[s]
           \/ \E f \in FrameState(s) : /\ ~(f.t = "data" /\ f.id = k)
                                       /\ wire'[s] = Append(wire[s], f)
    PROVE  Flows(s, k)'
  <1>0. Len(wire[s]) \in Nat /\ \A i \in 1 .. Len(wire[s]) : wire[s][i].n \in Nat
    BY WireType
  <1>1. /\ Len(wire'[s]) \in Nat /\ Len(wire[s]) <= Len(wire'[s])
        /\ \A i \in 1 .. Len(wire[s]) : wire'[s][i] = wire[s][i]
        /\ \A i \in 1 .. Len(wire'[s]) : InWire(s, "data", k, i)' =>
              i \in 1 .. Len(wire[s]) /\ InWire(s, "data", k, i)
    <2>1. CASE wire'[s] = wire[s]
      BY <1>0, <2>1 DEF InWire
    <2>2. ASSUME NEW f \in FrameState(s), ~(f.t = "data" /\ f.id = k),
                 wire'[s] = Append(wire[s], f)
          PROVE  /\ Len(wire'[s]) = Len(wire[s]) + 1 /\ wire'[s][Len(wire[s]) + 1] = f
                 /\ \A i \in 1 .. Len(wire[s]) : wire'[s][i] = wire[s][i]
      BY <2>2, WireType, Appended
    <2> QED
      BY <1>0, <2>1, <2>2 DEF InWire
  <1>2. \A i \in 1 .. Len(wire[s]) : /\ i \in 1 .. Len(wire'[s])
                                     /\ InWire(s, "data", k, i) => InWire(s, "data", k, i)'
    BY <1>0, <1>1 DEF InWire
  <1>3. SentOnce(s, k)'
    <2>1. SentOnce(s, k)
      BY DEF Flows
    <2>2. st'[Other(s)][k].rd = "none" /\ Live(st'[s][k]) => QueueEnd(st'[s][k]) = 0
      BY <2>1 DEF SentOnce, SenderSteady, ReceiverSteady, Live, QueueEnd, Base
    <2> QED
      BY <1>1, <2>1, <2>2 DEF SentOnce, SenderSteady, Other
  <1>4. CASE ~Live(st'[s][k])
    BY <1>3, <1>4 DEF Flows, Consecutive
  <1>5. CASE Live(st'[s][k])
    <2>1. /\ Live(st[s][k]) /\ QueueEnd(st'[s][k]) = QueueEnd(st[s][k])
          /\ Base(st'[s][k]) = Base(st[s][k])
          /\ st'[s][k].pump = st[s][k].pump /\ st'[s][k].q = st[s][k].q
          /\ st'[s][k].hold = st[s][k].hold /\ st'[s][k].got = st[s][k].got
      BY <1>5 DEF ReceiverSteady, Live, QueueEnd, Base
    <2>2. Consecutive(s, k)
      BY DEF Flows
    <2>3. ASSUME NEW i \in 1 .. Len(wire'[s]), InWire(s, "data", k, i)'
          PROVE  \/ wire'[s][i].n = QueueEnd(st'[s][k]) + 1
                 \/ \E j \in 1 .. i - 1 : /\ InWire(s, "data", k, j)'
                                          /\ wire'[s][i].n = wire'[s][j].n + 1
      <3>1. i \in 1 .. Len(wire[s]) /\ InWire(s, "data", k, i) /\ wire'[s][i] = wire[s][i]
        BY <1>1, <2>3
      <3>2. CASE wire[s][i].n = QueueEnd(st[s][k]) + 1
        BY <2>1, <3>1, <3>2
      <3>3. ASSUME NEW j \in 1 .. i - 1, InWire(s, "data", k, j),
                   wire[s][i].n = wire[s][j].n + 1
            PROVE  InWire(s, "data", k, j)' /\ wire'[s][i].n = wire'[s][j].n + 1
        <4>1. j \in 1 .. Len(wire[s])
          BY <1>0, <3>1
        <4> QED
          BY <1>1, <1>2, <3>1, <3>3, <4>1
      <3> QED
        BY <2>1, <2>2, <3>1, <3>2, <3>3 DEF Consecutive
    <2>4. ASSUME st'[Other(s)][k].rd = "reading", Connected'
          PROVE  \/ st'[Other(s)][k].sent = QueueEnd(st'[s][k])
                 \/ \E i \in 1 .. Len(wire'[s]) :
                      /\ InWire(s, "data", k, i)'
                      /\ wire'[s][i].n = st'[Other(s)][k].sent
      BY <1>1, <1>2, <2>1, <2>2, <2>4 DEF Consecutive, SenderSteady
    <2>5. Consecutive(s, k)'
      BY <2>1, <2>2, <2>3, <2>4 DEF Consecutive, Other
    <2> QED
      BY <1>3, <2>5 DEF Flows
  <1> QED
    BY <1>4, <1>5

\* The decoder takes a frame: what is left moves up by one.
LEMMA Shifted ==
    ASSUME TypeOK, NEW s \in Sides, wire[s] # <<>>, wire'[s] = Tail(wire[s])
    PROVE  /\ Len(wire[s]) \in Nat /\ Len(wire[s]) >= 1
           /\ Len(wire'[s]) = Len(wire[s]) - 1
           /\ \A i \in 1 .. Len(wire'[s]) : /\ i + 1 \in 1 .. Len(wire[s])
                                            /\ wire'[s][i] = wire[s][i + 1]
           /\ \A i \in 1 .. Len(wire[s]) : i # 1 =>
                 i - 1 \in 1 .. Len(wire'[s]) /\ wire'[s][i - 1] = wire[s][i]
  <1>1. /\ wire[s] \in Seq(FrameState(s)) /\ Len(wire[s]) \in Nat
        /\ Len(wire[s]) >= 1 /\ Len(wire'[s]) = Len(wire[s]) - 1
        /\ \A i \in 1 .. Len(wire[s]) - 1 : wire'[s][i] = wire[s][i + 1]
    BY WireType, Tailed
  <1>2. \A i \in 1 .. Len(wire[s]) : i # 1 =>
           i - 1 \in 1 .. Len(wire'[s]) /\ wire'[s][i - 1] = wire[s][(i - 1) + 1]
    BY <1>1
  <1>3. \A i \in 1 .. Len(wire[s]) : (i - 1) + 1 = i
    BY <1>1
  <1> QED
    BY <1>1, <1>2, <1>3

\* Taking a frame duplicates nothing and shows nothing new.
LEMMA SentOnceShifts ==
    ASSUME TypeOK, NEW s \in Sides, NEW k \in Streams, SentOnce(s, k),
           SenderSteady(Other(s), k),
           wire[s] # <<>>, wire'[s] = Tail(wire[s]),
           st[Other(s)][k].rd = "none" /\ Live(st'[s][k]) => QueueEnd(st'[s][k]) = 0
    PROVE  SentOnce(s, k)'
  <1>1. \A i \in 1 .. Len(wire'[s]) : InWire(s, "data", k, i)' =>
           /\ i + 1 \in 1 .. Len(wire[s]) /\ InWire(s, "data", k, i + 1)
           /\ wire'[s][i].n = wire[s][i + 1].n
    BY Shifted DEF InWire
  <1>2. ASSUME NEW i \in 1 .. Len(wire'[s]), NEW j \in 1 .. Len(wire'[s]),
               InWire(s, "data", k, i)', InWire(s, "data", k, j)',
               wire'[s][i].n = wire'[s][j].n
        PROVE  i = j
    <2>1. i + 1 = j + 1
      BY <1>1, <1>2 DEF SentOnce
    <2>2. Len(wire'[s]) \in Nat
      BY Shifted
    <2> QED
      BY <2>1, <2>2
  <1>3. st'[Other(s)][k].rd = "none" =>
           /\ st'[Other(s)][k].sent = 0
           /\ Live(st'[s][k]) => QueueEnd(st'[s][k]) = 0
           /\ \A i \in 1 .. Len(wire'[s]) : ~InWire(s, "data", k, i)'
    BY <1>1 DEF SentOnce, SenderSteady
  <1>4. st'[Other(s)][k].rd = "reading" => \A i \in 1 .. Len(wire'[s]) :
           InWire(s, "data", k, i)' => wire'[s][i].n <= st'[Other(s)][k].sent
    BY <1>1 DEF SentOnce, SenderSteady
  <1> QED
    BY <1>2, <1>3, <1>4 DEF SentOnce, Other

\* The frame taken is no chunk of k, or the stream is closed by it.
LEMMA FlowShifts ==
    ASSUME TypeOK, NEW s \in Sides, NEW k \in Streams, Flows(s, k),
           SenderSteady(Other(s), k), ReceiverSteady(s, k),
           Connected' => Connected,
           wire[s] # <<>>, wire'[s] = Tail(wire[s]),
           ~InWire(s, "data", k, 1) \/ ~Live(st'[s][k])
    PROVE  Flows(s, k)'
  <1>1. SentOnce(s, k)'
    <2>1. st[Other(s)][k].rd = "none" /\ Live(st'[s][k]) => QueueEnd(st'[s][k]) = 0
      BY DEF Flows, SentOnce, ReceiverSteady, Live, QueueEnd, Base
    <2> QED
      BY <2>1, SentOnceShifts DEF Flows
  <1>2. CASE ~Live(st'[s][k])
    BY <1>1, <1>2 DEF Flows, Consecutive
  <1>3. CASE Live(st'[s][k])
    <2>1. /\ Live(st[s][k]) /\ QueueEnd(st'[s][k]) = QueueEnd(st[s][k])
          /\ Base(st'[s][k]) = Base(st[s][k])
          /\ st'[s][k].pump = st[s][k].pump /\ st'[s][k].q = st[s][k].q
          /\ st'[s][k].hold = st[s][k].hold /\ st'[s][k].got = st[s][k].got
      BY <1>3 DEF ReceiverSteady, Live, QueueEnd, Base
    <2>2. Consecutive(s, k)
      BY DEF Flows
    <2>3. ASSUME NEW i \in 1 .. Len(wire'[s]), InWire(s, "data", k, i)'
          PROVE  \/ wire'[s][i].n = QueueEnd(st'[s][k]) + 1
                 \/ \E j \in 1 .. i - 1 : /\ InWire(s, "data", k, j)'
                                          /\ wire'[s][i].n = wire'[s][j].n + 1
      <3>1. /\ i + 1 \in 1 .. Len(wire[s]) /\ InWire(s, "data", k, i + 1)
            /\ wire'[s][i] = wire[s][i + 1] /\ Len(wire'[s]) \in Nat
        BY <2>3, Shifted DEF InWire
      <3>2. CASE wire[s][i + 1].n = QueueEnd(st[s][k]) + 1
        BY <2>1, <3>1, <3>2
      <3>3. ASSUME NEW j \in 1 .. (i + 1) - 1, InWire(s, "data", k, j),
                   wire[s][i + 1].n = wire[s][j].n + 1
            PROVE  \E m \in 1 .. i - 1 : /\ InWire(s, "data", k, m)'
                                         /\ wire'[s][i].n = wire'[s][m].n + 1
        <4>1. j # 1 /\ j \in 1 .. Len(wire[s])
          BY <1>3, <3>1, <3>3, Shifted
        <4>2. j - 1 \in 1 .. Len(wire'[s]) /\ wire'[s][j - 1] = wire[s][j]
          BY <4>1, Shifted
        <4>3. j - 1 \in 1 .. i - 1
          BY <3>1, <4>1
        <4>4. InWire(s, "data", k, j - 1)'
          BY <3>3, <4>2 DEF InWire
        <4> QED
          BY <3>1, <3>3, <4>2, <4>3, <4>4
      <3> QED
        BY <2>1, <2>2, <3>1, <3>2, <3>3 DEF Consecutive
    <2>4. ASSUME st'[Other(s)][k].rd = "reading", Connected'
          PROVE  \/ st'[Other(s)][k].sent = QueueEnd(st'[s][k])
                 \/ \E i \in 1 .. Len(wire'[s]) :
                      /\ InWire(s, "data", k, i)'
                      /\ wire'[s][i].n = st'[Other(s)][k].sent
      <3>1. \/ st'[Other(s)][k].sent = QueueEnd(st[s][k])
            \/ \E i \in 1 .. Len(wire[s]) :
                 InWire(s, "data", k, i) /\ wire[s][i].n = st'[Other(s)][k].sent
        BY <2>1, <2>2, <2>4 DEF Consecutive, SenderSteady
      <3>2. ASSUME NEW i \in 1 .. Len(wire[s]), InWire(s, "data", k, i),
                   wire[s][i].n = st'[Other(s)][k].sent
            PROVE  /\ i - 1 \in 1 .. Len(wire'[s]) /\ InWire(s, "data", k, i - 1)'
                   /\ wire'[s][i - 1].n = st'[Other(s)][k].sent
        BY <1>3, <3>2, Shifted DEF InWire
      <3> QED
        BY <2>1, <3>1, <3>2
    <2>5. Consecutive(s, k)'
      BY <2>1, <2>2, <2>3, <2>4 DEF Consecutive, Other
    <2> QED
      BY <1>1, <2>5 DEF Flows
  <1> QED
    BY <1>2, <1>3

\* A side that is gone reads nothing more.
LEMMA FlowStops ==
    ASSUME TypeOK, NEW s \in Sides, NEW k \in Streams, Flows(s, k),
           SenderSteady(Other(s), k), ReceiverSteady(s, k),
           ~Connected', wire'[s] = <<>>
    PROVE  Flows(s, k)'
  <1>1. Len(wire'[s]) = 0 /\ 1 .. Len(wire'[s]) = {}
    OBVIOUS
  <1>2. Live(st'[s][k]) =>
          /\ Live(st[s][k]) /\ QueueEnd(st'[s][k]) = QueueEnd(st[s][k])
          /\ Base(st'[s][k]) = Base(st[s][k])
          /\ st'[s][k].pump = st[s][k].pump /\ st'[s][k].q = st[s][k].q
          /\ st'[s][k].hold = st[s][k].hold /\ st'[s][k].got = st[s][k].got
    BY DEF ReceiverSteady, Live, QueueEnd, Base
  <1>3. Consecutive(s, k)'
    BY <1>1, <1>2 DEF Flows, Consecutive
  <1>4. st'[Other(s)][k].rd = "none" => /\ st'[Other(s)][k].sent = 0
                                        /\ Live(st'[s][k]) => QueueEnd(st'[s][k]) = 0
    BY <1>2 DEF Flows, SentOnce, SenderSteady
  <1>5. SentOnce(s, k)'
    BY <1>1, <1>4 DEF SentOnce, Other
  <1> QED
    BY <1>3, <1>5 DEF Flows

\* The chunk the decoder takes is the next one of the queue.
LEMMA FlowEnqueues ==
    ASSUME TypeOK, NEW s \in Sides, NEW k \in Streams, Flows(s, k),
           SenderSteady(Other(s), k), Connected' => Connected,
           wire[s] # <<>>, wire'[s] = Tail(wire[s]), InWire(s, "data", k, 1),
           Live(st[s][k]), st[s][k].q \in Seq(Nat), Base(st[s][k]) \in Nat,
           Live(st'[s][k]), st'[s][k].pump = st[s][k].pump,
           st'[s][k].hold = st[s][k].hold, st'[s][k].got = st[s][k].got,
           st'[s][k].q = Append(st[s][k].q, wire[s][1].n)
    PROVE  Flows(s, k)'
  <1> DEFINE e == QueueEnd(st[s][k])
             N == wire[s][1].n
  <1>0. /\ Len(wire[s]) \in Nat /\ Len(wire[s]) >= 1 /\ 1 \in 1 .. Len(wire[s])
        /\ N \in Nat /\ Len(wire'[s]) \in Nat
    BY Shifted, WireType
  <1>1. N = e + 1
    <2>1. ~\E j \in 1 .. 1 - 1 : TRUE
      OBVIOUS
    <2> QED
      BY <1>0, <2>1 DEF Flows, Consecutive
  <1>2. /\ Len(st'[s][k].q) = Len(st[s][k].q) + 1 /\ Len(st[s][k].q) \in Nat
        /\ st'[s][k].q[Len(st[s][k].q) + 1] = N
        /\ \A i \in 1 .. Len(st[s][k].q) : st'[s][k].q[i] = st[s][k].q[i]
    BY <1>0, Appended
  <1>a. Base(st'[s][k]) = Base(st[s][k])
    BY DEF Base
  <1>b. e = Base(st[s][k]) + Len(st[s][k].q)
    BY DEF QueueEnd
  <1>c. QueueEnd(st'[s][k]) = Base(st'[s][k]) + Len(st'[s][k].q)
    BY DEF QueueEnd
  <1> HIDE DEF e, N
  <1>3. /\ Base(st'[s][k]) = Base(st[s][k]) /\ QueueEnd(st'[s][k]) = e + 1
        /\ e = Base(st[s][k]) + Len(st[s][k].q) /\ e \in Nat
    BY <1>2, <1>a, <1>b, <1>c
  <1>4. \A i \in 1 .. Len(st'[s][k].q) : st'[s][k].q[i] = Base(st'[s][k]) + i
    <2>1. \A i \in 1 .. Len(st[s][k].q) : st[s][k].q[i] = Base(st[s][k]) + i
      BY DEF Flows, Consecutive
    <2>2. ASSUME NEW i \in 1 .. Len(st'[s][k].q)
          PROVE  i \in 1 .. Len(st[s][k].q) \/ i = Len(st[s][k].q) + 1
      BY <1>2
    <2>3. N = Base(st[s][k]) + (Len(st[s][k].q) + 1)
      BY <1>1, <1>2, <1>3
    <2>4. ASSUME NEW i \in 1 .. Len(st'[s][k].q)
          PROVE  st'[s][k].q[i] = Base(st[s][k]) + i
      <3>1. CASE i \in 1 .. Len(st[s][k].q)
        BY <1>2, <2>1, <3>1
      <3>2. CASE i = Len(st[s][k].q) + 1
        BY <1>2, <2>3, <3>2
      <3> QED
        BY <2>2, <3>1, <3>2
    <2> QED
      BY <1>3, <2>4
  <1>5. ASSUME NEW i \in 1 .. Len(wire'[s]), InWire(s, "data", k, i)'
        PROVE  \/ wire'[s][i].n = QueueEnd(st'[s][k]) + 1
               \/ \E j \in 1 .. i - 1 : /\ InWire(s, "data", k, j)'
                                        /\ wire'[s][i].n = wire'[s][j].n + 1
    <2>1. /\ i + 1 \in 1 .. Len(wire[s]) /\ InWire(s, "data", k, i + 1)
          /\ wire'[s][i] = wire[s][i + 1] /\ i + 1 # 1
      BY <1>0, <1>5, Shifted DEF InWire
    <2>2. wire[s][i + 1].n # N
      BY <1>0, <2>1 DEF Flows, SentOnce, N
    <2>3. PICK j \in 1 .. (i + 1) - 1 :
             InWire(s, "data", k, j) /\ wire[s][i + 1].n = wire[s][j].n + 1
      BY <1>1, <2>1, <2>2 DEF Flows, Consecutive, e
    <2>4. CASE j = 1
      BY <1>1, <1>3, <2>1, <2>3, <2>4 DEF N
    <2>5. CASE j # 1
      <3>1. j \in 1 .. Len(wire[s])
        BY <1>0, <2>1
      <3>2. j - 1 \in 1 .. Len(wire'[s]) /\ wire'[s][j - 1] = wire[s][j]
        BY <2>5, <3>1, Shifted
      <3>3. j - 1 \in 1 .. i - 1
        BY <1>0, <2>5
      <3>4. InWire(s, "data", k, j - 1)'
        BY <2>3, <3>2 DEF InWire
      <3> QED
        BY <2>1, <2>3, <3>2, <3>3, <3>4
    <2> QED
      BY <2>4, <2>5
  <1>6. ASSUME st'[Other(s)][k].rd = "reading", Connected'
        PROVE  \/ st'[Other(s)][k].sent = QueueEnd(st'[s][k])
               \/ \E i \in 1 .. Len(wire'[s]) :
                    /\ InWire(s, "data", k, i)'
                    /\ wire'[s][i].n = st'[Other(s)][k].sent
    <2>1. /\ st[Other(s)][k].rd = "reading" /\ Connected
          /\ st'[Other(s)][k].sent = st[Other(s)][k].sent
      BY <1>6 DEF SenderSteady
    <2>2. N <= st[Other(s)][k].sent
      BY <1>0, <2>1 DEF Flows, SentOnce, N
    <2>3. st[Other(s)][k].sent # e
      BY <1>1, <1>3, <2>2
    <2>4. PICK i \in 1 .. Len(wire[s]) :
             InWire(s, "data", k, i) /\ wire[s][i].n = st[Other(s)][k].sent
      BY <2>1, <2>3 DEF Flows, Consecutive, e
    <2>5. CASE i = 1
      BY <1>1, <1>3, <2>1, <2>4, <2>5 DEF N
    <2>6. CASE i # 1
      BY <2>1, <2>4, <2>6, Shifted DEF InWire
    <2> QED
      BY <2>5, <2>6
  <1>7. st'[s][k].pump = "writing" => st'[s][k].hold = st'[s][k].got + 1
    BY DEF Flows, Consecutive
  <1>8. Consecutive(s, k)'
    BY <1>4, <1>5, <1>6, <1>7 DEF Consecutive, Other
  <1>9. st[Other(s)][k].rd # "none"
    BY <1>0 DEF Flows, SentOnce
  <1>10. SentOnce(s, k)'
    BY <1>9, SentOnceShifts DEF Flows
  <1> QED
    BY <1>8, <1>10 DEF Flows

\* The far end sends a chunk: it follows the last one.
LEMMA FlowSends ==
    ASSUME TypeOK, NEW s \in Sides, NEW k \in Streams, Flows(s, k),
           ReceiverSteady(s, k), Connected, NEW n \in Nat,
           st[Other(s)][k].rd = "reading", st[Other(s)][k].sent \in Nat,
           n = st[Other(s)][k].sent + 1,
           st'[Other(s)][k].rd = "reading", st'[Other(s)][k].sent = n,
           Live(st'[s][k]) => QueueEnd(st'[s][k]) \in Nat,
           wire'[s] = Append(wire[s], Frame("data", k, n))
    PROVE  Flows(s, k)'
  <1>L. PICK L \in Nat : L = Len(wire[s])
    BY WireType
  <1>0. Frame("data", k, n) \in FrameState(s)
    BY DEF Frame, FrameState
  <1>1. /\ L \in Nat /\ Len(wire'[s]) = L + 1 /\ wire'[s][L + 1] = Frame("data", k, n)
        /\ \A i \in 1 .. L : wire'[s][i] = wire[s][i] /\ wire[s][i].n \in Nat
    BY <1>0, <1>L, WireType, Appended
  <1>2. /\ L + 1 \in 1 .. Len(wire'[s]) /\ InWire(s, "data", k, L + 1)'
        /\ wire'[s][L + 1].n = n
        /\ \A i \in 1 .. L : i \in 1 .. Len(wire'[s]) /\ (InWire(s, "data", k, i)' <=> InWire(s, "data", k, i))
        /\ \A i \in 1 .. Len(wire'[s]) : i \in 1 .. L \/ i = L + 1
    <2>1. L + 1 \in 1 .. Len(wire'[s]) /\ \A i \in 1 .. L : i \in 1 .. Len(wire'[s])
      BY <1>1
    <2>2. \A i \in 1 .. Len(wire'[s]) : i \in 1 .. L \/ i = L + 1
      BY <1>1
    <2>3. InWire(s, "data", k, L + 1)' /\ wire'[s][L + 1].n = n
      BY <1>1 DEF InWire, Frame
    <2>4. \A i \in 1 .. L : InWire(s, "data", k, i)' <=> InWire(s, "data", k, i)
      BY <1>1 DEF InWire
    <2> QED
      BY <2>1, <2>2, <2>3, <2>4
  <1>3. \A i \in 1 .. L : InWire(s, "data", k, i) => wire[s][i].n <= st[Other(s)][k].sent
    BY <1>L DEF Flows, SentOnce
  <1>4. SentOnce(s, k)'
    <2>1. \A i \in 1 .. Len(wire'[s]) : InWire(s, "data", k, i)' =>
             wire'[s][i].n <= n /\ (i # L + 1 => wire'[s][i].n # n)
      BY <1>1, <1>2, <1>3
    <2>2. \A i, j \in 1 .. L : InWire(s, "data", k, i) /\ InWire(s, "data", k, j)
             /\ wire[s][i].n = wire[s][j].n => i = j
      BY <1>L DEF Flows, SentOnce
    <2>3. ASSUME NEW i \in 1 .. Len(wire'[s]), NEW j \in 1 .. Len(wire'[s]),
                 InWire(s, "data", k, i)', InWire(s, "data", k, j)',
                 wire'[s][i].n = wire'[s][j].n
          PROVE  i = j
      <3>1. CASE i = L + 1 \/ j = L + 1
        BY <1>2, <2>1, <2>3, <3>1
      <3>2. CASE i \in 1 .. L /\ j \in 1 .. L
        BY <1>1, <1>2, <2>2, <2>3, <3>2
      <3> QED
        BY <1>2, <3>1, <3>2
    <2> QED
      BY <2>1, <2>3 DEF SentOnce, Other
  <1>5. CASE ~Live(st'[s][k])
    BY <1>4, <1>5 DEF Flows, Consecutive
  <1>6. CASE Live(st'[s][k])
    <2>1. /\ Live(st[s][k]) /\ QueueEnd(st'[s][k]) = QueueEnd(st[s][k])
          /\ Base(st'[s][k]) = Base(st[s][k])
          /\ st'[s][k].pump = st[s][k].pump /\ st'[s][k].q = st[s][k].q
          /\ st'[s][k].hold = st[s][k].hold /\ st'[s][k].got = st[s][k].got
      BY <1>6 DEF ReceiverSteady, Live, QueueEnd, Base
    <2>2. Consecutive(s, k)
      BY DEF Flows
    <2>3. ASSUME NEW i \in 1 .. Len(wire'[s]), InWire(s, "data", k, i)'
          PROVE  \/ wire'[s][i].n = QueueEnd(st'[s][k]) + 1
                 \/ \E j \in 1 .. i - 1 : /\ InWire(s, "data", k, j)'
                                          /\ wire'[s][i].n = wire'[s][j].n + 1
      <3>1. CASE i \in 1 .. L
        <4>1. \/ wire[s][i].n = QueueEnd(st[s][k]) + 1
              \/ \E j \in 1 .. i - 1 : InWire(s, "data", k, j) /\ wire[s][i].n = wire[s][j].n + 1
          BY <1>2, <2>1, <2>2, <2>3, <3>1, <1>L DEF Consecutive
        <4>2. \A j \in 1 .. i - 1 : j \in 1 .. L
          BY <1>1, <3>1
        <4> QED
          BY <1>1, <1>2, <2>1, <3>1, <4>1, <4>2
      <3>2. CASE i = L + 1
        <4>1. \/ st[Other(s)][k].sent = QueueEnd(st[s][k])
              \/ \E j \in 1 .. L : InWire(s, "data", k, j) /\ wire[s][j].n = st[Other(s)][k].sent
          BY <2>1, <2>2, <1>L DEF Consecutive
        <4>2. \A j \in 1 .. L : j \in 1 .. i - 1
          BY <1>1, <3>2
        <4> QED
          BY <1>1, <1>2, <2>1, <3>2, <4>1, <4>2
      <3> QED
        BY <1>2, <3>1, <3>2
    <2>4. \E i \in 1 .. Len(wire'[s]) :
             InWire(s, "data", k, i)' /\ wire'[s][i].n = st'[Other(s)][k].sent
      BY <1>2
    <2>5. /\ st'[s][k].pump = "writing" => st'[s][k].hold = st'[s][k].got + 1
          /\ \A i \in 1 .. Len(st'[s][k].q) : st'[s][k].q[i] = Base(st'[s][k]) + i
      BY <2>1, <2>2 DEF Consecutive
    <2>6. Consecutive(s, k)'
      BY <2>3, <2>4, <2>5 DEF Consecutive, Other
    <2> QED
      BY <1>4, <2>6 DEF Flows
  <1> QED
    BY <1>5, <1>6

\* The pump of a live stream takes a chunk, or hands one over.
LEMMA FlowPumps ==
    ASSUME TypeOK, NEW s \in Sides, NEW k \in Streams, Flows(s, k),
           st'[Other(s)][k].rd = st[Other(s)][k].rd,
           st'[Other(s)][k].sent = st[Other(s)][k].sent,
           Connected' => Connected, wire'[s] = wire[s],
           Live(st[s][k]), QueueEnd(st'[s][k]) = QueueEnd(st[s][k]),
           st'[s][k].pump = "writing" => st'[s][k].hold = st'[s][k].got + 1,
           \A i \in 1 .. Len(st'[s][k].q) : st'[s][k].q[i] = Base(st'[s][k]) + i
    PROVE  Flows(s, k)'
  <1>1. \A i \in 1 .. Len(wire'[s]) : InWire(s, "data", k, i)' <=> InWire(s, "data", k, i)
    BY DEF InWire
  <1>2. SentOnce(s, k)'
    BY <1>1 DEF Flows, SentOnce, Other
  <1>3. ASSUME NEW i \in 1 .. Len(wire'[s]), InWire(s, "data", k, i)'
        PROVE  \/ wire'[s][i].n = QueueEnd(st'[s][k]) + 1
               \/ \E j \in 1 .. i - 1 : /\ InWire(s, "data", k, j)'
                                        /\ wire'[s][i].n = wire'[s][j].n + 1
    BY <1>1, <1>3 DEF Flows, Consecutive, InWire
  <1>4. ASSUME st'[Other(s)][k].rd = "reading", Connected'
        PROVE  \/ st'[Other(s)][k].sent = QueueEnd(st'[s][k])
               \/ \E i \in 1 .. Len(wire'[s]) :
                    /\ InWire(s, "data", k, i)'
                    /\ wire'[s][i].n = st'[Other(s)][k].sent
    BY <1>1, <1>4 DEF Flows, Consecutive
  <1>5. Consecutive(s, k)'
    BY <1>3, <1>4 DEF Consecutive, Other
  <1> QED
    BY <1>2, <1>5 DEF Flows

\* A stream starts empty, before anybody sends on it.
LEMMA FlowStarts ==
    ASSUME TypeOK, NEW s \in Sides, NEW k \in Streams, Flows(s, k),
           st[Other(s)][k].rd = "none", st'[Other(s)][k].rd = "none",
           st'[Other(s)][k].sent = st[Other(s)][k].sent,
           wire'[s] = wire[s],
           st'[s][k].pump = "idle", st'[s][k].got = 0, st'[s][k].q = <<>>
    PROVE  Flows(s, k)'
  <1>1. /\ \A i \in 1 .. Len(wire'[s]) : ~InWire(s, "data", k, i)'
        /\ st'[Other(s)][k].sent = 0
    BY DEF Flows, SentOnce, InWire
  <1>2. Len(st'[s][k].q) = 0 /\ 1 .. Len(st'[s][k].q) = {} /\ QueueEnd(st'[s][k]) = 0
    BY DEF QueueEnd, Base
  <1> QED
    BY <1>1, <1>2 DEF Flows, Consecutive, SentOnce, Other

\* A far end starts to send: both ends have nothing yet.
LEMMA FlowListens ==
    ASSUME TypeOK, NEW s \in Sides, NEW k \in Streams, Flows(s, k),
           st[Other(s)][k].rd = "none", st'[Other(s)][k].rd = "reading",
           st'[Other(s)][k].sent = st[Other(s)][k].sent,
           ReceiverSteady(s, k),
           \/ wire'[s] = wire[s]
           \/ \E f \in FrameState(s) : /\ ~(f.t = "data" /\ f.id = k)
                                       /\ wire'[s] = Append(wire[s], f)
    PROVE  Flows(s, k)'
  <1>1. \A i \in 1 .. Len(wire'[s]) : ~InWire(s, "data", k, i)'
    <2>0. \A i \in 1 .. Len(wire[s]) : ~InWire(s, "data", k, i)
      BY DEF Flows, SentOnce
    <2>1. CASE wire'[s] = wire[s]
      BY <2>0, <2>1 DEF InWire
    <2>2. ASSUME NEW f \in FrameState(s), ~(f.t = "data" /\ f.id = k),
                 wire'[s] = Append(wire[s], f)
          PROVE  \A i \in 1 .. Len(wire'[s]) : ~InWire(s, "data", k, i)'
      <3>1. /\ Len(wire'[s]) = Len(wire[s]) + 1 /\ wire'[s][Len(wire[s]) + 1] = f
            /\ \A i \in 1 .. Len(wire[s]) : wire'[s][i] = wire[s][i]
            /\ Len(wire[s]) \in Nat
        BY <2>2, WireType, Appended
      <3> SUFFICES ASSUME NEW i \in 1 .. Len(wire'[s])
                   PROVE  ~InWire(s, "data", k, i)'
        OBVIOUS
      <3>2. CASE i = Len(wire[s]) + 1
        BY <2>2, <3>1, <3>2 DEF InWire
      <3>3. CASE i # Len(wire[s]) + 1
        <4>1. i \in 1 .. Len(wire[s])
          BY <3>1, <3>3
        <4> QED
          BY <2>0, <3>1, <4>1 DEF InWire
      <3> QED
        BY <3>2, <3>3
    <2> QED
      BY <2>1, <2>2
  <1>2. st'[Other(s)][k].sent = 0
    BY DEF Flows, SentOnce
  <1>3. CASE ~Live(st'[s][k])
    BY <1>1, <1>3 DEF Flows, Consecutive, SentOnce, Other
  <1>4. CASE Live(st'[s][k])
    <2>1. /\ Live(st[s][k]) /\ QueueEnd(st'[s][k]) = QueueEnd(st[s][k])
          /\ Base(st'[s][k]) = Base(st[s][k])
          /\ st'[s][k].pump = st[s][k].pump /\ st'[s][k].q = st[s][k].q
          /\ st'[s][k].hold = st[s][k].hold /\ st'[s][k].got = st[s][k].got
      BY <1>4 DEF ReceiverSteady, Live, QueueEnd, Base
    <2>2. QueueEnd(st'[s][k]) = 0
      BY <2>1 DEF Flows, SentOnce
    <2>3. Consecutive(s, k)'
      BY <1>1, <1>2, <2>1, <2>2 DEF Flows, Consecutive, Other
    <2> QED
      BY <1>1, <2>3 DEF Flows, SentOnce, Other
  <1> QED
    BY <1>3, <1>4

-----------------------------------------------------------------------------
(* Streams and frames that stay what they were.                            *)

\* What a step that opens and delivers nothing does to a stream.
Steady(r, x) ==
    /\ x \in StreamState /\ Mapped(x) /\ (x.reg => r.reg)
    /\ x.pump = "none" <=> r.pump = "none"
    /\ x.rd = "none" <=> r.rd = "none"
    /\ (x.rd = r.rd /\ x.sent = r.sent) \/ x.rd \notin {"none", "reading"}
    /\ \/ /\ x.pump = r.pump /\ x.shut = r.shut /\ x.hold = r.hold
          /\ x.got = r.got /\ x.q = r.q
       \/ ~Live(x)

LEMMA SteadySame ==
    ASSUME NEW r \in StreamState, Mapped(r)
    PROVE  Steady(r, r)
  BY DEF Steady

LEMMA StreamType ==
    ASSUME NEW r \in StreamState
    PROVE  /\ r.reg \in BOOLEAN /\ r.shut \in BOOLEAN /\ r.far \in BOOLEAN
           /\ r.q \in Seq(Nat) /\ Len(r.q) \in Nat
           /\ r.pump \in {"none", "idle", "writing", "over"}
           /\ r.hold \in Nat /\ r.got \in Nat /\ r.sent \in Nat
           /\ r.rd \in {"none", "reading", "ending", "closing", "over"}
           /\ Base(r) \in Nat /\ QueueEnd(r) \in Nat
  <1>1. /\ r.reg \in BOOLEAN /\ r.shut \in BOOLEAN /\ r.far \in BOOLEAN
        /\ r.q \in Seq(Nat)
        /\ r.pump \in {"none", "idle", "writing", "over"}
        /\ r.hold \in Nat /\ r.got \in Nat /\ r.sent \in Nat
        /\ r.rd \in {"none", "reading", "ending", "closing", "over"}
    BY DEF StreamState
  <1>2. Len(r.q) \in Nat /\ Base(r) \in Nat
    BY <1>1 DEF Base
  <1> QED
    BY <1>1, <1>2 DEF QueueEnd

LEMMA NoStreamType ==
    /\ NoStream \in StreamState /\ NoStream.q = <<>> /\ NoStream.got = 0
    /\ NoStream.sent = 0 /\ NoStream.hold = 0 /\ NoStream.pump = "none"
    /\ NoStream.rd = "none" /\ NoStream.reg = FALSE /\ NoStream.shut = FALSE
    /\ NoStream.far = FALSE
  <1>1. <<>> \in Seq(Nat)
    OBVIOUS
  <1> QED
    BY <1>1 DEF NoStream, StreamState

\* One stream of one side changes.
LEMMA OneStream ==
    ASSUME st \in [Sides -> [Streams -> StreamState]],
           NEW s \in Sides, NEW k \in Streams, NEW x \in StreamState,
           st' = [st EXCEPT ![s][k] = x]
    PROVE  /\ st' \in [Sides -> [Streams -> StreamState]] /\ st'[s][k] = x
           /\ \A p \in Sides, m \in Streams :
                 p # s \/ m # k => st'[p][m] = st[p][m]
  OBVIOUS

\* Every stream stays what it was.
StreamsSteady ==
    /\ st' \in [Sides -> [Streams -> StreamState]]
    /\ \A s \in Sides, k \in Streams : Steady(st[s][k], st'[s][k])

\* No frame of kind t for k is new, and those left keep their order.
NoneNew(s, t, k) ==
    \E d \in {0, 1} : \A i \in 1 .. Len(wire'[s]) :
        wire'[s][i].t = t /\ wire'[s][i].id = k =>
            i + d \in 1 .. Len(wire[s]) /\ InWire(s, t, k, i + d)

LEMMA NoneNewFrames ==
    ASSUME TypeOK, NEW s \in Sides, NEW t, NEW k \in Streams,
           \/ wire'[s] = wire[s]
           \/ \E f \in FrameState(s) : /\ ~(f.t = t /\ f.id = k)
                                       /\ wire'[s] = Append(wire[s], f)
           \/ wire[s] # <<>> /\ wire'[s] = Tail(wire[s])
           \/ wire'[s] = <<>>
    PROVE  NoneNew(s, t, k)
  <1>0. Len(wire[s]) \in Nat
    BY WireType
  <1>1. CASE wire'[s] = wire[s]
    <2>1. \A i \in 1 .. Len(wire[s]) : i + 0 = i
      BY <1>0
    <2> QED
      BY <1>1, <2>1 DEF NoneNew, InWire
  <1>2. CASE \E f \in FrameState(s) : /\ ~(f.t = t /\ f.id = k)
                                      /\ wire'[s] = Append(wire[s], f)
    <2>1. PICK f \in FrameState(s) : /\ ~(f.t = t /\ f.id = k)
                                     /\ wire'[s] = Append(wire[s], f)
      BY <1>2
    <2>2. /\ Len(wire'[s]) = Len(wire[s]) + 1 /\ wire'[s][Len(wire[s]) + 1] = f
          /\ \A i \in 1 .. Len(wire[s]) : wire'[s][i] = wire[s][i]
      BY <2>1, WireType, Appended
    <2>3. \A i \in 1 .. Len(wire'[s]) : wire'[s][i].t = t /\ wire'[s][i].id = k =>
             i + 0 \in 1 .. Len(wire[s]) /\ wire'[s][i] = wire[s][i + 0]
      BY <1>0, <2>1, <2>2
    <2> QED
      BY <2>3 DEF NoneNew, InWire
  <1>3. CASE wire[s] # <<>> /\ wire'[s] = Tail(wire[s])
    BY <1>3, Shifted DEF NoneNew, InWire
  <1>4. CASE wire'[s] = <<>>
    <2>1. 1 .. Len(wire'[s]) = {}
      BY <1>4
    <2> QED
      BY <2>1 DEF NoneNew
  <1> QED
    BY <1>1, <1>2, <1>3, <1>4

-----------------------------------------------------------------------------
(* Opening.                                                                *)

\* A call goes on to its registration, or fails.
CallSteady(k) ==
    \/ call'[k] = call[k]
    \/ call[k] \in Unopened /\ call'[k] \in Unopened
    \/ call[k] # "open" /\ call'[k] = "failed"

\* What an open is told was in a frame.
AnswerSteady(k) ==
    answer'[k] = "ok" =>
        \/ answer[k] = "ok"
        \/ \E i \in 1 .. Len(wire["origin"]) : InWire("origin", "ok", k, i)

LEMMA OpenedSteady ==
    ASSUME TypeOK, NEW k \in Streams, OpenedOnce(k), CallSteady(k),
           \A s \in Sides : /\ st'[s][k].pump = "none" <=> st[s][k].pump = "none"
                            /\ st'[s][k].rd = "none" <=> st[s][k].rd = "none",
           Dialing(k)' => Dialing(k), AnswerSteady(k),
           NoneNew("bridge", "open", k), NoneNew("origin", "ok", k)
    PROVE  OpenedOnce(k)'
  <1> DEFINE o == st["origin"][k]
             b == st["bridge"][k]
             oo == st'["origin"][k]
             bb == st'["bridge"][k]
  <1>0. /\ oo.pump = "none" <=> o.pump = "none"
        /\ bb.pump = "none" <=> b.pump = "none"
        /\ oo.rd = "none" <=> o.rd = "none"
        /\ bb.rd = "none" <=> b.rd = "none"
    BY SidesFacts
  <1> HIDE DEF o, b, oo, bb
  <1>1. /\ call[k] \in Unopened => o.pump = "none"
        /\ call[k] \in {"opening", "await", "open"} => o.pump # "none"
        /\ call[k] # "open" => o.rd = "none"
        /\ call[k] \in Unopened \cup {"opening"} => b.pump = "none" /\ ~Dialing(k)
        /\ Dialing(k) => b.pump = "none"
        /\ b.pump = "none" => o.rd = "none" /\ answer[k] # "ok" /\ b.rd = "none"
    BY DEF OpenedOnce, o, b
  <1>2. PICK d \in {0, 1} : \A i \in 1 .. Len(wire'["bridge"]) :
           InWire("bridge", "open", k, i)' =>
               i + d \in 1 .. Len(wire["bridge"]) /\ InWire("bridge", "open", k, i + d)
    BY DEF NoneNew, InWire
  <1>3. PICK c \in {0, 1} : \A i \in 1 .. Len(wire'["origin"]) :
           InWire("origin", "ok", k, i)' =>
               i + c \in 1 .. Len(wire["origin"]) /\ InWire("origin", "ok", k, i + c)
    BY DEF NoneNew, InWire
  <1>4. /\ call'[k] \in Unopened => oo.pump = "none"
        /\ call'[k] \in {"opening", "await", "open"} => oo.pump # "none"
        /\ call'[k] # "open" => oo.rd = "none"
        /\ call'[k] \in Unopened \cup {"opening"} =>
              call[k] \in Unopened \cup {"opening"} /\ bb.pump = "none" /\ ~Dialing(k)'
        /\ Dialing(k)' => bb.pump = "none"
    BY <1>0, <1>1 DEF CallSteady, Unopened
  <1>5. call'[k] \in Unopened \cup {"opening"} =>
           \A i \in 1 .. Len(wire'["bridge"]) : ~InWire("bridge", "open", k, i)'
    BY <1>2, <1>4 DEF OpenedOnce
  <1>6. ASSUME NEW i \in 1 .. Len(wire'["bridge"]), InWire("bridge", "open", k, i)'
        PROVE  /\ bb.pump = "none" /\ ~Dialing(k)'
               /\ \A j \in 1 .. Len(wire'["bridge"]) :
                     InWire("bridge", "open", k, j)' => j = i
    <2>1. i + d \in 1 .. Len(wire["bridge"]) /\ InWire("bridge", "open", k, i + d)
      BY <1>2, <1>6
    <2>2. bb.pump = "none" /\ ~Dialing(k)'
      BY <1>0, <2>1 DEF OpenedOnce, b
    <2>3. ASSUME NEW j \in 1 .. Len(wire'["bridge"]), InWire("bridge", "open", k, j)'
          PROVE  j = i
      <3>1. j + d \in 1 .. Len(wire["bridge"]) /\ InWire("bridge", "open", k, j + d)
        BY <1>2, <2>3
      <3>2. j + d = i + d
        BY <2>1, <3>1 DEF OpenedOnce
      <3>3. i \in Int /\ j \in Int /\ d \in Int
        OBVIOUS
      <3> QED
        BY <3>2, <3>3
    <2> QED
      BY <2>2, <2>3
  <1>7. bb.pump = "none" =>
          /\ oo.rd = "none" /\ answer'[k] # "ok" /\ bb.rd = "none"
          /\ \A i \in 1 .. Len(wire'["origin"]) : ~InWire("origin", "ok", k, i)'
    <2>1. b.pump = "none" =>
             \A i \in 1 .. Len(wire["origin"]) : ~InWire("origin", "ok", k, i)
      BY DEF OpenedOnce, b
    <2> QED
      BY <1>0, <1>1, <1>3, <2>1 DEF AnswerSteady
  <1> QED
    BY <1>4, <1>5, <1>6, <1>7 DEF OpenedOnce, oo, bb

-----------------------------------------------------------------------------
(* Steps that open and deliver nothing.                                    *)

WireSteady(s) ==
    \/ wire'[s] = wire[s]
    \/ \E f \in FrameState(s) : /\ f.t \notin {"data", "open", "ok"}
                                /\ wire'[s] = Append(wire[s], f)
    \/ /\ wire[s] # <<>> /\ wire'[s] = Tail(wire[s])
       /\ \A k \in Streams : InWire(s, "data", k, 1) => ~Live(st'[s][k])
    \/ ~Connected' /\ wire'[s] = <<>>

LEMMA WireSteadyType ==
    ASSUME TypeOK, DOMAIN wire' = Sides, \A s \in Sides : WireSteady(s)
    PROVE  /\ wire'["origin"] \in Seq(FrameState("origin"))
           /\ wire'["bridge"] \in Seq(FrameState("bridge"))
  <1>1. ASSUME NEW s \in Sides
        PROVE  wire'[s] \in Seq(FrameState(s))
    <2>1. wire[s] \in Seq(FrameState(s)) /\ <<>> \in Seq(FrameState(s))
      BY WireType
    <2>2. CASE wire'[s] = wire[s]
      BY <2>1, <2>2
    <2>3. CASE \E f \in FrameState(s) : wire'[s] = Append(wire[s], f)
      BY <2>1, <2>3
    <2>4. CASE wire[s] # <<>> /\ wire'[s] = Tail(wire[s])
      BY <2>1, <2>4, Tailed
    <2>5. CASE wire'[s] = <<>>
      BY <2>1, <2>5
    <2> QED
      BY <2>2, <2>3, <2>4, <2>5 DEF WireSteady
  <1> QED
    BY <1>1, SidesFacts

LEMMA FlowsSteady ==
    ASSUME TypeOK, NEW s \in Sides, NEW k \in Streams, Flows(s, k),
           Steady(st[s][k], st'[s][k]), Steady(st[Other(s)][k], st'[Other(s)][k]),
           Connected' => Connected, WireSteady(s)
    PROVE  Flows(s, k)'
  <1>1. ReceiverSteady(s, k)
    BY DEF Steady, ReceiverSteady
  <1>2. SenderSteady(Other(s), k)
    BY DEF Steady, SenderSteady
  <1>3. CASE \/ wire'[s] = wire[s]
             \/ \E f \in FrameState(s) : /\ f.t \notin {"data", "open", "ok"}
                                         /\ wire'[s] = Append(wire[s], f)
    BY <1>1, <1>2, <1>3, FlowAppends
  <1>4. CASE /\ wire[s] # <<>> /\ wire'[s] = Tail(wire[s])
             /\ \A m \in Streams : InWire(s, "data", m, 1) => ~Live(st'[s][m])
    BY <1>1, <1>2, <1>4, FlowShifts
  <1>5. CASE ~Connected' /\ wire'[s] = <<>>
    BY <1>1, <1>2, <1>5, FlowStops
  <1> QED
    BY <1>3, <1>4, <1>5 DEF WireSteady

Ordered ==
    /\ \A k \in Streams : OpenedOnce(k)
    /\ \A s \in Sides, k \in Streams : Mapped(st[s][k]) /\ Flows(s, k)

LEMMA SteadyOrdered ==
    ASSUME TypeOK, Ordered, StreamsSteady, Connected' => Connected,
           \A s \in Sides : WireSteady(s),
           \A k \in Streams : /\ CallSteady(k) /\ AnswerSteady(k)
                              /\ Dialing(k)' => Dialing(k)
    PROVE  Ordered'
  <1>1. ASSUME NEW k \in Streams
        PROVE  OpenedOnce(k)'
    <2>1. NoneNew("bridge", "open", k)
      BY NoneNewFrames, SidesFacts DEF WireSteady
    <2>2. NoneNew("origin", "ok", k)
      BY NoneNewFrames, SidesFacts DEF WireSteady
    <2>3. \A s \in Sides : /\ st'[s][k].pump = "none" <=> st[s][k].pump = "none"
                           /\ st'[s][k].rd = "none" <=> st[s][k].rd = "none"
      BY DEF StreamsSteady, Steady
    <2> QED
      BY <2>1, <2>2, <2>3, OpenedSteady DEF Ordered
  <1>2. ASSUME NEW s \in Sides, NEW k \in Streams
        PROVE  Mapped(st'[s][k]) /\ Flows(s, k)'
    <2>1. Other(s) \in Sides
      BY SidesFacts
    <2>2. Steady(st[s][k], st'[s][k]) /\ Steady(st[Other(s)][k], st'[Other(s)][k])
      BY <2>1 DEF StreamsSteady
    <2>3. Flows(s, k)'
      BY <2>2, FlowsSteady DEF Ordered
    <2> QED
      BY <2>2, <2>3 DEF Steady
  <1> QED
    BY <1>1, <1>2 DEF Ordered

-----------------------------------------------------------------------------
(* Closing.                                                                *)

\* The step makes x of stream k of side s, and leaves the others.
Makes(s, k, x) ==
    /\ st' \in [Sides -> [Streams -> StreamState]] /\ st'[s][k] = x
    /\ \A p \in Sides, m \in Streams : p # s \/ m # k => st'[p][m] = st[p][m]

LEMMA MakesSteady ==
    ASSUME TypeOK, Ordered, NEW s \in Sides, NEW k \in Streams, NEW x,
           Makes(s, k, x), Steady(st[s][k], x)
    PROVE  StreamsSteady
  <1>1. \A p \in Sides, m \in Streams : st[p][m] \in StreamState /\ Mapped(st[p][m])
    BY DEF TypeOK, Ordered
  <1> QED
    BY <1>1, SteadySame DEF Makes, StreamsSteady

LEMMA ShutSteady ==
    ASSUME NEW r \in StreamState, Mapped(r)
    PROVE  /\ Shut(r) \in StreamState /\ Steady(r, Shut(r))
           /\ ~Shut(r).reg /\ ~Live(Shut(r))
           /\ Shut(r).pump = r.pump /\ Shut(r).rd = r.rd /\ Shut(r).sent = r.sent
           /\ r.pump # "none" => Shut(r).shut
  <1>0. /\ r.reg \in BOOLEAN /\ r.shut \in BOOLEAN
        /\ r.pump \in {"none", "idle", "writing", "over"}
    BY StreamType
  <1>1. CASE r.reg
    <2> DEFINE x == [r EXCEPT !.reg = FALSE, !.shut = TRUE]
    <2>1. /\ x \in StreamState /\ x.reg = FALSE /\ x.shut = TRUE /\ x.pump = r.pump
          /\ x.rd = r.rd /\ x.sent = r.sent /\ x.q = r.q /\ x.hold = r.hold
          /\ x.got = r.got
      BY DEF StreamState
    <2>2. Shut(r) = x
      BY <1>1 DEF Shut
    <2> HIDE DEF x
    <2>3. ~Live(x) /\ r.pump # "none" /\ Mapped(x)
      BY <1>1, <2>1 DEF Live, Mapped
    <2> QED
      BY <1>1, <2>1, <2>2, <2>3 DEF Steady
  <1>2. CASE ~r.reg
    <2>1. Shut(r) = r /\ ~Live(r)
      BY <1>2 DEF Shut, Mapped
    <2> QED
      BY <1>0, <1>2, <2>1, SteadySame DEF Live
  <1> QED
    BY <1>1, <1>2

LEMMA TidySteady ==
    ASSUME NEW r \in StreamState, NEW y \in StreamState, Steady(r, y)
    PROVE  Tidy(y) \in StreamState /\ Steady(r, Tidy(y)) /\ Tidy(y).reg = y.reg
  <1>1. CASE y.pump = "over" /\ y.rd = "over"
    <2> DEFINE x == [NoStream EXCEPT !.shut = TRUE, !.pump = "over", !.rd = "over"]
    <2>1. /\ x \in StreamState /\ x.reg = FALSE /\ x.shut = TRUE
          /\ x.pump = "over" /\ x.rd = "over"
      BY NoStreamType DEF StreamState
    <2>2. Tidy(y) = x
      BY <1>1 DEF Tidy
    <2> HIDE DEF x
    <2>3. ~Live(x) /\ Mapped(x)
      BY <2>1 DEF Live, Mapped
    <2>4. y.reg = FALSE
      BY <1>1, StreamType DEF Steady, Mapped
    <2> QED
      BY <1>1, <2>1, <2>2, <2>3, <2>4 DEF Steady
  <1>2. CASE ~(y.pump = "over" /\ y.rd = "over")
    BY <1>2 DEF Tidy
  <1> QED
    BY <1>1, <1>2

LEMMA ClosedMakes ==
    ASSUME TypeOK, Ordered, NEW s \in Sides, NEW k \in Streams
    PROVE  /\ Closed(s, {k}) \in [Sides -> [Streams -> StreamState]]
           /\ Closed(s, {k})[s][k] = Shut(st[s][k])
           /\ \A p \in Sides, m \in Streams :
                 p # s \/ m # k => Closed(s, {k})[p][m] = st[p][m]
           /\ st' = Closed(s, {k}) => Makes(s, k, Shut(st[s][k]))
           /\ \A x \in StreamState :
                 st' = [Closed(s, {k}) EXCEPT ![s][k] = x] => Makes(s, k, x)
  <1>1. \A p \in Sides, m \in Streams : st[p][m] \in StreamState /\ Mapped(st[p][m])
    BY DEF TypeOK, Ordered
  <1>2. \A m \in Streams : Shut(st[s][m]) \in StreamState
    BY <1>1, ShutSteady
  <1>3. st \in [Sides -> [Streams -> StreamState]]
    BY DEF TypeOK
  <1>4. /\ Closed(s, {k}) \in [Sides -> [Streams -> StreamState]]
        /\ Closed(s, {k})[s][k] = Shut(st[s][k])
        /\ \A p \in Sides, m \in Streams :
              p # s \/ m # k => Closed(s, {k})[p][m] = st[p][m]
    BY <1>2, <1>3 DEF Closed
  <1>5. st' = Closed(s, {k}) => Makes(s, k, Shut(st[s][k]))
    BY <1>4 DEF Makes
  <1>6. ASSUME NEW x \in StreamState, st' = [Closed(s, {k}) EXCEPT ![s][k] = x]
        PROVE  Makes(s, k, x)
    BY <1>4, <1>6 DEF Makes
  <1> QED
    BY <1>4, <1>5, <1>6

LEMMA ClosedAllSteady ==
    ASSUME TypeOK, Ordered, NEW s \in Sides, st' = Closed(s, Streams)
    PROVE  /\ StreamsSteady
           /\ \A k \in Streams : ~st'[s][k].reg
           /\ \A p \in Sides, k \in Streams : p # s => st'[p][k] = st[p][k]
  <1>1. \A p \in Sides, m \in Streams : st[p][m] \in StreamState /\ Mapped(st[p][m])
    BY DEF TypeOK, Ordered
  <1>2. \A m \in Streams : Shut(st[s][m]) \in StreamState
    BY <1>1, ShutSteady
  <1>3. st \in [Sides -> [Streams -> StreamState]]
    BY DEF TypeOK
  <1>4. /\ st' \in [Sides -> [Streams -> StreamState]]
        /\ \A k \in Streams : st'[s][k] = Shut(st[s][k])
        /\ \A p \in Sides, k \in Streams : p # s => st'[p][k] = st[p][k]
    BY <1>2, <1>3 DEF Closed
  <1> QED
    BY <1>1, <1>4, ShutSteady, SteadySame DEF StreamsSteady

-----------------------------------------------------------------------------
(* Counting.                                                               *)

Held == {k \in Streams : call[k] \in {"took", "admitted", "cleared"}}
Queuing == {k \in Streams : call[k] \in {"waiting", "took"}}

LEMMA Counts ==
    /\ \A s : IsFiniteSet(Open(s)) /\ Cardinality(Open(s)) \in Nat
    /\ IsFiniteSet(Held) /\ Cardinality(Held) \in Nat
    /\ IsFiniteSet(Queuing) /\ Cardinality(Queuing) \in Nat
  <1>1. IsFiniteSet(Streams)
    BY MuxAssumption
  <1>2. \A T \in SUBSET Streams : IsFiniteSet(T) /\ Cardinality(T) \in Nat
    BY <1>1, FS_Subset, FS_CardinalityType
  <1>3. (\A s : Open(s) \subseteq Streams) /\ Held \subseteq Streams /\ Queuing \subseteq Streams
    BY DEF Open, Held, Queuing
  <1> QED
    BY <1>2, <1>3

LEMMA CountsAfter ==
    /\ \A s : IsFiniteSet(Open(s)') /\ Cardinality(Open(s)') \in Nat
    /\ IsFiniteSet(Held') /\ Cardinality(Held') \in Nat
    /\ IsFiniteSet(Queuing') /\ Cardinality(Queuing') \in Nat
  <1>1. IsFiniteSet(Streams)
    BY MuxAssumption
  <1>2. \A T \in SUBSET Streams : IsFiniteSet(T) /\ Cardinality(T) \in Nat
    BY <1>1, FS_Subset, FS_CardinalityType
  <1>3. (\A s : Open(s)' \subseteq Streams) /\ Held' \subseteq Streams /\ Queuing' \subseteq Streams
    BY DEF Open, Held, Queuing
  <1> QED
    BY <1>2, <1>3

\* A stream leaves the map once, and its token with it.
LEMMA SlotsReleased ==
    ASSUME TypeOK, SlotsAccounted, NEW s \in Sides, NEW K \in SUBSET Streams,
           Release(s, K), Open(s)' = Open(s) \ K,
           s # "origin" => Open("origin")' = Open("origin"), Held' = Held
    PROVE  SlotsAccounted' /\ slots' \in 0 .. MaxStreams /\ pending' \subseteq Streams
  <1> DEFINE o == Cardinality(Open("origin"))
             h == Cardinality(Held)
             c == Cardinality(K \cap Open("origin"))
             oo == Cardinality(Open("origin")')
  <1>1. slots = o + h /\ slots \in 0 .. MaxStreams /\ pending \subseteq Streams
    BY DEF SlotsAccounted, Held, TypeOK
  <1>2. o \in Nat /\ h \in Nat /\ MaxStreams \in Nat
    BY Counts, MuxAssumption
  <1>3. SlotsAccounted' <=> slots' = oo + h
    BY DEF SlotsAccounted, Held
  <1>4. CASE s = "origin"
    <2>1. slots' = slots - c /\ pending' \subseteq Streams
      BY <1>1, <1>4 DEF Release
    <2>2. K \cap Open("origin") = Open("origin") \cap K
      OBVIOUS
    <2>3. oo = o - c
      <3>1. IsFiniteSet(Open("origin")) /\ Open("origin")' = Open("origin") \ K
        BY <1>4, Counts
      <3>2. Cardinality(Open("origin") \ K) =
              Cardinality(Open("origin")) - Cardinality(Open("origin") \cap K)
        BY <3>1, FS_Difference
      <3> QED
        BY <2>2, <3>1, <3>2
    <2>4. oo \in Nat /\ c \in Nat
      <3>1. K \cap Open("origin") \in SUBSET Open("origin")
        OBVIOUS
      <3> QED
        BY <1>4, <3>1, Counts, CountsAfter, FS_Subset, FS_CardinalityType
    <2> HIDE DEF o, h, c, oo
    <2> QED
      BY <1>1, <1>2, <1>3, <2>1, <2>3, <2>4
  <1>5. CASE s # "origin"
    BY <1>1, <1>3, <1>5 DEF Release
  <1> QED
    BY <1>4, <1>5

LEMMA SlotsSame ==
    ASSUME TypeOK, SlotsAccounted, UNCHANGED <<slots, pending>>,
           Open("origin")' = Open("origin"), Held' = Held
    PROVE  SlotsAccounted' /\ slots' \in 0 .. MaxStreams /\ pending' \subseteq Streams
  BY DEF SlotsAccounted, Held, TypeOK

LEMMA BridgeSteady ==
    ASSUME BridgeBounded, Open("bridge")' \subseteq Open("bridge"),
           dial'.pc \in {"dial", "connected"} => dial.pc \in {"dial", "connected"}
    PROVE  BridgeBounded'
  <1> DEFINE o == Cardinality(Open("bridge"))
             oo == Cardinality(Open("bridge")')
  <1>1. oo <= o /\ o \in Nat /\ oo \in Nat /\ MaxStreams \in Nat
    BY Counts, CountsAfter, FS_Subset, MuxAssumption
  <1>2. o <= MaxStreams /\ (dial.pc \in {"dial", "connected"} => o < MaxStreams)
    BY DEF BridgeBounded
  <1>3. BridgeBounded' <=> /\ oo <= MaxStreams
                           /\ dial'.pc \in {"dial", "connected"} => oo < MaxStreams
    BY DEF BridgeBounded
  <1> HIDE DEF o, oo
  <1> QED
    BY <1>1, <1>2, <1>3

LEMMA MakesOpen ==
    ASSUME NEW s \in Sides, NEW k \in Streams, NEW x, Makes(s, k, x)
    PROVE  /\ x.reg = TRUE => Open(s)' = Open(s) \cup {k}
           /\ x.reg = FALSE => Open(s)' = Open(s) \ {k}
           /\ x.reg = st[s][k].reg => Open(s)' = Open(s)
           /\ \A p \in Sides : p # s => Open(p)' = Open(p)
  BY DEF Makes, Open

LEMMA SteadyOpen ==
    ASSUME StreamsSteady, NEW s \in Sides
    PROVE  Open(s)' \subseteq Open(s)
  BY DEF StreamsSteady, Steady, Open

\* The inductive invariant, with the flow of chunks under one name.
Core ==
    /\ TypeOK /\ SlotsAccounted /\ QueueAccounted /\ BridgeBounded /\ Ordered
    /\ NoHole

LEMMA CoreIsInv == MuxInv <=> Core
  BY DEF MuxInv, Core, Ordered, Flows

\* The variables that hold no stream keep their types.
RestType ==
    /\ call' \in [Streams -> {"new", "waiting", "took", "admitted", "cleared",
                              "opening", "await", "open", "failed"}]
    /\ answer' \in [Streams -> {"none", "ok", "err", "closed"}]
    /\ phase' \in [Sides -> {"running", "ending", "shut", "gone"}]
    /\ dial' \in [pc : {"idle", "dial", "refuse", "connected"},
                  id : Streams \cup {0}]
    /\ dial'.pc # "idle" => dial'.id \in Streams
    /\ resets' \in [Sides -> SUBSET Streams]
    /\ DOMAIN wire' = Sides
    /\ hole' \in BOOLEAN

LEMMA SteadyStep ==
    ASSUME Core, RestType, StreamsSteady, Connected' => Connected,
           \A s \in Sides : WireSteady(s),
           \A k \in Streams : /\ CallSteady(k) /\ AnswerSteady(k)
                              /\ Dialing(k)' => Dialing(k),
           dial'.pc \in {"dial", "connected"} => dial.pc \in {"dial", "connected"},
           SlotsAccounted', slots' \in 0 .. MaxStreams, pending' \subseteq Streams,
           QueueAccounted', queued' \in 0 .. MaxQueued, hole' = hole
    PROVE  Core'
  <1>1. Ordered'
    BY SteadyOrdered DEF Core
  <1>2. BridgeBounded'
    BY BridgeSteady, SteadyOpen, SidesFacts DEF Core
  <1>3. TypeOK'
    <2>1. /\ wire'["origin"] \in Seq(FrameState("origin"))
          /\ wire'["bridge"] \in Seq(FrameState("bridge"))
      BY WireSteadyType DEF Core, RestType
    <2>2. st' \in [Sides -> [Streams -> StreamState]]
      BY DEF StreamsSteady
    <2> QED
      BY <2>1, <2>2 DEF TypeOK, RestType, FrameState
  <1>4. NoHole'
    BY DEF Core, NoHole
  <1> QED
    BY <1>1, <1>2, <1>3, <1>4 DEF Core

-----------------------------------------------------------------------------
(* Steps of the goroutines of a stream that deliver nothing.               *)

LEMMA PhaseKept ==
    ASSUME UNCHANGED phase
    PROVE  Connected' <=> Connected
  BY DEF Connected

LEMMA SendSteady ==
    ASSUME TypeOK, NEW o \in Sides, NEW f \in FrameState(Other(o)),
           f.t \notin {"data", "open", "ok"}, Send(o, f)
    PROVE  DOMAIN wire' = Sides /\ \A s \in Sides : WireSteady(s)
  <1>1. DOMAIN wire = Sides /\ Other(o) \in Sides
    BY SidesFacts DEF TypeOK
  <1>2. CASE Connected
    <2>1. wire' = [wire EXCEPT ![Other(o)] = Append(@, f)]
      BY <1>2 DEF Send, Sent
    <2> QED
      BY <1>1, <2>1 DEF WireSteady
  <1>3. CASE ~Connected
    BY <1>1, <1>3 DEF Send, Sent, WireSteady
  <1> QED
    BY <1>2, <1>3

LEMMA WireKept ==
    ASSUME TypeOK, UNCHANGED wire
    PROVE  DOMAIN wire' = Sides /\ \A s \in Sides : WireSteady(s)
  BY DEF TypeOK, WireSteady

LEMMA QuietStep ==
    ASSUME Core, Rest, UNCHANGED hole,
           NEW s \in Sides, NEW k \in Streams, NEW x \in StreamState,
           Makes(s, k, x), Steady(st[s][k], x),
           \/ x.reg = st[s][k].reg /\ UNCHANGED <<slots, pending>>
           \/ x.reg = FALSE /\ Release(s, {k}),
           DOMAIN wire' = Sides, \A p \in Sides : WireSteady(p)
    PROVE  Core'
  <1>1. StreamsSteady
    BY MakesSteady DEF Core
  <1>2. Held' = Held /\ Queuing' = Queuing /\ queued' = queued
    BY DEF Rest, Held, Queuing
  <1>3. SlotsAccounted' /\ slots' \in 0 .. MaxStreams /\ pending' \subseteq Streams
    <2>1. CASE x.reg = st[s][k].reg /\ UNCHANGED <<slots, pending>>
      <3>1. Open("origin")' = Open("origin")
        BY <2>1, MakesOpen, SidesFacts
      <3> QED
        BY <1>2, <2>1, <3>1, SlotsSame DEF Core
    <2>2. CASE x.reg = FALSE /\ Release(s, {k})
      <3>1. Open(s)' = Open(s) \ {k} /\ (s # "origin" => Open("origin")' = Open("origin"))
        BY <2>2, MakesOpen, SidesFacts
      <3> QED
        BY <1>2, <2>2, <3>1, SlotsReleased DEF Core
    <2> QED
      BY <2>1, <2>2
  <1>4. QueueAccounted' /\ queued' \in 0 .. MaxQueued
    BY <1>2 DEF Core, QueueAccounted, Queuing, TypeOK
  <1>5. RestType
    BY DEF RestType, Rest, Core, TypeOK
  <1>6. \A m \in Streams : /\ CallSteady(m) /\ AnswerSteady(m)
                           /\ Dialing(m)' => Dialing(m)
    BY DEF Rest, CallSteady, AnswerSteady, Dialing
  <1>7. Connected' => Connected
    BY PhaseKept DEF Rest
  <1> QED
    BY <1>1, <1>3, <1>4, <1>5, <1>6, <1>7, SteadyStep DEF Rest

LEMMA StreamHas ==
    ASSUME Core, NEW s \in Sides, NEW k \in Streams
    PROVE  st[s][k] \in StreamState /\ Mapped(st[s][k]) /\ Flows(s, k)
  BY DEF Core, TypeOK, Ordered

LEMMA PumpStopsKeeps ==
    ASSUME Core, NEW s \in Sides, NEW k \in Streams, PumpStops(s, k)
    PROVE  Core'
  <1> DEFINE r == st[s][k]
             y == [Shut(r) EXCEPT !.pump = "over", !.hold = 0, !.q = <<>>]
  <1>1. r \in StreamState /\ Mapped(r)
    BY StreamHas
  <1>2. /\ r.pump # "none" /\ Release(s, {k}) /\ Rest /\ UNCHANGED <<wire, hole>>
        /\ st' = [Closed(s, {k}) EXCEPT ![s][k] = Tidy([@ EXCEPT !.pump = "over", !.hold = 0, !.q = <<>>])]
    BY DEF PumpStops
  <1>3. Closed(s, {k}) \in [Sides -> [Streams -> StreamState]] /\ Closed(s, {k})[s][k] = Shut(r)
    BY ClosedMakes DEF Core
  <1>4. st' = [Closed(s, {k}) EXCEPT ![s][k] = Tidy(y)]
    BY <1>2, <1>3
  <1>5. /\ Shut(r) \in StreamState /\ Shut(r).reg = FALSE /\ Shut(r).shut = TRUE
        /\ Shut(r).rd = r.rd /\ Shut(r).sent = r.sent
    BY <1>1, <1>2, ShutSteady, StreamType
  <1>6. <<>> \in Seq(Nat)
    OBVIOUS
  <1>7. /\ y \in StreamState /\ y.reg = FALSE /\ y.shut = TRUE /\ y.pump = "over"
        /\ y.rd = r.rd /\ y.sent = r.sent
    BY <1>5, <1>6 DEF StreamState
  <1> HIDE DEF y
  <1>8. Steady(r, y)
    BY <1>2, <1>7 DEF Steady, Mapped, Live
  <1>9. Tidy(y) \in StreamState /\ Steady(r, Tidy(y)) /\ Tidy(y).reg = FALSE
    BY <1>1, <1>7, <1>8, TidySteady
  <1>10. Makes(s, k, Tidy(y))
    BY <1>4, <1>9, ClosedMakes DEF Core
  <1>11. TypeOK
    BY DEF Core
  <1> QED
    BY <1>2, <1>9, <1>10, <1>11, WireKept, QuietStep

LEMMA FarClosesKeeps ==
    ASSUME Core, NEW s \in Sides, NEW k \in Streams, FarCloses(s, k)
    PROVE  Core'
  <1> DEFINE r == st[s][k]
             x == [r EXCEPT !.far = TRUE]
  <1>1. r \in StreamState /\ Mapped(r) /\ st \in [Sides -> [Streams -> StreamState]] /\ TypeOK
    BY StreamHas DEF Core, TypeOK
  <1>2. r.rd # "none" /\ Rest /\ UNCHANGED <<slots, pending, wire, hole>>
    BY DEF FarCloses
  <1>3. st' = [st EXCEPT ![s][k] = x]
    BY DEF FarCloses
  <1>4. r.pump # "none"
    BY <1>1, <1>2, NoStreamType DEF Mapped
  <1>5. /\ x \in StreamState /\ x.reg = r.reg /\ x.shut = r.shut /\ x.pump = r.pump
        /\ x.rd = r.rd /\ x.sent = r.sent /\ x.q = r.q /\ x.hold = r.hold
        /\ x.got = r.got
    BY <1>1 DEF StreamState
  <1> HIDE DEF x
  <1>6. Steady(r, x)
    BY <1>1, <1>4, <1>5 DEF Steady, Mapped, Live
  <1>7. Makes(s, k, x)
    BY <1>1, <1>3, <1>5, OneStream DEF Makes
  <1> QED
    BY <1>1, <1>2, <1>5, <1>6, <1>7, WireKept, QuietStep

\* A reader that has started goes on to its end.
LEMMA ReaderMoves ==
    ASSUME NEW r \in StreamState, NEW w \in StreamState,
           NEW v \in {"ending", "closing", "over"}, Steady(r, w),
           r.rd # "none", r.pump # "none"
    PROVE  /\ [w EXCEPT !.rd = v] \in StreamState /\ Steady(r, [w EXCEPT !.rd = v])
           /\ [w EXCEPT !.rd = v].reg = w.reg
  <1> DEFINE y == [w EXCEPT !.rd = v]
  <1>1. /\ y \in StreamState /\ y.reg = w.reg /\ y.shut = w.shut /\ y.pump = w.pump
        /\ y.rd = v /\ y.q = w.q /\ y.hold = w.hold /\ y.got = w.got
    BY DEF StreamState
  <1> HIDE DEF y
  <1>2. Mapped(y)
    BY <1>1 DEF Steady, Mapped, Live
  <1>3. Steady(r, y)
    BY <1>1, <1>2 DEF Steady, Live
  <1> QED
    BY <1>1, <1>3 DEF y

LEMMA ReaderBreaksKeeps ==
    ASSUME Core, NEW s \in Sides, NEW k \in Streams, ReaderBreaks(s, k)
    PROVE  Core'
  <1> DEFINE r == st[s][k]
             x == [r EXCEPT !.rd = "ending"]
  <1>1. r \in StreamState /\ Mapped(r) /\ st \in [Sides -> [Streams -> StreamState]] /\ TypeOK
    BY StreamHas DEF Core, TypeOK
  <1>2. r.rd # "none" /\ Rest /\ UNCHANGED <<slots, pending, wire, hole>>
    BY DEF ReaderBreaks
  <1>3. st' = [st EXCEPT ![s][k] = x]
    BY DEF ReaderBreaks
  <1>4. r.pump # "none" /\ Steady(r, r)
    BY <1>1, <1>2, NoStreamType, SteadySame DEF Mapped
  <1>5. x \in StreamState /\ Steady(r, x) /\ x.reg = r.reg
    BY <1>1, <1>2, <1>4, ReaderMoves
  <1> HIDE DEF x
  <1>6. Makes(s, k, x)
    BY <1>1, <1>3, <1>5, OneStream DEF Makes
  <1> QED
    BY <1>1, <1>2, <1>5, <1>6, WireKept, QuietStep

LEMMA ReaderAnnouncesKeeps ==
    ASSUME Core, NEW s \in Sides, NEW k \in Streams, ReaderAnnounces(s, k)
    PROVE  Core'
  <1> DEFINE r == st[s][k]
             v == IF s = "origin" THEN "closing" ELSE "over"
             y == [r EXCEPT !.rd = v]
             f == Frame(IF s = "origin" THEN "eof" ELSE "close", k, 0)
  <1>1. r \in StreamState /\ Mapped(r) /\ st \in [Sides -> [Streams -> StreamState]] /\ TypeOK
    BY StreamHas DEF Core, TypeOK
  <1>2. r.rd # "none" /\ Rest /\ UNCHANGED <<slots, pending, hole>> /\ Send(s, f)
    BY DEF ReaderAnnounces
  <1>3. st' = [st EXCEPT ![s][k] = Tidy(y)]
    BY DEF ReaderAnnounces
  <1>4. r.pump # "none" /\ Steady(r, r) /\ v \in {"ending", "closing", "over"}
    BY <1>1, <1>2, NoStreamType, SteadySame DEF Mapped
  <1>5. y \in StreamState /\ Steady(r, y) /\ y.reg = r.reg
    BY <1>1, <1>2, <1>4, ReaderMoves
  <1>6. f \in FrameState(Other(s)) /\ f.t \notin {"data", "open", "ok"}
    BY DEF Frame, FrameState, Other, Sides
  <1> HIDE DEF y, f
  <1>7. Tidy(y) \in StreamState /\ Steady(r, Tidy(y)) /\ Tidy(y).reg = r.reg
    BY <1>1, <1>5, TidySteady
  <1>8. Makes(s, k, Tidy(y))
    BY <1>1, <1>3, <1>7, OneStream DEF Makes
  <1>9. DOMAIN wire' = Sides /\ \A p \in Sides : WireSteady(p)
    BY <1>1, <1>2, <1>6, SendSteady
  <1> QED
    BY <1>2, <1>7, <1>8, <1>9, QuietStep

LEMMA ReaderClosesKeeps ==
    ASSUME Core, NEW s \in Sides, NEW k \in Streams, ReaderCloses(s, k)
    PROVE  Core'
  <1> DEFINE r == st[s][k]
             v == IF s = "origin" THEN "over" ELSE "closing"
             y == [Shut(r) EXCEPT !.rd = v]
  <1>1. r \in StreamState /\ Mapped(r) /\ TypeOK
    BY StreamHas DEF Core
  <1>2. /\ r.rd # "none" /\ Release(s, {k}) /\ Rest /\ UNCHANGED <<wire, hole>>
        /\ st' = [Closed(s, {k}) EXCEPT ![s][k] = Tidy([@ EXCEPT !.rd = v])]
    BY DEF ReaderCloses
  <1>3. Closed(s, {k}) \in [Sides -> [Streams -> StreamState]] /\ Closed(s, {k})[s][k] = Shut(r)
    BY ClosedMakes DEF Core
  <1>4. st' = [Closed(s, {k}) EXCEPT ![s][k] = Tidy(y)]
    BY <1>2, <1>3
  <1>5. r.pump # "none" /\ v \in {"ending", "closing", "over"}
    BY <1>1, <1>2, NoStreamType DEF Mapped
  <1>6. Shut(r) \in StreamState /\ Steady(r, Shut(r)) /\ Shut(r).reg = FALSE
    BY <1>1, ShutSteady, StreamType
  <1>7. y \in StreamState /\ Steady(r, y) /\ y.reg = FALSE
    BY <1>1, <1>2, <1>5, <1>6, ReaderMoves
  <1> HIDE DEF y
  <1>8. Tidy(y) \in StreamState /\ Steady(r, Tidy(y)) /\ Tidy(y).reg = FALSE
    BY <1>1, <1>7, TidySteady
  <1>9. Makes(s, k, Tidy(y))
    BY <1>4, <1>8, ClosedMakes DEF Core
  <1> QED
    BY <1>1, <1>2, <1>8, <1>9, WireKept, QuietStep

-----------------------------------------------------------------------------
(* Admission.                                                              *)

HoldsSlot == {"took", "admitted", "cleared"}
InQueue == {"waiting", "took"}

\* One call moves.
LEMMA CallMoves ==
    ASSUME TypeOK, NEW k \in Streams, NEW v, call' = [call EXCEPT ![k] = v]
    PROVE  /\ (v \in HoldsSlot <=> call[k] \in HoldsSlot) => Held' = Held
           /\ v \in HoldsSlot /\ call[k] \notin HoldsSlot =>
                 Cardinality(Held') = Cardinality(Held) + 1
           /\ v \notin HoldsSlot /\ call[k] \in HoldsSlot =>
                 Cardinality(Held') = Cardinality(Held) - 1
           /\ (v \in InQueue <=> call[k] \in InQueue) => Queuing' = Queuing
           /\ v \in InQueue /\ call[k] \notin InQueue =>
                 Cardinality(Queuing') = Cardinality(Queuing) + 1
           /\ v \notin InQueue /\ call[k] \in InQueue =>
                 Cardinality(Queuing') = Cardinality(Queuing) - 1
  <1>0. /\ DOMAIN call = Streams
        /\ \A m \in Streams : call'[m] = IF m = k THEN v ELSE call[m]
    BY DEF TypeOK
  <1>1. /\ k \in Held <=> call[k] \in HoldsSlot
        /\ k \in Queuing <=> call[k] \in InQueue
    BY DEF Held, Queuing, HoldsSlot, InQueue
  <1>2. /\ v \in HoldsSlot => Held' = Held \cup {k}
        /\ v \notin HoldsSlot => Held' = Held \ {k}
    BY <1>0 DEF Held, HoldsSlot
  <1>3. /\ v \in InQueue => Queuing' = Queuing \cup {k}
        /\ v \notin InQueue => Queuing' = Queuing \ {k}
    BY <1>0 DEF Queuing, InQueue
  <1>4. /\ k \notin Held => Cardinality(Held \cup {k}) = Cardinality(Held) + 1
        /\ k \in Held => Cardinality(Held \ {k}) = Cardinality(Held) - 1
    BY Counts, FS_AddElement, FS_RemoveElement
  <1>5. /\ k \notin Queuing => Cardinality(Queuing \cup {k}) = Cardinality(Queuing) + 1
        /\ k \in Queuing => Cardinality(Queuing \ {k}) = Cardinality(Queuing) - 1
    BY Counts, FS_AddElement, FS_RemoveElement
  <1>6. /\ (v \in HoldsSlot <=> call[k] \in HoldsSlot) => Held' = Held
        /\ (v \in InQueue <=> call[k] \in InQueue) => Queuing' = Queuing
    BY <1>1, <1>2, <1>3
  <1> QED
    BY <1>1, <1>2, <1>3, <1>4, <1>5, <1>6

CallState == {"new", "waiting", "took", "admitted", "cleared", "opening", "await",
              "open", "failed"}

\* A call moves before its registration; the streams are not concerned.
LEMMA AdmissionStep ==
    ASSUME Core, NEW k \in Streams, NEW v \in Unopened \cup {"failed"},
           call[k] \in Unopened, call' = [call EXCEPT ![k] = v],
           \/ slots' = slots /\ (v \in HoldsSlot <=> call[k] \in HoldsSlot)
           \/ /\ slots' = slots + 1 /\ slots < MaxStreams
              /\ v \in HoldsSlot /\ call[k] \notin HoldsSlot
           \/ slots' = slots - 1 /\ v \notin HoldsSlot /\ call[k] \in HoldsSlot,
           \/ queued' = queued /\ (v \in InQueue <=> call[k] \in InQueue)
           \/ /\ queued' = queued + 1 /\ queued < MaxQueued
              /\ v \in InQueue /\ call[k] \notin InQueue
           \/ queued' = queued - 1 /\ v \notin InQueue /\ call[k] \in InQueue,
           UNCHANGED <<pending, answer, phase, dial, st, resets, wire, hole>>
    PROVE  Core'
  <1> DEFINE o == Cardinality(Open("origin"))
             h == Cardinality(Held)
             hh == Cardinality(Held')
             q == Cardinality(Queuing)
             qq == Cardinality(Queuing')
  <1>0. TypeOK /\ Ordered
    BY DEF Core
  <1>1. /\ slots = o + h /\ queued = q /\ slots \in 0 .. MaxStreams
        /\ queued \in 0 .. MaxQueued /\ pending' \subseteq Streams
    BY DEF Core, SlotsAccounted, QueueAccounted, Held, Queuing, TypeOK
  <1>2. /\ SlotsAccounted' <=> slots' = o + hh
        /\ QueueAccounted' <=> queued' = qq
    BY DEF SlotsAccounted, QueueAccounted, Held, Queuing, Open
  <1>3. /\ o \in Nat /\ h \in Nat /\ hh \in Nat /\ q \in Nat /\ qq \in Nat
        /\ MaxStreams \in Nat /\ MaxQueued \in Nat
    BY Counts, CountsAfter, MuxAssumption
  <1>c. /\ (v \in HoldsSlot <=> call[k] \in HoldsSlot) => hh = h
        /\ v \in HoldsSlot /\ call[k] \notin HoldsSlot => hh = h + 1
        /\ v \notin HoldsSlot /\ call[k] \in HoldsSlot => hh = h - 1
        /\ (v \in InQueue <=> call[k] \in InQueue) => qq = q
        /\ v \in InQueue /\ call[k] \notin InQueue => qq = q + 1
        /\ v \notin InQueue /\ call[k] \in InQueue => qq = q - 1
    BY ONLY <1>0, CallMoves, call' = [call EXCEPT ![k] = v]
  <1> HIDE DEF o, h, hh, q, qq
  <1>4. \/ slots' = slots + 1 /\ slots < MaxStreams /\ hh = h + 1
        \/ slots' = slots /\ hh = h
        \/ slots' = slots - 1 /\ hh = h - 1
    BY <1>c
  <1>5. \/ queued' = queued + 1 /\ queued < MaxQueued /\ qq = q + 1
        \/ queued' = queued /\ qq = q
        \/ queued' = queued - 1 /\ qq = q - 1
    BY <1>c
  <1>6. SlotsAccounted' /\ slots' \in 0 .. MaxStreams
    BY <1>1, <1>2, <1>3, <1>4
  <1>7. QueueAccounted' /\ queued' \in 0 .. MaxQueued
    BY <1>1, <1>2, <1>3, <1>5
  <1>8. StreamsSteady
    BY <1>0, SteadySame DEF StreamsSteady, TypeOK, Ordered
  <1>9. /\ \A s \in Sides : WireSteady(s)
        /\ Connected' => Connected
    BY <1>0, WireKept, PhaseKept
  <1>10. RestType
    <2>1. v \in CallState
      BY DEF Unopened, CallState
    <2>2. call' \in [Streams -> CallState]
      BY <1>0, <2>1 DEF TypeOK, CallState
    <2> QED
      BY <1>0, <2>2 DEF RestType, TypeOK, CallState
  <1>11. \A m \in Streams : /\ CallSteady(m) /\ AnswerSteady(m)
                            /\ Dialing(m)' => Dialing(m)
    <2>1. \A m \in Streams : call'[m] = IF m = k THEN v ELSE call[m]
      BY <1>0 DEF TypeOK
    <2>2. call[k] # "open"
      BY DEF Unopened
    <2>3. \A m \in Streams : CallSteady(m)
      BY <2>1, <2>2 DEF CallSteady
    <2> QED
      BY <2>3 DEF AnswerSteady, Dialing
  <1> QED
    BY <1>1, <1>6, <1>7, <1>8, <1>9, <1>10, <1>11, SteadyStep

LEMMA CallType ==
    ASSUME Core, NEW k \in Streams
    PROVE  /\ call[k] \in CallState /\ slots \in Nat /\ queued \in Nat
           /\ MaxStreams \in Nat /\ MaxQueued \in Nat
  BY MuxAssumption DEF Core, TypeOK, CallState

LEMMA AdmissionKeeps ==
    ASSUME Core, NEW k \in Streams,
           Arrive(k) \/ TakeSlot(k) \/ LeaveQueue(k) \/ GiveUp(k) \/ CheckDone(k)
    PROVE  Core'
  <1>0. /\ slots \in Nat /\ queued \in Nat
        /\ MaxStreams \in Nat /\ MaxQueued \in Nat
    BY CallType
  <1>1. CASE Arrive(k)
    <2>1. /\ call[k] = "new"
          /\ UNCHANGED <<pending, answer, phase, dial, st, resets, wire, hole>>
      BY <1>1 DEF Arrive
    <2>2. CASE call' = [call EXCEPT ![k] = "failed"] /\ UNCHANGED admission
      BY <2>1, <2>2, AdmissionStep DEF admission, Unopened, HoldsSlot, InQueue
    <2>3. CASE /\ slots < MaxStreams /\ call' = [call EXCEPT ![k] = "admitted"]
               /\ slots' = slots + 1 /\ UNCHANGED queued
      BY <2>1, <2>3, AdmissionStep DEF Unopened, HoldsSlot, InQueue
    <2>4. CASE /\ queued >= MaxQueued /\ call' = [call EXCEPT ![k] = "failed"]
               /\ UNCHANGED <<slots, queued>>
      BY <2>1, <2>4, AdmissionStep DEF Unopened, HoldsSlot, InQueue
    <2>5. CASE /\ ~(queued >= MaxQueued) /\ call' = [call EXCEPT ![k] = "waiting"]
               /\ queued' = queued + 1 /\ UNCHANGED slots
      <3>1. queued < MaxQueued
        BY <1>0, <2>5
      <3> QED
        BY <2>1, <2>5, <3>1, AdmissionStep DEF Unopened, HoldsSlot, InQueue
    <2> QED
      BY <1>1, <2>2, <2>3, <2>4, <2>5 DEF Arrive
  <1>2. CASE TakeSlot(k)
    BY <1>2, AdmissionStep DEF TakeSlot, Unopened, HoldsSlot, InQueue
  <1>3. CASE LeaveQueue(k)
    BY <1>3, AdmissionStep DEF LeaveQueue, Unopened, HoldsSlot, InQueue
  <1>4. CASE GiveUp(k)
    BY <1>4, AdmissionStep DEF GiveUp, Unopened, HoldsSlot, InQueue
  <1>5. CASE CheckDone(k)
    <2>1. /\ call[k] = "admitted"
          /\ UNCHANGED <<queued, pending, answer, phase, dial, st, resets, wire, hole>>
      BY <1>5 DEF CheckDone
    <2>2. CASE call' = [call EXCEPT ![k] = "cleared"] /\ UNCHANGED slots
      BY <2>1, <2>2, AdmissionStep DEF Unopened, HoldsSlot, InQueue
    <2>3. CASE call' = [call EXCEPT ![k] = "failed"] /\ slots' = slots - 1
      BY <2>1, <2>3, AdmissionStep DEF Unopened, HoldsSlot, InQueue
    <2> QED
      BY <1>5, <2>2, <2>3 DEF CheckDone
  <1> QED
    BY <1>1, <1>2, <1>3, <1>4, <1>5

-----------------------------------------------------------------------------
(* Opens that fail, and frames of no stream.                               *)

\* The origin drops the stream of a call that has registered.
LEMMA DropStep ==
    ASSUME Core, NEW k \in Streams, call[k] \in {"opening", "await"},
           call' = [call EXCEPT ![k] = "failed"], CloseStream("origin", k),
           answer' = answer \/ answer' = [answer EXCEPT ![k] = "none"],
           UNCHANGED <<queued, phase, dial, resets, wire, hole>>
    PROVE  Core'
  <1> DEFINE x == Shut(st["origin"][k])
  <1>0. TypeOK /\ Ordered /\ "origin" \in Sides
    BY SidesFacts DEF Core
  <1>1. Makes("origin", k, x) /\ Release("origin", {k})
    BY <1>0, ClosedMakes DEF CloseStream
  <1>2. x \in StreamState /\ Steady(st["origin"][k], x) /\ x.reg = FALSE
    BY <1>0, StreamHas, ShutSteady, StreamType
  <1> HIDE DEF x
  <1>3. StreamsSteady
    BY <1>0, <1>1, <1>2, MakesSteady
  <1>4. Held' = Held /\ Queuing' = Queuing
    <2>1. call[k] \notin HoldsSlot \cup InQueue /\ "failed" \notin HoldsSlot \cup InQueue
      BY DEF HoldsSlot, InQueue
    <2>2. /\ ("failed" \in HoldsSlot <=> call[k] \in HoldsSlot) => Held' = Held
          /\ ("failed" \in InQueue <=> call[k] \in InQueue) => Queuing' = Queuing
      BY <1>0, CallMoves
    <2> QED
      BY <2>1, <2>2
  <1>5. SlotsAccounted' /\ slots' \in 0 .. MaxStreams /\ pending' \subseteq Streams
    BY <1>0, <1>1, <1>2, <1>4, MakesOpen, SlotsReleased DEF Core
  <1>6. QueueAccounted' /\ queued' \in 0 .. MaxQueued
    BY <1>4 DEF Core, QueueAccounted, Queuing, TypeOK
  <1>7. RestType
    <2>1. call' \in [Streams -> CallState]
      BY <1>0 DEF TypeOK, CallState
    <2>2. answer' \in [Streams -> {"none", "ok", "err", "closed"}]
      BY <1>0 DEF TypeOK
    <2> QED
      BY <1>0, <2>1, <2>2 DEF RestType, TypeOK, CallState
  <1>8. \A m \in Streams : /\ CallSteady(m) /\ AnswerSteady(m)
                           /\ Dialing(m)' => Dialing(m)
    BY <1>0 DEF TypeOK, CallSteady, AnswerSteady, Dialing
  <1>9. (\A s \in Sides : WireSteady(s)) /\ (Connected' => Connected)
    BY <1>0, WireKept, PhaseKept
  <1> QED
    BY <1>3, <1>5, <1>6, <1>7, <1>8, <1>9, SteadyStep

\* Nothing but frames, resets and the dial changes.
LEMMA FrameStep ==
    ASSUME Core, UNCHANGED <<call, slots, queued, pending, answer, phase, st, hole>>,
           resets' \in [Sides -> SUBSET Streams],
           dial' \in [pc : {"idle", "dial", "refuse", "connected"},
                      id : Streams \cup {0}],
           dial'.pc # "idle" => dial.pc # "idle" /\ dial'.id = dial.id,
           dial'.pc \in {"dial", "connected"} => dial.pc \in {"dial", "connected"},
           DOMAIN wire' = Sides, \A s \in Sides : WireSteady(s)
    PROVE  Core'
  <1>0. TypeOK /\ Ordered
    BY DEF Core
  <1>1. StreamsSteady
    BY <1>0, SteadySame DEF StreamsSteady, TypeOK, Ordered
  <1>2. Held' = Held /\ Queuing' = Queuing /\ Open("origin")' = Open("origin")
    BY DEF Held, Queuing, Open
  <1>3. SlotsAccounted' /\ slots' \in 0 .. MaxStreams /\ pending' \subseteq Streams
    BY <1>2, SlotsSame DEF Core
  <1>4. QueueAccounted' /\ queued' \in 0 .. MaxQueued
    BY <1>2 DEF Core, QueueAccounted, Queuing, TypeOK
  <1>5. RestType
    BY <1>0 DEF RestType, TypeOK
  <1>6. \A m \in Streams : /\ CallSteady(m) /\ AnswerSteady(m)
                           /\ Dialing(m)' => Dialing(m)
    BY DEF CallSteady, AnswerSteady, Dialing
  <1> QED
    BY <1>1, <1>3, <1>4, <1>5, <1>6, PhaseKept, SteadyStep

LEMMA SendResetKeeps ==
    ASSUME Core, NEW s \in Sides, NEW k \in Streams, SendReset(s, k)
    PROVE  Core'
  <1> DEFINE f == Frame("close", k, 0)
  <1>1. /\ UNCHANGED <<call, slots, queued, pending, answer, phase, st, hole>>
        /\ dial' = dial /\ resets' = [resets EXCEPT ![s] = @ \ {k}] /\ Send(s, f)
    BY DEF SendReset, admission
  <1>2. f \in FrameState(Other(s)) /\ f.t \notin {"data", "open", "ok"}
    BY DEF Frame, FrameState, Other, Sides
  <1> HIDE DEF f
  <1>3. DOMAIN wire' = Sides /\ \A p \in Sides : WireSteady(p)
    BY <1>1, <1>2, SendSteady DEF Core
  <1>4. /\ resets' \in [Sides -> SUBSET Streams]
        /\ dial' \in [pc : {"idle", "dial", "refuse", "connected"},
                      id : Streams \cup {0}]
    BY <1>1 DEF Core, TypeOK
  <1> QED
    BY <1>1, <1>3, <1>4, FrameStep

LEMMA DialFailsKeeps ==
    ASSUME Core, DialFails
    PROVE  Core'
  <1> DEFINE f == Frame("err", dial.id, 0)
  <1>1. /\ UNCHANGED <<call, slots, queued, pending, answer, phase, st, resets, hole>>
        /\ dial' = [pc |-> "idle", id |-> 0] /\ Send("bridge", f)
        /\ dial.pc # "idle"
    BY DEF DialFails, admission
  <1>2. dial.id \in Streams /\ TypeOK
    BY <1>1 DEF Core, TypeOK
  <1>3. f \in FrameState(Other("bridge")) /\ f.t \notin {"data", "open", "ok"}
    BY <1>2 DEF Frame, FrameState, Other, Sides
  <1> HIDE DEF f
  <1>4. DOMAIN wire' = Sides /\ \A p \in Sides : WireSteady(p)
    BY <1>1, <1>2, <1>3, SendSteady, SidesFacts
  <1>5. /\ resets' \in [Sides -> SUBSET Streams] /\ dial'.pc = "idle"
        /\ dial' \in [pc : {"idle", "dial", "refuse", "connected"},
                      id : Streams \cup {0}]
    BY <1>1, <1>2 DEF TypeOK
  <1> QED
    BY <1>1, <1>4, <1>5, FrameStep

LEMMA DialConnectsKeeps ==
    ASSUME Core, DialConnects
    PROVE  Core'
  <1>1. /\ UNCHANGED <<call, slots, queued, pending, answer, phase, st, resets, wire, hole>>
        /\ dial' = [dial EXCEPT !.pc = "connected"] /\ dial.pc = "dial"
    BY DEF DialConnects, admission
  <1>2. TypeOK /\ DOMAIN wire' = Sides /\ \A p \in Sides : WireSteady(p)
    BY <1>1, WireKept DEF Core
  <1>3. /\ resets' \in [Sides -> SUBSET Streams]
        /\ dial'.pc = "connected" /\ dial'.id = dial.id
        /\ dial' \in [pc : {"idle", "dial", "refuse", "connected"},
                      id : Streams \cup {0}]
    BY <1>1, <1>2 DEF TypeOK
  <1> QED
    BY <1>1, <1>2, <1>3, FrameStep

-----------------------------------------------------------------------------
(* The end of the session.                                                 *)

LEMMA EndStep ==
    ASSUME Core, StreamsSteady, phase' \in [Sides -> {"running", "ending", "shut", "gone"}],
           Connected' => Connected,
           \/ wire' = wire
           \/ \E s \in Sides : ~Connected' /\ wire' = [wire EXCEPT ![s] = <<>>],
           answer' \in [Streams -> {"none", "ok", "err", "closed"}],
           \A k \in Streams : answer'[k] = "ok" => answer[k] = "ok",
           UNCHANGED <<call, queued, dial, resets, hole>>,
           SlotsAccounted', slots' \in 0 .. MaxStreams, pending' \subseteq Streams
    PROVE  Core'
  <1>0. TypeOK
    BY DEF Core
  <1>1. DOMAIN wire' = Sides /\ \A s \in Sides : WireSteady(s)
    BY <1>0 DEF WireSteady, TypeOK
  <1>2. QueueAccounted' /\ queued' \in 0 .. MaxQueued
    BY DEF Core, QueueAccounted, TypeOK
  <1>3. RestType
    BY <1>0, <1>1 DEF RestType, TypeOK
  <1>4. \A m \in Streams : /\ CallSteady(m) /\ AnswerSteady(m)
                           /\ Dialing(m)' => Dialing(m)
    BY DEF CallSteady, AnswerSteady, Dialing
  <1> QED
    BY <1>1, <1>2, <1>3, <1>4, SteadyStep

LEMMA EndKeeps ==
    ASSUME Core,
           OriginEnds \/ Shutdown \/ CloseAll \/ \E s \in Sides : Returns(s)
    PROVE  Core'
  <1>0. /\ TypeOK /\ Ordered /\ SlotsAccounted
        /\ phase \in [Sides -> {"running", "ending", "shut", "gone"}]
        /\ answer \in [Streams -> {"none", "ok", "err", "closed"}]
    BY DEF Core, TypeOK
  <1>1. st' = st => StreamsSteady
    BY <1>0, SteadySame DEF StreamsSteady, TypeOK, Ordered
  <1>2. call' = call => Held' = Held
    BY DEF Held
  <1>3. st' = st => Open("origin")' = Open("origin")
    BY DEF Open
  <1>4. CASE OriginEnds
    <2>1. /\ phase["origin"] = "running" /\ phase' = [phase EXCEPT !["origin"] = "ending"]
          /\ UNCHANGED <<call, slots, queued, pending, answer, dial, st, resets, wire, hole>>
      BY <1>4 DEF OriginEnds, admission
    <2>2. /\ phase' \in [Sides -> {"running", "ending", "shut", "gone"}]
          /\ Connected' => Connected
      BY <1>0, <2>1 DEF Connected, Sides
    <2>3. SlotsAccounted' /\ slots' \in 0 .. MaxStreams /\ pending' \subseteq Streams
      BY <1>0, <1>2, <1>3, <2>1, SlotsSame
    <2> QED
      BY <1>0, <1>1, <2>1, <2>2, <2>3, EndStep
  <1>5. CASE Shutdown
    <2>1. /\ phase["origin"] = "ending" /\ phase' = [phase EXCEPT !["origin"] = "shut"]
          /\ st' = Closed("origin", Streams) /\ Release("origin", Streams)
          /\ answer' = [k \in Streams |-> IF k \in pending THEN "closed" ELSE answer[k]]
          /\ UNCHANGED <<call, queued, dial, resets, wire, hole>>
      BY <1>5 DEF Shutdown
    <2>2. /\ phase' \in [Sides -> {"running", "ending", "shut", "gone"}]
          /\ Connected' => Connected
      BY <1>0, <2>1 DEF Connected, Sides
    <2>3. StreamsSteady /\ \A k \in Streams : ~st'["origin"][k].reg
      BY <1>0, <2>1, ClosedAllSteady, SidesFacts
    <2>4. Open("origin")' = Open("origin") \ Streams
      BY <2>3 DEF Open
    <2>5. SlotsAccounted' /\ slots' \in 0 .. MaxStreams /\ pending' \subseteq Streams
      BY <1>0, <1>2, <2>1, <2>4, SlotsReleased, SidesFacts
    <2>6. /\ answer' \in [Streams -> {"none", "ok", "err", "closed"}]
          /\ \A k \in Streams : answer'[k] = "ok" => answer[k] = "ok"
      BY <1>0, <2>1
    <2> QED
      BY <2>1, <2>2, <2>3, <2>5, <2>6, EndStep, SidesFacts
  <1>6. CASE CloseAll
    <2>1. /\ phase["bridge"] = "running" /\ phase' = [phase EXCEPT !["bridge"] = "shut"]
          /\ st' = Closed("bridge", Streams)
          /\ UNCHANGED <<call, slots, queued, pending, answer, dial, resets, wire, hole>>
      BY <1>6 DEF CloseAll, admission
    <2>2. /\ phase' \in [Sides -> {"running", "ending", "shut", "gone"}]
          /\ Connected' => Connected
      BY <1>0, <2>1 DEF Connected, Sides
    <2>3. StreamsSteady /\ \A k \in Streams : st'["origin"][k] = st["origin"][k]
      BY <1>0, <2>1, ClosedAllSteady, SidesFacts
    <2>4. Open("origin")' = Open("origin")
      BY <2>3 DEF Open
    <2>5. SlotsAccounted' /\ slots' \in 0 .. MaxStreams /\ pending' \subseteq Streams
      BY <1>0, <1>2, <2>1, <2>4, SlotsSame
    <2> QED
      BY <1>0, <2>1, <2>2, <2>3, <2>5, EndStep
  <1>7. ASSUME NEW s \in Sides, Returns(s)
        PROVE  Core'
    <2>1. /\ phase' = [phase EXCEPT ![s] = "gone"]
          /\ wire' = [wire EXCEPT ![s] = <<>>]
          /\ UNCHANGED <<call, slots, queued, pending, answer, dial, st, resets, hole>>
      BY <1>7 DEF Returns, admission
    <2>2. /\ phase' \in [Sides -> {"running", "ending", "shut", "gone"}]
          /\ ~Connected'
      BY <1>0, <2>1 DEF Connected, Sides
    <2>3. SlotsAccounted' /\ slots' \in 0 .. MaxStreams /\ pending' \subseteq Streams
      BY <1>0, <1>2, <1>3, <2>1, SlotsSame
    <2> QED
      BY <1>0, <1>1, <2>1, <2>2, <2>3, EndStep, SidesFacts
  <1> QED
    BY <1>4, <1>5, <1>6, <1>7

-----------------------------------------------------------------------------
(* Opening a stream.                                                       *)

\* One stream changes and opens or delivers something: what is left to show.
LEMMA OrderedButOne ==
    ASSUME TypeOK, Ordered, NEW k \in Streams, NEW s \in Sides, NEW x,
           Makes(s, k, x), Mapped(x), Connected' => Connected,
           \A p \in Sides : \/ wire'[p] = wire[p]
                            \/ \E f \in FrameState(p) : f.id = k /\ wire'[p] = Append(wire[p], f),
           \A m \in Streams \ {k} : /\ CallSteady(m) /\ AnswerSteady(m)
                                    /\ Dialing(m)' => Dialing(m),
           OpenedOnce(k)', Flows(s, k)', Flows(Other(s), k)'
    PROVE  Ordered'
  <1>0. \A p \in Sides, m \in Streams : st[p][m] \in StreamState /\ Mapped(st[p][m])
    BY DEF TypeOK, Ordered
  <1>1. ASSUME NEW m \in Streams, m # k
        PROVE  OpenedOnce(m)' /\ \A p \in Sides : Mapped(st'[p][m]) /\ Flows(p, m)'
    <2>1. \A p \in Sides : st'[p][m] = st[p][m] /\ Steady(st[p][m], st'[p][m])
      BY <1>0, <1>1, SteadySame DEF Makes
    <2>2. NoneNew("bridge", "open", m) /\ NoneNew("origin", "ok", m)
      BY <1>1, NoneNewFrames, SidesFacts
    <2>3. OpenedOnce(m)'
      BY <1>1, <2>1, <2>2, OpenedSteady DEF Ordered
    <2>4. ASSUME NEW p \in Sides
          PROVE  Flows(p, m)'
      <3>1. SenderSteady(Other(p), m) /\ ReceiverSteady(p, m)
        BY <2>1, SidesFacts DEF SenderSteady, ReceiverSteady
      <3> QED
        BY <1>1, <3>1, FlowAppends DEF Ordered
    <2> QED
      BY <1>0, <2>1, <2>3, <2>4
  <1>2. \A p \in Sides : Mapped(st'[p][k])
    BY <1>0 DEF Makes
  <1>3. \A p \in Sides : Flows(p, k)'
    <2>1. \A p \in Sides : p = s \/ p = Other(s)
      BY DEF Sides, Other
    <2>2. ASSUME NEW p \in Sides, p = Other(s)
          PROVE  Flows(p, k)'
      <3>1. (s = "origin" /\ p = "bridge") \/ (s = "bridge" /\ p = "origin")
        BY <2>2 DEF Sides, Other
      <3>2. CASE s = "origin" /\ p = "bridge"
        BY <3>2 DEF Other
      <3>3. CASE s = "bridge" /\ p = "origin"
        BY <3>3 DEF Other
      <3> QED
        BY <3>1, <3>2, <3>3
    <2> QED
      BY <2>1, <2>2
  <1> QED
    BY <1>1, <1>2, <1>3 DEF Ordered

LEMMA WireGrows ==
    ASSUME TypeOK, DOMAIN wire' = Sides,
           \A p \in Sides : \/ wire'[p] = wire[p]
                            \/ \E f \in FrameState(p) : wire'[p] = Append(wire[p], f)
    PROVE  /\ wire'["origin"] \in Seq(FrameState("origin"))
           /\ wire'["bridge"] \in Seq(FrameState("bridge"))
  <1>1. ASSUME NEW s \in Sides
        PROVE  wire'[s] \in Seq(FrameState(s))
    <2>1. wire[s] \in Seq(FrameState(s))
      BY WireType
    <2> QED
      BY <2>1
  <1> QED
    BY <1>1, SidesFacts

LEMMA FinishStep ==
    ASSUME Core, RestType, st' \in [Sides -> [Streams -> StreamState]],
           wire'["origin"] \in Seq(FrameState("origin")),
           wire'["bridge"] \in Seq(FrameState("bridge")),
           Ordered', BridgeBounded', NoHole',
           SlotsAccounted', slots' \in 0 .. MaxStreams, pending' \subseteq Streams,
           QueueAccounted', queued' \in 0 .. MaxQueued
    PROVE  Core'
  BY DEF Core, TypeOK, RestType, FrameState

LEMMA RegisterKeeps ==
    ASSUME Core, NEW k \in Streams, Register(k)
    PROVE  Core'
  <1> DEFINE x == [NoStream EXCEPT !.reg = TRUE, !.pump = "idle"]
             o == st["origin"][k]
             b == st["bridge"][k]
  <1>0. /\ TypeOK /\ Ordered /\ OpenedOnce(k) /\ "origin" \in Sides /\ "bridge" \in Sides
        /\ Other("origin") = "bridge" /\ Other("bridge") = "origin"
    BY SidesFacts DEF Core, Ordered
  <1>1. /\ call[k] = "cleared" /\ call[k] \in Unopened
        /\ UNCHANGED <<queued, answer, phase, dial, resets, wire, hole>>
    BY DEF Register, Unopened
  <1>2. CASE /\ call' = [call EXCEPT ![k] = "failed"] /\ slots' = slots - 1
             /\ UNCHANGED <<st, pending>>
    BY <1>1, <1>2, AdmissionStep DEF HoldsSlot, InQueue
  <1>3. CASE /\ call' = [call EXCEPT ![k] = "opening"]
             /\ st' = [st EXCEPT !["origin"][k] = x]
             /\ pending' = pending \cup {k} /\ UNCHANGED slots
    <2>1. /\ x \in StreamState /\ x.reg = TRUE /\ x.shut = FALSE /\ x.pump = "idle"
          /\ x.rd = "none" /\ x.sent = 0 /\ x.got = 0 /\ x.q = <<>>
      BY NoStreamType DEF StreamState
    <2>2. Makes("origin", k, x)
      BY <1>0, <1>3, <2>1, OneStream DEF Makes, TypeOK
    <2> HIDE DEF x
    <2>3. /\ o.pump = "none" /\ o.rd = "none" /\ o.sent = 0 /\ ~o.reg
          /\ b.pump = "none" /\ b.rd = "none" /\ b.sent = 0
      <3>1. o.pump = "none" /\ b.pump = "none"
        BY <1>0, <1>1 DEF OpenedOnce
      <3>2. o = NoStream /\ b = NoStream
        BY <1>0, <3>1, StreamHas DEF Mapped
      <3> QED
        BY <3>2, NoStreamType
    <2>4. st'["origin"][k] = x /\ st'["bridge"][k] = b
      BY <1>0, <2>2 DEF Makes
    <2>5. Flows("origin", k)'
      BY <1>0, <1>1, <2>1, <2>3, <2>4, FlowStarts, StreamHas
    <2>6. Flows("bridge", k)'
      <3>1. SenderSteady("origin", k) /\ ReceiverSteady("bridge", k)
        BY <2>1, <2>3, <2>4 DEF SenderSteady, ReceiverSteady
      <3>2. Connected' => Connected
        BY <1>1, PhaseKept
      <3> QED
        BY <1>0, <1>1, <3>1, <3>2, FlowAppends, StreamHas
    <2>7. call'[k] = "opening" /\ \A m \in Streams : m # k => call'[m] = call[m]
      BY <1>0, <1>3 DEF TypeOK
    <2>8. OpenedOnce(k)'
      <3>1. /\ ~Dialing(k) /\ answer[k] # "ok"
            /\ \A i \in 1 .. Len(wire["bridge"]) : ~InWire("bridge", "open", k, i)
            /\ \A i \in 1 .. Len(wire["origin"]) : ~InWire("origin", "ok", k, i)
        BY <1>0, <1>1, <2>3 DEF OpenedOnce
      <3>2. /\ ~Dialing(k)' /\ answer'[k] # "ok"
            /\ \A i \in 1 .. Len(wire'["bridge"]) : ~InWire("bridge", "open", k, i)'
            /\ \A i \in 1 .. Len(wire'["origin"]) : ~InWire("origin", "ok", k, i)'
        BY <1>1, <3>1 DEF Dialing, InWire
      <3> QED
        BY <2>1, <2>3, <2>4, <2>7, <3>2 DEF OpenedOnce, Unopened
    <2>9. Ordered'
      <3>1. Mapped(x)
        BY <2>1 DEF Mapped, Live
      <3>2. \A m \in Streams \ {k} : /\ CallSteady(m) /\ AnswerSteady(m)
                                     /\ Dialing(m)' => Dialing(m)
        BY <1>1, <2>7 DEF CallSteady, AnswerSteady, Dialing
      <3> QED
        BY <1>0, <1>1, <2>2, <2>5, <2>6, <2>8, <3>1, <3>2, PhaseKept, OrderedButOne
    <2>10. SlotsAccounted' /\ slots' \in 0 .. MaxStreams /\ pending' \subseteq Streams
      <3> DEFINE c == Cardinality(Open("origin"))
                 cc == Cardinality(Open("origin")')
                 h == Cardinality(Held)
                 hh == Cardinality(Held')
      <3>1. slots = c + h /\ slots \in 0 .. MaxStreams /\ pending \subseteq Streams
        BY DEF Core, SlotsAccounted, Held, TypeOK
      <3>2. SlotsAccounted' <=> slots' = cc + hh
        BY DEF SlotsAccounted, Held
      <3>3. hh = h - 1
        <4>1. "opening" \notin HoldsSlot /\ call[k] \in HoldsSlot
          BY <1>1 DEF HoldsSlot
        <4> QED
          BY <1>0, <1>3, <4>1, CallMoves
      <3>4. cc = c + 1
        <4>1. Open("origin")' = Open("origin") \cup {k} /\ k \notin Open("origin")
          BY <1>0, <2>1, <2>2, <2>3, MakesOpen DEF Open
        <4> QED
          BY <4>1, Counts, FS_AddElement
      <3>5. c \in Nat /\ h \in Nat
        BY Counts
      <3> HIDE DEF c, cc, h, hh
      <3> QED
        BY <1>3, <3>1, <3>2, <3>3, <3>4, <3>5
    <2>11. QueueAccounted' /\ queued' \in 0 .. MaxQueued
      <3>1. "opening" \notin InQueue /\ call[k] \notin InQueue
        BY <1>1 DEF InQueue
      <3>2. Queuing' = Queuing
        BY <1>0, <1>3, <3>1, CallMoves
      <3> QED
        BY <1>1, <3>2 DEF Core, QueueAccounted, Queuing, TypeOK
    <2>12. BridgeBounded'
      <3>1. Open("bridge")' = Open("bridge")
        BY <1>0, <2>2, MakesOpen
      <3> QED
        BY <1>1, <3>1, BridgeSteady DEF Core
    <2>13. RestType
      <3>1. call' \in [Streams -> CallState]
        BY <1>0, <1>3 DEF TypeOK, CallState
      <3> QED
        BY <1>0, <1>1, <3>1 DEF RestType, TypeOK, CallState
    <2>14. /\ NoHole' /\ wire'["origin"] \in Seq(FrameState("origin"))
           /\ wire'["bridge"] \in Seq(FrameState("bridge"))
           /\ st' \in [Sides -> [Streams -> StreamState]]
      BY <1>1, <2>2 DEF Core, NoHole, TypeOK, Makes
    <2> QED
      BY <2>9, <2>10, <2>11, <2>12, <2>13, <2>14, FinishStep
  <1> QED
    BY <1>2, <1>3 DEF Register

LEMMA SendOpenKeeps ==
    ASSUME Core, NEW k \in Streams, SendOpen(k)
    PROVE  Core'
  <1> DEFINE f == Frame("open", k, 0)
             o == st["origin"][k]
  <1>0. /\ TypeOK /\ Ordered /\ OpenedOnce(k) /\ "origin" \in Sides /\ "bridge" \in Sides
        /\ Other("origin") = "bridge" /\ Other("bridge") = "origin"
    BY SidesFacts DEF Core, Ordered
  <1>1. /\ call[k] = "opening" /\ UNCHANGED <<queued, answer, phase, dial, resets, hole>>
    BY DEF SendOpen
  <1>2. CASE /\ call' = [call EXCEPT ![k] = "failed"] /\ CloseStream("origin", k)
             /\ UNCHANGED wire
    BY <1>1, <1>2, DropStep
  <1>3. CASE /\ Connected /\ Send("origin", f)
             /\ call' = [call EXCEPT ![k] = "await"] /\ UNCHANGED <<st, slots, pending>>
    <2>1. f \in FrameState("bridge") /\ f.t = "open" /\ f.id = k
      BY DEF Frame, FrameState
    <2>2. DOMAIN wire' = Sides /\ wire'["bridge"] = Append(wire["bridge"], f)
          /\ wire'["origin"] = wire["origin"]
      BY <1>0, <1>3 DEF Send, Sent, TypeOK
    <2> HIDE DEF f
    <2>3. Connected' => Connected
      BY <1>3
    <2>4. \A s \in Sides : SenderSteady(s, k) /\ ReceiverSteady(s, k)
      BY <1>3 DEF SenderSteady, ReceiverSteady
    <2>5. Flows("origin", k)' /\ Flows("bridge", k)'
      BY <1>0, <2>1, <2>2, <2>3, <2>4, FlowAppends, StreamHas
    <2>6. call'[k] = "await" /\ \A m \in Streams : m # k => call'[m] = call[m]
      BY <1>0, <1>3 DEF TypeOK
    <2>7. OpenedOnce(k)'
      <3>1. PICK L \in Nat : L = Len(wire["bridge"])
        BY <1>0, WireType
      <3>2. /\ ~Dialing(k) /\ answer[k] # "ok" /\ st["bridge"][k].pump = "none"
            /\ o.pump # "none" /\ o.rd = "none" /\ st["bridge"][k].rd = "none"
            /\ \A i \in 1 .. L : ~InWire("bridge", "open", k, i)
            /\ \A i \in 1 .. Len(wire["origin"]) : ~InWire("origin", "ok", k, i)
        BY <1>0, <1>1, <3>1 DEF OpenedOnce
      <3>3. /\ Len(wire'["bridge"]) = L + 1
            /\ \A i \in 1 .. L : wire'["bridge"][i] = wire["bridge"][i]
        BY <1>0, <2>1, <2>2, <3>1, WireType, Appended
      <3>4. \A i \in 1 .. Len(wire'["bridge"]) : i # L + 1 => ~InWire("bridge", "open", k, i)'
        <4>1. \A i \in 1 .. Len(wire'["bridge"]) : i # L + 1 => i \in 1 .. L
          BY <3>3
        <4> QED
          BY <3>2, <3>3, <4>1 DEF InWire
      <3>5. /\ ~Dialing(k)' /\ answer'[k] # "ok"
            /\ \A i \in 1 .. Len(wire'["origin"]) : ~InWire("origin", "ok", k, i)'
        BY <1>1, <2>2, <3>2 DEF Dialing, InWire
      <3>6. /\ st'["bridge"][k].pump = "none" /\ st'["bridge"][k].rd = "none"
            /\ st'["origin"][k].pump # "none" /\ st'["origin"][k].rd = "none"
        BY <1>3, <3>2
      <3> QED
        BY <2>6, <3>4, <3>5, <3>6 DEF OpenedOnce, Unopened
    <2>8. Makes("origin", k, o) /\ Mapped(o)
      BY <1>0, <1>3, StreamHas DEF Makes, TypeOK
    <2>9. Ordered'
      <3>2. \A m \in Streams \ {k} : /\ CallSteady(m) /\ AnswerSteady(m)
                                     /\ Dialing(m)' => Dialing(m)
        BY <1>1, <2>6 DEF CallSteady, AnswerSteady, Dialing
      <3>3. \A p \in Sides : \/ wire'[p] = wire[p]
                             \/ \E g \in FrameState(p) : g.id = k /\ wire'[p] = Append(wire[p], g)
        BY <2>1, <2>2, SidesFacts
      <3> QED
        BY <1>0, <2>3, <2>5, <2>7, <2>8, <3>2, <3>3, OrderedButOne
    <2>10. Held' = Held /\ Queuing' = Queuing
      <3>1. /\ "await" \notin HoldsSlot /\ call[k] \notin HoldsSlot
            /\ "await" \notin InQueue /\ call[k] \notin InQueue
        BY <1>1 DEF HoldsSlot, InQueue
      <3> QED
        BY <1>0, <1>3, <3>1, CallMoves
    <2>11. /\ SlotsAccounted' /\ slots' \in 0 .. MaxStreams /\ pending' \subseteq Streams
           /\ BridgeBounded'
      <3>1. Open("origin")' = Open("origin") /\ Open("bridge")' = Open("bridge")
        BY <1>3 DEF Open
      <3> QED
        BY <1>1, <1>3, <2>10, <3>1, SlotsSame, BridgeSteady DEF Core
    <2>12. QueueAccounted' /\ queued' \in 0 .. MaxQueued
      BY <1>1, <2>10 DEF Core, QueueAccounted, Queuing, TypeOK
    <2>13. RestType
      <3>1. call' \in [Streams -> CallState]
        BY <1>0, <1>3 DEF TypeOK, CallState
      <3> QED
        BY <1>0, <1>1, <2>2, <3>1 DEF RestType, TypeOK, CallState
    <2>14. /\ wire'["origin"] \in Seq(FrameState("origin"))
           /\ wire'["bridge"] \in Seq(FrameState("bridge"))
      BY <1>0, <2>1, <2>2, WireGrows, SidesFacts
    <2>15. NoHole' /\ st' \in [Sides -> [Streams -> StreamState]]
      BY <1>1, <2>8 DEF Core, NoHole, Makes
    <2> QED
      BY <2>9, <2>11, <2>12, <2>13, <2>14, <2>15, FinishStep
  <1> QED
    BY <1>2, <1>3 DEF SendOpen

LEMMA AnsweredKeeps ==
    ASSUME Core, NEW k \in Streams, Answered(k)
    PROVE  Core'
  <1> DEFINE o == st["origin"][k]
             b == st["bridge"][k]
             x == [o EXCEPT !.rd = "reading"]
  <1>0. /\ TypeOK /\ Ordered /\ OpenedOnce(k) /\ "origin" \in Sides /\ "bridge" \in Sides
        /\ Other("origin") = "bridge" /\ Other("bridge") = "origin"
        /\ o \in StreamState /\ Mapped(o) /\ st \in [Sides -> [Streams -> StreamState]]
    BY SidesFacts, StreamHas DEF Core, Ordered, TypeOK
  <1>1. /\ call[k] = "await" /\ answer' = [answer EXCEPT ![k] = "none"]
        /\ UNCHANGED <<queued, phase, dial, resets, wire, hole>>
    BY DEF Answered
  <1>2. CASE call' = [call EXCEPT ![k] = "failed"] /\ CloseStream("origin", k)
    BY <1>1, <1>2, DropStep
  <1>3. CASE /\ answer[k] = "ok" /\ call' = [call EXCEPT ![k] = "open"]
             /\ st' = [st EXCEPT !["origin"][k].rd = "reading"]
             /\ UNCHANGED <<slots, pending>>
    <2>1. o.pump # "none" /\ o.rd = "none" /\ b.pump # "none"
      BY <1>0, <1>1, <1>3 DEF OpenedOnce
    <2>2. /\ x \in StreamState /\ x.reg = o.reg /\ x.shut = o.shut /\ x.pump = o.pump
          /\ x.rd = "reading" /\ x.sent = o.sent /\ x.q = o.q /\ x.hold = o.hold
          /\ x.got = o.got
      BY <1>0 DEF StreamState
    <2>3. st' = [st EXCEPT !["origin"][k] = x]
      BY <1>3
    <2> HIDE DEF x
    <2>4. Makes("origin", k, x)
      BY <1>0, <2>2, <2>3, OneStream DEF Makes
    <2>5. st'["origin"][k] = x /\ st'["bridge"][k] = b
      BY <1>0, <2>4 DEF Makes
    <2>6. Mapped(x)
      BY <1>0, <2>1, <2>2 DEF Mapped, Live
    <2>7. Connected' => Connected
      BY <1>1, PhaseKept
    <2>8. Flows("origin", k)'
      <3>1. SenderSteady("bridge", k) /\ ReceiverSteady("origin", k)
        BY <2>2, <2>5 DEF SenderSteady, ReceiverSteady
      <3> QED
        BY <1>0, <1>1, <2>7, <3>1, FlowAppends, StreamHas
    <2>9. Flows("bridge", k)'
      <3>1. ReceiverSteady("bridge", k)
        BY <2>5 DEF ReceiverSteady
      <3> QED
        BY <1>0, <1>1, <2>1, <2>2, <2>5, <3>1, FlowListens, StreamHas
    <2>10. /\ call'[k] = "open" /\ answer'[k] = "none"
           /\ \A m \in Streams : m # k => call'[m] = call[m] /\ answer'[m] = answer[m]
      BY <1>0, <1>1, <1>3 DEF TypeOK
    <2>11. OpenedOnce(k)'
      <3>1. \A i \in 1 .. Len(wire'["bridge"]) : ~InWire("bridge", "open", k, i)'
        BY <1>0, <1>1, <2>1 DEF OpenedOnce, InWire
      <3>2. ~Dialing(k)'
        BY <1>0, <1>1, <2>1 DEF OpenedOnce, Dialing
      <3> QED
        BY <2>1, <2>2, <2>5, <2>10, <3>1, <3>2 DEF OpenedOnce, Unopened
    <2>12. Ordered'
      <3>1. \A m \in Streams \ {k} : /\ CallSteady(m) /\ AnswerSteady(m)
                                     /\ Dialing(m)' => Dialing(m)
        BY <1>1, <2>10 DEF CallSteady, AnswerSteady, Dialing
      <3> QED
        BY <1>0, <1>1, <2>4, <2>6, <2>7, <2>8, <2>9, <2>11, <3>1, OrderedButOne
    <2>13. Held' = Held /\ Queuing' = Queuing
      <3>1. /\ "open" \notin HoldsSlot /\ call[k] \notin HoldsSlot
            /\ "open" \notin InQueue /\ call[k] \notin InQueue
        BY <1>1 DEF HoldsSlot, InQueue
      <3> QED
        BY <1>0, <1>3, <3>1, CallMoves
    <2>14. /\ SlotsAccounted' /\ slots' \in 0 .. MaxStreams /\ pending' \subseteq Streams
           /\ BridgeBounded'
      <3>1. Open("origin")' = Open("origin") /\ Open("bridge")' = Open("bridge")
        <4>1. Open("origin")' = Open("origin")
          BY <1>0, <2>2, <2>4 DEF Makes, Open
        <4>2. Open("bridge")' = Open("bridge")
          BY <1>0, <2>4, MakesOpen
        <4> QED
          BY <4>1, <4>2
      <3> QED
        BY <1>1, <1>3, <2>13, <3>1, SlotsSame, BridgeSteady DEF Core
    <2>15. QueueAccounted' /\ queued' \in 0 .. MaxQueued
      BY <1>1, <2>13 DEF Core, QueueAccounted, Queuing, TypeOK
    <2>16. RestType
      <3>1. call' \in [Streams -> CallState]
        BY <1>0, <1>3 DEF TypeOK, CallState
      <3>2. answer' \in [Streams -> {"none", "ok", "err", "closed"}]
        BY <1>0, <1>1 DEF TypeOK
      <3> QED
        BY <1>0, <1>1, <3>1, <3>2 DEF RestType, TypeOK, CallState
    <2>17. /\ NoHole' /\ wire'["origin"] \in Seq(FrameState("origin"))
           /\ wire'["bridge"] \in Seq(FrameState("bridge"))
           /\ st' \in [Sides -> [Streams -> StreamState]]
      BY <1>1, <2>4 DEF Core, NoHole, TypeOK, Makes
    <2> QED
      BY <2>12, <2>14, <2>15, <2>16, <2>17, FinishStep
  <1> QED
    BY <1>2, <1>3 DEF Answered

LEMMA BridgeOpensKeeps ==
    ASSUME Core, BridgeOpens
    PROVE  Core'
  <1>1. /\ dial.pc = "connected" /\ dial' = [pc |-> "idle", id |-> 0]
        /\ UNCHANGED <<call, slots, queued, pending, answer, phase, resets, hole>>
    BY DEF BridgeOpens, admission
  <1>2. PICK k \in Streams : k = dial.id
    BY <1>1 DEF Core, TypeOK
  <1> DEFINE x == [NoStream EXCEPT !.reg = TRUE, !.pump = "idle", !.rd = "reading"]
             f == Frame("ok", k, 0)
             o == st["origin"][k]
             b == st["bridge"][k]
  <1>3. st' = [st EXCEPT !["bridge"][k] = x] /\ Send("bridge", f)
    BY <1>2 DEF BridgeOpens
  <1>0. /\ TypeOK /\ Ordered /\ OpenedOnce(k) /\ "origin" \in Sides /\ "bridge" \in Sides
        /\ Other("origin") = "bridge" /\ Other("bridge") = "origin"
    BY SidesFacts DEF Core, Ordered
  <1>4. /\ x \in StreamState /\ x.reg = TRUE /\ x.shut = FALSE /\ x.pump = "idle"
        /\ x.rd = "reading" /\ x.sent = 0 /\ x.got = 0 /\ x.q = <<>>
    BY NoStreamType DEF StreamState
  <1>5. f \in FrameState("origin") /\ f.t = "ok" /\ f.id = k
    BY DEF Frame, FrameState
  <1> HIDE DEF x, f
  <1>6. Makes("bridge", k, x)
    BY <1>0, <1>3, <1>4, OneStream DEF Makes, TypeOK
  <1>7. /\ DOMAIN wire' = Sides /\ wire'["bridge"] = wire["bridge"]
        /\ wire'["origin"] = wire["origin"] \/ wire'["origin"] = Append(wire["origin"], f)
    BY <1>0, <1>3 DEF Send, Sent, TypeOK
  <1>8. Dialing(k) /\ ~Dialing(k)' /\ \A m \in Streams : ~Dialing(m)'
    BY <1>1, <1>2 DEF Dialing
  <1>9. b.pump = "none" /\ b.rd = "none" /\ b.sent = 0 /\ o.rd = "none" /\ b.reg = FALSE
    <2>1. b.pump = "none"
      BY <1>0, <1>8 DEF OpenedOnce
    <2>2. b = NoStream
      BY <1>0, <2>1, StreamHas DEF Mapped
    <2> QED
      BY <1>0, <2>1, <2>2, NoStreamType DEF OpenedOnce
  <1>10. st'["bridge"][k] = x /\ st'["origin"][k] = o
    BY <1>0, <1>6 DEF Makes
  <1>11. Flows("bridge", k)'
    BY <1>0, <1>4, <1>7, <1>9, <1>10, FlowStarts, StreamHas
  <1>12. Flows("origin", k)'
    <2>1. ReceiverSteady("origin", k)
      BY <1>10 DEF ReceiverSteady
    <2> QED
      BY <1>0, <1>4, <1>5, <1>7, <1>9, <1>10, <2>1, FlowListens, StreamHas
  <1>13. OpenedOnce(k)'
    <2>1. /\ call[k] \notin Unopened \cup {"opening"}
          /\ \A i \in 1 .. Len(wire["bridge"]) : ~InWire("bridge", "open", k, i)
      BY <1>0, <1>8 DEF OpenedOnce
    <2>2. \A i \in 1 .. Len(wire'["bridge"]) : ~InWire("bridge", "open", k, i)'
      BY <1>7, <2>1 DEF InWire
    <2>3. /\ call'[k] = call[k]
          /\ call[k] \in {"opening", "await", "open"} => o.pump # "none"
          /\ call[k] # "open" => o.rd = "none"
      BY <1>0, <1>1 DEF OpenedOnce
    <2> QED
      BY <1>4, <1>8, <1>10, <2>1, <2>2, <2>3 DEF OpenedOnce
  <1>14. Connected' => Connected
    BY <1>1, PhaseKept
  <1>15. Ordered'
    <2>1. Mapped(x)
      BY <1>4 DEF Mapped, Live
    <2>2. \A m \in Streams \ {k} : /\ CallSteady(m) /\ AnswerSteady(m)
                                   /\ Dialing(m)' => Dialing(m)
      BY <1>1, <1>8 DEF CallSteady, AnswerSteady
    <2>3. \A p \in Sides : \/ wire'[p] = wire[p]
                           \/ \E g \in FrameState(p) : g.id = k /\ wire'[p] = Append(wire[p], g)
      BY <1>5, <1>7, SidesFacts
    <2> QED
      BY <1>0, <1>6, <1>11, <1>12, <1>13, <1>14, <2>1, <2>2, <2>3, OrderedButOne
  <1>16. SlotsAccounted' /\ slots' \in 0 .. MaxStreams /\ pending' \subseteq Streams
    <2>1. Open("origin")' = Open("origin") /\ Held' = Held
      BY <1>0, <1>1, <1>6, MakesOpen DEF Held
    <2> QED
      BY <1>1, <2>1, SlotsSame DEF Core
  <1>17. BridgeBounded'
    <2> DEFINE c == Cardinality(Open("bridge"))
               cc == Cardinality(Open("bridge")')
    <2>1. Open("bridge")' = Open("bridge") \cup {k} /\ k \notin Open("bridge")
      BY <1>0, <1>4, <1>6, <1>9, MakesOpen DEF Open
    <2>2. cc = c + 1
      BY <2>1, Counts, FS_AddElement
    <2>3. c < MaxStreams /\ c \in Nat /\ MaxStreams \in Nat
      BY <1>1, Counts, MuxAssumption DEF Core, BridgeBounded
    <2>4. BridgeBounded' <=> cc <= MaxStreams
      BY <1>1 DEF BridgeBounded
    <2> HIDE DEF c, cc
    <2> QED
      BY <2>2, <2>3, <2>4
  <1>18. QueueAccounted' /\ queued' \in 0 .. MaxQueued
    BY <1>1 DEF Core, QueueAccounted, TypeOK
  <1>19. RestType
    BY <1>0, <1>1, <1>7 DEF RestType, TypeOK
  <1>20. /\ wire'["origin"] \in Seq(FrameState("origin"))
         /\ wire'["bridge"] \in Seq(FrameState("bridge"))
    BY <1>0, <1>5, <1>7, WireGrows, SidesFacts
  <1>21. NoHole' /\ st' \in [Sides -> [Streams -> StreamState]]
    BY <1>1, <1>6 DEF Core, NoHole, Makes
  <1> QED
    BY <1>15, <1>16, <1>17, <1>18, <1>19, <1>20, <1>21, FinishStep

-----------------------------------------------------------------------------
(* Chunks.                                                                 *)

\* A stream that is open gives, takes or holds a chunk.
LEMMA ChunkStep ==
    ASSUME Core, Rest, UNCHANGED <<slots, pending>>, NoHole', hole' \in BOOLEAN,
           NEW s \in Sides, NEW k \in Streams, NEW x \in StreamState,
           Makes(s, k, x), Mapped(x), x.reg = st[s][k].reg,
           x.pump = "none" <=> st[s][k].pump = "none",
           x.rd = "none" <=> st[s][k].rd = "none",
           DOMAIN wire' = Sides,
           \A p \in Sides :
              \/ wire'[p] = wire[p]
              \/ \E f \in FrameState(p) : /\ f.id = k /\ f.t \notin {"open", "ok"}
                                          /\ wire'[p] = Append(wire[p], f),
           Flows(s, k)', Flows(Other(s), k)'
    PROVE  Core'
  <1>0. TypeOK /\ Ordered /\ OpenedOnce(k)
    BY DEF Core, Ordered
  <1>1. \A m \in Streams : /\ CallSteady(m) /\ AnswerSteady(m)
                           /\ Dialing(m)' => Dialing(m)
    BY DEF Rest, CallSteady, AnswerSteady, Dialing
  <1>2. Connected' => Connected
    BY PhaseKept DEF Rest
  <1>3. OpenedOnce(k)'
    <2>1. NoneNew("bridge", "open", k) /\ NoneNew("origin", "ok", k)
      BY <1>0, NoneNewFrames, SidesFacts
    <2>2. \A p \in Sides : /\ st'[p][k].pump = "none" <=> st[p][k].pump = "none"
                           /\ st'[p][k].rd = "none" <=> st[p][k].rd = "none"
      BY DEF Makes
    <2> QED
      BY <1>0, <1>1, <2>1, <2>2, OpenedSteady
  <1>4. Ordered'
    BY <1>0, <1>1, <1>2, <1>3, OrderedButOne
  <1>5. \A p \in Sides : Open(p)' = Open(p)
    <2>1. Open(s)' = Open(s)
      BY DEF Makes, Open
    <2>2. \A p \in Sides : p # s => Open(p)' = Open(p)
      BY MakesOpen
    <2> QED
      BY <2>1, <2>2 DEF Open
  <1>6. /\ SlotsAccounted' /\ slots' \in 0 .. MaxStreams /\ pending' \subseteq Streams
        /\ BridgeBounded'
    <2>1. Held' = Held /\ dial' = dial
      BY DEF Held, Rest
    <2> QED
      BY <1>5, <2>1, SlotsSame, BridgeSteady, SidesFacts DEF Core
  <1>7. QueueAccounted' /\ queued' \in 0 .. MaxQueued
    BY DEF Core, QueueAccounted, TypeOK, Rest
  <1>8. RestType
    BY <1>0 DEF RestType, TypeOK, Rest
  <1>9. /\ wire'["origin"] \in Seq(FrameState("origin"))
        /\ wire'["bridge"] \in Seq(FrameState("bridge"))
        /\ st' \in [Sides -> [Streams -> StreamState]]
    BY <1>0, WireGrows DEF Makes
  <1> QED
    BY <1>4, <1>6, <1>7, <1>8, <1>9, FinishStep

LEMMA PumpTakesKeeps ==
    ASSUME Core, NEW s \in Sides, NEW k \in Streams, PumpTakes(s, k)
    PROVE  Core'
  <1> DEFINE r == st[s][k]
             x == [r EXCEPT !.pump = "writing", !.q = Tail(r.q), !.hold = Head(r.q)]
  <1>0. /\ TypeOK /\ r \in StreamState /\ Mapped(r) /\ Other(s) \in Sides
        /\ Other(s) # s /\ Other(Other(s)) = s
        /\ st \in [Sides -> [Streams -> StreamState]] /\ hole \in BOOLEAN
    BY StreamHas, SidesFacts DEF Core, TypeOK
  <1>1. /\ r.pump = "idle" /\ r.q # <<>> /\ Rest
        /\ UNCHANGED <<slots, pending, wire, hole>>
    BY DEF PumpTakes
  <1>2. st' = [st EXCEPT ![s][k] = x]
    BY <1>0 DEF PumpTakes
  <1>3. r.q \in Seq(Nat) /\ r.got \in Nat
    BY <1>0, StreamType
  <1>4. /\ Tail(r.q) \in Seq(Nat) /\ Len(Tail(r.q)) = Len(r.q) - 1 /\ Len(r.q) >= 1
        /\ Head(r.q) = r.q[1] /\ Head(r.q) \in Nat /\ Len(r.q) \in Nat
        /\ \A i \in 1 .. Len(r.q) - 1 : Tail(r.q)[i] = r.q[i + 1]
    BY <1>1, <1>3, Tailed
  <1>5. /\ x \in StreamState /\ x.reg = r.reg /\ x.shut = r.shut /\ x.pump = "writing"
        /\ x.rd = r.rd /\ x.sent = r.sent /\ x.q = Tail(r.q) /\ x.hold = Head(r.q)
        /\ x.got = r.got
    BY <1>0, <1>4 DEF StreamState
  <1> HIDE DEF x
  <1>6. Makes(s, k, x)
    BY <1>0, <1>2, <1>5, OneStream DEF Makes
  <1>7. Mapped(x)
    BY <1>0, <1>1, <1>5 DEF Mapped, Live
  <1>8. st'[s][k] = x /\ st'[Other(s)][k] = st[Other(s)][k]
    BY <1>0, <1>6 DEF Makes
  <1>9. Connected' => Connected
    BY <1>1, PhaseKept DEF Rest
  <1>10. Flows(s, k)'
    <2>1. CASE ~Live(r)
      <3>1. SenderSteady(Other(s), k) /\ ReceiverSteady(s, k)
        BY <1>1, <1>5, <1>8, <2>1 DEF SenderSteady, ReceiverSteady, Live
      <3> QED
        BY <1>0, <1>1, <1>9, <3>1, FlowAppends, StreamHas
    <2>2. CASE Live(r)
      <3>1. \A i \in 1 .. Len(r.q) : r.q[i] = r.got + i
        BY <1>1, <2>2, StreamHas DEF Flows, Consecutive, Base
      <3>2. x.hold = x.got + 1
        BY <1>4, <1>5, <3>1
      <3>3. Base(x) = r.got + 1 /\ Base(r) = r.got
        BY <1>1, <1>5, <3>2 DEF Base
      <3>4. QueueEnd(x) = QueueEnd(r)
        <4>1. /\ QueueEnd(x) = Base(x) + Len(x.q) /\ QueueEnd(r) = Base(r) + Len(r.q)
              /\ Len(x.q) = Len(r.q) - 1
          BY <1>4, <1>5 DEF QueueEnd
        <4> QED
          BY <1>3, <1>4, <3>3, <4>1
      <3>5. \A i \in 1 .. Len(x.q) : x.q[i] = Base(x) + i
        <4>1. \A i \in 1 .. Len(x.q) : x.q[i] = r.q[i + 1] /\ i + 1 \in 1 .. Len(r.q)
          BY <1>4, <1>5
        <4>2. \A i \in 1 .. Len(x.q) : x.q[i] = r.got + (i + 1)
          BY <3>1, <4>1
        <4>3. \A i \in 1 .. Len(x.q) : r.got + (i + 1) = (r.got + 1) + i
          BY <1>3
        <4> QED
          BY <3>3, <4>2, <4>3
      <3> QED
        BY <1>0, <1>1, <1>8, <1>9, <2>2, <3>2, <3>4, <3>5, FlowPumps, StreamHas
    <2> QED
      BY <2>1, <2>2
  <1>11. Flows(Other(s), k)'
    <2>1. SenderSteady(s, k) /\ ReceiverSteady(Other(s), k)
      BY <1>5, <1>8 DEF SenderSteady, ReceiverSteady
    <2> QED
      BY <1>0, <1>1, <1>9, <2>1, FlowAppends, StreamHas
  <1>12. NoHole' /\ hole' \in BOOLEAN /\ DOMAIN wire' = Sides
    BY <1>0, <1>1 DEF Core, NoHole, TypeOK
  <1> QED
    BY <1>1, <1>5, <1>6, <1>7, <1>10, <1>11, <1>12, ChunkStep

LEMMA FarReadsKeeps ==
    ASSUME Core, NEW s \in Sides, NEW k \in Streams, FarReads(s, k)
    PROVE  Core'
  <1> DEFINE r == st[s][k]
             x == [r EXCEPT !.pump = "idle", !.hold = 0, !.got = r.hold]
  <1>0. /\ TypeOK /\ r \in StreamState /\ Mapped(r) /\ Other(s) \in Sides
        /\ Other(s) # s /\ Other(Other(s)) = s
        /\ st \in [Sides -> [Streams -> StreamState]] /\ hole = FALSE
    BY StreamHas, SidesFacts DEF Core, TypeOK, NoHole
  <1>1. /\ r.pump = "writing" /\ ~r.shut /\ Rest /\ UNCHANGED <<slots, pending, wire>>
        /\ hole' = (hole \/ r.hold # r.got + 1)
    BY DEF FarReads
  <1>2. st' = [st EXCEPT ![s][k] = x]
    BY <1>0 DEF FarReads
  <1>3. r.q \in Seq(Nat) /\ r.got \in Nat /\ r.hold \in Nat
    BY <1>0, StreamType
  <1>4. Live(r)
    BY <1>1 DEF Live
  <1>5. /\ r.hold = r.got + 1 /\ Base(r) = r.hold
        /\ \A i \in 1 .. Len(r.q) : r.q[i] = Base(r) + i
    BY <1>1, <1>4, StreamHas DEF Flows, Consecutive, Base
  <1>6. /\ x \in StreamState /\ x.reg = r.reg /\ x.shut = r.shut /\ x.pump = "idle"
        /\ x.rd = r.rd /\ x.sent = r.sent /\ x.q = r.q /\ x.got = r.hold
    BY <1>0, <1>3 DEF StreamState
  <1> HIDE DEF x
  <1>7. Makes(s, k, x)
    BY <1>0, <1>2, <1>6, OneStream DEF Makes
  <1>8. Mapped(x)
    BY <1>0, <1>1, <1>6 DEF Mapped, Live
  <1>9. st'[s][k] = x /\ st'[Other(s)][k] = st[Other(s)][k]
    BY <1>0, <1>7 DEF Makes
  <1>10. Connected' => Connected
    BY <1>1, PhaseKept DEF Rest
  <1>11. Flows(s, k)'
    <2>1. Base(x) = Base(r) /\ QueueEnd(x) = QueueEnd(r) /\ x.pump # "writing"
      BY <1>5, <1>6 DEF QueueEnd, Base
    <2>2. \A i \in 1 .. Len(x.q) : x.q[i] = Base(x) + i
      BY <1>5, <1>6, <2>1
    <2> QED
      BY <1>0, <1>1, <1>4, <1>9, <1>10, <2>1, <2>2, FlowPumps, StreamHas
  <1>12. Flows(Other(s), k)'
    <2>1. SenderSteady(s, k) /\ ReceiverSteady(Other(s), k)
      BY <1>6, <1>9 DEF SenderSteady, ReceiverSteady
    <2> QED
      BY <1>0, <1>1, <1>10, <2>1, FlowAppends, StreamHas
  <1>13. NoHole' /\ hole' \in BOOLEAN /\ DOMAIN wire' = Sides
    BY <1>0, <1>1, <1>5 DEF NoHole, TypeOK
  <1> QED
    BY <1>1, <1>6, <1>7, <1>8, <1>11, <1>12, <1>13, ChunkStep

LEMMA FarSendsKeeps ==
    ASSUME Core, NEW s \in Sides, NEW k \in Streams, FarSends(s, k)
    PROVE  Core'
  <1> DEFINE r == st[s][k]
             n == r.sent + 1
             v == IF Connected THEN r.rd ELSE "ending"
             x == [r EXCEPT !.sent = n, !.rd = v]
             f == Frame("data", k, n)
  <1>0. /\ TypeOK /\ r \in StreamState /\ Mapped(r) /\ Other(s) \in Sides
        /\ Other(s) # s /\ Other(Other(s)) = s
        /\ st \in [Sides -> [Streams -> StreamState]] /\ hole \in BOOLEAN
    BY StreamHas, SidesFacts DEF Core, TypeOK
  <1>1. /\ r.rd = "reading" /\ Rest /\ UNCHANGED <<slots, pending, hole>> /\ Send(s, f)
    BY DEF FarSends
  <1>2. st' = [st EXCEPT ![s][k] = x]
    BY <1>0 DEF FarSends
  <1>3. r.sent \in Nat /\ n \in Nat
    BY <1>0, StreamType
  <1>4. /\ x \in StreamState /\ x.reg = r.reg /\ x.shut = r.shut /\ x.pump = r.pump
        /\ x.rd = v /\ x.sent = n /\ x.q = r.q /\ x.hold = r.hold /\ x.got = r.got
        /\ v \in {"reading", "ending"}
    BY <1>0, <1>1, <1>3 DEF StreamState
  <1>5. f \in FrameState(Other(s)) /\ f.id = k /\ f.t = "data"
    BY <1>3 DEF Frame, FrameState
  <1> HIDE DEF x
  <1>6. r.pump # "none"
    BY <1>0, <1>1, NoStreamType DEF Mapped
  <1>7. Makes(s, k, x)
    BY <1>0, <1>2, <1>4, OneStream DEF Makes
  <1>8. Mapped(x)
    BY <1>0, <1>4, <1>6 DEF Mapped, Live
  <1>9. st'[s][k] = x /\ st'[Other(s)][k] = st[Other(s)][k]
    BY <1>0, <1>7 DEF Makes
  <1>10. Connected' => Connected
    BY <1>1, PhaseKept DEF Rest
  <1>11. /\ DOMAIN wire' = Sides /\ wire'[s] = wire[s]
         /\ Connected => wire'[Other(s)] = Append(wire[Other(s)], f)
         /\ ~Connected => wire'[Other(s)] = wire[Other(s)]
    BY <1>0, <1>1 DEF Send, Sent, TypeOK
  <1>12. Flows(s, k)'
    <2>1. SenderSteady(Other(s), k) /\ ReceiverSteady(s, k)
      BY <1>4, <1>9 DEF SenderSteady, ReceiverSteady
    <2> QED
      BY <1>0, <1>10, <1>11, <2>1, FlowAppends, StreamHas
  <1>13. Flows(Other(s), k)'
    <2>1. ReceiverSteady(Other(s), k)
      BY <1>9 DEF ReceiverSteady
    <2>2. CASE ~Connected
      <3>1. SenderSteady(s, k)
        BY <1>4, <1>9, <2>2 DEF SenderSteady
      <3> QED
        BY <1>0, <1>10, <1>11, <2>1, <2>2, <3>1, FlowAppends, StreamHas
    <2>3. CASE Connected
      <3>1. st'[s][k].rd = "reading" /\ st'[s][k].sent = n
        BY <1>1, <1>4, <1>9, <2>3
      <3>2. QueueEnd(st'[Other(s)][k]) \in Nat
        BY <1>0, <1>9, StreamHas, StreamType
      <3>3. Flows(Other(s), k)
        BY <1>0, StreamHas
      <3>4. wire'[Other(s)] = Append(wire[Other(s)], Frame("data", k, n))
        BY <1>11, <2>3
      <3>5. PICK p \in Sides : p = Other(s)
        BY <1>0
      <3>6. Other(p) = s
        BY <1>0, <3>5
      <3>7. PICK e \in Nat : e = n
        BY <1>3
      <3>8. Flows(p, k)'
        BY <1>0, <1>1, <1>3, <2>1, <2>3, <3>1, <3>2, <3>3, <3>4, <3>5, <3>6, <3>7, FlowSends
      <3> QED
        BY <3>5, <3>8
    <2> QED
      BY <2>2, <2>3
  <1>14. NoHole' /\ hole' \in BOOLEAN
    BY <1>0, <1>1 DEF Core, NoHole
  <1>15. \A p \in Sides :
            \/ wire'[p] = wire[p]
            \/ \E g \in FrameState(p) : /\ g.id = k /\ g.t \notin {"open", "ok"}
                                        /\ wire'[p] = Append(wire[p], g)
    <2>1. \A p \in Sides : p = s \/ p = Other(s)
      BY DEF Sides, Other
    <2> HIDE DEF f
    <2>2. f.t \notin {"open", "ok"}
      BY <1>5
    <2> QED
      BY <1>5, <1>11, <2>1, <2>2
  <1>16. /\ x.pump = "none" <=> r.pump = "none"
         /\ x.rd = "none" <=> r.rd = "none"
    BY <1>1, <1>4
  <1> QED
    BY <1>1, <1>4, <1>7, <1>8, <1>11, <1>12, <1>13, <1>14, <1>15, <1>16, ChunkStep

-----------------------------------------------------------------------------
(* The decoders.                                                           *)

\* The frame a decoder takes.
LEMMA HeadFrame ==
    ASSUME TypeOK, NEW s \in Sides, wire[s] # <<>>,
           wire' = [wire EXCEPT ![s] = Tail(@)]
    PROVE  /\ Head(wire[s]) = wire[s][1] /\ 1 \in 1 .. Len(wire[s])
           /\ wire[s][1].id \in Streams /\ wire[s][1].n \in Nat
           /\ s = "origin" => wire[s][1].t \in {"ok", "err", "data", "close"}
           /\ s = "bridge" => wire[s][1].t \in {"open", "data", "eof", "close"}
           /\ DOMAIN wire' = Sides /\ wire'[s] = Tail(wire[s])
           /\ \A p \in Sides : p # s => wire'[p] = wire[p]
           /\ \A p \in Sides : wire'[p] \in Seq(FrameState(p))
  <1>1. /\ wire[s] \in Seq(FrameState(s)) /\ DOMAIN wire = Sides
        /\ \A p \in Sides : wire[p] \in Seq(FrameState(p))
    BY WireType DEF TypeOK
  <1>2. /\ Tail(wire[s]) \in Seq(FrameState(s)) /\ Len(wire[s]) >= 1
        /\ Len(wire[s]) \in Nat /\ Head(wire[s]) = wire[s][1]
    BY <1>1, Tailed
  <1>3. 1 \in 1 .. Len(wire[s])
    BY <1>2
  <1>4. /\ DOMAIN wire' = Sides /\ wire'[s] = Tail(wire[s])
        /\ \A p \in Sides : p # s => wire'[p] = wire[p]
    BY <1>1
  <1>5. \A p \in Sides : wire'[p] \in Seq(FrameState(p))
    BY <1>1, <1>2, <1>4
  <1> QED
    BY <1>2, <1>3, <1>4, <1>5, WireType

LEMMA ReadSteady ==
    ASSUME Core, NEW s \in Sides, wire[s] # <<>>,
           wire' = [wire EXCEPT ![s] = Tail(@)],
           UNCHANGED <<call, queued, phase, dial, hole>>,
           resets' \in [Sides -> SUBSET Streams],
           answer' \in [Streams -> {"none", "ok", "err", "closed"}],
           \A k \in Streams : AnswerSteady(k), StreamsSteady,
           wire[s][1].t = "data" => ~Live(st'[s][wire[s][1].id]),
           SlotsAccounted', slots' \in 0 .. MaxStreams, pending' \subseteq Streams
    PROVE  Core'
  <1>0. TypeOK
    BY DEF Core
  <1>1. DOMAIN wire' = Sides /\ \A p \in Sides : WireSteady(p)
    BY <1>0, HeadFrame DEF WireSteady, InWire
  <1>2. QueueAccounted' /\ queued' \in 0 .. MaxQueued
    BY DEF Core, QueueAccounted, TypeOK
  <1>3. RestType
    BY <1>0, <1>1 DEF RestType, TypeOK
  <1>4. \A m \in Streams : CallSteady(m) /\ (Dialing(m)' => Dialing(m))
    BY DEF CallSteady, Dialing
  <1> QED
    BY <1>1, <1>2, <1>3, <1>4, PhaseKept, SteadyStep

\* A decoder closes the stream its frame names.
LEMMA ReadCloses ==
    ASSUME Core, NEW s \in Sides, wire[s] # <<>>, NEW k \in Streams,
           wire' = [wire EXCEPT ![s] = Tail(@)], wire[s][1].id = k,
           CloseStream(s, k), resets' \in [Sides -> SUBSET Streams],
           UNCHANGED <<call, queued, answer, phase, dial, hole>>
    PROVE  Core'
  <1> DEFINE x == Shut(st[s][k])
  <1>0. TypeOK /\ Ordered /\ SlotsAccounted
    BY DEF Core
  <1>1. Makes(s, k, x) /\ Release(s, {k})
    BY <1>0, ClosedMakes DEF CloseStream
  <1>2. x \in StreamState /\ Steady(st[s][k], x) /\ x.reg = FALSE /\ ~Live(x)
    BY StreamHas, ShutSteady, StreamType
  <1> HIDE DEF x
  <1>3. StreamsSteady /\ ~Live(st'[s][wire[s][1].id])
    BY <1>0, <1>1, <1>2, MakesSteady DEF Makes
  <1>4. Held' = Held
    BY DEF Held
  <1>5. Open(s)' = Open(s) \ {k} /\ (s # "origin" => Open("origin")' = Open("origin"))
    BY <1>1, <1>2, MakesOpen, SidesFacts
  <1>6. SlotsAccounted' /\ slots' \in 0 .. MaxStreams /\ pending' \subseteq Streams
    BY <1>0, <1>1, <1>4, <1>5, SlotsReleased
  <1>7. /\ answer' \in [Streams -> {"none", "ok", "err", "closed"}]
        /\ \A m \in Streams : AnswerSteady(m)
    BY <1>0 DEF TypeOK, AnswerSteady
  <1> QED
    BY <1>3, <1>6, <1>7, ReadSteady

LEMMA ReadOpenKeeps ==
    ASSUME Core, NEW s \in Sides, wire[s] # <<>>, s = "bridge" => dial.pc = "idle",
           wire' = [wire EXCEPT ![s] = Tail(@)], ReadOpen(Head(wire[s])),
           UNCHANGED <<call, queued, phase, hole>>
    PROVE  Core'
  <1>0. /\ TypeOK /\ Ordered /\ "origin" \in Sides /\ "bridge" \in Sides
        /\ Other("origin") = "bridge" /\ Other("bridge") = "origin"
    BY SidesFacts DEF Core
  <1>1. PICK k \in Streams : k = wire[s][1].id
    BY <1>0, HeadFrame
  <1>2. /\ wire[s][1].t = "open" /\ UNCHANGED <<slots, pending, answer, st, resets>>
        /\ dial' = IF Cardinality(Open("bridge")) < MaxStreams
                   THEN [pc |-> "dial", id |-> k] ELSE [pc |-> "refuse", id |-> k]
    BY <1>0, <1>1, HeadFrame DEF ReadOpen
  <1>3. s = "bridge" /\ dial.pc = "idle"
    BY <1>0, <1>2, HeadFrame DEF Sides
  <1>4. /\ wire["bridge"] # <<>> /\ wire'["bridge"] = Tail(wire["bridge"])
        /\ wire'["origin"] = wire["origin"] /\ DOMAIN wire' = Sides
        /\ wire'["origin"] \in Seq(FrameState("origin"))
        /\ wire'["bridge"] \in Seq(FrameState("bridge"))
    BY <1>0, <1>3, HeadFrame
  <1>5. /\ InWire("bridge", "open", k, 1) /\ 1 \in 1 .. Len(wire["bridge"])
        /\ dial'.id = k /\ dial'.pc # "idle"
        /\ \A m \in Streams : ~InWire("bridge", "data", m, 1)
    BY <1>0, <1>1, <1>2, <1>3, HeadFrame DEF InWire
  <1>6. Connected' => Connected
    BY PhaseKept
  <1>7. \A p \in Sides, m \in Streams : Mapped(st'[p][m]) /\ Flows(p, m)'
    <2>1. ASSUME NEW p \in Sides, NEW m \in Streams
          PROVE  Flows(p, m)'
      <3>1. SenderSteady(Other(p), m) /\ ReceiverSteady(p, m) /\ Flows(p, m)
        BY <1>0, <1>2 DEF SenderSteady, ReceiverSteady, Ordered
      <3>2. CASE p = "bridge"
        BY <1>0, <1>4, <1>5, <1>6, <3>1, <3>2, FlowShifts
      <3>3. CASE p = "origin"
        BY <1>0, <1>4, <1>6, <3>1, <3>3, FlowAppends
      <3> QED
        BY <3>2, <3>3 DEF Sides
    <2> QED
      BY <1>0, <1>2, <2>1 DEF Ordered
  <1>8. \A m \in Streams : OpenedOnce(m)'
    <2>1. ASSUME NEW m \in Streams, m # k
          PROVE  OpenedOnce(m)'
      <3>1. NoneNew("bridge", "open", m) /\ NoneNew("origin", "ok", m)
        BY <1>0, <1>4, NoneNewFrames
      <3>2. CallSteady(m) /\ AnswerSteady(m) /\ ~Dialing(m)'
        BY <1>2, <1>5, <2>1 DEF CallSteady, AnswerSteady, Dialing
      <3> QED
        BY <1>0, <1>2, <3>1, <3>2, OpenedSteady DEF Ordered
    <2>2. OpenedOnce(k)'
      <3>0. OpenedOnce(k)
        BY <1>0 DEF Ordered
      <3>1. /\ st["bridge"][k].pump = "none" /\ ~Dialing(k)
            /\ call[k] \notin Unopened \cup {"opening"}
            /\ \A j \in 1 .. Len(wire["bridge"]) : InWire("bridge", "open", k, j) => j = 1
        BY <1>5, <3>0 DEF OpenedOnce
      <3>2. \A i \in 1 .. Len(wire'["bridge"]) : ~InWire("bridge", "open", k, i)'
        <4>1. SUFFICES ASSUME NEW i \in 1 .. Len(wire'["bridge"]), InWire("bridge", "open", k, i)'
                       PROVE  FALSE
          OBVIOUS
        <4>2. i + 1 \in 1 .. Len(wire["bridge"]) /\ InWire("bridge", "open", k, i + 1)
          BY <1>0, <1>4, <4>1, Shifted DEF InWire
        <4>3. i + 1 = 1 /\ i \in Int /\ i >= 1
          BY <3>1, <4>2
        <4> QED
          BY <4>3
      <3>3. /\ st["origin"][k].rd = "none" /\ answer[k] # "ok" /\ st["bridge"][k].rd = "none"
            /\ \A i \in 1 .. Len(wire["origin"]) : ~InWire("origin", "ok", k, i)
            /\ call[k] \in {"opening", "await", "open"} => st["origin"][k].pump # "none"
        BY <3>0, <3>1 DEF OpenedOnce
      <3>4. \A i \in 1 .. Len(wire'["origin"]) : ~InWire("origin", "ok", k, i)'
        BY <1>4, <3>3 DEF InWire
      <3> QED
        BY <1>2, <3>1, <3>2, <3>3, <3>4 DEF OpenedOnce
    <2> QED
      BY <2>1, <2>2
  <1>9. Ordered'
    BY <1>7, <1>8 DEF Ordered
  <1>10. Open("origin")' = Open("origin") /\ Open("bridge")' = Open("bridge") /\ Held' = Held
    BY <1>2 DEF Open, Held
  <1>11. SlotsAccounted' /\ slots' \in 0 .. MaxStreams /\ pending' \subseteq Streams
    BY <1>2, <1>10, SlotsSame DEF Core
  <1>12. BridgeBounded'
    <2>1. Cardinality(Open("bridge")) <= MaxStreams
      BY DEF Core, BridgeBounded
    <2>2. dial'.pc \in {"dial", "connected"} => Cardinality(Open("bridge")) < MaxStreams
      BY <1>2
    <2> QED
      BY <1>10, <2>1, <2>2 DEF BridgeBounded
  <1>13. QueueAccounted' /\ queued' \in 0 .. MaxQueued
    BY DEF Core, QueueAccounted, TypeOK
  <1>14. RestType
    BY <1>0, <1>2, <1>4 DEF RestType, TypeOK
  <1>15. NoHole' /\ st' \in [Sides -> [Streams -> StreamState]]
    BY <1>2 DEF Core, NoHole, TypeOK
  <1> QED
    BY <1>4, <1>9, <1>11, <1>12, <1>13, <1>14, <1>15, FinishStep

\* A chunk goes into the queue of its stream.
LEMMA EnqueuedKeeps ==
    ASSUME Core, NEW s \in Sides, wire[s] # <<>>, NEW k \in Streams,
           wire' = [wire EXCEPT ![s] = Tail(@)], wire[s][1].id = k,
           wire[s][1].t = "data", st[s][k].reg,
           st' = [st EXCEPT ![s][k].q = Append(@, wire[s][1].n)],
           UNCHANGED <<call, slots, queued, pending, answer, phase, dial, resets, hole>>
    PROVE  Core'
  <1> DEFINE r == st[s][k]
             x == [r EXCEPT !.q = Append(r.q, wire[s][1].n)]
  <1>0. /\ TypeOK /\ Ordered /\ r \in StreamState /\ Mapped(r) /\ Other(s) \in Sides
        /\ Other(s) # s /\ Other(Other(s)) = s /\ Flows(s, k)
        /\ st \in [Sides -> [Streams -> StreamState]]
    BY StreamHas, SidesFacts DEF Core, TypeOK
  <1>1. /\ wire[s][1].n \in Nat /\ DOMAIN wire' = Sides /\ wire'[s] = Tail(wire[s])
        /\ \A p \in Sides : p # s => wire'[p] = wire[p]
        /\ \A p \in Sides : wire'[p] \in Seq(FrameState(p))
    BY <1>0, HeadFrame
  <1>2. r.q \in Seq(Nat) /\ Base(r) \in Nat /\ Append(r.q, wire[s][1].n) \in Seq(Nat)
    BY <1>0, <1>1, StreamType, Appended
  <1>3. st' = [st EXCEPT ![s][k] = x]
    BY <1>0
  <1>4. /\ x \in StreamState /\ x.reg = r.reg /\ x.shut = r.shut /\ x.pump = r.pump
        /\ x.rd = r.rd /\ x.sent = r.sent /\ x.hold = r.hold /\ x.got = r.got
        /\ x.q = Append(r.q, wire[s][1].n)
    BY <1>0, <1>2 DEF StreamState
  <1> HIDE DEF x
  <1>5. Makes(s, k, x)
    BY ONLY <1>0, <1>3, <1>4, OneStream DEF Makes
  <1>6. Live(r) /\ Live(x) /\ Mapped(x)
    BY <1>0, <1>4 DEF Mapped, Live
  <1>7. /\ st'[s][k] = x
        /\ \A p \in Sides, m \in Streams : p # s \/ m # k => st'[p][m] = st[p][m]
    BY <1>5 DEF Makes
  <1>8. Connected' => Connected
    BY PhaseKept
  <1>9. \A p \in Sides, m \in Streams : SenderSteady(p, m)
    BY <1>4, <1>7 DEF SenderSteady
  <1>10. Flows(s, k)'
    <2>1. InWire(s, "data", k, 1)
      BY DEF InWire
    <2>2. /\ Live(st[s][k]) /\ st[s][k].q \in Seq(Nat) /\ Base(st[s][k]) \in Nat
          /\ Live(st'[s][k]) /\ st'[s][k].pump = st[s][k].pump
          /\ st'[s][k].hold = st[s][k].hold /\ st'[s][k].got = st[s][k].got
          /\ st'[s][k].q = Append(st[s][k].q, wire[s][1].n)
          /\ SenderSteady(Other(s), k)
      BY <1>0, <1>2, <1>4, <1>6, <1>7, <1>9
    <2>3. wire[s] # <<>> /\ wire'[s] = Tail(wire[s])
      BY <1>1
    <2> QED
      BY ONLY <1>0, <1>8, <2>1, <2>2, <2>3, FlowEnqueues
  <1>11. ASSUME NEW p \in Sides, NEW m \in Streams, p # s \/ m # k
         PROVE  Flows(p, m)'
    <2>1. /\ ReceiverSteady(p, m) /\ Flows(p, m) /\ Other(p) \in Sides
          /\ SenderSteady(Other(p), m)
      BY <1>0, <1>7, <1>9, <1>11, SidesFacts DEF ReceiverSteady, Ordered
    <2>2. CASE p = s
      <3>1. ~InWire(s, "data", m, 1)
        BY <1>11, <2>2 DEF InWire
      <3> QED
        BY <1>0, <1>1, <1>8, <2>1, <2>2, <3>1, FlowShifts
    <2>3. CASE p # s
      BY <1>0, <1>1, <1>8, <2>1, <2>3, FlowAppends
    <2> QED
      BY <2>2, <2>3
  <1>12. ASSUME NEW m \in Streams
         PROVE  OpenedOnce(m)'
    <2>1. NoneNew("bridge", "open", m) /\ NoneNew("origin", "ok", m)
      <3>1. \A p \in Sides : wire'[p] = wire[p] \/ (wire[p] # <<>> /\ wire'[p] = Tail(wire[p]))
        BY <1>1
      <3> QED
        BY <1>0, <3>1, NoneNewFrames, SidesFacts
    <2>2. CallSteady(m) /\ AnswerSteady(m) /\ (Dialing(m)' => Dialing(m))
      BY DEF CallSteady, AnswerSteady, Dialing
    <2>3. \A p \in Sides : /\ st'[p][m].pump = "none" <=> st[p][m].pump = "none"
                           /\ st'[p][m].rd = "none" <=> st[p][m].rd = "none"
      BY <1>4, <1>7
    <2> QED
      BY <1>0, <2>1, <2>2, <2>3, OpenedSteady DEF Ordered
  <1>13. Ordered'
    <2>1. \A p \in Sides, m \in Streams : Mapped(st'[p][m])
      BY <1>0, <1>6, <1>7 DEF Ordered
    <2> QED
      BY <1>10, <1>11, <1>12, <2>1 DEF Ordered
  <1>14. Held' = Held /\ \A p \in Sides : Open(p)' = Open(p)
    BY <1>4, <1>7 DEF Held, Open
  <1>15. /\ SlotsAccounted' /\ slots' \in 0 .. MaxStreams /\ pending' \subseteq Streams
         /\ BridgeBounded'
    BY <1>14, SlotsSame, BridgeSteady, SidesFacts DEF Core
  <1>16. QueueAccounted' /\ queued' \in 0 .. MaxQueued
    BY DEF Core, QueueAccounted, TypeOK
  <1>17. RestType
    BY <1>0, <1>1 DEF RestType, TypeOK
  <1>18. /\ NoHole' /\ st' \in [Sides -> [Streams -> StreamState]]
         /\ wire'["origin"] \in Seq(FrameState("origin"))
         /\ wire'["bridge"] \in Seq(FrameState("bridge"))
    BY <1>1, <1>5, SidesFacts DEF Core, NoHole, Makes
  <1> QED
    BY <1>13, <1>15, <1>16, <1>17, <1>18, FinishStep

LEMMA ReadFrameKeeps ==
    ASSUME Core, NEW s \in Sides, ReadFrame(s)
    PROVE  Core'
  <1> DEFINE f == Head(wire[s])
  <1>1. /\ wire[s] # <<>> /\ (s = "bridge" => dial.pc = "idle")
        /\ wire' = [wire EXCEPT ![s] = Tail(@)] /\ UNCHANGED <<call, queued, phase, hole>>
        /\ ReadAnswer(f) \/ ReadOpen(f) \/ ReadEnd(s, f) \/ ReadData(s, f)
    BY DEF ReadFrame
  <1>0. /\ TypeOK /\ Ordered /\ SlotsAccounted /\ resets \in [Sides -> SUBSET Streams]
        /\ answer \in [Streams -> {"none", "ok", "err", "closed"}]
    BY DEF Core, TypeOK
  <1>2. PICK k \in Streams : k = wire[s][1].id
    BY <1>0, <1>1, HeadFrame
  <1>3. f = wire[s][1] /\ f.id = k /\ 1 \in 1 .. Len(wire[s])
    BY <1>0, <1>1, <1>2, HeadFrame
  <1>4. st' = st => StreamsSteady
    BY <1>0, SteadySame DEF StreamsSteady, TypeOK, Ordered
  <1>5. st' = st => Open("origin")' = Open("origin")
    BY DEF Open
  <1>6. Held' = Held
    BY <1>1 DEF Held
  <1>7. CASE ReadAnswer(f)
    <2>1. /\ f.t \in {"ok", "err"} /\ UNCHANGED <<slots, dial, st, resets>>
          /\ answer' = IF k \in pending THEN [answer EXCEPT ![k] = f.t] ELSE answer
          /\ pending' = pending \ {k}
      BY <1>3, <1>7 DEF ReadAnswer
    <2>2. s = "origin"
      BY <1>0, <1>1, <1>3, <2>1, HeadFrame DEF Sides
    <2>3. answer' \in [Streams -> {"none", "ok", "err", "closed"}]
      BY <1>0, <2>1
    <2>4. ASSUME NEW m \in Streams
          PROVE  AnswerSteady(m)
      <3>1. CASE m # k \/ k \notin pending
        BY <1>0, <2>1, <3>1 DEF AnswerSteady
      <3>2. CASE m = k /\ k \in pending
        <4>1. answer'[m] = f.t
          BY <1>0, <2>1, <3>2
        <4>2. f.t = "ok" => InWire("origin", "ok", m, 1)
          BY <1>2, <1>3, <2>2, <3>2 DEF InWire
        <4> QED
          BY <1>3, <2>2, <4>1, <4>2 DEF AnswerSteady
      <3> QED
        BY <3>1, <3>2
    <2>5. SlotsAccounted' /\ slots' \in 0 .. MaxStreams /\ pending' \subseteq Streams
      BY <1>0, <1>5, <1>6, <2>1 DEF SlotsAccounted, Held, TypeOK
    <2>6. wire[s][1].t # "data"
      BY <1>3, <2>1
    <2> QED
      BY <1>0, <1>1, <1>4, <2>1, <2>3, <2>4, <2>5, <2>6, ReadSteady
  <1>8. CASE ReadOpen(f)
    BY <1>1, <1>8, ReadOpenKeeps
  <1>9. CASE ReadEnd(s, f)
    BY <1>0, <1>1, <1>2, <1>3, <1>9, ReadCloses DEF ReadEnd
  <1>10. CASE ReadData(s, f)
    <2>1. /\ f.t = "data" /\ UNCHANGED <<answer, dial>>
          /\ IF st[s][k].reg THEN Enqueue(s, k, f.n)
                             ELSE UNCHANGED <<st, slots, pending, resets>>
      BY <1>3, <1>10 DEF ReadData
    <2>2. CASE ~st[s][k].reg
      <3>1. UNCHANGED <<st, slots, pending, resets>>
        BY <2>1, <2>2
      <3>2. ~Live(st'[s][wire[s][1].id])
        BY <1>2, <2>2, <3>1, StreamHas DEF Mapped
      <3>3. SlotsAccounted' /\ slots' \in 0 .. MaxStreams /\ pending' \subseteq Streams
        BY <1>0, <1>5, <1>6, <3>1, SlotsSame
      <3>4. \A m \in Streams : AnswerSteady(m)
        BY <2>1 DEF AnswerSteady
      <3> QED
        BY <1>0, <1>1, <1>4, <2>1, <3>1, <3>2, <3>3, <3>4, ReadSteady
    <2>3. CASE st[s][k].reg /\ Len(st[s][k].q) < Queue
      <3>1. /\ st' = [st EXCEPT ![s][k].q = Append(@, wire[s][1].n)]
            /\ UNCHANGED <<slots, pending, resets>>
        BY <1>3, <2>1, <2>3 DEF Enqueue
      <3> QED
        BY <1>1, <1>2, <1>3, <2>1, <2>3, <3>1, EnqueuedKeeps
    <2>4. CASE st[s][k].reg /\ ~(Len(st[s][k].q) < Queue)
      <3>1. CloseStream(s, k) /\ resets' = [resets EXCEPT ![s] = @ \cup {k}]
        BY <2>1, <2>4 DEF Enqueue
      <3>2. resets' \in [Sides -> SUBSET Streams]
        BY <1>0, <3>1
      <3> QED
        BY <1>1, <1>2, <2>1, <3>1, <3>2, ReadCloses
    <2> QED
      BY <2>2, <2>3, <2>4
  <1> QED
    BY <1>1, <1>7, <1>8, <1>9, <1>10

-----------------------------------------------------------------------------
(* The theorems.                                                           *)

LEMMA InvInit == Init => Core
  <1> SUFFICES ASSUME Init PROVE Core
    OBVIOUS
  <1>1. \A s \in Sides, k \in Streams : st[s][k] = NoStream
    BY DEF Init
  <1>2. \A s \in Sides : wire[s] = <<>> /\ Len(wire[s]) = 0 /\ 1 .. Len(wire[s]) = {}
    BY DEF Init
  <1>3. /\ MaxStreams \in Nat /\ MaxQueued \in Nat /\ MaxStreams # 0
    BY MuxAssumption
  <1>4. TypeOK
    <2>1. st \in [Sides -> [Streams -> StreamState]]
      BY NoStreamType DEF Init
    <2>2. /\ DOMAIN wire = Sides /\ wire["origin"] \in Seq(FrameState("origin"))
          /\ wire["bridge"] \in Seq(FrameState("bridge"))
      BY SidesFacts DEF Init
    <2>3. /\ slots \in 0 .. MaxStreams /\ queued \in 0 .. MaxQueued
      BY <1>3 DEF Init
    <2>4. dial.pc = "idle" /\ dial \in [pc : {"idle", "dial", "refuse", "connected"},
                                         id : Streams \cup {0}]
      BY DEF Init
    <2>5. /\ call \in [Streams -> CallState]
          /\ answer \in [Streams -> {"none", "ok", "err", "closed"}]
          /\ phase \in [Sides -> {"running", "ending", "shut", "gone"}]
          /\ resets \in [Sides -> SUBSET Streams]
          /\ pending \subseteq Streams /\ hole \in BOOLEAN
      BY DEF Init, CallState
    <2> QED
      BY <2>1, <2>2, <2>3, <2>4, <2>5 DEF TypeOK, CallState
  <1>5. Open("origin") = {} /\ Open("bridge") = {} /\ Held = {} /\ Queuing = {}
    BY <1>1, NoStreamType, SidesFacts DEF Init, Open, Held, Queuing
  <1>6. SlotsAccounted /\ QueueAccounted /\ BridgeBounded
    <2>1. Cardinality({}) = 0
      BY FS_EmptySet
    <2>2. slots = 0 /\ queued = 0 /\ dial.pc = "idle"
      BY DEF Init
    <2>3. SlotsAccounted
      BY <1>5, <2>1, <2>2 DEF SlotsAccounted, Held
    <2>4. QueueAccounted
      BY <1>5, <2>1, <2>2 DEF QueueAccounted, Queuing
    <2>5. BridgeBounded
      BY <1>3, <1>5, <2>1, <2>2 DEF BridgeBounded
    <2> QED
      BY <2>3, <2>4, <2>5
  <1>7. ASSUME NEW k \in Streams
        PROVE  OpenedOnce(k)
    BY <1>1, <1>2, NoStreamType, SidesFacts DEF Init, OpenedOnce, Unopened, Dialing
  <1>8. ASSUME NEW s \in Sides, NEW k \in Streams
        PROVE  Mapped(st[s][k]) /\ Flows(s, k)
    <2>1. st[s][k] = NoStream /\ st[Other(s)][k] = NoStream
      BY <1>1, SidesFacts
    <2>2. ~Live(NoStream) /\ Mapped(NoStream)
      BY NoStreamType DEF Live, Mapped
    <2> QED
      BY <1>2, <2>1, <2>2, NoStreamType DEF Flows, Consecutive, SentOnce
  <1>9. NoHole
    BY DEF Init, NoHole
  <1> QED
    BY <1>4, <1>6, <1>7, <1>8, <1>9 DEF Core, Ordered

LEMMA InvStep == Core /\ [Next]_vars => Core'
  <1> SUFFICES ASSUME Core, [Next]_vars PROVE Core'
    OBVIOUS
  <1>1. CASE UNCHANGED vars
    <2>1. \A s \in Sides, k \in Streams :
             (Consecutive(s, k)' <=> Consecutive(s, k)) /\ (SentOnce(s, k)' <=> SentOnce(s, k))
      BY <1>1 DEF vars, Consecutive, SentOnce, InWire, Connected, Other
    <2>2. \A k \in Streams : OpenedOnce(k)' <=> OpenedOnce(k)
      BY <1>1 DEF vars, OpenedOnce, InWire, Dialing
    <2>3. Ordered'
      BY <1>1, <2>1, <2>2 DEF vars, Ordered, Flows, Core
    <2>4. TypeOK' /\ NoHole'
      BY <1>1 DEF vars, Core, TypeOK, NoHole, FrameState
    <2>5. SlotsAccounted' /\ QueueAccounted' /\ BridgeBounded'
      BY <1>1 DEF vars, Core, SlotsAccounted, QueueAccounted, BridgeBounded, Open
    <2> QED
      BY <2>3, <2>4, <2>5 DEF Core
  <1>2. ASSUME NEW k \in Streams, Arrive(k) \/ CallStep(k)
        PROVE  Core'
    <2>1. CASE Register(k)
      BY <2>1, RegisterKeeps
    <2>2. CASE SendOpen(k)
      BY <2>2, SendOpenKeeps
    <2>3. CASE Answered(k)
      BY <2>3, AnsweredKeeps
    <2>4. CASE OpenTimesOut(k)
      BY <2>4, DropStep DEF OpenTimesOut
    <2> QED
      BY <1>2, <2>1, <2>2, <2>3, <2>4, AdmissionKeeps DEF CallStep
  <1>3. ASSUME NEW s \in Sides, ReadFrame(s)
        PROVE  Core'
    BY <1>3, ReadFrameKeeps
  <1>4. ASSUME NEW s \in Sides, NEW k \in Streams,
               \/ SendReset(s, k) \/ PumpStep(s, k) \/ ReaderStep(s, k)
               \/ FarReads(s, k) \/ FarSends(s, k) \/ FarCloses(s, k)
        PROVE  Core'
    BY <1>4, SendResetKeeps, PumpTakesKeeps, PumpStopsKeeps, ReaderBreaksKeeps,
       ReaderAnnouncesKeeps, ReaderClosesKeeps, FarReadsKeeps, FarSendsKeeps,
       FarClosesKeeps DEF PumpStep, ReaderStep
  <1>5. CASE DialStep
    BY <1>5, DialFailsKeeps, DialConnectsKeeps, BridgeOpensKeeps DEF DialStep
  <1>6. CASE OriginEnds \/ Shutdown \/ CloseAll \/ \E s \in Sides : Returns(s)
    BY <1>6, EndKeeps
  <1> QED
    BY <1>1, <1>2, <1>3, <1>4, <1>5, <1>6 DEF Next

\* The inductive invariant of a session, for any number of streams: tokens,
\* queues and the order of chunks from one far end to the other.
THEOREM MuxInvariant == Spec => []MuxInv
  <1>1. Init => MuxInv
    BY InvInit, CoreIsInv
  <1>2. MuxInv /\ [Next]_vars => MuxInv'
    <2>1. MuxInv' <=> Core'
      BY CoreIsInv, PTL
    <2> QED
      BY <2>1, InvStep, CoreIsInv
  <1> QED
    BY <1>1, <1>2, PTL DEF Spec

\* acquireStream and releaseStream keep the semaphore of the origin exact: it
\* holds one token for each stream in the map and each call between its
\* admission and its registration, whatever closes a stream.
THEOREM ExactSlots == Spec => []SlotsAccounted
  <1>1. MuxInv => SlotsAccounted
    BY DEF MuxInv
  <1> QED
    BY <1>1, MuxInvariant, PTL

\* What a caller or a target has read is a prefix of what was sent to it: enqueue
\* closes the stream whose queue is full, and nothing follows a lost chunk.
THEOREM ReadsPrefix == Spec => []NoHole
  <1>1. MuxInv => NoHole
    BY DEF MuxInv
  <1> QED
    BY <1>1, MuxInvariant, PTL

=============================================================================
