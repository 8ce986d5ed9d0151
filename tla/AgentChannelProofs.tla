------------------------- MODULE AgentChannelProofs -------------------------
(***************************************************************************)
(* Answers reach their own call and a clean end is a whole stream, for any *)
(* number of calls and connections, any buffer and any length of a stream. *)
(*                                                                         *)
(* Answers: a call is named by its channel and its id.  Every frame names  *)
(* the call it belongs to, so looking an id up on the channel a frame came *)
(* from finds that call or none.                                           *)
(*                                                                         *)
(* Streams: what the reader has, what is buffered and what is on the wire  *)
(* are consecutive, or the reader will find an error before any EOF.  The  *)
(* agent sends an EOF early only when it was cancelled, and it is told so  *)
(* only when the reader no longer counts on the stream.                    *)
(***************************************************************************)
EXTENDS AgentChannel, FiniteSetTheorems, SequenceTheorems, TLAPS

-----------------------------------------------------------------------------
(* Sequences.                                                              *)

LEMMA Appended ==
    ASSUME NEW F, NEW w \in Seq(F), NEW f \in F
    PROVE  /\ Append(w, f) \in Seq(F) /\ Len(Append(w, f)) = Len(w) + 1
           /\ Append(w, f)[Len(w) + 1] = f
           /\ \A i \in 1 .. Len(w) : Append(w, f)[i] = w[i]
           /\ Len(w) \in Nat
  OBVIOUS

LEMMA Tailed ==
    ASSUME NEW F, NEW w \in Seq(F), w # <<>>
    PROVE  /\ Tail(w) \in Seq(F) /\ Len(Tail(w)) = Len(w) - 1
           /\ Len(w) \in Nat /\ Len(w) >= 1
           /\ Head(w) = w[1] /\ Head(w) \in F
           /\ \A i \in 1 .. Len(w) - 1 : Tail(w)[i] = w[i + 1]
  OBVIOUS

-----------------------------------------------------------------------------
(* The chunks of a stream in a link.                                       *)

UpFrame == FrameState(ResultTypes \cup ChunkTypes)

\* v keeps what w says of the stream c.
LinkKept(w, v, c) ==
    /\ EndsLast(w, c) => EndsLast(v, c)
    /\ \A d \in Nat : Chained(w, c, d) => Chained(v, c, d)
    /\ Places(w, c) = {} => Places(v, c) = {}
    /\ \A i \in Places(v, c) : \E j \in Places(w, c) : v[i] = w[j]
SentKept(w, v, c) ==
    \A d, n \in Nat : LastSent(w, c, d, n) => LastSent(v, c, d, n)

LEMMA LinkSame ==
    ASSUME NEW w, NEW c
    PROVE  LinkKept(w, w, c) /\ SentKept(w, w, c)
  BY DEF LinkKept, SentKept

LEMMA LinkLost ==
    ASSUME NEW w, NEW c
    PROVE  LinkKept(w, <<>>, c)
  <1>1. Places(<<>>, c) = {}
    BY DEF Places
  <1> QED
    BY <1>1 DEF LinkKept, EndsLast, Chained

\* A frame that is no chunk of c goes into the link.
LEMMA LinkGrows ==
    ASSUME NEW w \in Seq(UpFrame), NEW c, NEW f \in UpFrame,
           ~(f.of = c /\ f.type \in ChunkTypes)
    PROVE  LinkKept(w, Append(w, f), c) /\ SentKept(w, Append(w, f), c)
  <1> DEFINE v == Append(w, f)
  <1>1. /\ Len(v) = Len(w) + 1 /\ v[Len(w) + 1] = f /\ Len(w) \in Nat
        /\ \A i \in 1 .. Len(w) : v[i] = w[i]
    BY Appended
  <1> HIDE DEF v
  <1>2. Places(v, c) = Places(w, c) /\ \A i \in Places(w, c) : v[i] = w[i]
    BY <1>1 DEF Places
  <1>3. LinkKept(w, v, c)
    BY <1>2 DEF LinkKept, EndsLast, Chained
  <1>4. SentKept(w, v, c)
    BY <1>2 DEF SentKept, LastSent
  <1> QED
    BY <1>3, <1>4 DEF v

\* The places after a frame has been taken from the link.
LEMMA PlacesShift ==
    ASSUME NEW w \in Seq(UpFrame), NEW c, w # <<>>
    PROVE  /\ \A i \in Places(Tail(w), c) : /\ i \in Nat /\ i >= 1
                                            /\ i + 1 \in Places(w, c)
                                            /\ Tail(w)[i] = w[i + 1]
           /\ \A i \in Places(w, c) : i \in Nat /\ i >= 1
           /\ \A i \in Places(w, c) : i # 1 => /\ i - 1 \in Places(Tail(w), c)
                                               /\ Tail(w)[i - 1] = w[i]
  <1> DEFINE v == Tail(w)
  <1>1. /\ Len(v) = Len(w) - 1 /\ Len(w) \in Nat
        /\ \A i \in 1 .. Len(w) - 1 : v[i] = w[i + 1]
    BY Tailed
  <1> HIDE DEF v
  <1>2. /\ \A i \in Places(v, c) : /\ i \in Nat /\ i >= 1
                                   /\ i + 1 \in Places(w, c) /\ v[i] = w[i + 1]
        /\ \A i \in Places(w, c) : i \in Nat /\ i >= 1
        /\ \A i \in Places(w, c) : i # 1 => i - 1 \in Places(v, c) /\ v[i - 1] = w[i]
    <2>1. \A i \in Places(v, c) : /\ i \in Nat /\ i >= 1
                                  /\ i + 1 \in Places(w, c) /\ v[i] = w[i + 1]
      BY <1>1 DEF Places
    <2>2. \A i \in Places(w, c) : i \in Nat /\ i >= 1
      BY <1>1 DEF Places
    <2>3. ASSUME NEW i \in Places(w, c), i # 1
          PROVE  i - 1 \in Places(v, c) /\ v[i - 1] = w[i]
      <3>1. i \in 1 .. Len(w) /\ w[i].of = c /\ w[i].type \in ChunkTypes
        BY DEF Places
      <3>2. i - 1 \in 1 .. Len(v) /\ v[i - 1] = w[i]
        <4>1. i - 1 \in 1 .. Len(w) - 1
          BY <3>1, <2>3, <1>1
        <4> QED
          BY <4>1, <1>1, <3>1
      <3> QED
        BY <3>1, <3>2 DEF Places
    <2> QED
      BY <2>1, <2>2, <2>3
  <1> QED
    BY <1>2 DEF v

\* It was no chunk of c.
LEMMA LinkShifts ==
    ASSUME NEW w \in Seq(UpFrame), NEW c, w # <<>>, 1 \notin Places(w, c)
    PROVE  LinkKept(w, Tail(w), c) /\ SentKept(w, Tail(w), c)
  <1> DEFINE v == Tail(w)
  <1>1. /\ \A i \in Places(v, c) : /\ i \in Nat /\ i >= 1
                                   /\ i + 1 \in Places(w, c) /\ v[i] = w[i + 1]
        /\ \A i \in Places(w, c) : /\ i \in Nat /\ i >= 1
                                   /\ i - 1 \in Places(v, c) /\ v[i - 1] = w[i]
    BY PlacesShift
  <1> HIDE DEF v
  <1>2. EndsLast(w, c) => EndsLast(v, c)
    BY <1>1 DEF EndsLast
  <1>3. Places(w, c) = {} => Places(v, c) = {}
    BY <1>1
  <1>4. ASSUME NEW d \in Nat, Chained(w, c, d)
        PROVE  Chained(v, c, d)
    <2> SUFFICES ASSUME NEW i \in Places(v, c), v[i].type # "fault"
                 PROVE  \/ Num(v[i]) = d + 1 /\ \A j \in Places(v, c) : i <= j
                        \/ \E k \in Places(v, c) :
                              /\ k < i /\ Num(v[i]) = Num(v[k]) + 1
                              /\ \A j \in Places(v, c) : j <= k \/ i <= j
      BY DEF Chained
    <2>1. i \in Nat /\ i + 1 \in Places(w, c) /\ v[i] = w[i + 1]
      BY <1>1
    <2>2. \/ Num(w[i + 1]) = d + 1 /\ \A j \in Places(w, c) : i + 1 <= j
          \/ \E k \in Places(w, c) :
                /\ k < i + 1 /\ Num(w[i + 1]) = Num(w[k]) + 1
                /\ \A j \in Places(w, c) : j <= k \/ i + 1 <= j
      BY <1>4, <2>1 DEF Chained
    <2>3. CASE Num(w[i + 1]) = d + 1 /\ \A j \in Places(w, c) : i + 1 <= j
      <3>1. \A j \in Places(v, c) : i <= j
        BY <1>1, <2>1, <2>3
      <3> QED
        BY <3>1, <2>1, <2>3
    <2>4. CASE \E k \in Places(w, c) :
                /\ k < i + 1 /\ Num(w[i + 1]) = Num(w[k]) + 1
                /\ \A j \in Places(w, c) : j <= k \/ i + 1 <= j
      <3>1. PICK k \in Places(w, c) :
                /\ k < i + 1 /\ Num(w[i + 1]) = Num(w[k]) + 1
                /\ \A j \in Places(w, c) : j <= k \/ i + 1 <= j
        BY <2>4
      <3>2. k \in Nat /\ k - 1 \in Places(v, c) /\ v[k - 1] = w[k]
        BY <1>1
      <3>3. k - 1 < i
        BY <3>1, <3>2, <2>1
      <3>4. \A j \in Places(v, c) : j <= k - 1 \/ i <= j
        BY <1>1, <3>1, <3>2, <2>1
      <3> QED
        BY <3>1, <3>2, <3>3, <3>4, <2>1
    <2> QED
      BY <2>2, <2>3, <2>4
  <1>5. \A i \in Places(v, c) : \E j \in Places(w, c) : v[i] = w[j]
    BY <1>1
  <1>6. ASSUME NEW d \in Nat, NEW n \in Nat, LastSent(w, c, d, n)
        PROVE  LastSent(v, c, d, n)
    <2>1. CASE n = d /\ Places(w, c) = {}
      BY <2>1, <1>3 DEF LastSent
    <2>2. CASE \E k \in Places(w, c) :
                  Num(w[k]) = n /\ \A j \in Places(w, c) : j <= k
      <3>1. PICK k \in Places(w, c) :
                  Num(w[k]) = n /\ \A j \in Places(w, c) : j <= k
        BY <2>2
      <3>2. k \in Nat /\ k - 1 \in Places(v, c) /\ v[k - 1] = w[k]
        BY <1>1
      <3>3. \A j \in Places(v, c) : j <= k - 1
        BY <1>1, <3>1, <3>2
      <3> QED
        BY <3>1, <3>2, <3>3 DEF LastSent
    <2> QED
      BY <1>6, <2>1, <2>2 DEF LastSent
  <1>7. LinkKept(w, v, c)
    BY <1>2, <1>3, <1>4, <1>5 DEF LinkKept
  <1>8. SentKept(w, v, c)
    BY <1>6 DEF SentKept
  <1> QED
    BY <1>7, <1>8 DEF v

\* Every chunk of c in v is one in w.
Within(v, w, c) == \A i \in Places(v, c) : \E j \in Places(w, c) : v[i] = w[j]

\* The next chunk of c is taken from the link.
LEMMA LinkTakes ==
    ASSUME NEW w \in Seq(UpFrame), NEW c, w # <<>>, 1 \in Places(w, c),
           EndsLast(w, c)
    PROVE  /\ EndsLast(Tail(w), c)
           /\ w[1].type # "data" => Places(Tail(w), c) = {}
           /\ Within(Tail(w), w, c)
           /\ \A d \in Nat : Chained(w, c, d) /\ w[1].type # "fault" =>
                 Num(w[1]) = d + 1 /\ Chained(Tail(w), c, d + 1)
           /\ \A d, n \in Nat : LastSent(w, c, d, n) /\ Num(w[1]) = d + 1 =>
                 LastSent(Tail(w), c, d + 1, n)
  <1> DEFINE v == Tail(w)
  <1>1. /\ \A i \in Places(v, c) : /\ i \in Nat /\ i >= 1
                                   /\ i + 1 \in Places(w, c) /\ v[i] = w[i + 1]
        /\ \A i \in Places(w, c) : i \in Nat /\ i >= 1
        /\ \A i \in Places(w, c) : i # 1 => i - 1 \in Places(v, c) /\ v[i - 1] = w[i]
    BY PlacesShift
  <1> HIDE DEF v
  <1>2. EndsLast(v, c)
    BY <1>1 DEF EndsLast
  <1>3. w[1].type # "data" => Places(v, c) = {}
    <2> SUFFICES ASSUME w[1].type # "data", NEW i \in Places(v, c)
                 PROVE  FALSE
      OBVIOUS
    <2>1. i \in Nat /\ i >= 1 /\ i + 1 \in Places(w, c)
      BY <1>1
    <2>2. i + 1 <= 1
      BY <2>1 DEF EndsLast
    <2> QED
      BY <2>1, <2>2
  <1>4. Within(v, w, c)
    BY <1>1 DEF Within
  <1>5. ASSUME NEW d \in Nat, Chained(w, c, d), w[1].type # "fault"
        PROVE  Num(w[1]) = d + 1 /\ Chained(v, c, d + 1)
    <2>1. Num(w[1]) = d + 1
      BY <1>1, <1>5 DEF Chained
    <2>2. ASSUME NEW i \in Places(v, c), v[i].type # "fault"
          PROVE  \/ Num(v[i]) = (d + 1) + 1 /\ \A j \in Places(v, c) : i <= j
                 \/ \E k \in Places(v, c) :
                       /\ k < i /\ Num(v[i]) = Num(v[k]) + 1
                       /\ \A j \in Places(v, c) : j <= k \/ i <= j
      <3>1. i \in Nat /\ i >= 1 /\ i + 1 \in Places(w, c) /\ v[i] = w[i + 1]
        BY <1>1
      <3>2. ~(i + 1 <= 1)
        BY <3>1
      <3>3. PICK k \in Places(w, c) :
                /\ k < i + 1 /\ Num(w[i + 1]) = Num(w[k]) + 1
                /\ \A j \in Places(w, c) : j <= k \/ i + 1 <= j
        BY <1>5, <2>2, <3>1, <3>2 DEF Chained
      <3>4. k \in Nat /\ k >= 1
        BY <1>1
      <3>5. CASE k = 1
        <4>1. Num(v[i]) = (d + 1) + 1
          BY <3>1, <3>3, <3>5, <2>1
        <4>2. \A j \in Places(v, c) : i <= j
          BY <1>1, <3>3, <3>5, <3>1
        <4> QED
          BY <4>1, <4>2
      <3>6. CASE k # 1
        <4>1. k - 1 \in Places(v, c) /\ v[k - 1] = w[k]
          BY <1>1, <3>6
        <4>2. k - 1 < i
          BY <3>3, <3>4, <3>1
        <4>3. \A j \in Places(v, c) : j <= k - 1 \/ i <= j
          BY <1>1, <3>3, <3>4, <3>1
        <4>4. Num(v[i]) = Num(v[k - 1]) + 1
          BY <3>1, <3>3, <4>1
        <4> QED
          BY <4>1, <4>2, <4>3, <4>4
      <3> QED
        BY <3>5, <3>6
    <2> QED
      BY <2>1, <2>2 DEF Chained
  <1>6. ASSUME NEW d \in Nat, NEW n \in Nat, LastSent(w, c, d, n),
               Num(w[1]) = d + 1
        PROVE  LastSent(v, c, d + 1, n)
    <2>1. PICK k \in Places(w, c) :
                  Num(w[k]) = n /\ \A j \in Places(w, c) : j <= k
      BY <1>6 DEF LastSent
    <2>2. k \in Nat /\ k >= 1
      BY <1>1
    <2>3. CASE k = 1
      <3>1. Places(v, c) = {}
        <4> SUFFICES ASSUME NEW i \in Places(v, c) PROVE FALSE
          OBVIOUS
        <4>1. i \in Nat /\ i >= 1 /\ i + 1 <= 1
          BY <1>1, <2>1, <2>3
        <4> QED
          BY <4>1
      <3> QED
        BY <3>1, <2>1, <2>3, <1>6 DEF LastSent
    <2>4. CASE k # 1
      <3>1. k - 1 \in Places(v, c) /\ v[k - 1] = w[k]
        BY <1>1, <2>4
      <3>2. \A j \in Places(v, c) : j <= k - 1
        BY <1>1, <2>1, <2>2
      <3> QED
        BY <3>1, <3>2, <2>1 DEF LastSent
    <2> QED
      BY <2>3, <2>4
  <1> QED
    BY <1>2, <1>3, <1>4, <1>5, <1>6 DEF v

AllData(w, c) == \A i \in Places(w, c) : w[i].type = "data"

\* A chunk of c goes into the link.
LEMMA LinkSends ==
    ASSUME NEW w \in Seq(UpFrame), NEW c, NEW f \in UpFrame,
           f.of = c, f.type \in ChunkTypes, AllData(w, c)
    PROVE  /\ EndsLast(Append(w, f), c)
           /\ f.type = "data" => AllData(Append(w, f), c)
           /\ \A d, n \in Nat :
                 /\ Chained(w, c, d) /\ LastSent(w, c, d, n)
                 /\ f.type # "fault" => Num(f) = n + 1
                 => Chained(Append(w, f), c, d)
           /\ \A d \in Nat : LastSent(Append(w, f), c, d, Num(f))
  <1> DEFINE v == Append(w, f)
             L == Len(w) + 1
  <1>1. /\ Len(v) = L /\ v[L] = f /\ Len(w) \in Nat
        /\ \A i \in 1 .. Len(w) : v[i] = w[i]
    BY Appended
  <1>2. L \in Nat /\ L >= 1
    BY <1>1
  <1> HIDE DEF v
  <1>3. L \in Places(v, c)
    BY <1>1 DEF Places
  <1>4. \A i \in Places(w, c) : i \in Nat /\ i < L /\ i \in Places(v, c) /\ v[i] = w[i]
    BY <1>1 DEF Places
  <1>5. \A i \in Places(v, c) : i = L \/ i \in Places(w, c)
    BY <1>1 DEF Places
  <1> HIDE DEF L
  <1>6. EndsLast(v, c)
    <2> SUFFICES ASSUME NEW i \in Places(v, c), NEW j \in Places(v, c),
                        v[i].type # "data"
                 PROVE  j <= i
      BY DEF EndsLast
    <2>1. i = L
      BY <1>4, <1>5 DEF AllData
    <2> QED
      BY <2>1, <1>2, <1>4, <1>5
  <1>7. f.type = "data" => AllData(v, c)
    BY <1>1, <1>4, <1>5 DEF AllData, L
  <1>8. ASSUME NEW d \in Nat, NEW n \in Nat, Chained(w, c, d), LastSent(w, c, d, n),
               f.type # "fault" => Num(f) = n + 1
        PROVE  Chained(v, c, d)
    <2> SUFFICES ASSUME NEW i \in Places(v, c), v[i].type # "fault"
                 PROVE  \/ Num(v[i]) = d + 1 /\ \A j \in Places(v, c) : i <= j
                        \/ \E k \in Places(v, c) :
                              /\ k < i /\ Num(v[i]) = Num(v[k]) + 1
                              /\ \A j \in Places(v, c) : j <= k \/ i <= j
      BY DEF Chained
    <2>1. CASE i = L
      <3>1. v[i] = f /\ Num(f) = n + 1
        BY <2>1, <1>1, <1>8
      <3>2. CASE n = d /\ Places(w, c) = {}
        <4>1. \A j \in Places(v, c) : i <= j
          BY <3>2, <1>5, <2>1, <1>2
        <4> QED
          BY <3>1, <3>2, <4>1
      <3>3. CASE \E k \in Places(w, c) :
                    Num(w[k]) = n /\ \A j \in Places(w, c) : j <= k
        <4>1. PICK k \in Places(w, c) :
                    Num(w[k]) = n /\ \A j \in Places(w, c) : j <= k
          BY <3>3
        <4>2. k \in Places(v, c) /\ k < i /\ v[k] = w[k]
          BY <1>4, <2>1
        <4>3. \A j \in Places(v, c) : j <= k \/ i <= j
          BY <1>5, <4>1, <2>1, <1>2
        <4> QED
          BY <3>1, <4>1, <4>2, <4>3
      <3> QED
        BY <1>8, <3>2, <3>3 DEF LastSent
    <2>2. CASE i \in Places(w, c)
      <3>1. i \in Nat /\ i < L /\ v[i] = w[i]
        BY <2>2, <1>4
      <3>2. CASE Num(w[i]) = d + 1 /\ \A j \in Places(w, c) : i <= j
        <4>1. \A j \in Places(v, c) : i <= j
          BY <3>1, <3>2, <1>5, <1>2
        <4> QED
          BY <3>1, <3>2, <4>1
      <3>3. CASE \E k \in Places(w, c) : /\ k < i /\ Num(w[i]) = Num(w[k]) + 1
                                   /\ \A j \in Places(w, c) : j <= k \/ i <= j
        <4>1. PICK k \in Places(w, c) :
                    /\ k < i /\ Num(w[i]) = Num(w[k]) + 1
                    /\ \A j \in Places(w, c) : j <= k \/ i <= j
          BY <3>3
        <4>2. k \in Places(v, c) /\ v[k] = w[k]
          BY <1>4
        <4>3. \A j \in Places(v, c) : j <= k \/ i <= j
          BY <1>5, <4>1, <3>1, <1>2
        <4> QED
          BY <3>1, <4>1, <4>2, <4>3
      <3> QED
        BY <1>8, <2>2, <3>1, <3>2, <3>3 DEF Chained
    <2> QED
      BY <2>1, <2>2, <1>5
  <1>9. ASSUME NEW d \in Nat
        PROVE  LastSent(v, c, d, Num(f))
    <2>1. \A j \in Places(v, c) : j <= L
      BY <1>2, <1>4, <1>5
    <2> QED
      BY <2>1, <1>3, <1>1 DEF LastSent
  <1> QED
    BY <1>6, <1>7, <1>8, <1>9 DEF v

-----------------------------------------------------------------------------
(* Names.                                                                  *)

Naming ==
    /\ \A h \in Channels : ChannelKept(h) /\ DownNamed(h) /\ UpNamed(h)
    /\ \A c \in Calls : CallNamed(c)
    /\ InflightNamed /\ AnswersOwnCall

ChanOrdered ==
    \A h \in Channels :
        /\ chan[h].cp = "none" <=> chan[h].ag = "none"
        /\ \A g \in Channels : g < h /\ chan[h].cp # "none" => chan[g].ag = "closed"
        /\ registry = h => chan[h].cp = "live"

\* What a step that opens no call does to the record of a call.
CallMove(r, x, e, c) ==
    /\ x.ch = r.ch /\ x.id = r.id
    /\ x.pc = "idle" => x = r
    /\ r.pc # "idle" => x.pc # "idle"
    /\ r.pc \notin {"idle", "writing"} => x.pc \notin {"idle", "writing"}
    /\ x.listed <=> x.pc \in {"writing", "waiting", "reading"}
    /\ x.listed => r.listed
    /\ x.res # "none" => x.from = c
    /\ x.res = "ok" \/ x.end = "ok" \/ x.pc = "reading" => e.ok
    /\ e.pc \in Early => x.chunks = <<>> /\ x.got = <<>> /\ x.res = "none"

\* What a step does to the goroutine that executes a command.
ExecMove(e, y, r) ==
    /\ y.pc = "none" => e.pc = "none"
    /\ y.pc # "none" => \/ e.pc # "none"
                        \/ r.ch # None /\ r.pc \notin {"idle", "writing"}
    /\ y.pc \in Early => e.pc \in Early /\ ~y.ok /\ y.sent = 0
    /\ e.ok => y.ok
    /\ r.ch = None => y = e

UpStays(h) ==
    \A i \in 1 .. Len(up'[h]) :
        \/ \E j \in 1 .. Len(up[h]) : up'[h][i] = up[h][j]
        \/ /\ call[up'[h][i].of].ch = h /\ call[up'[h][i].of].id = up'[h][i].id
           /\ exec'[up'[h][i].of].pc \notin Early
           /\ up'[h][i].type = "ok" => exec'[up'[h][i].of].ok

LEMMA CallType ==
    ASSUME TypeOK, NEW c \in Calls
    PROVE  /\ call[c] \in CallState /\ exec[c] \in ExecState
           /\ call[c].ch \in Channels \cup {None}
           /\ call[c].id \in Nat
           /\ call[c].chunks \in Seq([type : ChunkTypes, n : 0 .. Chunks])
           /\ call[c].got \in Seq(Nat)
           /\ Len(call[c].chunks) \in Nat /\ Len(call[c].got) \in Nat
           /\ exec[c].sent \in 0 .. Chunks
  <1>1. call[c] \in CallState /\ exec[c] \in ExecState
    BY DEF TypeOK
  <1>2. Cardinality(Calls) \in Nat
    BY ChannelAssumption, FS_CardinalityType
  <1> QED
    BY <1>1, <1>2 DEF CallState, ExecState

LEMMA LinkType ==
    ASSUME TypeOK, NEW h \in Channels
    PROVE  /\ up[h] \in Seq(UpFrame) /\ Len(up[h]) \in Nat
           /\ down[h] \in Seq(FrameState({"cmd", "cancel"})) /\ Len(down[h]) \in Nat
           /\ \A i \in 1 .. Len(up[h]) : up[h][i] \in UpFrame /\ up[h][i].of \in Calls
           /\ \A i \in 1 .. Len(down[h]) :
                 /\ down[h][i] \in FrameState({"cmd", "cancel"})
                 /\ down[h][i].of \in Calls
  <1>1. up[h] \in Seq(UpFrame) /\ down[h] \in Seq(FrameState({"cmd", "cancel"}))
    BY DEF TypeOK, UpFrame
  <1>2. /\ \A i \in 1 .. Len(up[h]) : up[h][i] \in UpFrame
        /\ \A i \in 1 .. Len(down[h]) : down[h][i] \in FrameState({"cmd", "cancel"})
    BY <1>1
  <1>3. \A f \in UpFrame : f.of \in Calls
    BY DEF UpFrame, FrameState
  <1>4. \A f \in FrameState({"cmd", "cancel"}) : f.of \in Calls
    BY DEF FrameState
  <1> QED
    BY <1>1, <1>2, <1>3, <1>4

LEMMA OpenedFinite ==
    /\ IsFiniteSet(Opened) /\ Cardinality(Opened) \in Nat
    /\ Cardinality(Calls) \in Nat /\ Cardinality(Opened) <= Cardinality(Calls)
  <1>1. Opened \subseteq Calls
    BY DEF Opened
  <1> QED
    BY <1>1, ChannelAssumption, FS_Subset, FS_CardinalityType

\* Every step but the opening of a call keeps the names.
LEMMA NamedStep ==
    ASSUME TypeOK, TypeOK', Naming, ChanOrdered', nextID' = nextID,
           \A h \in Channels : chan[h].cp \in {"live", "closed"}
                                  => chan'[h].cp \in {"live", "closed"},
           \A c \in Calls : CallMove(call[c], call'[c], exec[c], c),
           \A c \in Calls : ExecMove(exec[c], exec'[c], call[c]),
           \A h \in Channels : shed'[h] # None =>
              call[shed'[h]].ch = h /\ exec[shed'[h]].pc \notin Early,
           \A h \in Channels : DownNamed(h)',
           \A h \in Channels : UpStays(h),
           InflightNamed'
    PROVE  Naming'
  <1> USE DEF Early
  <1>1. Cardinality(Opened) <= Cardinality(Opened')
    <2>1. Opened \subseteq Opened'
      BY DEF Opened, CallMove
    <2>2. IsFiniteSet(Opened')
      <3>1. Opened' \subseteq Calls
        BY DEF Opened
      <3> QED
        BY <3>1, ChannelAssumption, FS_Subset
    <2> QED
      BY <2>1, <2>2, FS_Subset
  <1>2. Cardinality(Opened') \in Nat /\ Cardinality(Opened) \in Nat
    <2>1. IsFiniteSet(Opened')
      <3>1. Opened' \subseteq Calls
        BY DEF Opened
      <3> QED
        BY <3>1, ChannelAssumption, FS_Subset
    <2> QED
      BY <2>1, FS_CardinalityType, OpenedFinite
  <1>3. ASSUME NEW h \in Channels
        PROVE  ChannelKept(h)'
    <2>1. nextID[h] \in Nat /\ nextID[h] <= Cardinality(Opened)
      BY OpenedFinite DEF TypeOK, Naming, ChannelKept
    <2>2. nextID'[h] <= Cardinality(Opened')
      BY <2>1, <1>1, <1>2
    <2>3. ASSUME shed'[h] # None
          PROVE  call'[shed'[h]].ch = h /\ exec'[shed'[h]].pc \notin Early
      <3>1. shed'[h] \in Calls
        BY <2>3, ChannelAssumption DEF TypeOK
      <3> QED
        BY <3>1, <2>3 DEF CallMove, ExecMove
    <2> QED
      BY <2>2, <2>3 DEF ChannelKept, ChanOrdered
  <1>4. ASSUME NEW c \in Calls
        PROVE  CallNamed(c)'
    <2> DEFINE r == call[c]
               x == call'[c]
               e == exec[c]
               y == exec'[c]
    <2>1. CallNamed(c) /\ CallMove(r, x, e, c) /\ ExecMove(e, y, r)
      BY DEF Naming
    <2>2. x.pc = "idle" => x = NoCall
      BY <2>1 DEF CallNamed, CallMove
    <2>3. (x.listed <=> x.pc \in {"writing", "waiting", "reading"})
          /\ (x.listed => x.ch # None)
      BY <2>1 DEF CallNamed, CallMove
    <2>4. ASSUME x.ch # None
          PROVE  /\ chan'[x.ch].cp \in {"live", "closed"} /\ x.id \in 1 .. nextID'[x.ch]
                 /\ \A d \in Calls \ {c} : call'[d].ch = x.ch => call'[d].id # x.id
      <3>1. r.ch \in Channels /\ x.ch = r.ch /\ x.id = r.id
        BY <2>1, <2>4, CallType DEF CallMove
      <3>2. \A d \in Calls : call'[d].ch = call[d].ch /\ call'[d].id = call[d].id
        BY DEF CallMove
      <3> QED
        BY <2>1, <2>4, <3>1, <3>2 DEF CallNamed
    <2>5. (x.ch = None => y = NoExec)
          /\ (y.pc # "none" => x.ch # None /\ x.pc \notin {"idle", "writing"})
      BY <2>1 DEF CallNamed, CallMove, ExecMove
    <2>6. x.res = "ok" => y.ok
      BY <2>1 DEF CallMove, ExecMove
    <2>7. y.pc \in Early => /\ x.chunks = <<>> /\ x.got = <<>> /\ x.res = "none"
                            /\ ~y.ok /\ y.sent = 0
      BY <2>1 DEF CallMove, ExecMove
    <2> QED
      BY <2>2, <2>3, <2>4, <2>5, <2>6, <2>7 DEF CallNamed
  <1>5. ASSUME NEW h \in Channels
        PROVE  UpNamed(h)'
    <2> SUFFICES ASSUME NEW i \in 1 .. Len(up'[h])
                 PROVE  LET f == up'[h][i] IN
                        /\ call'[f.of].ch = h /\ call'[f.of].id = f.id
                        /\ exec'[f.of].pc \notin Early
                        /\ f.type = "ok" => exec'[f.of].ok
      BY DEF UpNamed
    <2> DEFINE f == up'[h][i]
    <2>1. f.of \in Calls
      <3>1. up'[h] \in Seq(UpFrame)
        BY DEF TypeOK, UpFrame
      <3>2. f \in UpFrame
        BY <3>1
      <3> QED
        BY <3>2 DEF UpFrame, FrameState
    <2>2. /\ call[f.of].ch = h /\ call[f.of].id = f.id
          /\ exec'[f.of].pc \notin Early /\ (f.type = "ok" => exec'[f.of].ok)
      <3>1. CASE \E j \in 1 .. Len(up[h]) : f = up[h][j]
        BY <3>1, <2>1 DEF Naming, UpNamed, ExecMove
      <3>2. CASE /\ call[f.of].ch = h /\ call[f.of].id = f.id
                 /\ exec'[f.of].pc \notin Early
                 /\ f.type = "ok" => exec'[f.of].ok
        BY <3>2
      <3> QED
        BY <3>1, <3>2 DEF UpStays
    <2> QED
      BY <2>1, <2>2 DEF CallMove
  <1>6. AnswersOwnCall'
    BY DEF AnswersOwnCall, CallMove, ExecMove
  <1> QED
    BY <1>3, <1>4, <1>5, <1>6 DEF Naming

\* v is w, or w without its first frame, or empty.
Part(w, v) == \E s \in {0, 1} : /\ Len(v) + s <= Len(w) \/ Len(v) = 0
                                /\ \A i \in 1 .. Len(v) : v[i] = w[i + s]

LEMMA Parts ==
    ASSUME NEW F, NEW w \in Seq(F)
    PROVE  Part(w, w) /\ Part(w, <<>>) /\ (w # <<>> => Part(w, Tail(w)))
  <1>1. Part(w, w)
    <2>1. Len(w) + 0 <= Len(w) /\ \A i \in 1 .. Len(w) : w[i] = w[i + 0]
      OBVIOUS
    <2> QED
      BY <2>1 DEF Part
  <1>2. Part(w, <<>>)
    <2>1. Len(<<>>) = 0 /\ \A i \in 1 .. Len(<<>>) : <<>>[i] = w[i + 0]
      OBVIOUS
    <2> QED
      BY <2>1 DEF Part
  <1>3. ASSUME w # <<>> PROVE Part(w, Tail(w))
    <2>1. /\ Len(Tail(w)) = Len(w) - 1 /\ Len(w) \in Nat
          /\ \A i \in 1 .. Len(w) - 1 : Tail(w)[i] = w[i + 1]
      BY <1>3, Tailed
    <2>2. Len(Tail(w)) + 1 <= Len(w)
      BY <2>1
    <2> QED
      BY <2>1, <2>2 DEF Part
  <1> QED
    BY <1>1, <1>2, <1>3

LEMMA DownShrinks ==
    ASSUME TypeOK, TypeOK', NEW h \in Channels, DownNamed(h),
           \A c \in Calls : CallMove(call[c], call'[c], exec[c], c),
           \A i \in 1 .. Len(down'[h]) : down'[h][i].type = "cmd" =>
              (exec[down'[h][i].of].pc = "none" => exec'[down'[h][i].of].pc = "none"),
           Part(down[h], down'[h])
    PROVE  DownNamed(h)'
  <1> DEFINE w == down[h]
             v == down'[h]
  <1>1. Len(w) \in Nat /\ \A i \in 1 .. Len(w) : w[i].of \in Calls
    BY LinkType
  <1>2. Len(v) \in Nat
    <2>1. v \in Seq(FrameState({"cmd", "cancel"}))
      BY DEF TypeOK
    <2> QED
      BY <2>1
  <1>3. PICK s \in {0, 1} : /\ Len(v) + s <= Len(w) \/ Len(v) = 0
                            /\ \A i \in 1 .. Len(v) : v[i] = w[i + s]
    BY DEF Part
  <1>4. \A i \in 1 .. Len(v) : i + s \in 1 .. Len(w) /\ v[i] = w[i + s]
    BY <1>1, <1>2, <1>3
  <1> HIDE DEF w, v
  <1> SUFFICES ASSUME NEW i \in 1 .. Len(v)
               PROVE  LET f == v[i] IN
                      /\ call'[f.of].ch = h /\ call'[f.of].id = f.id
                      /\ call'[f.of].pc \notin {"idle", "writing"}
                      /\ f.type = "cmd" =>
                            /\ exec'[f.of].pc = "none"
                            /\ \A j \in 1 .. Len(v) :
                                  v[j].type = "cmd" /\ v[j].of = f.of => j = i
    BY DEF DownNamed, v
  <1> DEFINE f == v[i]
  <1>5. f = w[i + s] /\ i + s \in 1 .. Len(w) /\ f.of \in Calls
    BY <1>1, <1>4
  <1>6. /\ call[f.of].ch = h /\ call[f.of].id = f.id
        /\ call[f.of].pc \notin {"idle", "writing"}
        /\ f.type = "cmd" =>
              /\ exec[f.of].pc = "none"
              /\ \A j \in 1 .. Len(w) :
                    w[j].type = "cmd" /\ w[j].of = f.of => j = i + s
    BY <1>5 DEF DownNamed, w
  <1>7. CallMove(call[f.of], call'[f.of], exec[f.of], f.of)
    BY <1>5
  <1>8. ASSUME f.type = "cmd", NEW j \in 1 .. Len(v), v[j].type = "cmd", v[j].of = f.of
        PROVE  j = i
    <2>1. j + s \in 1 .. Len(w) /\ v[j] = w[j + s]
      BY <1>4
    <2>2. j + s = i + s
      BY <1>6, <1>8, <2>1
    <2> QED
      BY <2>2, <1>2
  <1>9. f.type = "cmd" => exec'[f.of].pc = "none"
    BY <1>6 DEF v
  <1> QED
    BY <1>6, <1>7, <1>8, <1>9 DEF CallMove

LEMMA DownGrows ==
    ASSUME TypeOK, TypeOK', NEW h \in Channels, DownNamed(h),
           \A c \in Calls : CallMove(call[c], call'[c], exec[c], c),
           exec' = exec,
           NEW f \in FrameState({"cmd", "cancel"}), down'[h] = Append(down[h], f),
           call'[f.of].ch = h, call'[f.of].id = f.id,
           call'[f.of].pc \notin {"idle", "writing"},
           f.type = "cmd" => exec[f.of].pc = "none" /\ call[f.of].pc = "writing"
    PROVE  DownNamed(h)'
  <1> DEFINE w == down[h]
             v == down'[h]
  <1>1. w \in Seq(FrameState({"cmd", "cancel"})) /\ Len(w) \in Nat
        /\ \A i \in 1 .. Len(w) : w[i].of \in Calls
    BY LinkType
  <1>2. /\ Len(v) = Len(w) + 1 /\ v[Len(w) + 1] = f
        /\ \A i \in 1 .. Len(w) : v[i] = w[i]
    BY <1>1, Appended
  <1>3. ASSUME NEW i \in 1 .. Len(w)
        PROVE  /\ call[w[i].of].ch = h /\ call[w[i].of].id = w[i].id
               /\ call[w[i].of].pc \notin {"idle", "writing"}
               /\ call'[w[i].of].ch = h /\ call'[w[i].of].id = w[i].id
               /\ call'[w[i].of].pc \notin {"idle", "writing"}
               /\ w[i].type = "cmd" =>
                     /\ exec[w[i].of].pc = "none"
                     /\ \A j \in 1 .. Len(w) :
                           w[j].type = "cmd" /\ w[j].of = w[i].of => j = i
    BY <1>1 DEF DownNamed, CallMove
  <1> HIDE DEF w, v
  <1> SUFFICES ASSUME NEW i \in 1 .. Len(v)
               PROVE  /\ call'[v[i].of].ch = h /\ call'[v[i].of].id = v[i].id
                      /\ call'[v[i].of].pc \notin {"idle", "writing"}
                      /\ v[i].type = "cmd" =>
                            /\ exec'[v[i].of].pc = "none"
                            /\ \A j \in 1 .. Len(v) :
                                  v[j].type = "cmd" /\ v[j].of = v[i].of => j = i
    BY DEF DownNamed, v
  <1>4. i \in 1 .. Len(w) \/ i = Len(w) + 1
    BY <1>1, <1>2
  <1>5. \A j \in 1 .. Len(v) : j \in 1 .. Len(w) \/ j = Len(w) + 1
    BY <1>1, <1>2
  <1>6. CASE i \in 1 .. Len(w)
    BY <1>6, <1>2, <1>3, <1>5
  <1>7. CASE i = Len(w) + 1
    BY <1>7, <1>2, <1>3, <1>5
  <1> QED
    BY <1>4, <1>6, <1>7

LEMMA MoveSame ==
    ASSUME Naming, NEW c \in Calls
    PROVE  /\ CallMove(call[c], call[c], exec[c], c)
           /\ ExecMove(exec[c], exec[c], call[c])
  <1>1. CallNamed(c)
    BY DEF Naming
  <1>2. /\ call[c].res # "none" => call[c].from = c
        /\ call[c].end = "ok" \/ call[c].pc = "reading" => exec[c].ok
    BY DEF Naming, AnswersOwnCall
  <1> QED
    BY <1>1, <1>2 DEF CallNamed, CallMove, ExecMove

LEMMA ChanSame ==
    ASSUME Naming, chan' = chan, registry' = registry
    PROVE  ChanOrdered' /\ \A h \in Channels : chan[h].cp \in {"live", "closed"}
                                  => chan'[h].cp \in {"live", "closed"}
  BY DEF Naming, ChannelKept, ChanOrdered

LEMMA UpSame ==
    ASSUME NEW h \in Channels, up'[h] = up[h]
    PROVE  UpStays(h)
  BY DEF UpStays

LEMMA InflightSame ==
    ASSUME TypeOK, Naming, inflight' = inflight,
           \A c \in Calls : CallMove(call[c], call'[c], exec[c], c),
           \A c \in Calls : ExecMove(exec[c], exec'[c], call[c])
    PROVE  InflightNamed'
  <1> SUFFICES ASSUME NEW i \in Ids, inflight[i] # None
               PROVE  call'[inflight[i]].id = i /\ exec'[inflight[i]].pc # "none"
    BY DEF InflightNamed
  <1>1. inflight[i] \in Calls /\ call[inflight[i]].id = i /\ exec[inflight[i]].pc # "none"
    BY DEF TypeOK, Naming, InflightNamed
  <1> QED
    BY <1>1 DEF CallMove, ExecMove

LEMMA ShedSame ==
    ASSUME Naming, NEW h \in Channels, shed'[h] \in {shed[h], None}
    PROVE  shed'[h] # None => call[shed'[h]].ch = h /\ exec[shed'[h]].pc \notin Early
  BY DEF Naming, ChannelKept

\* A caller takes a step, and may write a frame.
LEMMA CallSteps ==
    ASSUME TypeOK, Naming, NEW c \in Calls, NEW x \in CallState,
           Len(x.chunks) <= Buffer,
           call' = [call EXCEPT ![c] = x], CallMove(call[c], x, exec[c], c),
           UNCHANGED <<chan, registry, up, nextID, exec, inflight>>,
           shed' \in [Channels -> Streams \cup {None}],
           \A h \in Channels : shed'[h] \in {shed[h], None},
           \/ down' = down
           \/ \E f \in FrameState({"cmd", "cancel"}) :
                 /\ f.of = c /\ f.id = call[c].id /\ call[c].ch \in Channels
                 /\ x.pc \notin {"idle", "writing"}
                 /\ f.type = "cmd" => exec[c].pc = "none" /\ call[c].pc = "writing"
                 /\ down' = [down EXCEPT ![call[c].ch] = Append(@, f)]
    PROVE  TypeOK' /\ Naming'
  <1>1. call'[c] = x /\ \A d \in Calls \ {c} : call'[d] = call[d]
    BY DEF TypeOK
  <1>2. down' \in [Channels -> Seq(FrameState({"cmd", "cancel"}))]
    <2>1. CASE down' = down
      BY <2>1 DEF TypeOK
    <2>2. ASSUME NEW f \in FrameState({"cmd", "cancel"}), call[c].ch \in Channels,
                 down' = [down EXCEPT ![call[c].ch] = Append(@, f)]
          PROVE  down' \in [Channels -> Seq(FrameState({"cmd", "cancel"}))]
      <3>1. down[call[c].ch] \in Seq(FrameState({"cmd", "cancel"}))
        BY <2>2 DEF TypeOK
      <3>2. Append(down[call[c].ch], f) \in Seq(FrameState({"cmd", "cancel"}))
        BY <3>1
      <3> QED
        BY <2>2, <3>2 DEF TypeOK
    <2> QED
      BY <2>1, <2>2
  <1>3. TypeOK'
    <2>1. call' \in [Calls -> CallState]
      BY DEF TypeOK
    <2>2. \A d \in Calls : Len(call'[d].chunks) <= Buffer
      BY <1>1 DEF TypeOK
    <2> QED
      BY <2>1, <2>2, <1>2 DEF TypeOK
  <1>4. \A d \in Calls : CallMove(call[d], call'[d], exec[d], d)
    BY <1>1, MoveSame
  <1>5. \A d \in Calls : ExecMove(exec[d], exec'[d], call[d])
    BY MoveSame
  <1>6. ASSUME NEW h \in Channels
        PROVE  DownNamed(h)'
    <2>1. DownNamed(h)
      BY DEF Naming
    <2>2. CASE down'[h] = down[h]
      <3>1. Part(down[h], down'[h])
        BY <2>2, LinkType, Parts
      <3> QED
        BY <3>1, <2>1, <1>3, <1>4, DownShrinks
    <2>3. ASSUME NEW f \in FrameState({"cmd", "cancel"}), f.of = c, f.id = call[c].id,
                 call[c].ch = h, x.pc \notin {"idle", "writing"},
                 f.type = "cmd" => exec[c].pc = "none" /\ call[c].pc = "writing",
                 down'[h] = Append(down[h], f)
          PROVE  DownNamed(h)'
      <3>1. x.ch = h /\ x.id = f.id
        BY <2>3 DEF CallMove
      <3> QED
        BY <3>1, <2>1, <2>3, <1>1, <1>3, <1>4, DownGrows
    <2>4. CASE down' = down
      BY <2>2, <2>4
    <2>5. ASSUME NEW f \in FrameState({"cmd", "cancel"}), f.of = c, f.id = call[c].id,
                 call[c].ch \in Channels, x.pc \notin {"idle", "writing"},
                 f.type = "cmd" => exec[c].pc = "none" /\ call[c].pc = "writing",
                 down' = [down EXCEPT ![call[c].ch] = Append(@, f)]
          PROVE  DownNamed(h)'
      <3>1. CASE call[c].ch = h
        <4>1. down'[h] = Append(down[h], f)
          BY <3>1, <2>5 DEF TypeOK
        <4> QED
          BY <4>1, <3>1, <2>3, <2>5
      <3>2. CASE call[c].ch # h
        <4>1. down'[h] = down[h]
          BY <3>2, <2>5 DEF TypeOK
        <4> QED
          BY <4>1, <2>2
      <3> QED
        BY <3>1, <3>2
    <2> QED
      BY <2>4, <2>5
  <1>7. ChanOrdered' /\ \A h \in Channels : chan[h].cp \in {"live", "closed"}
                                  => chan'[h].cp \in {"live", "closed"}
    BY ChanSame
  <1>8. \A h \in Channels : UpStays(h)
    BY UpSame
  <1>9. InflightNamed'
    BY <1>4, <1>5, InflightSame
  <1>10. \A h \in Channels : shed'[h] # None =>
              call[shed'[h]].ch = h /\ exec[shed'[h]].pc \notin Early
    BY ShedSame
  <1> QED
    BY <1>3, <1>4, <1>5, <1>6, <1>7, <1>8, <1>9, <1>10, NamedStep

-----------------------------------------------------------------------------
(* Names: the callers.                                                     *)

LEMMA NothingRead ==
    /\ <<>> \in Seq([type : ChunkTypes, n : 0 .. Chunks])
    /\ <<>> \in Seq(Nat) /\ Len(<<>>) = 0 /\ Buffer \in Nat /\ Buffer >= 1
    /\ Chunks \in Nat
  BY ChannelAssumption

LEMMA ReturnedMoves ==
    ASSUME TypeOK, Naming, NEW c \in Calls, NEW end \in Ends,
           end = "ok" => exec[c].ok
    PROVE  /\ Returned(c, end) \in CallState
           /\ Len(Returned(c, end).chunks) <= Buffer
           /\ CallMove(call[c], Returned(c, end), exec[c], c)
           /\ Returned(c, end).pc = "returned"
  <1> DEFINE x == Returned(c, end)
  <1>1. /\ x.pc = "returned" /\ x.ch = call[c].ch /\ x.id = call[c].id
        /\ x.listed = FALSE /\ x.res = "none" /\ x.from = None /\ x.chunks = <<>>
        /\ x.got = (IF end = "eof" THEN call[c].got ELSE <<>>)
        /\ x.end = end /\ x.ctxDone = FALSE
    BY DEF Returned, NoCall
  <1>2. x = [pc |-> "returned", ch |-> call[c].ch, id |-> call[c].id,
             listed |-> FALSE, res |-> "none", from |-> None, chunks |-> <<>>,
             got |-> IF end = "eof" THEN call[c].got ELSE <<>>,
             end |-> end, ctxDone |-> FALSE]
    <2> DEFINE g == IF end = "eof" THEN call[c].got ELSE <<>>
    <2>1. x = [NoCall EXCEPT !.pc = "returned", !.ch = call[c].ch,
                             !.id = call[c].id, !.end = end, !.got = g]
      BY DEF Returned
    <2> HIDE DEF g
    <2>2. x = [pc |-> "returned", ch |-> call[c].ch, id |-> call[c].id,
             listed |-> FALSE, res |-> "none", from |-> None, chunks |-> <<>>,
             got |-> g, end |-> end, ctxDone |-> FALSE]
      BY <2>1 DEF NoCall
    <2> QED
      BY <2>2 DEF g
  <1>3. /\ call[c].ch \in Channels \cup {None}
        /\ call[c].id \in 0 .. Cardinality(Calls)
    BY CallType DEF CallState
  <1>4. (IF end = "eof" THEN call[c].got ELSE <<>>) \in Seq(Nat)
    BY CallType, NothingRead
  <1>5. x \in CallState
    BY <1>2, <1>3, <1>4, NothingRead DEF CallState
  <1>6. exec[c].pc \in Early => call[c].got = <<>>
    BY DEF Naming, CallNamed
  <1> HIDE DEF x
  <1>7. CallMove(call[c], x, exec[c], c)
    BY <1>1, <1>6 DEF CallMove
  <1>8. Len(x.chunks) <= Buffer
    BY <1>1, NothingRead
  <1> QED
    BY <1>1, <1>5, <1>7, <1>8 DEF x

\* The frames a call writes.
LEMMA CallFrames ==
    ASSUME TypeOK, Naming, NEW c \in Calls, call[c].ch # None
    PROVE  /\ call[c].ch \in Channels /\ call[c].id \in Ids
           /\ chan[call[c].ch].cp \in {"live", "closed"}
           /\ \A t \in {"cmd", "cancel"} :
                 Frame(t, call[c].id, c, 0) \in FrameState({"cmd", "cancel"})
           /\ \A t \in {"ok", "error", "data", "eof", "fault"}, n \in 0 .. Chunks :
                 Frame(t, call[c].id, c, n) \in UpFrame
  <1>1. call[c].ch \in Channels
    BY CallType
  <1>2. call[c].id \in 1 .. nextID[call[c].ch] /\ chan[call[c].ch].cp \in {"live", "closed"}
    BY DEF Naming, CallNamed
  <1>3. call[c].id \in Ids
    <2>1. nextID[call[c].ch] \in Nat /\ nextID[call[c].ch] <= Cardinality(Calls)
      BY <1>1, OpenedFinite DEF TypeOK
    <2> QED
      BY <1>2, <2>1, OpenedFinite DEF Ids
  <1> QED
    BY <1>1, <1>2, <1>3, NothingRead
       DEF Frame, FrameState, UpFrame, ResultTypes, ChunkTypes

LEMMA OpenUnavailableNames ==
    ASSUME TypeOK, Naming, NEW c \in Calls, OpenUnavailable(c)
    PROVE  TypeOK' /\ Naming'
  <1>1. "unavailable" \in Ends /\ "unavailable" # "ok"
    BY DEF Ends
  <1> DEFINE x == Returned(c, "unavailable")
  <1>2. x \in CallState /\ Len(x.chunks) <= Buffer /\ CallMove(call[c], x, exec[c], c)
    BY <1>1, ReturnedMoves
  <1>3. /\ call' = [call EXCEPT ![c] = x] /\ down' = down
        /\ UNCHANGED <<chan, registry, up, nextID, shed, exec, inflight>>
    BY DEF OpenUnavailable
  <1>4. shed' \in [Channels -> Streams \cup {None}]
    BY <1>3 DEF TypeOK
  <1> HIDE DEF x
  <1> QED
    BY <1>2, <1>3, <1>4, CallSteps

LEMMA WriteCommandNames ==
    ASSUME TypeOK, Naming, NEW c \in Calls, WriteCommand(c)
    PROVE  TypeOK' /\ Naming'
  <1>1. /\ call[c].pc = "writing" /\ call[c].listed /\ call[c].ch # None
        /\ exec[c].pc = "none"
    BY DEF WriteCommand, Naming, CallNamed
  <1>2. UNCHANGED <<chan, registry, up, nextID, shed, exec, inflight>>
    BY DEF WriteCommand
  <1>3. shed' \in [Channels -> Streams \cup {None}]
    BY <1>2 DEF TypeOK
  <1>4. CASE /\ down' = Sent(call[c].ch, Frame("cmd", call[c].id, c, 0))
             /\ call' = [call EXCEPT ![c].pc = "waiting"]
    <2> DEFINE x == [call[c] EXCEPT !.pc = "waiting"]
    <2>1. call[c] \in CallState
      BY CallType
    <2>2. /\ x \in CallState /\ x.chunks = call[c].chunks /\ x.pc = "waiting"
          /\ x.ch = call[c].ch /\ x.id = call[c].id /\ x.listed = call[c].listed
          /\ x.res = call[c].res /\ x.from = call[c].from /\ x.got = call[c].got
          /\ x.end = call[c].end
      BY <2>1 DEF CallState
    <2>3. call' = [call EXCEPT ![c] = x]
      BY <1>4 DEF TypeOK
    <2> HIDE DEF x
    <2>4. CallMove(call[c], x, exec[c], c)
      BY <2>2, <1>1, MoveSame DEF CallMove
    <2>5. Len(x.chunks) <= Buffer
      BY <2>2 DEF TypeOK
    <2>6. \/ down' = down
          \/ \E f \in FrameState({"cmd", "cancel"}) :
                 /\ f.of = c /\ f.id = call[c].id /\ call[c].ch \in Channels
                 /\ x.pc \notin {"idle", "writing"}
                 /\ f.type = "cmd" => exec[c].pc = "none" /\ call[c].pc = "writing"
                 /\ down' = [down EXCEPT ![call[c].ch] = Append(@, f)]
      <3> DEFINE f == Frame("cmd", call[c].id, c, 0)
      <3>1. f \in FrameState({"cmd", "cancel"}) /\ call[c].ch \in Channels
        BY <1>1, CallFrames
      <3>2. f.of = c /\ f.id = call[c].id
        BY DEF Frame
      <3>3. down' = down \/ down' = [down EXCEPT ![call[c].ch] = Append(@, f)]
        BY <1>4 DEF Sent
      <3> HIDE DEF f
      <3> QED
        BY <3>1, <3>2, <3>3, <1>1, <2>2
    <2> QED
      BY <2>2, <2>3, <2>4, <2>5, <2>6, <1>2, <1>3, CallSteps
  <1>5. CASE call' = [call EXCEPT ![c] = Returned(c, "unavailable")] /\ down' = down
    <2> DEFINE x == Returned(c, "unavailable")
    <2>1. "unavailable" \in Ends /\ "unavailable" # "ok"
      BY DEF Ends
    <2>2. x \in CallState /\ Len(x.chunks) <= Buffer /\ CallMove(call[c], x, exec[c], c)
      BY <2>1, ReturnedMoves
    <2>3. call' = [call EXCEPT ![c] = x]
      BY <1>5
    <2> HIDE DEF x
    <2> QED
      BY <2>2, <2>3, <1>2, <1>3, <1>5, CallSteps
  <1> QED
    BY <1>4, <1>5 DEF WriteCommand

\* A call returns, and may send a cancel frame.
LEMMA ReturnNames ==
    ASSUME TypeOK, Naming, NEW c \in Calls, NEW end \in Ends,
           end = "ok" => exec[c].ok, call[c].pc \notin {"idle", "writing"},
           call[c].listed,
           call' = [call EXCEPT ![c] = Returned(c, end)],
           down' \in {down, Sent(call[c].ch, CancelFrame(c))},
           UNCHANGED <<chan, registry, up, nextID, shed, exec, inflight>>
    PROVE  TypeOK' /\ Naming'
  <1> DEFINE x == Returned(c, end)
             f == CancelFrame(c)
  <1>1. /\ x \in CallState /\ Len(x.chunks) <= Buffer
        /\ CallMove(call[c], x, exec[c], c) /\ x.pc = "returned"
    BY ReturnedMoves
  <1>2. call[c].ch # None
    BY DEF Naming, CallNamed
  <1>3. f \in FrameState({"cmd", "cancel"}) /\ call[c].ch \in Channels
    BY <1>2, CallFrames DEF CancelFrame
  <1>4. f.of = c /\ f.id = call[c].id /\ f.type = "cancel"
    BY DEF Frame, CancelFrame
  <1>5. down' = down \/ down' = [down EXCEPT ![call[c].ch] = Append(@, f)]
    BY DEF Sent
  <1>6. shed' \in [Channels -> Streams \cup {None}]
    BY DEF TypeOK
  <1> HIDE DEF x, f
  <1>7. call' = [call EXCEPT ![c] = x]
    BY DEF x
  <1>8. \/ down' = down
        \/ \E k \in FrameState({"cmd", "cancel"}) :
                 /\ k.of = c /\ k.id = call[c].id /\ call[c].ch \in Channels
                 /\ x.pc \notin {"idle", "writing"}
                 /\ k.type = "cmd" => exec[c].pc = "none" /\ call[c].pc = "writing"
                 /\ down' = [down EXCEPT ![call[c].ch] = Append(@, k)]
    BY <1>1, <1>3, <1>4, <1>5
  <1> QED
    BY <1>1, <1>6, <1>7, <1>8, CallSteps

LEMMA CtxEndsNames ==
    ASSUME TypeOK, Naming, NEW c \in Calls, CtxEnds(c)
    PROVE  TypeOK' /\ Naming'
  <1> DEFINE x == [call[c] EXCEPT !.ctxDone = TRUE]
  <1>1. call[c] \in CallState
    BY CallType
  <1>2. /\ x \in CallState /\ x.chunks = call[c].chunks /\ x.pc = call[c].pc
        /\ x.ch = call[c].ch /\ x.id = call[c].id /\ x.listed = call[c].listed
        /\ x.res = call[c].res /\ x.from = call[c].from /\ x.got = call[c].got
        /\ x.end = call[c].end
    BY <1>1 DEF CallState
  <1>3. /\ call' = [call EXCEPT ![c] = x] /\ call[c].pc # "idle"
        /\ down' = down /\ UNCHANGED <<chan, registry, up, nextID, shed, exec, inflight>>
    BY DEF TypeOK, CtxEnds
  <1> HIDE DEF x
  <1>4. CallMove(call[c], x, exec[c], c)
    BY <1>2, <1>3, MoveSame DEF CallMove
  <1>5. Len(x.chunks) <= Buffer /\ shed' \in [Channels -> Streams \cup {None}]
    BY <1>2, <1>3 DEF TypeOK
  <1> QED
    BY <1>2, <1>3, <1>4, <1>5, CallSteps

LEMMA AwaitCanceledNames ==
    ASSUME TypeOK, Naming, NEW c \in Calls, AwaitCanceled(c)
    PROVE  TypeOK' /\ Naming'
  <1>1. "canceled" \in Ends /\ "canceled" # "ok"
    BY DEF Ends
  <1>2. /\ call[c].pc = "waiting" /\ call[c].listed
        /\ call' = [call EXCEPT ![c] = Returned(c, "canceled")]
        /\ down' = Sent(call[c].ch, CancelFrame(c))
        /\ UNCHANGED <<chan, registry, up, nextID, shed, exec, inflight>>
    BY DEF AwaitCanceled, Naming, CallNamed
  <1> QED
    BY <1>1, <1>2, ReturnNames

LEMMA AwaitClosedNames ==
    ASSUME TypeOK, Naming, NEW c \in Calls, AwaitClosed(c)
    PROVE  TypeOK' /\ Naming'
  <1>1. "unavailable" \in Ends /\ "unavailable" # "ok"
    BY DEF Ends
  <1>2. /\ call[c].pc = "waiting" /\ call[c].listed
        /\ call' = [call EXCEPT ![c] = Returned(c, "unavailable")]
        /\ down' = down
        /\ UNCHANGED <<chan, registry, up, nextID, shed, exec, inflight>>
    BY DEF AwaitClosed, Naming, CallNamed
  <1> QED
    BY <1>1, <1>2, ReturnNames

LEMMA AwaitResultNames ==
    ASSUME TypeOK, Naming, NEW c \in Calls, AwaitResult(c)
    PROVE  TypeOK' /\ Naming'
  <1>1. /\ call[c].pc = "waiting" /\ call[c].listed /\ down' = down
        /\ call[c].res # "none" /\ (call[c].res = "ok" => exec[c].ok)
        /\ UNCHANGED <<chan, registry, up, nextID, shed, exec, inflight>>
    BY DEF AwaitResult, Naming, CallNamed
  <1>2. call[c].res \in Ends
    BY <1>1, CallType DEF CallState, Ends, ResultTypes
  <1>3. CASE call[c].res = "ok" /\ c \in Streams
    <2> DEFINE x == [call[c] EXCEPT !.pc = "reading"]
    <2>1. call[c] \in CallState
      BY CallType
    <2>2. /\ x \in CallState /\ x.chunks = call[c].chunks /\ x.pc = "reading"
          /\ x.ch = call[c].ch /\ x.id = call[c].id /\ x.listed = call[c].listed
          /\ x.res = call[c].res /\ x.from = call[c].from /\ x.got = call[c].got
          /\ x.end = call[c].end
      BY <2>1 DEF CallState
    <2>3. call' = [call EXCEPT ![c] = x]
      BY <1>3 DEF TypeOK, AwaitResult
    <2> HIDE DEF x
    <2>4. CallMove(call[c], x, exec[c], c)
      BY <2>2, <1>1, <1>3, MoveSame DEF CallMove
    <2>5. Len(x.chunks) <= Buffer /\ shed' \in [Channels -> Streams \cup {None}]
      BY <2>2, <1>1 DEF TypeOK
    <2> QED
      BY <2>2, <2>3, <2>4, <2>5, <1>1, CallSteps
  <1>4. CASE ~(call[c].res = "ok" /\ c \in Streams)
    <2>1. call' = [call EXCEPT ![c] = Returned(c, call[c].res)]
      BY <1>4 DEF TypeOK, AwaitResult
    <2> QED
      BY <2>1, <1>1, <1>2, ReturnNames
  <1> QED
    BY <1>3, <1>4

\* A call that is read: nothing but its chunks, got and end changes.
LEMMA ReadNames ==
    ASSUME TypeOK, Naming, NEW c \in Calls, call[c].pc = "reading",
           NEW x \in CallState, call' = [call EXCEPT ![c] = x],
           x.ch = call[c].ch, x.id = call[c].id, x.pc = call[c].pc,
           x.listed = call[c].listed, x.res = call[c].res, x.from = call[c].from,
           x.end # "ok", Len(x.chunks) <= Buffer,
           UNCHANGED <<chan, registry, down, up, nextID, shed, exec, inflight>>
    PROVE  TypeOK' /\ Naming'
  <1>1. exec[c].ok /\ exec[c].pc \notin Early
    BY DEF Naming, CallNamed, AnswersOwnCall
  <1>2. CallMove(call[c], x, exec[c], c)
    BY <1>1, MoveSame DEF CallMove
  <1>3. shed' \in [Channels -> Streams \cup {None}]
    BY DEF TypeOK
  <1> QED
    BY <1>2, <1>3, CallSteps

LEMMA ReadChunkRecord ==
    ASSUME TypeOK, NEW c \in Calls, ReadChunk(c)
    PROVE  \E x \in CallState :
               LET q == call[c].chunks
                   chunk == q[1]
               IN
               /\ call' = [call EXCEPT ![c] = x]
               /\ chunk.type \in ChunkTypes /\ chunk.n \in Nat
               /\ x.pc = "reading" /\ x.ch = call[c].ch /\ x.id = call[c].id
               /\ x.listed = call[c].listed /\ x.res = call[c].res
               /\ x.from = call[c].from /\ x.end # "ok"
               /\ x.end = IF chunk.type = "data" THEN call[c].end ELSE chunk.type
               /\ x.got = IF chunk.type = "data" /\ c \notin Follows
                          THEN Append(call[c].got, chunk.n) ELSE call[c].got
               /\ x.chunks = Tail(q) /\ Len(x.chunks) = Len(q) - 1
               /\ Len(q) >= 1 /\ Len(q) \in Nat
               /\ \A i \in 1 .. Len(q) - 1 : Tail(q)[i] = q[i + 1]
  <1> DEFINE q == call[c].chunks
             chunk == Head(q)
             got == IF chunk.type = "data" /\ c \notin Follows
                    THEN Append(call[c].got, chunk.n) ELSE call[c].got
             end == IF chunk.type = "data" THEN call[c].end ELSE chunk.type
             x == [call[c] EXCEPT !.chunks = Tail(q), !.got = got, !.end = end]
  <1>1. /\ call[c].pc = "reading" /\ call[c].end = "none" /\ q # <<>>
        /\ q \in Seq([type : ChunkTypes, n : 0 .. Chunks])
        /\ call[c].got \in Seq(Nat) /\ call[c] \in CallState
    BY CallType DEF ReadChunk
  <1>2. /\ Tail(q) \in Seq([type : ChunkTypes, n : 0 .. Chunks])
        /\ Len(Tail(q)) = Len(q) - 1 /\ Len(q) >= 1 /\ Len(q) \in Nat
        /\ chunk = q[1] /\ chunk \in [type : ChunkTypes, n : 0 .. Chunks]
        /\ \A i \in 1 .. Len(q) - 1 : Tail(q)[i] = q[i + 1]
    BY <1>1, Tailed
  <1>3. chunk.type \in ChunkTypes /\ chunk.n \in Nat
    BY <1>2, NothingRead
  <1>4. call' = [call EXCEPT ![c] = x]
    BY DEF ReadChunk, TypeOK
  <1>5. got \in Seq(Nat)
    BY <1>1, <1>3
  <1>6. end \in Ends /\ end # "ok"
    BY <1>1, <1>3 DEF Ends, ChunkTypes
  <1> HIDE DEF got, end, chunk
  <1>7. x \in CallState
    BY <1>1, <1>2, <1>5, <1>6 DEF CallState
  <1>8. /\ x.pc = "reading" /\ x.ch = call[c].ch /\ x.id = call[c].id
        /\ x.listed = call[c].listed /\ x.res = call[c].res
        /\ x.from = call[c].from /\ x.end = end /\ x.chunks = Tail(q)
        /\ x.got = got /\ x.ctxDone = call[c].ctxDone
    BY <1>1 DEF CallState
  <1> HIDE DEF x
  <1>9. /\ x.end = IF q[1].type = "data" THEN call[c].end ELSE q[1].type
        /\ x.got = IF q[1].type = "data" /\ c \notin Follows
                   THEN Append(call[c].got, q[1].n) ELSE call[c].got
    BY <1>2, <1>8 DEF got, end
  <1> HIDE DEF q
  <1>10. /\ x \in CallState /\ call' = [call EXCEPT ![c] = x]
         /\ q[1].type \in ChunkTypes /\ q[1].n \in Nat
         /\ x.end # "ok" /\ Len(x.chunks) = Len(q) - 1
    BY <1>1, <1>2, <1>3, <1>4, <1>6, <1>7, <1>8
  <1> QED
    BY <1>2, <1>8, <1>9, <1>10 DEF q

LEMMA ReadChunkNames ==
    ASSUME TypeOK, Naming, NEW c \in Calls, ReadChunk(c)
    PROVE  TypeOK' /\ Naming'
  <1>1. PICK x \in CallState :
           /\ call' = [call EXCEPT ![c] = x] /\ x.pc = "reading"
           /\ x.ch = call[c].ch /\ x.id = call[c].id
           /\ x.listed = call[c].listed /\ x.res = call[c].res
           /\ x.from = call[c].from /\ x.end # "ok"
           /\ Len(x.chunks) = Len(call[c].chunks) - 1
    BY ReadChunkRecord
  <1>2. /\ call[c].pc = "reading"
        /\ UNCHANGED <<chan, registry, down, up, nextID, shed, exec, inflight>>
    BY DEF ReadChunk
  <1>3. Len(x.chunks) <= Buffer
    <2>1. Len(call[c].chunks) <= Buffer
      BY DEF TypeOK
    <2> QED
      BY <1>1, <2>1, CallType, NothingRead
  <1> QED
    BY <1>1, <1>2, <1>3, ReadNames

LEMMA ReadInterruptedNames ==
    ASSUME TypeOK, Naming, NEW c \in Calls, ReadInterrupted(c)
    PROVE  TypeOK' /\ Naming'
  <1>1. /\ call[c].pc = "reading"
        /\ UNCHANGED <<chan, registry, down, up, nextID, shed, exec, inflight>>
    BY DEF ReadInterrupted
  <1>2. PICK end \in {"interrupted", "unavailable"} :
           call' = [call EXCEPT ![c].end = end]
    BY DEF ReadInterrupted
  <1> DEFINE x == [call[c] EXCEPT !.end = end]
  <1>3. call[c] \in CallState
    BY CallType
  <1>4. /\ x \in CallState /\ x.chunks = call[c].chunks /\ x.pc = call[c].pc
        /\ x.ch = call[c].ch /\ x.id = call[c].id /\ x.listed = call[c].listed
        /\ x.res = call[c].res /\ x.from = call[c].from /\ x.end # "ok"
    BY <1>3 DEF CallState, Ends
  <1>5. call' = [call EXCEPT ![c] = x]
    BY <1>2 DEF TypeOK
  <1> HIDE DEF x
  <1>6. Len(x.chunks) <= Buffer
    BY <1>4 DEF TypeOK
  <1> QED
    BY <1>1, <1>4, <1>5, <1>6, ReadNames

LEMMA CloseStreamNames ==
    ASSUME TypeOK, Naming, NEW c \in Calls, CloseStream(c)
    PROVE  TypeOK' /\ Naming'
  <1> DEFINE end == IF call[c].end = "none" THEN "closed" ELSE call[c].end
  <1>1. /\ call[c].pc = "reading" /\ call[c].listed /\ exec[c].ok
        /\ call' = [call EXCEPT ![c] = Returned(c, end)]
        /\ down' \in {down, Sent(call[c].ch, CancelFrame(c))}
        /\ UNCHANGED <<chan, registry, up, nextID, shed, exec, inflight>>
    BY DEF CloseStream, Naming, CallNamed, AnswersOwnCall
  <1>2. end \in Ends
    BY CallType DEF CallState, Ends
  <1> HIDE DEF end
  <1> QED
    BY <1>1, <1>2, ReturnNames

LEMMA OpenRecord ==
    ASSUME TypeOK, Naming, NEW c \in Calls, Open(c)
    PROVE  /\ registry \in Channels /\ registry # None
           /\ chan[registry].cp = "live" /\ nextID[registry] \in Nat
           /\ call[c] = NoCall /\ exec[c] = NoExec
           /\ call'[c] = [NoCall EXCEPT !.pc = "writing", !.ch = registry,
                            !.id = nextID[registry] + 1, !.listed = TRUE]
           /\ \A d \in Calls \ {c} : call'[d] = call[d]
           /\ call' = [call EXCEPT ![c] = call'[c]]
  <1>1. registry \in Channels /\ call[c].pc = "idle"
    BY DEF TypeOK, Open
  <1>2. chan[registry].cp = "live" /\ nextID[registry] \in Nat
    BY <1>1, OpenedFinite DEF Naming, ChannelKept, TypeOK
  <1>3. call[c] = NoCall
    BY <1>1 DEF Naming, CallNamed
  <1>4. exec[c] = NoExec
    BY <1>3 DEF Naming, CallNamed, NoCall
  <1>5. call' = [call EXCEPT ![c] = [NoCall EXCEPT !.pc = "writing",
                   !.ch = registry, !.id = nextID[registry] + 1, !.listed = TRUE]]
    BY <1>3 DEF Open, TypeOK
  <1> QED
    BY <1>1, <1>2, <1>3, <1>4, <1>5 DEF TypeOK, Open

LEMMA OpenNames ==
    ASSUME TypeOK, Naming, NEW c \in Calls, Open(c)
    PROVE  TypeOK' /\ Naming'
  <1> DEFINE h == registry
             x == call'[c]
             n == nextID[h] + 1
  <1>1. /\ h \in Channels /\ chan[h].cp = "live" /\ nextID[h] \in Nat
        /\ call[c] = NoCall /\ exec[c] = NoExec /\ h # None
        /\ \A d \in Calls \ {c} : call'[d] = call[d]
        /\ call' = [call EXCEPT ![c] = x]
        /\ x = [pc |-> "writing", ch |-> h, id |-> n, listed |-> TRUE,
                res |-> "none", from |-> None, chunks |-> <<>>, got |-> <<>>,
                end |-> "none", ctxDone |-> FALSE]
    BY OpenRecord DEF NoCall
  <1>2. /\ nextID' = [nextID EXCEPT ![h] = n]
        /\ UNCHANGED <<chan, registry, down, up, shed, exec, inflight>>
    BY DEF Open
  <1>3. /\ call[c].pc = "idle" /\ call[c].ch = None /\ exec[c].pc = "none"
        /\ ~exec[c].ok /\ exec[c].sent = 0
    BY <1>1 DEF NoCall, NoExec
  <1>4. /\ x.pc = "writing" /\ x.ch = h /\ x.id = n /\ x.listed = TRUE
        /\ x.res = "none" /\ x.chunks = <<>> /\ x.got = <<>> /\ x.end = "none"
    BY <1>1
  <1> HIDE DEF x
  <1>5. Cardinality(Opened') = Cardinality(Opened) + 1
    <2>1. Opened' = Opened \cup {c} /\ c \notin Opened
      BY <1>1, <1>3, <1>4 DEF Opened, x
    <2> QED
      BY <2>1, OpenedFinite, FS_AddElement
  <1>6. Cardinality(Opened') <= Cardinality(Calls) /\ Cardinality(Opened') \in Nat
    <2>1. Opened' \subseteq Calls
      BY DEF Opened
    <2> QED
      BY <2>1, ChannelAssumption, FS_Subset, FS_CardinalityType
  <1>7. \A g \in Channels : nextID[g] \in Nat /\ nextID[g] <= Cardinality(Opened)
    BY OpenedFinite DEF TypeOK, Naming, ChannelKept
  <1>8. \A g \in Channels : /\ nextID'[g] \in Nat /\ nextID[g] <= nextID'[g]
                            /\ nextID'[g] <= Cardinality(Opened')
    BY <1>2, <1>5, <1>6, <1>7, OpenedFinite DEF TypeOK
  <1>9. n \in 1 .. Cardinality(Calls) /\ nextID'[h] = n
    BY <1>1, <1>2, <1>5, <1>6, <1>7, OpenedFinite DEF TypeOK
  <1>10. x \in CallState
    BY <1>1, <1>9, NothingRead, OpenedFinite DEF CallState, x, Ends, ResultTypes
  <1>11. TypeOK'
    <2>1. call' \in [Calls -> CallState]
      BY <1>1, <1>10 DEF TypeOK
    <2>2. ASSUME NEW d \in Calls
          PROVE  Len(call'[d].chunks) <= Buffer
      <3>1. CASE d = c
        <4>1. call'[d].chunks = <<>>
          BY <3>1, <1>4 DEF x
        <4> QED
          BY <4>1, NothingRead
      <3>2. CASE d # c
        <4>1. call'[d] = call[d] /\ Len(call[d].chunks) <= Buffer
          BY <3>2, <1>1 DEF TypeOK
        <4> QED
          BY <4>1
      <3> QED
        BY <3>1, <3>2
    <2>3. nextID' \in [Channels -> 0 .. Cardinality(Calls)]
      BY <1>2, <1>9, OpenedFinite DEF TypeOK
    <2> QED
      BY <2>1, <2>2, <2>3, <1>2 DEF TypeOK
  <1>12. \A d \in Calls : call[d].ch # None \/ exec[d].pc # "none" => d # c
    BY <1>3
  <1>13. ASSUME NEW g \in Channels
         PROVE  ChannelKept(g)' /\ DownNamed(g)' /\ UpNamed(g)'
    <2>1. ChannelKept(g) /\ DownNamed(g) /\ UpNamed(g) /\ g # None
      BY ChannelAssumption DEF Naming
    <2>2. shed[g] # None => shed[g] \in Calls \ {c}
      BY <2>1, <1>12, ChannelAssumption DEF ChannelKept, TypeOK
    <2>3. ChannelKept(g)'
      BY <2>1, <2>2, <1>1, <1>2, <1>8 DEF ChannelKept
    <2>4. \A i \in 1 .. Len(down[g]) : down[g][i].of \in Calls \ {c}
      BY <2>1, <1>12, LinkType DEF DownNamed
    <2>5. DownNamed(g)'
      BY <2>1, <2>4, <1>1, <1>2 DEF DownNamed
    <2>6. \A i \in 1 .. Len(up[g]) : up[g][i].of \in Calls \ {c}
      BY <2>1, <1>12, LinkType DEF UpNamed
    <2>7. UpNamed(g)'
      BY <2>1, <2>6, <1>1, <1>2 DEF UpNamed
    <2> QED
      BY <2>3, <2>5, <2>7
  <1>14. ASSUME NEW d \in Calls
         PROVE  CallNamed(d)'
    <2>1. \A b \in Calls : CallNamed(b) /\ call[b].ch \in Channels \cup {None}
      BY CallType DEF Naming
    <2>2. \A b \in Calls \ {c} : call[b].ch = h => call[b].id \in Nat /\ call[b].id < n
      <3> SUFFICES ASSUME NEW b \in Calls \ {c}, call[b].ch = h
                   PROVE  call[b].id \in Nat /\ call[b].id < n
        OBVIOUS
      <3>1. call[b].id \in 1 .. nextID[h]
        BY <2>1, <1>1 DEF CallNamed
      <3> QED
        BY <3>1, <1>1
    <2>3. CASE d = c
      <3>1. \A b \in Calls \ {c} : call'[b].ch = h => call'[b].id # n
        BY <2>2, <1>1
      <3> QED
        BY <2>3, <3>1, <1>1, <1>2, <1>3, <1>4, <1>9 DEF CallNamed, x
    <2>4. CASE d # c
      <3>1. call'[d] = call[d] /\ exec'[d] = exec[d]
        BY <2>4, <1>1, <1>2
      <3>2. ASSUME call[d].ch # None
            PROVE  /\ call[d].id \in 1 .. nextID'[call[d].ch]
                   /\ \A b \in Calls \ {d} : call'[b].ch = call[d].ch
                                                => call'[b].id # call[d].id
        <4>1. call[d].ch \in Channels /\ call[d].id \in 1 .. nextID[call[d].ch]
          BY <2>1, <3>2 DEF CallNamed
        <4>2. call[d].id \in 1 .. nextID'[call[d].ch]
          BY <4>1, <1>7, <1>8
        <4>3. ASSUME NEW b \in Calls \ {d}, call'[b].ch = call[d].ch
              PROVE  call'[b].id # call[d].id
          <5>1. CASE b = c
            BY <5>1, <4>3, <2>2, <2>4, <1>1, <1>4 DEF x
          <5>2. CASE b # c
            BY <5>2, <4>3, <2>1, <3>2, <1>1 DEF CallNamed
          <5> QED
            BY <5>1, <5>2
        <4> QED
          BY <4>2, <4>3
      <3>3. CallNamed(d)
        BY <2>1
      <3> QED
        BY <3>1, <3>2, <3>3, <1>2 DEF CallNamed
    <2> QED
      BY <2>3, <2>4
  <1>15. InflightNamed'
    <2> SUFFICES ASSUME NEW i \in Ids, inflight[i] # None
                 PROVE  call'[inflight[i]].id = i /\ exec'[inflight[i]].pc # "none"
      BY <1>2 DEF InflightNamed
    <2>1. inflight[i] \in Calls /\ call[inflight[i]].id = i
          /\ exec[inflight[i]].pc # "none"
      BY DEF TypeOK, Naming, InflightNamed
    <2> QED
      BY <2>1, <1>12, <1>1, <1>2
  <1>16. AnswersOwnCall'
    BY <1>1, <1>2, <1>4 DEF AnswersOwnCall, Naming, x
  <1> QED
    BY <1>11, <1>13, <1>14, <1>15, <1>16 DEF Naming

-----------------------------------------------------------------------------
(* Names: the agent.                                                       *)

\* The goroutine of a command takes a step, and may write a frame.
LEMMA ExecSteps ==
    ASSUME TypeOK, Naming, NEW c \in Calls, NEW y \in ExecState,
           exec' = [exec EXCEPT ![c] = y], ExecMove(exec[c], y, call[c]),
           exec[c].pc # "none",
           UNCHANGED <<chan, registry, down, nextID, shed, call>>,
           inflight' \in [Ids -> Calls \cup {None}],
           \A i \in Ids : \/ inflight'[i] \in {inflight[i], None}
                          \/ inflight'[i] = c /\ call[c].id = i,
           \/ up' = up
           \/ \E f \in UpFrame :
                 /\ f.of = c /\ f.id = call[c].id
                 /\ y.pc \notin Early /\ (f.type = "ok" => y.ok)
                 /\ up' = [up EXCEPT ![call[c].ch] = Append(@, f)]
    PROVE  TypeOK' /\ Naming'
  <1>1. exec'[c] = y /\ \A d \in Calls \ {c} : exec'[d] = exec[d]
    BY DEF TypeOK
  <1>2. call[c].ch \in Channels
    BY CallType DEF Naming, CallNamed
  <1>3. TypeOK'
    <2>1. exec' \in [Calls -> ExecState]
      BY DEF TypeOK
    <2>2. up' \in [Channels -> Seq(UpFrame)]
      <3>1. CASE up' = up
        BY <3>1 DEF TypeOK, UpFrame
      <3>2. ASSUME NEW f \in UpFrame, up' = [up EXCEPT ![call[c].ch] = Append(@, f)]
            PROVE  up' \in [Channels -> Seq(UpFrame)]
        <4>1. up \in [Channels -> Seq(UpFrame)] /\ up[call[c].ch] \in Seq(UpFrame)
          BY <1>2 DEF TypeOK, UpFrame
        <4>2. Append(up[call[c].ch], f) \in Seq(UpFrame)
          BY <4>1
        <4> QED
          BY <4>1, <4>2, <3>2, <1>2
      <3> QED
        BY <3>1, <3>2
    <2> QED
      BY <2>1, <2>2 DEF TypeOK, UpFrame
  <1>4. \A d \in Calls : CallMove(call[d], call'[d], exec[d], d)
    BY MoveSame
  <1>5. \A d \in Calls : ExecMove(exec[d], exec'[d], call[d])
    BY <1>1, MoveSame
  <1>6. \A d \in Calls : exec[d].pc = "none" => exec'[d].pc = "none"
    BY <1>1
  <1>7. ASSUME NEW h \in Channels
        PROVE  DownNamed(h)'
    <2>1. DownNamed(h) /\ Part(down[h], down'[h])
      BY LinkType, Parts DEF Naming
    <2>2. \A i \in 1 .. Len(down'[h]) : down'[h][i].of \in Calls
      BY LinkType
    <2> QED
      BY <2>1, <2>2, <1>3, <1>4, <1>6, DownShrinks
  <1>8. ASSUME NEW h \in Channels
        PROVE  UpStays(h)
    <2>1. CASE up'[h] = up[h]
      BY <2>1, UpSame
    <2>2. ASSUME NEW f \in UpFrame, f.of = c, f.id = call[c].id,
                 y.pc \notin Early, f.type = "ok" => y.ok, call[c].ch = h,
                 up'[h] = Append(up[h], f)
          PROVE  UpStays(h)
      <3>1. /\ Len(up'[h]) = Len(up[h]) + 1 /\ up'[h][Len(up[h]) + 1] = f
            /\ \A i \in 1 .. Len(up[h]) : up'[h][i] = up[h][i]
            /\ Len(up[h]) \in Nat
        BY <2>2, LinkType, Appended
      <3>2. \A i \in 1 .. Len(up'[h]) : i \in 1 .. Len(up[h]) \/ i = Len(up[h]) + 1
        BY <3>1
      <3> QED
        BY <3>1, <3>2, <2>2, <1>1 DEF UpStays
    <2>3. CASE up' = up
      BY <2>3, <2>1
    <2>4. ASSUME NEW f \in UpFrame, f.of = c, f.id = call[c].id,
                 y.pc \notin Early, f.type = "ok" => y.ok,
                 up' = [up EXCEPT ![call[c].ch] = Append(@, f)]
          PROVE  UpStays(h)
      <3>1. CASE call[c].ch = h
        <4>1. up'[h] = Append(up[h], f)
          BY <3>1, <2>4 DEF TypeOK
        <4> QED
          BY <4>1, <3>1, <2>2, <2>4
      <3>2. CASE call[c].ch # h
        <4>1. up'[h] = up[h]
          BY <3>2, <2>4 DEF TypeOK
        <4> QED
          BY <4>1, <2>1
      <3> QED
        BY <3>1, <3>2
    <2> QED
      BY <2>3, <2>4
  <1>9. InflightNamed'
    <2> SUFFICES ASSUME NEW i \in Ids, inflight'[i] # None
                 PROVE  call[inflight'[i]].id = i /\ exec'[inflight'[i]].pc # "none"
      BY DEF InflightNamed
    <2>1. CASE inflight'[i] = inflight[i]
      <3>1. inflight[i] \in Calls /\ call[inflight[i]].id = i
            /\ exec[inflight[i]].pc # "none"
        BY <2>1 DEF TypeOK, Naming, InflightNamed
      <3> QED
        BY <3>1, <2>1, <1>5 DEF ExecMove
    <2>2. CASE inflight'[i] = c /\ call[c].id = i
      BY <2>2, <1>1 DEF ExecMove
    <2> QED
      BY <2>1, <2>2
  <1>10. ChanOrdered' /\ \A h \in Channels : chan[h].cp \in {"live", "closed"}
                                  => chan'[h].cp \in {"live", "closed"}
    BY ChanSame
  <1>11. \A h \in Channels : shed'[h] # None =>
              call[shed'[h]].ch = h /\ exec[shed'[h]].pc \notin Early
    BY ShedSame
  <1> QED
    BY <1>3, <1>4, <1>5, <1>7, <1>8, <1>9, <1>10, <1>11, NamedStep

\* What the invariant says of a command that is executed.
LEMMA Executed ==
    ASSUME TypeOK, Naming, NEW c \in Calls, exec[c].pc # "none"
    PROVE  /\ call[c].ch \in Channels /\ call[c].ch # None /\ call[c].id \in Ids
           /\ exec[c] \in ExecState
           /\ exec[c].pc \in Early => ~exec[c].ok /\ exec[c].sent = 0
           /\ \A t \in {"ok", "error", "data", "eof", "fault"}, n \in 0 .. Chunks :
                 Frame(t, call[c].id, c, n) \in UpFrame
  <1>1. call[c].ch # None
    BY DEF Naming, CallNamed
  <1>2. exec[c].pc \in Early => ~exec[c].ok /\ exec[c].sent = 0
    BY DEF Naming, CallNamed
  <1> QED
    BY <1>1, <1>2, CallFrames, CallType

LEMMA ExecuteStartNames ==
    ASSUME TypeOK, Naming, NEW c \in Calls, ExecuteStart(c)
    PROVE  TypeOK' /\ Naming'
  <1> DEFINE y == [exec[c] EXCEPT !.pc = "running"]
  <1>1. /\ exec[c].pc = "spawned" /\ up' = up
        /\ inflight' = [inflight EXCEPT ![call[c].id] = c]
        /\ UNCHANGED <<chan, registry, down, nextID, shed, call>>
    BY DEF ExecuteStart
  <1>2. /\ call[c].ch # None /\ call[c].id \in Ids /\ exec[c] \in ExecState
        /\ ~exec[c].ok /\ exec[c].sent = 0
    BY <1>1, Executed DEF Early
  <1>3. /\ y \in ExecState /\ y.pc = "running" /\ y.ok = exec[c].ok
        /\ y.sent = exec[c].sent
    BY <1>2 DEF ExecState
  <1>4. exec' = [exec EXCEPT ![c] = y]
    BY DEF ExecuteStart, TypeOK
  <1> HIDE DEF y
  <1>5. ExecMove(exec[c], y, call[c])
    BY <1>1, <1>2, <1>3 DEF ExecMove, Early
  <1>6. /\ inflight' \in [Ids -> Calls \cup {None}]
        /\ \A i \in Ids : \/ inflight'[i] \in {inflight[i], None}
                          \/ inflight'[i] = c /\ call[c].id = i
    BY <1>1, <1>2 DEF TypeOK
  <1> QED
    BY <1>1, <1>3, <1>4, <1>5, <1>6, ExecSteps

\* The goroutine goes on after it has sent a frame, or failed to.
LEMMA SentNames ==
    ASSUME TypeOK, Naming, NEW c \in Calls, NEW y \in ExecState,
           exec[c].pc \in {"running", "pumping"}, y.pc \in {"pumping", "ending"},
           exec[c].ok => y.ok,
           exec' = [exec EXCEPT ![c] = y],
           UNCHANGED <<chan, registry, down, nextID, shed, call, inflight>>,
           \/ up' = up
           \/ \E t \in {"ok", "error", "data", "eof", "fault"}, n \in 0 .. Chunks :
                 Send(c, t, n) /\ (t = "ok" => y.ok)
    PROVE  TypeOK' /\ Naming'
  <1>1. call[c].ch # None
    BY Executed
  <1>2. ExecMove(exec[c], y, call[c]) /\ y.pc \notin Early
    BY <1>1 DEF ExecMove, Early
  <1>3. /\ inflight' \in [Ids -> Calls \cup {None}]
        /\ \A i \in Ids : inflight'[i] \in {inflight[i], None}
    BY DEF TypeOK
  <1>4. \/ up' = up
        \/ \E f \in UpFrame : /\ f.of = c /\ f.id = call[c].id
                              /\ y.pc \notin Early /\ (f.type = "ok" => y.ok)
                              /\ up' = [up EXCEPT ![call[c].ch] = Append(@, f)]
    <2> SUFFICES ASSUME NEW t \in {"ok", "error", "data", "eof", "fault"},
                        NEW n \in 0 .. Chunks, Send(c, t, n), t = "ok" => y.ok,
                        up' # up
                 PROVE  \E f \in UpFrame :
                            /\ f.of = c /\ f.id = call[c].id
                            /\ y.pc \notin Early /\ (f.type = "ok" => y.ok)
                            /\ up' = [up EXCEPT ![call[c].ch] = Append(@, f)]
      OBVIOUS
    <2> DEFINE f == Frame(t, call[c].id, c, n)
    <2>1. f \in UpFrame
      BY Executed
    <2>2. f.of = c /\ f.id = call[c].id /\ f.type = t
      BY DEF Frame
    <2>3. up' = [up EXCEPT ![call[c].ch] = Append(@, f)]
      BY DEF Send
    <2> HIDE DEF f
    <2> QED
      BY <2>1, <2>2, <2>3, <1>2
  <1> QED
    BY <1>2, <1>3, <1>4, ExecSteps

LEMMA ExecuteResultNames ==
    ASSUME TypeOK, Naming, NEW c \in Calls, NEW ok \in BOOLEAN, ExecuteResult(c, ok)
    PROVE  TypeOK' /\ Naming'
  <1> DEFINE pc == IF ok /\ c \in Streams THEN "pumping" ELSE "ending"
             y == [exec[c] EXCEPT !.pc = pc, !.ok = ok]
             t == IF ok THEN "ok" ELSE "error"
  <1>1. /\ exec[c].pc = "running" /\ Send(c, t, 0)
        /\ UNCHANGED <<chan, registry, down, nextID, shed, call, inflight>>
        /\ exec' = [exec EXCEPT ![c] = y]
    BY DEF ExecuteResult, TypeOK
  <1>2. exec[c] \in ExecState /\ ~exec[c].ok
    BY <1>1, Executed DEF Early
  <1>3. pc \in {"pumping", "ending"} /\ t \in {"ok", "error"} /\ (t = "ok" => ok)
    OBVIOUS
  <1> HIDE DEF pc, t
  <1>4. y \in ExecState /\ y.pc = pc /\ y.ok = ok
    BY <1>2, <1>3 DEF ExecState
  <1> HIDE DEF y
  <1>5. 0 \in 0 .. Chunks
    BY NothingRead
  <1> QED
    BY <1>1, <1>2, <1>3, <1>4, <1>5, SentNames

LEMMA PumpChunkNames ==
    ASSUME TypeOK, Naming, NEW c \in Calls, PumpChunk(c)
    PROVE  TypeOK' /\ Naming'
  <1> DEFINE n == IF c \in Follows THEN 0 ELSE exec[c].sent + 1
             y == [exec[c] EXCEPT !.sent = n]
  <1>1. /\ exec[c].pc = "pumping" /\ Send(c, "data", n)
        /\ UNCHANGED <<chan, registry, down, nextID, shed, call, inflight>>
        /\ exec' = [exec EXCEPT ![c] = y] /\ (c \in Follows \/ exec[c].sent < Chunks)
    BY DEF PumpChunk, TypeOK
  <1>2. exec[c] \in ExecState /\ exec[c].sent \in 0 .. Chunks
    BY CallType
  <1>3. n \in 0 .. Chunks
    BY <1>1, <1>2, NothingRead
  <1> HIDE DEF n
  <1>4. y \in ExecState /\ y.pc = "pumping" /\ y.ok = exec[c].ok
    BY <1>1, <1>2, <1>3 DEF ExecState
  <1> HIDE DEF y
  <1> QED
    BY <1>1, <1>3, <1>4, SentNames

LEMMA PumpEndNames ==
    ASSUME TypeOK, Naming, NEW c \in Calls, PumpEnd(c)
    PROVE  TypeOK' /\ Naming'
  <1> DEFINE y == [exec[c] EXCEPT !.pc = "ending"]
  <1>1. /\ exec[c].pc = "pumping" /\ (Send(c, "eof", 0) \/ Send(c, "fault", 0))
        /\ UNCHANGED <<chan, registry, down, nextID, shed, call, inflight>>
        /\ exec' = [exec EXCEPT ![c] = y]
    BY DEF PumpEnd, TypeOK
  <1>2. exec[c] \in ExecState /\ 0 \in 0 .. Chunks
    BY CallType, NothingRead
  <1>3. y \in ExecState /\ y.pc = "ending" /\ y.ok = exec[c].ok
    BY <1>2 DEF ExecState
  <1> HIDE DEF y
  <1> QED
    BY <1>1, <1>2, <1>3, SentNames

LEMMA SendFailsNames ==
    ASSUME TypeOK, Naming, NEW c \in Calls, SendFails(c)
    PROVE  TypeOK' /\ Naming'
  <1> DEFINE y == [exec[c] EXCEPT !.pc = "ending"]
  <1>1. /\ exec[c].pc \in {"running", "pumping"} /\ up' = up
        /\ UNCHANGED <<chan, registry, down, nextID, shed, call, inflight>>
        /\ exec' = [exec EXCEPT ![c] = y]
    BY DEF SendFails, TypeOK
  <1>2. exec[c] \in ExecState
    BY CallType
  <1>3. y \in ExecState /\ y.pc = "ending" /\ y.ok = exec[c].ok
    BY <1>2 DEF ExecState
  <1> HIDE DEF y
  <1> QED
    BY <1>1, <1>3, SentNames

LEMMA ExecuteEndNames ==
    ASSUME TypeOK, Naming, NEW c \in Calls, ExecuteEnd(c)
    PROVE  TypeOK' /\ Naming'
  <1> DEFINE y == [exec[c] EXCEPT !.pc = "done", !.cancelled = TRUE, !.sent = 0]
  <1>1. /\ exec[c].pc = "ending" /\ up' = up
        /\ inflight' = [inflight EXCEPT ![call[c].id] = None]
        /\ UNCHANGED <<chan, registry, down, nextID, shed, call>>
    BY DEF ExecuteEnd
  <1>2. /\ call[c].ch # None /\ call[c].id \in Ids /\ exec[c] \in ExecState
        /\ 0 \in 0 .. Chunks
    BY <1>1, Executed, NothingRead
  <1>3. y \in ExecState /\ y.pc = "done" /\ y.ok = exec[c].ok
    BY <1>2 DEF ExecState
  <1>4. exec' = [exec EXCEPT ![c] = y]
    BY DEF ExecuteEnd, TypeOK
  <1> HIDE DEF y
  <1>5. ExecMove(exec[c], y, call[c])
    BY <1>1, <1>2, <1>3 DEF ExecMove, Early
  <1>6. /\ inflight' \in [Ids -> Calls \cup {None}]
        /\ \A i \in Ids : inflight'[i] \in {inflight[i], None}
    BY <1>1, <1>2 DEF TypeOK
  <1> QED
    BY <1>1, <1>3, <1>4, <1>5, <1>6, ExecSteps

\* The read loop of the agent takes a frame.
LEMMA AgentReadSteps ==
    ASSUME TypeOK, Naming, NEW h \in Channels, down[h] # <<>>,
           down' = [down EXCEPT ![h] = Tail(@)],
           exec' \in [Calls -> ExecState],
           \A d \in Calls : ExecMove(exec[d], exec'[d], call[d]),
           \A d \in Calls : exec[d].pc = "none" /\ exec'[d].pc # "none" =>
              down[h][1].type = "cmd" /\ down[h][1].of = d,
           UNCHANGED <<chan, registry, up, nextID, shed, call, inflight>>
    PROVE  TypeOK' /\ Naming'
  <1>1. /\ down[h] \in Seq(FrameState({"cmd", "cancel"})) /\ Len(down[h]) \in Nat
        /\ down'[h] = Tail(down[h]) /\ down' \in [Channels -> Seq(FrameState({"cmd", "cancel"}))]
        /\ \A g \in Channels : g # h => down'[g] = down[g]
    <2>1. down[h] \in Seq(FrameState({"cmd", "cancel"})) /\ Len(down[h]) \in Nat
      BY LinkType
    <2>2. Tail(down[h]) \in Seq(FrameState({"cmd", "cancel"}))
      BY <2>1, Tailed
    <2> QED
      BY <2>1, <2>2 DEF TypeOK
  <1>2. TypeOK'
    BY <1>1 DEF TypeOK
  <1>3. \A d \in Calls : CallMove(call[d], call'[d], exec[d], d)
    BY MoveSame
  <1>4. ASSUME NEW g \in Channels
        PROVE  DownNamed(g)'
    <2>1. DownNamed(g) /\ DownNamed(h)
      BY DEF Naming
    <2>2. Part(down[g], down'[g])
      BY <1>1, LinkType, Parts
    <2>3. ASSUME NEW i \in 1 .. Len(down'[g]), down'[g][i].type = "cmd",
                 exec[down'[g][i].of].pc = "none"
          PROVE  exec'[down'[g][i].of].pc = "none"
      <3> DEFINE d == down'[g][i].of
      <3>1. CASE g = h
        <4>1. /\ Len(Tail(down[h])) = Len(down[h]) - 1
              /\ \A k \in 1 .. Len(down[h]) - 1 : Tail(down[h])[k] = down[h][k + 1]
          BY <1>1, Tailed
        <4>2. down'[g][i] = down[h][i + 1] /\ i + 1 \in 1 .. Len(down[h]) /\ i + 1 # 1
          BY <3>1, <1>1, <4>1
        <4>3. 1 \in 1 .. Len(down[h]) /\ d \in Calls
          BY <4>2, <1>1, LinkType
        <4>4. ~(down[h][1].type = "cmd" /\ down[h][1].of = d)
          BY <4>2, <4>3, <2>1, <2>3 DEF DownNamed
        <4> QED
          BY <4>3, <4>4, <2>3
      <3>2. CASE g # h
        <4>1. down'[g] = down[g]
          BY <3>2, <1>1
        <4>2. call[d].ch = g /\ d \in Calls
          BY <4>1, <2>1, LinkType DEF DownNamed
        <4>3. 1 \in 1 .. Len(down[h])
          BY <1>1, Tailed
        <4>4. call[down[h][1].of].ch = h
          BY <4>3, <2>1 DEF DownNamed
        <4> QED
          BY <4>2, <4>4, <3>2, <2>3
      <3> QED
        BY <3>1, <3>2
    <2> QED
      BY <2>1, <2>2, <2>3, <1>2, <1>3, DownShrinks
  <1>5. ChanOrdered' /\ \A g \in Channels : chan[g].cp \in {"live", "closed"}
                                  => chan'[g].cp \in {"live", "closed"}
    BY ChanSame
  <1>6. \A g \in Channels : UpStays(g)
    BY UpSame
  <1>7. InflightNamed'
    BY <1>3, InflightSame
  <1>8. \A g \in Channels : shed'[g] # None =>
              call[shed'[g]].ch = g /\ exec[shed'[g]].pc \notin Early
    BY ShedSame
  <1> QED
    BY <1>2, <1>3, <1>4, <1>5, <1>6, <1>7, <1>8, NamedStep

LEMMA ReceiveCommandNames ==
    ASSUME TypeOK, Naming, NEW h \in Channels, ReceiveCommand(h)
    PROVE  /\ TypeOK' /\ Naming'
           /\ \E c \in Calls : exec[c].pc = "none" /\ exec' = [exec EXCEPT ![c].pc = "spawned"]
  <1>1. /\ down[h] # <<>> /\ Head(down[h]).type = "cmd"
        /\ down' = [down EXCEPT ![h] = Tail(@)]
        /\ exec' = [exec EXCEPT ![Head(down[h]).of].pc = "spawned"]
        /\ UNCHANGED <<chan, registry, up, nextID, shed, call, inflight>>
    BY DEF ReceiveCommand, AgentReads
  <1> DEFINE c == down[h][1].of
             y == [exec[c] EXCEPT !.pc = "spawned"]
  <1>2. Head(down[h]) = down[h][1] /\ 1 \in 1 .. Len(down[h]) /\ c \in Calls
    <2>1. Head(down[h]) = down[h][1] /\ 1 \in 1 .. Len(down[h])
      BY <1>1, LinkType, Tailed
    <2> QED
      BY <2>1, LinkType
  <1>3. /\ call[c].ch = h /\ call[c].pc \notin {"idle", "writing"}
        /\ exec[c].pc = "none" /\ h # None
    BY <1>1, <1>2, ChannelAssumption DEF Naming, DownNamed
  <1>4. exec[c] \in ExecState /\ ~exec[c].ok /\ exec[c].sent = 0
    BY <1>2, <1>3, CallType DEF Naming, CallNamed, Early
  <1>5. /\ y \in ExecState /\ y.pc = "spawned" /\ y.ok = exec[c].ok
        /\ y.sent = exec[c].sent
    BY <1>4 DEF ExecState
  <1>6. exec' = [exec EXCEPT ![c] = y]
    BY <1>1, <1>2 DEF TypeOK
  <1>7. down[h][1].type = "cmd" /\ exec' = [exec EXCEPT ![c].pc = "spawned"]
    BY <1>1, <1>2
  <1> HIDE DEF y, c
  <1>8. exec'[c] = y /\ \A d \in Calls \ {c} : exec'[d] = exec[d]
    BY <1>2, <1>6 DEF TypeOK
  <1>9. ExecMove(exec[c], y, call[c])
    BY <1>3, <1>4, <1>5 DEF ExecMove, Early
  <1>10. \A d \in Calls : ExecMove(exec[d], exec'[d], call[d])
    BY <1>8, <1>9, MoveSame
  <1>11. exec' \in [Calls -> ExecState]
    BY <1>2, <1>5, <1>6 DEF TypeOK
  <1>12. \A d \in Calls : exec[d].pc = "none" /\ exec'[d].pc # "none" =>
              down[h][1].type = "cmd" /\ down[h][1].of = d
    BY <1>7, <1>8 DEF c
  <1>13. TypeOK' /\ Naming'
    BY <1>1, <1>10, <1>11, <1>12, AgentReadSteps
  <1> QED
    BY <1>2, <1>3, <1>7, <1>13

LEMMA ReceiveCancelNames ==
    ASSUME TypeOK, Naming, NEW h \in Channels, ReceiveCancel(h)
    PROVE  TypeOK' /\ Naming'
  <1>1. /\ down[h] # <<>> /\ down' = [down EXCEPT ![h] = Tail(@)]
        /\ UNCHANGED <<chan, registry, up, nextID, shed, call, inflight>>
    BY DEF ReceiveCancel, AgentReads
  <1> DEFINE c == inflight[Head(down[h]).id]
             y == [exec[c] EXCEPT !.cancelled = TRUE]
  <1>2. CASE exec' = exec
    <2>1. \A d \in Calls : ExecMove(exec[d], exec'[d], call[d])
      BY <1>2, MoveSame
    <2>2. exec' \in [Calls -> ExecState]
      BY <1>2 DEF TypeOK
    <2> QED
      BY <1>1, <1>2, <2>1, <2>2, AgentReadSteps
  <1>3. CASE c # None /\ exec' = [exec EXCEPT ![c].cancelled = TRUE]
    <2>1. c \in Calls
      <3>1. Head(down[h]) \in FrameState({"cmd", "cancel"})
        BY <1>1, LinkType, Tailed
      <3>2. Head(down[h]).id \in Ids
        BY <3>1 DEF FrameState
      <3> QED
        BY <3>2, <1>3 DEF TypeOK
    <2>2. exec[c] \in ExecState
      BY <2>1, CallType
    <2>3. /\ y \in ExecState /\ y.pc = exec[c].pc /\ y.ok = exec[c].ok
          /\ y.sent = exec[c].sent
      BY <2>2 DEF ExecState
    <2>4. exec' = [exec EXCEPT ![c] = y]
      BY <1>3, <2>1 DEF TypeOK
    <2>5. exec[c].pc # "none"
      <3>1. Head(down[h]) \in FrameState({"cmd", "cancel"})
        BY <1>1, LinkType, Tailed
      <3>2. Head(down[h]).id \in Ids
        BY <3>1 DEF FrameState
      <3> QED
        BY <3>2, <1>3 DEF Naming, InflightNamed
    <2> HIDE DEF y, c
    <2>6. exec'[c] = y /\ \A d \in Calls \ {c} : exec'[d] = exec[d]
      BY <2>1, <2>4 DEF TypeOK
    <2>7. call[c].ch # None
      BY <2>1, <2>5, Executed
    <2>8. ExecMove(exec[c], y, call[c])
      BY <2>1, <2>3, <2>7, MoveSame DEF ExecMove
    <2>9. \A d \in Calls : ExecMove(exec[d], exec'[d], call[d])
      BY <2>6, <2>8, MoveSame
    <2>10. exec' \in [Calls -> ExecState]
      BY <2>1, <2>3, <2>4 DEF TypeOK
    <2>11. \A d \in Calls : ~(exec[d].pc = "none" /\ exec'[d].pc # "none")
      BY <2>3, <2>5, <2>6
    <2> QED
      BY <1>1, <2>9, <2>10, <2>11, AgentReadSteps
  <1> QED
    BY <1>2, <1>3 DEF ReceiveCancel

-----------------------------------------------------------------------------
(* Names: the owner of the channel.                                        *)

\* A frame that is read finds the call it belongs to, or none.
LEMMA Delivered ==
    ASSUME TypeOK, Naming, NEW h \in Channels, up[h] # <<>>
    PROVE  LET f == up[h][1] IN
           /\ Head(up[h]) = f /\ f \in UpFrame /\ f.of \in Calls
           /\ f.n \in 0 .. Chunks
           /\ call[f.of].ch = h /\ call[f.of].id = f.id
           /\ exec[f.of].pc \notin Early /\ (f.type = "ok" => exec[f.of].ok)
           /\ Listed(h, f.id) \subseteq {f.of}
           /\ call[f.of].listed => Listed(h, f.id) = {f.of}
  <1> DEFINE f == up[h][1]
  <1>1. Head(up[h]) = f /\ 1 \in 1 .. Len(up[h]) /\ f \in UpFrame /\ f.of \in Calls
    <2>1. Head(up[h]) = f /\ 1 \in 1 .. Len(up[h])
      BY LinkType, Tailed
    <2> QED
      BY <2>1, LinkType
  <1>2. /\ call[f.of].ch = h /\ call[f.of].id = f.id /\ h # None
        /\ exec[f.of].pc \notin Early /\ (f.type = "ok" => exec[f.of].ok)
    BY <1>1, ChannelAssumption DEF Naming, UpNamed
  <1>3. \A d \in Calls \ {f.of} : call[d].ch = h => call[d].id # f.id
    BY <1>1, <1>2 DEF Naming, CallNamed
  <1>4. f.n \in 0 .. Chunks
    BY <1>1 DEF UpFrame, FrameState
  <1> HIDE DEF f
  <1>5. Listed(h, f.id) \subseteq {f.of}
    BY <1>3 DEF Listed
  <1>6. call[f.of].listed => f.of \in Listed(h, f.id)
    BY <1>1, <1>2 DEF Listed
  <1> QED
    BY <1>1, <1>2, <1>4, <1>5, <1>6 DEF f

\* The read loop of the owner takes a frame.
LEMMA OwnerReadSteps ==
    ASSUME TypeOK, Naming, NEW h \in Channels, up[h] # <<>>,
           up' = [up EXCEPT ![h] = Tail(@)],
           call' \in [Calls -> CallState],
           \A d \in Calls : Len(call'[d].chunks) <= Buffer,
           \A d \in Calls : CallMove(call[d], call'[d], exec[d], d),
           shed' \in [Channels -> Streams \cup {None}],
           \A g \in Channels : \/ shed'[g] \in {shed[g], None}
                               \/ call[shed'[g]].ch = g /\ exec[shed'[g]].pc \notin Early,
           UNCHANGED <<chan, registry, down, nextID, exec, inflight>>
    PROVE  TypeOK' /\ Naming'
  <1>1. /\ up[h] \in Seq(UpFrame) /\ up'[h] = Tail(up[h])
        /\ up' \in [Channels -> Seq(UpFrame)]
        /\ \A g \in Channels : g # h => up'[g] = up[g]
    <2>1. up[h] \in Seq(UpFrame) /\ up \in [Channels -> Seq(UpFrame)]
      BY LinkType DEF TypeOK, UpFrame
    <2>2. Tail(up[h]) \in Seq(UpFrame)
      BY <2>1, Tailed
    <2> QED
      BY <2>1, <2>2
  <1>2. TypeOK'
    BY <1>1 DEF TypeOK, UpFrame
  <1>3. \A d \in Calls : ExecMove(exec[d], exec'[d], call[d])
    BY MoveSame
  <1>4. ASSUME NEW g \in Channels
        PROVE  DownNamed(g)'
    <2>1. DownNamed(g) /\ Part(down[g], down'[g])
      BY LinkType, Parts DEF Naming
    <2> QED
      BY <2>1, <1>2, DownShrinks
  <1>5. ChanOrdered' /\ \A g \in Channels : chan[g].cp \in {"live", "closed"}
                                  => chan'[g].cp \in {"live", "closed"}
    BY ChanSame
  <1>6. ASSUME NEW g \in Channels
        PROVE  UpStays(g)
    <2>1. CASE g = h
      <3>1. /\ Len(up'[h]) = Len(up[h]) - 1 /\ Len(up[h]) \in Nat
            /\ \A i \in 1 .. Len(up[h]) - 1 : up'[h][i] = up[h][i + 1]
        BY <1>1, Tailed
      <3>2. \A i \in 1 .. Len(up'[h]) : i + 1 \in 1 .. Len(up[h]) /\ up'[h][i] = up[h][i + 1]
        BY <3>1
      <3> QED
        BY <3>2, <2>1 DEF UpStays
    <2>2. CASE g # h
      BY <2>2, <1>1, UpSame
    <2> QED
      BY <2>1, <2>2
  <1>7. InflightNamed'
    BY <1>3, InflightSame
  <1>8. \A g \in Channels : shed'[g] # None =>
              call[shed'[g]].ch = g /\ exec[shed'[g]].pc \notin Early
    BY ShedSame
  <1> QED
    BY <1>2, <1>3, <1>4, <1>5, <1>6, <1>7, <1>8, NamedStep

LEMMA DeliverResultNames ==
    ASSUME TypeOK, Naming, NEW h \in Channels, DeliverResult(h)
    PROVE  TypeOK' /\ Naming'
  <1> DEFINE f == up[h][1]
  <1>1. /\ up[h] # <<>> /\ Head(up[h]).type \in ResultTypes
        /\ up' = [up EXCEPT ![h] = Tail(@)]
        /\ UNCHANGED <<chan, registry, down, nextID, shed, exec, inflight>>
    BY DEF DeliverResult
  <1>2. /\ Head(up[h]) = f /\ f.of \in Calls /\ exec[f.of].pc \notin Early
        /\ f.type = "ok" => exec[f.of].ok
        /\ Listed(h, f.id) \subseteq {f.of}
    BY <1>1, Delivered
  <1>3. call' = [c \in Calls |->
                  IF c \in Listed(h, f.id) /\ call[c].res = "none"
                  THEN [call[c] EXCEPT !.res = f.type, !.from = f.of]
                  ELSE call[c]]
    BY <1>2 DEF DeliverResult
  <1>4. f.type \in ResultTypes
    BY <1>1, <1>2
  <1> HIDE DEF f
  <1>5. ASSUME NEW d \in Calls
        PROVE  /\ call'[d] \in CallState /\ CallMove(call[d], call'[d], exec[d], d)
               /\ Len(call'[d].chunks) <= Buffer
    <2>1. /\ CallMove(call[d], call[d], exec[d], d) /\ call[d] \in CallState
          /\ Len(call[d].chunks) <= Buffer
      BY MoveSame, CallType DEF TypeOK
    <2>2. CASE d \in Listed(h, f.id) /\ call[d].res = "none"
      <3> DEFINE x == [call[d] EXCEPT !.res = f.type, !.from = f.of]
      <3>1. d = f.of /\ call'[d] = x /\ call[d].listed
        BY <2>2, <1>2, <1>3 DEF Listed
      <3>2. /\ x \in CallState /\ x.chunks = call[d].chunks /\ x.pc = call[d].pc
            /\ x.ch = call[d].ch /\ x.id = call[d].id /\ x.listed = call[d].listed
            /\ x.res = f.type /\ x.from = f.of /\ x.got = call[d].got
            /\ x.end = call[d].end
        BY <2>1, <3>1, <1>4 DEF CallState
      <3>3. call[d].pc # "idle"
        BY <3>1 DEF Naming, CallNamed
      <3> HIDE DEF x
      <3>4. CallMove(call[d], x, exec[d], d)
        BY <2>1, <3>1, <3>2, <3>3, <1>2 DEF CallMove
      <3> QED
        BY <2>1, <3>1, <3>2, <3>4
    <2>3. CASE ~(d \in Listed(h, f.id) /\ call[d].res = "none")
      BY <2>1, <2>3, <1>3
    <2> QED
      BY <2>2, <2>3
  <1>6. call' \in [Calls -> CallState]
    BY <1>3, <1>5
  <1>7. shed' \in [Channels -> Streams \cup {None}]
    BY <1>1 DEF TypeOK
  <1> QED
    BY <1>1, <1>5, <1>6, <1>7, OwnerReadSteps

\* What DeliverChunk does to the call the chunk belongs to.
LEMMA DeliverChunkRecord ==
    ASSUME TypeOK, Naming, NEW h \in Channels, DeliverChunk(h)
    PROVE  LET f == up[h][1]
               c == f.of
               q == call[c].chunks
           IN  /\ up[h] # <<>> /\ f.type \in ChunkTypes /\ up'[h] = Tail(up[h])
               /\ \A g \in Channels : g # h => up'[g] = up[g]
               /\ \A d \in Calls \ {c} : call'[d] = call[d]
               /\ \A g \in Channels : g # h => shed'[g] = shed[g]
               /\ \/ /\ call[c].listed /\ c \in Streams /\ Len(q) < Buffer
                     /\ call'[c] = [call[c] EXCEPT !.chunks = Append(q, Chunk(f.type, f.n))]
                     /\ shed'[h] = None
                  \/ /\ call[c].listed /\ c \in Streams /\ call'[c] = call[c]
                     /\ shed'[h] = c
                  \/ /\ ~(call[c].listed /\ c \in Streams)
                     /\ call'[c] = call[c] /\ shed'[h] = None
  <1> DEFINE f == up[h][1]
             c == f.of
             q == call[c].chunks
             l == Listed(h, f.id) \cap Streams
             full == {d \in l : Full(d)}
  <1>1. up[h] # <<>> /\ Head(up[h]).type \in ChunkTypes /\ up' = [up EXCEPT ![h] = Tail(@)]
    BY DEF DeliverChunk
  <1>2. /\ Head(up[h]) = f /\ c \in Calls /\ Listed(h, f.id) \subseteq {c}
        /\ call[c].listed => Listed(h, f.id) = {c}
    BY <1>1, Delivered
  <1>3. /\ call' = [d \in Calls |->
                         IF d \in l \ full
                         THEN [call[d] EXCEPT !.chunks = Append(@, Chunk(f.type, f.n))]
                         ELSE call[d]]
        /\ shed' = [shed EXCEPT ![h] = IF full = {} THEN None
                                          ELSE CHOOSE d \in full : TRUE]
    BY <1>2 DEF DeliverChunk
  <1>4. /\ f.type \in ChunkTypes /\ up'[h] = Tail(up[h])
        /\ \A g \in Channels : g # h => up'[g] = up[g]
    BY <1>1, <1>2 DEF TypeOK
  <1>5. /\ \A g \in Channels : g # h => shed'[g] = shed[g]
        /\ shed'[h] = IF full = {} THEN None ELSE CHOOSE d \in full : TRUE
    BY <1>3 DEF TypeOK
  <1>6. l \subseteq {c} /\ full \subseteq l
    BY <1>2
  <1> HIDE DEF f
  <1>7. \A d \in Calls \ {c} : call'[d] = call[d]
    BY <1>3, <1>6
  <1>8. CASE c \in l \ full
    <2>1. call[c].listed /\ c \in Streams /\ full = {}
      BY <1>8, <1>6 DEF Listed
    <2>2. Len(q) < Buffer
      BY <1>8, <1>2, CallType, NothingRead DEF Full
    <2>3. call'[c] = [call[c] EXCEPT !.chunks = Append(q, Chunk(f.type, f.n))]
      BY <1>8, <1>2, <1>3
    <2>4. shed'[h] = None
      BY <2>1, <1>5
    <2> QED
      BY <2>1, <2>2, <2>3, <2>4, <1>1, <1>4, <1>5, <1>7 DEF f
  <1>9. CASE c \in full
    <2>1. call[c].listed /\ c \in Streams /\ full = {c}
      BY <1>9, <1>6 DEF Listed
    <2>2. call'[c] = call[c]
      BY <1>9, <1>2, <1>3
    <2>3. (CHOOSE d \in full : TRUE) \in full
      BY <1>9
    <2>4. shed'[h] = c
      BY <2>1, <2>3, <1>5
    <2> QED
      BY <2>1, <2>2, <2>4, <1>1, <1>4, <1>5, <1>7 DEF f
  <1>10. CASE c \notin l
    <2>1. ~(call[c].listed /\ c \in Streams)
      BY <1>10, <1>2
    <2>2. call'[c] = call[c] /\ full = {}
      BY <1>10, <1>2, <1>3, <1>6
    <2> QED
      BY <2>1, <2>2, <1>1, <1>4, <1>5, <1>7 DEF f
  <1> QED
    BY <1>6, <1>8, <1>9, <1>10

\* The record of a call with other chunks.
LEMMA Rechunked ==
    ASSUME TypeOK, NEW c \in Calls,
           NEW q \in Seq([type : ChunkTypes, n : 0 .. Chunks])
    PROVE  \E x \in CallState :
               /\ x = [call[c] EXCEPT !.chunks = q]
               /\ x.chunks = q /\ x.pc = call[c].pc /\ x.ch = call[c].ch
               /\ x.id = call[c].id /\ x.listed = call[c].listed
               /\ x.res = call[c].res /\ x.from = call[c].from
               /\ x.got = call[c].got /\ x.end = call[c].end
  <1> DEFINE x == [call[c] EXCEPT !.chunks = q]
  <1>1. call[c] \in CallState
    BY CallType
  <1>2. /\ x \in CallState /\ x.chunks = q /\ x.pc = call[c].pc /\ x.ch = call[c].ch
        /\ x.id = call[c].id /\ x.listed = call[c].listed
        /\ x.res = call[c].res /\ x.from = call[c].from
        /\ x.got = call[c].got /\ x.end = call[c].end
    BY <1>1 DEF CallState
  <1> QED
    BY <1>2

LEMMA DeliverChunkNames ==
    ASSUME TypeOK, Naming, NEW h \in Channels, DeliverChunk(h)
    PROVE  TypeOK' /\ Naming'
  <1> DEFINE f == up[h][1]
             c == f.of
             q == call[c].chunks
             p == Append(q, Chunk(f.type, f.n))
  <1>1. /\ up[h] # <<>> /\ up' = [up EXCEPT ![h] = Tail(@)]
        /\ UNCHANGED <<chan, registry, down, nextID, exec, inflight>>
    BY DEF DeliverChunk
  <1>2. /\ f.type \in ChunkTypes
        /\ \A d \in Calls \ {c} : call'[d] = call[d]
        /\ \A g \in Channels : g # h => shed'[g] = shed[g]
        /\ \/ /\ call[c].listed /\ c \in Streams /\ Len(q) < Buffer
              /\ call'[c] = [call[c] EXCEPT !.chunks = p]
              /\ shed'[h] = None
           \/ /\ call[c].listed /\ c \in Streams /\ call'[c] = call[c]
              /\ shed'[h] = c
           \/ /\ ~(call[c].listed /\ c \in Streams)
              /\ call'[c] = call[c] /\ shed'[h] = None
    BY DeliverChunkRecord
  <1>3. /\ c \in Calls /\ exec[c].pc \notin Early /\ f.n \in 0 .. Chunks /\ call[c].ch = h
    BY <1>1, Delivered
  <1>4. /\ q \in Seq([type : ChunkTypes, n : 0 .. Chunks]) /\ Len(q) \in Nat
        /\ p \in Seq([type : ChunkTypes, n : 0 .. Chunks]) /\ Len(p) = Len(q) + 1
    <2>1. q \in Seq([type : ChunkTypes, n : 0 .. Chunks])
      BY <1>3, CallType
    <2> DEFINE k == Chunk(f.type, f.n)
    <2>2. k \in [type : ChunkTypes, n : 0 .. Chunks]
      BY <1>2, <1>3 DEF Chunk
    <2> HIDE DEF k, q
    <2>3. /\ Append(q, k) \in Seq([type : ChunkTypes, n : 0 .. Chunks])
          /\ Len(Append(q, k)) = Len(q) + 1 /\ Len(q) \in Nat
      BY <2>1, <2>2, Appended
    <2> QED
      BY <2>1, <2>3 DEF k
  <1>5. /\ CallMove(call[c], call'[c], exec[c], c) /\ call'[c] \in CallState
        /\ Len(call'[c].chunks) <= Buffer
    <2>1. CASE call'[c] = call[c]
      BY <2>1, <1>3, MoveSame, CallType DEF TypeOK
    <2>2. CASE /\ call[c].listed /\ Len(q) < Buffer
               /\ call'[c] = [call[c] EXCEPT !.chunks = p]
      <3>1. PICK x \in CallState :
               /\ x = [call[c] EXCEPT !.chunks = p]
               /\ x.chunks = p /\ x.pc = call[c].pc /\ x.ch = call[c].ch
               /\ x.id = call[c].id /\ x.listed = call[c].listed
               /\ x.res = call[c].res /\ x.from = call[c].from
               /\ x.got = call[c].got /\ x.end = call[c].end
        BY <1>3, <1>4, Rechunked
      <3>2. call'[c] = x
        BY <2>2, <3>1
      <3>3. call[c].pc # "idle" /\ CallMove(call[c], call[c], exec[c], c)
        BY <2>2, <1>3, MoveSame DEF Naming, CallNamed
      <3> HIDE DEF p, q, c
      <3>4. CallMove(call[c], x, exec[c], c)
        BY <3>1, <3>3, <1>3 DEF CallMove
      <3>5. Len(x.chunks) <= Buffer
        BY <3>1, <1>4, <2>2, NothingRead
      <3> QED
        BY <3>2, <3>4, <3>5
    <2> QED
      BY <2>1, <2>2, <1>2
  <1> HIDE DEF p, q, c, f
  <1>6. \A d \in Calls : /\ CallMove(call[d], call'[d], exec[d], d)
                         /\ call'[d] \in CallState /\ Len(call'[d].chunks) <= Buffer
    BY <1>2, <1>5, MoveSame, CallType DEF TypeOK
  <1>7. call' \in [Calls -> CallState]
    <2>1. call' = [d \in Calls |-> call'[d]]
      BY DEF DeliverChunk
    <2> QED
      BY <2>1, <1>6
  <1>8. shed' \in [Channels -> Streams \cup {None}]
    <2>1. shed' = [shed EXCEPT ![h] = shed'[h]]
      BY DEF DeliverChunk, TypeOK
    <2>2. shed'[h] \in Streams \cup {None}
      BY <1>2
    <2> QED
      BY <2>1, <2>2 DEF TypeOK
  <1>9. \A g \in Channels : \/ shed'[g] \in {shed[g], None}
                            \/ call[shed'[g]].ch = g /\ exec[shed'[g]].pc \notin Early
    BY <1>2, <1>3
  <1> QED
    BY <1>1, <1>6, <1>7, <1>8, <1>9, OwnerReadSteps

\* What ShedChunk does to the stream.
LEMMA ShedChunkRecord ==
    ASSUME TypeOK, Naming, NEW h \in Channels, ShedChunk(h)
    PROVE  \E c \in Streams, x \in CallState :
               LET q == call[c].chunks IN
               /\ c = shed[h] /\ call[c].ch = h /\ exec[c].pc \notin Early
               /\ call' = [call EXCEPT ![c] = x]
               /\ shed' = [shed EXCEPT ![h] = None]
               /\ down' = Sent(h, CancelFrame(c))
               /\ x.chunks = Append(IF q = <<>> THEN q ELSE Tail(q), Chunk("fault", 0))
               /\ x.pc = call[c].pc /\ x.ch = call[c].ch
               /\ x.id = call[c].id /\ x.listed = call[c].listed
               /\ x.res = call[c].res /\ x.from = call[c].from
               /\ x.got = call[c].got /\ x.end = call[c].end
               /\ Len(x.chunks) <= Buffer /\ Len(x.chunks) \in Nat
               /\ Len(x.chunks) >= 1
               /\ x.chunks[Len(x.chunks)].type = "fault"
               /\ \A i \in 1 .. Len(x.chunks) : i # Len(x.chunks) =>
                     \E j \in 1 .. Len(q) : x.chunks[i] = q[j] /\ j = i + 1
  <1> DEFINE c == shed[h]
             q == call[c].chunks
             t == IF q = <<>> THEN q ELSE Tail(q)
             k == Chunk("fault", 0)
             p == Append(t, k)
  <1>1. /\ c # None /\ down' = Sent(h, CancelFrame(c))
        /\ shed' = [shed EXCEPT ![h] = None]
        /\ call' = [call EXCEPT ![c].chunks =
                  Append(IF @ = <<>> THEN @ ELSE Tail(@), Chunk("fault", 0))]
    BY DEF ShedChunk
  <1>2. c \in Streams /\ c \in Calls /\ call[c].ch = h /\ exec[c].pc \notin Early
    BY <1>1, ChannelAssumption DEF Naming, ChannelKept, TypeOK
  <1>3. /\ q \in Seq([type : ChunkTypes, n : 0 .. Chunks]) /\ Len(q) \in Nat
        /\ Len(q) <= Buffer /\ k \in [type : ChunkTypes, n : 0 .. Chunks]
        /\ k.type = "fault"
    <2>1. q \in Seq([type : ChunkTypes, n : 0 .. Chunks]) /\ Len(q) \in Nat
      BY <1>2, CallType
    <2>2. Len(q) <= Buffer
      BY <1>2 DEF TypeOK
    <2>3. k \in [type : ChunkTypes, n : 0 .. Chunks] /\ k.type = "fault"
      BY NothingRead DEF Chunk, ChunkTypes
    <2> QED
      BY <2>1, <2>2, <2>3
  <1>4. call' = [call EXCEPT ![c] = [call[c] EXCEPT !.chunks = p]]
    BY <1>1, <1>2 DEF TypeOK
  <1> HIDE DEF k, c, q
  <1>5. /\ t \in Seq([type : ChunkTypes, n : 0 .. Chunks])
        /\ Len(t) + 1 <= Buffer /\ Len(t) \in Nat
        /\ \A i \in 1 .. Len(t) : i + 1 \in 1 .. Len(q) /\ t[i] = q[i + 1]
    <2>1. CASE q = <<>>
      <3>1. t = <<>>
        BY <2>1
      <3> HIDE DEF t
      <3> QED
        BY <3>1, NothingRead
    <2>2. CASE q # <<>>
      <3>1. /\ t = Tail(q) /\ t \in Seq([type : ChunkTypes, n : 0 .. Chunks])
            /\ Len(t) = Len(q) - 1
            /\ \A i \in 1 .. Len(q) - 1 : t[i] = q[i + 1]
        BY <2>2, <1>3, Tailed
      <3> HIDE DEF t
      <3>2. Len(t) \in Nat
        BY <3>1
      <3>3. \A i \in 1 .. Len(t) : i + 1 \in 1 .. Len(q) /\ t[i] = q[i + 1]
        BY <3>1, <3>2, <1>3
      <3> QED
        BY <3>1, <3>2, <3>3, <1>3, NothingRead
    <2> QED
      BY <2>1, <2>2
  <1> HIDE DEF t
  <1>6. /\ p \in Seq([type : ChunkTypes, n : 0 .. Chunks]) /\ Len(p) = Len(t) + 1
        /\ p[Len(t) + 1] = k /\ \A i \in 1 .. Len(t) : p[i] = t[i]
    BY <1>3, <1>5, Appended
  <1> HIDE DEF p
  <1>7. PICK x \in CallState :
               /\ x = [call[c] EXCEPT !.chunks = p]
               /\ x.chunks = p /\ x.pc = call[c].pc /\ x.ch = call[c].ch
               /\ x.id = call[c].id /\ x.listed = call[c].listed
               /\ x.res = call[c].res /\ x.from = call[c].from
               /\ x.got = call[c].got /\ x.end = call[c].end
    BY <1>2, <1>6, Rechunked
  <1>8. \A i \in 1 .. Len(p) : i # Len(p) => \E j \in 1 .. Len(q) : p[i] = q[j] /\ j = i + 1
    BY <1>5, <1>6
  <1>9. /\ Len(p) <= Buffer /\ Len(p) \in Nat /\ Len(p) >= 1 /\ p[Len(p)].type = "fault"
    BY <1>3, <1>5, <1>6
  <1>10. p = Append(IF q = <<>> THEN q ELSE Tail(q), Chunk("fault", 0))
    BY DEF p, t, k
  <1>11. call' = [call EXCEPT ![c] = x]
    BY <1>4, <1>7
  <1>12. c = shed[h] /\ q = call[c].chunks
    BY DEF c, q
  <1> c \in Streams
    BY <1>2
  <1> WITNESS c \in Streams, x \in CallState
  <1> QED
    BY <1>1, <1>2, <1>7, <1>8, <1>9, <1>10, <1>11, <1>12

LEMMA ShedChunkNames ==
    ASSUME TypeOK, Naming, NEW h \in Channels, ShedChunk(h)
    PROVE  TypeOK' /\ Naming'
  <1>1. PICK c \in Streams, x \in CallState :
               /\ c = shed[h] /\ call[c].ch = h /\ exec[c].pc \notin Early
               /\ call' = [call EXCEPT ![c] = x]
               /\ shed' = [shed EXCEPT ![h] = None]
               /\ down' = Sent(h, CancelFrame(c))
               /\ x.pc = call[c].pc /\ x.ch = call[c].ch
               /\ x.id = call[c].id /\ x.listed = call[c].listed
               /\ x.res = call[c].res /\ x.from = call[c].from
               /\ x.got = call[c].got /\ x.end = call[c].end
               /\ Len(x.chunks) <= Buffer
    BY ShedChunkRecord
  <1>2. c \in Calls /\ call[c].ch # None /\ call[c].pc \notin {"idle", "writing"}
    BY <1>1, ChannelAssumption DEF Naming, CallNamed, Early
  <1>3. CallMove(call[c], x, exec[c], c)
    BY <1>1, <1>2, MoveSame DEF CallMove
  <1> DEFINE f == CancelFrame(c)
  <1>4. f \in FrameState({"cmd", "cancel"})
    BY <1>2, CallFrames DEF CancelFrame
  <1>5. f.of = c /\ f.id = call[c].id /\ f.type = "cancel"
    BY DEF Frame, CancelFrame
  <1>6. down' = down \/ down' = [down EXCEPT ![call[c].ch] = Append(@, f)]
    BY <1>1 DEF Sent
  <1> HIDE DEF f
  <1>7. \/ down' = down
        \/ \E k \in FrameState({"cmd", "cancel"}) :
                 /\ k.of = c /\ k.id = call[c].id /\ call[c].ch \in Channels
                 /\ x.pc \notin {"idle", "writing"}
                 /\ k.type = "cmd" => exec[c].pc = "none" /\ call[c].pc = "writing"
                 /\ down' = [down EXCEPT ![call[c].ch] = Append(@, k)]
    BY <1>1, <1>2, <1>4, <1>5, <1>6
  <1>8. shed' \in [Channels -> Streams \cup {None}]
        /\ \A g \in Channels : shed'[g] \in {shed[g], None}
    BY <1>1 DEF TypeOK
  <1>9. UNCHANGED <<chan, registry, up, nextID, exec, inflight>>
    BY DEF ShedChunk
  <1> QED
    BY <1>1, <1>2, <1>3, <1>7, <1>8, <1>9, CallSteps

-----------------------------------------------------------------------------
(* Names: the connection.                                                  *)

LEMMA ChanSteps ==
    ASSUME TypeOK, Naming, ChanOrdered',
           chan' \in [Channels -> [cp : {"none", "accepted", "live", "closed"},
                                   ag : {"none", "live", "closed"}, wire : BOOLEAN]],
           registry' \in Channels \cup {None},
           \A h \in Channels : chan[h].cp \in {"live", "closed"}
                                  => chan'[h].cp \in {"live", "closed"},
           down' \in [Channels -> Seq(FrameState({"cmd", "cancel"}))],
           up' \in [Channels -> Seq(UpFrame)],
           \A h \in Channels : down'[h] \in {down[h], <<>>} /\ up'[h] \in {up[h], <<>>},
           shed' \in [Channels -> Streams \cup {None}],
           \A h \in Channels : shed'[h] \in {shed[h], None},
           exec' \in [Calls -> ExecState],
           \A c \in Calls : \/ exec'[c] = exec[c]
                            \/ /\ exec'[c].pc = exec[c].pc /\ exec'[c].ok = exec[c].ok
                               /\ exec'[c].sent = exec[c].sent /\ call[c].ch # None,
           UNCHANGED <<nextID, call, inflight>>
    PROVE  TypeOK' /\ Naming'
  <1>1. TypeOK'
    BY DEF TypeOK, UpFrame
  <1>2. \A c \in Calls : CallMove(call[c], call'[c], exec[c], c)
    BY MoveSame
  <1>3. \A c \in Calls : ExecMove(exec[c], exec'[c], call[c])
    BY MoveSame DEF ExecMove
  <1>4. \A c \in Calls : exec'[c].pc = exec[c].pc
    OBVIOUS
  <1>5. ASSUME NEW h \in Channels
        PROVE  DownNamed(h)'
    <2>1. DownNamed(h) /\ Part(down[h], down'[h])
      BY LinkType, Parts DEF Naming
    <2>2. \A i \in 1 .. Len(down'[h]) : down'[h][i].of \in Calls
      <3>1. CASE down'[h] = down[h]
        BY <3>1, LinkType
      <3>2. CASE down'[h] = <<>>
        BY <3>2
      <3> QED
        BY <3>1, <3>2
    <2> QED
      BY <2>1, <2>2, <1>1, <1>2, <1>4, DownShrinks
  <1>6. ASSUME NEW h \in Channels
        PROVE  UpStays(h)
    <2>1. CASE up'[h] = up[h]
      BY <2>1, UpSame
    <2>2. CASE up'[h] = <<>>
      BY <2>2 DEF UpStays
    <2> QED
      BY <2>1, <2>2
  <1>7. InflightNamed'
    BY <1>2, <1>3, InflightSame
  <1>8. \A h \in Channels : shed'[h] # None =>
              call[shed'[h]].ch = h /\ exec[shed'[h]].pc \notin Early
    BY ShedSame
  <1> QED
    BY <1>1, <1>2, <1>3, <1>5, <1>6, <1>7, <1>8, NamedStep

LEMMA LinksTyped ==
    ASSUME TypeOK
    PROVE  /\ down \in [Channels -> Seq(FrameState({"cmd", "cancel"}))]
           /\ up \in [Channels -> Seq(UpFrame)]
           /\ shed \in [Channels -> Streams \cup {None}]
           /\ exec \in [Calls -> ExecState]
           /\ registry \in Channels \cup {None}
           /\ <<>> \in Seq(FrameState({"cmd", "cancel"})) /\ <<>> \in Seq(UpFrame)
  <1>1. <<>> \in Seq(FrameState({"cmd", "cancel"})) /\ <<>> \in Seq(UpFrame)
    OBVIOUS
  <1> QED
    BY <1>1 DEF TypeOK, UpFrame

LEMMA DialNames ==
    ASSUME TypeOK, Naming, NEW h \in Channels, Dial(h)
    PROVE  TypeOK' /\ Naming'
  <1> DEFINE x == [cp |-> "accepted", ag |-> "live", wire |-> TRUE]
  <1>1. /\ chan' = [chan EXCEPT ![h] = x] /\ chan[h].cp = "none"
        /\ \A g \in Channels : g < h => chan[g].ag = "closed"
        /\ UNCHANGED <<registry, down, up, nextID, shed, call, exec, inflight>>
    BY DEF Dial
  <1>2. chan'[h] = x /\ \A g \in Channels : g # h => chan'[g] = chan[g]
    BY <1>1 DEF TypeOK
  <1>3. x.cp = "accepted" /\ x.ag = "live"
        /\ x \in [cp : {"none", "accepted", "live", "closed"},
                  ag : {"none", "live", "closed"}, wire : BOOLEAN]
    OBVIOUS
  <1> HIDE DEF x
  <1>4. \A g \in Channels : ChannelKept(g) /\ g \in Int
    <2>1. \A g \in Channels : g \in Int
      BY ChannelAssumption, FS_CardinalityType
    <2> QED
      BY <2>1 DEF Naming
  <1>5. \A g \in Channels : chan[g].cp # "none" => g < h
    <2> SUFFICES ASSUME NEW g \in Channels, chan[g].cp # "none", ~(g < h)
                 PROVE  FALSE
      OBVIOUS
    <2>1. h < g
      BY <1>1, <1>4
    <2>2. chan[h].ag = "closed"
      BY <2>1, <1>4 DEF ChannelKept
    <2> QED
      BY <2>2, <1>1, <1>4 DEF ChannelKept
  <1>6. ChanOrdered'
    <2> SUFFICES ASSUME NEW k \in Channels
                 PROVE  /\ chan'[k].cp = "none" <=> chan'[k].ag = "none"
                        /\ \A g \in Channels : g < k /\ chan'[k].cp # "none"
                              => chan'[g].ag = "closed"
                        /\ registry' = k => chan'[k].cp = "live"
      BY DEF ChanOrdered
    <2>1. CASE k = h
      <3>1. registry # h
        BY <1>1, <1>4 DEF ChannelKept
      <3>2. \A g \in Channels : g < h => g # h
        BY <1>4
      <3> QED
        BY <2>1, <3>1, <3>2, <1>1, <1>2, <1>3
    <2>2. CASE k # h
      <3>1. ChannelKept(k) /\ chan'[k] = chan[k]
        BY <2>2, <1>2, <1>4
      <3>2. chan[k].cp # "none" => ~(h < k)
        BY <1>4, <1>5
      <3> QED
        BY <3>1, <3>2, <1>1, <1>2 DEF ChannelKept
    <2> QED
      BY <2>1, <2>2
  <1>7. chan' \in [Channels -> [cp : {"none", "accepted", "live", "closed"},
                                ag : {"none", "live", "closed"}, wire : BOOLEAN]]
    BY <1>1, <1>3 DEF TypeOK
  <1>8. \A g \in Channels : chan[g].cp \in {"live", "closed"}
                                  => chan'[g].cp \in {"live", "closed"}
    BY <1>1, <1>2
  <1> QED
    BY <1>1, <1>6, <1>7, <1>8, LinksTyped, ChanSteps

\* The state of one connection moves forward.
LEMMA ChanMoves ==
    ASSUME TypeOK, Naming, NEW h \in Channels,
           NEW x \in [cp : {"live", "accepted", "none", "closed"}, ag : {"none", "live", "closed"},
                      wire : BOOLEAN],
           chan' = [chan EXCEPT ![h] = x],
           x.cp = "none" <=> chan[h].cp = "none",
           chan[h].cp \in {"live", "closed"} => x.cp \in {"live", "closed"},
           x.ag = chan[h].ag \/ (x.ag = "closed" /\ chan[h].ag # "none"),
           registry' \in {registry, h, None},
           registry' = h => x.cp = "live",
           down' \in [Channels -> Seq(FrameState({"cmd", "cancel"}))],
           up' \in [Channels -> Seq(UpFrame)],
           \A g \in Channels : down'[g] \in {down[g], <<>>} /\ up'[g] \in {up[g], <<>>},
           shed' \in [Channels -> Streams \cup {None}],
           \A g \in Channels : shed'[g] \in {shed[g], None},
           exec' \in [Calls -> ExecState],
           \A c \in Calls : \/ exec'[c] = exec[c]
                            \/ /\ exec'[c].pc = exec[c].pc /\ exec'[c].ok = exec[c].ok
                               /\ exec'[c].sent = exec[c].sent /\ call[c].ch # None,
           UNCHANGED <<nextID, call, inflight>>
    PROVE  TypeOK' /\ Naming'
  <1>1. chan'[h] = x /\ \A g \in Channels : g # h => chan'[g] = chan[g]
    BY DEF TypeOK
  <1>2. \A g \in Channels : ChannelKept(g) /\ g # None
    BY ChannelAssumption DEF Naming
  <1>3. ChanOrdered'
    <2> SUFFICES ASSUME NEW k \in Channels
                 PROVE  /\ chan'[k].cp = "none" <=> chan'[k].ag = "none"
                        /\ \A g \in Channels : g < k /\ chan'[k].cp # "none"
                              => chan'[g].ag = "closed"
                        /\ registry' = k => chan'[k].cp = "live"
      BY DEF ChanOrdered
    <2>1. ChannelKept(k) /\ ChannelKept(h)
      BY <1>2
    <2>2. chan'[k].cp = "none" <=> chan'[k].ag = "none"
      BY <2>1, <1>1 DEF ChannelKept
    <2>3. chan'[k].cp # "none" => chan[k].cp # "none"
      BY <1>1
    <2>4. \A g \in Channels : chan[g].ag = "closed" => chan'[g].ag = "closed"
      BY <1>1
    <2>5. registry' = k => chan'[k].cp = "live"
      BY <1>1, <1>2, <2>1 DEF ChannelKept
    <2> QED
      BY <2>1, <2>2, <2>3, <2>4, <2>5 DEF ChannelKept
  <1>4. chan' \in [Channels -> [cp : {"none", "accepted", "live", "closed"},
                                ag : {"none", "live", "closed"}, wire : BOOLEAN]]
    BY DEF TypeOK
  <1>5. registry' \in Channels \cup {None}
    BY DEF TypeOK
  <1>6. \A g \in Channels : chan[g].cp \in {"live", "closed"}
                                  => chan'[g].cp \in {"live", "closed"}
    BY <1>1
  <1> QED
    BY <1>3, <1>4, <1>5, <1>6, ChanSteps

LEMMA RegisterNames ==
    ASSUME TypeOK, Naming, NEW h \in Channels, Register(h)
    PROVE  TypeOK' /\ Naming'
  <1> DEFINE x == [chan[h] EXCEPT !.cp = "live"]
  <1>1. /\ chan' = [chan EXCEPT ![h] = x] /\ chan[h].cp = "accepted" /\ registry' = h
        /\ UNCHANGED <<down, up, nextID, shed, call, exec, inflight>>
    BY DEF Register, TypeOK
  <1>2. /\ x \in [cp : {"live", "accepted", "none", "closed"}, ag : {"none", "live", "closed"},
                  wire : BOOLEAN]
        /\ x.cp = "live" /\ x.ag = chan[h].ag
    BY DEF TypeOK
  <1> HIDE DEF x
  <1> QED
    BY <1>1, <1>2, LinksTyped, ChanMoves

LEMMA BreakNames ==
    ASSUME TypeOK, Naming, NEW h \in Channels, Break(h)
    PROVE  TypeOK' /\ Naming'
  <1> DEFINE x == [chan[h] EXCEPT !.wire = FALSE]
  <1>1. /\ chan' = [chan EXCEPT ![h] = x]
        /\ down' = [down EXCEPT ![h] = <<>>] /\ up' = [up EXCEPT ![h] = <<>>]
        /\ UNCHANGED <<registry, nextID, shed, call, exec, inflight>>
    BY DEF Break, TypeOK
  <1>2. /\ x \in [cp : {"live", "accepted", "none", "closed"}, ag : {"none", "live", "closed"},
                  wire : BOOLEAN]
        /\ x.cp = chan[h].cp /\ x.ag = chan[h].ag
    BY DEF TypeOK
  <1> HIDE DEF x
  <1>3. /\ down' \in [Channels -> Seq(FrameState({"cmd", "cancel"}))]
        /\ up' \in [Channels -> Seq(UpFrame)]
    BY <1>1, LinksTyped
  <1>4. \A g \in Channels : down'[g] \in {down[g], <<>>} /\ up'[g] \in {up[g], <<>>}
    BY <1>1, LinksTyped
  <1>5. registry = h => x.cp = "live"
    BY <1>2 DEF Naming, ChannelKept
  <1> QED
    BY <1>1, <1>2, <1>3, <1>4, <1>5, LinksTyped, ChanMoves

LEMMA CloseCPNames ==
    ASSUME TypeOK, Naming, NEW h \in Channels, CloseCP(h)
    PROVE  TypeOK' /\ Naming'
  <1> DEFINE x == [chan[h] EXCEPT !.cp = "closed"]
  <1>1. /\ chan' = [chan EXCEPT ![h] = x] /\ chan[h].cp = "live"
        /\ registry' \in {registry, None} /\ registry' # h
        /\ shed' = [shed EXCEPT ![h] = None]
        /\ UNCHANGED <<down, up, nextID, call, exec, inflight>>
    BY ChannelAssumption DEF CloseCP, TypeOK
  <1>2. /\ x \in [cp : {"live", "accepted", "none", "closed"}, ag : {"none", "live", "closed"},
                  wire : BOOLEAN]
        /\ x.cp = "closed" /\ x.ag = chan[h].ag
    BY DEF TypeOK
  <1> HIDE DEF x
  <1>3. /\ shed' \in [Channels -> Streams \cup {None}]
        /\ \A g \in Channels : shed'[g] \in {shed[g], None}
    BY <1>1, LinksTyped
  <1> QED
    BY <1>1, <1>2, <1>3, LinksTyped, ChanMoves

LEMMA CloseAgentNames ==
    ASSUME TypeOK, Naming, NEW h \in Channels, CloseAgent(h) \/ AckTimesOut(h)
    PROVE  TypeOK' /\ Naming'
  <1>1. PICK w \in BOOLEAN :
           /\ chan' = [chan EXCEPT ![h] = [chan[h] EXCEPT !.ag = "closed", !.wire = w]]
           /\ chan[h].ag = "live"
    <2>1. CASE CloseAgent(h)
      BY <2>1 DEF CloseAgent, TypeOK
    <2>2. CASE AckTimesOut(h)
      BY <2>2 DEF AckTimesOut, TypeOK
    <2> QED
      BY <2>1, <2>2
  <1> DEFINE x == [chan[h] EXCEPT !.ag = "closed", !.wire = w]
  <1>2. /\ x \in [cp : {"live", "accepted", "none", "closed"}, ag : {"none", "live", "closed"},
                  wire : BOOLEAN]
        /\ x.cp = chan[h].cp /\ x.ag = "closed" /\ h # None
    <2>1. h # None
      BY ChannelAssumption
    <2> QED
      BY <2>1 DEF TypeOK
  <1>3. chan' = [chan EXCEPT ![h] = x]
    BY <1>1
  <1> HIDE DEF x
  <1>4. /\ exec' = [c \in Calls |-> IF call[c].ch = h
                                THEN [exec[c] EXCEPT !.cancelled = TRUE]
                                ELSE exec[c]]
        /\ down' \in {down, [down EXCEPT ![h] = <<>>]}
        /\ up' \in {up, [up EXCEPT ![h] = <<>>]}
        /\ UNCHANGED <<registry, nextID, shed, call, inflight>>
    BY DEF CloseAgent, AckTimesOut
  <1>5. ASSUME NEW c \in Calls
        PROVE  /\ exec'[c] \in ExecState
               /\ \/ exec'[c] = exec[c]
                  \/ /\ exec'[c].pc = exec[c].pc /\ exec'[c].ok = exec[c].ok
                     /\ exec'[c].sent = exec[c].sent /\ call[c].ch # None
    <2>1. exec[c] \in ExecState
      BY CallType
    <2> DEFINE y == [exec[c] EXCEPT !.cancelled = TRUE]
    <2>2. y \in ExecState /\ y.pc = exec[c].pc /\ y.ok = exec[c].ok /\ y.sent = exec[c].sent
      BY <2>1 DEF ExecState
    <2>3. exec'[c] = IF call[c].ch = h THEN y ELSE exec[c]
      BY <1>4
    <2> HIDE DEF y
    <2> QED
      BY <2>1, <2>2, <2>3, <1>2
  <1>6. exec' \in [Calls -> ExecState]
    BY <1>4, <1>5
  <1>7. registry = h => x.cp = "live"
    BY <1>2 DEF Naming, ChannelKept
  <1>8. /\ down' \in [Channels -> Seq(FrameState({"cmd", "cancel"}))]
        /\ up' \in [Channels -> Seq(UpFrame)]
    BY <1>4, LinksTyped
  <1>9. \A g \in Channels : down'[g] \in {down[g], <<>>} /\ up'[g] \in {up[g], <<>>}
    BY <1>4, LinksTyped
  <1>10. /\ registry' = registry /\ nextID' = nextID /\ call' = call /\ inflight' = inflight
         /\ shed' \in [Channels -> Streams \cup {None}]
         /\ \A g \in Channels : shed'[g] \in {shed[g], None}
    BY <1>4, LinksTyped
  <1>11. chan[h].ag = "live"
    BY <1>1
  <1> QED
    BY <1>2, <1>3, <1>5, <1>6, <1>7, <1>8, <1>9, <1>10, <1>11, ChanMoves

-----------------------------------------------------------------------------
(* The flow of a stream: what a step may change without disturbing it.     *)

StreamKept(c) ==
    EndsOnce(c) /\ CancelledFor(c) /\ (c \notin Follows => InOrder(c))

Over == {"ending", "done"}

CallKept(c) ==
    /\ call'[c].ch = call[c].ch
    /\ call'[c].chunks \in {call[c].chunks, <<>>}
    /\ call'[c].listed /\ call'[c].end = "none" =>
          /\ call[c].listed /\ call[c].end = "none"
          /\ call'[c].chunks = call[c].chunks /\ call'[c].got = call[c].got

CleanKept(c) ==
    call'[c].end = "eof" => call[c].end = "eof" /\ call'[c].got = call[c].got

ExecKept(c, h) ==
    /\ exec[c].pc \in Over => exec'[c].pc \in Over
    /\ exec'[c].pc = "pumping" /\ ~exec'[c].cancelled /\ chan'[h].wire =>
          \/ /\ exec[c].pc = "pumping" /\ ~exec[c].cancelled /\ chan[h].wire
             /\ exec'[c].sent = exec[c].sent /\ SentKept(up[h], up'[h], c)
          \/ LastSent(up'[h], c, Len(call'[c].got) + Len(call'[c].chunks),
                      exec'[c].sent)
    /\ exec'[c].cancelled /\ exec'[c].pc \notin Over /\ chan'[h].ag = "live" =>
          \/ exec[c].cancelled /\ exec[c].pc \notin Over /\ chan[h].ag = "live"
          \/ CancelSent(c)

ChanKept(c, h) ==
    /\ chan'[h].cp = "live" => chan[h].cp = "live"
    /\ shed'[h] = c => shed[h] = c
    /\ shed[h] = c /\ shed'[h] # c => chan'[h].cp # "live"

\* The places of the cancel frames for c in a link towards the agent.
Cancels(w, c) == {i \in 1 .. Len(w) : w[i].type = "cancel" /\ w[i].of = c}

CancelKept(c, h) ==
    Cancels(down'[h], c) # {} =>
        Cancels(down[h], c) # {} \/ ~(call'[c].listed /\ call'[c].end = "none")

Undisturbed(c) ==
    /\ CallKept(c) /\ LinkKept(up[call[c].ch], up'[call[c].ch], c)
    /\ ExecKept(c, call[c].ch) /\ ChanKept(c, call[c].ch)
    /\ CancelKept(c, call[c].ch)

\* The number of chunks that were delivered.
LEMMA CountType ==
    ASSUME TypeOK, NEW c \in Calls
    PROVE  Len(call[c].got) + Len(call[c].chunks) \in Nat
  <1> DEFINE m == Len(call[c].got)
             n == Len(call[c].chunks)
  <1>1. m \in Nat /\ n \in Nat
    BY CallType
  <1> HIDE DEF m, n
  <1>2. m + n \in Nat
    BY <1>1
  <1> QED
    BY <1>2 DEF m, n

LEMMA FlowKept ==
    ASSUME TypeOK, TypeOK', NEW c \in Streams, call[c].ch # None,
           Undisturbed(c), StreamKept(c)
    PROVE  StreamKept(c)'
  <1> DEFINE r == call[c]
             x == call'[c]
             h == call[c].ch
             w == up[h]
             v == up'[h]
  <1>1. c \in Calls /\ h \in Channels /\ x.ch = h
    BY CallType, ChannelAssumption DEF Undisturbed, CallKept
  <1>2. /\ Len(r.got) \in Nat /\ Len(r.chunks) \in Nat /\ exec[c].sent \in Nat
    BY <1>1, CallType, NothingRead
  <1>3. /\ CallKept(c) /\ LinkKept(w, v, c) /\ ExecKept(c, h) /\ ChanKept(c, h)
        /\ CancelKept(c, h) /\ EndsOnce(c) /\ CancelledFor(c)
    BY DEF Undisturbed, StreamKept
  <1>4. Flowing(c)' => /\ Flowing(c) /\ x.chunks = r.chunks /\ x.got = r.got
                       /\ (Faulted(c)' <=> Faulted(c))
    BY <1>3 DEF CallKept, Flowing, Faulted
  <1>5. CancelSent(c) <=> Cancels(down[h], c) # {}
    BY DEF CancelSent, Cancels
  <1>6. CancelSent(c)' <=> Cancels(down'[h], c) # {}
    BY <1>1 DEF CancelSent, Cancels
  <1>7. EndsOnce(c)'
    <2>1. ASSUME NEW i \in 1 .. Len(x.chunks), x.chunks[i].type = "eof"
          PROVE  /\ i = Len(x.chunks) /\ exec'[c].pc \in Over
                 /\ shed'[h] # c /\ Places(v, c) = {}
      <3>1. x.chunks = r.chunks
        <4>1. CASE x.chunks = <<>>
          <5>1. Len(x.chunks) = 0
            BY <4>1
          <5> QED
            BY <5>1
        <4> QED
          BY <4>1, <1>3 DEF CallKept
      <3>2. i \in 1 .. Len(r.chunks) /\ r.chunks[i].type = "eof"
        BY <3>1, <2>1
      <3>3. /\ i = Len(r.chunks) /\ exec[c].pc \in Over
            /\ shed[h] # c /\ Places(w, c) = {}
        BY <3>2, <1>3 DEF EndsOnce, Over
      <3> QED
        BY <3>1, <3>3, <1>3 DEF ExecKept, ChanKept, LinkKept
    <2>2. ASSUME NEW i \in Places(v, c), v[i].type # "data"
          PROVE  exec'[c].pc \in Over
      <3>1. PICK j \in Places(w, c) : v[i] = w[j]
        BY <1>3 DEF LinkKept
      <3> QED
        BY <3>1, <2>2, <1>3 DEF EndsOnce, ExecKept, Over
    <2>3. EndsLast(v, c)
      BY <1>3 DEF EndsOnce, LinkKept
    <2> QED
      BY <2>1, <2>2, <2>3, <1>1 DEF EndsOnce, Over
  <1>8. CancelledFor(c)'
    <2> SUFFICES ASSUME \/ CancelSent(c)'
                        \/ /\ exec'[c].cancelled /\ exec'[c].pc \notin Over
                           /\ chan'[h].ag = "live",
                        Flowing(c)', ~Faulted(c)', chan'[h].cp = "live"
                 PROVE  FALSE
      BY <1>1 DEF CancelledFor, Over
    <2>1. Flowing(c) /\ ~Faulted(c) /\ chan[h].cp = "live"
      BY <1>3, <1>4 DEF ChanKept
    <2>2. CancelSent(c)' => CancelSent(c)
      BY <1>3, <1>5, <1>6 DEF CancelKept, Flowing
    <2>3. \/ CancelSent(c)
          \/ exec[c].cancelled /\ exec[c].pc \notin Over /\ chan[h].ag = "live"
      BY <2>2, <1>3 DEF ExecKept
    <2> QED
      BY <2>1, <2>3, <1>3 DEF CancelledFor, Over
  <1>9. ASSUME c \notin Follows
        PROVE  InOrder(c)'
    <2> DEFINE d == Len(r.got) + Len(r.chunks)
    <2> SUFFICES ASSUME Flowing(c)', ~Faulted(c)'
                 PROVE  /\ \A i \in 1 .. Len(x.got) : x.got[i] = i
                        /\ \A i \in 1 .. Len(x.chunks) : Num(x.chunks[i]) = Len(x.got) + i
                        /\ chan'[h].cp = "live" /\ shed'[h] # c =>
                              /\ Chained(v, c, Len(x.got) + Len(x.chunks))
                              /\ exec'[c].pc = "pumping" /\ ~exec'[c].cancelled
                                 /\ chan'[h].wire =>
                                    LastSent(v, c, Len(x.got) + Len(x.chunks), exec'[c].sent)
      BY <1>1 DEF InOrder
    <2>1. InOrder(c) /\ Flowing(c) /\ ~Faulted(c) /\ x.chunks = r.chunks /\ x.got = r.got
      BY <1>4, <1>9 DEF StreamKept
    <2>2. d \in Nat
      BY <1>1, CountType
    <2>3. /\ \A i \in 1 .. Len(r.got) : r.got[i] = i
          /\ \A i \in 1 .. Len(r.chunks) : Num(r.chunks[i]) = Len(r.got) + i
          /\ chan[h].cp = "live" /\ shed[h] # c =>
                /\ Chained(w, c, d)
                /\ exec[c].pc = "pumping" /\ ~exec[c].cancelled /\ chan[h].wire =>
                      LastSent(w, c, d, exec[c].sent)
      BY <2>1 DEF InOrder
    <2>4. ASSUME chan'[h].cp = "live", shed'[h] # c
          PROVE  /\ Chained(v, c, d)
                 /\ exec'[c].pc = "pumping" /\ ~exec'[c].cancelled /\ chan'[h].wire =>
                       LastSent(v, c, d, exec'[c].sent)
      <3>1. chan[h].cp = "live" /\ shed[h] # c
        BY <2>4, <1>3 DEF ChanKept
      <3>2. Chained(v, c, d)
        BY <3>1, <2>2, <2>3, <1>3 DEF LinkKept
      <3>3. ASSUME exec'[c].pc = "pumping", ~exec'[c].cancelled, chan'[h].wire
            PROVE  LastSent(v, c, d, exec'[c].sent)
        <4>1. CASE /\ exec[c].pc = "pumping" /\ ~exec[c].cancelled /\ chan[h].wire
                   /\ exec'[c].sent = exec[c].sent /\ SentKept(w, v, c)
          BY <4>1, <3>1, <2>2, <2>3, <1>2 DEF SentKept
        <4>2. CASE LastSent(v, c, Len(x.got) + Len(x.chunks), exec'[c].sent)
          BY <4>2, <2>1
        <4> QED
          BY <4>1, <4>2, <3>3, <1>3 DEF ExecKept
      <3> QED
        BY <3>2, <3>3
    <2> QED
      BY <2>1, <2>3, <2>4
  <1> QED
    BY <1>7, <1>8, <1>9 DEF StreamKept

FlowInv ==
    /\ \A c \in Streams : call[c].ch # None => StreamKept(c)
    /\ CleanEndIsComplete

LEMMA FlowStep ==
    ASSUME TypeOK, TypeOK', FlowInv,
           \A c \in Streams : call'[c].ch # None =>
              StreamKept(c)' \/ (call[c].ch # None /\ Undisturbed(c)),
           \A c \in Streams \ Follows :
              CleanKept(c) \/ (call'[c].end = "eof" => call'[c].got = [i \in Data |-> i])
    PROVE  FlowInv'
  <1>1. ASSUME NEW c \in Streams, call'[c].ch # None
        PROVE  StreamKept(c)'
    BY <1>1, FlowKept DEF FlowInv
  <1>2. CleanEndIsComplete'
    BY DEF FlowInv, CleanEndIsComplete, CleanKept
  <1> QED
    BY <1>1, <1>2 DEF FlowInv

LEMMA CallFrame ==
    ASSUME NEW c, call'[c] = call[c]
    PROVE  CallKept(c) /\ CleanKept(c)
  BY DEF CallKept, CleanKept

LEMMA ExecFrame ==
    ASSUME NEW c, NEW h, exec'[c] = exec[c],
           chan'[h].wire => chan[h].wire /\ SentKept(up[h], up'[h], c),
           chan'[h].ag = "live" => chan[h].ag = "live"
    PROVE  ExecKept(c, h)
  BY DEF ExecKept

LEMMA ChanFrame ==
    ASSUME NEW c, NEW h, shed'[h] = shed[h], chan'[h].cp = "live" => chan[h].cp = "live"
    PROVE  ChanKept(c, h)
  BY DEF ChanKept

LEMMA CancelFrameKept ==
    ASSUME TypeOK, TypeOK', NEW h \in Channels, NEW c,
           \/ Part(down[h], down'[h])
           \/ \E f \in FrameState({"cmd", "cancel"}) :
                 /\ down'[h] = Append(down[h], f)
                 /\ f.type = "cancel" /\ f.of = c
                       => ~(call'[c].listed /\ call'[c].end = "none")
    PROVE  CancelKept(c, h)
  <1> DEFINE w == down[h]
             v == down'[h]
  <1>1. w \in Seq(FrameState({"cmd", "cancel"})) /\ Len(w) \in Nat
    BY LinkType
  <1>2. Len(v) \in Nat
    <2>1. v \in Seq(FrameState({"cmd", "cancel"}))
      BY DEF TypeOK
    <2> QED
      BY <2>1
  <1>3. CASE Part(w, v)
    <2>1. PICK s \in {0, 1} : /\ Len(v) + s <= Len(w) \/ Len(v) = 0
                              /\ \A i \in 1 .. Len(v) : v[i] = w[i + s]
      BY <1>3 DEF Part
    <2> HIDE DEF w, v
    <2>2. \A i \in 1 .. Len(v) : i + s \in 1 .. Len(w) /\ v[i] = w[i + s]
      BY <1>1, <1>2, <2>1
    <2>3. Cancels(v, c) # {} => Cancels(w, c) # {}
      BY <2>2 DEF Cancels
    <2> QED
      BY <2>3 DEF CancelKept, w, v
  <1>4. ASSUME NEW f \in FrameState({"cmd", "cancel"}), v = Append(w, f),
               f.type = "cancel" /\ f.of = c
                       => ~(call'[c].listed /\ call'[c].end = "none")
        PROVE  CancelKept(c, h)
    <2>1. /\ Len(v) = Len(w) + 1 /\ v[Len(w) + 1] = f
          /\ \A i \in 1 .. Len(w) : v[i] = w[i]
      BY <1>1, <1>4, Appended
    <2> HIDE DEF w, v
    <2>2. \A i \in 1 .. Len(v) : i = Len(w) + 1 \/ i \in 1 .. Len(w)
      BY <1>1, <2>1
    <2>3. CASE f.type = "cancel" /\ f.of = c
      BY <2>3, <1>4 DEF CancelKept
    <2>4. CASE ~(f.type = "cancel" /\ f.of = c)
      <3>1. Cancels(v, c) # {} => Cancels(w, c) # {}
        BY <2>1, <2>2, <2>4 DEF Cancels
      <3> QED
        BY <3>1 DEF CancelKept, w, v
    <2> QED
      BY <2>3, <2>4
  <1> QED
    BY <1>3, <1>4

-----------------------------------------------------------------------------
(* The flow of a stream: the callers.                                      *)

LEMMA CallFlow ==
    ASSUME TypeOK, TypeOK', Naming, FlowInv, NEW b \in Calls,
           \A d \in Calls \ {b} : call'[d] = call[d],
           UNCHANGED <<chan, up, exec, shed>>,
           CallKept(b), CleanKept(b),
           \/ down' = down
           \/ \E f \in FrameState({"cmd", "cancel"}) :
                 /\ down' = [down EXCEPT ![call[b].ch] = Append(@, f)]
                 /\ f.type = "cancel" =>
                       f.of = b /\ ~(call'[b].listed /\ call'[b].end = "none")
    PROVE  FlowInv'
  <1>1. ASSUME NEW c \in Streams, call'[c].ch # None
        PROVE  call[c].ch # None /\ Undisturbed(c)
    <2>1. c \in Calls /\ CallKept(c)
      BY ChannelAssumption, CallFrame
    <2>2. call[c].ch # None /\ call[c].ch \in Channels
      BY <1>1, <2>1, CallType DEF CallKept
    <2> DEFINE h == call[c].ch
    <2>3. LinkKept(up[h], up'[h], c) /\ SentKept(up[h], up'[h], c)
      BY LinkSame
    <2>4. ExecKept(c, h)
      BY <2>3, ExecFrame
    <2>5. ChanKept(c, h)
      BY ChanFrame
    <2>6. \/ down'[h] = down[h]
          \/ \E f \in FrameState({"cmd", "cancel"}) :
                 /\ down'[h] = Append(down[h], f)
                 /\ f.type = "cancel" => f.of = b
                       /\ ~(call'[b].listed /\ call'[b].end = "none")
      <3>1. CASE down' = down
        BY <3>1
      <3>2. ASSUME NEW f, down' = [down EXCEPT ![call[b].ch] = Append(@, f)]
            PROVE  down'[h] = down[h] \/ down'[h] = Append(down[h], f)
        BY <3>2, <2>2 DEF TypeOK
      <3> QED
        BY <3>1, <3>2
    <2>7. Part(down[h], down[h])
      BY <2>2, LinkType, Parts
    <2>8. CancelKept(c, h)
      BY <2>2, <2>6, <2>7, CancelFrameKept
    <2> QED
      BY <2>1, <2>2, <2>3, <2>4, <2>5, <2>8 DEF Undisturbed
  <1>2. \A c \in Streams \ Follows : CleanKept(c)
    BY ChannelAssumption, CallFrame
  <1> QED
    BY <1>1, <1>2, FlowStep

\* A call returns, and may send a cancel frame.
LEMMA ReturnFlow ==
    ASSUME TypeOK, TypeOK', Naming, FlowInv, NEW b \in Calls, NEW end \in Ends,
           call[b].ch # None \/ down' = down,
           end = "eof" => call[b].end = "eof",
           call' = [call EXCEPT ![b] = Returned(b, end)],
           down' \in {down, Sent(call[b].ch, CancelFrame(b))},
           UNCHANGED <<chan, up, exec, shed>>
    PROVE  FlowInv'
  <1>1. call'[b] = Returned(b, end) /\ \A d \in Calls \ {b} : call'[d] = call[d]
    BY DEF TypeOK
  <1> DEFINE x == Returned(b, end)
  <1>x. /\ x.ch = call[b].ch /\ x.listed = FALSE /\ x.chunks = <<>> /\ x.end = end
        /\ x.got = (IF end = "eof" THEN call[b].got ELSE <<>>)
    BY DEF Returned, NoCall
  <1> HIDE DEF x
  <1>2. /\ call'[b].ch = call[b].ch /\ ~call'[b].listed /\ call'[b].chunks = <<>>
        /\ call'[b].end = end
        /\ end = "eof" => call'[b].got = call[b].got
    BY <1>1, <1>x DEF x
  <1>3. CallKept(b) /\ CleanKept(b)
    BY <1>2 DEF CallKept, CleanKept
  <1> DEFINE f == CancelFrame(b)
  <1>4. f.of = b
    BY DEF CancelFrame, Frame
  <1>5. call[b].ch # None => f \in FrameState({"cmd", "cancel"})
    BY CallFrames DEF CancelFrame
  <1>6. down' = down \/ down' = [down EXCEPT ![call[b].ch] = Append(@, f)]
    BY DEF Sent
  <1> HIDE DEF f
  <1> QED
    BY <1>1, <1>2, <1>3, <1>4, <1>5, <1>6, CallFlow

LEMMA WriteCommandFlow ==
    ASSUME TypeOK, TypeOK', Naming, FlowInv, NEW b \in Calls, WriteCommand(b)
    PROVE  FlowInv'
  <1>1. /\ call[b].pc = "writing" /\ call[b].listed /\ call[b].ch # None
        /\ UNCHANGED <<chan, up, exec, shed>>
    BY DEF WriteCommand, Naming, CallNamed
  <1>2. CASE /\ down' = Sent(call[b].ch, Frame("cmd", call[b].id, b, 0))
             /\ call' = [call EXCEPT ![b].pc = "waiting"]
    <2> DEFINE f == Frame("cmd", call[b].id, b, 0)
               x == [call[b] EXCEPT !.pc = "waiting"]
    <2>1. call'[b] = x /\ \A d \in Calls \ {b} : call'[d] = call[d]
      BY <1>2 DEF TypeOK
    <2>2. /\ x.ch = call[b].ch /\ x.chunks = call[b].chunks /\ x.got = call[b].got
          /\ x.listed = call[b].listed /\ x.end = call[b].end
      BY CallType DEF CallState
    <2> HIDE DEF x
    <2>3. CallKept(b) /\ CleanKept(b)
      BY <2>1, <2>2 DEF CallKept, CleanKept
    <2>4. f \in FrameState({"cmd", "cancel"}) /\ f.type = "cmd"
      BY <1>1, CallFrames DEF Frame
    <2>5. down' = down \/ down' = [down EXCEPT ![call[b].ch] = Append(@, f)]
      BY <1>2 DEF Sent
    <2> HIDE DEF f
    <2> QED
      BY <1>1, <2>1, <2>3, <2>4, <2>5, CallFlow
  <1>3. CASE call' = [call EXCEPT ![b] = Returned(b, "unavailable")] /\ down' = down
    <2>1. "unavailable" \in Ends /\ "unavailable" # "eof"
      BY DEF Ends
    <2> QED
      BY <2>1, <1>1, <1>3, ReturnFlow
  <1> QED
    BY <1>2, <1>3 DEF WriteCommand

\* The steps of a caller that neither read a chunk nor open a call.
LEMMA CallerFlow ==
    ASSUME TypeOK, TypeOK', Naming, FlowInv, NEW b \in Calls,
           \/ OpenUnavailable(b) \/ CtxEnds(b) \/ AwaitCanceled(b) \/ AwaitClosed(b)
           \/ AwaitResult(b) \/ ReadInterrupted(b) \/ CloseStream(b)
    PROVE  FlowInv'
  <1>1. /\ "unavailable" \in Ends /\ "canceled" \in Ends /\ "closed" \in Ends
    BY DEF Ends
  <1>2. call[b].listed => call[b].ch # None
    BY DEF Naming, CallNamed
  <1>3. call[b].pc \in {"waiting", "reading"} => call[b].listed
    BY DEF Naming, CallNamed
  <1>4. CASE OpenUnavailable(b)
    <2>1. /\ call' = [call EXCEPT ![b] = Returned(b, "unavailable")] /\ down' = down
          /\ UNCHANGED <<chan, up, exec, shed>>
      BY <1>4 DEF OpenUnavailable
    <2> QED
      BY <2>1, <1>1, ReturnFlow
  <1>5. CASE AwaitCanceled(b)
    <2>1. /\ call[b].pc = "waiting" /\ down' = Sent(call[b].ch, CancelFrame(b))
          /\ call' = [call EXCEPT ![b] = Returned(b, "canceled")]
          /\ UNCHANGED <<chan, up, exec, shed>>
      BY <1>5 DEF AwaitCanceled
    <2> QED
      BY <2>1, <1>1, <1>2, <1>3, ReturnFlow
  <1>6. CASE AwaitClosed(b)
    <2>1. /\ call[b].pc = "waiting" /\ down' = down
          /\ call' = [call EXCEPT ![b] = Returned(b, "unavailable")]
          /\ UNCHANGED <<chan, up, exec, shed>>
      BY <1>6 DEF AwaitClosed
    <2> QED
      BY <2>1, <1>1, ReturnFlow
  <1>7. CASE CtxEnds(b)
    <2> DEFINE x == [call[b] EXCEPT !.ctxDone = TRUE]
    <2>1. /\ call'[b] = x /\ \A d \in Calls \ {b} : call'[d] = call[d]
          /\ down' = down /\ UNCHANGED <<chan, up, exec, shed>>
      BY <1>7 DEF CtxEnds, TypeOK
    <2>2. /\ x.ch = call[b].ch /\ x.chunks = call[b].chunks /\ x.got = call[b].got
          /\ x.listed = call[b].listed /\ x.end = call[b].end
      BY CallType DEF CallState
    <2> HIDE DEF x
    <2>3. CallKept(b) /\ CleanKept(b)
      BY <2>1, <2>2 DEF CallKept, CleanKept
    <2> QED
      BY <2>1, <2>3, CallFlow
  <1>8. CASE AwaitResult(b)
    <2>1. /\ call[b].pc = "waiting" /\ down' = down /\ call[b].res # "none"
          /\ UNCHANGED <<chan, up, exec, shed>>
      BY <1>8 DEF AwaitResult
    <2>2. CASE call[b].res = "ok" /\ b \in Streams
      <3> DEFINE x == [call[b] EXCEPT !.pc = "reading"]
      <3>1. call'[b] = x /\ \A d \in Calls \ {b} : call'[d] = call[d]
        BY <1>8, <2>2 DEF AwaitResult, TypeOK
      <3>2. /\ x.ch = call[b].ch /\ x.chunks = call[b].chunks /\ x.got = call[b].got
            /\ x.listed = call[b].listed /\ x.end = call[b].end
        BY CallType DEF CallState
      <3> HIDE DEF x
      <3>3. CallKept(b) /\ CleanKept(b)
        BY <3>1, <3>2 DEF CallKept, CleanKept
      <3> QED
        BY <2>1, <3>1, <3>3, CallFlow
    <2>3. CASE ~(call[b].res = "ok" /\ b \in Streams)
      <3>1. call' = [call EXCEPT ![b] = Returned(b, call[b].res)]
        BY <1>8, <2>3 DEF AwaitResult, TypeOK
      <3>2. call[b].res \in Ends /\ call[b].res # "eof"
        BY <2>1, CallType DEF CallState, Ends, ResultTypes
      <3> QED
        BY <2>1, <3>1, <3>2, ReturnFlow
    <2> QED
      BY <2>2, <2>3
  <1>9. CASE ReadInterrupted(b)
    <2>1. PICK end \in {"interrupted", "unavailable"} :
             call' = [call EXCEPT ![b].end = end]
      BY <1>9 DEF ReadInterrupted
    <2> DEFINE x == [call[b] EXCEPT !.end = end]
    <2>2. /\ call'[b] = x /\ \A d \in Calls \ {b} : call'[d] = call[d]
          /\ down' = down /\ UNCHANGED <<chan, up, exec, shed>>
      BY <1>9, <2>1 DEF ReadInterrupted, TypeOK
    <2>3. /\ x.ch = call[b].ch /\ x.chunks = call[b].chunks /\ x.end = end
      BY CallType DEF CallState
    <2> HIDE DEF x
    <2>4. CallKept(b) /\ CleanKept(b)
      BY <2>2, <2>3 DEF CallKept, CleanKept
    <2> QED
      BY <2>2, <2>4, CallFlow
  <1>10. CASE CloseStream(b)
    <2> DEFINE end == IF call[b].end = "none" THEN "closed" ELSE call[b].end
    <2>1. /\ call[b].pc = "reading"
          /\ call' = [call EXCEPT ![b] = Returned(b, end)]
          /\ down' \in {down, Sent(call[b].ch, CancelFrame(b))}
          /\ UNCHANGED <<chan, up, exec, shed>>
      BY <1>10 DEF CloseStream
    <2>2. end \in Ends /\ (end = "eof" => call[b].end = "eof")
      BY CallType, <1>1 DEF CallState
    <2> HIDE DEF end
    <2> QED
      BY <2>1, <2>2, <1>2, <1>3, ReturnFlow
  <1> QED
    BY <1>4, <1>5, <1>6, <1>7, <1>8, <1>9, <1>10

LEMMA ReadChunkFlow ==
    ASSUME TypeOK, TypeOK', Naming, FlowInv, NEW b \in Calls, ReadChunk(b)
    PROVE  FlowInv'
  <1> DEFINE r == call[b]
             q == call[b].chunks
             h == call[b].ch
             m == Len(call[b].got)
             n == Len(call[b].chunks)
             got == call[b].got
  <1>0. PICK x \in CallState :
               /\ call' = [call EXCEPT ![b] = x]
               /\ q[1].type \in ChunkTypes /\ q[1].n \in Nat
               /\ x.ch = h /\ x.listed = call[b].listed
               /\ x.end = IF q[1].type = "data" THEN call[b].end ELSE q[1].type
               /\ x.got = IF q[1].type = "data" /\ b \notin Follows
                          THEN Append(call[b].got, q[1].n) ELSE call[b].got
               /\ x.chunks = Tail(q) /\ Len(x.chunks) = n - 1
               /\ n >= 1 /\ n \in Nat
               /\ \A i \in 1 .. n - 1 : Tail(q)[i] = q[i + 1]
    BY ReadChunkRecord
  <1>1. /\ call' = [call EXCEPT ![b] = x]
        /\ q[1].type \in ChunkTypes /\ q[1].n \in Nat
        /\ x.ch = h /\ x.listed = call[b].listed
        /\ x.end = IF q[1].type = "data" THEN call[b].end ELSE q[1].type
        /\ x.got = IF q[1].type = "data" /\ b \notin Follows
                   THEN Append(call[b].got, q[1].n) ELSE call[b].got
        /\ Len(x.chunks) = n - 1 /\ n >= 1 /\ n \in Nat
        /\ \A i \in 1 .. n - 1 : x.chunks[i] = q[i + 1]
    BY <1>0
  <1>2. /\ UNCHANGED <<chan, up, down, exec, shed>> /\ call[b].pc = "reading"
        /\ call[b].end = "none"
    BY DEF ReadChunk
  <1>3. call'[b] = x /\ \A d \in Calls \ {b} : call'[d] = call[d]
    BY <1>1 DEF TypeOK
  <1>4. call[b].listed /\ h # None /\ h \in Channels
    BY <1>2, CallType DEF Naming, CallNamed
  <1>5. m \in Nat /\ got \in Seq(Nat)
    BY CallType
  <1>6. \A i \in 1 .. Len(x.chunks) : i + 1 \in 1 .. n /\ x.chunks[i] = q[i + 1]
    BY <1>1
  <1>7. \A i \in 2 .. n : i - 1 \in 1 .. Len(x.chunks) /\ x.chunks[i - 1] = q[i]
    <2> SUFFICES ASSUME NEW i \in 2 .. n
                 PROVE  i - 1 \in 1 .. Len(x.chunks) /\ x.chunks[i - 1] = q[i]
      OBVIOUS
    <2>1. i - 1 \in 1 .. n - 1 /\ (i - 1) + 1 = i
      BY <1>1
    <2> QED
      BY <2>1, <1>1
  <1>8. Flowing(b)
    BY <1>2, <1>4 DEF Flowing
  <1>9. q[1].type = "data" => (Faulted(b) <=> Faulted(b)')
    <2> SUFFICES ASSUME q[1].type = "data"
                 PROVE  (\E i \in 1 .. n : q[i].type = "fault")
                           <=> (\E i \in 1 .. Len(x.chunks) : x.chunks[i].type = "fault")
      BY <1>3 DEF Faulted
    <2>1. ASSUME NEW i \in 1 .. n, q[i].type = "fault"
          PROVE  \E k \in 1 .. Len(x.chunks) : x.chunks[k].type = "fault"
      <3>1. i \in 2 .. n
        BY <2>1, <1>1
      <3> QED
        BY <3>1, <1>7, <2>1
    <2> QED
      BY <2>1, <1>6
  <1>10. Flowing(b)' => q[1].type = "data"
    BY <1>1, <1>3 DEF Flowing, ChunkTypes
  <1>11. ASSUME b \in Streams
         PROVE  StreamKept(b)'
    <2>1. EndsOnce(b) /\ CancelledFor(b) /\ (b \notin Follows => InOrder(b))
      BY <1>4, <1>11 DEF FlowInv, StreamKept
    <2>2. EndsOnce(b)'
      <3>1. ASSUME NEW i \in 1 .. Len(x.chunks), x.chunks[i].type = "eof"
            PROVE  /\ i = Len(x.chunks) /\ exec[b].pc \in {"ending", "done"}
                   /\ shed[h] # b /\ Places(up[h], b) = {}
        <4>1. i + 1 \in 1 .. n /\ q[i + 1].type = "eof"
          BY <1>6, <3>1
        <4>2. /\ i + 1 = n /\ exec[b].pc \in {"ending", "done"}
              /\ shed[h] # b /\ Places(up[h], b) = {}
          BY <4>1, <2>1 DEF EndsOnce
        <4>3. i = Len(x.chunks)
          BY <4>2, <1>1
        <4> QED
          BY <4>2, <4>3
      <3>2. /\ \A i \in Places(up[h], b) :
                  up[h][i].type # "data" => exec[b].pc \in {"ending", "done"}
            /\ EndsLast(up[h], b)
        BY <2>1 DEF EndsOnce
      <3> QED
        BY <3>1, <3>2, <1>1, <1>2, <1>3 DEF EndsOnce
    <2>3. CancelledFor(b)'
      <3>1. CancelSent(b)' <=> CancelSent(b)
        BY <1>1, <1>2, <1>3 DEF CancelSent
      <3>2. ~Flowing(b) \/ Faulted(b) \/ chan[h].cp # "live" =>
               ~Flowing(b)' \/ Faulted(b)' \/ chan[h].cp # "live"
        BY <1>8, <1>9, <1>10
      <3> QED
        BY <3>1, <3>2, <2>1, <1>1, <1>2, <1>3 DEF CancelledFor
    <2>4. ASSUME b \notin Follows
          PROVE  InOrder(b)'
      <3> SUFFICES ASSUME Flowing(b)', ~Faulted(b)'
                   PROVE  /\ \A i \in 1 .. Len(x.got) : x.got[i] = i
                          /\ \A i \in 1 .. Len(x.chunks) :
                                Num(x.chunks[i]) = Len(x.got) + i
                          /\ chan[h].cp = "live" /\ shed[h] # b =>
                             /\ Chained(up[h], b, Len(x.got) + Len(x.chunks))
                             /\ exec[b].pc = "pumping" /\ ~exec[b].cancelled
                                /\ chan[h].wire =>
                                  LastSent(up[h], b, Len(x.got) + Len(x.chunks), exec[b].sent)
        BY <1>1, <1>2, <1>3 DEF InOrder
      <3>1. q[1].type = "data" /\ ~Faulted(b)
        BY <1>9, <1>10
      <3>2. /\ \A i \in 1 .. m : got[i] = i
            /\ \A i \in 1 .. n : Num(q[i]) = m + i
            /\ chan[h].cp = "live" /\ shed[h] # b =>
                             /\ Chained(up[h], b, m + n)
                             /\ exec[b].pc = "pumping" /\ ~exec[b].cancelled
                                /\ chan[h].wire =>
                                  LastSent(up[h], b, m + n, exec[b].sent)
        BY <2>1, <2>4, <3>1, <1>8 DEF InOrder
      <3>3. q[1].n = m + 1
        <4>1. 1 \in 1 .. n
          BY <1>1
        <4> QED
          BY <4>1, <3>1, <3>2 DEF Num
      <3>4. /\ Len(x.got) = m + 1 /\ x.got[m + 1] = q[1].n
            /\ \A i \in 1 .. m : x.got[i] = got[i]
        <4> DEFINE k == q[1].n
        <4>1. x.got = Append(got, k) /\ k \in Nat /\ got \in Seq(Nat) /\ m = Len(got)
          BY <1>1, <1>5, <2>4, <3>1
        <4> HIDE DEF k, got, m
        <4>2. /\ Len(Append(got, k)) = m + 1 /\ Append(got, k)[m + 1] = k
              /\ \A i \in 1 .. m : Append(got, k)[i] = got[i]
          BY <4>1, Appended
        <4> QED
          BY <4>1, <4>2 DEF k
      <3> HIDE DEF m, n, got, q, h, r
      <3>5. \A i \in 1 .. Len(x.got) : x.got[i] = i
        <4>1. \A i \in 1 .. m + 1 : i = m + 1 \/ i \in 1 .. m
          BY <1>5
        <4> QED
          BY <4>1, <3>2, <3>3, <3>4
      <3>6. ASSUME NEW i \in 1 .. Len(x.chunks)
            PROVE  Num(x.chunks[i]) = Len(x.got) + i
        <4>1. Num(q[i + 1]) = m + (i + 1)
          BY <1>6, <3>2
        <4>2. m + (i + 1) = (m + 1) + i
          BY <1>1, <1>5
        <4> QED
          BY <4>1, <4>2, <3>4, <1>6
      <3>7. Len(x.got) + Len(x.chunks) = m + n
        BY <3>4, <1>1, <1>5
      <3> QED
        BY <3>2, <3>5, <3>6, <3>7
    <2> QED
      BY <2>2, <2>3, <2>4 DEF StreamKept
  <1>12. ASSUME b \in Streams \ Follows, x.end = "eof"
         PROVE  x.got = [i \in Data |-> i]
    <2>1. q[1].type = "eof" /\ x.got = got
      BY <1>1, <1>2, <1>12
    <2>2. EndsOnce(b) /\ InOrder(b)
      BY <1>4, <1>12 DEF FlowInv, StreamKept
    <2>3. 1 \in 1 .. n
      BY <1>1
    <2>4. n = 1
      BY <2>1, <2>2, <2>3 DEF EndsOnce
    <2>5. ~Faulted(b)
      <3>1. \A i \in 1 .. n : i = 1
        BY <2>4
      <3> QED
        BY <3>1, <2>1 DEF Faulted
    <2>6. /\ \A i \in 1 .. m : got[i] = i
          /\ Num(q[1]) = m + 1
      BY <2>2, <2>3, <2>5, <1>8 DEF InOrder
    <2>7. Chunks + 1 = m + 1
      BY <2>1, <2>6 DEF Num
    <2>8. m = Chunks
      BY <2>7, <1>5, NothingRead
    <2> HIDE DEF got
    <2>9. got = [i \in 1 .. m |-> got[i]]
      BY <1>5 DEF got
    <2> QED
      BY <2>1, <2>6, <2>8, <2>9 DEF Data
  <1>13. ASSUME NEW c \in Streams, call'[c].ch # None
         PROVE  StreamKept(c)' \/ (call[c].ch # None /\ Undisturbed(c))
    <2>1. CASE c = b
      BY <2>1, <1>11
    <2>2. CASE c # b
      <3>1. c \in Calls /\ CallKept(c) /\ call[c].ch # None /\ call[c].ch \in Channels
        BY <2>2, <1>3, <1>13, ChannelAssumption, CallFrame, CallType
      <3>2. LinkKept(up[call[c].ch], up'[call[c].ch], c)
            /\ SentKept(up[call[c].ch], up'[call[c].ch], c)
        BY <1>2, LinkSame
      <3>3. ExecKept(c, call[c].ch) /\ ChanKept(c, call[c].ch)
        BY <1>2, <3>2, ExecFrame, ChanFrame
      <3>4. Part(down[call[c].ch], down'[call[c].ch])
        BY <1>2, <3>1, LinkType, Parts
      <3>5. CancelKept(c, call[c].ch)
        BY <3>1, <3>4, CancelFrameKept
      <3> QED
        BY <3>1, <3>2, <3>3, <3>5 DEF Undisturbed
    <2> QED
      BY <2>1, <2>2
  <1>14. ASSUME NEW c \in Streams \ Follows
         PROVE  CleanKept(c) \/ (call'[c].end = "eof" => call'[c].got = [i \in Data |-> i])
    <2>1. CASE c = b
      BY <2>1, <1>3, <1>12
    <2>2. CASE c # b
      BY <2>2, <1>3, ChannelAssumption, CallFrame
    <2> QED
      BY <2>1, <2>2
  <1> QED
    BY <1>13, <1>14, FlowStep

\* A new call: nothing of it is anywhere yet.
LEMMA OpenFlow ==
    ASSUME TypeOK, TypeOK', Naming, FlowInv, NEW b \in Calls, Open(b)
    PROVE  FlowInv'
  <1> DEFINE h == registry
  <1>1. /\ h \in Channels /\ h # None /\ call[b] = NoCall /\ exec[b] = NoExec
        /\ call'[b] = [NoCall EXCEPT !.pc = "writing", !.ch = h,
                            !.id = nextID[h] + 1, !.listed = TRUE]
        /\ \A d \in Calls \ {b} : call'[d] = call[d]
    BY OpenRecord
  <1>2. UNCHANGED <<chan, registry, down, up, shed, exec>>
    BY DEF Open
  <1>3. call[b].ch = None /\ exec[b].pc = "none" /\ ~exec[b].cancelled
    BY <1>1 DEF NoCall, NoExec
  <1>4. /\ call'[b].ch = h /\ call'[b].chunks = <<>> /\ call'[b].got = <<>>
        /\ call'[b].end = "none"
    BY <1>1 DEF NoCall
  <1>5. Places(up[h], b) = {}
    BY <1>1, <1>3 DEF Places, Naming, UpNamed
  <1>6. ~ \E i \in 1 .. Len(down[h]) : down[h][i].type = "cancel" /\ down[h][i].of = b
    BY <1>1, <1>3 DEF Naming, DownNamed
  <1>7. shed[h] # b
    <2>1. b # None
      BY ChannelAssumption
    <2> QED
      BY <2>1, <1>1, <1>3 DEF Naming, ChannelKept
  <1>8. Len(<<>>) = 0 /\ \A i : i \notin 1 .. Len(<<>>)
    OBVIOUS
  <1> HIDE DEF h
  <1>9. EndsOnce(b)'
    <2>1. \A i \in 1 .. Len(call'[b].chunks) : FALSE
      BY <1>4, <1>8
    <2>2. EndsLast(up[h], b)
      BY <1>5 DEF EndsLast
    <2> QED
      BY <2>1, <2>2, <1>2, <1>4, <1>5 DEF EndsOnce
  <1>10. CancelledFor(b)'
    BY <1>2, <1>3, <1>4, <1>6 DEF CancelledFor, CancelSent
  <1>11. InOrder(b)'
    <2>1. /\ \A i \in 1 .. Len(call'[b].chunks) : FALSE
          /\ \A i \in 1 .. Len(call'[b].got) : FALSE
      BY <1>4, <1>8
    <2>2. \A d : Chained(up[h], b, d)
      BY <1>5 DEF Chained
    <2> QED
      BY <2>1, <2>2, <1>2, <1>3, <1>4 DEF InOrder
  <1>12. StreamKept(b)'
    BY <1>9, <1>10, <1>11 DEF StreamKept
  <1>13. ASSUME NEW c \in Streams, call'[c].ch # None
         PROVE  StreamKept(c)' \/ (call[c].ch # None /\ Undisturbed(c))
    <2>1. CASE c = b
      BY <2>1, <1>12
    <2>2. CASE c # b
      <3>1. c \in Calls /\ CallKept(c) /\ call[c].ch # None /\ call[c].ch \in Channels
        BY <2>2, <1>1, <1>13, ChannelAssumption, CallFrame, CallType
      <3>2. LinkKept(up[call[c].ch], up'[call[c].ch], c)
            /\ SentKept(up[call[c].ch], up'[call[c].ch], c)
        BY <1>2, LinkSame
      <3>3. ExecKept(c, call[c].ch) /\ ChanKept(c, call[c].ch)
        BY <1>2, <3>2, ExecFrame, ChanFrame
      <3>4. Part(down[call[c].ch], down'[call[c].ch])
        BY <1>2, <3>1, LinkType, Parts
      <3>5. CancelKept(c, call[c].ch)
        BY <3>1, <3>4, CancelFrameKept
      <3> QED
        BY <3>1, <3>2, <3>3, <3>5 DEF Undisturbed
    <2> QED
      BY <2>1, <2>2
  <1>14. ASSUME NEW c \in Streams \ Follows
         PROVE  CleanKept(c)
    <2>1. CASE c = b
      BY <2>1, <1>4 DEF CleanKept
    <2>2. CASE c # b
      BY <2>2, <1>1, ChannelAssumption, CallFrame
    <2> QED
      BY <2>1, <2>2
  <1> QED
    BY <1>13, <1>14, FlowStep

-----------------------------------------------------------------------------
(* The flow of a stream: the agent.                                        *)

LEMMA ExecFlow ==
    ASSUME TypeOK, TypeOK', Naming, FlowInv, NEW b \in Calls,
           \A d \in Calls \ {b} : exec'[d] = exec[d],
           UNCHANGED <<chan, down, shed, call>>,
           \/ up' = up
           \/ \E f \in UpFrame : f.of = b /\ up' = [up EXCEPT ![call[b].ch] = Append(@, f)],
           call[b].ch # None =>
               \/ b \in Streams => StreamKept(b)'
               \/ /\ LinkKept(up[call[b].ch], up'[call[b].ch], b)
                  /\ ExecKept(b, call[b].ch)
    PROVE  FlowInv'
  <1>1. ASSUME NEW c \in Streams, call'[c].ch # None
        PROVE  StreamKept(c)' \/ (call[c].ch # None /\ Undisturbed(c))
    <2> DEFINE h == call[c].ch
    <2>1. c \in Calls /\ CallKept(c) /\ h # None /\ h \in Channels
      BY <1>1, ChannelAssumption, CallFrame, CallType
    <2>2. ChanKept(c, h)
      BY ChanFrame
    <2>3. Part(down[h], down'[h])
      BY <2>1, LinkType, Parts
    <2>4. CancelKept(c, h)
      BY <2>1, <2>3, CancelFrameKept
    <2>5. CASE c = b
      BY <2>1, <2>2, <2>4, <2>5 DEF Undisturbed
    <2>6. CASE c # b
      <3>1. LinkKept(up[h], up'[h], c) /\ SentKept(up[h], up'[h], c)
        <4>1. CASE up'[h] = up[h]
          BY <4>1, LinkSame
        <4>2. ASSUME NEW f \in UpFrame, f.of = b, up'[h] = Append(up[h], f)
              PROVE  LinkKept(up[h], up'[h], c) /\ SentKept(up[h], up'[h], c)
          BY <4>2, <2>1, <2>6, LinkType, LinkGrows
        <4>3. ASSUME NEW f \in UpFrame, f.of = b,
                     up' = [up EXCEPT ![call[b].ch] = Append(@, f)]
              PROVE  up'[h] = up[h] \/ up'[h] = Append(up[h], f)
          BY <4>3, <2>1 DEF TypeOK
        <4> QED
          BY <4>1, <4>2, <4>3
      <3>2. ExecKept(c, h)
        BY <2>1, <2>6, <3>1, ExecFrame
      <3> QED
        BY <2>1, <2>2, <2>4, <3>1, <3>2 DEF Undisturbed
    <2> QED
      BY <2>5, <2>6
  <1>2. \A c \in Streams \ Follows : CleanKept(c)
    BY ChannelAssumption, CallFrame
  <1> QED
    BY <1>1, <1>2, FlowStep

\* A command that has not sent anything is executed, or ends.
LEMMA ExecuteFlow ==
    ASSUME TypeOK, TypeOK', Naming, FlowInv, NEW b \in Calls,
           ExecuteStart(b) \/ SendFails(b) \/ ExecuteEnd(b)
    PROVE  FlowInv'
  <1>1. /\ UNCHANGED <<chan, down, shed, call>> /\ up' = up
        /\ \A d \in Calls \ {b} : exec'[d] = exec[d]
    BY DEF ExecuteStart, SendFails, ExecuteEnd, TypeOK
  <1>2. \/ /\ exec[b].pc = "spawned" /\ exec'[b].pc = "running"
           /\ exec'[b].cancelled = exec[b].cancelled
        \/ exec'[b].pc \in Over
    BY CallType DEF ExecuteStart, SendFails, ExecuteEnd, TypeOK, Over, ExecState
  <1>3. ExecKept(b, call[b].ch)
    BY <1>1, <1>2 DEF ExecKept, Over
  <1>4. LinkKept(up[call[b].ch], up'[call[b].ch], b)
    BY <1>1, LinkSame
  <1> QED
    BY <1>1, <1>3, <1>4, ExecFlow

LEMMA ExecuteResultFlow ==
    ASSUME TypeOK, TypeOK', Naming, FlowInv, NEW b \in Calls, NEW ok \in BOOLEAN,
           ExecuteResult(b, ok)
    PROVE  FlowInv'
  <1> DEFINE h == call[b].ch
             t == IF ok THEN "ok" ELSE "error"
             f == Frame(t, call[b].id, b, 0)
  <1>1. /\ UNCHANGED <<chan, down, shed, call>> /\ exec[b].pc = "running"
        /\ \A d \in Calls \ {b} : exec'[d] = exec[d]
        /\ exec'[b].cancelled = exec[b].cancelled /\ exec'[b].sent = exec[b].sent
        /\ Send(b, t, 0)
    BY CallType DEF ExecuteResult, TypeOK, ExecState
  <1>2. h \in Channels /\ f \in UpFrame /\ exec[b].sent = 0
    <2>1. t \in {"ok", "error"} /\ 0 \in 0 .. Chunks
      BY NothingRead
    <2> QED
      BY <1>1, <2>1, Executed DEF Early
  <1>3. f.of = b /\ f.type \notin ChunkTypes
    BY DEF Frame, ChunkTypes
  <1>4. up' = up \/ up' = [up EXCEPT ![h] = Append(@, f)]
    BY <1>1 DEF Send
  <1>5. Places(up[h], b) = {} /\ call[b].got = <<>> /\ call[b].chunks = <<>>
    BY <1>1, <1>2 DEF Places, Naming, UpNamed, CallNamed, Early
  <1> HIDE DEF f, t
  <1>6. LinkKept(up[h], up'[h], b)
    <2>1. up'[h] = up[h] \/ up'[h] = Append(up[h], f)
      BY <1>2, <1>4 DEF TypeOK
    <2>2. LinkKept(up[h], up[h], b)
      BY LinkSame
    <2>3. LinkKept(up[h], Append(up[h], f), b)
      BY <1>2, <1>3, LinkType, LinkGrows
    <2> QED
      BY <2>1, <2>2, <2>3
  <1>7. Places(up'[h], b) = {}
    BY <1>5, <1>6 DEF LinkKept
  <1>8. LastSent(up'[h], b, Len(call'[b].got) + Len(call'[b].chunks), exec'[b].sent)
    <2>1. Len(call'[b].got) = 0 /\ Len(call'[b].chunks) = 0
      BY <1>1, <1>5, NothingRead
    <2> QED
      BY <2>1, <1>1, <1>2, <1>7 DEF LastSent
  <1>9. ExecKept(b, h)
    BY <1>1, <1>8 DEF ExecKept, Over
  <1> QED
    BY <1>1, <1>2, <1>3, <1>4, <1>6, <1>9, ExecFlow

\* The pump of the stream b sends a chunk f.
LEMMA PumpFlow ==
    ASSUME TypeOK, TypeOK', Naming, FlowInv, NEW b \in Calls, exec[b].pc = "pumping",
           NEW f \in UpFrame, f.of = b, f.type \in ChunkTypes,
           chan[call[b].ch].ag = "live",
           \A d \in Calls \ {b} : exec'[d] = exec[d],
           exec'[b].cancelled = exec[b].cancelled,
           \/ exec'[b].pc = "ending"
           \/ exec'[b].pc = "pumping" /\ f.type = "data"
              /\ (b \notin Follows => exec'[b].sent = Num(f)),
           ~exec[b].cancelled /\ b \notin Follows /\ f.type # "fault" =>
              Num(f) = exec[b].sent + 1,
           UNCHANGED <<chan, down, shed, call>>,
           up' = IF chan[call[b].ch].wire
                 THEN [up EXCEPT ![call[b].ch] = Append(@, f)] ELSE up
    PROVE  FlowInv'
  <1> DEFINE h == call[b].ch
             w == up[h]
             v == up'[h]
             d == Len(call[b].got) + Len(call[b].chunks)
  <1>1. h \in Channels /\ h # None /\ w \in Seq(UpFrame)
    BY Executed, LinkType
  <1>2. d \in Nat /\ exec[b].sent \in Nat
    <2>1. exec[b].sent \in Nat
      BY CallType, NothingRead
    <2> QED
      BY <2>1, CountType
  <1>3. up' = up \/ up' = [up EXCEPT ![h] = Append(@, f)]
    OBVIOUS
  <1>4. CASE ~chan[h].wire
    <2>1. LinkKept(w, v, b)
      BY <1>4, LinkSame
    <2>2. ExecKept(b, h)
      BY <1>4 DEF ExecKept, Over
    <2> QED
      BY <2>1, <2>2, <1>3, ExecFlow
  <1>5. CASE chan[h].wire /\ b \in Streams
    <2>1. v = Append(w, f)
      BY <1>1, <1>5 DEF TypeOK
    <2>2. EndsOnce(b) /\ CancelledFor(b) /\ (b \notin Follows => InOrder(b))
      BY <1>1, <1>5 DEF FlowInv, StreamKept
    <2>3. AllData(w, b)
      BY <2>2 DEF EndsOnce, AllData
    <2>4. /\ EndsLast(v, b)
          /\ f.type = "data" => AllData(v, b)
          /\ \A n \in Nat : Chained(w, b, d) /\ LastSent(w, b, d, n)
                            /\ (f.type # "fault" => Num(f) = n + 1)
                            => Chained(v, b, d)
          /\ LastSent(v, b, d, Num(f))
      <3> HIDE DEF v, w, d
      <3>0. w \in Seq(UpFrame) /\ f \in UpFrame /\ f.of = b /\ f.type \in ChunkTypes
        BY <1>1
      <3>1. EndsLast(Append(w, f), b)
        BY ONLY <3>0, <2>3, LinkSends
      <3>2. f.type = "data" => AllData(Append(w, f), b)
        BY ONLY <3>0, <2>3, LinkSends
      <3>3. \A k, n \in Nat :
                 /\ Chained(w, b, k) /\ LastSent(w, b, k, n)
                 /\ f.type # "fault" => Num(f) = n + 1
                 => Chained(Append(w, f), b, k)
        BY ONLY <3>0, <2>3, LinkSends
      <3>4. \A k \in Nat : LastSent(Append(w, f), b, k, Num(f))
        BY ONLY <3>0, <2>3, LinkSends
      <3> QED
        BY <3>1, <3>2, <3>3, <3>4, <2>1, <1>2
    <2> HIDE DEF v, w, d
    <2>5. EndsOnce(b)'
      <3>1. \A i \in 1 .. Len(call[b].chunks) : call[b].chunks[i].type # "eof"
        BY <2>2 DEF EndsOnce
      <3>2. \A i \in Places(v, b) : v[i].type # "data" => exec'[b].pc = "ending"
        BY <2>4 DEF AllData
      <3> QED
        BY <3>1, <3>2, <2>4 DEF EndsOnce, v
    <2>6. CancelledFor(b)'
      <3>1. CancelSent(b)' <=> CancelSent(b)
        BY DEF CancelSent
      <3>2. (Flowing(b)' <=> Flowing(b)) /\ (Faulted(b)' <=> Faulted(b))
        BY DEF Flowing, Faulted
      <3> QED
        BY <3>1, <3>2, <2>2 DEF CancelledFor
    <2>7. ASSUME b \notin Follows
          PROVE  InOrder(b)'
      <3> SUFFICES ASSUME Flowing(b), ~Faulted(b)
                   PROVE  /\ \A i \in 1 .. Len(call[b].got) : call[b].got[i] = i
                          /\ \A i \in 1 .. Len(call[b].chunks) :
                                Num(call[b].chunks[i]) = Len(call[b].got) + i
                          /\ chan[h].cp = "live" /\ shed[h] # b =>
                             /\ Chained(v, b, d)
                             /\ exec'[b].pc = "pumping" /\ ~exec'[b].cancelled
                                /\ chan[h].wire => LastSent(v, b, d, exec'[b].sent)
        <4>1. (Flowing(b)' <=> Flowing(b)) /\ (Faulted(b)' <=> Faulted(b))
          BY DEF Flowing, Faulted
        <4> QED
          BY <4>1 DEF InOrder, v, d
      <3>1. /\ \A i \in 1 .. Len(call[b].got) : call[b].got[i] = i
            /\ \A i \in 1 .. Len(call[b].chunks) :
                  Num(call[b].chunks[i]) = Len(call[b].got) + i
            /\ chan[h].cp = "live" /\ shed[h] # b =>
                  /\ Chained(w, b, d)
                  /\ ~exec[b].cancelled => LastSent(w, b, d, exec[b].sent)
        BY <2>2, <2>7, <1>5 DEF InOrder, w, d
      <3>2. ASSUME chan[h].cp = "live", shed[h] # b
            PROVE  /\ Chained(v, b, d)
                   /\ exec'[b].pc = "pumping" => LastSent(v, b, d, exec'[b].sent)
        <4>1. ~exec[b].cancelled
          BY <2>2, <3>2 DEF CancelledFor
        <4>2. f.type # "fault" => Num(f) = exec[b].sent + 1
          BY <4>1, <2>7
        <4>3. Chained(v, b, d)
          BY <4>1, <4>2, <3>1, <3>2, <2>4, <1>2
        <4>4. exec'[b].pc = "pumping" => LastSent(v, b, d, exec'[b].sent)
          BY <2>4, <2>7
        <4> QED
          BY <4>3, <4>4
      <3> QED
        BY <3>1, <3>2
    <2>8. StreamKept(b)'
      BY <2>5, <2>6, <2>7 DEF StreamKept
    <2> QED
      BY <2>8, <1>3, ExecFlow
  <1>6. CASE b \notin Streams
    BY <1>3, <1>6, ExecFlow
  <1> QED
    BY <1>4, <1>5, <1>6

LEMMA PumpChunkFlow ==
    ASSUME TypeOK, TypeOK', Naming, FlowInv, NEW b \in Calls, PumpChunk(b)
    PROVE  FlowInv'
  <1> DEFINE n == IF b \in Follows THEN 0 ELSE exec[b].sent + 1
             y == [exec[b] EXCEPT !.sent = n]
             f == Frame("data", call[b].id, b, n)
  <1>1. /\ exec[b].pc = "pumping" /\ chan[call[b].ch].ag = "live"
        /\ UNCHANGED <<chan, down, shed, call>>
        /\ exec'[b] = y /\ \A d \in Calls \ {b} : exec'[d] = exec[d]
        /\ b \in Follows \/ exec[b].sent < Chunks
    BY DEF PumpChunk, TypeOK, CanSend
  <1>2. up' = IF chan[call[b].ch].wire
              THEN [up EXCEPT ![call[b].ch] = Append(@, f)] ELSE up
    BY DEF PumpChunk, Send
  <1>3. n \in 0 .. Chunks /\ exec[b] \in ExecState
    BY <1>1, CallType, NothingRead
  <1>4. b \notin Follows => n = exec[b].sent + 1
    OBVIOUS
  <1> HIDE DEF n
  <1>5. y.pc = "pumping" /\ y.cancelled = exec[b].cancelled /\ y.sent = n
    BY <1>1, <1>3 DEF ExecState
  <1>6. f \in UpFrame
    BY <1>1, <1>3, Executed
  <1>7. f.of = b /\ f.type = "data" /\ f.type \in ChunkTypes /\ Num(f) = n
    BY DEF Frame, ChunkTypes, Num
  <1> HIDE DEF f, y
  <1> QED
    BY <1>1, <1>2, <1>4, <1>5, <1>6, <1>7, PumpFlow

LEMMA PumpEndFlow ==
    ASSUME TypeOK, TypeOK', Naming, FlowInv, NEW b \in Calls, PumpEnd(b)
    PROVE  FlowInv'
  <1>1. /\ exec[b].pc = "pumping" /\ chan[call[b].ch].ag = "live"
        /\ UNCHANGED <<chan, down, shed, call>>
        /\ exec'[b].pc = "ending" /\ exec'[b].cancelled = exec[b].cancelled
        /\ \A d \in Calls \ {b} : exec'[d] = exec[d]
    BY CallType DEF PumpEnd, TypeOK, CanSend, ExecState
  <1>2. PICK t \in {"eof", "fault"} :
           /\ Send(b, t, 0)
           /\ t = "eof" => exec[b].cancelled \/ (b \notin Follows /\ exec[b].sent = Chunks)
    BY DEF PumpEnd
  <1> DEFINE f == Frame(t, call[b].id, b, 0)
  <1>3. up' = IF chan[call[b].ch].wire
              THEN [up EXCEPT ![call[b].ch] = Append(@, f)] ELSE up
    BY <1>2 DEF Send
  <1>4. f \in UpFrame
    <2>1. 0 \in 0 .. Chunks
      BY NothingRead
    <2> QED
      BY <1>1, <2>1, Executed
  <1>5. f.of = b /\ f.type = t /\ f.type \in ChunkTypes /\ Num(f) = Chunks + 1
    BY DEF Frame, ChunkTypes, Num
  <1> HIDE DEF f
  <1>6. ~exec[b].cancelled /\ b \notin Follows /\ f.type # "fault" =>
              Num(f) = exec[b].sent + 1
    BY <1>2, <1>5
  <1> QED
    BY <1>1, <1>3, <1>4, <1>5, <1>6, PumpFlow

LEMMA AgentReadFlow ==
    ASSUME TypeOK, TypeOK', Naming, FlowInv, NEW k \in Channels, down[k] # <<>>,
           down' = [down EXCEPT ![k] = Tail(@)],
           UNCHANGED <<chan, up, shed, call>>,
           \A c \in Calls : call[c].ch # None => ExecKept(c, call[c].ch)
    PROVE  FlowInv'
  <1>1. ASSUME NEW c \in Streams, call'[c].ch # None
        PROVE  call[c].ch # None /\ Undisturbed(c)
    <2> DEFINE h == call[c].ch
    <2>1. c \in Calls /\ CallKept(c) /\ h # None /\ h \in Channels
      BY <1>1, ChannelAssumption, CallFrame, CallType
    <2>2. ChanKept(c, h)
      BY ChanFrame
    <2>3. Part(down[h], down'[h])
      <3>1. down'[h] = down[h] \/ (down'[h] = Tail(down[h]) /\ down[h] # <<>>)
        BY <2>1 DEF TypeOK
      <3> QED
        BY <3>1, <2>1, LinkType, Parts
    <2>4. CancelKept(c, h)
      BY <2>1, <2>3, CancelFrameKept
    <2>5. LinkKept(up[h], up'[h], c)
      BY LinkSame
    <2> QED
      BY <2>1, <2>2, <2>4, <2>5 DEF Undisturbed
  <1>2. \A c \in Streams \ Follows : CleanKept(c)
    BY ChannelAssumption, CallFrame
  <1> QED
    BY <1>1, <1>2, FlowStep

LEMMA ReceiveCommandFlow ==
    ASSUME TypeOK, TypeOK', Naming, FlowInv, NEW k \in Channels, ReceiveCommand(k)
    PROVE  FlowInv'
  <1>1. PICK b \in Calls : exec[b].pc = "none" /\ exec' = [exec EXCEPT ![b].pc = "spawned"]
    BY ReceiveCommandNames
  <1>2. /\ down[k] # <<>> /\ down' = [down EXCEPT ![k] = Tail(@)]
        /\ UNCHANGED <<chan, up, shed, call>>
    BY DEF ReceiveCommand, AgentReads
  <1>3. /\ \A d \in Calls \ {b} : exec'[d] = exec[d]
        /\ exec'[b].pc = "spawned" /\ exec'[b].cancelled = exec[b].cancelled
    BY <1>1, CallType DEF TypeOK, ExecState
  <1>4. ASSUME NEW c \in Calls, call[c].ch # None
        PROVE  ExecKept(c, call[c].ch)
    <2>1. CASE c = b
      BY <2>1, <1>1, <1>2, <1>3 DEF ExecKept, Over
    <2>2. CASE c # b
      <3>1. SentKept(up[call[c].ch], up'[call[c].ch], c)
        BY <1>2, LinkSame
      <3> QED
        BY <2>2, <3>1, <1>2, <1>3, ExecFrame
    <2> QED
      BY <2>1, <2>2
  <1> QED
    BY <1>2, <1>4, AgentReadFlow

\* The command that is cancelled is the one the frame belongs to, or one of
\* a channel the agent has left.
LEMMA ReceiveCancelFlow ==
    ASSUME TypeOK, TypeOK', Naming, FlowInv, NEW k \in Channels, ReceiveCancel(k)
    PROVE  FlowInv'
  <1> DEFINE f == down[k][1]
             b == inflight[f.id]
  <1>1. /\ down[k] # <<>> /\ down' = [down EXCEPT ![k] = Tail(@)]
        /\ chan[k].ag = "live" /\ Head(down[k]).type = "cancel"
        /\ UNCHANGED <<chan, up, shed, call>>
    BY DEF ReceiveCancel, AgentReads
  <1>2. /\ Head(down[k]) = f /\ 1 \in 1 .. Len(down[k]) /\ f.of \in Calls
        /\ f.id \in Ids
    <2>1. Head(down[k]) = f /\ 1 \in 1 .. Len(down[k])
      BY <1>1, LinkType, Tailed
    <2>2. f \in FrameState({"cmd", "cancel"}) /\ f.of \in Calls
      BY <2>1, LinkType
    <2> QED
      BY <2>1, <2>2 DEF FrameState
  <1>3. f.type = "cancel" /\ call[f.of].ch = k /\ call[f.of].id = f.id
    BY <1>1, <1>2 DEF Naming, DownNamed
  <1>4. exec' = IF b = None THEN exec ELSE [exec EXCEPT ![b].cancelled = TRUE]
    BY <1>2 DEF ReceiveCancel
  <1>5. b # None => b \in Calls /\ call[b].id = f.id
    BY <1>2 DEF TypeOK, Naming, InflightNamed
  <1> HIDE DEF f, b
  <1>6. ASSUME NEW c \in Calls, call[c].ch # None
        PROVE  ExecKept(c, call[c].ch)
    <2> DEFINE h == call[c].ch
    <2>1. SentKept(up[h], up'[h], c) /\ h \in Channels
      BY <1>1, <1>6, LinkSame, CallType
    <2>2. CASE exec'[c] = exec[c]
      BY <2>1, <2>2, <1>1, ExecFrame
    <2>3. CASE b # None /\ c = b
      <3>1. /\ exec'[c].pc = exec[c].pc /\ exec'[c].cancelled = TRUE
        BY <2>3, <1>4, CallType DEF TypeOK, ExecState
      <3>2. CASE f.of = c
        <4>1. CancelSent(c)
          BY <3>2, <1>2, <1>3 DEF CancelSent, f
        <4> QED
          BY <3>1, <4>1 DEF ExecKept, Over
      <3>3. CASE f.of # c
        <4>1. h # k
          BY <3>3, <2>3, <1>2, <1>3, <1>5, <1>6 DEF Naming, CallNamed
        <4>2. chan[h].cp # "none" /\ chan[k].cp # "none"
          <5>1. chan[h].cp \in {"live", "closed"}
            BY <1>6 DEF Naming, CallNamed
          <5>2. chan[k].cp # "none"
            BY <1>1 DEF Naming, ChannelKept
          <5> QED
            BY <5>1, <5>2
        <4>3. h \in Int /\ k \in Int
          BY <2>1, ChannelAssumption, FS_CardinalityType
        <4>4. h < k \/ k < h
          BY <4>1, <4>3
        <4>5. ~(k < h)
          BY <4>2, <2>1, <1>1 DEF Naming, ChannelKept
        <4>6. chan[h].ag = "closed"
          BY <4>2, <4>4, <4>5, <2>1 DEF Naming, ChannelKept
        <4> QED
          BY <3>1, <4>6, <1>1 DEF ExecKept, Over
      <3> QED
        BY <3>2, <3>3
    <2>4. exec'[c] = exec[c] \/ (b # None /\ c = b)
      BY <1>4, <1>5 DEF TypeOK
    <2> QED
      BY <2>2, <2>3, <2>4
  <1> QED
    BY <1>1, <1>6, AgentReadFlow

-----------------------------------------------------------------------------
(* The flow of a stream: the connection.                                   *)

LEMMA ChanFlow ==
    ASSUME TypeOK, TypeOK', Naming, FlowInv, call' = call,
           \A h \in Channels : chan[h].cp \in {"live", "closed"} =>
              /\ chan'[h].cp = "live" => chan[h].cp = "live"
              /\ chan'[h].wire => chan[h].wire /\ up'[h] = up[h]
              /\ chan'[h].ag = "live" => chan[h].ag = "live"
              /\ up'[h] \in {up[h], <<>>} /\ down'[h] \in {down[h], <<>>}
              /\ shed'[h] \in {shed[h], None}
              /\ shed'[h] # shed[h] => chan'[h].cp # "live",
           \A c \in Calls : call[c].ch # None =>
              \/ exec'[c] = exec[c]
              \/ /\ exec'[c].pc = exec[c].pc /\ exec'[c].cancelled
                 /\ chan'[call[c].ch].ag # "live"
    PROVE  FlowInv'
  <1>1. ASSUME NEW c \in Streams, call'[c].ch # None
        PROVE  call[c].ch # None /\ Undisturbed(c)
    <2> DEFINE h == call[c].ch
    <2>1. c \in Calls /\ CallKept(c) /\ h # None /\ h \in Channels /\ c # None
      BY <1>1, ChannelAssumption, CallFrame, CallType
    <2>2. chan[h].cp \in {"live", "closed"}
      BY <2>1 DEF Naming, CallNamed
    <2>3. ChanKept(c, h)
      BY <2>1, <2>2 DEF ChanKept
    <2>4. Part(down[h], down'[h])
      BY <2>1, <2>2, LinkType, Parts
    <2>5. CancelKept(c, h)
      BY <2>1, <2>4, CancelFrameKept
    <2>6. LinkKept(up[h], up'[h], c)
      BY <2>1, <2>2, LinkSame, LinkLost
    <2>7. chan'[h].wire => chan[h].wire /\ SentKept(up[h], up'[h], c)
      BY <2>1, <2>2, LinkSame
    <2>8. ExecKept(c, h)
      <3>1. CASE exec'[c] = exec[c]
        BY <3>1, <2>1, <2>2, <2>7, ExecFrame
      <3>2. CASE exec'[c].pc = exec[c].pc /\ exec'[c].cancelled /\ chan'[h].ag # "live"
        BY <3>2 DEF ExecKept
      <3> QED
        BY <3>1, <3>2, <2>1
    <2> QED
      BY <2>1, <2>3, <2>5, <2>6, <2>8 DEF Undisturbed
  <1>2. \A c \in Streams \ Follows : CleanKept(c)
    BY ChannelAssumption, CallFrame
  <1> QED
    BY <1>1, <1>2, FlowStep

LEMMA ConnectionFlow ==
    ASSUME TypeOK, TypeOK', Naming, FlowInv, NEW k \in Channels,
           \/ Dial(k) \/ Register(k) \/ Break(k) \/ CloseCP(k)
           \/ CloseAgent(k) \/ AckTimesOut(k)
    PROVE  FlowInv'
  <1>1. CASE Dial(k) \/ Register(k)
    <2>1. /\ UNCHANGED <<down, up, shed, call, exec>>
          /\ chan[k].cp \notin {"live", "closed"}
          /\ \A h \in Channels \ {k} : chan'[h] = chan[h]
      BY <1>1 DEF Dial, Register, TypeOK
    <2> QED
      BY <2>1, ChanFlow
  <1>2. CASE Break(k)
    <2>1. /\ UNCHANGED <<shed, call, exec>>
          /\ \A h \in Channels \ {k} : /\ chan'[h] = chan[h] /\ up'[h] = up[h]
                                       /\ down'[h] = down[h]
          /\ up'[k] = <<>> /\ down'[k] = <<>> /\ ~chan'[k].wire
          /\ chan'[k].cp = chan[k].cp /\ chan'[k].ag = chan[k].ag
      BY <1>2 DEF Break, TypeOK
    <2> QED
      BY <2>1, ChanFlow
  <1>3. CASE CloseCP(k)
    <2>1. /\ UNCHANGED <<down, up, call, exec>>
          /\ \A h \in Channels \ {k} : chan'[h] = chan[h] /\ shed'[h] = shed[h]
          /\ shed'[k] = None /\ chan'[k].cp = "closed" /\ chan'[k].ag = chan[k].ag
          /\ ~chan'[k].wire
      BY <1>3 DEF CloseCP, TypeOK
    <2> QED
      BY <2>1, ChanFlow
  <1>4. CASE CloseAgent(k)
    <2>1. /\ UNCHANGED <<down, up, call, shed>>
          /\ \A h \in Channels \ {k} : chan'[h] = chan[h]
          /\ chan'[k].cp = chan[k].cp /\ chan'[k].ag = "closed"
          /\ ~chan'[k].wire
      BY <1>4 DEF CloseAgent, TypeOK
    <2>2. ASSUME NEW c \in Calls
          PROVE  \/ exec'[c] = exec[c]
                 \/ /\ exec'[c].pc = exec[c].pc /\ exec'[c].cancelled
                    /\ chan'[call[c].ch].ag # "live"
      BY <1>4, <2>1, CallType DEF CloseAgent, ExecState
    <2> QED
      BY <2>1, <2>2, ChanFlow
  <1>5. CASE AckTimesOut(k)
    <2>1. /\ UNCHANGED <<call, shed>>
          /\ \A h \in Channels \ {k} : /\ chan'[h] = chan[h] /\ up'[h] = up[h]
                                       /\ down'[h] = down[h]
          /\ up'[k] \in {up[k], <<>>} /\ down'[k] = <<>> /\ ~chan'[k].wire
          /\ chan'[k].cp = chan[k].cp /\ chan'[k].ag = "closed"
      BY <1>5 DEF AckTimesOut, TypeOK
    <2>2. ASSUME NEW c \in Calls
          PROVE  \/ exec'[c] = exec[c]
                 \/ /\ exec'[c].pc = exec[c].pc /\ exec'[c].cancelled
                    /\ chan'[call[c].ch].ag # "live"
      BY <1>5, <2>1, CallType DEF AckTimesOut, ExecState
    <2> QED
      BY <2>1, <2>2, ChanFlow
  <1> QED
    BY <1>1, <1>2, <1>3, <1>4, <1>5

-----------------------------------------------------------------------------
(* The flow of a stream: the owner of the channel.                         *)

\* A stream the frame that is read does not belong to.
LEMMA OtherStream ==
    ASSUME TypeOK, TypeOK', Naming, NEW k \in Channels, up[k] # <<>>,
           up'[k] = Tail(up[k]),
           \A g \in Channels : g # k => up'[g] = up[g],
           UNCHANGED <<chan, down, exec>>,
           NEW c \in Streams, call[c].ch # None, CallKept(c),
           ChanKept(c, call[c].ch),
           ~(up[k][1].of = c /\ up[k][1].type \in ChunkTypes)
    PROVE  Undisturbed(c)
  <1> DEFINE h == call[c].ch
  <1>1. c \in Calls /\ h \in Channels
    BY ChannelAssumption, CallType
  <1>2. LinkKept(up[h], up'[h], c) /\ SentKept(up[h], up'[h], c)
    <2>1. CASE h = k
      <3>1. 1 \notin Places(up[k], c)
        BY DEF Places
      <3>2. up[k] \in Seq(UpFrame)
        BY LinkType
      <3> QED
        BY <3>1, <3>2, <2>1, LinkShifts
    <2>2. CASE h # k
      BY <2>2, <1>1, LinkSame
    <2> QED
      BY <2>1, <2>2
  <1>3. ExecKept(c, h)
    BY <1>2, ExecFrame
  <1>4. Part(down[h], down'[h])
    BY <1>1, LinkType, Parts
  <1>5. CancelKept(c, h)
    BY <1>1, <1>4, CancelFrameKept
  <1> QED
    BY <1>2, <1>3, <1>5 DEF Undisturbed

LEMMA DeliverResultFlow ==
    ASSUME TypeOK, TypeOK', Naming, FlowInv, NEW k \in Channels, DeliverResult(k)
    PROVE  FlowInv'
  <1> DEFINE f == up[k][1]
  <1>1. /\ up[k] # <<>> /\ Head(up[k]).type \in ResultTypes
        /\ up'[k] = Tail(up[k]) /\ \A g \in Channels : g # k => up'[g] = up[g]
        /\ UNCHANGED <<chan, down, exec, shed>>
    BY DEF DeliverResult, TypeOK
  <1>2. Head(up[k]) = f /\ f.type \notin ChunkTypes
    <2>1. Head(up[k]) = f
      BY <1>1, Delivered
    <2> QED
      BY <2>1, <1>1 DEF ResultTypes, ChunkTypes
  <1>3. ASSUME NEW c \in Calls
        PROVE  /\ call'[c].ch = call[c].ch /\ call'[c].chunks = call[c].chunks
               /\ call'[c].listed = call[c].listed /\ call'[c].end = call[c].end
               /\ call'[c].got = call[c].got
    <2> DEFINE x == [call[c] EXCEPT !.res = f.type, !.from = f.of]
    <2>1. call'[c] = x \/ call'[c] = call[c]
      BY <1>2 DEF DeliverResult
    <2>2. /\ x.ch = call[c].ch /\ x.chunks = call[c].chunks
          /\ x.listed = call[c].listed /\ x.end = call[c].end /\ x.got = call[c].got
      BY CallType DEF CallState
    <2> HIDE DEF x
    <2> QED
      BY <2>1, <2>2
  <1>4. \A c \in Calls : CallKept(c) /\ CleanKept(c)
    BY <1>3 DEF CallKept, CleanKept
  <1>5. ASSUME NEW c \in Streams, call'[c].ch # None
        PROVE  call[c].ch # None /\ Undisturbed(c)
    <2>1. c \in Calls /\ CallKept(c) /\ call[c].ch # None
      BY <1>3, <1>4, <1>5, ChannelAssumption
    <2>2. ChanKept(c, call[c].ch)
      BY <1>1, ChanFrame
    <2> QED
      BY <2>1, <2>2, <1>1, <1>2, OtherStream
  <1>6. \A c \in Streams \ Follows : CleanKept(c)
    BY <1>4, ChannelAssumption
  <1> QED
    BY <1>5, <1>6, FlowStep

\* The stream the chunk belongs to.
LEMMA OwnStream ==
    ASSUME TypeOK, TypeOK', Naming, FlowInv, NEW k \in Channels, DeliverChunk(k),
           NEW c \in Streams, c = up[k][1].of
    PROVE  StreamKept(c)' /\ CleanKept(c)
  <1> DEFINE f == up[k][1]
             q == call[c].chunks
             w == up[k]
             v == Tail(up[k])
             a == Chunk(f.type, f.n)
             m == Len(call[c].got)
             n == Len(call[c].chunks)
  <1>1. /\ w # <<>> /\ f.type \in ChunkTypes /\ up'[k] = v
        /\ \/ /\ call[c].listed /\ call'[c] = [call[c] EXCEPT !.chunks = Append(q, a)]
              /\ shed'[k] = None
           \/ call'[c] = call[c] /\ shed'[k] = c
           \/ ~call[c].listed /\ call'[c] = call[c] /\ shed'[k] = None
    BY DeliverChunkRecord
  <1>2. /\ chan[k].cp = "live" /\ shed[k] = None /\ UNCHANGED <<chan, down, exec>>
    BY DEF DeliverChunk, Alive
  <1>3. c \in Calls /\ call[c].ch = k /\ f.n \in 0 .. Chunks /\ c # None /\ k # None
    BY <1>1, Delivered, ChannelAssumption
  <1>4. /\ w \in Seq(UpFrame) /\ 1 \in Places(w, c) /\ w[1] = f
    BY <1>1, LinkType, Tailed DEF Places
  <1>5. EndsOnce(c) /\ CancelledFor(c) /\ (c \notin Follows => InOrder(c))
    BY <1>3 DEF FlowInv, StreamKept
  <1>6. /\ EndsLast(v, c)
        /\ f.type # "data" => Places(v, c) = {}
        /\ Within(v, w, c)
        /\ \A d \in Nat : Chained(w, c, d) /\ f.type # "fault" =>
                 Num(f) = d + 1 /\ Chained(v, c, d + 1)
        /\ \A d, s \in Nat : LastSent(w, c, d, s) /\ Num(f) = d + 1 =>
                 LastSent(v, c, d + 1, s)
    <2>1. EndsLast(w, c)
      BY <1>3, <1>5 DEF EndsOnce
    <2>2. /\ w \in Seq(UpFrame) /\ w # <<>> /\ 1 \in Places(w, c) /\ EndsLast(w, c)
          /\ v = Tail(w) /\ f = w[1]
      BY <1>1, <1>4, <2>1
    <2> HIDE DEF w, v, f
    <2>3. EndsLast(v, c) /\ Within(v, w, c)
      BY ONLY <2>2, LinkTakes
    <2>4. f.type # "data" => Places(v, c) = {}
      BY ONLY <2>2, LinkTakes
    <2>5. \A d \in Nat : Chained(w, c, d) /\ f.type # "fault" =>
                 Num(f) = d + 1 /\ Chained(v, c, d + 1)
      BY ONLY <2>2, LinkTakes
    <2>6. \A d, s \in Nat : LastSent(w, c, d, s) /\ Num(f) = d + 1 =>
                 LastSent(v, c, d + 1, s)
      BY ONLY <2>2, LinkTakes
    <2> QED
      BY <2>3, <2>4, <2>5, <2>6
  <1>7. \A i \in 1 .. n : q[i].type # "eof"
    BY <1>3, <1>4, <1>5 DEF EndsOnce
  <1>8. f.type # "data" => exec[c].pc \in {"ending", "done"}
    BY <1>3, <1>4, <1>5 DEF EndsOnce
  <1>9. \A i \in Places(v, c) : v[i].type # "data" => exec[c].pc \in {"ending", "done"}
    <2>1. \A j \in Places(w, c) : w[j].type # "data" => exec[c].pc \in {"ending", "done"}
      BY <1>3, <1>5 DEF EndsOnce
    <2> QED
      BY <2>1, <1>6 DEF Within
  <1>10. m \in Nat /\ n \in Nat /\ m + n \in Nat /\ exec[c].sent \in Nat
         /\ q \in Seq([type : ChunkTypes, n : 0 .. Chunks])
    <2>1. m \in Nat /\ n \in Nat /\ q \in Seq([type : ChunkTypes, n : 0 .. Chunks])
      BY <1>3, CallType
    <2>2. exec[c].sent \in Nat
      BY <1>3, CallType, NothingRead
    <2>3. m + n \in Nat
      BY <1>3, CountType
    <2> QED
      BY <2>1, <2>2, <2>3
  <1>11. CASE call'[c] = call[c] /\ (shed'[k] = c \/ ~call[c].listed)
    <2>1. (Flowing(c)' <=> Flowing(c)) /\ (Faulted(c)' <=> Faulted(c))
          /\ (CancelSent(c)' <=> CancelSent(c)) /\ CleanKept(c)
      BY <1>11, <1>2 DEF Flowing, Faulted, CancelSent, CleanKept
    <2>2. EndsOnce(c)'
      BY <1>1, <1>2, <1>3, <1>6, <1>7, <1>9, <1>11 DEF EndsOnce
    <2>3. CancelledFor(c)'
      BY <2>1, <1>2, <1>5, <1>11 DEF CancelledFor
    <2>4. shed'[k] = c \/ ~Flowing(c)
      BY <1>11 DEF Flowing
    <2>5. c \notin Follows => InOrder(c)'
      BY <2>1, <2>4, <1>3, <1>5, <1>11 DEF InOrder
    <2> QED
      BY <2>1, <2>2, <2>3, <2>5 DEF StreamKept
  <1>12. CASE /\ call[c].listed /\ call'[c] = [call[c] EXCEPT !.chunks = Append(q, a)]
              /\ shed'[k] = None
    <2> DEFINE p == Append(q, a)
    <2>1. a \in [type : ChunkTypes, n : 0 .. Chunks] /\ a.type = f.type /\ Num(a) = Num(f)
      BY <1>1, <1>3 DEF Chunk, Num
    <2> HIDE DEF a
    <2>2. /\ Len(p) = n + 1 /\ p[n + 1] = a /\ \A i \in 1 .. n : p[i] = q[i]
      <3> HIDE DEF q
      <3>1. /\ Len(p) = Len(q) + 1 /\ p[Len(q) + 1] = a
            /\ \A i \in 1 .. Len(q) : p[i] = q[i]
        BY <1>10, <2>1, Appended
      <3> QED
        BY <3>1 DEF q
    <2>3. /\ call'[c].ch = k /\ call'[c].chunks = p /\ call'[c].got = call[c].got
          /\ call'[c].listed = call[c].listed /\ call'[c].end = call[c].end
      <3>1. call[c] \in CallState
        BY <1>3, CallType
      <3>2. call'[c] = [call[c] EXCEPT !.chunks = p]
        BY <1>12
      <3> HIDE DEF p
      <3> QED
        BY <3>1, <3>2, <1>3 DEF CallState
    <2> HIDE DEF p, q, m, n, w, v, f
    <2>4. \A i \in 1 .. n + 1 : i = n + 1 \/ i \in 1 .. n
      BY <1>10
    <2>5. Flowing(c)' <=> Flowing(c)
      BY <2>3 DEF Flowing
    <2>6. Faulted(c)' <=> Faulted(c) \/ f.type = "fault"
      <3>1. Faulted(c) <=> \E i \in 1 .. n : q[i].type = "fault"
        BY DEF Faulted, n, q
      <3>2. Faulted(c)' <=> \E i \in 1 .. n + 1 : p[i].type = "fault"
        BY <2>2, <2>3 DEF Faulted
      <3>3. n + 1 \in 1 .. n + 1 /\ \A i \in 1 .. n : i \in 1 .. n + 1
        BY <1>10
      <3> QED
        BY <3>1, <3>2, <3>3, <2>1, <2>2, <2>4
    <2>7. EndsOnce(c)'
      <3>1. ASSUME NEW i \in 1 .. n + 1, p[i].type = "eof"
            PROVE  i = n + 1 /\ f.type # "data"
        <4>1. i = n + 1
          BY <3>1, <2>2, <2>4, <1>7
        <4> QED
          BY <4>1, <3>1, <2>1, <2>2
      <3> QED
        BY <3>1, <2>2, <2>3, <1>1, <1>2, <1>3, <1>6, <1>8, <1>9, <1>12 DEF EndsOnce
    <2>8. CancelledFor(c)'
      <3>1. CancelSent(c)' <=> CancelSent(c)
        BY <2>3, <1>2, <1>3 DEF CancelSent
      <3> QED
        BY <3>1, <2>3, <2>5, <2>6, <1>2, <1>3, <1>5 DEF CancelledFor
    <2>9. ASSUME c \notin Follows
          PROVE  InOrder(c)'
      <3> SUFFICES ASSUME Flowing(c), ~Faulted(c), f.type # "fault"
                   PROVE  /\ \A i \in 1 .. m : call[c].got[i] = i
                          /\ \A i \in 1 .. n + 1 : Num(p[i]) = m + i
                          /\ Chained(v, c, m + (n + 1))
                          /\ exec[c].pc = "pumping" /\ ~exec[c].cancelled
                             /\ chan[k].wire => LastSent(v, c, m + (n + 1), exec[c].sent)
        <4>1. Len(call'[c].got) = m
          BY <2>3 DEF m
        <4> QED
          BY <4>1, <2>2, <2>3, <2>5, <2>6, <1>1, <1>2 DEF InOrder
      <3>1. /\ \A i \in 1 .. m : call[c].got[i] = i
            /\ \A i \in 1 .. n : Num(q[i]) = m + i
            /\ Chained(w, c, m + n)
            /\ exec[c].pc = "pumping" /\ ~exec[c].cancelled /\ chan[k].wire =>
                  LastSent(w, c, m + n, exec[c].sent)
        BY <2>9, <1>2, <1>3, <1>5 DEF InOrder, m, n, q, w
      <3>2. Num(f) = (m + n) + 1 /\ Chained(v, c, (m + n) + 1)
        BY <3>1, <1>6, <1>10
      <3>3. (m + n) + 1 = m + (n + 1)
        BY <1>10
      <3>4. exec[c].pc = "pumping" /\ ~exec[c].cancelled /\ chan[k].wire =>
                  LastSent(v, c, (m + n) + 1, exec[c].sent)
        BY <3>1, <3>2, <1>6, <1>10
      <3>5. \A i \in 1 .. n + 1 : Num(p[i]) = m + i
        BY <3>1, <3>2, <3>3, <2>1, <2>2, <2>4
      <3> QED
        BY <3>1, <3>2, <3>3, <3>4, <3>5
    <2>10. CleanKept(c)
      BY <2>3 DEF CleanKept
    <2> QED
      BY <2>7, <2>8, <2>9, <2>10 DEF StreamKept
  <1> QED
    BY <1>1, <1>11, <1>12

LEMMA DeliverChunkFlow ==
    ASSUME TypeOK, TypeOK', Naming, FlowInv, NEW k \in Channels, DeliverChunk(k)
    PROVE  FlowInv'
  <1> DEFINE b == up[k][1].of
  <1>1. /\ up[k] # <<>> /\ up'[k] = Tail(up[k])
        /\ \A g \in Channels : g # k => up'[g] = up[g]
        /\ \A d \in Calls \ {b} : call'[d] = call[d]
        /\ \A g \in Channels : g # k => shed'[g] = shed[g]
        /\ shed'[k] \in {None, b}
    BY DeliverChunkRecord
  <1>2. /\ shed[k] = None /\ UNCHANGED <<chan, down, exec>>
    BY DEF DeliverChunk
  <1>3. ASSUME NEW c \in Streams, call'[c].ch # None
        PROVE  StreamKept(c)' \/ (call[c].ch # None /\ Undisturbed(c))
    <2>1. CASE c = b
      BY <2>1, OwnStream
    <2>2. CASE c # b
      <3>1. c \in Calls /\ call'[c] = call[c] /\ c # None
        BY <2>2, <1>1, ChannelAssumption
      <3>2. CallKept(c) /\ call[c].ch # None /\ call[c].ch \in Channels
        BY <3>1, <1>3, CallFrame, CallType
      <3>3. ChanKept(c, call[c].ch)
        BY <3>1, <3>2, <2>2, <1>1, <1>2 DEF ChanKept
      <3> QED
        BY <3>2, <3>3, <2>2, <1>1, <1>2, OtherStream
    <2> QED
      BY <2>1, <2>2
  <1>4. ASSUME NEW c \in Streams \ Follows
        PROVE  CleanKept(c)
    <2>1. CASE c = b
      BY <2>1, OwnStream
    <2>2. CASE c # b
      BY <2>2, <1>1, ChannelAssumption, CallFrame
    <2> QED
      BY <2>1, <2>2
  <1> QED
    BY <1>3, <1>4, FlowStep

\* The shed stream gets an error to read.
LEMMA ShedChunkFlow ==
    ASSUME TypeOK, TypeOK', Naming, FlowInv, NEW k \in Channels, ShedChunk(k)
    PROVE  FlowInv'
  <1>1. PICK b \in Streams, x \in CallState :
               /\ b = shed[k] /\ call[b].ch = k
               /\ call' = [call EXCEPT ![b] = x]
               /\ shed' = [shed EXCEPT ![k] = None]
               /\ down' = Sent(k, CancelFrame(b))
               /\ x.ch = call[b].ch
               /\ x.got = call[b].got /\ x.end = call[b].end
               /\ Len(x.chunks) \in Nat /\ Len(x.chunks) >= 1
               /\ x.chunks[Len(x.chunks)].type = "fault"
               /\ \A i \in 1 .. Len(x.chunks) : i # Len(x.chunks) =>
                     \E j \in 1 .. Len(call[b].chunks) :
                         x.chunks[i] = call[b].chunks[j] /\ j = i + 1
    BY ShedChunkRecord
  <1>2. /\ UNCHANGED <<chan, up, exec>>
        /\ b \in Calls /\ b # None /\ k # None
    BY ChannelAssumption DEF ShedChunk
  <1>3. /\ call'[b] = x /\ \A d \in Calls \ {b} : call'[d] = call[d]
        /\ shed'[k] = None /\ \A g \in Channels \ {k} : shed'[g] = shed[g]
    BY <1>1, <1>2 DEF TypeOK
  <1>4. EndsOnce(b)
    BY <1>1, <1>2 DEF FlowInv, StreamKept
  <1>5. Faulted(b)'
    <2>1. Len(x.chunks) \in 1 .. Len(x.chunks)
      BY <1>1
    <2> QED
      BY <2>1, <1>1, <1>3 DEF Faulted
  <1>6. EndsOnce(b)'
    <2>1. \A i \in 1 .. Len(call[b].chunks) : call[b].chunks[i].type # "eof"
      BY <1>1, <1>4 DEF EndsOnce
    <2>2. \A i \in 1 .. Len(x.chunks) : x.chunks[i].type # "eof"
      BY <1>1, <2>1
    <2> QED
      BY <2>2, <1>1, <1>2, <1>3, <1>4 DEF EndsOnce
  <1>7. StreamKept(b)'
    BY <1>5, <1>6 DEF StreamKept, CancelledFor, InOrder
  <1> DEFINE f == CancelFrame(b)
  <1>8. f \in FrameState({"cmd", "cancel"}) /\ f.of = b
    <2>1. f \in FrameState({"cmd", "cancel"})
      BY <1>1, <1>2, CallFrames DEF CancelFrame
    <2> QED
      BY <2>1 DEF CancelFrame, Frame
  <1>9. down' = down \/ down' = [down EXCEPT ![k] = Append(@, f)]
    BY <1>1 DEF Sent
  <1> HIDE DEF f
  <1>10. ASSUME NEW c \in Streams, call'[c].ch # None
         PROVE  StreamKept(c)' \/ (call[c].ch # None /\ Undisturbed(c))
    <2>1. CASE c = b
      BY <2>1, <1>7
    <2>2. CASE c # b
      <3> DEFINE h == call[c].ch
      <3>1. c \in Calls /\ call'[c] = call[c] /\ c # None
        BY <2>2, <1>3, ChannelAssumption
      <3>2. CallKept(c) /\ h # None /\ h \in Channels
        BY <3>1, <1>10, CallFrame, CallType
      <3>3. ChanKept(c, h)
        BY <3>1, <3>2, <2>2, <1>1, <1>2, <1>3 DEF ChanKept
      <3>4. LinkKept(up[h], up'[h], c) /\ SentKept(up[h], up'[h], c)
        BY <1>2, LinkSame
      <3>5. ExecKept(c, h)
        BY <3>4, <1>2, ExecFrame
      <3>6. down'[h] = down[h] \/ down'[h] = Append(down[h], f)
        BY <3>2, <1>9 DEF TypeOK
      <3>7. Part(down[h], down[h])
        BY <3>2, LinkType, Parts
      <3>8. CancelKept(c, h)
        BY <3>2, <3>6, <3>7, <2>2, <1>8, CancelFrameKept
      <3> QED
        BY <3>2, <3>3, <3>4, <3>5, <3>8 DEF Undisturbed
    <2> QED
      BY <2>1, <2>2
  <1>11. ASSUME NEW c \in Streams \ Follows
         PROVE  CleanKept(c)
    <2>1. CASE c = b
      BY <2>1, <1>1, <1>3 DEF CleanKept
    <2>2. CASE c # b
      BY <2>2, <1>3, ChannelAssumption, CallFrame
    <2> QED
      BY <2>1, <2>2
  <1> QED
    BY <1>10, <1>11, FlowStep

-----------------------------------------------------------------------------
(* The invariant.                                                          *)

LEMMA InvParts ==
    ChannelInv <=> TypeOK /\ Naming /\ FlowInv
  <1>1. ASSUME ChannelInv PROVE TypeOK /\ Naming /\ FlowInv
    <2>1. TypeOK /\ Naming
      BY <1>1 DEF ChannelInv, Naming
    <2>2. FlowInv
      BY <1>1 DEF ChannelInv, FlowInv, StreamKept
    <2> QED
      BY <2>1, <2>2
  <1>2. ASSUME TypeOK, Naming, FlowInv PROVE ChannelInv
    BY <1>2 DEF ChannelInv, Naming, FlowInv, StreamKept
  <1> QED
    BY <1>1, <1>2

LEMMA InitInv ==
    ASSUME Init
    PROVE  ChannelInv
  <1>1. /\ NoCall.pc = "idle" /\ NoCall.ch = None /\ ~NoCall.listed
        /\ NoCall.res = "none" /\ NoCall.chunks = <<>> /\ NoCall.got = <<>>
        /\ NoCall.end = "none"
        /\ NoExec.pc = "none" /\ ~NoExec.ok /\ NoExec.sent = 0
    BY DEF NoCall, NoExec
  <1>2. /\ \A c \in Calls : call[c] = NoCall /\ exec[c] = NoExec
        /\ \A h \in Channels : /\ up[h] = <<>> /\ down[h] = <<>> /\ nextID[h] = 0
                               /\ shed[h] = None /\ chan[h].cp = "none"
                               /\ chan[h].ag = "none"
        /\ registry = None /\ \A i \in Ids : inflight[i] = None
    BY DEF Init
  <1>3. Cardinality(Calls) \in Nat /\ Cardinality(Opened) \in Nat
    BY OpenedFinite
  <1>4. TypeOK
    <2>1. NoCall \in CallState
      BY <1>3, NothingRead DEF NoCall, CallState, Ends, ResultTypes
    <2>2. NoExec \in ExecState
      BY NothingRead DEF NoExec, ExecState
    <2>3. <<>> \in Seq(FrameState({"cmd", "cancel"}))
          /\ <<>> \in Seq(FrameState(ResultTypes \cup ChunkTypes))
      OBVIOUS
    <2>4. /\ chan \in [Channels -> [cp : {"none", "accepted", "live", "closed"},
                              ag : {"none", "live", "closed"}, wire : BOOLEAN]]
          /\ registry \in Channels \cup {None}
          /\ shed \in [Channels -> Streams \cup {None}]
          /\ inflight \in [Ids -> Calls \cup {None}]
      BY DEF Init
    <2>5. /\ down \in [Channels -> Seq(FrameState({"cmd", "cancel"}))]
          /\ up \in [Channels -> Seq(FrameState(ResultTypes \cup ChunkTypes))]
      BY <2>3 DEF Init
    <2>6. call \in [Calls -> CallState] /\ exec \in [Calls -> ExecState]
      BY <2>1, <2>2 DEF Init
    <2>7. nextID \in [Channels -> 0 .. Cardinality(Calls)]
      BY <1>3 DEF Init
    <2>8. \A c \in Calls : Len(call[c].chunks) <= Buffer
      <3>1. \A c \in Calls : call[c].chunks = <<>>
        BY <1>1, <1>2
      <3> QED
        BY <3>1, NothingRead
    <2> QED
      BY <2>4, <2>5, <2>6, <2>7, <2>8 DEF TypeOK
  <1>5. \A h \in Channels : h # None
    BY ChannelAssumption
  <1>6. \A h \in Channels : ChannelKept(h)
    BY <1>2, <1>3, <1>5 DEF ChannelKept
  <1>7. \A h \in Channels : DownNamed(h) /\ UpNamed(h)
    <2>1. \A h \in Channels : Len(down[h]) = 0 /\ Len(up[h]) = 0
      BY <1>2
    <2> QED
      BY <2>1 DEF DownNamed, UpNamed
  <1>8. \A c \in Calls : CallNamed(c)
    BY <1>1, <1>2 DEF CallNamed
  <1>9. InflightNamed /\ AnswersOwnCall
    BY <1>1, <1>2 DEF InflightNamed, AnswersOwnCall
  <1>10. FlowInv
    BY <1>1, <1>2, ChannelAssumption DEF FlowInv, CleanEndIsComplete
  <1> QED
    BY <1>4, <1>6, <1>7, <1>8, <1>9, <1>10, InvParts DEF Naming

LEMMA CallActions ==
    ASSUME TypeOK, Naming, FlowInv, NEW c \in Calls,
           \/ Open(c) \/ OpenUnavailable(c) \/ CtxEnds(c) \/ CallStep(c) \/ CloseStream(c)
    PROVE  TypeOK' /\ Naming' /\ FlowInv'
  <1>1. CASE Open(c)
    BY <1>1, OpenNames, OpenFlow
  <1>2. CASE OpenUnavailable(c)
    BY <1>2, OpenUnavailableNames, CallerFlow
  <1>3. CASE CtxEnds(c)
    BY <1>3, CtxEndsNames, CallerFlow
  <1>4. CASE WriteCommand(c)
    BY <1>4, WriteCommandNames, WriteCommandFlow
  <1>5. CASE AwaitCanceled(c)
    BY <1>5, AwaitCanceledNames, CallerFlow
  <1>6. CASE AwaitClosed(c)
    BY <1>6, AwaitClosedNames, CallerFlow
  <1>7. CASE AwaitResult(c)
    BY <1>7, AwaitResultNames, CallerFlow
  <1>8. CASE ReadChunk(c)
    BY <1>8, ReadChunkNames, ReadChunkFlow
  <1>9. CASE ReadInterrupted(c)
    BY <1>9, ReadInterruptedNames, CallerFlow
  <1>10. CASE CloseStream(c)
    BY <1>10, CloseStreamNames, CallerFlow
  <1> QED
    BY <1>1, <1>2, <1>3, <1>4, <1>5, <1>6, <1>7, <1>8, <1>9, <1>10 DEF CallStep

LEMMA ExecActions ==
    ASSUME TypeOK, Naming, FlowInv, NEW c \in Calls, ExecStep(c) \/ PumpEnd(c)
    PROVE  TypeOK' /\ Naming' /\ FlowInv'
  <1>1. CASE ExecuteStart(c)
    BY <1>1, ExecuteStartNames, ExecuteFlow
  <1>2. ASSUME NEW ok \in BOOLEAN, ExecuteResult(c, ok)
        PROVE  TypeOK' /\ Naming' /\ FlowInv'
    BY <1>2, ExecuteResultNames, ExecuteResultFlow
  <1>3. CASE PumpChunk(c)
    BY <1>3, PumpChunkNames, PumpChunkFlow
  <1>4. CASE PumpEnd(c)
    BY <1>4, PumpEndNames, PumpEndFlow
  <1>5. CASE SendFails(c)
    BY <1>5, SendFailsNames, ExecuteFlow
  <1>6. CASE ExecuteEnd(c)
    BY <1>6, ExecuteEndNames, ExecuteFlow
  <1> QED
    BY <1>1, <1>2, <1>3, <1>4, <1>5, <1>6 DEF ExecStep

LEMMA ChannelActions ==
    ASSUME TypeOK, Naming, FlowInv, NEW h \in Channels,
           \/ Dial(h) \/ Break(h) \/ CloseAgent(h) \/ AckTimesOut(h)
           \/ OwnerStep(h) \/ AgentReadStep(h)
    PROVE  TypeOK' /\ Naming' /\ FlowInv'
  <1>1. CASE Dial(h)
    BY <1>1, DialNames, ConnectionFlow
  <1>2. CASE Break(h)
    BY <1>2, BreakNames, ConnectionFlow
  <1>3. CASE CloseAgent(h) \/ AckTimesOut(h)
    BY <1>3, CloseAgentNames, ConnectionFlow
  <1>4. CASE Register(h)
    BY <1>4, RegisterNames, ConnectionFlow
  <1>5. CASE CloseCP(h)
    BY <1>5, CloseCPNames, ConnectionFlow
  <1>6. CASE DeliverResult(h)
    BY <1>6, DeliverResultNames, DeliverResultFlow
  <1>7. CASE DeliverChunk(h)
    BY <1>7, DeliverChunkNames, DeliverChunkFlow
  <1>8. CASE ShedChunk(h)
    BY <1>8, ShedChunkNames, ShedChunkFlow
  <1>9. CASE ReceiveCommand(h)
    BY <1>9, ReceiveCommandNames, ReceiveCommandFlow
  <1>10. CASE ReceiveCancel(h)
    BY <1>10, ReceiveCancelNames, ReceiveCancelFlow
  <1> QED
    BY <1>1, <1>2, <1>3, <1>4, <1>5, <1>6, <1>7, <1>8, <1>9, <1>10
       DEF OwnerStep, AgentReadStep

LEMMA Stutters ==
    ASSUME ChannelInv, UNCHANGED vars
    PROVE  ChannelInv'
  <1>1. /\ chan' = chan /\ registry' = registry /\ down' = down /\ up' = up
        /\ nextID' = nextID /\ shed' = shed /\ call' = call /\ exec' = exec
        /\ inflight' = inflight
    BY DEF vars
  <1>2. TypeOK'
    BY <1>1 DEF ChannelInv, TypeOK
  <1>3. \A h \in Channels : ChannelKept(h)'
    BY <1>1 DEF ChannelInv, ChannelKept, Opened
  <1>4. \A h \in Channels : DownNamed(h)' /\ UpNamed(h)'
    BY <1>1 DEF ChannelInv, DownNamed, UpNamed
  <1>5. \A c \in Calls : CallNamed(c)'
    BY <1>1 DEF ChannelInv, CallNamed
  <1>6. InflightNamed' /\ AnswersOwnCall'
    BY <1>1 DEF ChannelInv, InflightNamed, AnswersOwnCall
  <1>7. ASSUME NEW c \in Streams, call'[c].ch # None
        PROVE  EndsOnce(c)' /\ CancelledFor(c)'
    <2>1. EndsOnce(c) /\ CancelledFor(c)
      BY <1>1, <1>7 DEF ChannelInv
    <2>2. EndsOnce(c)'
      BY <1>1, <2>1 DEF EndsOnce
    <2>3. CancelledFor(c)'
      BY <1>1, <2>1 DEF CancelledFor, CancelSent, Flowing, Faulted
    <2> QED
      BY <2>2, <2>3
  <1>8. ASSUME NEW c \in Streams \ Follows, call'[c].ch # None
        PROVE  InOrder(c)'
    <2>1. InOrder(c)
      BY <1>1, <1>8 DEF ChannelInv
    <2> QED
      BY <1>1, <2>1 DEF InOrder, Flowing, Faulted
  <1>9. CleanEndIsComplete'
    BY <1>1 DEF ChannelInv, CleanEndIsComplete
  <1> QED
    BY <1>2, <1>3, <1>4, <1>5, <1>6, <1>7, <1>8, <1>9 DEF ChannelInv

LEMMA NextInv ==
    ASSUME ChannelInv, [Next]_vars
    PROVE  ChannelInv'
  <1>1. TypeOK /\ Naming /\ FlowInv
    BY InvParts
  <1>2. CASE Next
    <2>1. TypeOK' /\ Naming' /\ FlowInv'
      BY <1>1, <1>2, CallActions, ExecActions, ChannelActions DEF Next
    <2>2. ChannelInv' <=> TypeOK' /\ Naming' /\ FlowInv'
      BY InvParts, PTL
    <2> QED
      BY <2>1, <2>2
  <1>3. CASE UNCHANGED vars
    BY <1>3, Stutters
  <1> QED
    BY <1>2, <1>3

\* Every frame names its call and every stream is in order, ended once, and
\* cancelled only when its reader no longer counts on it, whatever the calls,
\* the callers' contexts, both read loops and the network do.
THEOREM ChannelInvariant == Spec => []ChannelInv
  <1>1. Init => ChannelInv
    BY InitInv
  <1>2. ChannelInv /\ [Next]_vars => ChannelInv'
    BY NextInv
  <1> QED
    BY <1>1, <1>2, PTL DEF Spec

\* Conn.DeliverResult looks a result up by the id alone; still it is delivered
\* to the call it answers, and a call succeeds only if its own command did.
THEOREM AnswersReachCall == Spec => []AnswersOwnCall
  <1>1. ChannelInv => AnswersOwnCall
    BY DEF ChannelInv
  <1> QED
    BY <1>1, ChannelInvariant, PTL

\* stream.Read returns io.EOF only to a reader that has every chunk of the
\* stream, in the order PumpReader sent them: a chunk that DeliverChunk shed,
\* a cancellation and a lost connection are always reported as an error.
THEOREM CleanEnds == Spec => []CleanEndIsComplete
  <1>1. ChannelInv => CleanEndIsComplete
    BY DEF ChannelInv
  <1> QED
    BY <1>1, ChannelInvariant, PTL

=============================================================================
