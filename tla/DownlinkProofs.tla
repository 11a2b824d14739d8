--------------------------- MODULE DownlinkProofs ---------------------------
(***************************************************************************)
(* Proofs about Downlink and the Player in it, for any connections,        *)
(* capacities and depths of the playout buffer: audio reaches the client   *)
(* in order, playback never goes back, and what a BARGE_IN leaves behind.  *)
(***************************************************************************)
EXTENDS Downlink, FiniteSetTheorems, TLAPS

(* Only the attached connection's line can be up, and a writer that is     *)
(* about to write has a message in hand.                                   *)
LineInv ==
  \A c \in Conns :
    /\ line[c] = "up" => att = c
    /\ att = c => line[c] # "none"
    /\ line[c] = "none" <=> wr[c] = "none"
    /\ wr[c] = "write" => msg[c] \in Message

(* What the client may still get: the message of the writer whose line is  *)
(* up, the wire queue, the frame in the pump's hand.                       *)
Held(c) == line[c] = "up" /\ wr[c] = "write"
HeldAudio(c) == Held(c) /\ msg[c].kind = "audio"
Before(f, g) == f.ts < g.ts /\ f.turn <= g.turn

(* A frame the pump has yet to take comes after f.                         *)
BeforeRest(f) ==
  /\ f.ts < clock /\ f.turn <= turn
  /\ \A i \in DOMAIN egress : f.turn <= egress[i]

(* f, which is ahead of the pump, comes before what the pump has.          *)
BeforePump(f) == BeforeRest(f) /\ (hand # None => Before(f, hand))

(* f, which is ahead of the wire queue, comes before what is queued.       *)
BeforeWire(f) ==
  /\ BeforePump(f)
  /\ \A j \in DOMAIN wire : wire[j].kind = "audio" => Before(f, wire[j])

OrderInv ==
  /\ \A i, j \in DOMAIN egress : i < j => egress[i] <= egress[j]
  /\ \A i \in DOMAIN egress : egress[i] <= turn
  /\ hand # None => hand.kind = "audio" /\ hand.ts + 1 = clock /\ BeforeRest(hand)
  /\ \A i \in DOMAIN wire : wire[i].kind = "audio" =>
       /\ BeforePump(wire[i])
       /\ \A j \in DOMAIN wire : i < j /\ wire[j].kind = "audio" => Before(wire[i], wire[j])
  /\ \A c \in Conns : HeldAudio(c) => BeforeWire(msg[c])
  /\ \A i \in DOMAIN audio :
       /\ BeforeWire(audio[i])
       /\ \A c \in Conns : HeldAudio(c) => Before(audio[i], msg[c])
  /\ AudioInOrder

(* Playback, and all the playout buffer holds, lies below timestamp n.     *)
HeardBelow(n) ==
  /\ played <= n
  /\ \A i \in DOMAIN sched : sched[i].ts < n
  /\ \A i \in DOMAIN queue : queue[i].ts < n

PlayInv ==
  /\ \A i \in DOMAIN sched : played <= sched[i].ts
  /\ \A i, j \in DOMAIN sched : i < j => sched[i].ts < sched[j].ts
  /\ \A i, j \in DOMAIN queue : i < j => queue[i].ts < queue[j].ts
  /\ \A i \in DOMAIN queue : played <= queue[i].ts
  /\ \A i \in DOMAIN sched, j \in DOMAIN queue : sched[i].ts < queue[j].ts
  /\ HeardBelow(clock)
  /\ hand # None => HeardBelow(hand.ts)
  /\ \A i \in DOMAIN wire : wire[i].kind = "audio" => HeardBelow(wire[i].ts)
  /\ \A c \in Conns : HeldAudio(c) => HeardBelow(msg[c].ts)

(* m may follow the BARGE_IN of turn t sent when the clock was at k: audio *)
(* of that turn or before has one timestamp, k - 1, and no subtitle is.    *)
After(m, t, k) ==
  /\ m.kind = "audio" => m.ts + 1 >= k /\ (m.turn <= t => m.ts < k)
  /\ m.kind = "token" => m.turn > t

(* Upstream of the wire queue turn t is over but for the frame in hand.    *)
Over(t, k) ==
  /\ k <= clock /\ (turn > t \/ (turn = t /\ phase = "idle"))
  /\ \A i \in DOMAIN egress : egress[i] > t
  /\ hand # None => After(hand, t, k)

OverOnWire(t, k) == Over(t, k) /\ \A j \in DOMAIN wire : After(wire[j], t, k)

HeardInv(t, n, k) ==
  /\ OverOnWire(t, k)
  /\ \A c \in Conns : Held(c) => After(msg[c], t, k)
  /\ n <= Len(audio)
  /\ \A i \in n + 1 .. Len(audio) :
       audio[i].ts + 1 >= k /\ (audio[i].turn <= t => audio[i].ts < k)
  /\ \A i \in DOMAIN pending : pending[i].turn > t

BargeInv ==
  /\ phase \in {"drain", "notify", "running"} => turn \in Turns
  /\ phase = "notify" => egress = << >>
  /\ turn <= MaxTurns
  /\ \A i \in DOMAIN wire : wire[i].kind = "bargeIn" =>
       /\ wire[i].turn \in Turns /\ Over(wire[i].turn, wire[i].ts)
       /\ \A j \in DOMAIN wire : i < j => After(wire[j], wire[i].turn, wire[i].ts)
  /\ \A c \in Conns : Held(c) /\ msg[c].kind = "bargeIn" =>
       msg[c].turn \in Turns /\ OverOnWire(msg[c].turn, msg[c].ts)
  /\ \A t \in Turns : heardOf[t] # None =>
       \E k \in Nat : HeardInv(t, heardOf[t], k)

DownlinkInv == TypeOK /\ LineInv /\ OrderInv /\ PlayInv /\ BargeInv
-----------------------------------------------------------------------------
(* Sequences by their indices: one more at the end, one less at the head,  *)
(* one put behind another.                                                 *)

LEMMA Sent ==
  ASSUME NEW S, NEW q \in Seq(S), NEW m \in S
  PROVE  /\ Len(q) \in Nat /\ DOMAIN q = 1 .. Len(q)
         /\ Append(q, m) \in Seq(S) /\ Len(Append(q, m)) = Len(q) + 1
         /\ DOMAIN Append(q, m) = 1 .. Len(q) + 1
         /\ Append(q, m)[Len(q) + 1] = m
         /\ \A i \in 1 .. Len(q) : Append(q, m)[i] = q[i]
<1>1. Len(q) \in Nat /\ DOMAIN q = 1 .. Len(q)
  OBVIOUS
<1>2. Append(q, m) \in Seq(S) /\ Len(Append(q, m)) = Len(q) + 1
  OBVIOUS
<1>3. DOMAIN Append(q, m) = 1 .. Len(q) + 1
  BY <1>1, <1>2
<1>4. Append(q, m)[Len(q) + 1] = m /\ \A i \in 1 .. Len(q) : Append(q, m)[i] = q[i]
  OBVIOUS
<1> QED BY <1>1, <1>2, <1>3, <1>4

LEMMA Taken ==
  ASSUME NEW S, NEW q \in Seq(S), q # << >>
  PROVE  /\ Len(q) \in Nat \ {0} /\ DOMAIN q = 1 .. Len(q)
         /\ Head(q) = q[1] /\ Head(q) \in S
         /\ Tail(q) \in Seq(S) /\ Len(Tail(q)) = Len(q) - 1
         /\ DOMAIN Tail(q) = 1 .. Len(q) - 1
         /\ \A i \in 1 .. Len(q) - 1 : Tail(q)[i] = q[i + 1]
<1>1. Len(q) \in Nat \ {0} /\ DOMAIN q = 1 .. Len(q) /\ Head(q) = q[1] /\ Head(q) \in S
  OBVIOUS
<1>2. Tail(q) \in Seq(S) /\ Len(Tail(q)) = Len(q) - 1
  OBVIOUS
<1>3. DOMAIN Tail(q) = 1 .. Len(q) - 1
  BY <1>1, <1>2
<1>4. \A i \in 1 .. Len(q) - 1 : Tail(q)[i] = q[i + 1]
  OBVIOUS
<1> QED BY <1>1, <1>2, <1>3, <1>4

LEMMA Joined ==
  ASSUME NEW S, NEW p \in Seq(S), NEW q \in Seq(S)
  PROVE  /\ Len(p) \in Nat /\ Len(q) \in Nat /\ DOMAIN p = 1 .. Len(p) /\ DOMAIN q = 1 .. Len(q)
         /\ p \o q \in Seq(S) /\ DOMAIN (p \o q) = 1 .. Len(p) + Len(q)
         /\ \A i \in 1 .. Len(p) : (p \o q)[i] = p[i]
         /\ \A i \in 1 .. Len(q) : (p \o q)[Len(p) + i] = q[i]
         /\ \A i \in 1 .. Len(p) + Len(q) : i \in 1 .. Len(p) \/ i - Len(p) \in 1 .. Len(q)
<1>1. Len(p) \in Nat /\ Len(q) \in Nat /\ DOMAIN p = 1 .. Len(p) /\ DOMAIN q = 1 .. Len(q)
  OBVIOUS
<1>2. p \o q \in Seq(S) /\ Len(p \o q) = Len(p) + Len(q)
  OBVIOUS
<1>3. DOMAIN (p \o q) = 1 .. Len(p) + Len(q)
  BY <1>1, <1>2
<1>4. \A i \in 1 .. Len(p) : (p \o q)[i] = p[i]
  OBVIOUS
<1>5. \A i \in 1 .. Len(q) : (p \o q)[Len(p) + i] = q[i]
  OBVIOUS
<1>6. \A i \in 1 .. Len(p) + Len(q) : i \in 1 .. Len(p) \/ i - Len(p) \in 1 .. Len(q)
  BY <1>1
<1> QED BY <1>1, <1>2, <1>3, <1>4, <1>5, <1>6

(* The clock flush moves to is the end of the last frame of the playout    *)
(* buffer, or stays: there is a last one, because they are in order.       *)
LEMMA Flushed ==
  ASSUME TypeOK, PlayInv, PlayerFlush
  PROVE  LET ends == {played} \cup {sched[i].ts + 1 : i \in DOMAIN sched}
                              \cup {queue[i].ts + 1 : i \in DOMAIN queue}
         IN  played' \in ends /\ \A x \in ends : x <= played'
<1> DEFINE ends == {played} \cup {sched[i].ts + 1 : i \in DOMAIN sched}
                            \cup {queue[i].ts + 1 : i \in DOMAIN queue}
<1>1. /\ played \in Nat /\ Len(sched) \in Nat /\ DOMAIN sched = 1 .. Len(sched)
      /\ Len(queue) \in Nat /\ DOMAIN queue = 1 .. Len(queue)
      /\ \A i \in DOMAIN sched : sched[i].ts \in Nat
      /\ \A i \in DOMAIN queue : queue[i].ts \in Nat
  <2>1. queue \in Seq(Frame) /\ sched \in Seq(Frame) /\ played \in Nat
    BY DEF TypeOK
  <2>2. \A f \in Frame : f.ts \in Nat
    BY DEF Frame
  <2> HIDE DEF Frame
  <2>3. \A i \in DOMAIN sched : sched[i] \in Frame
    BY <2>1
  <2>4. \A i \in DOMAIN queue : queue[i] \in Frame
    BY <2>1
  <2> QED BY <2>1, <2>2, <2>3, <2>4
<1>2. \E e \in ends : \A x \in ends : x <= e
  <2>1. CASE queue # << >>
    <3>1. Len(queue) \in DOMAIN queue
      BY <1>1, <2>1 DEF TypeOK
    <3>2. /\ \A i \in DOMAIN queue : queue[i].ts <= queue[Len(queue)].ts
          /\ \A i \in DOMAIN sched : sched[i].ts < queue[Len(queue)].ts
          /\ played <= queue[Len(queue)].ts
      BY <1>1, <3>1 DEF PlayInv
    <3>3. \A x \in ends : x <= queue[Len(queue)].ts + 1
      BY <1>1, <3>1, <3>2
    <3> QED BY <3>1, <3>3
  <2>2. CASE queue = << >> /\ sched # << >>
    <3>1. Len(sched) \in DOMAIN sched /\ DOMAIN queue = {}
      BY <1>1, <2>2 DEF TypeOK
    <3>2. /\ \A i \in DOMAIN sched : sched[i].ts <= sched[Len(sched)].ts
          /\ played <= sched[Len(sched)].ts
      BY <1>1, <3>1 DEF PlayInv
    <3>3. \A x \in ends : x <= sched[Len(sched)].ts + 1
      BY <1>1, <3>1, <3>2
    <3> QED BY <3>1, <3>3
  <2>3. CASE queue = << >> /\ sched = << >>
    <3>1. DOMAIN sched = {} /\ DOMAIN queue = {}
      BY <1>1, <2>3
    <3> QED BY <1>1, <3>1
  <2> QED BY <2>1, <2>2, <2>3
<1>3. played' = CHOOSE e \in ends : \A x \in ends : x <= e
  BY DEF PlayerFlush
<1> HIDE DEF ends
<1>4. played' \in ends /\ \A x \in ends : x <= played'
  BY <1>2, <1>3
<1> QED BY <1>4 DEF ends

LEMMA DownlinkInit == Init => DownlinkInv
<1> SUFFICES ASSUME Init PROVE DownlinkInv
  OBVIOUS
<1> USE DownlinkAssumption, PlayerAssumption DEF Init, PlayerInit
<1>1. TypeOK
  <2>1. \A S : << >> \in Seq(S)
    OBVIOUS
  <2>2. heardOf \in [Turns -> Nat \cup {None}] /\ msg \in [Conns -> Message \cup {None}]
    OBVIOUS
  <2> QED BY <2>1, <2>2 DEF TypeOK
<1>2. LineInv
  BY DEF LineInv
<1>3. OrderInv
  BY DEF OrderInv, HeldAudio, Held, AudioInOrder
<1>4. PlayInv
  BY DEF PlayInv, HeardBelow, HeldAudio, Held
<1>5. BargeInv
  BY DEF BargeInv, Held
<1> QED BY <1>1, <1>2, <1>3, <1>4, <1>5 DEF DownlinkInv

(* Fields of what is in the sequences.                                     *)
LEMMA Typed ==
  ASSUME TypeOK
  PROVE  /\ \A i \in DOMAIN wire : wire[i] \in Message
         /\ \A i \in DOMAIN audio : audio[i] \in Frame
         /\ \A i \in DOMAIN sched : sched[i] \in Frame
         /\ \A i \in DOMAIN queue : queue[i] \in Frame
         /\ \A i \in DOMAIN pending : pending[i] \in Frame
         /\ \A i \in DOMAIN egress : egress[i] \in Nat
<1> USE DEF TypeOK
<1>1. \A i \in DOMAIN wire : wire[i] \in Message
  OBVIOUS
<1>2. \A i \in DOMAIN audio : audio[i] \in Frame
  OBVIOUS
<1>3. \A i \in DOMAIN sched : sched[i] \in Frame
  OBVIOUS
<1>4. \A i \in DOMAIN queue : queue[i] \in Frame
  OBVIOUS
<1>5. \A i \in DOMAIN pending : pending[i] \in Frame
  OBVIOUS
<1>6. \A i \in DOMAIN egress : egress[i] \in Nat
  OBVIOUS
<1> QED BY <1>1, <1>2, <1>3, <1>4, <1>5, <1>6

LEMMA Fields ==
  /\ \A m \in Message : m.turn \in Nat /\ m.ts \in Nat /\ [turn |-> m.turn, ts |-> m.ts] \in Frame
  /\ \A f \in Frame : f.turn \in Nat /\ f.ts \in Nat
BY DEF Message, Frame

LEMMA TrySent ==
  ASSUME TypeOK, NEW m \in Message, TrySend(m)
  PROVE  wire' \in Seq(Message) /\ (wire' = wire \/ wire' = Append(wire, m))
BY Sent DEF TypeOK, TrySend

(* The types of the playout buffer, and what the client's steps keep.      *)
PlayerTypes ==
  /\ queue \in Seq(Frame) /\ sched \in Seq(Frame) /\ playing \in BOOLEAN
  /\ depth \in Nat /\ played \in Nat /\ pending \in Seq(Frame)
ClientTypes ==
  PlayerTypes /\ audio \in Seq(Frame) /\ heardOf \in [Turns -> Nat \cup {None}]
ServerTypes ==
  /\ turn \in Nat /\ phase \in {"idle", "running", "drain", "notify"}
  /\ frames \in Nat /\ tokens \in Nat /\ finals \in Nat
  /\ egress \in Seq(Nat) /\ hand \in Message \cup {None} /\ clock \in Nat
  /\ wire \in Seq(Message)
LineTypes ==
  /\ att \in Conns \cup {None}
  /\ line \in [Conns -> {"none", "up", "broken", "closed"}]
  /\ wr \in [Conns -> {"none", "ack", "loop", "write", "exited"}]
  /\ msg \in [Conns -> Message \cup {None}]

LEMMA TypeParts == TypeOK <=> ServerTypes /\ LineTypes /\ ClientTypes
BY DEF TypeOK, ServerTypes, LineTypes, ClientTypes, PlayerTypes

LEMMA TypePartsNext == ServerTypes' /\ LineTypes' /\ ClientTypes' => TypeOK'
BY DEF TypeOK, ServerTypes, LineTypes, ClientTypes, PlayerTypes

LEMMA PlayerTypeStep ==
  ASSUME DownlinkInv, NEW f \in Frame,
         \/ PlayerPush(f) \/ PlayerToken(f) \/ PlayerClear \/ PlayerFlush
         \/ SourceEnds \/ Reveal
  PROVE  PlayerTypes'
<1>0. TypeOK /\ PlayInv /\ PlayerTypes
  BY TypeParts DEF DownlinkInv, ClientTypes
<1>1. CASE PlayerPush(f)
  <2>1. Append(queue, f) \in Seq(Frame)
    BY <1>0 DEF PlayerTypes
  <2>2. sched \o Append(queue, f) \in Seq(Frame) /\ << >> \in Seq(Frame)
    BY <1>0, <2>1 DEF PlayerTypes
  <2> DEFINE q == Append(queue, f)
             play == playing \/ Len(q) >= depth
  <2>3. /\ playing' = play /\ queue' = (IF play THEN << >> ELSE q)
        /\ sched' = (IF play THEN sched \o q ELSE sched) /\ UNCHANGED <<depth, played, pending>>
    BY <1>1 DEF PlayerPush
  <2>4. play \in BOOLEAN
    BY <1>0 DEF PlayerTypes
  <2> HIDE DEF q, play
  <2>5. queue' \in Seq(Frame) /\ sched' \in Seq(Frame)
    BY <1>0, <2>1, <2>2, <2>3 DEF PlayerTypes, q
  <2> QED BY <1>0, <2>3, <2>4, <2>5 DEF PlayerTypes
<1>2. CASE PlayerToken(f)
  <2>1. Append(pending, f) \in Seq(Frame)
    BY <1>0 DEF PlayerTypes
  <2> QED BY <1>0, <1>2, <2>1 DEF PlayerToken, PlayerTypes
<1>3. CASE PlayerClear
  <2>1. << >> \in Seq(Frame)
    OBVIOUS
  <2> QED BY <1>0, <1>3, <2>1 DEF PlayerClear, PlayerTypes
<1>4. CASE PlayerFlush
  <2>1. << >> \in Seq(Frame)
    OBVIOUS
  <2>2. played' \in Nat
    <3>1. \A i \in DOMAIN sched : sched[i].ts + 1 \in Nat
      BY <1>0, Typed, Fields
    <3>2. \A i \in DOMAIN queue : queue[i].ts + 1 \in Nat
      BY <1>0, Typed, Fields
    <3> QED BY <1>0, <1>4, <3>1, <3>2, Flushed DEF PlayerTypes
  <2> QED BY <1>0, <1>4, <2>1, <2>2 DEF PlayerFlush, PlayerTypes
<1>5. CASE SourceEnds
  <2>1. sched \in Seq(Frame) /\ sched # << >>
    BY <1>0, <1>5 DEF SourceEnds, PlayerTypes
  <2>2. Tail(sched) \in Seq(Frame) /\ Head(sched) \in Frame
    BY <2>1, Taken
  <2>3. Head(sched).ts + 1 \in Nat
    BY <2>2, Fields
  <2>4. playing' \in BOOLEAN /\ depth' \in Nat
    <3>1. \/ UNCHANGED <<playing, depth>>
          \/ playing' = FALSE /\ (depth' = depth \/ depth' = depth + 1)
      BY <1>5 DEF SourceEnds
    <3>2. depth \in Nat /\ depth + 1 \in Nat /\ playing \in BOOLEAN
      BY <1>0 DEF PlayerTypes
    <3> QED BY <3>1, <3>2
  <2> QED BY <1>0, <1>5, <2>2, <2>3, <2>4 DEF SourceEnds, PlayerTypes
<1>6. CASE Reveal
  <2>1. Tail(pending) \in Seq(Frame)
    BY <1>0, <1>6 DEF Reveal, PlayerTypes
  <2> QED BY <1>0, <1>6, <2>1 DEF Reveal, PlayerTypes
<1> QED BY <1>1, <1>2, <1>3, <1>4, <1>5, <1>6

LEMMA ClientTypeStep ==
  ASSUME DownlinkInv, NEW m \in Message, Receive(m)
  PROVE  ClientTypes'
<1>0. ClientTypes
  BY TypeParts DEF DownlinkInv
<1> DEFINE f == [turn |-> m.turn, ts |-> m.ts]
<1>1. f \in Frame /\ m.turn \in Nat
  BY Fields
<1>2. PlayerTypes'
  <2> HIDE DEF f
  <2>1. PlayerPush(f) \/ PlayerToken(f) \/ PlayerClear \/ PlayerFlush
    BY DEF Receive, f
  <2> QED BY <1>1, <2>1, PlayerTypeStep
<1>3. audio' \in Seq(Frame)
  <2>1. Append(audio, f) \in Seq(Frame)
    <3> HIDE DEF f
    <3> QED BY <1>0, <1>1 DEF ClientTypes
  <2> QED BY <1>0, <2>1 DEF Receive, ClientTypes
<1>4. heardOf' \in [Turns -> Nat \cup {None}]
  <2>1. Len(audio) \in Nat
    BY <1>0 DEF ClientTypes
  <2>2. heardOf' = heardOf \/ heardOf' = [heardOf EXCEPT ![m.turn] = Len(audio)]
    BY DEF Receive
  <2> QED BY <1>0, <2>1, <2>2 DEF ClientTypes
<1> QED BY <1>2, <1>3, <1>4 DEF ClientTypes

LEMMA ServerTypeStep ==
  ASSUME DownlinkInv,
         \/ StartTurn \/ Emit \/ Token \/ Final \/ FinishTurn \/ CancelTurn \/ Drain \/ Notify
         \/ PumpTake \/ PumpSend \/ \E c \in Conns : Take(c)
  PROVE  ServerTypes'
<1>0. TypeOK /\ ServerTypes
  BY TypeParts DEF DownlinkInv
<1> USE DEF ServerTypes
<1>1. CASE StartTurn \/ FinishTurn \/ CancelTurn
  BY <1>0, <1>1 DEF StartTurn, FinishTurn, CancelTurn
<1>2. CASE Emit
  <2>1. egress' = Append(egress, turn)
        \/ (egress # << >> /\ egress' = Append(Tail(egress), turn))
    BY <1>0, <1>2, DownlinkAssumption DEF Emit
  <2>2. egress # << >> => Tail(egress) \in Seq(Nat)
    BY <1>0
  <2>3. egress' \in Seq(Nat)
    <3>1. turn \in Nat /\ egress \in Seq(Nat)
      BY <1>0
    <3>2. \A q \in Seq(Nat) : Append(q, turn) \in Seq(Nat)
      BY <3>1
    <3> QED BY <2>1, <2>2, <3>1, <3>2
  <2> QED BY <1>0, <1>2, <2>3 DEF Emit
<1>3. CASE Token \/ Final \/ Notify
  <2>1. PICK m \in Message : TrySend(m)
    BY <1>0, <1>3 DEF Token, Final, Notify, Message
  <2>2. wire' \in Seq(Message)
    BY <1>0, <2>1, TrySent
  <2>3. CASE Token
    BY <1>0, <2>2, <2>3 DEF Token
  <2>4. CASE Final \/ Notify
    BY <1>0, <2>2, <2>4 DEF Final, Notify
  <2> QED BY <1>3, <2>3, <2>4
<1>4. CASE Drain
  BY <1>0, <1>4 DEF Drain
<1>5. CASE PumpTake
  <2>1. egress \in Seq(Nat) /\ egress # << >>
    BY <1>0, <1>5 DEF PumpTake
  <2>2. Tail(egress) \in Seq(Nat) /\ Head(egress) \in Nat
    BY <2>1, Taken
  <2>3. hand' \in Message
    BY <1>0, <1>5, <2>2 DEF PumpTake, Message
  <2> QED BY <1>0, <1>5, <2>2, <2>3 DEF PumpTake, turnVars
<1>6. CASE PumpSend
  <2>1. Append(wire, hand) \in Seq(Message)
    BY <1>0, <1>6 DEF PumpSend
  <2> QED BY <1>0, <1>6, <2>1 DEF PumpSend, turnVars
<1>7. ASSUME NEW c \in Conns, Take(c) PROVE ServerTypes'
  <2>1. Tail(wire) \in Seq(Message)
    BY <1>0, <1>7 DEF Take
  <2> QED BY <1>0, <1>7, <2>1 DEF Take, turnVars
<1> QED BY <1>1, <1>2, <1>3, <1>4, <1>5, <1>6, <1>7

LEMMA TypeStep == DownlinkInv /\ [Next]_vars => TypeOK'
<1> SUFFICES ASSUME DownlinkInv, [Next]_vars PROVE TypeOK'
  OBVIOUS
<1>0. ServerTypes /\ LineTypes /\ ClientTypes /\ LineInv /\ TypeOK
  BY TypeParts DEF DownlinkInv
<1> USE DEF turnVars, connVars, clientVars, playerVars
<1>1. CASE \/ StartTurn \/ Emit \/ Token \/ Final \/ FinishTurn \/ CancelTurn \/ Drain \/ Notify
           \/ PumpTake \/ PumpSend
  <2>1. UNCHANGED <<connVars, clientVars>>
    BY <1>1 DEF StartTurn, Emit, Token, Final, FinishTurn, CancelTurn, Drain, Notify,
                PumpTake, PumpSend
  <2>2. LineTypes' /\ ClientTypes'
    BY <1>0, <2>1 DEF LineTypes, ClientTypes, PlayerTypes
  <2> QED BY <1>1, <2>2, ServerTypeStep, TypePartsNext
<1>2. ASSUME NEW c \in Conns, Take(c) PROVE TypeOK'
  <2>1. Head(wire) \in Message /\ UNCHANGED clientVars
    BY <1>0, <1>2, Taken DEF Take, ServerTypes
  <2>2. LineTypes' /\ ClientTypes'
    BY <1>0, <1>2, <2>1 DEF Take, LineTypes, ClientTypes, PlayerTypes
  <2> QED BY <1>2, <2>2, ServerTypeStep, TypePartsNext
<1>3. ASSUME NEW c \in Conns,
             \/ Attach(c) \/ Break(c) \/ SendAck(c) \/ Write(c) \/ WriteFails(c) \/ WriterExits(c)
      PROVE  TypeOK'
  <2>1. ServerTypes'
    <3>1. UNCHANGED <<turnVars, egress, hand, clock, wire>>
      BY <1>3 DEF Attach, Break, SendAck, Write, WriteFails, WriterExits
    <3> QED BY <1>0, <3>1 DEF ServerTypes
  <2>2. LineTypes'
    <3>1. CASE Attach(c) \/ Break(c) \/ SendAck(c)
      BY <1>0, <3>1 DEF LineTypes, Attach, Break, SendAck
    <3>2. CASE Write(c) \/ WriteFails(c) \/ WriterExits(c)
      BY <1>0, <3>2 DEF LineTypes, Write, WriteFails, WriterExits
    <3> QED BY <1>3, <3>1, <3>2
  <2>3. CASE UNCHANGED clientVars
    <3>1. ClientTypes'
      BY <1>0, <2>3 DEF ClientTypes, PlayerTypes
    <3> QED BY <2>1, <2>2, <3>1, TypePartsNext
  <2>4. CASE Write(c) /\ Receive(msg[c])
    <3>1. msg[c] \in Message
      BY <1>0, <2>4 DEF Write, LineInv
    <3> QED BY <2>1, <2>2, <2>4, <3>1, ClientTypeStep, TypePartsNext
  <2> QED BY <1>3, <2>3, <2>4 DEF Attach, Break, SendAck, Write, WriteFails, WriterExits
<1>4. CASE Play
  <2>1. PlayerTypes'
    <3>1. [turn |-> 0, ts |-> 0] \in Frame
      BY DEF Frame
    <3> QED BY <1>4, <3>1, PlayerTypeStep DEF Play
  <2>2. ServerTypes' /\ LineTypes' /\ ClientTypes'
    BY <1>0, <1>4, <2>1 DEF Play, ServerTypes, LineTypes, ClientTypes
  <2> QED BY <2>2, TypePartsNext
<1>5. CASE UNCHANGED vars
  <2>1. ServerTypes' /\ LineTypes' /\ ClientTypes'
    BY <1>0, <1>5 DEF vars, ServerTypes, LineTypes, ClientTypes, PlayerTypes
  <2> QED BY <2>1, TypePartsNext
<1> QED BY <1>1, <1>2, <1>3, <1>4, <1>5 DEF Next

LEMMA LineStep == DownlinkInv /\ [Next]_vars => LineInv'
<1> SUFFICES ASSUME DownlinkInv, [Next]_vars PROVE LineInv'
  OBVIOUS
<1>0. LineTypes /\ LineInv /\ TypeOK
  BY TypeParts DEF DownlinkInv
<1> USE DownlinkAssumption DEF LineInv, LineTypes
<1>1. CASE UNCHANGED connVars
  BY <1>0, <1>1 DEF connVars
<1>2. ASSUME NEW c \in Conns, Take(c) PROVE LineInv'
  <2>1. Head(wire) \in Message
    BY <1>0, <1>2, Taken DEF Take, TypeOK
  <2> QED BY <1>0, <1>2, <2>1 DEF Take
<1>3. ASSUME NEW c \in Conns, Attach(c) PROVE LineInv'
  BY <1>0, <1>3 DEF Attach
<1>4. ASSUME NEW c \in Conns, Break(c) \/ SendAck(c) \/ WriterExits(c) PROVE LineInv'
  BY <1>0, <1>4 DEF Break, SendAck, WriterExits
<1>5. ASSUME NEW c \in Conns, Write(c) \/ WriteFails(c) PROVE LineInv'
  BY <1>0, <1>5 DEF Write, WriteFails
<1>6. CASE \/ StartTurn \/ Emit \/ Token \/ Final \/ FinishTurn \/ CancelTurn \/ Drain \/ Notify
           \/ PumpTake \/ PumpSend \/ Play
  BY <1>1, <1>6 DEF StartTurn, Emit, Token, Final, FinishTurn, CancelTurn, Drain, Notify,
                    PumpTake, PumpSend, Play
<1>7. CASE UNCHANGED vars
  BY <1>1, <1>7 DEF vars, connVars
<1> QED BY <1>2, <1>3, <1>4, <1>5, <1>6, <1>7 DEF Next
-----------------------------------------------------------------------------
(* Each stage of the way down takes from the one above and hands on below, *)
(* and none but these steps moves anything.                                *)

LEMMA EgressMoves ==
  ASSUME [Next]_vars
  PROVE  \/ Emit \/ Drain \/ PumpTake
         \/ StartTurn /\ UNCHANGED <<egress, clock>>
         \/ UNCHANGED <<turn, egress, clock>>
<1> USE DEF turnVars, connVars, clientVars
<1>1. CASE \/ StartTurn \/ Emit \/ Token \/ Final \/ FinishTurn \/ CancelTurn \/ Drain \/ Notify
           \/ PumpTake \/ PumpSend \/ Play
  BY <1>1 DEF StartTurn, Token, Final, FinishTurn, CancelTurn, Notify, PumpSend, Play
<1>2. ASSUME NEW c \in Conns,
             \/ Attach(c) \/ Break(c) \/ SendAck(c) \/ Take(c) \/ Write(c)
             \/ WriteFails(c) \/ WriterExits(c)
      PROVE  UNCHANGED <<turn, egress, clock>>
  BY <1>2 DEF Attach, Break, SendAck, Take, Write, WriteFails, WriterExits
<1>3. CASE UNCHANGED vars
  BY <1>3 DEF vars
<1> QED BY <1>1, <1>2, <1>3 DEF Next

LEMMA HandMoves ==
  ASSUME [Next]_vars
  PROVE  PumpTake \/ PumpSend \/ UNCHANGED hand
<1> USE DEF turnVars, connVars, clientVars
<1>1. CASE \/ StartTurn \/ Emit \/ Token \/ Final \/ FinishTurn \/ CancelTurn \/ Drain \/ Notify
           \/ PumpTake \/ PumpSend \/ Play
  BY <1>1 DEF StartTurn, Emit, Token, Final, FinishTurn, CancelTurn, Drain, Notify, Play
<1>2. ASSUME NEW c \in Conns,
             \/ Attach(c) \/ Break(c) \/ SendAck(c) \/ Take(c) \/ Write(c)
             \/ WriteFails(c) \/ WriterExits(c)
      PROVE  UNCHANGED hand
  BY <1>2 DEF Attach, Break, SendAck, Take, Write, WriteFails, WriterExits
<1>3. CASE UNCHANGED vars
  BY <1>3 DEF vars
<1> QED BY <1>1, <1>2, <1>3 DEF Next

LEMMA WireMoves ==
  ASSUME [Next]_vars
  PROVE  \/ Token \/ Final \/ Notify \/ PumpSend
         \/ \E c \in Conns : Take(c)
         \/ UNCHANGED wire
<1> USE DEF turnVars, connVars, clientVars
<1>1. CASE \/ StartTurn \/ Emit \/ Token \/ Final \/ FinishTurn \/ CancelTurn \/ Drain \/ Notify
           \/ PumpTake \/ PumpSend \/ Play
  BY <1>1 DEF StartTurn, Emit, FinishTurn, CancelTurn, Drain, PumpTake, Play
<1>2. ASSUME NEW c \in Conns,
             \/ Attach(c) \/ Break(c) \/ SendAck(c) \/ Write(c) \/ WriteFails(c) \/ WriterExits(c)
      PROVE  UNCHANGED wire
  BY <1>2 DEF Attach, Break, SendAck, Write, WriteFails, WriterExits
<1>3. CASE UNCHANGED vars
  BY <1>3 DEF vars
<1> QED BY <1>1, <1>2, <1>3 DEF Next

(* A message is held after a step because it was before, or was taken now. *)
LEMMA HeldMoves ==
  ASSUME DownlinkInv, [Next]_vars, NEW c \in Conns, line'[c] = "up", wr'[c] = "write"
  PROVE  \/ Held(c) /\ msg'[c] = msg[c] /\ \A d \in Conns : ~(Write(d) /\ line[d] = "up")
         \/ Take(c) /\ line[c] = "up" /\ msg'[c] = Head(wire)
<1>0. LineTypes /\ LineInv
  BY TypeParts DEF DownlinkInv
<1> USE DownlinkAssumption DEF LineTypes, Held
<1>1. CASE UNCHANGED connVars
  <2>1. \A d \in Conns : ~Write(d)
    BY <1>0, <1>1 DEF connVars, Write
  <2> QED BY <1>1, <2>1 DEF connVars
<1>2. ASSUME NEW d \in Conns, Take(d)
      PROVE  \/ Held(c) /\ msg'[c] = msg[c] /\ \A e \in Conns : ~(Write(e) /\ line[e] = "up")
             \/ Take(c) /\ line[c] = "up" /\ msg'[c] = Head(wire)
  <2>1. line' = line /\ wr' = [wr EXCEPT ![d] = "write"] /\ msg' = [msg EXCEPT ![d] = Head(wire)]
        /\ wr[d] = "loop"
    BY <1>2 DEF Take
  <2>2. CASE c = d
    BY <1>0, <1>2, <2>1, <2>2
  <2>3. CASE c # d
    <3>1. Held(c) /\ msg'[c] = msg[c]
      BY <1>0, <2>1, <2>3
    <3>2. \A e \in Conns : ~Write(e)
      BY <1>0, <2>1 DEF Write
    <3> QED BY <3>1, <3>2
  <2> QED BY <2>2, <2>3
<1>3. ASSUME NEW d \in Conns, Attach(d)
      PROVE  Held(c) /\ msg'[c] = msg[c] /\ \A e \in Conns : ~Write(e)
  <2>1. c # d
    BY <1>0, <1>3 DEF Attach
  <2>2. line[c] = "up" /\ wr[c] = "write" /\ msg'[c] = msg[c]
    BY <1>0, <1>3, <2>1 DEF Attach
  <2>3. \A e \in Conns : ~Write(e)
    BY <1>0, <1>3 DEF Attach, Write
  <2> QED BY <2>2, <2>3
<1>4. ASSUME NEW d \in Conns, Break(d) \/ SendAck(d) \/ WriterExits(d)
      PROVE  Held(c) /\ msg'[c] = msg[c] /\ \A e \in Conns : ~Write(e)
  <2>1. line[c] = "up" /\ wr[c] = "write" /\ msg' = msg
    BY <1>0, <1>4 DEF Break, SendAck, WriterExits
  <2>2. \A e \in Conns : wr[e] = "write" => wr'[e] = "write"
    BY <1>0, <1>4 DEF Break, SendAck, WriterExits
  <2>3. \A e \in Conns : ~Write(e)
    BY <1>0, <2>2 DEF Write
  <2> QED BY <2>1, <2>3
<1>5. ASSUME NEW d \in Conns, Write(d) \/ WriteFails(d)
      PROVE  Held(c) /\ msg'[c] = msg[c] /\ \A e \in Conns : ~(Write(e) /\ line[e] = "up")
  <2>1. c # d /\ line' = line
    BY <1>0, <1>5 DEF Write, WriteFails
  <2>2. line[c] = "up" /\ wr[c] = "write" /\ msg'[c] = msg[c]
    BY <1>0, <1>5, <2>1 DEF Write, WriteFails
  <2>3. \A e \in Conns : line[e] = "up" => e = c
    BY <1>0, <2>2 DEF LineInv
  <2>4. ~Write(c)
    BY <1>0, <2>1 DEF Write
  <2> QED BY <2>2, <2>3, <2>4
<1>6. CASE \/ StartTurn \/ Emit \/ Token \/ Final \/ FinishTurn \/ CancelTurn \/ Drain \/ Notify
           \/ PumpTake \/ PumpSend \/ Play
  BY <1>1, <1>6 DEF StartTurn, Emit, Token, Final, FinishTurn, CancelTurn, Drain, Notify,
                    PumpTake, PumpSend, Play
<1>7. CASE UNCHANGED vars
  BY <1>1, <1>7 DEF vars, connVars
<1> QED BY <1>2, <1>3, <1>4, <1>5, <1>6, <1>7 DEF Next

LEMMA ClientMoves ==
  ASSUME [Next]_vars
  PROVE  \/ \E c \in Conns : Write(c) /\ line[c] = "up" /\ Receive(msg[c])
         \/ Play
         \/ UNCHANGED clientVars
<1> USE DEF turnVars, connVars, clientVars, playerVars
<1>1. CASE \/ StartTurn \/ Emit \/ Token \/ Final \/ FinishTurn \/ CancelTurn \/ Drain \/ Notify
           \/ PumpTake \/ PumpSend \/ Play
  BY <1>1 DEF StartTurn, Emit, Token, Final, FinishTurn, CancelTurn, Drain, Notify,
              PumpTake, PumpSend
<1>2. ASSUME NEW c \in Conns,
             \/ Attach(c) \/ Break(c) \/ SendAck(c) \/ Take(c) \/ WriteFails(c) \/ WriterExits(c)
      PROVE  UNCHANGED clientVars
  BY <1>2 DEF Attach, Break, SendAck, Take, WriteFails, WriterExits
<1>3. ASSUME NEW c \in Conns, Write(c)
      PROVE  (line[c] = "up" /\ Receive(msg[c])) \/ UNCHANGED clientVars
  BY <1>3 DEF Write
<1>4. CASE UNCHANGED vars
  BY <1>4 DEF vars
<1> QED BY <1>1, <1>2, <1>3, <1>4 DEF Next
-----------------------------------------------------------------------------
(* What has come before the pump stays before it, whatever happens there.  *)

LEMMA EgressOrder ==
  ASSUME DownlinkInv, [Next]_vars
  PROVE  /\ turn \in Nat /\ turn' \in Nat /\ turn <= turn'
         /\ clock \in Nat /\ clock' \in Nat /\ clock <= clock'
         /\ \A i \in DOMAIN egress' :
              egress'[i] = turn \/ \E j \in DOMAIN egress : egress'[i] = egress[j]
         /\ \A i \in DOMAIN egress' : egress'[i] \in Nat /\ egress'[i] <= turn'
         /\ \A i, j \in DOMAIN egress' : i < j => egress'[i] <= egress'[j]
<1>0. /\ turn \in Nat /\ clock \in Nat /\ egress \in Seq(Nat)
      /\ \A i \in DOMAIN egress : egress[i] \in Nat /\ egress[i] <= turn
      /\ \A i, j \in DOMAIN egress : i < j => egress[i] <= egress[j]
  BY Typed DEF DownlinkInv, TypeOK, OrderInv
<1>1. CASE UNCHANGED <<egress, clock>> /\ turn' \in {turn, turn + 1}
  BY <1>0, <1>1
<1>2. CASE Drain
  <2>1. egress' = << >> /\ UNCHANGED <<turn, clock>>
    BY <1>2 DEF Drain
  <2>2. DOMAIN egress' = {}
    BY <2>1
  <2> QED BY <1>0, <2>1, <2>2
<1>3. CASE egress # << >> /\ egress' = Tail(egress) /\ turn' = turn /\ clock' = clock + 1
  <2>1. /\ Len(egress) \in Nat /\ DOMAIN egress = 1 .. Len(egress)
        /\ DOMAIN egress' = 1 .. Len(egress) - 1
        /\ \A i \in 1 .. Len(egress) - 1 : egress'[i] = egress[i + 1]
    BY <1>0, <1>3, Taken
  <2>2. \A i \in DOMAIN egress' : i \in Nat /\ i + 1 \in DOMAIN egress /\ egress'[i] = egress[i + 1]
    BY <2>1
  <2> QED BY <1>0, <1>3, <2>2
<1>4. CASE Emit
  <2>1. PICK q \in {egress, Tail(egress)} :
          (q = egress \/ egress # << >>) /\ egress' = Append(q, turn)
    BY <1>0, <1>4, DownlinkAssumption DEF Emit
  <2>2. /\ q \in Seq(Nat)
        /\ \A i \in DOMAIN q : \E j \in DOMAIN egress : q[i] = egress[j]
        /\ \A i, j \in DOMAIN q : i < j => q[i] <= q[j]
    <3>1. CASE q = egress
      BY <1>0, <3>1
    <3>2. CASE q = Tail(egress) /\ egress # << >>
      <4>1. /\ Len(egress) \in Nat /\ DOMAIN egress = 1 .. Len(egress) /\ q \in Seq(Nat)
            /\ DOMAIN q = 1 .. Len(egress) - 1
            /\ \A i \in 1 .. Len(egress) - 1 : q[i] = egress[i + 1]
        BY <1>0, <3>2, Taken
      <4>2. \A i \in DOMAIN q : i \in Nat /\ i + 1 \in DOMAIN egress /\ q[i] = egress[i + 1]
        BY <4>1
      <4>3. \A i, j \in DOMAIN q : i < j => q[i] <= q[j]
        <5> SUFFICES ASSUME NEW i \in DOMAIN q, NEW j \in DOMAIN q, i < j
                     PROVE  egress[i + 1] <= egress[j + 1]
          BY <4>2
        <5>1. i + 1 \in DOMAIN egress /\ j + 1 \in DOMAIN egress /\ i + 1 < j + 1
          BY <4>2
        <5> QED BY <1>0, <5>1
      <4> QED BY <4>1, <4>2, <4>3
    <3> QED BY <2>1, <3>1, <3>2
  <2>3. /\ Len(q) \in Nat /\ DOMAIN q = 1 .. Len(q) /\ DOMAIN egress' = 1 .. Len(q) + 1
        /\ egress'[Len(q) + 1] = turn /\ \A i \in 1 .. Len(q) : egress'[i] = q[i]
    BY <1>0, <2>1, <2>2, Sent
  <2>4. turn' = turn /\ clock' = clock
    BY <1>4 DEF Emit
  <2>5. \A i \in DOMAIN q : q[i] \in Nat /\ q[i] <= turn
    BY <1>0, <2>2
  <2>6. \A i \in DOMAIN egress' :
          i = Len(q) + 1 \/ (i \in DOMAIN q /\ egress'[i] = q[i])
    BY <2>3
  <2>7. \A i \in DOMAIN egress' :
          egress'[i] = turn \/ \E j \in DOMAIN egress : egress'[i] = egress[j]
    BY <2>2, <2>3, <2>6
  <2>8. \A i \in DOMAIN egress' : egress'[i] \in Nat /\ egress'[i] <= turn
    BY <1>0, <2>3, <2>5, <2>6
  <2>9. \A i, j \in DOMAIN egress' : i < j => egress'[i] <= egress'[j]
    <3> SUFFICES ASSUME NEW i \in DOMAIN egress', NEW j \in DOMAIN egress', i < j
                 PROVE  egress'[i] <= egress'[j]
      OBVIOUS
    <3>1. i \in DOMAIN q
      BY <2>3
    <3>2. CASE j \in DOMAIN q
      BY <2>2, <2>3, <3>1, <3>2
    <3>3. CASE j = Len(q) + 1
      BY <2>3, <2>5, <3>1, <3>3
    <3> QED BY <2>6, <3>2, <3>3
  <2> QED BY <1>0, <2>4, <2>7, <2>8, <2>9
<1>5. StartTurn => turn' = turn + 1
  BY DEF StartTurn
<1>6. PumpTake => egress # << >> /\ egress' = Tail(egress) /\ turn' = turn /\ clock' = clock + 1
  BY DEF PumpTake, turnVars
<1> QED BY <1>1, <1>2, <1>3, <1>4, <1>5, <1>6, EgressMoves

LEMMA RestStable ==
  ASSUME DownlinkInv, [Next]_vars, NEW f, f.ts \in Nat, f.turn \in Nat, BeforeRest(f)
  PROVE  /\ f.ts < clock' /\ f.turn <= turn'
         /\ \A i \in DOMAIN egress' : f.turn <= egress'[i]
<1>1. f.ts < clock' /\ f.turn <= turn'
  BY EgressOrder DEF BeforeRest
<1>2. ASSUME NEW i \in DOMAIN egress' PROVE f.turn <= egress'[i]
  <2>1. CASE egress'[i] = turn
    BY <2>1 DEF BeforeRest
  <2>2. CASE \E j \in DOMAIN egress : egress'[i] = egress[j]
    BY <2>2 DEF BeforeRest
  <2> QED BY <2>1, <2>2, EgressOrder
<1> QED BY <1>1, <1>2

(* The frame the pump takes comes after all that was before it.            *)
LEMMA HandTaken ==
  ASSUME DownlinkInv, PumpTake
  PROVE  /\ hand'.kind = "audio" /\ hand'.ts = clock /\ clock' = clock + 1
         /\ egress # << >> /\ hand'.turn = egress[1] /\ 1 \in DOMAIN egress
         /\ turn' = turn /\ egress' = Tail(egress)
<1>1. egress \in Seq(Nat) /\ egress # << >>
  BY DEF DownlinkInv, TypeOK, PumpTake
<1>2. Head(egress) = egress[1] /\ 1 \in DOMAIN egress
  BY <1>1, Taken
<1> QED BY <1>1, <1>2 DEF PumpTake, turnVars

LEMMA PumpStable ==
  ASSUME DownlinkInv, [Next]_vars, NEW f, f.ts \in Nat, f.turn \in Nat, BeforePump(f)
  PROVE  /\ f.ts < clock' /\ f.turn <= turn'
         /\ \A i \in DOMAIN egress' : f.turn <= egress'[i]
         /\ hand' # None => Before(f, hand')
<1>1. BeforeRest(f)
  BY DEF BeforePump
<1>2. CASE PumpTake
  <2>1. Before(f, hand')
    BY <1>1, <1>2, HandTaken DEF Before, BeforeRest
  <2> QED BY <1>1, <2>1, RestStable
<1>3. CASE PumpSend
  BY <1>1, <1>3, RestStable DEF PumpSend
<1>4. CASE UNCHANGED hand
  BY <1>1, <1>4, RestStable DEF BeforePump
<1> QED BY <1>2, <1>3, <1>4, HandMoves

(* What is in the wire queue after a step.                                 *)
LEMMA WireAfter ==
  ASSUME DownlinkInv, [Next]_vars
  PROVE  /\ DOMAIN wire = 1 .. Len(wire) /\ DOMAIN wire' = 1 .. Len(wire') /\ Len(wire) \in Nat
         /\ \/ UNCHANGED wire
            \/ /\ DOMAIN wire' = 1 .. Len(wire) + 1
               /\ \A i \in 1 .. Len(wire) : wire'[i] = wire[i]
               /\ \/ /\ PumpSend /\ hand \in Message /\ hand # None /\ hand' = None
                     /\ wire'[Len(wire) + 1] = hand
                  \/ /\ Token
                     /\ wire'[Len(wire) + 1] = [kind |-> "token", turn |-> turn, ts |-> clock]
                  \/ /\ Final
                     /\ wire'[Len(wire) + 1] = [kind |-> "final", turn |-> turn, ts |-> 0]
                  \/ /\ Notify
                     /\ wire'[Len(wire) + 1] = [kind |-> "bargeIn", turn |-> turn, ts |-> clock]
            \/ /\ \E c \in Conns : Take(c)
               /\ wire # << >> /\ Head(wire) = wire[1] /\ 1 \in DOMAIN wire
               /\ DOMAIN wire' = 1 .. Len(wire) - 1
               /\ \A i \in 1 .. Len(wire) - 1 : wire'[i] = wire[i + 1]
<1>0. /\ wire \in Seq(Message) /\ hand \in Message \cup {None} /\ turn \in Nat /\ clock \in Nat
      /\ TypeOK /\ wire' \in Seq(Message)
  BY TypeStep DEF DownlinkInv, TypeOK
<1>1. DOMAIN wire = 1 .. Len(wire) /\ DOMAIN wire' = 1 .. Len(wire') /\ Len(wire) \in Nat
  BY <1>0
<1>2. CASE PumpSend
  <2>1. hand \in Message /\ hand # None /\ hand' = None /\ wire' = Append(wire, hand)
    BY <1>0, <1>2 DEF PumpSend
  <2>2. /\ DOMAIN wire' = 1 .. Len(wire) + 1 /\ wire'[Len(wire) + 1] = hand
        /\ \A i \in 1 .. Len(wire) : wire'[i] = wire[i]
    BY <1>0, <2>1, Sent
  <2> QED BY <1>1, <1>2, <2>1, <2>2
<1>3. CASE Token
  <2> DEFINE m == [kind |-> "token", turn |-> turn, ts |-> clock]
  <2>1. m \in Message /\ TrySend(m)
    BY <1>0, <1>3 DEF Token, Message
  <2>2. wire' = wire \/ wire' = Append(wire, m)
    BY <1>0, <2>1, TrySent
  <2> HIDE DEF m
  <2>3. CASE wire' = Append(wire, m)
    <3>1. /\ DOMAIN wire' = 1 .. Len(wire) + 1 /\ wire'[Len(wire) + 1] = m
          /\ \A i \in 1 .. Len(wire) : wire'[i] = wire[i]
      BY <1>0, <2>1, <2>3, Sent
    <3> QED BY <1>1, <1>3, <3>1 DEF m
  <2> QED BY <1>1, <2>2, <2>3
<1>4. CASE Final
  <2> DEFINE m == [kind |-> "final", turn |-> turn, ts |-> 0]
  <2>1. m \in Message /\ TrySend(m)
    BY <1>0, <1>4 DEF Final, Message
  <2>2. wire' = wire \/ wire' = Append(wire, m)
    BY <1>0, <2>1, TrySent
  <2> HIDE DEF m
  <2>3. CASE wire' = Append(wire, m)
    <3>1. /\ DOMAIN wire' = 1 .. Len(wire) + 1 /\ wire'[Len(wire) + 1] = m
          /\ \A i \in 1 .. Len(wire) : wire'[i] = wire[i]
      BY <1>0, <2>1, <2>3, Sent
    <3> QED BY <1>1, <1>4, <3>1 DEF m
  <2> QED BY <1>1, <2>2, <2>3
<1>5. CASE Notify
  <2> DEFINE m == [kind |-> "bargeIn", turn |-> turn, ts |-> clock]
  <2>1. m \in Message /\ TrySend(m)
    BY <1>0, <1>5 DEF Notify, Message
  <2>2. wire' = wire \/ wire' = Append(wire, m)
    BY <1>0, <2>1, TrySent
  <2> HIDE DEF m
  <2>3. CASE wire' = Append(wire, m)
    <3>1. /\ DOMAIN wire' = 1 .. Len(wire) + 1 /\ wire'[Len(wire) + 1] = m
          /\ \A i \in 1 .. Len(wire) : wire'[i] = wire[i]
      BY <1>0, <2>1, <2>3, Sent
    <3> QED BY <1>1, <1>5, <3>1 DEF m
  <2> QED BY <1>1, <2>2, <2>3
<1>6. CASE \E c \in Conns : Take(c)
  <2>1. wire # << >> /\ wire' = Tail(wire)
    BY <1>6 DEF Take
  <2>2. Len(wire) >= 1
    BY <1>0, <2>1
  <2>3. /\ Head(wire) = wire[1] /\ DOMAIN wire' = 1 .. Len(wire) - 1
        /\ \A i \in 1 .. Len(wire) - 1 : wire'[i] = wire[i + 1]
    BY <1>0, <2>1, Taken
  <2>4. 1 \in DOMAIN wire
    BY <1>1, <2>2
  <2> QED BY <1>1, <1>6, <2>1, <2>3, <2>4
<1> QED BY <1>1, <1>2, <1>3, <1>4, <1>5, <1>6, WireMoves

LEMMA WireStable ==
  ASSUME DownlinkInv, [Next]_vars, NEW f, f.ts \in Nat, f.turn \in Nat, BeforeWire(f)
  PROVE  /\ f.ts < clock' /\ f.turn <= turn'
         /\ \A i \in DOMAIN egress' : f.turn <= egress'[i]
         /\ hand' # None => Before(f, hand')
         /\ \A j \in DOMAIN wire' : wire'[j].kind = "audio" => Before(f, wire'[j])
<1>1. BeforePump(f)
  BY DEF BeforeWire
<1>2. \A j \in DOMAIN wire : wire[j].kind = "audio" => Before(f, wire[j])
  BY DEF BeforeWire
<1>3. hand # None => Before(f, hand)
  BY <1>1 DEF BeforePump
<1> HIDE DEF Before
<1>4. \A j \in DOMAIN wire' : wire'[j].kind = "audio" => Before(f, wire'[j])
  <2>1. CASE UNCHANGED wire
    BY <1>2, <2>1
  <2>2. CASE /\ DOMAIN wire' = 1 .. Len(wire) + 1
             /\ \A i \in 1 .. Len(wire) : wire'[i] = wire[i]
             /\ wire'[Len(wire) + 1].kind = "audio" => hand # None /\ wire'[Len(wire) + 1] = hand
    <3>1. \A j \in DOMAIN wire' : j \in DOMAIN wire \/ j = Len(wire) + 1
      BY <2>2, WireAfter
    <3>2. \A j \in DOMAIN wire : wire'[j] = wire[j]
      BY <2>2, WireAfter
    <3> QED BY <1>2, <1>3, <2>2, <3>1, <3>2
  <2>3. CASE /\ DOMAIN wire' = 1 .. Len(wire) - 1
             /\ \A i \in 1 .. Len(wire) - 1 : wire'[i] = wire[i + 1]
    <3>1. \A j \in DOMAIN wire' : j + 1 \in DOMAIN wire /\ wire'[j] = wire[j + 1]
      BY <2>3, WireAfter
    <3> QED BY <1>2, <3>1
  <2> QED BY <2>1, <2>2, <2>3, WireAfter
<1>5. /\ f.ts < clock' /\ f.turn <= turn'
      /\ \A i \in DOMAIN egress' : f.turn <= egress'[i]
      /\ hand' # None => Before(f, hand')
  BY <1>1, PumpStable
<1> QED BY <1>4, <1>5

LEMMA HandOrder ==
  DownlinkInv /\ [Next]_vars =>
    (hand' # None => hand'.kind = "audio" /\ hand'.ts + 1 = clock' /\ BeforeRest(hand)')
<1> SUFFICES ASSUME DownlinkInv, [Next]_vars, hand' # None
             PROVE  hand'.kind = "audio" /\ hand'.ts + 1 = clock' /\ BeforeRest(hand)'
  OBVIOUS
<1>1. CASE PumpTake
  <2>1. /\ hand'.kind = "audio" /\ hand'.ts = clock /\ clock' = clock + 1
        /\ hand'.turn = egress[1] /\ 1 \in DOMAIN egress /\ egress # << >>
        /\ turn' = turn /\ egress' = Tail(egress)
    BY <1>1, HandTaken
  <2>2. /\ egress \in Seq(Nat) /\ clock \in Nat /\ egress[1] <= turn
        /\ \A i, j \in DOMAIN egress : i < j => egress[i] <= egress[j]
    BY <2>1 DEF DownlinkInv, TypeOK, OrderInv
  <2>3. \A i \in DOMAIN egress' : i + 1 \in DOMAIN egress /\ 1 < i + 1 /\ egress'[i] = egress[i + 1]
    <3>1. /\ Len(egress) \in Nat /\ DOMAIN egress = 1 .. Len(egress)
          /\ DOMAIN egress' = 1 .. Len(egress) - 1
          /\ \A i \in 1 .. Len(egress) - 1 : egress'[i] = egress[i + 1]
      BY <2>1, <2>2, Taken
    <3> QED BY <3>1
  <2>4. \A i \in DOMAIN egress' : hand'.turn <= egress'[i]
    BY <2>1, <2>2, <2>3
  <2> QED BY <2>1, <2>2, <2>4 DEF BeforeRest
<1>2. CASE ~PumpTake /\ UNCHANGED hand
  <2>1. hand # None /\ hand \in Message
    BY <1>2 DEF DownlinkInv, TypeOK
  <2>2. hand.kind = "audio" /\ hand.ts + 1 = clock /\ BeforeRest(hand)
    BY <2>1 DEF DownlinkInv, OrderInv
  <2>3. clock' = clock
    BY <1>2, EgressMoves DEF Emit, Drain, turnVars
  <2>4. /\ hand.ts < clock' /\ hand.turn <= turn'
        /\ \A i \in DOMAIN egress' : hand.turn <= egress'[i]
    BY <2>1, <2>2, RestStable, Fields
  <2> QED BY <1>2, <2>2, <2>3, <2>4 DEF BeforeRest
<1>3. CASE PumpSend
  BY <1>3 DEF PumpSend
<1> QED BY <1>1, <1>2, <1>3, HandMoves

LEMMA WireOrder ==
  DownlinkInv /\ [Next]_vars =>
    \A i \in DOMAIN wire' : wire'[i].kind = "audio" =>
      /\ BeforePump(wire[i])'
      /\ \A j \in DOMAIN wire' : i < j /\ wire'[j].kind = "audio" => Before(wire'[i], wire'[j])
<1> SUFFICES ASSUME DownlinkInv, [Next]_vars, NEW i \in DOMAIN wire', wire'[i].kind = "audio"
             PROVE  /\ BeforePump(wire[i])'
                    /\ \A j \in DOMAIN wire' : i < j /\ wire'[j].kind = "audio" =>
                         Before(wire'[i], wire'[j])
  OBVIOUS
<1>0. /\ \A k \in DOMAIN wire : wire[k].kind = "audio" =>
            /\ BeforePump(wire[k])
            /\ \A j \in DOMAIN wire : k < j /\ wire[j].kind = "audio" => Before(wire[k], wire[j])
      /\ \A k \in DOMAIN wire : wire[k].ts \in Nat /\ wire[k].turn \in Nat
      /\ hand # None => BeforeRest(hand)
  BY Typed, Fields DEF DownlinkInv, OrderInv
<1>1. ASSUME NEW k \in DOMAIN wire, wire'[i] = wire[k] PROVE BeforePump(wire[i])'
  <2>1. BeforePump(wire[k]) /\ wire[k].ts \in Nat /\ wire[k].turn \in Nat
    BY <1>0, <1>1
  <2>2. /\ wire[k].ts < clock' /\ wire[k].turn <= turn'
        /\ \A l \in DOMAIN egress' : wire[k].turn <= egress'[l]
        /\ hand' # None => Before(wire[k], hand')
    BY <2>1, PumpStable
  <2> QED BY <1>1, <2>2 DEF BeforePump, BeforeRest, Before
<1>2. CASE UNCHANGED wire
  <2>1. i \in DOMAIN wire /\ wire'[i] = wire[i]
    BY <1>2
  <2> QED BY <1>0, <1>1, <1>2, <2>1
<1>3. CASE /\ DOMAIN wire' = 1 .. Len(wire) + 1
           /\ \A k \in 1 .. Len(wire) : wire'[k] = wire[k]
           /\ wire'[Len(wire) + 1].kind = "audio" =>
                /\ PumpSend /\ hand # None /\ hand \in Message /\ hand' = None
                /\ wire'[Len(wire) + 1] = hand
  <2>1. /\ \A k \in DOMAIN wire : wire'[k] = wire[k] /\ k \in DOMAIN wire' /\ k < Len(wire) + 1
        /\ \A k \in DOMAIN wire' : k \in DOMAIN wire \/ k = Len(wire) + 1
        /\ \A k \in DOMAIN wire' : ~(Len(wire) + 1 < k)
    BY <1>3, WireAfter
  <2>2. CASE i \in DOMAIN wire
    <3>1. \A j \in DOMAIN wire : i < j /\ wire[j].kind = "audio" => Before(wire[i], wire[j])
      BY <1>0, <2>1, <2>2
    <3>2. wire'[Len(wire) + 1].kind = "audio" => Before(wire[i], wire'[Len(wire) + 1])
      BY <1>0, <1>3, <2>1, <2>2 DEF BeforePump
    <3>3. BeforePump(wire[i])'
      BY <1>1, <2>1, <2>2
    <3> QED BY <2>1, <2>2, <3>1, <3>2, <3>3
  <2>3. CASE i = Len(wire) + 1
    <3>1. hand # None /\ hand \in Message /\ hand' = None /\ wire'[i] = hand
      BY <1>3, <2>3
    <3>2. /\ hand.ts < clock' /\ hand.turn <= turn'
          /\ \A l \in DOMAIN egress' : hand.turn <= egress'[l]
      BY <1>0, <3>1, RestStable, Fields
    <3> QED BY <2>1, <2>3, <3>1, <3>2 DEF BeforePump, BeforeRest
  <2> QED BY <2>1, <2>2, <2>3
<1>4. CASE /\ DOMAIN wire' = 1 .. Len(wire) - 1
           /\ \A k \in 1 .. Len(wire) - 1 : wire'[k] = wire[k + 1]
  <2>1. \A k \in DOMAIN wire' : k \in Nat /\ k + 1 \in DOMAIN wire /\ wire'[k] = wire[k + 1]
    BY <1>4, WireAfter
  <2>2. \A j \in DOMAIN wire' : i < j /\ wire'[j].kind = "audio" => Before(wire'[i], wire'[j])
    <3>1. \A j \in DOMAIN wire' : i < j => i + 1 < j + 1
      BY <2>1
    <3> QED BY <1>0, <2>1, <3>1
  <2> QED BY <1>1, <2>1, <2>2
<1> QED BY <1>2, <1>3, <1>4, WireAfter

LEMMA MsgOrder ==
  DownlinkInv /\ [Next]_vars => \A c \in Conns : HeldAudio(c)' => BeforeWire(msg[c])'
<1> SUFFICES ASSUME DownlinkInv, [Next]_vars, NEW c \in Conns,
                    line'[c] = "up", wr'[c] = "write", msg'[c].kind = "audio"
             PROVE  BeforeWire(msg[c])'
  BY DEF HeldAudio, Held
<1>1. CASE Held(c) /\ msg'[c] = msg[c]
  <2>1. msg[c] \in Message
    BY <1>1 DEF DownlinkInv, LineInv, Held
  <2>2. BeforeWire(msg[c])
    BY <1>1 DEF DownlinkInv, OrderInv, HeldAudio
  <2>3. /\ msg[c].ts < clock' /\ msg[c].turn <= turn'
        /\ \A i \in DOMAIN egress' : msg[c].turn <= egress'[i]
        /\ hand' # None => Before(msg[c], hand')
        /\ \A j \in DOMAIN wire' : wire'[j].kind = "audio" => Before(msg[c], wire'[j])
    BY <2>1, <2>2, WireStable, Fields
  <2> QED BY <1>1, <2>3 DEF BeforeWire, BeforePump, BeforeRest, Before
<1>2. CASE Take(c) /\ msg'[c] = Head(wire)
  <2>1. wire # << >> /\ wire' = Tail(wire) /\ UNCHANGED <<turn, egress, hand, clock>>
    BY <1>2 DEF Take, turnVars
  <2>2. /\ Len(wire) \in Nat /\ DOMAIN wire' = 1 .. Len(wire) - 1 /\ DOMAIN wire = 1 .. Len(wire)
        /\ Head(wire) = wire[1] /\ Len(wire) # 0
        /\ \A i \in 1 .. Len(wire) - 1 : wire'[i] = wire[i + 1]
    BY <2>1, Taken DEF DownlinkInv, TypeOK
  <2>3. /\ msg'[c] = wire[1] /\ 1 \in DOMAIN wire
        /\ \A j \in DOMAIN wire' : j + 1 \in DOMAIN wire /\ 1 < j + 1 /\ wire'[j] = wire[j + 1]
    BY <1>2, <2>2
  <2>4. /\ BeforePump(wire[1])
        /\ \A j \in DOMAIN wire : 1 < j /\ wire[j].kind = "audio" => Before(wire[1], wire[j])
    BY <2>3 DEF DownlinkInv, OrderInv
  <2> QED BY <2>1, <2>3, <2>4 DEF BeforeWire, BeforePump, BeforeRest, Before
<1> QED BY <1>1, <1>2, HeldMoves

(* The client gets one frame more, which its writer held, or none.         *)
LEMMA AudioAfter ==
  ASSUME DownlinkInv, [Next]_vars
  PROVE  /\ DOMAIN audio = 1 .. Len(audio) /\ Len(audio) \in Nat
         /\ \/ UNCHANGED audio
            \/ \E c \in Conns :
                 /\ Write(c) /\ HeldAudio(c) /\ msg[c] \in Message
                 /\ DOMAIN audio' = 1 .. Len(audio) + 1 /\ Len(audio') = Len(audio) + 1
                 /\ \A i \in 1 .. Len(audio) : audio'[i] = audio[i]
                 /\ audio'[Len(audio) + 1] = [turn |-> msg[c].turn, ts |-> msg[c].ts]
<1>0. audio \in Seq(Frame)
  BY DEF DownlinkInv, TypeOK
<1>1. ASSUME NEW c \in Conns, Write(c), line[c] = "up", Receive(msg[c]), ~UNCHANGED audio
      PROVE  /\ HeldAudio(c) /\ msg[c] \in Message
             /\ audio' = Append(audio, [turn |-> msg[c].turn, ts |-> msg[c].ts])
  <2>1. msg[c] \in Message /\ Held(c)
    BY <1>1 DEF Write, Held, DownlinkInv, LineInv
  <2> QED BY <1>1, <2>1 DEF Receive, HeldAudio
<1>2. ASSUME NEW c \in Conns, Write(c), line[c] = "up", Receive(msg[c]), ~UNCHANGED audio
      PROVE  /\ Write(c) /\ HeldAudio(c) /\ msg[c] \in Message
             /\ DOMAIN audio' = 1 .. Len(audio) + 1 /\ Len(audio') = Len(audio) + 1
             /\ \A i \in 1 .. Len(audio) : audio'[i] = audio[i]
             /\ audio'[Len(audio) + 1] = [turn |-> msg[c].turn, ts |-> msg[c].ts]
  <2> DEFINE f == [turn |-> msg[c].turn, ts |-> msg[c].ts]
  <2>1. f \in Frame /\ HeldAudio(c) /\ msg[c] \in Message /\ audio' = Append(audio, f)
    BY <1>1, <1>2, Fields
  <2> HIDE DEF f
  <2>2. /\ DOMAIN audio' = 1 .. Len(audio) + 1 /\ Len(audio') = Len(audio) + 1
        /\ \A i \in 1 .. Len(audio) : audio'[i] = audio[i]
        /\ audio'[Len(audio) + 1] = f
    BY <1>0, <2>1, Sent
  <2> QED BY <1>2, <2>1, <2>2 DEF f
<1>3. Play \/ UNCHANGED clientVars => UNCHANGED audio
  BY DEF Play, clientVars
<1>4. DOMAIN audio = 1 .. Len(audio) /\ Len(audio) \in Nat
  BY <1>0
<1> QED BY <1>2, <1>3, <1>4, ClientMoves

(* When audio is written nobody holds a message after the step.            *)
LEMMA NoneHeld ==
  ASSUME DownlinkInv, [Next]_vars, NEW c \in Conns, Write(c), line[c] = "up"
  PROVE  \A d \in Conns : ~(line'[d] = "up" /\ wr'[d] = "write")
<1> SUFFICES ASSUME NEW d \in Conns, line'[d] = "up", wr'[d] = "write" PROVE FALSE
  OBVIOUS
<1>1. Take(d)
  BY HeldMoves
<1>2. wire \in Seq(Message) /\ wire # << >> /\ wire' = Tail(wire) /\ wire' = wire
  BY <1>1 DEF Take, Write, DownlinkInv, TypeOK
<1>3. Len(wire) \in Nat /\ Len(Tail(wire)) = Len(wire) - 1
  BY <1>2, Taken
<1> QED BY <1>2, <1>3

LEMMA AudioOrder ==
  DownlinkInv /\ [Next]_vars =>
    \A i \in DOMAIN audio' :
      /\ BeforeWire(audio[i])'
      /\ \A c \in Conns : HeldAudio(c)' => Before(audio'[i], msg'[c])
<1> SUFFICES ASSUME DownlinkInv, [Next]_vars, NEW i \in DOMAIN audio'
             PROVE  /\ BeforeWire(audio[i])'
                    /\ \A c \in Conns : HeldAudio(c)' => Before(audio'[i], msg'[c])
  OBVIOUS
<1>1. ASSUME i \in DOMAIN audio, audio'[i] = audio[i]
      PROVE  /\ BeforeWire(audio[i])'
             /\ \A c \in Conns : HeldAudio(c)' => Before(audio'[i], msg'[c])
  <2>1. /\ audio[i].ts \in Nat /\ audio[i].turn \in Nat /\ BeforeWire(audio[i])
        /\ \A c \in Conns : HeldAudio(c) => Before(audio[i], msg[c])
    BY <1>1, Typed, Fields DEF DownlinkInv, OrderInv
  <2>2. /\ audio[i].ts < clock' /\ audio[i].turn <= turn'
        /\ \A k \in DOMAIN egress' : audio[i].turn <= egress'[k]
        /\ hand' # None => Before(audio[i], hand')
        /\ \A j \in DOMAIN wire' : wire'[j].kind = "audio" => Before(audio[i], wire'[j])
    BY <2>1, WireStable
  <2>3. BeforeWire(audio[i])'
    BY <1>1, <2>2 DEF BeforeWire, BeforePump, BeforeRest, Before
  <2>4. ASSUME NEW c \in Conns, line'[c] = "up", wr'[c] = "write", msg'[c].kind = "audio"
        PROVE  Before(audio[i], msg'[c])
    <3>1. CASE Held(c) /\ msg'[c] = msg[c]
      BY <2>1, <2>4, <3>1 DEF HeldAudio
    <3>2. CASE Take(c) /\ msg'[c] = Head(wire)
      <4>1. msg'[c] = wire[1] /\ 1 \in DOMAIN wire
        BY <3>2, Taken DEF Take, DownlinkInv, TypeOK
      <4> QED BY <2>1, <2>4, <4>1 DEF BeforeWire
    <3> QED BY <2>4, <3>1, <3>2, HeldMoves
  <2>5. ASSUME NEW c \in Conns PROVE HeldAudio(c)' => Before(audio'[i], msg'[c])
    BY <1>1, <2>4 DEF HeldAudio, Held
  <2> QED BY <2>3, <2>5
<1>2. ASSUME NEW d \in Conns, Write(d), HeldAudio(d), msg[d] \in Message,
             audio'[i] = [turn |-> msg[d].turn, ts |-> msg[d].ts]
      PROVE  /\ BeforeWire(audio[i])'
             /\ \A c \in Conns : HeldAudio(c)' => Before(audio'[i], msg'[c])
  <2>1. audio'[i].ts = msg[d].ts /\ audio'[i].turn = msg[d].turn
    BY <1>2
  <2>2. /\ msg[d].ts < clock' /\ msg[d].turn <= turn'
        /\ \A k \in DOMAIN egress' : msg[d].turn <= egress'[k]
        /\ hand' # None => Before(msg[d], hand')
        /\ \A j \in DOMAIN wire' : wire'[j].kind = "audio" => Before(msg[d], wire'[j])
    <3>1. BeforeWire(msg[d]) /\ msg[d].ts \in Nat /\ msg[d].turn \in Nat
      BY <1>2, Fields DEF DownlinkInv, OrderInv
    <3> QED BY <3>1, WireStable
  <2>3. BeforeWire(audio[i])'
    BY <2>1, <2>2 DEF BeforeWire, BeforePump, BeforeRest, Before
  <2>4. \A c \in Conns : ~(line'[c] = "up" /\ wr'[c] = "write")
    BY <1>2, NoneHeld DEF HeldAudio, Held
  <2>5. \A c \in Conns : HeldAudio(c)' => Before(audio'[i], msg'[c])
    BY <2>4 DEF HeldAudio, Held
  <2> QED BY <2>3, <2>5
<1>3. CASE UNCHANGED audio
  BY <1>1, <1>3
<1>4. CASE \E d \in Conns :
             /\ Write(d) /\ HeldAudio(d) /\ msg[d] \in Message
             /\ DOMAIN audio' = 1 .. Len(audio) + 1
             /\ \A k \in 1 .. Len(audio) : audio'[k] = audio[k]
             /\ audio'[Len(audio) + 1] = [turn |-> msg[d].turn, ts |-> msg[d].ts]
  <2>1. i \in DOMAIN audio \/ i = Len(audio) + 1
    BY <1>4, AudioAfter
  <2>2. i \in DOMAIN audio => audio'[i] = audio[i]
    BY <1>4, AudioAfter
  <2>3. CASE i \in DOMAIN audio
    BY <1>1, <2>2, <2>3
  <2>4. CASE i = Len(audio) + 1
    BY <1>2, <1>4, <2>4
  <2> QED BY <2>1, <2>3, <2>4
<1> QED BY <1>3, <1>4, AudioAfter

LEMMA InOrder == DownlinkInv /\ [Next]_vars => AudioInOrder'
<1> SUFFICES ASSUME DownlinkInv, [Next]_vars,
                    NEW i \in DOMAIN audio', NEW j \in DOMAIN audio', i < j
             PROVE  Before(audio'[i], audio'[j])
  BY DEF AudioInOrder, Before
<1>1. CASE UNCHANGED audio
  BY <1>1 DEF DownlinkInv, OrderInv, AudioInOrder, Before
<1>2. CASE \E c \in Conns :
             /\ Write(c) /\ HeldAudio(c) /\ msg[c] \in Message
             /\ DOMAIN audio' = 1 .. Len(audio) + 1
             /\ \A k \in 1 .. Len(audio) : audio'[k] = audio[k]
             /\ audio'[Len(audio) + 1] = [turn |-> msg[c].turn, ts |-> msg[c].ts]
  <2>1. i \in DOMAIN audio /\ audio'[i] = audio[i]
    BY <1>2, AudioAfter
  <2>2. CASE j \in DOMAIN audio
    <3>1. audio'[j] = audio[j]
      BY <1>2, <2>2, AudioAfter
    <3> QED BY <2>1, <2>2, <3>1 DEF DownlinkInv, OrderInv, AudioInOrder, Before
  <2>3. CASE j = Len(audio) + 1
    <3>1. PICK c \in Conns :
            HeldAudio(c) /\ audio'[j] = [turn |-> msg[c].turn, ts |-> msg[c].ts]
      BY <1>2, <2>3
    <3>2. Before(audio[i], msg[c])
      BY <2>1, <3>1 DEF DownlinkInv, OrderInv
    <3> QED BY <2>1, <3>1, <3>2 DEF Before
  <2>4. j \in DOMAIN audio \/ j = Len(audio) + 1
    BY <1>2, AudioAfter
  <2> QED BY <2>2, <2>3, <2>4
<1> QED BY <1>1, <1>2, AudioAfter

LEMMA OrderStep == DownlinkInv /\ [Next]_vars => OrderInv'
<1> SUFFICES ASSUME DownlinkInv, [Next]_vars PROVE OrderInv'
  OBVIOUS
<1>1. /\ \A i, j \in DOMAIN egress' : i < j => egress'[i] <= egress'[j]
      /\ \A i \in DOMAIN egress' : egress'[i] <= turn'
  BY EgressOrder
<1>2. hand' # None => hand'.kind = "audio" /\ hand'.ts + 1 = clock' /\ BeforeRest(hand)'
  BY HandOrder
<1> QED BY <1>1, <1>2, WireOrder, MsgOrder, AudioOrder, InOrder DEF OrderInv
-----------------------------------------------------------------------------
(* The playout buffer: a frame is put behind all it holds and has played.  *)

LEMMA PlayMoves ==
  ASSUME DownlinkInv, [Next]_vars
  PROVE  \/ \E c \in Conns :
              /\ Write(c) /\ HeldAudio(c) /\ msg[c] \in Message
              /\ PlayerPush([turn |-> msg[c].turn, ts |-> msg[c].ts])
         \/ SourceEnds \/ PlayerFlush
         \/ UNCHANGED <<queue, sched, played>>
<1>1. ASSUME NEW c \in Conns, Write(c), line[c] = "up", Receive(msg[c])
      PROVE  \/ /\ HeldAudio(c) /\ msg[c] \in Message
                /\ PlayerPush([turn |-> msg[c].turn, ts |-> msg[c].ts])
             \/ PlayerFlush
             \/ UNCHANGED <<queue, sched, played>>
  <2>1. msg[c] \in Message /\ Held(c)
    BY <1>1 DEF Write, Held, DownlinkInv, LineInv
  <2> QED BY <1>1, <2>1 DEF Receive, HeldAudio, PlayerToken, PlayerClear
<1>2. Play => SourceEnds \/ UNCHANGED <<queue, sched, played>>
  BY DEF Play, Reveal
<1>3. UNCHANGED clientVars => UNCHANGED <<queue, sched, played>>
  BY DEF clientVars
<1> QED BY <1>1, <1>2, <1>3, ClientMoves

(* What PlayerPush puts behind the frames received before.                 *)
LEMMA Pushed ==
  ASSUME DownlinkInv, NEW f \in Frame, HeardBelow(f.ts)
  PROVE  LET q == Append(queue, f)
         IN  /\ q \in Seq(Frame) /\ DOMAIN q = 1 .. Len(queue) + 1
             /\ \A i \in DOMAIN q : q[i] = f \/ \E j \in DOMAIN queue : q[i] = queue[j]
             /\ \A i \in DOMAIN q : q[i].ts \in Nat /\ played <= q[i].ts
             /\ \A i, j \in DOMAIN q : i < j => q[i].ts < q[j].ts
             /\ \A i \in DOMAIN sched, j \in DOMAIN q : sched[i].ts < q[j].ts
<1> DEFINE q == Append(queue, f)
<1>1. queue \in Seq(Frame) /\ \A i \in DOMAIN queue : queue[i].ts \in Nat
  BY Typed, Fields DEF DownlinkInv, TypeOK
<1>2. /\ Len(queue) \in Nat /\ DOMAIN queue = 1 .. Len(queue) /\ q \in Seq(Frame)
      /\ DOMAIN q = 1 .. Len(queue) + 1 /\ q[Len(queue) + 1] = f
      /\ \A i \in 1 .. Len(queue) : q[i] = queue[i]
  BY <1>1, Sent
<1> HIDE DEF q
<1>3. \A i \in DOMAIN q : (i \in DOMAIN queue /\ q[i] = queue[i])
                          \/ (i = Len(queue) + 1 /\ q[i] = f)
  BY <1>2
<1>4. f.ts \in Nat
  BY Fields
<1>5. \A i \in DOMAIN q : q[i].ts \in Nat /\ played <= q[i].ts
  BY <1>1, <1>3, <1>4 DEF HeardBelow, DownlinkInv, PlayInv
<1>6. \A i, j \in DOMAIN q : i < j => q[i].ts < q[j].ts
  <2> SUFFICES ASSUME NEW i \in DOMAIN q, NEW j \in DOMAIN q, i < j PROVE q[i].ts < q[j].ts
    OBVIOUS
  <2>1. i \in DOMAIN queue /\ q[i] = queue[i]
    BY <1>2, <1>3
  <2>2. CASE j \in DOMAIN queue /\ q[j] = queue[j]
    BY <2>1, <2>2 DEF DownlinkInv, PlayInv
  <2>3. CASE q[j] = f
    BY <2>1, <2>3 DEF HeardBelow
  <2> QED BY <1>3, <2>2, <2>3
<1>7. \A i \in DOMAIN sched, j \in DOMAIN q : sched[i].ts < q[j].ts
  BY <1>3 DEF HeardBelow, DownlinkInv, PlayInv
<1> QED BY <1>2, <1>3, <1>5, <1>6, <1>7 DEF q

(* What ends first is the oldest of the sources.                           *)
LEMMA Ended ==
  ASSUME DownlinkInv, SourceEnds
  PROVE  /\ 1 \in DOMAIN sched /\ played' = sched[1].ts + 1 /\ queue' = queue
         /\ \A i \in DOMAIN sched' :
              /\ i \in Nat /\ i + 1 \in DOMAIN sched /\ 1 < i + 1
              /\ sched'[i] = sched[i + 1]
<1>1. sched \in Seq(Frame) /\ sched # << >> /\ sched' = Tail(sched) /\ queue' = queue
  BY DEF DownlinkInv, TypeOK, SourceEnds
<1>2. /\ Len(sched) \in Nat \ {0} /\ DOMAIN sched = 1 .. Len(sched) /\ Head(sched) = sched[1]
      /\ DOMAIN sched' = 1 .. Len(sched) - 1
      /\ \A i \in 1 .. Len(sched) - 1 : sched'[i] = sched[i + 1]
  BY <1>1, Taken
<1>3. played' = sched[1].ts + 1
  BY <1>2 DEF SourceEnds
<1> QED BY <1>1, <1>2, <1>3

LEMMA PlayStable ==
  ASSUME DownlinkInv, [Next]_vars, NEW n \in Nat, HeardBelow(n),
         \A c \in Conns : HeldAudio(c) /\ Write(c) => msg[c].ts < n
  PROVE  /\ played' <= n
         /\ \A i \in DOMAIN sched' : sched'[i].ts < n
         /\ \A i \in DOMAIN queue' : queue'[i].ts < n
<1>0. TypeOK /\ PlayInv /\ queue \in Seq(Frame) /\ sched \in Seq(Frame) /\ played \in Nat
  BY DEF DownlinkInv, TypeOK
<1>1. /\ \A i \in DOMAIN sched : sched[i].ts \in Nat /\ sched[i].ts < n
      /\ \A i \in DOMAIN queue : queue[i].ts \in Nat /\ queue[i].ts < n
      /\ played <= n
  BY <1>0, Typed, Fields DEF HeardBelow
<1>2. ASSUME NEW c \in Conns, Write(c), HeldAudio(c), msg[c] \in Message,
             PlayerPush([turn |-> msg[c].turn, ts |-> msg[c].ts])
      PROVE  /\ played' <= n
             /\ \A i \in DOMAIN sched' : sched'[i].ts < n
             /\ \A i \in DOMAIN queue' : queue'[i].ts < n
  <2> DEFINE f == [turn |-> msg[c].turn, ts |-> msg[c].ts]
             q == Append(queue, f)
  <2>1. f \in Frame /\ f.ts < n /\ HeardBelow(f.ts)
    BY <1>2, Fields DEF DownlinkInv, PlayInv
  <2>2. /\ \/ queue' = << >> /\ sched' = sched \o q
           \/ queue' = q /\ sched' = sched
        /\ played' = played
    BY <1>2 DEF PlayerPush
  <2> HIDE DEF f
  <2>3. /\ q \in Seq(Frame)
        /\ \A i \in DOMAIN q : q[i] = f \/ \E j \in DOMAIN queue : q[i] = queue[j]
    BY <2>1, Pushed
  <2> HIDE DEF q
  <2>4. \A i \in DOMAIN q : q[i].ts < n
    BY <1>1, <2>1, <2>3
  <2>5. CASE queue' = << >> /\ sched' = sched \o q
    <3>1. /\ Len(sched) \in Nat /\ DOMAIN sched = 1 .. Len(sched) /\ DOMAIN q = 1 .. Len(q)
          /\ DOMAIN sched' = 1 .. Len(sched) + Len(q)
          /\ \A i \in 1 .. Len(sched) : sched'[i] = sched[i]
          /\ \A i \in 1 .. Len(q) : sched'[Len(sched) + i] = q[i]
          /\ \A i \in 1 .. Len(sched) + Len(q) :
               i \in 1 .. Len(sched) \/ i - Len(sched) \in 1 .. Len(q)
      BY <1>0, <2>3, <2>5, Joined
    <3>2. \A i \in DOMAIN sched' : (i \in DOMAIN sched /\ sched'[i] = sched[i])
                                   \/ \E j \in DOMAIN q : sched'[i] = q[j]
      <4> SUFFICES ASSUME NEW i \in DOMAIN sched', i \notin DOMAIN sched
                   PROVE  \E j \in DOMAIN q : sched'[i] = q[j]
        BY <3>1
      <4>1. i \in Int /\ i - Len(sched) \in DOMAIN q /\ i = Len(sched) + (i - Len(sched))
        BY <3>1
      <4>2. sched'[i] = q[i - Len(sched)]
        BY <3>1, <4>1
      <4> QED BY <4>1, <4>2
    <3>3. DOMAIN queue' = {}
      BY <2>5
    <3> QED BY <1>1, <2>2, <2>4, <3>2, <3>3
  <2>6. CASE queue' = q /\ sched' = sched
    BY <1>1, <2>2, <2>4, <2>6
  <2> QED BY <2>2, <2>5, <2>6
<1>3. CASE SourceEnds
  <2>1. /\ 1 \in DOMAIN sched /\ played' = sched[1].ts + 1 /\ queue' = queue
        /\ \A i \in DOMAIN sched' : i + 1 \in DOMAIN sched /\ sched'[i] = sched[i + 1]
    BY <1>3, Ended
  <2> QED BY <1>1, <2>1
<1>4. CASE PlayerFlush
  <2>1. DOMAIN queue' = {} /\ DOMAIN sched' = {}
    BY <1>4 DEF PlayerFlush
  <2>2. \/ played' = played
        \/ \E i \in DOMAIN sched : played' = sched[i].ts + 1
        \/ \E i \in DOMAIN queue : played' = queue[i].ts + 1
    BY <1>0, <1>4, Flushed
  <2> QED BY <1>1, <2>1, <2>2
<1>5. CASE UNCHANGED <<queue, sched, played>>
  BY <1>1, <1>5
<1> QED BY <1>2, <1>3, <1>4, <1>5, PlayMoves

PlayOrdered ==
  /\ \A i \in DOMAIN sched : played <= sched[i].ts
  /\ \A i, j \in DOMAIN sched : i < j => sched[i].ts < sched[j].ts
  /\ \A i, j \in DOMAIN queue : i < j => queue[i].ts < queue[j].ts
  /\ \A i \in DOMAIN queue : played <= queue[i].ts
  /\ \A i \in DOMAIN sched, j \in DOMAIN queue : sched[i].ts < queue[j].ts

LEMMA PlayOrder ==
  ASSUME DownlinkInv, [Next]_vars
  PROVE  PlayOrdered' /\ played' >= played
<1>0. TypeOK /\ PlayInv /\ queue \in Seq(Frame) /\ sched \in Seq(Frame) /\ played \in Nat
  BY DEF DownlinkInv, TypeOK
<1>1. /\ \A i \in DOMAIN sched : sched[i].ts \in Nat
      /\ \A i \in DOMAIN queue : queue[i].ts \in Nat
      /\ PlayOrdered
  BY <1>0, Typed, Fields DEF PlayInv, PlayOrdered
<1> USE DEF PlayOrdered
<1>2. ASSUME NEW c \in Conns, Write(c), HeldAudio(c), msg[c] \in Message,
             PlayerPush([turn |-> msg[c].turn, ts |-> msg[c].ts])
      PROVE  PlayOrdered' /\ played' >= played
  <2> DEFINE f == [turn |-> msg[c].turn, ts |-> msg[c].ts]
             q == Append(queue, f)
  <2>1. f \in Frame /\ HeardBelow(f.ts)
    BY <1>2, Fields DEF DownlinkInv, PlayInv
  <2>2. /\ \/ queue' = << >> /\ sched' = sched \o q
           \/ queue' = q /\ sched' = sched
        /\ played' = played
    BY <1>2 DEF PlayerPush
  <2> HIDE DEF f
  <2>3. /\ q \in Seq(Frame)
        /\ \A i \in DOMAIN q : q[i].ts \in Nat /\ played <= q[i].ts
        /\ \A i, j \in DOMAIN q : i < j => q[i].ts < q[j].ts
        /\ \A i \in DOMAIN sched, j \in DOMAIN q : sched[i].ts < q[j].ts
    BY <2>1, Pushed
  <2> HIDE DEF q
  <2>4. CASE queue' = << >> /\ sched' = sched \o q
    <3>1. /\ Len(sched) \in Nat /\ Len(q) \in Nat
          /\ DOMAIN sched = 1 .. Len(sched) /\ DOMAIN q = 1 .. Len(q)
          /\ DOMAIN sched' = 1 .. Len(sched) + Len(q)
          /\ \A i \in 1 .. Len(sched) : sched'[i] = sched[i]
          /\ \A i \in 1 .. Len(q) : sched'[Len(sched) + i] = q[i]
          /\ \A i \in 1 .. Len(sched) + Len(q) :
               i \in 1 .. Len(sched) \/ i - Len(sched) \in 1 .. Len(q)
      BY <1>0, <2>3, <2>4, Joined
    <3>2. \A i \in DOMAIN sched' :
            \/ i \in DOMAIN sched /\ sched'[i] = sched[i]
            \/ /\ i \notin DOMAIN sched /\ i - Len(sched) \in DOMAIN q
               /\ sched'[i] = q[i - Len(sched)]
      <4> SUFFICES ASSUME NEW i \in DOMAIN sched', i \notin DOMAIN sched
                   PROVE  i - Len(sched) \in DOMAIN q /\ sched'[i] = q[i - Len(sched)]
        BY <3>1
      <4>1. i \in Int /\ i - Len(sched) \in DOMAIN q /\ i = Len(sched) + (i - Len(sched))
        BY <3>1
      <4>2. sched'[i] = q[i - Len(sched)]
        BY <3>1, <4>1
      <4> QED BY <4>1, <4>2
    <3>3. DOMAIN queue' = {}
      BY <2>4
    <3>4. \A i \in DOMAIN sched' : played' <= sched'[i].ts
      BY <1>1, <2>2, <2>3, <3>2
    <3>5. \A i, j \in DOMAIN sched' : i < j => sched'[i].ts < sched'[j].ts
      <4> SUFFICES ASSUME NEW i \in DOMAIN sched', NEW j \in DOMAIN sched', i < j
                   PROVE  sched'[i].ts < sched'[j].ts
        OBVIOUS
      <4>1. CASE i \in DOMAIN sched /\ j \in DOMAIN sched
        BY <1>1, <3>2, <4>1
      <4>2. CASE i \in DOMAIN sched /\ j \notin DOMAIN sched
        BY <2>3, <3>2, <4>2
      <4>3. CASE i \notin DOMAIN sched /\ j \notin DOMAIN sched
        <5>1. i - Len(sched) < j - Len(sched)
          BY <3>1
        <5> QED BY <2>3, <3>2, <4>3, <5>1
      <4>4. ~(i \notin DOMAIN sched /\ j \in DOMAIN sched)
        BY <3>1
      <4> QED BY <4>1, <4>2, <4>3, <4>4
    <3> QED BY <1>0, <2>2, <3>3, <3>4, <3>5
  <2>5. CASE queue' = q /\ sched' = sched
    BY <1>0, <1>1, <2>2, <2>3, <2>5
  <2> QED BY <2>2, <2>4, <2>5
<1>3. CASE SourceEnds
  <2>1. /\ 1 \in DOMAIN sched /\ played' = sched[1].ts + 1 /\ queue' = queue
        /\ \A i \in DOMAIN sched' :
             i \in Nat /\ i + 1 \in DOMAIN sched /\ 1 < i + 1 /\ sched'[i] = sched[i + 1]
    BY <1>3, Ended
  <2>2. \A i \in DOMAIN sched' : played' <= sched'[i].ts
    BY <1>1, <2>1
  <2>3. \A i, j \in DOMAIN sched' : i < j => sched'[i].ts < sched'[j].ts
    <3>1. \A i, j \in DOMAIN sched' : i < j => i + 1 < j + 1
      BY <2>1
    <3> QED BY <1>1, <2>1, <3>1
  <2>4. \A i \in DOMAIN queue' : played' <= queue'[i].ts
    BY <1>1, <2>1
  <2>5. \A i \in DOMAIN sched', j \in DOMAIN queue' : sched'[i].ts < queue'[j].ts
    BY <1>1, <2>1
  <2>6. played' >= played
    BY <1>0, <1>1, <2>1
  <2> QED BY <1>1, <2>1, <2>2, <2>3, <2>4, <2>5, <2>6
<1>4. CASE PlayerFlush
  <2>1. DOMAIN queue' = {} /\ DOMAIN sched' = {}
    BY <1>4 DEF PlayerFlush
  <2>2. played' >= played
    BY <1>0, <1>4, Flushed
  <2> QED BY <2>1, <2>2
<1>5. CASE UNCHANGED <<queue, sched, played>>
  BY <1>0, <1>1, <1>5
<1> QED BY <1>2, <1>3, <1>4, <1>5, PlayMoves

LEMMA PlayStep == DownlinkInv /\ [Next]_vars => PlayInv'
<1> SUFFICES ASSUME DownlinkInv, [Next]_vars PROVE PlayInv'
  OBVIOUS
<1> DEFINE Below(n) == /\ played' <= n
                       /\ \A i \in DOMAIN sched' : sched'[i].ts < n
                       /\ \A i \in DOMAIN queue' : queue'[i].ts < n
<1>0. TypeOK /\ TypeOK' /\ PlayInv /\ OrderInv /\ LineInv /\ clock \in Nat /\ clock' \in Nat
      /\ clock <= clock'
  BY TypeStep, EgressOrder DEF DownlinkInv
<1>2. ASSUME NEW n \in Nat, HeardBelow(n),
             \A c \in Conns : HeldAudio(c) /\ Write(c) => msg[c].ts < n
      PROVE  Below(n)
  BY <1>2, PlayStable
<1> HIDE DEF Below
<1>3. Below(clock)
  <2>1. HeardBelow(clock) /\ \A c \in Conns : HeldAudio(c) => msg[c].ts < clock
    BY <1>0 DEF PlayInv, OrderInv, BeforeWire, BeforePump, BeforeRest
  <2> QED BY <1>0, <1>2, <2>1
<1>4. HeardBelow(clock)'
  <2>1. /\ played' \in Nat /\ \A i \in DOMAIN sched' : sched'[i].ts \in Nat
        /\ \A i \in DOMAIN queue' : queue'[i].ts \in Nat
    <3>1. /\ \A i \in DOMAIN sched' : sched'[i] \in Frame
          /\ \A i \in DOMAIN queue' : queue'[i] \in Frame
      <4>1. sched' \in Seq(Frame) /\ queue' \in Seq(Frame)
        BY <1>0 DEF TypeOK
      <4>2. \A S : \A s \in Seq(S) : \A i \in DOMAIN s : s[i] \in S
        OBVIOUS
      <4> QED BY <4>1, <4>2
    <3> QED BY <1>0, <3>1, Fields DEF TypeOK
  <2> QED BY <1>0, <1>3, <2>1 DEF HeardBelow, Below
<1>5. hand' # None => Below(hand'.ts)
  <2>1. CASE PumpTake
    BY <1>3, <2>1, HandTaken
  <2>2. CASE hand' = hand /\ hand # None
    <3>1. hand.ts \in Nat /\ HeardBelow(hand.ts)
      BY <1>0, <2>2, Fields DEF PlayInv, TypeOK
    <3>2. \A c \in Conns : HeldAudio(c) => msg[c].ts < hand.ts
      BY <1>0, <2>2 DEF OrderInv, BeforeWire, BeforePump, Before
    <3> QED BY <1>2, <2>2, <3>1, <3>2
  <2>3. PumpSend => hand' = None
    BY DEF PumpSend
  <2> QED BY <2>1, <2>2, <2>3, HandMoves
<1>6. ASSUME NEW k \in DOMAIN wire, wire[k].kind = "audio" PROVE Below(wire[k].ts)
  <2>1. wire[k].ts \in Nat /\ HeardBelow(wire[k].ts)
    BY <1>0, <1>6, Typed, Fields DEF PlayInv
  <2>2. \A c \in Conns : HeldAudio(c) => msg[c].ts < wire[k].ts
    BY <1>0, <1>6 DEF OrderInv, BeforeWire, Before
  <2> QED BY <1>2, <2>1, <2>2
<1>7. ASSUME NEW i \in DOMAIN wire', wire'[i].kind = "audio" PROVE Below(wire'[i].ts)
  <2>1. CASE \E k \in DOMAIN wire : wire'[i] = wire[k]
    BY <1>6, <1>7, <2>1
  <2>2. CASE hand # None /\ wire'[i] = hand
    <3>1. hand.ts \in Nat /\ HeardBelow(hand.ts)
      BY <1>0, <2>2, Fields DEF PlayInv, TypeOK
    <3>2. \A c \in Conns : HeldAudio(c) => msg[c].ts < hand.ts
      BY <1>0, <2>2 DEF OrderInv, BeforeWire, BeforePump, Before
    <3> QED BY <1>2, <2>2, <3>1, <3>2
  <2>3. CASE UNCHANGED wire
    BY <2>1, <2>3
  <2>4. CASE /\ DOMAIN wire' = 1 .. Len(wire) + 1
             /\ \A k \in 1 .. Len(wire) : wire'[k] = wire[k]
             /\ wire'[Len(wire) + 1].kind = "audio" =>
                  hand # None /\ wire'[Len(wire) + 1] = hand
    <3>1. i \in DOMAIN wire \/ i = Len(wire) + 1
      BY <2>4, WireAfter
    <3>2. i \in DOMAIN wire => wire'[i] = wire[i]
      BY <2>4, WireAfter
    <3> QED BY <1>7, <2>1, <2>2, <2>4, <3>1, <3>2
  <2>5. CASE /\ DOMAIN wire' = 1 .. Len(wire) - 1
             /\ \A k \in 1 .. Len(wire) - 1 : wire'[k] = wire[k + 1]
    <3>1. i + 1 \in DOMAIN wire /\ wire'[i] = wire[i + 1]
      BY <2>5, WireAfter
    <3> QED BY <2>1, <3>1
  <2> QED BY <2>3, <2>4, <2>5, WireAfter
<1>8. ASSUME NEW c \in Conns, line'[c] = "up", wr'[c] = "write", msg'[c].kind = "audio"
      PROVE  Below(msg'[c].ts)
  <2>1. CASE Held(c) /\ msg'[c] = msg[c] /\ \A d \in Conns : ~(Write(d) /\ line[d] = "up")
    <3>1. msg[c] \in Message /\ HeldAudio(c)
      BY <1>0, <1>8, <2>1 DEF LineInv, Held, HeldAudio
    <3>2. msg[c].ts \in Nat /\ HeardBelow(msg[c].ts)
      BY <1>0, <3>1, Fields DEF PlayInv
    <3>3. \A d \in Conns : ~(HeldAudio(d) /\ Write(d))
      BY <2>1 DEF HeldAudio, Held
    <3> QED BY <1>2, <2>1, <3>2, <3>3
  <2>2. CASE Take(c) /\ msg'[c] = Head(wire)
    <3>1. wire \in Seq(Message) /\ wire # << >>
      BY <1>0, <2>2 DEF Take, TypeOK
    <3>2. msg'[c] = wire[1] /\ 1 \in DOMAIN wire
      <4>1. Head(wire) = wire[1] /\ Len(wire) \in Nat \ {0} /\ DOMAIN wire = 1 .. Len(wire)
        BY ONLY <3>1, Taken
      <4> QED BY <2>2, <4>1
    <3> QED BY <1>6, <1>8, <3>2
  <2> QED BY <1>8, <2>1, <2>2, HeldMoves
<1>9. hand' # None => HeardBelow(hand.ts)'
  BY <1>5 DEF HeardBelow, Below
<1>10. \A i \in DOMAIN wire' : wire'[i].kind = "audio" => HeardBelow(wire[i].ts)'
  BY <1>7 DEF HeardBelow, Below
<1>11. \A c \in Conns : HeldAudio(c)' => HeardBelow(msg[c].ts)'
  BY <1>8 DEF HeardBelow, Below, HeldAudio, Held
<1>12. PlayOrdered'
  BY PlayOrder
<1> QED BY <1>4, <1>9, <1>10, <1>11, <1>12 DEF PlayInv, PlayOrdered
-----------------------------------------------------------------------------
(* A cancelled turn: nothing of it comes after its BARGE_IN but the frame  *)
(* the pump had in hand when it was sent.                                  *)

LEMMA PhaseMoves ==
  ASSUME [Next]_vars
  PROVE  \/ StartTurn \/ FinishTurn \/ CancelTurn \/ Drain \/ Notify
         \/ UNCHANGED <<turn, phase>>
<1> USE DEF turnVars, connVars, clientVars
<1>1. CASE \/ StartTurn \/ Emit \/ Token \/ Final \/ FinishTurn \/ CancelTurn \/ Drain \/ Notify
           \/ PumpTake \/ PumpSend \/ Play
  BY <1>1 DEF Emit, Token, Final, PumpTake, PumpSend, Play
<1>2. ASSUME NEW c \in Conns,
             \/ Attach(c) \/ Break(c) \/ SendAck(c) \/ Take(c) \/ Write(c)
             \/ WriteFails(c) \/ WriterExits(c)
      PROVE  UNCHANGED <<turn, phase>>
  BY <1>2 DEF Attach, Break, SendAck, Take, Write, WriteFails, WriterExits
<1>3. CASE UNCHANGED vars
  BY <1>3 DEF vars
<1> QED BY <1>1, <1>2, <1>3 DEF Next

(* Between two turns nothing is pushed on the egress edge.                 *)
LEMMA EgressKept ==
  ASSUME DownlinkInv, [Next]_vars, phase # "running"
  PROVE  \A i \in DOMAIN egress' : \E j \in DOMAIN egress : egress'[i] = egress[j]
<1>1. ~Emit
  BY DEF Emit
<1>2. CASE UNCHANGED egress
  BY <1>2
<1>3. CASE Drain
  <2>1. DOMAIN egress' = {}
    BY <1>3 DEF Drain
  <2> QED BY <2>1
<1>4. CASE PumpTake
  <2>1. egress \in Seq(Nat) /\ egress # << >> /\ egress' = Tail(egress)
    BY <1>4 DEF PumpTake, DownlinkInv, TypeOK
  <2>2. /\ Len(egress) \in Nat /\ DOMAIN egress = 1 .. Len(egress)
        /\ DOMAIN egress' = 1 .. Len(egress) - 1
        /\ \A i \in 1 .. Len(egress) - 1 : egress'[i] = egress[i + 1]
    BY <2>1, Taken
  <2>3. \A i \in DOMAIN egress' : i + 1 \in DOMAIN egress /\ egress'[i] = egress[i + 1]
    BY <2>2
  <2> QED BY <2>3
<1> QED BY <1>1, <1>2, <1>3, <1>4, EgressMoves

LEMMA OverStable ==
  ASSUME DownlinkInv, [Next]_vars, NEW t \in Nat, NEW k \in Nat, Over(t, k)
  PROVE  /\ k <= clock' /\ (turn' > t \/ (turn' = t /\ phase' = "idle"))
         /\ \A i \in DOMAIN egress' : egress'[i] > t
         /\ hand' # None => After(hand', t, k)
<1>0. /\ turn \in Nat /\ turn' \in Nat /\ turn <= turn'
      /\ clock \in Nat /\ clock' \in Nat /\ clock <= clock'
  BY EgressOrder
<1>1. k <= clock'
  BY <1>0 DEF Over
<1>2. turn' > t \/ (turn' = t /\ phase' = "idle")
  <2>1. CASE turn > t
    BY <1>0, <2>1
  <2>2. CASE turn = t /\ phase = "idle"
    <3>1. ~(FinishTurn \/ CancelTurn \/ Drain \/ Notify)
      BY <2>2 DEF FinishTurn, CancelTurn, Drain, Notify
    <3>2. StartTurn => turn' = turn + 1
      BY DEF StartTurn
    <3> QED BY <1>0, <2>2, <3>1, <3>2, PhaseMoves
  <2> QED BY <2>1, <2>2 DEF Over
<1>3. \A i \in DOMAIN egress' : egress'[i] > t
  <2>1. CASE phase = "running"
    <3>1. turn > t
      BY <2>1 DEF Over
    <3>2. \A i \in DOMAIN egress : egress[i] > t
      BY DEF Over
    <3> QED BY <3>1, <3>2, EgressOrder
  <2>2. CASE phase # "running"
    BY <2>2, EgressKept DEF Over
  <2> QED BY <2>1, <2>2
<1>4. hand' # None => After(hand', t, k)
  <2>1. CASE PumpTake
    <3>1. hand'.kind = "audio" /\ hand'.ts = clock /\ hand'.turn = egress[1] /\ 1 \in DOMAIN egress
      BY <2>1, HandTaken
    <3>2. egress[1] > t /\ k <= clock /\ egress[1] \in Nat
      BY <3>1, Typed DEF Over, DownlinkInv
    <3> QED BY <1>0, <3>1, <3>2 DEF After
  <2>2. CASE UNCHANGED hand
    BY <2>2 DEF Over
  <2>3. PumpSend => hand' = None
    BY DEF PumpSend
  <2> QED BY <2>1, <2>2, <2>3, HandMoves
<1> QED BY <1>1, <1>2, <1>3, <1>4

(* Whatever joins the wire queue may follow the BARGE_IN.                  *)
LEMMA NewOnWire ==
  ASSUME DownlinkInv, [Next]_vars, NEW t \in Nat, NEW k \in Nat, Over(t, k),
         DOMAIN wire' = 1 .. Len(wire) + 1
  PROVE  After(wire'[Len(wire) + 1], t, k)
<1>1. DOMAIN wire = 1 .. Len(wire) /\ Len(wire) \in Nat
  BY WireAfter
<1>2. Len(wire) + 1 \in DOMAIN wire' /\ Len(wire) + 1 \notin DOMAIN wire
  BY <1>1
<1>3. ~UNCHANGED wire
  BY <1>2
<1>4. DOMAIN wire' # 1 .. Len(wire) - 1
  <2>1. Len(wire) + 1 \notin 1 .. Len(wire) - 1
    BY <1>1
  <2> QED BY <1>2, <2>1
<1>5. CASE hand # None /\ wire'[Len(wire) + 1] = hand
  BY <1>5 DEF Over
<1>6. CASE Token /\ wire'[Len(wire) + 1] = [kind |-> "token", turn |-> turn, ts |-> clock]
  BY <1>6 DEF Token, Over, After
<1>7. CASE wire'[Len(wire) + 1].kind \in {"final", "bargeIn"}
  BY <1>7 DEF After
<1> QED BY <1>3, <1>4, <1>5, <1>6, <1>7, WireAfter

LEMMA OverWireStable ==
  ASSUME DownlinkInv, [Next]_vars, NEW t \in Nat, NEW k \in Nat, OverOnWire(t, k)
  PROVE  \A j \in DOMAIN wire' : After(wire'[j], t, k)
<1>0. Over(t, k) /\ \A j \in DOMAIN wire : After(wire[j], t, k)
  BY DEF OverOnWire
<1>1. CASE UNCHANGED wire
  BY <1>0, <1>1
<1>2. CASE /\ DOMAIN wire' = 1 .. Len(wire) + 1
           /\ \A i \in 1 .. Len(wire) : wire'[i] = wire[i]
  <2>1. \A j \in DOMAIN wire' : (j \in DOMAIN wire /\ wire'[j] = wire[j]) \/ j = Len(wire) + 1
    BY <1>2, WireAfter
  <2>2. After(wire'[Len(wire) + 1], t, k)
    BY <1>0, <1>2, NewOnWire
  <2> QED BY <1>0, <2>1, <2>2
<1>3. CASE /\ DOMAIN wire' = 1 .. Len(wire) - 1
           /\ \A i \in 1 .. Len(wire) - 1 : wire'[i] = wire[i + 1]
  <2>1. \A j \in DOMAIN wire' : j + 1 \in DOMAIN wire /\ wire'[j] = wire[j + 1]
    BY <1>3, WireAfter
  <2> QED BY <1>0, <2>1
<1> QED BY <1>1, <1>2, <1>3, WireAfter

(* A subtitle the client holds was held before, or came now.               *)
LEMMA PendingAfter ==
  ASSUME DownlinkInv, [Next]_vars
  PROVE  \A i \in DOMAIN pending' :
           \/ \E j \in DOMAIN pending : pending'[i] = pending[j]
           \/ \E c \in Conns :
                /\ Write(c) /\ Held(c) /\ msg[c] \in Message /\ msg[c].kind = "token"
                /\ pending'[i].turn = msg[c].turn
<1>0. pending \in Seq(Frame)
  BY DEF DownlinkInv, TypeOK
<1>1. CASE UNCHANGED pending
  BY <1>1
<1>2. CASE pending' = << >>
  <2>1. DOMAIN pending' = {}
    BY <1>2
  <2> QED BY <2>1
<1>3. CASE pending # << >> /\ pending' = Tail(pending)
  <2>1. /\ Len(pending) \in Nat /\ DOMAIN pending = 1 .. Len(pending)
        /\ DOMAIN pending' = 1 .. Len(pending) - 1
        /\ \A i \in 1 .. Len(pending) - 1 : pending'[i] = pending[i + 1]
    BY <1>0, <1>3, Taken
  <2>2. \A i \in DOMAIN pending' : i + 1 \in DOMAIN pending /\ pending'[i] = pending[i + 1]
    BY <2>1
  <2> QED BY <2>2
<1>4. ASSUME NEW c \in Conns, Write(c), Held(c), msg[c] \in Message, msg[c].kind = "token",
             pending' = Append(pending, [turn |-> msg[c].turn, ts |-> msg[c].ts])
      PROVE  \A i \in DOMAIN pending' :
               \/ \E j \in DOMAIN pending : pending'[i] = pending[j]
               \/ pending'[i].turn = msg[c].turn
  <2> DEFINE f == [turn |-> msg[c].turn, ts |-> msg[c].ts]
  <2>1. f \in Frame /\ f.turn = msg[c].turn /\ pending' = Append(pending, f)
    BY <1>4, Fields
  <2> HIDE DEF f
  <2>2. /\ DOMAIN pending = 1 .. Len(pending)
        /\ DOMAIN pending' = 1 .. Len(pending) + 1 /\ Len(pending) \in Nat
        /\ \A i \in 1 .. Len(pending) : pending'[i] = pending[i]
        /\ pending'[Len(pending) + 1] = f
    BY <1>0, <2>1, Sent
  <2>3. \A i \in DOMAIN pending' :
          (i \in DOMAIN pending /\ pending'[i] = pending[i]) \/ pending'[i] = f
    BY <2>2
  <2> QED BY <2>1, <2>3
<1>5. ASSUME NEW c \in Conns, Write(c), line[c] = "up", Receive(msg[c])
      PROVE  \/ UNCHANGED pending \/ pending' = << >>
             \/ /\ Held(c) /\ msg[c] \in Message /\ msg[c].kind = "token"
                /\ pending' = Append(pending, [turn |-> msg[c].turn, ts |-> msg[c].ts])
  <2>1. msg[c] \in Message /\ Held(c)
    BY <1>5 DEF Write, Held, DownlinkInv, LineInv
  <2> QED BY <1>5, <2>1 DEF Receive, PlayerPush, PlayerToken, PlayerClear, PlayerFlush
<1>6. Play => UNCHANGED pending \/ (pending # << >> /\ pending' = Tail(pending))
  BY DEF Play, SourceEnds, Reveal
<1>7. UNCHANGED clientVars => UNCHANGED pending
  BY DEF clientVars
<1> QED BY <1>1, <1>2, <1>3, <1>4, <1>5, <1>6, <1>7, ClientMoves

(* What the client knows of turn t, at a count n of frames, goes on to hold. *)
LEMMA HeardStable ==
  ASSUME DownlinkInv, [Next]_vars, NEW t \in Nat, NEW n \in Nat, NEW k \in Nat,
         HeardInv(t, n, k)
  PROVE  HeardInv(t, n, k)'
<1>0. OverOnWire(t, k) /\ Over(t, k) /\ audio \in Seq(Frame) /\ audio' \in Seq(Frame)
  BY TypeStep DEF HeardInv, OverOnWire, DownlinkInv, TypeOK
<1>1. OverOnWire(t, k)'
  BY <1>0, OverStable, OverWireStable DEF OverOnWire, Over, After
<1>2. ASSUME NEW c \in Conns, line'[c] = "up", wr'[c] = "write"
      PROVE  After(msg'[c], t, k)
  <2>1. CASE Held(c) /\ msg'[c] = msg[c]
    BY <2>1 DEF HeardInv
  <2>2. CASE Take(c) /\ msg'[c] = Head(wire)
    <3>1. msg'[c] = wire[1] /\ 1 \in DOMAIN wire
      BY <2>2, Taken DEF Take, DownlinkInv, TypeOK
    <3> QED BY <1>0, <3>1 DEF OverOnWire
  <2> QED BY <1>2, <2>1, <2>2, HeldMoves
<1>3. (\A c \in Conns : Held(c) => After(msg[c], t, k))'
  BY <1>2 DEF Held, After
<1>4. /\ n <= Len(audio')
      /\ \A i \in n + 1 .. Len(audio') :
           audio'[i].ts + 1 >= k /\ (audio'[i].turn <= t => audio'[i].ts < k)
  <2>0. /\ n <= Len(audio) /\ Len(audio) \in Nat
        /\ \A i \in n + 1 .. Len(audio) :
             audio[i].ts + 1 >= k /\ (audio[i].turn <= t => audio[i].ts < k)
    BY <1>0 DEF HeardInv
  <2>1. CASE UNCHANGED audio
    BY <2>0, <2>1
  <2>2. ASSUME NEW c \in Conns, HeldAudio(c), Len(audio') = Len(audio) + 1,
               \A i \in 1 .. Len(audio) : audio'[i] = audio[i],
               audio'[Len(audio) + 1] = [turn |-> msg[c].turn, ts |-> msg[c].ts]
        PROVE  /\ n <= Len(audio')
               /\ \A i \in n + 1 .. Len(audio') :
                    audio'[i].ts + 1 >= k /\ (audio'[i].turn <= t => audio'[i].ts < k)
    <3>1. After(msg[c], t, k) /\ msg[c].kind = "audio"
      BY <2>2 DEF HeardInv, HeldAudio
    <3>2. \A i \in n + 1 .. Len(audio') :
            (i \in n + 1 .. Len(audio) /\ audio'[i] = audio[i]) \/ i = Len(audio) + 1
      BY <2>0, <2>2
    <3> QED BY <2>0, <2>2, <3>1, <3>2 DEF After
  <2> QED BY <2>1, <2>2, AudioAfter
<1>5. \A i \in DOMAIN pending' : pending'[i].turn > t
  <2> SUFFICES ASSUME NEW i \in DOMAIN pending' PROVE pending'[i].turn > t
    OBVIOUS
  <2>1. CASE \E j \in DOMAIN pending : pending'[i] = pending[j]
    BY <2>1 DEF HeardInv
  <2>2. ASSUME NEW c \in Conns, Held(c), msg[c].kind = "token", pending'[i].turn = msg[c].turn
        PROVE  pending'[i].turn > t
    BY <2>2 DEF HeardInv, After
  <2> QED BY <2>1, <2>2, PendingAfter
<1> QED BY <1>1, <1>3, <1>4, <1>5 DEF HeardInv

(* A BARGE_IN is queued when its turn is over and the egress edge drained. *)
LEMMA Notified ==
  ASSUME DownlinkInv, Notify
  PROVE  /\ turn \in Turns /\ turn' = turn /\ clock' = clock /\ phase' = "idle"
         /\ UNCHANGED <<egress, hand>>
         /\ DOMAIN egress = {} /\ clock \in Nat /\ turn \in Nat
         /\ hand # None => After(hand, turn, clock)
<1>1. /\ turn' = turn /\ clock' = clock /\ phase' = "idle" /\ phase = "notify"
      /\ UNCHANGED <<egress, hand>>
  BY DEF Notify
<1>2. turn \in Turns /\ egress = << >> /\ clock \in Nat /\ turn \in Nat
  BY <1>1 DEF DownlinkInv, BargeInv, TypeOK
<1>3. DOMAIN egress = {}
  BY <1>2
<1>4. hand # None => After(hand, turn, clock)
  <2> SUFFICES ASSUME hand # None PROVE After(hand, turn, clock)
    OBVIOUS
  <2>1. hand.kind = "audio" /\ hand.ts + 1 = clock /\ hand.ts \in Nat
    BY Fields DEF DownlinkInv, TypeOK, OrderInv
  <2> QED BY <1>2, <2>1 DEF After
<1> QED BY <1>1, <1>2, <1>3, <1>4

LEMMA WireBarge ==
  DownlinkInv /\ [Next]_vars =>
    \A i \in DOMAIN wire' : wire'[i].kind = "bargeIn" =>
      /\ wire'[i].turn \in Turns /\ Over(wire[i].turn, wire[i].ts)'
      /\ \A j \in DOMAIN wire' : i < j => After(wire'[j], wire'[i].turn, wire'[i].ts)
<1> SUFFICES ASSUME DownlinkInv, [Next]_vars, NEW i \in DOMAIN wire', wire'[i].kind = "bargeIn"
             PROVE  /\ wire'[i].turn \in Turns /\ Over(wire[i].turn, wire[i].ts)'
                    /\ \A j \in DOMAIN wire' :
                         i < j => After(wire'[j], wire'[i].turn, wire'[i].ts)
  OBVIOUS
<1>0. /\ \A x \in DOMAIN wire : wire[x].kind = "bargeIn" =>
            /\ wire[x].turn \in Turns /\ Over(wire[x].turn, wire[x].ts)
            /\ \A j \in DOMAIN wire : x < j => After(wire[j], wire[x].turn, wire[x].ts)
      /\ \A x \in DOMAIN wire : wire[x].ts \in Nat /\ wire[x].turn \in Nat
  BY Typed, Fields DEF DownlinkInv, BargeInv
<1>1. ASSUME NEW x \in DOMAIN wire, wire'[i] = wire[x]
      PROVE  wire'[i].turn \in Turns /\ Over(wire[i].turn, wire[i].ts)'
  <2>1. /\ wire[x].turn \in Turns /\ Over(wire[x].turn, wire[x].ts)
        /\ wire[x].ts \in Nat /\ wire[x].turn \in Nat
    BY <1>0, <1>1
  <2>2. /\ wire[x].ts <= clock'
        /\ (turn' > wire[x].turn \/ (turn' = wire[x].turn /\ phase' = "idle"))
        /\ \A l \in DOMAIN egress' : egress'[l] > wire[x].turn
        /\ hand' # None => After(hand', wire[x].turn, wire[x].ts)
    BY <2>1, OverStable
  <2> QED BY <1>1, <2>1, <2>2 DEF Over, After
<1>2. CASE UNCHANGED wire
  <2>1. i \in DOMAIN wire /\ wire'[i] = wire[i]
    BY <1>2
  <2>2. \A j \in DOMAIN wire' : i < j => After(wire'[j], wire'[i].turn, wire'[i].ts)
    BY <1>0, <1>2, <2>1
  <2> QED BY <1>1, <2>1, <2>2
<1>3. CASE /\ DOMAIN wire' = 1 .. Len(wire) + 1
           /\ \A x \in 1 .. Len(wire) : wire'[x] = wire[x]
           /\ \/ wire'[Len(wire) + 1].kind # "bargeIn"
              \/ /\ Notify
                 /\ wire'[Len(wire) + 1] = [kind |-> "bargeIn", turn |-> turn, ts |-> clock]
  <2>1. /\ \A x \in DOMAIN wire : wire'[x] = wire[x] /\ x \in DOMAIN wire'
        /\ \A x \in DOMAIN wire' : x \in DOMAIN wire \/ x = Len(wire) + 1
        /\ \A x \in DOMAIN wire' : ~(Len(wire) + 1 < x)
    BY <1>3, WireAfter
  <2>2. CASE i \in DOMAIN wire
    <3>1. wire'[i] = wire[i] /\ wire[i].ts \in Nat /\ wire[i].turn \in Nat
          /\ Over(wire[i].turn, wire[i].ts)
      BY <1>0, <2>1, <2>2
    <3>2. After(wire'[Len(wire) + 1], wire[i].turn, wire[i].ts)
      BY <1>3, <3>1, NewOnWire
    <3>3. \A j \in DOMAIN wire : i < j => After(wire[j], wire[i].turn, wire[i].ts)
      BY <1>0, <2>2, <3>1
    <3>4. \A j \in DOMAIN wire' : i < j => After(wire'[j], wire'[i].turn, wire'[i].ts)
      BY <2>1, <3>1, <3>2, <3>3
    <3> QED BY <1>1, <2>2, <3>1, <3>4
  <2>3. CASE i = Len(wire) + 1
    <3>1. Notify /\ wire'[i].turn = turn /\ wire'[i].ts = clock
      BY <1>3, <2>3
    <3>2. Over(wire[i].turn, wire[i].ts)' /\ wire'[i].turn \in Turns
      BY <3>1, Notified DEF Over, After
    <3> QED BY <2>1, <2>3, <3>2
  <2> QED BY <2>1, <2>2, <2>3
<1>4. CASE /\ DOMAIN wire' = 1 .. Len(wire) - 1
           /\ \A x \in 1 .. Len(wire) - 1 : wire'[x] = wire[x + 1]
  <2>1. \A x \in DOMAIN wire' : x \in Nat /\ x + 1 \in DOMAIN wire /\ wire'[x] = wire[x + 1]
    BY <1>4, WireAfter
  <2>2. \A j \in DOMAIN wire' : i < j => After(wire'[j], wire'[i].turn, wire'[i].ts)
    <3>1. \A j \in DOMAIN wire' : i < j => i + 1 < j + 1
      BY <2>1
    <3> QED BY <1>0, <2>1, <3>1
  <2> QED BY <1>1, <2>1, <2>2
<1>5. hand # None /\ wire'[Len(wire) + 1] = hand => wire'[Len(wire) + 1].kind # "bargeIn"
  BY DEF DownlinkInv, OrderInv
<1> QED BY <1>2, <1>3, <1>4, <1>5, WireAfter

LEMMA HeldBarge ==
  DownlinkInv /\ [Next]_vars =>
    \A c \in Conns : Held(c)' /\ msg'[c].kind = "bargeIn" =>
      msg'[c].turn \in Turns /\ OverOnWire(msg[c].turn, msg[c].ts)'
<1> SUFFICES ASSUME DownlinkInv, [Next]_vars, NEW c \in Conns,
                    line'[c] = "up", wr'[c] = "write", msg'[c].kind = "bargeIn"
             PROVE  msg'[c].turn \in Turns /\ OverOnWire(msg[c].turn, msg[c].ts)'
  BY DEF Held
<1>1. CASE Held(c) /\ msg'[c] = msg[c]
  <2>1. /\ msg[c].turn \in Turns /\ OverOnWire(msg[c].turn, msg[c].ts)
        /\ Over(msg[c].turn, msg[c].ts) /\ msg[c].ts \in Nat /\ msg[c].turn \in Nat
    BY <1>1, Fields DEF DownlinkInv, LineInv, BargeInv, Held, OverOnWire
  <2>2. /\ msg[c].ts <= clock'
        /\ (turn' > msg[c].turn \/ (turn' = msg[c].turn /\ phase' = "idle"))
        /\ \A l \in DOMAIN egress' : egress'[l] > msg[c].turn
        /\ hand' # None => After(hand', msg[c].turn, msg[c].ts)
        /\ \A j \in DOMAIN wire' : After(wire'[j], msg[c].turn, msg[c].ts)
    BY <2>1, OverStable, OverWireStable
  <2> QED BY <1>1, <2>1, <2>2 DEF OverOnWire, Over, After
<1>2. CASE Take(c) /\ msg'[c] = Head(wire)
  <2>1. /\ wire # << >> /\ wire' = Tail(wire) /\ wire \in Seq(Message)
        /\ UNCHANGED <<turn, phase, egress, hand, clock>>
    BY <1>2 DEF Take, turnVars, DownlinkInv, TypeOK
  <2>2. /\ Len(wire) \in Nat /\ DOMAIN wire' = 1 .. Len(wire) - 1 /\ DOMAIN wire = 1 .. Len(wire)
        /\ Head(wire) = wire[1] /\ Len(wire) # 0
        /\ \A i \in 1 .. Len(wire) - 1 : wire'[i] = wire[i + 1]
    BY <2>1, Taken
  <2>3. /\ msg'[c] = wire[1] /\ 1 \in DOMAIN wire
        /\ \A j \in DOMAIN wire' : j + 1 \in DOMAIN wire /\ 1 < j + 1 /\ wire'[j] = wire[j + 1]
    BY <1>2, <2>2
  <2>4. /\ wire[1].turn \in Turns /\ Over(wire[1].turn, wire[1].ts)
        /\ \A j \in DOMAIN wire : 1 < j => After(wire[j], wire[1].turn, wire[1].ts)
    BY <2>3 DEF DownlinkInv, BargeInv
  <2>5. \A j \in DOMAIN wire' : After(wire'[j], wire[1].turn, wire[1].ts)
    BY <2>3, <2>4
  <2>6. Over(msg[c].turn, msg[c].ts)'
    BY <2>1, <2>3, <2>4 DEF Over, After
  <2>7. (\A j \in DOMAIN wire : After(wire[j], msg[c].turn, msg[c].ts))'
    BY <2>3, <2>5
  <2> QED BY <2>3, <2>4, <2>6, <2>7 DEF OverOnWire
<1> QED BY <1>1, <1>2, HeldMoves

(* A BARGE_IN at the client: from here on HeardInv holds.                  *)
LEMMA HeardStarts ==
  ASSUME DownlinkInv, [Next]_vars, NEW c \in Conns, Write(c), line[c] = "up",
         msg[c].kind = "bargeIn", PlayerFlush, UNCHANGED audio,
         NEW t \in Nat, t = msg[c].turn, NEW n \in Nat, n = Len(audio)
  PROVE  \E k \in Nat : HeardInv(t, n, k)'
<1>1. msg[c] \in Message /\ Held(c)
  BY DEF Write, DownlinkInv, LineInv, Held
<1>2. PICK k \in Nat : k = msg[c].ts
  BY <1>1, Fields
<1>3. OverOnWire(t, k) /\ Over(t, k)
  BY <1>1, <1>2 DEF DownlinkInv, BargeInv, OverOnWire
<1>4. OverOnWire(t, k)'
  BY <1>3, OverStable, OverWireStable DEF OverOnWire, Over, After
<1>5. (\A d \in Conns : Held(d) => After(msg[d], t, k))'
  BY NoneHeld DEF Held
<1>6. \A i \in DOMAIN pending' : pending'[i].turn > t
  <2>1. DOMAIN pending' = {}
    BY DEF PlayerFlush
  <2> QED BY <2>1
<1>7. Len(audio') = n /\ n + 1 .. n = {}
  OBVIOUS
<1> QED BY <1>4, <1>5, <1>6, <1>7 DEF HeardInv

LEMMA HeardStep ==
  DownlinkInv /\ [Next]_vars =>
    \A t \in Turns : heardOf'[t] # None => \E k \in Nat : HeardInv(t, heardOf[t], k)'
<1> SUFFICES ASSUME DownlinkInv, [Next]_vars, NEW t \in Turns, heardOf'[t] # None
             PROVE  \E k \in Nat : HeardInv(t, heardOf[t], k)'
  OBVIOUS
<1>0. t \in Nat /\ heardOf'[t] \in Nat /\ heardOf \in [Turns -> Nat \cup {None}]
      /\ Len(audio) \in Nat
  <2>1. heardOf' \in [Turns -> Nat \cup {None}] /\ heardOf \in [Turns -> Nat \cup {None}]
        /\ audio \in Seq(Frame)
    BY TypeStep DEF TypeOK, DownlinkInv
  <2> QED BY <2>1, DownlinkAssumption DEF Turns
<1>1. PICK n \in Nat : n = heardOf'[t]
  BY <1>0
<1>2. \A k : HeardInv(t, n, k)' => HeardInv(t, heardOf[t], k)'
  BY <1>1 DEF HeardInv
<1>3. CASE heardOf'[t] = heardOf[t]
  <2>1. PICK k \in Nat : HeardInv(t, n, k)
    BY <1>1, <1>3 DEF DownlinkInv, BargeInv
  <2>2. HeardInv(t, n, k)'
    BY <1>0, <2>1, HeardStable
  <2> QED BY <1>2, <2>2
<1>4. ASSUME NEW c \in Conns, Write(c), line[c] = "up", msg[c].kind = "bargeIn",
             PlayerFlush, UNCHANGED audio, t = msg[c].turn, n = Len(audio)
      PROVE  \E k \in Nat : HeardInv(t, heardOf[t], k)'
  <2>1. \E k \in Nat : HeardInv(t, n, k)'
    BY <1>0, <1>4, HeardStarts
  <2> QED BY <1>2, <2>1
<1>5. ASSUME NEW c \in Conns, Write(c), line[c] = "up", Receive(msg[c]),
             heardOf'[t] # heardOf[t]
      PROVE  \E k \in Nat : HeardInv(t, heardOf[t], k)'
  <2>1. /\ msg[c].kind = "bargeIn" /\ PlayerFlush /\ UNCHANGED audio
        /\ heardOf' = [heardOf EXCEPT ![msg[c].turn] = Len(audio)]
    BY <1>5 DEF Receive
  <2>2. t = msg[c].turn /\ n = Len(audio)
    BY <1>0, <1>1, <1>5, <2>1
  <2> QED BY <1>4, <1>5, <2>1, <2>2
<1>6. Play \/ UNCHANGED clientVars => heardOf' = heardOf
  BY DEF Play, clientVars
<1> QED BY <1>3, <1>5, <1>6, ClientMoves

LEMMA PhaseOfTurn ==
  DownlinkInv /\ [Next]_vars =>
    /\ phase' \in {"drain", "notify", "running"} => turn' \in Turns
    /\ phase' = "notify" => egress' = << >>
    /\ turn' <= MaxTurns
<1> SUFFICES ASSUME DownlinkInv, [Next]_vars
             PROVE  /\ phase' \in {"drain", "notify", "running"} => turn' \in Turns
                    /\ phase' = "notify" => egress' = << >>
                    /\ turn' <= MaxTurns
  OBVIOUS
<1>0. /\ turn \in Nat /\ turn <= MaxTurns /\ MaxTurns \in Nat
      /\ phase \in {"drain", "notify", "running"} => turn \in Turns
      /\ phase = "notify" => egress = << >>
  BY DownlinkAssumption DEF DownlinkInv, TypeOK, BargeInv
<1>1. CASE StartTurn
  BY <1>0, <1>1 DEF StartTurn, Turns
<1>2. CASE FinishTurn \/ CancelTurn \/ Notify
  BY <1>0, <1>2 DEF FinishTurn, CancelTurn, Notify
<1>3. CASE Drain
  BY <1>0, <1>3 DEF Drain
<1>4. CASE UNCHANGED <<turn, phase>>
  <2>1. ASSUME phase = "notify" PROVE egress' = << >>
    <3>1. ~Emit /\ ~Drain /\ ~PumpTake /\ ~StartTurn
      BY <1>0, <2>1 DEF Emit, Drain, PumpTake, StartTurn
    <3> QED BY <1>0, <2>1, <3>1, EgressMoves
  <2> QED BY <1>0, <1>4, <2>1
<1> QED BY <1>1, <1>2, <1>3, <1>4, PhaseMoves

LEMMA BargeStep == DownlinkInv /\ [Next]_vars => BargeInv'
<1> SUFFICES ASSUME DownlinkInv, [Next]_vars PROVE BargeInv'
  OBVIOUS
<1>1. /\ phase' \in {"drain", "notify", "running"} => turn' \in Turns
      /\ phase' = "notify" => egress' = << >>
      /\ turn' <= MaxTurns
  BY PhaseOfTurn
<1>2. \A t \in Turns : heardOf'[t] # None => \E k \in Nat : HeardInv(t, heardOf[t], k)'
  BY HeardStep
<1>3. \A c \in Conns : Held(c)' /\ msg'[c].kind = "bargeIn" =>
        msg'[c].turn \in Turns /\ OverOnWire(msg[c].turn, msg[c].ts)'
  BY HeldBarge
<1>4. \A i \in DOMAIN wire' : wire'[i].kind = "bargeIn" =>
        /\ wire'[i].turn \in Turns /\ Over(wire[i].turn, wire[i].ts)'
        /\ \A j \in DOMAIN wire' : i < j => After(wire'[j], wire'[i].turn, wire'[i].ts)
  BY WireBarge
<1> QED BY <1>1, <1>2, <1>3, <1>4 DEF BargeInv, Turns, After
-----------------------------------------------------------------------------
(* What all the steps of the way down keep.                                *)
LEMMA Inductive == Spec => []DownlinkInv
<1>1. DownlinkInv /\ [Next]_vars => DownlinkInv'
  BY TypeStep, LineStep, OrderStep, PlayStep, BargeStep DEF DownlinkInv
<1> QED BY <1>1, DownlinkInit, PTL DEF Spec

(* Of all the variables of the way down, at any length of its queues.      *)
THEOREM DownlinkTypes == Spec => []TypeOK
<1>1. DownlinkInv => TypeOK
  BY DEF DownlinkInv
<1> QED BY <1>1, Inductive, PTL

(* Frames of audio reach the client in the order of the downlink clock,    *)
(* each at most once, over any takeovers (handler.go, writeLoop).          *)
THEOREM AudioArrivesInOrder == Spec => []AudioInOrder
<1>1. DownlinkInv => AudioInOrder
  BY DEF DownlinkInv, OrderInv
<1> QED BY <1>1, Inductive, PTL

(* After the BARGE_IN of a turn at most one frame of it or of one before   *)
(* is still received, and no subtitle of them is held (session.go,         *)
(* OnTurnEnd; app.js, flush).                                              *)
THEOREM SilentOnceInterrupted == Spec => []SilentAfterBargeIn
<1>1. ASSUME DownlinkInv, NEW t \in Turns, heardOf[t] # None
      PROVE  /\ Cardinality({i \in heardOf[t] + 1 .. Len(audio) : audio[i].turn <= t}) <= 1
             /\ \A i \in DOMAIN pending : pending[i].turn > t
  <2> DEFINE S == {i \in heardOf[t] + 1 .. Len(audio) : audio[i].turn <= t}
  <2>1. PICK k \in Nat : HeardInv(t, heardOf[t], k)
    BY <1>1 DEF DownlinkInv, BargeInv
  <2>2. /\ heardOf[t] \in Nat /\ audio \in Seq(Frame) /\ Len(audio) \in Nat
        /\ \A i \in 1 .. Len(audio) : audio[i].ts \in Nat
    <3>1. heardOf[t] \in Nat /\ audio \in Seq(Frame)
      BY <1>1 DEF DownlinkInv, TypeOK
    <3>2. DOMAIN audio = 1 .. Len(audio) /\ Len(audio) \in Nat
      BY <3>1
    <3> QED BY <1>1, <3>1, <3>2, Typed, Fields DEF DownlinkInv
  <2>3. \A i \in S : i \in 1 .. Len(audio) /\ audio[i].ts + 1 = k
    BY <2>1, <2>2 DEF HeardInv
  <2>4. \A i, j \in S : ~(i < j)
    <3>1. \A i, j \in 1 .. Len(audio) : i < j => audio[i].ts < audio[j].ts
      <4>1. DOMAIN audio = 1 .. Len(audio)
        BY <2>2
      <4> QED BY <1>1, <4>1 DEF DownlinkInv, OrderInv, AudioInOrder
    <3> SUFFICES ASSUME NEW i \in S, NEW j \in S, i < j PROVE FALSE
      OBVIOUS
    <3>2. audio[i].ts \in Nat /\ audio[j].ts \in Nat /\ audio[i].ts < audio[j].ts
      BY <2>2, <2>3, <3>1
    <3>3. audio[i].ts + 1 = k /\ audio[j].ts + 1 = k
      BY <2>3
    <3> QED BY <3>2, <3>3
  <2>5. \A i, j \in S : i = j
    BY <2>3, <2>4
  <2> HIDE DEF S
  <2>6. Cardinality(S) <= 1
    <3>1. CASE S = {}
      BY <3>1, FS_EmptySet
    <3>2. CASE S # {}
      <4>1. PICK x \in S : TRUE
        BY <3>2
      <4>2. S = {x}
        BY <2>5, <4>1
      <4>3. Cardinality({x}) = 1
        BY FS_Singleton
      <4> QED BY <4>2, <4>3
    <3> QED BY <3>1, <3>2
  <2>7. \A i \in DOMAIN pending : pending[i].turn > t
    BY <2>1 DEF HeardInv
  <2> QED BY <2>6, <2>7 DEF S
<1>2. DownlinkInv => SilentAfterBargeIn
  BY <1>1 DEF SilentAfterBargeIn
<1> QED BY <1>2, Inductive, PTL

(* No push, flush, underrun or takeover moves the playback clock back      *)
(* (app.js, playedUs).                                                     *)
THEOREM PlaybackNeverRewinds == Spec => PlaybackNeverBack
<1>1. DownlinkInv /\ [Next]_vars => [played' >= played]_vars
  BY PlayOrder
<1> QED BY <1>1, Inductive, PTL DEF Spec, PlaybackNeverBack
=============================================================================
