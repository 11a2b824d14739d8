------------------------------ MODULE Downlink ------------------------------
(***************************************************************************)
(* The way down, from the turns to the client's loudspeaker: the egress    *)
(* ring, the session's audio pump, its wire queue, the writers of the      *)
(* connections that come and go, and the client's playout buffer.  Audio   *)
(* blocks on a full wire queue; subtitles and the BARGE_IN control are     *)
(* sent if there is room.                                                  *)
(*                                                                         *)
(* Abstracted: a turn is its frames and subtitles, and how it ends         *)
(* (Dialogue); a takeover closes the connection it supersedes (Session).   *)
(* Frames have one length, which is the unit of the downlink clock.  What  *)
(* a writer has written on a live connection is the client's at once.      *)
(***************************************************************************)
EXTENDS Player, FiniteSets

CONSTANTS Conns,      \* connections; each is used once
          None,
          EgressCap,  \* ring_buffer.egress_capacity
          WireCap,    \* the capacity of Session.wire, 256 there
          MaxTurns, MaxFrames, MaxTokens, MaxFinals  \* bounds

ASSUME DownlinkAssumption ==
  /\ None \notin Conns
  /\ EgressCap \in Nat \ {0} /\ WireCap \in Nat \ {0}
  /\ MaxTurns \in Nat /\ MaxFrames \in Nat /\ MaxTokens \in Nat /\ MaxFinals \in Nat

VARIABLES turn,     \* the turn started last
          phase,    \* orchestrator: "idle", "running", "drain", "notify"
          frames, tokens, \* history: frames and subtitles of all turns
          finals,   \* history: final transcripts
          egress,   \* the egress ring: the turns its frames belong to
          hand,     \* audioPump: the frame it puts on the wire, or None
          clock,    \* Session.clockUs
          wire,     \* Session.wire
          att,      \* the connection attached last
          line,     \* connection -> "none", "up", "broken", "closed" by the server
          wr,       \* connection -> where its writer is
          msg,      \* connection -> the message its writer has taken, or None
          audio,    \* history: the audio frames the client got
          heardOf   \* history: turn -> audio frames got before its BARGE_IN, or None

turnVars == <<turn, phase, frames, tokens, finals>>
connVars == <<att, line, wr, msg>>
clientVars == <<queue, sched, playing, depth, played, pending, audio, heardOf>>
vars == <<turn, phase, frames, tokens, finals, egress, hand, clock, wire, att, line, wr, msg,
          queue, sched, playing, depth, played, pending, audio, heardOf>>

Turns == 1 .. MaxTurns

Init ==
  /\ turn = 0 /\ phase = "idle" /\ frames = 0 /\ tokens = 0 /\ finals = 0
  /\ egress = << >> /\ hand = None /\ clock = 0 /\ wire = << >>
  /\ att = None /\ line = [c \in Conns |-> "none"] /\ wr = [c \in Conns |-> "none"]
  /\ msg = [c \in Conns |-> None]
  /\ PlayerInit
  /\ audio = << >> /\ heardOf = [t \in Turns |-> None]

(* enqueueText and enqueueControl: sent if the queue has room.             *)
TrySend(m) == wire' = IF Len(wire) < WireCap THEN Append(wire, m) ELSE wire
-----------------------------------------------------------------------------
(* The turns, and the ASR's final transcripts beside them.                 *)

(* A mutant: the downlink clock starts again with every turn.              *)
StartTurnClock ==
  /\ phase = "idle" /\ turn < MaxTurns
  /\ turn' = turn + 1 /\ phase' = "running" /\ clock' = 0
  /\ UNCHANGED <<frames, tokens, finals, egress, hand, wire, connVars, clientVars>>

StartTurn ==
  /\ phase = "idle" /\ turn < MaxTurns
  /\ turn' = turn + 1 /\ phase' = "running"
  /\ UNCHANGED <<frames, tokens, finals, egress, hand, clock, wire, connVars, clientVars>>

(* The sub-chain pushes a frame on the egress edge, which drops the oldest.*)
Emit ==
  /\ phase = "running" /\ frames < MaxFrames
  /\ frames' = frames + 1
  /\ egress' = Append(IF Len(egress) = EgressCap THEN Tail(egress) ELSE egress, turn)
  /\ UNCHANGED <<turn, phase, tokens, finals, hand, clock, wire, connVars, clientVars>>

(* OnToken, from the sub-chain.                                            *)
Token ==
  /\ phase = "running" /\ tokens < MaxTokens
  /\ tokens' = tokens + 1
  /\ TrySend([kind |-> "token", turn |-> turn, ts |-> clock])
  /\ UNCHANGED <<turn, phase, frames, finals, egress, hand, clock, connVars, clientVars>>

(* OnTranscript, from the ASR loop.                                        *)
Final ==
  /\ finals < MaxFinals
  /\ finals' = finals + 1
  /\ TrySend([kind |-> "final", turn |-> turn, ts |-> 0])
  /\ UNCHANGED <<turn, phase, frames, tokens, egress, hand, clock, connVars, clientVars>>

FinishTurn ==
  /\ phase = "running" /\ phase' = "idle"
  /\ UNCHANGED <<turn, frames, tokens, finals, egress, hand, clock, wire, connVars,
                 clientVars>>

(* cancelTurn, once the sub-chain has stopped.                             *)
CancelTurn ==
  /\ phase = "running" /\ phase' = "drain"
  /\ UNCHANGED <<turn, frames, tokens, finals, egress, hand, clock, wire, connVars,
                 clientVars>>

(* A mutant: the egress ring is not drained.                               *)
NoDrain ==
  /\ phase = "drain" /\ phase' = "notify"
  /\ UNCHANGED <<turn, frames, tokens, finals, egress, hand, clock, wire, connVars,
                 clientVars>>

(* The pump beside the drain only takes frames off, so it is one step.     *)
Drain ==
  /\ phase = "drain" /\ phase' = "notify"
  /\ egress' = << >>
  /\ UNCHANGED <<turn, frames, tokens, finals, hand, clock, wire, connVars, clientVars>>

(* OnTurnEnd(cancelled): the BARGE_IN control.                             *)
Notify ==
  /\ phase = "notify" /\ phase' = "idle"
  /\ TrySend([kind |-> "bargeIn", turn |-> turn, ts |-> clock])
  /\ UNCHANGED <<turn, frames, tokens, finals, egress, hand, clock, connVars, clientVars>>
-----------------------------------------------------------------------------
(* Session.audioPump.                                                      *)

PumpTake ==
  /\ hand = None /\ egress # << >>
  /\ hand' = [kind |-> "audio", turn |-> Head(egress), ts |-> clock]
  /\ egress' = Tail(egress) /\ clock' = clock + 1
  /\ UNCHANGED <<turnVars, wire, connVars, clientVars>>

PumpSend ==
  /\ hand # None /\ Len(wire) < WireCap
  /\ wire' = Append(wire, hand) /\ hand' = None
  /\ UNCHANGED <<turnVars, egress, clock, connVars, clientVars>>
-----------------------------------------------------------------------------
(* Connections and their writers.                                          *)

(* A client connects, or takes over: the connection attached before is     *)
(* closed, its context cancelled.                                          *)
Attach(c) ==
  /\ wr[c] = "none"
  /\ att' = c
  /\ line' = [d \in Conns |-> IF d = c THEN "up" ELSE IF d = att THEN "closed" ELSE line[d]]
  /\ wr' = [wr EXCEPT ![c] = "ack"]
  /\ UNCHANGED <<turnVars, egress, hand, clock, wire, msg, clientVars>>

(* The client is gone; the server has not noticed.                         *)
Break(c) ==
  /\ line[c] = "up" /\ line' = [line EXCEPT ![c] = "broken"]
  /\ UNCHANGED <<turnVars, egress, hand, clock, wire, att, wr, msg, clientVars>>

(* The START ack takes a sequence number, and so does every frame below,   *)
(* written or not.  On a broken line a write may still seem to succeed.    *)
SendAck(c) ==
  /\ wr[c] = "ack"
  /\ \/ line[c] # "closed" /\ wr' = [wr EXCEPT ![c] = "loop"]
     \/ line[c] # "up" /\ wr' = [wr EXCEPT ![c] = "exited"]
  /\ UNCHANGED <<turnVars, egress, hand, clock, wire, att, line, msg, playerVars,
                 audio, heardOf>>

(* The select may choose the queue although the context is done.           *)
Take(c) ==
  /\ wr[c] = "loop" /\ wire # << >>
  /\ msg' = [msg EXCEPT ![c] = Head(wire)] /\ wire' = Tail(wire)
  /\ wr' = [wr EXCEPT ![c] = "write"]
  /\ UNCHANGED <<turnVars, egress, hand, clock, att, line, clientVars>>

(* The client's onFrame.                                                   *)
Receive(m) ==
  \/ /\ m.kind = "audio" /\ PlayerPush([turn |-> m.turn, ts |-> m.ts])
     /\ audio' = Append(audio, [turn |-> m.turn, ts |-> m.ts]) /\ UNCHANGED heardOf
  \/ /\ m.kind = "token" /\ PlayerToken([turn |-> m.turn, ts |-> m.ts])
     /\ UNCHANGED <<audio, heardOf>>
  \/ /\ m.kind = "final" /\ PlayerClear /\ UNCHANGED <<audio, heardOf>>
  \/ /\ m.kind = "bargeIn" /\ PlayerFlush
     /\ heardOf' = [heardOf EXCEPT ![m.turn] = Len(audio)] /\ UNCHANGED audio

Write(c) ==
  /\ wr[c] = "write" /\ line[c] # "closed"
  /\ wr' = [wr EXCEPT ![c] = "loop"] /\ msg' = [msg EXCEPT ![c] = None]
  /\ \/ line[c] = "up" /\ Receive(msg[c])
     \/ line[c] = "broken" /\ UNCHANGED clientVars
  /\ UNCHANGED <<turnVars, egress, hand, clock, wire, att, line>>

(* The frame in hand is dropped, and the writer ends.                      *)
WriteFails(c) ==
  /\ wr[c] = "write" /\ line[c] # "up"
  /\ wr' = [wr EXCEPT ![c] = "exited"] /\ msg' = [msg EXCEPT ![c] = None]
  /\ UNCHANGED <<turnVars, egress, hand, clock, wire, att, line, clientVars>>

(* The context is done, or a ping is not answered in time.                 *)
WriterExits(c) ==
  /\ wr[c] = "loop" /\ line[c] # "up"
  /\ wr' = [wr EXCEPT ![c] = "exited"]
  /\ UNCHANGED <<turnVars, egress, hand, clock, wire, att, line, msg, clientVars>>
-----------------------------------------------------------------------------
Play == /\ SourceEnds \/ Reveal
        /\ UNCHANGED <<turnVars, egress, hand, clock, wire, connVars, audio, heardOf>>

Next ==
  \/ StartTurn \/ Emit \/ Token \/ Final \/ FinishTurn \/ CancelTurn \/ Drain \/ Notify
  \/ PumpTake \/ PumpSend
  \/ \E c \in Conns :
       \/ Attach(c) \/ Break(c) \/ SendAck(c)
       \/ Take(c) \/ Write(c) \/ WriteFails(c) \/ WriterExits(c)
  \/ Play

Spec == Init /\ [][Next]_vars
-----------------------------------------------------------------------------
Frame == [turn : Nat, ts : Nat]
Message == [kind : {"audio", "token", "final", "bargeIn"}, turn : Nat, ts : Nat]

TypeOK ==
  /\ turn \in Nat /\ phase \in {"idle", "running", "drain", "notify"}
  /\ frames \in Nat /\ tokens \in Nat /\ finals \in Nat
  /\ egress \in Seq(Nat) /\ hand \in Message \cup {None} /\ clock \in Nat
  /\ wire \in Seq(Message) /\ att \in Conns \cup {None}
  /\ line \in [Conns -> {"none", "up", "broken", "closed"}]
  /\ wr \in [Conns -> {"none", "ack", "loop", "write", "exited"}]
  /\ msg \in [Conns -> Message \cup {None}]
  /\ queue \in Seq(Frame) /\ sched \in Seq(Frame) /\ playing \in BOOLEAN
  /\ depth \in Nat /\ played \in Nat /\ pending \in Seq(Frame)
  /\ audio \in Seq(Frame) /\ heardOf \in [Turns -> Nat \cup {None}]

(* Over all its connections the client gets each frame of audio at most    *)
(* once, in the order of the downlink clock, although for a while the      *)
(* writer of a superseded connection empties the queue beside the new one. *)
AudioInOrder ==
  \A i, j \in DOMAIN audio : i < j =>
    audio[i].ts < audio[j].ts /\ audio[i].turn <= audio[j].turn

(* Once the client has the BARGE_IN of a turn, no more than one frame of   *)
(* that turn or an earlier one still reaches it, the one that was in the   *)
(* audio pump's hand, and it holds no subtitle of theirs.  The one frame   *)
(* does occur: worker.go 296-298 takes it for a frame of the next turn.    *)
SilentAfterBargeIn ==
  \A t \in Turns : heardOf[t] # None =>
    /\ Cardinality({i \in heardOf[t] + 1 .. Len(audio) : audio[i].turn <= t}) <= 1
    /\ \A i \in DOMAIN pending : pending[i].turn > t

(* The playback clock, which subtitles follow, never goes back: not by a   *)
(* flush, an underrun, a reconnect or a lost frame (app.js 217).           *)
PlaybackNeverBack == [][played' >= played]_vars
=============================================================================
