------------------------------- MODULE Player -------------------------------
(***************************************************************************)
(* The playout buffer of the browser client (web/app.js, PlayoutBuffer)    *)
(* and the subtitles that wait for it.  Frames are queued until depth of   *)
(* them are there, and from then on scheduled as they come; a source that  *)
(* ends with nothing behind it is an underrun, and buffering starts again, *)
(* deeper.                                                                 *)
(*                                                                         *)
(* Time is counted in frames: a frame of timestamp ts ends at ts + 1, and  *)
(* the audio clock is abstracted to the order in which sources end.        *)
(***************************************************************************)
EXTENDS Naturals, Sequences

CONSTANTS Depth,    \* the frames targetDepthMs asks for at first
          MaxDepth  \* maxDepthMs, in frames

ASSUME PlayerAssumption ==
  Depth \in Nat \ {0} /\ MaxDepth \in Nat /\ Depth <= MaxDepth

VARIABLES queue,   \* frames received and not scheduled
          sched,   \* sources started and not ended, in playing order
          playing,
          depth,   \* targetDepthMs
          played,  \* playedUs(): the session clock playback has reached
          pending  \* pendingTokens: subtitles not revealed yet

playerVars == <<queue, sched, playing, depth, played, pending>>

PlayerInit ==
  /\ queue = << >> /\ sched = << >> /\ playing = FALSE
  /\ depth = Depth /\ played = 0 /\ pending = << >>

(* push and the pump() it calls: everything queued is scheduled, unless    *)
(* the buffer still fills up.                                              *)
PlayerPush(f) ==
  LET q == Append(queue, f)
      play == playing \/ Len(q) >= depth
  IN  /\ playing' = play
      /\ queue' = IF play THEN << >> ELSE q
      /\ sched' = IF play THEN sched \o q ELSE sched
      /\ UNCHANGED <<depth, played, pending>>

(* The first source ends and its onended calls pump(): an underrun when it *)
(* was the last one.                                                       *)
SourceEnds ==
  /\ sched # << >>
  /\ played' = Head(sched).ts + 1
  /\ sched' = Tail(sched)
  /\ IF Len(sched) > 1 THEN UNCHANGED <<playing, depth>>
     ELSE /\ playing' = FALSE
          /\ depth' = IF depth < MaxDepth THEN depth + 1 ELSE depth
  /\ UNCHANGED <<queue, pending>>

(* A mutant: what is flushed does not count as played.                     *)
PlayerFlushRewinds ==
  /\ queue' = << >> /\ sched' = << >> /\ playing' = FALSE /\ pending' = << >>
  /\ played' = 0
  /\ UNCHANGED depth

(* flush: everything scheduled stops, the queue is emptied, and the clock  *)
(* moves to the end of the last frame received; the subtitles go too.      *)
PlayerFlush ==
  LET ends == {played} \cup {sched[i].ts + 1 : i \in DOMAIN sched}
                       \cup {queue[i].ts + 1 : i \in DOMAIN queue}
  IN  /\ queue' = << >> /\ sched' = << >> /\ playing' = FALSE /\ pending' = << >>
      /\ played' = CHOOSE e \in ends : \A x \in ends : x <= e
      /\ UNCHANGED depth

(* A subtitle waits for its timestamp.                                     *)
PlayerToken(t) ==
  pending' = Append(pending, t) /\ UNCHANGED <<queue, sched, playing, depth, played>>

(* The final transcript of the next question clears what is left of them.  *)
PlayerClear ==
  pending' = << >> /\ UNCHANGED <<queue, sched, playing, depth, played>>

(* revealTokens shows subtitles in order, as far as playback has come.     *)
Reveal ==
  /\ pending # << >> /\ Head(pending).ts <= played
  /\ pending' = Tail(pending)
  /\ UNCHANGED <<queue, sched, playing, depth, played>>
=============================================================================
