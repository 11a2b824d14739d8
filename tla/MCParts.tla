------------------------------- MODULE MCParts -------------------------------
(* Small instances, for TLC, of the parts that stand alone: each behaviour *)
(* is one of one part, and the others stay as they are at the start.       *)
EXTENDS Edge, Turn, SherpaAsr, Synth, FrameCodec, Histogram, Caller, Shaper, Reconnect,
        Counters, Hub

VARIABLE part

MCFrames == [type : {0, 1}, seq : {0, 1, 3}, ts : {-2, -1, 1},
             payload : {<< >>, <<1>>, <<0, 1>>}]
MCBounds == <<2, 4>>
MCQuantiles == {<<1, 2>>, <<3, 4>>, <<99, 100>>}

sessionParts == <<edgeVars, vars, sherpaVars>>
pureParts == <<synthVars, codecVars, histVars>>
loadParts == <<callerVars, shaperVars>>
outerParts == <<reconnVars, countersVars, hubVars>>
partsVars == <<part, sessionParts, pureParts, loadParts, outerParts>>

(* The other parts start from one state each.                              *)
Resting == CHOOSE f \in CodecFrames : CanEncode(f)
CodecRests ==
  /\ message = Encode(Resting) /\ written = Resting
  /\ rpos = "header" /\ head = NoFrame /\ bufCap = 0 /\ outcome = NoFrame
SynthStarts == SynthInit /\ (part # "tts" => client = "http")
HistRests == HistInit /\ quantile = <<1, 2>>

PartsInit ==
  /\ part \in {"edge", "turn", "asr", "tts", "codec", "histogram", "caller", "shaper",
              "page", "counters", "hub"}
  /\ EdgeInit /\ Init /\ SherpaInit /\ SynthStarts /\ CallerInit /\ ShaperInit
  /\ ReconnectInit /\ CountersInit /\ HubInit
  /\ IF part = "codec" THEN CodecInit ELSE CodecRests
  /\ IF part = "histogram" THEN HistInit ELSE HistRests

SessionParts ==
  \/ part = "edge" /\ EdgeNext /\ UNCHANGED <<vars, sherpaVars>>
  \/ part = "turn" /\ Next /\ UNCHANGED <<edgeVars, sherpaVars>>
  \/ part = "asr" /\ SherpaNext /\ UNCHANGED <<edgeVars, vars>>
PureParts ==
  \/ part = "tts" /\ SynthNext /\ UNCHANGED <<codecVars, histVars>>
  \/ part = "codec" /\ CodecNext /\ UNCHANGED <<synthVars, histVars>>
  \/ part = "histogram" /\ HistNext /\ UNCHANGED <<synthVars, codecVars>>
LoadParts ==
  \/ part = "caller" /\ CallerNext /\ UNCHANGED shaperVars
  \/ part = "shaper" /\ ShaperNext /\ UNCHANGED callerVars
OuterParts ==
  \/ part = "page" /\ ReconnectNext /\ UNCHANGED <<countersVars, hubVars>>
  \/ part = "counters" /\ CountersNext /\ UNCHANGED <<reconnVars, hubVars>>
  \/ part = "hub" /\ HubNext /\ UNCHANGED <<reconnVars, countersVars>>

PartsNext ==
  /\ part' = part
  /\ \/ SessionParts /\ UNCHANGED <<pureParts, loadParts, outerParts>>
     \/ PureParts /\ UNCHANGED <<sessionParts, loadParts, outerParts>>
     \/ LoadParts /\ UNCHANGED <<sessionParts, pureParts, outerParts>>
     \/ OuterParts /\ UNCHANGED <<sessionParts, pureParts, loadParts>>

(* The fairness of the parts that have liveness properties.  While the     *)
(* turn or the TTS rests, nothing that is fair of it is enabled.           *)
PartsSpec ==
  /\ PartsInit /\ [][PartsNext]_partsVars
  /\ Fairness
  /\ WF_sherpaVars(part = "asr" /\ Stream) /\ WF_sherpaVars(part = "asr" /\ ReaderStops)
  /\ WF_sherpaVars(part = "asr" /\ Collect)
  /\ SynthFairness
=============================================================================
