----------------------------- MODULE TurnProofs -----------------------------
(***************************************************************************)
(* Proofs about Turn, for every capacity of its channels and every length  *)
(* of the reply: type correctness; that what was heard is in the reply,    *)
(* wherever the turn was cut off; that a turn left alone is complete; and  *)
(* that it is, step by step, the chain the orchestrator takes it for.      *)
(***************************************************************************)
EXTENDS Turn, TLAPS

(* A message taken from a channel: the rest moves up by one place.         *)
LEMMA Taken ==
  ASSUME NEW S, NEW s \in Seq(S), s # << >>
  PROVE  /\ Len(s) \in Nat \ {0} /\ DOMAIN s = 1 .. Len(s)
         /\ Head(s) = s[1] /\ Head(s) \in S
         /\ Tail(s) \in Seq(S) /\ Len(Tail(s)) = Len(s) - 1
         /\ DOMAIN Tail(s) = 1 .. Len(s) - 1
         /\ \A i \in 1 .. Len(s) - 1 : Tail(s)[i] = s[i + 1]
<1>1. Len(s) \in Nat \ {0} /\ DOMAIN s = 1 .. Len(s) /\ Head(s) = s[1] /\ Head(s) \in S
  OBVIOUS
<1>2. Tail(s) \in Seq(S) /\ Len(Tail(s)) = Len(s) - 1
  OBVIOUS
<1>3. DOMAIN Tail(s) = 1 .. Len(s) - 1
  BY <1>2
<1>4. \A i \in 1 .. Len(s) - 1 : Tail(s)[i] = s[i + 1]
  OBVIOUS
<1> QED BY <1>1, <1>2, <1>3, <1>4

(* A message put into a channel: the others stay where they are.           *)
LEMMA Sent ==
  ASSUME NEW S, NEW s \in Seq(S), NEW m \in S
  PROVE  /\ Len(s) \in Nat /\ DOMAIN s = 1 .. Len(s)
         /\ Append(s, m) \in Seq(S) /\ Len(Append(s, m)) = Len(s) + 1
         /\ DOMAIN Append(s, m) = 1 .. Len(s) + 1
         /\ Append(s, m)[Len(s) + 1] = m
         /\ \A i \in 1 .. Len(s) : Append(s, m)[i] = s[i]
<1>1. Len(s) \in Nat /\ DOMAIN s = 1 .. Len(s)
  OBVIOUS
<1>2. Append(s, m) \in Seq(S) /\ Len(Append(s, m)) = Len(s) + 1
  OBVIOUS
<1>3. DOMAIN Append(s, m) = 1 .. Len(s) + 1
  BY <1>1, <1>2
<1>4. Append(s, m)[Len(s) + 1] = m /\ \A i \in 1 .. Len(s) : Append(s, m)[i] = s[i]
  OBVIOUS
<1> QED BY <1>1, <1>2, <1>3, <1>4

(* A channel of consecutive places, with one more at its end or one less   *)
(* at its head.                                                            *)
LEMMA SentInPlace ==
  ASSUME NEW s \in Seq(Nat), NEW b \in Nat, \A i \in DOMAIN s : s[i] = b + i
  PROVE  \A i \in DOMAIN Append(s, b + Len(s) + 1) : Append(s, b + Len(s) + 1)[i] = b + i
<1> DEFINE m == b + Len(s) + 1
<1>1. Len(s) \in Nat /\ m \in Nat
  OBVIOUS
<1> HIDE DEF m
<1>2. /\ DOMAIN s = 1 .. Len(s) /\ DOMAIN Append(s, m) = 1 .. Len(s) + 1
      /\ Append(s, m)[Len(s) + 1] = m
      /\ \A i \in 1 .. Len(s) : Append(s, m)[i] = s[i]
  BY <1>1, Sent
<1>3. \A i \in 1 .. Len(s) : Append(s, m)[i] = b + i
  BY <1>2
<1>4. Append(s, m)[Len(s) + 1] = b + (Len(s) + 1)
  BY <1>1, <1>2 DEF m
<1>5. \A i \in 1 .. Len(s) + 1 : i \in 1 .. Len(s) \/ i = Len(s) + 1
  BY <1>1
<1>6. \A i \in DOMAIN Append(s, m) : Append(s, m)[i] = b + i
  BY <1>2, <1>3, <1>4, <1>5
<1> QED BY <1>6 DEF m

LEMMA TakenInPlace ==
  ASSUME NEW s \in Seq(Nat), NEW b \in Nat, s # << >>, \A i \in DOMAIN s : s[i] = b + i
  PROVE  Head(s) = b + 1 /\ \A i \in DOMAIN Tail(s) : Tail(s)[i] = b + 1 + i
<1>1. /\ Len(s) \in Nat \ {0} /\ DOMAIN s = 1 .. Len(s) /\ Head(s) = s[1]
      /\ DOMAIN Tail(s) = 1 .. Len(s) - 1
      /\ \A i \in 1 .. Len(s) - 1 : Tail(s)[i] = s[i + 1]
  BY Taken
<1>2. 1 \in DOMAIN s /\ \A i \in 1 .. Len(s) - 1 : i + 1 \in DOMAIN s
  BY <1>1
<1>3. \A i \in 1 .. Len(s) - 1 : Tail(s)[i] = b + (i + 1)
  BY <1>1, <1>2
<1>4. \A i \in 1 .. Len(s) - 1 : b + (i + 1) = b + 1 + i
  OBVIOUS
<1> QED BY <1>1, <1>2, <1>3, <1>4

(* A channel of frames below a bound keeps it, and a frame put into one    *)
(* below the bound does.                                                   *)
LEMMA TakenBelow ==
  ASSUME NEW s \in Seq(Nat), NEW b \in Nat, s # << >>, \A i \in DOMAIN s : s[i] <= b
  PROVE  Head(s) <= b /\ \A i \in DOMAIN Tail(s) : Tail(s)[i] <= b
<1>1. /\ Len(s) \in Nat \ {0} /\ DOMAIN s = 1 .. Len(s) /\ Head(s) = s[1]
      /\ DOMAIN Tail(s) = 1 .. Len(s) - 1
      /\ \A i \in 1 .. Len(s) - 1 : Tail(s)[i] = s[i + 1]
  BY Taken
<1>2. 1 \in DOMAIN s /\ \A i \in 1 .. Len(s) - 1 : i + 1 \in DOMAIN s
  BY <1>1
<1> QED BY <1>1, <1>2

LEMMA SentBelow ==
  ASSUME NEW s \in Seq(Nat), NEW b \in Nat, NEW m \in Nat, m <= b,
         \A i \in DOMAIN s : s[i] <= b
  PROVE  \A i \in DOMAIN Append(s, m) : Append(s, m)[i] <= b
<1>1. /\ Len(s) \in Nat /\ DOMAIN s = 1 .. Len(s) /\ DOMAIN Append(s, m) = 1 .. Len(s) + 1
      /\ Append(s, m)[Len(s) + 1] = m
      /\ \A i \in 1 .. Len(s) : Append(s, m)[i] = s[i]
  BY Sent
<1>2. \A i \in 1 .. Len(s) + 1 : i \in 1 .. Len(s) \/ i = Len(s) + 1
  BY <1>1
<1> QED BY <1>1, <1>2

(* The reply grows by the next token (turn.go 129).                        *)
LEMMA ReplyGrows ==
  ASSUME NEW r \in Seq(Nat), r = Upto(Len(r))
  PROVE  Append(r, Len(r) + 1) = Upto(Len(Append(r, Len(r) + 1)))
<1> DEFINE t == Append(r, Len(r) + 1)
<1>1. /\ Len(r) \in Nat /\ t \in Seq(Nat) /\ Len(t) = Len(r) + 1
      /\ DOMAIN t = 1 .. Len(r) + 1 /\ t[Len(r) + 1] = Len(r) + 1
      /\ \A i \in 1 .. Len(r) : t[i] = r[i]
  BY Sent
<1>2. \A i \in 1 .. Len(r) : r[i] = i
  BY DEF Upto
<1>3. \A i \in DOMAIN t : t[i] = i
  BY <1>1, <1>2
<1>4. t = [i \in DOMAIN t |-> t[i]]
  BY <1>1
<1> HIDE DEF t
<1>5. t = [i \in 1 .. Len(t) |-> i]
  BY <1>1, <1>3, <1>4
<1> QED BY <1>5 DEF Upto, t

(* What the stages other than the channels' ends leave alone.              *)
chanVars == <<emitted, tokens, fwd, tok, reply, ttsIn, heard, spoken, ttsOut, egress>>

(* A step that keeps the channels and the types keeps the invariant.       *)
LEMMA ChannelsKept ==
  ASSUME TurnInv, UNCHANGED chanVars, TypeOK'
  PROVE  TurnInv'
BY DEF TurnInv, chanVars, InvForwarder, InvTtsIn, InvSpoken, Upto

(* The LLM stage (turn.go 108-115).                                        *)
LEMMA LLMKeeps == TurnInv /\ LLM => TurnInv'
<1> SUFFICES ASSUME TurnInv, LLM PROVE TurnInv'
  OBVIOUS
<1>0. TypeOK /\ InvForwarder /\ InvTtsIn /\ InvSpoken
  BY DEF TurnInv
<1>1. CASE LLMEmit
  <2>1. /\ tokens \in Seq(Nat) /\ emitted \in Nat /\ reply \in Seq(Nat) /\ Len(tokens) < TokenCap
        /\ emitted' = emitted + 1 /\ tokens' = Append(tokens, emitted + 1)
    BY <1>0, <1>1 DEF TypeOK, LLMEmit
  <2>2. /\ UNCHANGED <<ctxDone, outer, err, llm, result, fwd, tok, reply, ttsIn>>
        /\ UNCHANGED <<tts, heard, spoken, ttsOut, pump, egress, closed, done>>
    BY <1>1 DEF LLMEmit, fwdVars, ttsVars
  <2>3. /\ tokens' \in Seq(Nat) /\ Len(tokens') = Len(tokens) + 1 /\ Len(tokens) \in Nat
        /\ DOMAIN tokens' = 1 .. Len(tokens) + 1 /\ DOMAIN tokens = 1 .. Len(tokens)
        /\ tokens'[Len(tokens) + 1] = emitted + 1
        /\ \A i \in 1 .. Len(tokens) : tokens'[i] = tokens[i]
    BY <2>1, Sent
  <2>4. TypeOK'
    BY <1>0, <2>1, <2>2, <2>3, TurnAssumption DEF TypeOK
  <2>5. Len(reply) \in Nat
    BY <2>1
  <2>6. emitted = Len(reply) + Len(tokens) /\ \A i \in 1 .. Len(tokens) : tokens[i] = Len(reply) + i
    BY <1>0, <2>3 DEF InvForwarder
  <2>6a. emitted + 1 = Len(reply) + Len(tokens) + 1
    BY <2>6
  <2>6b. tokens' = Append(tokens, Len(reply) + Len(tokens) + 1)
    BY <2>1, <2>6a
  <2>7. \A i \in DOMAIN tokens' : tokens'[i] = Len(reply) + i
    BY <2>1, <2>3, <2>5, <2>6, <2>6b, SentInPlace
  <2>8. emitted' = Len(reply) + Len(tokens')
    BY <2>1, <2>3, <2>5, <2>6
  <2>9. InvForwarder'
    BY <1>0, <2>2, <2>7, <2>8 DEF InvForwarder, Upto
  <2>10. InvTtsIn' /\ InvSpoken'
    BY <1>0, <2>2 DEF InvTtsIn, InvSpoken
  <2> QED BY <2>4, <2>9, <2>10 DEF TurnInv
<1>2. CASE \E r \in Results : LLMReturns(r)
  <2>1. PICK r \in Results : LLMReturns(r)
    BY <1>2
  <2>2. TypeOK'
    BY <1>0, <2>1 DEF TypeOK, LLMReturns, Stages, fwdVars, ttsVars
  <2>3. UNCHANGED chanVars
    BY <2>1 DEF LLMReturns, chanVars, fwdVars, ttsVars
  <2> QED BY <2>2, <2>3, ChannelsKept
<1>3. CASE LLMFail
  <2>1. UNCHANGED chanVars
    BY <1>3 DEF LLMFail, chanVars, fwdVars, ttsVars
  <2>2. TypeOK'
    BY <1>0, <1>3 DEF TypeOK, LLMFail, Fail, AfterFail, Stages, fwdVars, ttsVars
  <2> QED BY <2>1, <2>2, ChannelsKept
<1>4. CASE LLMCancel
  <2>1. UNCHANGED chanVars
    BY <1>4 DEF LLMCancel, chanVars, fwdVars, ttsVars
  <2>2. TypeOK'
    BY <1>0, <1>4 DEF TypeOK, LLMCancel, fwdVars, ttsVars
  <2> QED BY <2>1, <2>2, ChannelsKept
<1>5. CASE LLMClose
  <2>1. UNCHANGED chanVars
    BY <1>5 DEF LLMClose, chanVars, fwdVars, ttsVars
  <2>2. TypeOK'
    BY <1>0, <1>5 DEF TypeOK, LLMClose, fwdVars, ttsVars
  <2> QED BY <2>1, <2>2, ChannelsKept
<1> QED BY <1>1, <1>2, <1>3, <1>4, <1>5 DEF LLM

(* The forwarder (turn.go 117-142).                                        *)
LEMMA ForwarderKeeps == TurnInv /\ Forwarder => TurnInv'
<1> SUFFICES ASSUME TurnInv, Forwarder PROVE TurnInv'
  OBVIOUS
<1>0. TypeOK /\ InvForwarder /\ InvTtsIn /\ InvSpoken
  BY DEF TurnInv
<1>1. CASE Receive /\ tokens # << >>
  <2>1. /\ tokens \in Seq(Nat) /\ reply \in Seq(Nat) /\ fwd = "recv" /\ fwd' = "send"
        /\ tok' = Head(tokens) /\ tokens' = Tail(tokens) /\ reply' = Append(reply, tok')
    BY <1>0, <1>1 DEF TypeOK, Receive, TokensEnd
  <2>2. /\ UNCHANGED <<ctxDone, outer, err, llm, emitted, result, ttsIn>>
        /\ UNCHANGED <<tts, heard, spoken, ttsOut, pump, egress, closed, done>>
    BY <1>1 DEF Receive, llmVars, ttsVars
  <2>3. /\ reply = Upto(Len(reply)) /\ emitted = Len(reply) + Len(tokens)
        /\ \A i \in DOMAIN tokens : tokens[i] = Len(reply) + i
    BY <1>0 DEF InvForwarder
  <2>4. Len(reply) \in Nat /\ Len(tokens) \in Nat \ {0}
    BY <1>1, <2>1
  <2>5. tok' = Len(reply) + 1 /\ \A i \in DOMAIN tokens' : tokens'[i] = Len(reply) + 1 + i
    BY <1>1, <2>1, <2>3, <2>4, TakenInPlace
  <2>6. tokens' \in Seq(Nat) /\ Len(tokens') = Len(tokens) - 1
    BY <1>1, <2>1, Taken
  <2>7. tok' \in Nat /\ reply' \in Seq(Nat) /\ Len(reply') = Len(reply) + 1
    BY <2>1, <2>4, <2>5, Sent
  <2>8. reply' = Upto(Len(reply'))
    BY <2>1, <2>3, <2>5, ReplyGrows
  <2>9. TypeOK'
    BY <1>0, <2>1, <2>2, <2>4, <2>6, <2>7, TurnAssumption DEF TypeOK
  <2>10. emitted' = Len(reply') + Len(tokens')
    BY <2>2, <2>3, <2>4, <2>6, <2>7
  <2>11. InvForwarder'
    BY <2>5, <2>7, <2>8, <2>10 DEF InvForwarder
  <2>12. heard \in Nat /\ ttsIn \in Seq(Nat)
    BY <1>0 DEF TypeOK
  <2>13. InvTtsIn'
    BY <1>0, <2>1, <2>2, <2>4, <2>7, <2>12 DEF InvTtsIn
  <2>14. InvSpoken'
    BY <1>0, <2>2 DEF InvSpoken
  <2> QED BY <2>9, <2>11, <2>13, <2>14 DEF TurnInv
<1>2. CASE Receive /\ tokens = << >>
  <2>1. fwd' = "close" /\ fwd = "recv" /\ UNCHANGED <<tok, reply, tokens>>
    BY <1>2 DEF Receive, TokensEnd
  <2>2. /\ UNCHANGED <<ctxDone, outer, err, llm, emitted, result, ttsIn>>
        /\ UNCHANGED <<tts, heard, spoken, ttsOut, pump, egress, closed, done>>
    BY <1>2 DEF Receive, llmVars, ttsVars
  <2>3. TypeOK'
    BY <1>0, <2>1, <2>2 DEF TypeOK
  <2>4. InvForwarder' /\ InvTtsIn' /\ InvSpoken'
    BY <1>0, <2>1, <2>2 DEF InvForwarder, InvTtsIn, InvSpoken, Upto
  <2> QED BY <2>3, <2>4 DEF TurnInv
<1>3. CASE Forward /\ fwd' = "recv"
  <2>1. /\ fwd = "send" /\ fwd' = "recv" /\ Len(ttsIn) < TokenCap /\ ttsIn' = Append(ttsIn, tok)
        /\ ttsIn \in Seq(Nat) /\ tok \in Nat /\ heard \in Nat /\ reply \in Seq(Nat)
    BY <1>0, <1>3 DEF TypeOK, Forward
  <2>2. /\ UNCHANGED <<ctxDone, outer, err, llm, emitted, result, tokens, tok, reply>>
        /\ UNCHANGED <<tts, heard, spoken, ttsOut, pump, egress, closed, done>>
    BY <1>3 DEF Forward, llmVars, ttsVars
  <2>3. Len(ttsIn) \in Nat /\ Len(reply) \in Nat
    BY <2>1
  <2>4. ttsIn' \in Seq(Nat) /\ Len(ttsIn') = Len(ttsIn) + 1
    BY <2>1, Sent
  <2>5. /\ tok = Len(reply) /\ heard + Len(ttsIn) + 1 = Len(reply)
        /\ \A i \in DOMAIN ttsIn : ttsIn[i] = heard + i
    BY <1>0, <2>1 DEF InvForwarder, InvTtsIn
  <2>6. ttsIn' = Append(ttsIn, heard + Len(ttsIn) + 1)
    BY <2>1, <2>5
  <2>7. \A i \in DOMAIN ttsIn' : ttsIn'[i] = heard + i
    <3>1. ttsIn \in Seq(Nat) /\ heard \in Nat
      BY <2>1
    <3> QED BY ONLY <2>5, <2>6, <3>1, SentInPlace
  <2>8. heard + Len(ttsIn') = Len(reply)
    <3>1. heard \in Nat /\ heard + Len(ttsIn) + 1 = Len(reply)
      BY <2>1, <2>5
    <3>2. heard + (Len(ttsIn) + 1) = Len(reply)
      BY <2>3, <3>1
    <3> QED BY <2>4, <3>2
  <2>9. TypeOK'
    BY <1>0, <2>1, <2>2, <2>3, <2>4, TurnAssumption DEF TypeOK
  <2>10. InvForwarder' /\ InvSpoken'
    BY <1>0, <2>1, <2>2 DEF InvForwarder, InvSpoken, Upto
  <2>11. InvTtsIn'
    BY <2>1, <2>2, <2>3, <2>7, <2>8 DEF InvTtsIn
  <2> QED BY <2>9, <2>10, <2>11 DEF TurnInv
<1>4. CASE (Forward /\ fwd' # "recv") \/ CloseTtsIn
  <2>1. /\ fwd' \in {"close", "done"} /\ ttsIn' = ttsIn
        /\ closed' = closed \/ closed' = closed \cup {"ttsIn"}
    BY <1>4 DEF Forward, CloseTtsIn
  <2>2. /\ UNCHANGED <<ctxDone, outer, err, llm, emitted, result, tokens, tok, reply>>
        /\ UNCHANGED <<tts, heard, spoken, ttsOut, pump, egress, done>>
    BY <1>4 DEF Forward, CloseTtsIn, llmVars, ttsVars
  <2>3. closed' \subseteq {"tokens", "ttsIn", "ttsOut"}
    BY <1>0, <2>1 DEF TypeOK
  <2>4. TypeOK'
    BY <1>0, <2>1, <2>2, <2>3 DEF TypeOK
  <2>5. InvForwarder' /\ InvTtsIn' /\ InvSpoken'
    BY <1>0, <2>1, <2>2 DEF InvForwarder, InvTtsIn, InvSpoken, Upto
  <2> QED BY <2>4, <2>5 DEF TurnInv
<1> QED BY <1>1, <1>2, <1>3, <1>4 DEF Forwarder

(* The TTS stage (turn.go 144-150).                                        *)
LEMMA TTSKeeps == TurnInv /\ TTS => TurnInv'
<1> SUFFICES ASSUME TurnInv, TTS PROVE TurnInv'
  OBVIOUS
<1>0. TypeOK /\ InvForwarder /\ InvTtsIn /\ InvSpoken
  BY DEF TurnInv
<1>1. CASE Hear
  <2>1. /\ ttsIn \in Seq(Nat) /\ ttsIn # << >> /\ heard \in Nat /\ spoken \in 0 .. heard
        /\ heard' = Head(ttsIn) /\ ttsIn' = Tail(ttsIn) /\ reply \in Seq(Nat)
    BY <1>0, <1>1 DEF TypeOK, Hear
  <2>2. /\ UNCHANGED <<ctxDone, outer, err, llm, emitted, result, tokens, fwd, tok, reply>>
        /\ UNCHANGED <<tts, spoken, ttsOut, pump, egress, closed, done>>
    BY <1>1 DEF Hear, llmVars, fwdVars
  <2>3. \A i \in DOMAIN ttsIn : ttsIn[i] = heard + i
    BY <1>0 DEF InvTtsIn
  <2>4. heard' = heard + 1 /\ \A i \in DOMAIN ttsIn' : ttsIn'[i] = heard + 1 + i
    BY <2>1, <2>3, TakenInPlace
  <2>5. ttsIn' \in Seq(Nat) /\ Len(ttsIn') = Len(ttsIn) - 1 /\ Len(ttsIn) \in Nat \ {0}
    BY <2>1, Taken
  <2>6. heard \in Nat /\ heard' + Len(ttsIn') = heard + Len(ttsIn)
    BY <2>1, <2>4, <2>5
  <2>7. heard' \in Nat /\ spoken \in 0 .. heard'
    BY <2>1, <2>4
  <2>8. Len(ttsIn) <= TokenCap
    BY <1>0 DEF TypeOK
  <2>9. Len(ttsIn') <= TokenCap
    BY <2>5, <2>8, TurnAssumption
  <2>10. TypeOK'
    BY <1>0, <2>2, <2>5, <2>7, <2>9 DEF TypeOK
  <2>11. InvForwarder' /\ InvSpoken'
    BY <1>0, <2>2 DEF InvForwarder, InvSpoken, Upto
  <2>12. InvTtsIn'
    BY <1>0, <2>2, <2>4, <2>6 DEF InvTtsIn
  <2> QED BY <2>10, <2>11, <2>12 DEF TurnInv
<1>2. CASE \E t \in 1 .. MaxTokens : Speak(t)
  <2>1. PICK t \in 1 .. MaxTokens : Speak(t)
    BY <1>2
  <2>2. /\ heard \in Nat /\ spoken \in Nat /\ ttsOut \in Seq(Nat) /\ egress \in Seq(Nat)
        /\ t \in spoken + 1 .. heard /\ spoken' = t
        /\ Len(ttsOut) < AudioCap /\ ttsOut' = Append(ttsOut, t)
    BY <1>0, <2>1 DEF TypeOK, Speak
  <2>3. /\ UNCHANGED <<ctxDone, outer, err, llm, emitted, result, tokens, fwd, tok, reply>>
        /\ UNCHANGED <<ttsIn, tts, heard, pump, egress, closed, done>>
    BY <2>1 DEF Speak, llmVars, fwdVars
  <2>4. t \in Nat /\ t \in 0 .. heard /\ spoken <= t /\ t <= t
    BY <2>2
  <2>5. ttsOut' \in Seq(Nat) /\ Len(ttsOut') = Len(ttsOut) + 1 /\ Len(ttsOut) \in Nat
    BY <2>2, <2>4, Sent
  <2>6. Len(ttsOut') <= AudioCap
    BY <2>2, <2>5, TurnAssumption
  <2>7. TypeOK'
    BY <1>0, <2>2, <2>3, <2>4, <2>5, <2>6 DEF TypeOK
  <2>8. /\ \A i \in DOMAIN ttsOut : ttsOut[i] <= spoken
        /\ \A i \in DOMAIN egress : egress[i] <= spoken
    BY <1>0 DEF InvSpoken
  <2>9. \A i \in DOMAIN ttsOut : ttsOut[i] \in Nat /\ ttsOut[i] <= t
    BY <2>2, <2>4, <2>8
  <2>10. \A i \in DOMAIN egress : egress[i] \in Nat /\ egress[i] <= t
    BY <2>2, <2>4, <2>8
  <2>11. \A i \in DOMAIN ttsOut' : ttsOut'[i] <= t
    BY <2>2, <2>4, <2>9, SentBelow
  <2>12. InvSpoken'
    BY <2>2, <2>3, <2>10, <2>11 DEF InvSpoken
  <2>13. InvForwarder' /\ InvTtsIn'
    BY <1>0, <2>3 DEF InvForwarder, InvTtsIn, Upto
  <2> QED BY <2>7, <2>12, <2>13 DEF TurnInv
<1>3. CASE \E r \in Results : TTSReturns(r)
  <2>1. PICK r \in Results : TTSReturns(r)
    BY <1>3
  <2>2. TypeOK'
    BY <1>0, <2>1 DEF TypeOK, TTSReturns, Stages, llmVars, fwdVars
  <2>3. UNCHANGED chanVars
    BY <2>1 DEF TTSReturns, chanVars, llmVars, fwdVars
  <2> QED BY <2>2, <2>3, ChannelsKept
<1>4. CASE TTSFail
  <2>1. UNCHANGED chanVars
    BY <1>4 DEF TTSFail, chanVars, llmVars, fwdVars
  <2>2. TypeOK'
    BY <1>0, <1>4 DEF TypeOK, TTSFail, Fail, AfterFail, Stages, llmVars, fwdVars
  <2> QED BY <2>1, <2>2, ChannelsKept
<1>5. CASE TTSCancel
  <2>1. UNCHANGED chanVars
    BY <1>5 DEF TTSCancel, chanVars, llmVars, fwdVars
  <2>2. TypeOK'
    BY <1>0, <1>5 DEF TypeOK, TTSCancel, llmVars, fwdVars
  <2> QED BY <2>1, <2>2, ChannelsKept
<1>6. CASE TTSClose
  <2>1. UNCHANGED chanVars
    BY <1>6 DEF TTSClose, chanVars, llmVars, fwdVars
  <2>2. TypeOK'
    BY <1>0, <1>6 DEF TypeOK, TTSClose, llmVars, fwdVars
  <2> QED BY <2>1, <2>2, ChannelsKept
<1> QED BY <1>1, <1>2, <1>3, <1>4, <1>5, <1>6 DEF TTS

(* The egress pump (turn.go 154-164).                                      *)
LEMMA PumpKeeps == TurnInv /\ Pump => TurnInv'
<1> SUFFICES ASSUME TurnInv, Pump PROVE TurnInv'
  OBVIOUS
<1>0. TypeOK /\ InvForwarder /\ InvTtsIn /\ InvSpoken
  BY DEF TurnInv
<1>1. CASE ttsOut # << >>
  <2>1. /\ ttsOut \in Seq(Nat) /\ egress \in Seq(Nat) /\ spoken \in Nat /\ Len(ttsOut) <= AudioCap
        /\ egress' = Append(egress, Head(ttsOut)) /\ ttsOut' = Tail(ttsOut) /\ pump' = pump
    BY <1>0, <1>1 DEF TypeOK, Pump
  <2>2. /\ UNCHANGED <<ctxDone, outer, err, llm, emitted, result, tokens, fwd, tok, reply>>
        /\ UNCHANGED <<ttsIn, tts, heard, spoken, closed, done>>
    BY DEF Pump, llmVars, fwdVars, ttsVars
  <2>3. /\ \A i \in DOMAIN ttsOut : ttsOut[i] <= spoken
        /\ \A i \in DOMAIN egress : egress[i] <= spoken
    BY <1>0 DEF InvSpoken
  <2>4. /\ Head(ttsOut) \in Nat /\ ttsOut' \in Seq(Nat)
        /\ Len(ttsOut') = Len(ttsOut) - 1 /\ Len(ttsOut) \in Nat
    BY <1>1, <2>1, Taken
  <2>5. Head(ttsOut) <= spoken /\ \A i \in DOMAIN ttsOut' : ttsOut'[i] <= spoken
    BY <1>1, <2>1, <2>3, TakenBelow
  <2>6. egress' \in Seq(Nat)
    BY <2>1, <2>4, Sent
  <2>7. \A i \in DOMAIN egress' : egress'[i] <= spoken
    BY <2>1, <2>3, <2>4, <2>5, SentBelow
  <2>8. Len(ttsOut') <= AudioCap
    BY <2>1, <2>4, TurnAssumption
  <2>9. TypeOK'
    BY <1>0, <2>1, <2>2, <2>4, <2>6, <2>8 DEF TypeOK
  <2>10. InvForwarder' /\ InvTtsIn'
    BY <1>0, <2>2 DEF InvForwarder, InvTtsIn, Upto
  <2>11. InvSpoken'
    BY <2>2, <2>5, <2>7 DEF InvSpoken
  <2> QED BY <2>9, <2>10, <2>11 DEF TurnInv
<1>2. CASE ttsOut = << >>
  <2>1. UNCHANGED chanVars
    BY <1>2 DEF Pump, chanVars, llmVars, fwdVars, ttsVars
  <2>2. TypeOK'
    BY <1>0, <1>2 DEF TypeOK, Pump, llmVars, fwdVars, ttsVars
  <2> QED BY <2>1, <2>2, ChannelsKept
<1> QED BY <1>1, <1>2

LEMMA TurnInvStep == TurnInv /\ [Next]_vars => TurnInv'
<1> SUFFICES ASSUME TurnInv, [Next]_vars PROVE TurnInv'
  OBVIOUS
<1>0. TypeOK
  BY DEF TurnInv
<1>1. CASE CancelOutside
  <2>1. UNCHANGED chanVars
    BY <1>1 DEF CancelOutside, chanVars, llmVars, fwdVars, ttsVars
  <2>2. TypeOK'
    BY <1>0, <1>1 DEF TypeOK, CancelOutside, llmVars, fwdVars, ttsVars
  <2> QED BY <2>1, <2>2, ChannelsKept
<1>2. CASE Close
  <2>1. UNCHANGED chanVars
    BY <1>2 DEF Close, chanVars, llmVars, fwdVars, ttsVars
  <2>2. TypeOK'
    BY <1>0, <1>2 DEF TypeOK, Close, llmVars, fwdVars, ttsVars
  <2> QED BY <2>1, <2>2, ChannelsKept
<1>3. CASE Over \/ UNCHANGED vars
  <2>1. UNCHANGED vars
    BY <1>3 DEF Over
  <2>2. UNCHANGED chanVars
    BY <2>1 DEF vars, chanVars
  <2>3. TypeOK'
    BY <1>0, <2>1 DEF TypeOK, vars
  <2> QED BY <2>2, <2>3, ChannelsKept
<1> QED BY <1>1, <1>2, <1>3, LLMKeeps, ForwarderKeeps, TTSKeeps, PumpKeeps DEF Next

LEMMA TurnInvInit == Init => TurnInv
<1> SUFFICES ASSUME Init PROVE TurnInv
  OBVIOUS
<1>1. /\ << >> \in Seq(Nat) /\ Len(<< >>) = 0 /\ DOMAIN << >> = {}
      /\ << >> = [i \in 1 .. 0 |-> i]
  OBVIOUS
<1>2. TypeOK
  <2>1. /\ ctxDone \in BOOLEAN /\ outer \in BOOLEAN /\ done \in BOOLEAN
        /\ err \in Stages \cup {"none"}
        /\ llm \in {"stream", "fail", "cancel", "close", "done"}
        /\ tts \in {"stream", "fail", "cancel", "close", "done"}
        /\ fwd \in {"recv", "send", "close", "done"} /\ pump \in {"recv", "done"}
        /\ closed \subseteq {"tokens", "ttsIn", "ttsOut"}
    BY DEF Init
  <2>2. result \in [Stages -> Results \cup {"none"}]
    BY DEF Init
  <2>3. emitted \in Nat /\ tok \in Nat /\ heard \in Nat /\ spoken \in 0 .. heard
    BY DEF Init
  <2>4. /\ tokens \in Seq(Nat) /\ ttsIn \in Seq(Nat) /\ ttsOut \in Seq(Nat)
        /\ reply \in Seq(Nat) /\ egress \in Seq(Nat)
    BY <1>1 DEF Init
  <2>5. Len(tokens) <= TokenCap /\ Len(ttsIn) <= TokenCap /\ Len(ttsOut) <= AudioCap
    BY <1>1, TurnAssumption DEF Init
  <2> QED BY <2>1, <2>2, <2>3, <2>4, <2>5 DEF TypeOK
<1>3. InvForwarder /\ InvTtsIn /\ InvSpoken
  BY <1>1 DEF Init, InvForwarder, InvTtsIn, InvSpoken, Upto
<1> QED BY <1>2, <1>3 DEF TurnInv

LEMMA TurnInvHolds == Spec => []TurnInv
<1> QED BY TurnInvInit, TurnInvStep, PTL DEF Spec

(* The turn's state is well typed, its channels within their capacity, in  *)
(* every run of startTurn's goroutines.                                    *)
THEOREM TurnTypes == Spec => []TypeOK
<1>1. TurnInv => TypeOK
  BY DEF TurnInv
<1> QED BY <1>1, TurnInvHolds, PTL

(* What reached the egress edge is in the reply finishTurn puts into the   *)
(* history, whenever and however the turn is cut off.                      *)
THEOREM TurnHeardIsReply == Spec => []HeardIsReply
<1>1. TurnInv => HeardIsReply
  <2> SUFFICES ASSUME TurnInv PROVE HeardIsReply
    OBVIOUS
  <2>1. /\ heard \in Nat /\ spoken \in 0 .. heard /\ ttsIn \in Seq(Nat)
        /\ reply \in Seq(Nat) /\ egress \in Seq(Nat)
    BY DEF TurnInv, TypeOK
  <2>2. Len(ttsIn) \in Nat /\ Len(reply) \in Nat /\ heard + Len(ttsIn) <= Len(reply)
    BY <2>1 DEF TurnInv, InvTtsIn
  <2>3. spoken \in Nat /\ spoken <= Len(reply)
    BY <2>1, <2>2
  <2>4. \A i \in DOMAIN egress : egress[i] \in Nat /\ egress[i] <= spoken
    BY <2>1 DEF TurnInv, InvSpoken
  <2>5. \A i \in DOMAIN egress : egress[i] <= Len(reply)
    BY <2>2, <2>3, <2>4
  <2> QED BY <2>5 DEF TurnInv, InvForwarder, HeardIsReply
<1> QED BY <1>1, TurnInvHolds, PTL
-----------------------------------------------------------------------------
(* How a turn ends: a stage closes its channel as its last act, the pump   *)
(* leaves an empty one, and done waits for the four of them.               *)
InvClosed ==
  /\ "tokens" \in closed <=> llm = "done"
  /\ "ttsIn" \in closed <=> fwd = "done"
  /\ "ttsOut" \in closed <=> tts = "done"
  /\ pump = "done" => tts = "done" /\ ttsOut = << >>
  /\ done => llm = "done" /\ fwd = "done" /\ tts = "done" /\ pump = "done"

(* What a stage that was not cancelled has seen to its end.                *)
InvSeen ==
  /\ fwd \in {"close", "done"} /\ ~ctxDone =>
       llm = "done" /\ tokens = << >> /\ heard + Len(ttsIn) = Len(reply)
  /\ tts # "stream" => result["tts"] # "none"
  /\ result["tts"] = "nil" => ttsIn = << >> /\ fwd = "done"
  /\ result["tts"] = "canceled" => ctxDone
  /\ tts \in {"close", "done"} => result["tts"] = "nil" \/ ctxDone

(* The last frame, in the channel or through it, speaks up to spoken.      *)
InvLast ==
  IF ttsOut # << >> THEN ttsOut[Len(ttsOut)] = spoken
  ELSE IF egress # << >> THEN egress[Len(egress)] = spoken
  ELSE spoken = 0

EndInv == InvClosed /\ InvSeen /\ InvLast

LEMMA ClosedStep ==
  ASSUME TypeOK, InvClosed, [Next]_vars
  PROVE  InvClosed'
<1> USE DEF InvClosed
<1>1. CASE LLM
  BY <1>1 DEF LLM, LLMEmit, LLMReturns, LLMFail, LLMCancel, LLMClose, AfterFail, fwdVars, ttsVars
<1>2. CASE Forwarder
  BY <1>2 DEF Forwarder, Receive, TokensEnd, Forward, CloseTtsIn, llmVars, ttsVars
<1>3. CASE TTS
  BY <1>3 DEF TTS, Hear, Speak, TTSReturns, TTSFail, TTSCancel, TTSClose, AfterFail, llmVars,
              fwdVars
<1>4. CASE Pump
  BY <1>4 DEF Pump, llmVars, fwdVars, ttsVars
<1>5. CASE CancelOutside \/ Close
  BY <1>5 DEF CancelOutside, Close, llmVars, fwdVars, ttsVars
<1>6. CASE Over \/ UNCHANGED vars
  BY <1>6 DEF Over, vars
<1> QED BY <1>1, <1>2, <1>3, <1>4, <1>5, <1>6 DEF Next

LEMMA SeenStep ==
  ASSUME TurnInv, InvClosed, InvSeen, [Next]_vars
  PROVE  InvSeen'
<1>0. /\ TypeOK /\ heard \in Nat /\ ttsIn \in Seq(Nat) /\ reply \in Seq(Nat)
      /\ Len(ttsIn) \in Nat /\ Len(reply) \in Nat /\ DOMAIN result = Stages
  BY DEF TurnInv, TypeOK
<1>1. CASE LLM
  <2>1. /\ UNCHANGED <<fwd, reply, ttsIn, tts, heard>> /\ result'["tts"] = result["tts"]
        /\ ctxDone => ctxDone'
        /\ llm = "done" => llm' = "done" /\ UNCHANGED tokens
    BY <1>0, <1>1 DEF LLM, LLMEmit, LLMReturns, LLMFail, LLMCancel, LLMClose, AfterFail, Stages,
                      fwdVars, ttsVars
  <2> QED BY <2>1 DEF InvSeen
<1>2. CASE Receive
  <2>1. /\ UNCHANGED <<ctxDone, llm, result, ttsIn, tts, heard>> /\ fwd = "recv"
        /\ \/ fwd' = "send"
           \/ fwd' = "close" /\ tokens = << >> /\ "tokens" \in closed /\ UNCHANGED <<tokens, reply>>
    BY <1>2 DEF Receive, TokensEnd, llmVars, ttsVars
  <2>2. heard + Len(ttsIn) = Len(reply)
    BY <2>1 DEF TurnInv, InvTtsIn
  <2> QED BY <2>1, <2>2 DEF InvSeen, InvClosed
<1>3. CASE Forward \/ CloseTtsIn
  <2>1. /\ UNCHANGED <<ctxDone, llm, result, tokens, tts, heard, reply>> /\ fwd # "done"
        /\ \/ fwd' = "recv"
           \/ fwd' = "close" /\ ctxDone
           \/ fwd' = "done" /\ fwd = "close" /\ UNCHANGED ttsIn
    BY <1>3 DEF Forward, CloseTtsIn, llmVars, ttsVars
  <2> QED BY <2>1 DEF InvSeen
<1>4. CASE Hear
  <2>1. /\ UNCHANGED <<ctxDone, llm, result, tokens, fwd, tts, reply>> /\ ttsIn # << >>
        /\ heard' = Head(ttsIn) /\ ttsIn' = Tail(ttsIn) /\ tts = "stream"
    BY <1>4 DEF Hear, llmVars, fwdVars
  <2>2. heard' = heard + 1
    BY <1>0, <2>1, TakenInPlace DEF TurnInv, InvTtsIn
  <2>3. Len(ttsIn') = Len(ttsIn) - 1 /\ Len(ttsIn) \in Nat \ {0}
    BY <1>0, <2>1, Taken
  <2>4. heard' + Len(ttsIn') = heard + Len(ttsIn)
    BY <1>0, <2>2, <2>3
  <2> QED BY <2>1, <2>4 DEF InvSeen
<1>5. ASSUME NEW t \in 1 .. MaxTokens, Speak(t) PROVE InvSeen'
  BY <1>5 DEF Speak, InvSeen, llmVars, fwdVars
<1>6. ASSUME NEW r \in Results, TTSReturns(r) PROVE InvSeen'
  <2>1. /\ UNCHANGED <<ctxDone, llm, tokens, fwd, tok, reply, ttsIn, heard>>
        /\ result'["tts"] = r /\ tts' = "fail" /\ r # "none"
        /\ r = "canceled" => ctxDone
        /\ r = "nil" => ttsIn = << >> /\ "ttsIn" \in closed
    BY <1>0, <1>6 DEF TTSReturns, Stages, Results, llmVars, fwdVars
  <2> QED BY <2>1 DEF InvSeen, InvClosed
<1>7. CASE TTSFail
  <2>1. /\ UNCHANGED <<ctxDone, llm, result, tokens, fwd, reply, ttsIn, heard>> /\ tts = "fail"
        /\ tts' = IF result["tts"] = "error" THEN "cancel" ELSE "close"
    BY <1>7 DEF TTSFail, AfterFail, llmVars, fwdVars
  <2>2. result["tts"] \in Results \cup {"none"}
    BY <1>0 DEF TypeOK, Stages
  <2> QED BY <2>1, <2>2 DEF InvSeen, Results
<1>8. CASE TTSCancel \/ TTSClose
  BY <1>8 DEF TTSCancel, TTSClose, InvSeen, llmVars, fwdVars
<1>9. CASE Pump \/ CancelOutside \/ Close
  BY <1>9 DEF Pump, CancelOutside, Close, InvSeen, llmVars, fwdVars, ttsVars
<1>10. CASE Over \/ UNCHANGED vars
  BY <1>10 DEF Over, vars, InvSeen
<1> QED BY <1>1, <1>2, <1>3, <1>4, <1>5, <1>6, <1>7, <1>8, <1>9, <1>10 DEF Next, Forwarder, TTS

LEMMA LastStep ==
  ASSUME TypeOK, InvLast, [Next]_vars
  PROVE  InvLast'
<1>0. ttsOut \in Seq(Nat) /\ egress \in Seq(Nat) /\ spoken \in Nat /\ heard \in Nat
  BY DEF TypeOK
<1>1. ASSUME NEW t \in 1 .. MaxTokens, Speak(t) PROVE InvLast'
  <2>1. t \in Nat /\ spoken' = t /\ ttsOut' = Append(ttsOut, t)
    BY <1>0, <1>1 DEF Speak
  <2>2. /\ Len(ttsOut) \in Nat /\ ttsOut' \in Seq(Nat) /\ Len(ttsOut') = Len(ttsOut) + 1
        /\ ttsOut'[Len(ttsOut) + 1] = t
    BY <1>0, <2>1, Sent
  <2>3. ttsOut' # << >> /\ ttsOut'[Len(ttsOut')] = t
    BY <2>2
  <2> QED BY <2>1, <2>3 DEF InvLast
<1>2. CASE Pump /\ ttsOut # << >>
  <2>1. egress' = Append(egress, Head(ttsOut)) /\ ttsOut' = Tail(ttsOut) /\ spoken' = spoken
    BY <1>2 DEF Pump, ttsVars
  <2>2. /\ Len(ttsOut) \in Nat \ {0} /\ Head(ttsOut) = ttsOut[1] /\ Head(ttsOut) \in Nat
        /\ Len(ttsOut') = Len(ttsOut) - 1 /\ ttsOut' \in Seq(Nat)
        /\ \A i \in 1 .. Len(ttsOut) - 1 : ttsOut'[i] = ttsOut[i + 1]
    BY <1>0, <1>2, <2>1, Taken
  <2>3. ttsOut[Len(ttsOut)] = spoken
    BY <1>2 DEF InvLast
  <2>4. CASE Len(ttsOut) = 1
    <3>1. ttsOut' = << >>
      BY <2>2, <2>4
    <3>2. egress' # << >> /\ egress'[Len(egress')] = Head(ttsOut)
      <4>1. /\ Len(egress) \in Nat /\ egress' \in Seq(Nat) /\ Len(egress') = Len(egress) + 1
            /\ egress'[Len(egress) + 1] = Head(ttsOut)
        BY <1>0, <2>1, <2>2, Sent
      <4> QED BY <4>1
    <3> QED BY <2>1, <2>2, <2>3, <2>4, <3>1, <3>2 DEF InvLast
  <2>5. CASE Len(ttsOut) # 1
    <3>1. ttsOut' # << >> /\ ttsOut'[Len(ttsOut')] = ttsOut[Len(ttsOut)]
      BY <2>2, <2>5
    <3> QED BY <2>1, <2>3, <3>1 DEF InvLast
  <2> QED BY <2>4, <2>5
<1>3. ASSUME UNCHANGED <<ttsOut, egress, spoken>> PROVE InvLast'
  BY <1>3 DEF InvLast
<1>4. CASE Pump /\ ttsOut = << >>
  BY <1>3, <1>4 DEF Pump, ttsVars
<1>5. CASE LLM
  BY <1>3, <1>5 DEF LLM, LLMEmit, LLMReturns, LLMFail, LLMCancel, LLMClose, ttsVars
<1>6. CASE Forwarder
  BY <1>3, <1>6 DEF Forwarder, Receive, Forward, CloseTtsIn, ttsVars
<1>7. CASE Hear \/ (\E r \in Results : TTSReturns(r)) \/ TTSFail \/ TTSCancel \/ TTSClose
  BY <1>3, <1>7 DEF Hear, TTSReturns, TTSFail, TTSCancel, TTSClose
<1>8. CASE CancelOutside \/ Close \/ Over \/ UNCHANGED vars
  BY <1>3, <1>8 DEF CancelOutside, Close, Over, vars, ttsVars
<1> QED BY <1>1, <1>2, <1>4, <1>5, <1>6, <1>7, <1>8 DEF Next, TTS

LEMMA EndInvHolds == Spec => [](TurnInv /\ EndInv)
<1>1. Init => TurnInv /\ EndInv
  <2> SUFFICES ASSUME Init PROVE EndInv
    BY TurnInvInit
  <2> QED BY DEF Init, EndInv, InvClosed, InvSeen, InvLast, Stages
<1>2. TurnInv /\ EndInv /\ [Next]_vars => TurnInv' /\ EndInv'
  BY TurnInvStep, ClosedStep, SeenStep, LastStep DEF TurnInv, EndInv
<1> QED BY <1>1, <1>2, PTL DEF Spec

(* A turn that nobody cancels and that no stage fails is complete when     *)
(* done is closed: no channel was left with something in it (turn.go       *)
(* 108-170).                                                               *)
THEOREM TurnComplete == Spec => []CompleteOnSuccess
<1>1. TurnInv /\ EndInv => CompleteOnSuccess
  <2> SUFFICES ASSUME TurnInv, EndInv, done, ~ctxDone
               PROVE  /\ Len(reply) = emitted /\ heard = emitted
                      /\ egress # << >> => egress[Len(egress)] = spoken
                      /\ egress = << >> => spoken = 0
    BY DEF CompleteOnSuccess
  <2>1. fwd = "done" /\ tts = "done" /\ ttsOut = << >>
    BY DEF EndInv, InvClosed
  <2>2. tokens = << >> /\ heard + Len(ttsIn) = Len(reply) /\ ttsIn = << >>
    BY <2>1 DEF EndInv, InvSeen
  <2>3. emitted = Len(reply) + Len(tokens) /\ reply \in Seq(Nat) /\ heard \in Nat
    BY DEF TurnInv, TypeOK, InvForwarder
  <2>4. Len(reply) \in Nat /\ Len(<< >>) = 0
    BY <2>3
  <2>5. Len(reply) = emitted /\ heard = emitted
    BY <2>2, <2>3, <2>4
  <2> QED BY <2>1, <2>5 DEF EndInv, InvLast
<1> QED BY <1>1, EndInvHolds, PTL

(* Step by step the sub-chain is what the orchestrator takes it for: it    *)
(* pushes frames only until done is closed, and closes it once (turn.go    *)
(* 152-170, but for the promise to exit).                                  *)
THEOREM TurnIsTheChain == Spec => Chain!Init /\ [][Chain!Next]_(Chain!chainVars)
<1>1. Init => Chain!Init
  BY DEF Init, Chain!Init
<1>2. TurnInv /\ EndInv /\ [Next]_vars => Chain!Next \/ UNCHANGED Chain!chainVars
  <2> SUFFICES ASSUME TypeOK, InvClosed, [Next]_vars
               PROVE  Chain!Next \/ UNCHANGED Chain!chainVars
    BY DEF TurnInv, EndInv
  <2> USE DEF Chain!Next, Chain!chainVars
  <2>1. CASE Pump /\ ttsOut # << >>
    <3>1. pump = "recv" /\ egress' = Append(egress, Head(ttsOut)) /\ UNCHANGED <<done, ctxDone>>
      BY <2>1 DEF Pump
    <3>2. Len(egress') = Len(egress) + 1
      <4>1. egress \in Seq(Nat) /\ Head(ttsOut) \in Nat
        BY <2>1, Taken DEF TypeOK
      <4> QED BY <3>1, <4>1
    <3>3. ~done
      BY <3>1 DEF InvClosed
    <3> QED BY <3>1, <3>2, <3>3 DEF Chain!Push
  <2>2. CASE Close
    BY <2>2 DEF Close, Chain!Exit
  <2>3. CASE CancelOutside \/ LLMCancel \/ TTSCancel
    BY <2>3 DEF CancelOutside, LLMCancel, TTSCancel, Chain!Cancel
  <2>4. ASSUME UNCHANGED <<done, ctxDone, egress>> PROVE UNCHANGED Chain!chainVars
    BY <2>4
  <2>5. CASE LLM /\ ~LLMCancel
    BY <2>4, <2>5 DEF LLM, LLMEmit, LLMReturns, LLMFail, LLMClose
  <2>6. CASE Forwarder
    BY <2>4, <2>6 DEF Forwarder, Receive, Forward, CloseTtsIn
  <2>7. CASE TTS /\ ~TTSCancel
    BY <2>4, <2>7 DEF TTS, Hear, Speak, TTSReturns, TTSFail, TTSClose
  <2>8. CASE (Pump /\ ttsOut = << >>) \/ Over \/ UNCHANGED vars
    BY <2>4, <2>8 DEF Pump, Over, vars
  <2> QED BY <2>1, <2>2, <2>3, <2>5, <2>6, <2>7, <2>8 DEF Next
<1> QED BY <1>1, <1>2, EndInvHolds, PTL DEF Spec
-----------------------------------------------------------------------------
(* How a turn winds down.  What is left of the life of a stage that calls  *)
(* Stream, and of the forwarder, in steps; and what is left of the turn: a *)
(* token has five steps before it when it is sent, three of them when the  *)
(* TTS hears it, since it may be spoken, and its frame pumped, in two.     *)
StagesAhead(stage) ==
  CASE stage = "stream" -> 4 [] stage = "fail" -> 3 [] stage = "cancel" -> 2
    [] stage = "close" -> 1 [] stage = "done" -> 0
ForwarderAhead ==
  CASE fwd = "send" -> 6 [] fwd = "recv" -> 2 [] fwd = "close" -> 1 [] fwd = "done" -> 0

LLMAhead == StagesAhead(llm) + IF llm = "stream" THEN 6 * (MaxTokens - emitted) ELSE 0
TTSAhead == StagesAhead(tts) + 2 * (heard - spoken)
PumpAhead == Len(ttsOut) + IF pump = "recv" THEN 1 ELSE 0
RestAhead == (IF done THEN 0 ELSE 1) + IF outer THEN 0 ELSE 1
Ahead ==
  LLMAhead + 5 * Len(tokens) + ForwarderAhead + 3 * Len(ttsIn) + TTSAhead + PumpAhead + RestAhead

(* No reply outgrows the bound, and a stage streams until it returned.     *)
InvReturned ==
  /\ emitted <= MaxTokens
  /\ llm = "stream" <=> result["llm"] = "none"
  /\ tts = "stream" <=> result["tts"] = "none"

LEMMA ReturnedStep ==
  ASSUME TypeOK, InvReturned, [Next]_vars
  PROVE  InvReturned'
<1>0. emitted \in Nat /\ DOMAIN result = Stages /\ "none" \notin Results /\ MaxTokens \in Nat
  BY TurnAssumption DEF TypeOK, Results
<1> USE DEF InvReturned
<1>1. CASE LLMEmit
  BY <1>0, <1>1 DEF LLMEmit, ttsVars
<1>2. ASSUME NEW r \in Results, LLMReturns(r) PROVE InvReturned'
  BY <1>0, <1>2 DEF LLMReturns, ttsVars, Stages
<1>3. CASE LLMFail \/ LLMCancel \/ LLMClose
  BY <1>3 DEF LLMFail, LLMCancel, LLMClose, AfterFail, ttsVars
<1>4. CASE Forwarder
  BY <1>4 DEF Forwarder, Receive, Forward, CloseTtsIn, llmVars, ttsVars
<1>5. CASE Hear \/ \E t \in 1 .. MaxTokens : Speak(t)
  BY <1>5 DEF Hear, Speak, llmVars
<1>6. ASSUME NEW r \in Results, TTSReturns(r) PROVE InvReturned'
  BY <1>0, <1>6 DEF TTSReturns, llmVars, Stages
<1>7. CASE TTSFail \/ TTSCancel \/ TTSClose
  BY <1>7 DEF TTSFail, TTSCancel, TTSClose, AfterFail, llmVars
<1>8. CASE Pump \/ CancelOutside \/ Close
  BY <1>8 DEF Pump, CancelOutside, Close, llmVars, ttsVars
<1>9. CASE Over \/ UNCHANGED vars
  BY <1>9 DEF Over, vars
<1> QED BY <1>1, <1>2, <1>3, <1>4, <1>5, <1>6, <1>7, <1>8, <1>9 DEF Next, LLM, TTS

WindInv == TurnInv /\ EndInv /\ InvReturned

LEMMA WindInvHolds == Spec => []WindInv
<1>1. Init => InvReturned
  BY TurnAssumption DEF Init, InvReturned, Stages
<1>2. TurnInv /\ InvReturned /\ [Next]_vars => InvReturned'
  BY ReturnedStep DEF TurnInv
<1> QED BY <1>1, <1>2, EndInvHolds, PTL DEF Spec, WindInv

PartTypes ==
  /\ LLMAhead \in Nat /\ ForwarderAhead \in Nat /\ TTSAhead \in Nat
  /\ PumpAhead \in Nat /\ RestAhead \in Nat
  /\ Len(tokens) \in Nat /\ Len(ttsIn) \in Nat

LEMMA PartTypesHold == WindInv => PartTypes
<1> SUFFICES ASSUME TypeOK, InvReturned PROVE PartTypes
  BY DEF WindInv, TurnInv
<1>1. /\ Len(tokens) \in Nat /\ Len(ttsIn) \in Nat /\ Len(ttsOut) \in Nat
      /\ emitted \in Nat /\ emitted <= MaxTokens /\ MaxTokens \in Nat
      /\ heard \in Nat /\ spoken \in 0 .. heard
  BY TurnAssumption DEF TypeOK, InvReturned
<1>2. StagesAhead(llm) \in Nat /\ StagesAhead(tts) \in Nat /\ ForwarderAhead \in Nat
  BY DEF TypeOK, StagesAhead, ForwarderAhead
<1>3. 6 * (MaxTokens - emitted) \in Nat /\ 2 * (heard - spoken) \in Nat
  BY <1>1
<1>4. LLMAhead \in Nat /\ TTSAhead \in Nat
  BY <1>2, <1>3 DEF LLMAhead, TTSAhead
<1> QED BY <1>1, <1>2, <1>4 DEF PumpAhead, RestAhead, PartTypes

(* A step lowers Ahead when it lowers one part and raises no other.        *)
LEMMA OnePartLess ==
  ASSUME PartTypes, PartTypes',
         LLMAhead' <= LLMAhead, ForwarderAhead' <= ForwarderAhead, TTSAhead' <= TTSAhead,
         PumpAhead' <= PumpAhead, RestAhead' <= RestAhead,
         tokens' = tokens, ttsIn' = ttsIn,
         \/ LLMAhead' < LLMAhead \/ ForwarderAhead' < ForwarderAhead
         \/ TTSAhead' < TTSAhead \/ PumpAhead' < PumpAhead \/ RestAhead' < RestAhead
  PROVE  Ahead' < Ahead
<1>1. PICK a \in Nat, b \in Nat, c \in Nat, d \in Nat, e \in Nat, m \in Nat, n \in Nat :
        /\ a = LLMAhead /\ b = ForwarderAhead /\ c = TTSAhead /\ d = PumpAhead /\ e = RestAhead
        /\ m = Len(tokens) /\ n = Len(ttsIn)
  BY DEF PartTypes
<1>2. PICK a2 \in Nat, b2 \in Nat, c2 \in Nat, d2 \in Nat, e2 \in Nat :
        /\ a2 = LLMAhead' /\ b2 = ForwarderAhead' /\ c2 = TTSAhead' /\ d2 = PumpAhead'
        /\ e2 = RestAhead'
  BY DEF PartTypes
<1>3. /\ a2 <= a /\ b2 <= b /\ c2 <= c /\ d2 <= d /\ e2 <= e
      /\ a2 < a \/ b2 < b \/ c2 < c \/ d2 < d \/ e2 < e
  BY <1>1, <1>2
<1>4. a2 + 5 * m + b2 + 3 * n + c2 + d2 + e2 < a + 5 * m + b + 3 * n + c + d + e
  BY <1>3
<1>5. /\ Ahead = a + 5 * m + b + 3 * n + c + d + e
      /\ Ahead' = a2 + 5 * m + b2 + 3 * n + c2 + d2 + e2
  BY <1>1, <1>2 DEF Ahead
<1> QED BY <1>4, <1>5

(* What a part of Ahead depends on.                                        *)
LEMMA PartsKept ==
  /\ UNCHANGED <<llm, emitted>> => LLMAhead' = LLMAhead
  /\ UNCHANGED fwd => ForwarderAhead' = ForwarderAhead
  /\ UNCHANGED <<tts, heard, spoken>> => TTSAhead' = TTSAhead
  /\ UNCHANGED <<ttsOut, pump>> => PumpAhead' = PumpAhead
  /\ UNCHANGED <<done, outer>> => RestAhead' = RestAhead
<1>1. UNCHANGED <<llm, emitted>> => LLMAhead' = LLMAhead
  BY DEF LLMAhead, StagesAhead
<1>2. UNCHANGED fwd => ForwarderAhead' = ForwarderAhead
  BY DEF ForwarderAhead
<1>3. UNCHANGED <<tts, heard, spoken>> => TTSAhead' = TTSAhead
  BY DEF TTSAhead, StagesAhead
<1>4. UNCHANGED <<ttsOut, pump>> => PumpAhead' = PumpAhead
  BY DEF PumpAhead
<1>5. UNCHANGED <<done, outer>> => RestAhead' = RestAhead
  BY DEF RestAhead
<1> QED BY <1>1, <1>2, <1>3, <1>4, <1>5

(* A step that leaves the channels tokens and ttsIn alone.                 *)
LEMMA StageLess ==
  ASSUME WindInv, WindInv',
         CancelOutside \/ LLMFail \/ LLMCancel \/ LLMClose \/ CloseTtsIn
           \/ TTSFail \/ TTSCancel \/ TTSClose \/ Close
           \/ (\E r \in Results : LLMReturns(r) \/ TTSReturns(r))
  PROVE  Ahead' < Ahead
<1>0. TypeOK /\ PartTypes /\ PartTypes'
  <2>1. (WindInv => PartTypes)'
    BY PartTypesHold, PTL
  <2> QED BY <2>1, PartTypesHold DEF WindInv, TurnInv
<1>1. emitted \in Nat /\ MaxTokens \in Nat /\ emitted <= MaxTokens
  BY <1>0, TurnAssumption DEF TypeOK, WindInv, InvReturned
<1>2. CASE CancelOutside \/ Close
  <2>1. RestAhead' < RestAhead
    BY <1>2 DEF CancelOutside, Close, RestAhead
  <2>2. UNCHANGED <<llm, emitted, tokens, fwd, ttsIn, tts, heard, spoken, ttsOut, pump>>
    BY <1>2 DEF CancelOutside, Close, llmVars, fwdVars, ttsVars
  <2> QED BY <1>0, <2>1, <2>2, PartsKept, OnePartLess DEF PartTypes
<1>3. CASE LLMFail \/ LLMCancel \/ LLMClose
  <2>1. LLMAhead' < LLMAhead
    BY <1>3 DEF LLMFail, LLMCancel, LLMClose, AfterFail, LLMAhead, StagesAhead
  <2>2. UNCHANGED <<done, outer, tokens, fwd, ttsIn, tts, heard, spoken, ttsOut, pump>>
    BY <1>3 DEF LLMFail, LLMCancel, LLMClose, fwdVars, ttsVars
  <2> QED BY <1>0, <2>1, <2>2, PartsKept, OnePartLess DEF PartTypes
<1>4. ASSUME NEW r \in Results, LLMReturns(r) PROVE Ahead' < Ahead
  <2>1. llm = "stream" /\ llm' = "fail"
    BY <1>4 DEF LLMReturns
  <2>2. LLMAhead' = 3 /\ LLMAhead = 4 + 6 * (MaxTokens - emitted)
    BY <2>1 DEF LLMAhead, StagesAhead
  <2>3. LLMAhead' < LLMAhead
    BY <1>1, <2>2
  <2>4. UNCHANGED <<done, outer, tokens, fwd, ttsIn, tts, heard, spoken, ttsOut, pump>>
    BY <1>4 DEF LLMReturns, fwdVars, ttsVars
  <2> QED BY <1>0, <2>3, <2>4, PartsKept, OnePartLess DEF PartTypes
<1>5. CASE CloseTtsIn
  <2>1. ForwarderAhead' < ForwarderAhead
    BY <1>5 DEF CloseTtsIn, ForwarderAhead
  <2>2. UNCHANGED <<done, outer, llm, emitted, tokens, ttsIn, tts, heard, spoken, ttsOut, pump>>
    BY <1>5 DEF CloseTtsIn, llmVars, ttsVars
  <2> QED BY <1>0, <2>1, <2>2, PartsKept, OnePartLess DEF PartTypes
<1>6. CASE TTSFail \/ TTSCancel \/ TTSClose \/ \E r \in Results : TTSReturns(r)
  <2>1. /\ UNCHANGED <<heard, spoken>>
        /\ StagesAhead(tts') \in Nat /\ StagesAhead(tts) \in Nat
        /\ StagesAhead(tts') < StagesAhead(tts)
    BY <1>6 DEF TTSFail, TTSCancel, TTSClose, TTSReturns, AfterFail, StagesAhead
  <2>2. PICK n \in Nat : n = 2 * (heard - spoken)
    <3>1. heard \in Nat /\ spoken \in 0 .. heard
      BY <1>0 DEF TypeOK
    <3>2. 2 * (heard - spoken) \in Nat
      BY <3>1
    <3> QED BY <3>2
  <2>3. TTSAhead' = StagesAhead(tts') + n /\ TTSAhead = StagesAhead(tts) + n
    BY <2>1, <2>2 DEF TTSAhead, StagesAhead
  <2>4. PICK i \in Nat, j \in Nat : i = StagesAhead(tts') /\ j = StagesAhead(tts)
    BY <2>1
  <2>5. i + n < j + n
    BY <2>1, <2>4
  <2>6. TTSAhead' < TTSAhead
    BY <2>3, <2>4, <2>5
  <2>7. UNCHANGED <<done, outer, llm, emitted, tokens, fwd, ttsIn, ttsOut, pump>>
    BY <1>6 DEF TTSFail, TTSCancel, TTSClose, TTSReturns, llmVars, fwdVars
  <2> QED BY <1>0, <2>6, <2>7, PartsKept, OnePartLess DEF PartTypes
<1> QED BY <1>2, <1>3, <1>4, <1>5, <1>6

(* A token handed on, or spoken, leaves less in front of it than it had.   *)
LEMMA HandedOnLess ==
  ASSUME PartTypes, PartTypes',
         LLMAhead' = LLMAhead \/ LLMAhead' = LLMAhead - 6,
         PumpAhead' = PumpAhead \/ PumpAhead' = PumpAhead + 1, RestAhead' = RestAhead,
         \/ /\ LLMAhead' = LLMAhead - 6 /\ Len(tokens') = Len(tokens) + 1
            /\ ForwarderAhead' = ForwarderAhead /\ Len(ttsIn') = Len(ttsIn)
            /\ TTSAhead' = TTSAhead /\ PumpAhead' = PumpAhead
         \/ /\ LLMAhead' = LLMAhead /\ Len(tokens') = Len(tokens) - 1
            /\ ForwarderAhead' = ForwarderAhead + 4 /\ Len(ttsIn') = Len(ttsIn)
            /\ TTSAhead' = TTSAhead /\ PumpAhead' = PumpAhead
         \/ /\ LLMAhead' = LLMAhead /\ Len(tokens') = Len(tokens)
            /\ ForwarderAhead' = ForwarderAhead - 4 /\ Len(ttsIn') = Len(ttsIn) + 1
            /\ TTSAhead' = TTSAhead /\ PumpAhead' = PumpAhead
         \/ /\ LLMAhead' = LLMAhead /\ Len(tokens') = Len(tokens)
            /\ ForwarderAhead' = ForwarderAhead /\ Len(ttsIn') = Len(ttsIn) - 1
            /\ TTSAhead' = TTSAhead + 2 /\ PumpAhead' = PumpAhead
         \/ /\ LLMAhead' = LLMAhead /\ Len(tokens') = Len(tokens)
            /\ ForwarderAhead' = ForwarderAhead /\ Len(ttsIn') = Len(ttsIn)
            /\ TTSAhead' <= TTSAhead - 2 /\ PumpAhead' = PumpAhead + 1
  PROVE  Ahead' < Ahead
<1>1. PICK a \in Nat, b \in Nat, c \in Nat, d \in Nat, e \in Nat, m \in Nat, n \in Nat :
        /\ a = LLMAhead /\ b = ForwarderAhead /\ c = TTSAhead /\ d = PumpAhead /\ e = RestAhead
        /\ m = Len(tokens) /\ n = Len(ttsIn)
  BY DEF PartTypes
<1>2. PICK a2 \in Nat, b2 \in Nat, c2 \in Nat, d2 \in Nat, e2 \in Nat, m2 \in Nat, n2 \in Nat :
        /\ a2 = LLMAhead' /\ b2 = ForwarderAhead' /\ c2 = TTSAhead' /\ d2 = PumpAhead'
        /\ e2 = RestAhead' /\ m2 = Len(tokens') /\ n2 = Len(ttsIn')
  BY DEF PartTypes
<1>3. /\ e2 = e
      /\ \/ a2 = a - 6 /\ m2 = m + 1 /\ b2 = b /\ n2 = n /\ c2 = c /\ d2 = d
         \/ a2 = a /\ m2 = m - 1 /\ b2 = b + 4 /\ n2 = n /\ c2 = c /\ d2 = d
         \/ a2 = a /\ m2 = m /\ b2 = b - 4 /\ n2 = n + 1 /\ c2 = c /\ d2 = d
         \/ a2 = a /\ m2 = m /\ b2 = b /\ n2 = n - 1 /\ c2 = c + 2 /\ d2 = d
         \/ a2 = a /\ m2 = m /\ b2 = b /\ n2 = n /\ c2 <= c - 2 /\ d2 = d + 1
  BY <1>1, <1>2
<1>4. a2 + 5 * m2 + b2 + 3 * n2 + c2 + d2 + e2 < a + 5 * m + b + 3 * n + c + d + e
  BY <1>3
<1>5. /\ Ahead = a + 5 * m + b + 3 * n + c + d + e
      /\ Ahead' = a2 + 5 * m2 + b2 + 3 * n2 + c2 + d2 + e2
  BY <1>1, <1>2 DEF Ahead
<1> QED BY <1>4, <1>5

(* The steps that move a token or a frame, or end with a channel empty.    *)
LEMMA ChannelLess ==
  ASSUME WindInv, WindInv',
         LLMEmit \/ Receive \/ Forward \/ Hear \/ (\E t \in 1 .. MaxTokens : Speak(t)) \/ Pump
  PROVE  Ahead' < Ahead
<1>0. TypeOK /\ TypeOK' /\ InvTtsIn /\ PartTypes /\ PartTypes'
  <2>1. (WindInv => PartTypes)'
    BY PartTypesHold, PTL
  <2> QED BY <2>1, PartTypesHold DEF WindInv, TurnInv
<1>1. /\ tokens \in Seq(Nat) /\ ttsIn \in Seq(Nat) /\ ttsOut \in Seq(Nat) /\ tok \in Nat
      /\ emitted \in Nat /\ MaxTokens \in Nat /\ heard \in Nat /\ spoken \in 0 .. heard
  BY <1>0, TurnAssumption DEF TypeOK
<1>2. CASE LLMEmit
  <2>1. LLMAhead' = LLMAhead - 6
    <3>1. /\ llm = "stream" /\ llm' = llm /\ emitted' = emitted + 1 /\ emitted < MaxTokens
      BY <1>2 DEF LLMEmit
    <3>2. /\ LLMAhead = 4 + 6 * (MaxTokens - emitted)
          /\ LLMAhead' = 4 + 6 * (MaxTokens - emitted')
      BY <3>1 DEF LLMAhead, StagesAhead
    <3>3. PICK k \in Nat : k = emitted
      BY <1>1
    <3>4. PICK x \in Nat :
            x = 4 + 6 * (MaxTokens - k) /\ x - 6 = 4 + 6 * (MaxTokens - (k + 1))
      BY <1>1, <3>1, <3>3
    <3>5. LLMAhead = 4 + 6 * (MaxTokens - k) /\ LLMAhead' = 4 + 6 * (MaxTokens - (k + 1))
      BY <3>1, <3>2, <3>3
    <3> QED BY <3>4, <3>5
  <2>2. Len(tokens') = Len(tokens) + 1
    BY <1>1, <1>2 DEF LLMEmit
  <2>3. UNCHANGED <<done, outer, fwd, ttsIn, tts, heard, spoken, ttsOut, pump>>
    BY <1>2 DEF LLMEmit, fwdVars, ttsVars
  <2> QED BY <1>0, <2>1, <2>2, <2>3, PartsKept, HandedOnLess
<1>3. CASE Receive
  <2>1. UNCHANGED <<done, outer, llm, emitted, ttsIn, tts, heard, spoken, ttsOut, pump>>
    BY <1>3 DEF Receive, llmVars, ttsVars
  <2>2. CASE TokensEnd
    <3>1. ForwarderAhead' < ForwarderAhead /\ tokens' = tokens
      BY <1>3, <2>2 DEF Receive, TokensEnd, ForwarderAhead
    <3> QED BY <1>0, <2>1, <3>1, PartsKept, OnePartLess DEF PartTypes
  <2>3. CASE ~TokensEnd
    <3>1. fwd = "recv" /\ fwd' = "send" /\ tokens # << >> /\ tokens' = Tail(tokens)
      BY <1>3, <2>3 DEF Receive
    <3>2. ForwarderAhead = 2 /\ ForwarderAhead' = 6
      BY <3>1 DEF ForwarderAhead
    <3>3. Len(tokens') = Len(tokens) - 1
      BY <1>1, <3>1
    <3>4. ForwarderAhead' = ForwarderAhead + 4
      BY <3>2
    <3> QED BY <1>0, <2>1, <3>3, <3>4, PartsKept, HandedOnLess
  <2> QED BY <2>2, <2>3
<1>4. CASE Forward
  <2>1. UNCHANGED <<done, outer, llm, emitted, tokens, tts, heard, spoken, ttsOut, pump>>
    BY <1>4 DEF Forward, llmVars, ttsVars
  <2>2. CASE fwd' = "close"
    <3>1. ForwarderAhead' < ForwarderAhead /\ ttsIn' = ttsIn
      BY <1>4, <2>2 DEF Forward, ForwarderAhead
    <3> QED BY <1>0, <2>1, <3>1, PartsKept, OnePartLess DEF PartTypes
  <2>3. CASE fwd' # "close"
    <3>1. fwd = "send" /\ fwd' = "recv" /\ ttsIn' = Append(ttsIn, tok)
      BY <1>4, <2>3 DEF Forward
    <3>2. ForwarderAhead = 6 /\ ForwarderAhead' = 2
      BY <3>1 DEF ForwarderAhead
    <3>3. Len(ttsIn') = Len(ttsIn) + 1
      BY <1>1, <3>1
    <3>4. ForwarderAhead' = ForwarderAhead - 4
      BY <3>2
    <3> QED BY <1>0, <2>1, <3>3, <3>4, PartsKept, HandedOnLess
  <2> QED BY <2>2, <2>3
<1>5. CASE Hear
  <2>1. /\ UNCHANGED <<done, outer, llm, emitted, tokens, fwd, ttsOut, pump>>
        /\ tts' = tts /\ spoken' = spoken /\ tts = "stream"
        /\ ttsIn # << >> /\ heard' = Head(ttsIn) /\ ttsIn' = Tail(ttsIn)
    BY <1>5 DEF Hear, llmVars, fwdVars
  <2>2. heard' = heard + 1
    BY <1>0, <1>1, <2>1, TakenInPlace DEF InvTtsIn
  <2>3. Len(ttsIn') = Len(ttsIn) - 1
    BY <1>1, <2>1
  <2>4. TTSAhead' = TTSAhead + 2
    <3>1. TTSAhead = 4 + 2 * (heard - spoken) /\ TTSAhead' = 4 + 2 * (heard' - spoken)
      BY <2>1 DEF TTSAhead, StagesAhead
    <3>2. PICK k \in Nat, l \in Nat : k = heard /\ l = spoken
      BY <1>1
    <3>3. 4 + 2 * ((k + 1) - l) = 4 + 2 * (k - l) + 2
      OBVIOUS
    <3> QED BY <2>2, <3>1, <3>2, <3>3
  <2> QED BY <1>0, <2>1, <2>3, <2>4, PartsKept, HandedOnLess
<1>6. ASSUME NEW t \in 1 .. MaxTokens, Speak(t) PROVE Ahead' < Ahead
  <2>1. /\ UNCHANGED <<done, outer, llm, emitted, tokens, fwd, ttsIn, tts, heard, pump>>
        /\ tts = "stream" /\ spoken' = t /\ t \in spoken + 1 .. heard
        /\ ttsOut' = Append(ttsOut, t)
    BY <1>6 DEF Speak, llmVars, fwdVars
  <2>2. PumpAhead' = PumpAhead + 1
    <3>1. Len(ttsOut') = Len(ttsOut) + 1 /\ Len(ttsOut) \in Nat
      BY <1>1, <2>1
    <3> QED BY <2>1, <3>1 DEF PumpAhead
  <2>3. TTSAhead' <= TTSAhead - 2
    <3>1. TTSAhead = 4 + 2 * (heard - spoken) /\ TTSAhead' = 4 + 2 * (heard - t)
      BY <2>1 DEF TTSAhead, StagesAhead
    <3>2. PICK k \in Nat, l \in Nat : k = heard /\ l = spoken
      BY <1>1
    <3>3. 4 + 2 * (k - t) <= 4 + 2 * (k - l) - 2
      BY <2>1, <3>2
    <3> QED BY <3>1, <3>2, <3>3
  <2> QED BY <1>0, <2>1, <2>2, <2>3, PartsKept, HandedOnLess
<1>7. CASE Pump
  <2>1. UNCHANGED <<done, outer, llm, emitted, tokens, fwd, ttsIn, tts, heard, spoken>>
    BY <1>7 DEF Pump, llmVars, fwdVars, ttsVars
  <2>2. PumpAhead' < PumpAhead
    <3>1. pump = "recv"
      BY <1>7 DEF Pump
    <3>2. CASE ttsOut # << >>
      <4>1. pump' = "recv" /\ Len(ttsOut') = Len(ttsOut) - 1 /\ Len(ttsOut) \in Nat
        BY <1>1, <1>7, <3>1, <3>2 DEF Pump
      <4> QED BY <3>1, <4>1 DEF PumpAhead
    <3>3. CASE ttsOut = << >>
      <4>1. pump' = "done" /\ ttsOut' = ttsOut
        BY <1>7, <3>3 DEF Pump
      <4> QED BY <3>1, <3>3, <4>1 DEF PumpAhead
    <3> QED BY <3>2, <3>3
  <2> QED BY <1>0, <2>1, <2>2, PartsKept, OnePartLess DEF PartTypes
<1> QED BY <1>2, <1>3, <1>4, <1>5, <1>6, <1>7

(* Every step brings a turn nearer to its end, whatever fails and whoever  *)
(* cancels, and how many steps it has left is a number: no goroutine of    *)
(* startTurn goes round for ever, or waits and is woken to no purpose      *)
(* (turn.go 78-170).  The longest reply counts only while the LLM streams. *)
THEOREM TurnWindsDown == Spec => [](Ahead \in Nat) /\ [][Ahead' < Ahead]_vars
<1>1. WindInv => Ahead \in Nat
  <2> SUFFICES ASSUME PartTypes PROVE Ahead \in Nat
    BY PartTypesHold
  <2> QED BY DEF PartTypes, Ahead
<1>2. WindInv /\ WindInv' /\ [Next]_vars => [Ahead' < Ahead]_vars
  <2> SUFFICES ASSUME WindInv, WindInv', Next, ~UNCHANGED vars PROVE Ahead' < Ahead
    OBVIOUS
  <2>1. ~Over
    BY DEF Over
  <2> QED BY <2>1, StageLess, ChannelLess DEF Next, LLM, Forwarder, TTS
<1> QED BY <1>1, <1>2, WindInvHolds, PTL DEF Spec

(* What one of the goroutines is ready to do: the guards of the steps that *)
(* Fairness counts on.  A stage streams on until its context is cancelled; *)
(* the TTS also as long as it is sent words, and until its input is closed. *)
Ready ==
  \/ llm \in {"fail", "cancel", "close"} \/ (llm = "stream" /\ ctxDone)
  \/ fwd = "recv" /\ (tokens # << >> \/ "tokens" \in closed)
  \/ fwd = "send" /\ (Len(ttsIn) < TokenCap \/ ctxDone)
  \/ fwd = "close" \/ tts \in {"fail", "cancel", "close"}
  \/ tts = "stream" /\ (ctxDone \/ ttsIn # << >> \/ "ttsIn" \in closed)
  \/ pump = "recv" /\ (ttsOut # << >> \/ "ttsOut" \in closed)
  \/ ~done /\ llm = "done" /\ fwd = "done" /\ tts = "done" /\ pump = "done"

(* Once the LLM or the TTS has returned, some goroutine can go on until    *)
(* done is closed: none is left in front of a full channel whose reader is *)
(* gone, or of an empty one that nobody closes (turn.go 94-104, 117-142).  *)
THEOREM TurnNeverStuck == Spec => []((\E s \in Stages : result[s] # "none") /\ ~done => Ready)
<1>1. WindInv => ((\E s \in Stages : result[s] # "none") /\ ~done => Ready)
  <2> SUFFICES ASSUME WindInv, \E s \in Stages : result[s] # "none", ~done, ~Ready PROVE FALSE
    OBVIOUS
  <2>1. TypeOK /\ InvClosed /\ InvSeen /\ InvReturned
    BY DEF WindInv, TurnInv, EndInv
  <2>2. /\ llm \in {"stream", "done"} /\ tts \in {"stream", "done"}
        /\ fwd \in {"recv", "send", "done"} /\ pump \in {"recv", "done"}
    BY <2>1 DEF TypeOK, Ready
  <2>3. llm = "done" \/ tts = "done"
    BY <2>1, <2>2 DEF InvReturned, Stages
  <2>4. tts = "done" => pump = "done"
    BY <2>1, <2>2 DEF InvClosed, Ready
  <2>5. fwd = "send" => tts = "done"
    <3>1. ASSUME fwd = "send", tts = "stream" PROVE FALSE
      <4>1. ttsIn = << >>
        BY <3>1 DEF Ready
      <4>2. Len(ttsIn) < TokenCap
        BY <4>1, TurnAssumption
      <4> QED BY <3>1, <4>2 DEF Ready
    <3> QED BY <2>2, <3>1
  <2>6. tts = "done" => fwd = "done"
    <3>1. ASSUME tts = "done", fwd # "done" PROVE FALSE
      <4>1. ctxDone
        BY <2>1, <3>1 DEF InvSeen
      <4>2. fwd = "recv" /\ llm = "done"
        BY <2>2, <3>1, <4>1 DEF Ready
      <4> QED BY <2>1, <4>2 DEF InvClosed, Ready
    <3> QED BY <3>1
  <2>7. fwd = "done"
    BY <2>1, <2>2, <2>3, <2>5, <2>6 DEF InvClosed, Ready
  <2>8. tts = "done"
    BY <2>1, <2>2, <2>7 DEF InvClosed, Ready
  <2>9. llm = "done"
    <3>1. ~ctxDone => llm = "done"
      BY <2>1, <2>7 DEF InvSeen
    <3> QED BY <2>2, <3>1 DEF Ready
  <2> QED BY <2>4, <2>7, <2>8, <2>9 DEF Ready
<1> QED BY <1>1, WindInvHolds, PTL
=============================================================================
