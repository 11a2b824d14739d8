----------------------------- MODULE FrameCodec -----------------------------
(***************************************************************************)
(* internal/transport/frame.go and wsconn.go: the wire format of a frame,  *)
(* its encoder, the decoder of a whole message (Decode), and the reader    *)
(* that takes header and payload off a message one after the other, into a *)
(* buffer of the caller's (ReadFrameInto).                                 *)
(*                                                                         *)
(* A byte is a number below Base, and fields are big-endian as in the      *)
(* code; the widths, 8, 8 and 4 there, are constants.  A message is what   *)
(* one WebSocket message holds.                                            *)
(***************************************************************************)
EXTENDS Integers, Sequences

CONSTANTS Base,                    \* 256
          SeqWidth, TsWidth, LenWidth,
          MaxPayload,
          Magic0, Magic1, Version,
          CodecFrames,             \* the frames written
          BufCaps                  \* capacities of the buffers readers bring

Byte == 0 .. Base - 1

(* The powers of the base: how many numbers fit in a field of w bytes.     *)
Pow[w \in Nat] == IF w = 0 THEN 1 ELSE Base * Pow[w - 1]

ASSUME CodecAssumption ==
  /\ Base \in Nat \ {0, 1} /\ {SeqWidth, TsWidth, LenWidth} \subseteq Nat \ {0}
  /\ MaxPayload \in Nat /\ MaxPayload < Pow[LenWidth]
  /\ {Magic0, Magic1, Version} \subseteq Byte
  /\ CodecFrames \subseteq
       [type : Byte, seq : 0 .. Pow[SeqWidth] - 1, ts : Int, payload : Seq(Byte)]
  /\ \A f \in CodecFrames : 2 * f.ts \in -Pow[TsWidth] .. Pow[TsWidth] - 1
  /\ BufCaps \subseteq Nat

VARIABLES message,  \* what arrives
          written,  \* history: the frame it was written as, or None
          rpos,     \* ReadFrameInto: "header", "payload", "probe", "done"
          head,     \* the header it decoded
          bufCap,   \* the capacity of dst
          outcome   \* the frame it returned, or an error

codecVars == <<message, written, rpos, head, bufCap, outcome>>

NoFrame == [error |-> TRUE]
HeaderSize == 4 + SeqWidth + TsWidth + LenWidth
-----------------------------------------------------------------------------
(* Big-endian digits, most significant first.                              *)
PutUint(n, width) == [i \in 1 .. width |-> (n \div Pow[width - i]) % Base]
Uint(bytes) ==
  LET upTo[i \in 0 .. Len(bytes)] == IF i = 0 THEN 0 ELSE upTo[i - 1] * Base + bytes[i]
  IN  upTo[Len(bytes)]

(* uint64(f.TsUs) and back: two's complement.                              *)
Unsigned(n, width) == n % Pow[width]
Signed(n, width) == IF 2 * n < Pow[width] THEN n ELSE n - Pow[width]

EncodeHeader(f) ==
  <<Magic0, Magic1, Version, f.type>> \o PutUint(f.seq, SeqWidth)
    \o PutUint(Unsigned(f.ts, TsWidth), TsWidth) \o PutUint(Len(f.payload), LenWidth)

(* AppendBinary writes a frame unless its payload is too large.            *)
CanEncode(f) == Len(f.payload) <= MaxPayload
Encode(f) == EncodeHeader(f) \o f.payload

(* The fields of a header, whose length may be a lie.                      *)
Field(bytes, from, width) == Uint(SubSeq(bytes, from + 1, from + width))
DecodeHeader(bytes) ==
  [type |-> bytes[4], seq |-> Field(bytes, 4, SeqWidth),
   ts |-> Signed(Field(bytes, 4 + SeqWidth, TsWidth), TsWidth),
   length |-> Field(bytes, 4 + SeqWidth + TsWidth, LenWidth)]

HeaderOK(bytes) ==
  /\ Len(bytes) >= HeaderSize
  /\ bytes[1] = Magic0 /\ bytes[2] = Magic1 /\ bytes[3] = Version
  /\ DecodeHeader(bytes).length <= MaxPayload

FrameOf(h, payload) == [type |-> h.type, seq |-> h.seq, ts |-> h.ts, payload |-> payload]

Decode(bytes) ==
  IF HeaderOK(bytes) /\ Len(bytes) = HeaderSize + DecodeHeader(bytes).length
  THEN FrameOf(DecodeHeader(bytes), SubSeq(bytes, HeaderSize + 1, Len(bytes)))
  ELSE NoFrame
-----------------------------------------------------------------------------
(* What may arrive for a frame: its encoding, that cut short or with bytes *)
(* added, or with a byte changed.                                          *)
Arrivals(f) ==
  LET m == Encode(f)
  IN  {m} \cup {SubSeq(m, 1, k) : k \in 0 .. Len(m) - 1}
          \cup {Append(m, b) : b \in Byte}
          \cup {[m EXCEPT ![i] = b] : i \in DOMAIN m, b \in Byte}

CodecInit ==
  \E f \in CodecFrames :
    /\ CanEncode(f) /\ message \in Arrivals(f)
    /\ written = IF message = Encode(f) THEN f ELSE NoFrame
    /\ rpos = "header" /\ head = NoFrame /\ bufCap \in BufCaps /\ outcome = NoFrame

(* The header is read into an array of its size; a message shorter than    *)
(* that is an error.                                                       *)
ReadHeader ==
  /\ rpos = "header"
  /\ IF HeaderOK(message)
     THEN head' = DecodeHeader(message) /\ rpos' = "payload"
     ELSE rpos' = "done" /\ UNCHANGED head
  /\ UNCHANGED <<message, written, bufCap, outcome>>

(* The payload is read into dst, which grows if it is too small.           *)
ReadPayload ==
  /\ rpos = "payload"
  /\ bufCap' = IF bufCap < head.length THEN head.length ELSE bufCap
  /\ rpos' = IF Len(message) - HeaderSize < head.length THEN "done" ELSE "probe"
  /\ UNCHANGED <<message, written, head, outcome>>

(* A mutant: what follows the payload is not looked at.                    *)
ReadProbeBlind ==
  /\ rpos = "probe" /\ rpos' = "done"
  /\ outcome' = FrameOf(head, SubSeq(message, HeaderSize + 1, HeaderSize + head.length))
  /\ UNCHANGED <<message, written, head, bufCap>>

(* Nothing may follow it.                                                  *)
ReadProbe ==
  /\ rpos = "probe" /\ rpos' = "done"
  /\ outcome' = IF Len(message) > HeaderSize + head.length THEN NoFrame
                ELSE FrameOf(head, SubSeq(message, HeaderSize + 1, HeaderSize + head.length))
  /\ UNCHANGED <<message, written, head, bufCap>>

CodecNext == ReadHeader \/ ReadPayload \/ ReadProbe

CodecSpec == CodecInit /\ [][CodecNext]_codecVars
-----------------------------------------------------------------------------
(* Both ways to read a message accept the same ones and return the same    *)
(* frame, which is the one written when the message is intact: with any    *)
(* sign of the timestamp, any fill of the payload, and any buffer, which   *)
(* never grows beyond the larger of what it was and MaxPayload.            *)
ReadersAgree ==
  rpos = "done" =>
    /\ outcome = Decode(message)
    /\ written # NoFrame => outcome = written
    /\ bufCap <= MaxPayload \/ bufCap \in BufCaps
=============================================================================
