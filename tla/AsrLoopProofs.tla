--------------------------- MODULE AsrLoopProofs ----------------------------
(***************************************************************************)
(* Proofs about AsrLoop, for every capacity and bound: who owns a buffer,  *)
(* how many there are, which final the loop hands over, and that it is the *)
(* loop Dialogue takes it for.  The inductive invariants are BufInv, with  *)
(* PoolInv on it, and FinalInv, which needs neither.                       *)
(***************************************************************************)
EXTENDS AsrLoop, TLAPS

(* What is taken from a queue, and what is left, is as the queue was.      *)
LEMMA HeadAndTail ==
  ASSUME NEW S, NEW s \in Seq(S), s # << >>
  PROVE  Head(s) \in S /\ Tail(s) \in Seq(S)
  OBVIOUS

(* A buffer put at the end of a queue that does not hold it.               *)
LEMMA AppendKeepsInjective ==
  ASSUME NEW S, NEW s \in Seq(S), NEW b \in S, IsInjective(s), b \notin Range(s)
  PROVE  /\ Append(s, b) \in Seq(S) /\ IsInjective(Append(s, b))
         /\ Range(Append(s, b)) = Range(s) \cup {b}
  <1> DEFINE t == Append(s, b)
  <1>1. /\ t \in Seq(S) /\ Len(t) = Len(s) + 1 /\ Len(s) \in Nat
        /\ \A i \in 1 .. Len(s) : t[i] = s[i]
        /\ t[Len(s) + 1] = b
    OBVIOUS
  <1>2. DOMAIN t = 1 .. Len(s) + 1 /\ DOMAIN s = 1 .. Len(s)
    BY <1>1
  <1>3. \A i \in DOMAIN t : i \in DOMAIN s \/ i = Len(s) + 1
    BY <1>1, <1>2
  <1>4. IsInjective(t)
    <2>1. \A i \in DOMAIN s : s[i] # b
      BY DEF Range
    <2>. HIDE DEF t
    <2>. QED BY <1>1, <1>2, <1>3, <2>1 DEF IsInjective
  <1>5. Range(t) = Range(s) \cup {b}
    <2>. HIDE DEF t
    <2>. QED BY <1>1, <1>2, <1>3 DEF Range
  <1>. QED BY <1>1, <1>4, <1>5

(* A buffer taken from the head of a queue.                                *)
LEMMA TailKeepsInjective ==
  ASSUME NEW S, NEW s \in Seq(S), s # << >>, IsInjective(s)
  PROVE  /\ Tail(s) \in Seq(S) /\ IsInjective(Tail(s)) /\ Head(s) \in S
         /\ Range(s) = Range(Tail(s)) \cup {Head(s)} /\ Head(s) \notin Range(Tail(s))
  <1> DEFINE t == Tail(s)
  <1>1. /\ t \in Seq(S) /\ Len(t) = Len(s) - 1 /\ Len(s) \in Nat \ {0}
        /\ \A i \in 1 .. Len(t) : t[i] = s[i + 1]
        /\ Head(s) = s[1] /\ Head(s) \in S
    OBVIOUS
  <1>2. DOMAIN t = 1 .. Len(s) - 1 /\ DOMAIN s = 1 .. Len(s)
    BY <1>1
  <1>3. \A i \in DOMAIN t : i + 1 \in DOMAIN s /\ i + 1 # 1 /\ t[i] = s[i + 1]
    BY <1>1, <1>2
  <1>4. \A j \in DOMAIN s : j = 1 \/ (j - 1 \in DOMAIN t /\ t[j - 1] = s[j])
    BY <1>1, <1>2
  <1>5. 1 \in DOMAIN s
    BY <1>1, <1>2
  <1>6. IsInjective(t)
    <2>1. \A i, j \in DOMAIN t : i + 1 = j + 1 => i = j
      BY <1>1, <1>2
    <2>. HIDE DEF t
    <2>. QED BY <1>3, <2>1 DEF IsInjective
  <1>7. Range(s) = Range(t) \cup {s[1]} /\ s[1] \notin Range(t)
    <2>. HIDE DEF t
    <2>. QED BY <1>3, <1>4, <1>5 DEF IsInjective, Range
  <1>. QED BY <1>1, <1>6, <1>7
-----------------------------------------------------------------------------
(* Put: the free list takes the buffer or drops it.                        *)
LEMMA PutKeeps ==
  ASSUME NEW b \in Bufs, free \in Seq(Bufs), IsInjective(free), b \notin Range(free), Put(b)
  PROVE  /\ free' \in Seq(Bufs) /\ IsInjective(free')
         /\ Range(free') \subseteq Range(free) \cup {b}
  <1>1. CASE free' = Append(free, b)
    BY <1>1, AppendKeepsInjective
  <1>2. CASE free' = free
    BY <1>2
  <1>. QED BY <1>1, <1>2 DEF Put

(* No buffer has the number 0.                                             *)
LEMMA ZeroIsNoBuf == 0 \notin Bufs
  BY DEF Bufs

(* Startup: every buffer of the pool is free.                              *)
LEMMA InitBufs == Init => BufInv
  <1> SUFFICES ASSUME Init PROVE BufInv
    OBVIOUS
  <1>0. PoolCap \in Nat /\ \A i \in 1 .. PoolCap : i \in Bufs
    BY AsrLoopAssumption DEF PoolCap, Bufs
  <1>1. free \in Seq(Bufs) /\ IsInjective(free) /\ Range(free) = 1 .. PoolCap
    BY <1>0 DEF Init, IsInjective, Range
  <1>2. ingress \in Seq(Bufs) /\ IsInjective(ingress) /\ Range(ingress) = {}
    BY DEF Init, IsInjective, Range
  <1>3. rbuf = 0 /\ fr = 0 /\ prev = 0 /\ using = 0 /\ rpc = "get" /\ pc = "open"
    BY DEF Init
  <1>4. 0 \notin Range(free)
    BY <1>0, <1>1
  <1>5. OneOwner
    BY <1>1, <1>2, <1>3, <1>4 DEF OneOwner
  <1>. QED BY <1>1, <1>2, <1>3, <1>5 DEF BufInv, BufTypes, KeptForAsr

(* The reader takes a buffer that nobody has, and hands it to the ring     *)
(* alone; an evicted buffer is nobody's.                                   *)
LEMMA ReaderKeepsBufs == BufInv /\ Reader => BufInv'
  <1> SUFFICES ASSUME BufInv, Reader PROVE BufInv'
    OBVIOUS
  <1> USE DEF BufInv, edgeVars, pumpVars, asrVars
  <1>1. CASE GetBuf
    <2>1. PICK b \in Bufs : Get(b) /\ rbuf' = b
      BY <1>1 DEF GetBuf
    <2>2. /\ UNCHANGED <<ingress, fr, prev, using, pc, asr>>
          /\ rpc' = "read" /\ rpc = "get" /\ rbuf = 0
      BY <1>1 DEF GetBuf, BufTypes
    <2>3. /\ free' \in Seq(Bufs) /\ IsInjective(free')
          /\ Range(free') \subseteq Range(free) /\ b \notin Range(free')
          /\ b \notin Range(ingress) /\ b \notin {fr, prev}
      <3>1. CASE free # << >>
        <4>1. b = Head(free) /\ free' = Tail(free)
          BY <2>1, <3>1 DEF Get
        <4>2. b \in Range(free)
          BY <3>1, <4>1, TailKeepsInjective DEF BufTypes, OneOwner
        <4>3. /\ free' \in Seq(Bufs) /\ IsInjective(free')
              /\ Range(free') \subseteq Range(free) /\ b \notin Range(free')
          BY <3>1, <4>1, TailKeepsInjective DEF BufTypes, OneOwner
        <4>. QED BY <4>2, <4>3 DEF OneOwner
      <3>2. CASE free = << >>
        <4>1. NewBuf(b) /\ free' = free
          BY <2>1, <3>2 DEF Get
        <4>. QED BY <4>1 DEF NewBuf, Referred, BufTypes, OneOwner
      <3>. QED BY <3>1, <3>2
    <2>4. b # 0
      BY ZeroIsNoBuf
    <2>5. BufTypes'
      BY <2>1, <2>2, <2>3, <2>4 DEF BufTypes
    <2>6. OneOwner'
      BY <2>1, <2>2, <2>3, <2>4 DEF OneOwner
    <2>7. KeptForAsr'
      BY <2>2 DEF KeptForAsr
    <2>. QED BY <2>5, <2>6, <2>7
  <1>2. CASE Signal
    BY <1>2 DEF Signal, BufTypes, OneOwner, KeptForAsr
  <1>3. CASE Push
    <2>0. UNCHANGED <<free, fr, prev, using, pc, asr>> /\ rpc' = "get" /\ rbuf' = 0 /\ rbuf # 0
      BY <1>3 DEF Push, BufTypes
    <2>1. PICK q : /\ q = (IF Len(ingress) = IngressCap THEN Tail(ingress) ELSE ingress)
                   /\ ingress' = Append(q, rbuf)
      BY <1>3 DEF Push
    <2>2. q \in Seq(Bufs) /\ IsInjective(q) /\ Range(q) \subseteq Range(ingress)
      <3>1. CASE q = ingress
        BY <3>1 DEF BufTypes, OneOwner
      <3>2. CASE q = Tail(ingress) /\ Len(ingress) = IngressCap
        <4>1. ingress # << >>
          BY <3>2, AsrLoopAssumption
        <4>. QED BY <3>2, <4>1, TailKeepsInjective DEF BufTypes, OneOwner
      <3>. QED BY <2>1, <3>1, <3>2
    <2>3. rbuf \in Bufs /\ rbuf \notin Range(q)
      BY <2>0, <2>2 DEF BufTypes, OneOwner
    <2>4. /\ ingress' \in Seq(Bufs) /\ IsInjective(ingress')
          /\ Range(ingress') = Range(q) \cup {rbuf}
      <3>1. /\ Append(q, rbuf) \in Seq(Bufs) /\ IsInjective(Append(q, rbuf))
            /\ Range(Append(q, rbuf)) = Range(q) \cup {rbuf}
        BY <2>2, <2>3, AppendKeepsInjective
      <3>. QED BY <2>1, <3>1
    <2>5. BufTypes'
      BY <2>0, <2>4 DEF BufTypes
    <2>6. 0 \notin Range(free) /\ 0 \notin Range(ingress')
      <3>1. 0 \notin Range(free)
        BY ZeroIsNoBuf DEF BufTypes, Range
      <3>2. 0 \notin Range(ingress)
        BY ZeroIsNoBuf DEF BufTypes, Range
      <3>. QED BY <2>0, <2>2, <2>4, <3>1, <3>2
    <2>7. OneOwner'
      BY <2>0, <2>2, <2>3, <2>4, <2>6 DEF OneOwner
    <2>. QED BY <2>0, <2>5, <2>7 DEF KeptForAsr
  <1>4. CASE NewReader
    <2>1. 0 \notin Range(free) /\ 0 \notin Range(ingress)
      BY ZeroIsNoBuf DEF BufTypes, Range
    <2>. QED BY <1>4, <2>1 DEF NewReader, BufTypes, OneOwner, KeptForAsr
  <1>. QED BY <1>1, <1>2, <1>3, <1>4 DEF Reader
(* The loop gives back the frame before the one the ASR has just taken,    *)
(* the frame in hand that it did not take, or the last one when the ASR    *)
(* has returned: never the one the ASR reads.                              *)
LEMMA LoopKeepsBufs == BufInv /\ Loop => BufInv'
  <1> SUFFICES ASSUME BufInv, Loop PROVE BufInv'
    OBVIOUS
  <1> USE DEF BufInv, edgeVars, pumpVars, asrVars, readerVars
  <1>0. 0 \notin Range(free) /\ 0 \notin Range(ingress)
    BY ZeroIsNoBuf DEF BufTypes, Range
  <1>1. CASE Open
    BY <1>0, <1>1 DEF Open, BufTypes, OneOwner, KeptForAsr
  <1>2. CASE Pop
    <2>1. CASE ingress # << >> /\ fr' = Head(ingress) /\ ingress' = Tail(ingress) /\ pc' = "give"
      <3>1. UNCHANGED <<rpc, rbuf, free, prev, using, asr>> /\ pc = "pop" /\ fr = 0
        BY <1>2 DEF Pop, BufTypes
      <3>2. /\ ingress' \in Seq(Bufs) /\ IsInjective(ingress') /\ fr' \in Bufs
            /\ fr' \in Range(ingress) /\ Range(ingress') \subseteq Range(ingress)
            /\ fr' \notin Range(ingress')
        BY <2>1, TailKeepsInjective DEF BufTypes, OneOwner
      <3>3. BufTypes'
        BY <2>1, <3>1, <3>2, ZeroIsNoBuf DEF BufTypes
      <3>4. OneOwner'
        BY <3>1, <3>2 DEF OneOwner
      <3>. QED BY <2>1, <3>1, <3>3, <3>4 DEF KeptForAsr
    <2>2. CASE pc' = "wait" /\ UNCHANGED <<fr, ingress>>
      BY <1>2, <2>2 DEF Pop, BufTypes, OneOwner, KeptForAsr
    <2>. QED BY <1>2, <2>1, <2>2 DEF Pop
  <1>3. CASE Wait
    BY <1>3 DEF Wait, BufTypes, OneOwner, KeptForAsr
  <1>4. CASE Give
    BY <1>4 DEF Give, BufTypes, OneOwner, KeptForAsr
  <1>5. CASE GiveUp
    BY <1>5 DEF GiveUp, BufTypes, OneOwner, KeptForAsr
  <1>6. CASE Recycle
    <2>1. UNCHANGED <<rpc, rbuf, ingress, using, asr>> /\ prev' = fr /\ fr' = 0
          /\ pc = "put" /\ pc' = "pop" /\ fr # 0
      BY <1>6 DEF Recycle, BufTypes
    <2>2. /\ free' \in Seq(Bufs) /\ IsInjective(free')
          /\ Range(free') \subseteq Range(free) \cup ({prev} \ {0})
      <3>1. CASE prev # 0
        <4>1. prev \in Bufs /\ prev \notin Range(free) /\ Put(prev)
          BY <1>6, <3>1 DEF Recycle, BufTypes, OneOwner
        <4>. QED BY <3>1, <4>1, PutKeeps DEF BufTypes, OneOwner
      <3>2. CASE prev = 0
        BY <1>6, <3>2 DEF Recycle, BufTypes, OneOwner
      <3>. QED BY <3>1, <3>2
    <2>3. BufTypes'
      BY <2>1, <2>2 DEF BufTypes
    <2>4. Range(ingress') = Range(ingress)
      BY <2>1
    <2>5. OneOwner'
      BY <1>0, <2>1, <2>2, <2>4 DEF OneOwner
    <2>. QED BY <2>1, <2>3, <2>5 DEF KeptForAsr
  <1>7. CASE Drop
    <2>1. UNCHANGED <<rpc, rbuf, ingress, using, asr, prev>> /\ fr' = 0
          /\ pc = "drop" /\ pc' = "close" /\ fr # 0 /\ Put(fr)
      BY <1>7 DEF Drop, BufTypes
    <2>2. /\ free' \in Seq(Bufs) /\ IsInjective(free')
          /\ Range(free') \subseteq Range(free) \cup {fr}
      <3>1. fr \in Bufs /\ fr \notin Range(free)
        BY <2>1 DEF BufTypes, OneOwner
      <3>. QED BY <2>1, <3>1, PutKeeps DEF BufTypes, OneOwner
    <2>3. BufTypes'
      BY <2>1, <2>2 DEF BufTypes
    <2>4. Range(ingress') = Range(ingress)
      BY <2>1
    <2>5. OneOwner'
      BY <1>0, <2>1, <2>2, <2>4 DEF OneOwner
    <2>. QED BY <2>1, <2>3, <2>5 DEF KeptForAsr
  <1>8. CASE CloseIn
    BY <1>8 DEF CloseIn, BufTypes, OneOwner, KeptForAsr
  <1>9. CASE AwaitStream
    BY <1>9 DEF AwaitStream, BufTypes, OneOwner, KeptForAsr
  <1>10. CASE RecycleLast
    <2>1. UNCHANGED <<rpc, rbuf, ingress, using, asr, fr>> /\ prev' = 0
          /\ pc = "recycle" /\ pc' = "boundary" /\ using = 0
      BY <1>10 DEF RecycleLast, KeptForAsr
    <2>2. /\ free' \in Seq(Bufs) /\ IsInjective(free')
          /\ Range(free') \subseteq Range(free) \cup ({prev} \ {0})
      <3>1. CASE prev # 0
        <4>1. prev \in Bufs /\ prev \notin Range(free) /\ Put(prev)
          BY <1>10, <3>1 DEF RecycleLast, BufTypes, OneOwner
        <4>. QED BY <3>1, <4>1, PutKeeps DEF BufTypes, OneOwner
      <3>2. CASE prev = 0
        BY <1>10, <3>2 DEF RecycleLast, BufTypes, OneOwner
      <3>. QED BY <3>1, <3>2
    <2>3. BufTypes' /\ fr = 0
      BY <2>1, <2>2 DEF BufTypes
    <2>4. Range(ingress') = Range(ingress)
      BY <2>1
    <2>5. OneOwner'
      BY <1>0, <2>1, <2>2, <2>3, <2>4 DEF OneOwner
    <2>. QED BY <2>1, <2>3, <2>5 DEF KeptForAsr
  <1>11. CASE Boundary
    BY <1>11 DEF Boundary, BufTypes, OneOwner, KeptForAsr
  <1>12. CASE HandOver
    BY <1>12 DEF HandOver, BufTypes, OneOwner, KeptForAsr
  <1>13. CASE Stop
    BY <1>13 DEF Stop, BufTypes, OneOwner, KeptForAsr
  <1>. QED
    BY <1>1, <1>2, <1>3, <1>4, <1>5, <1>6, <1>7, <1>8, <1>9, <1>10, <1>11, <1>12, <1>13
       DEF Loop
(* Only the end of its reading changes what the ASR has; the others touch  *)
(* no buffer.                                                              *)
LEMMA OthersKeepBufs ==
  BufInv /\ (Asr \/ Collect \/ TakeFinal \/ CancelSession \/ UNCHANGED vars) => BufInv'
  <1> SUFFICES ASSUME BufInv, Asr \/ Collect \/ TakeFinal \/ CancelSession \/ UNCHANGED vars
               PROVE  BufInv'
    OBVIOUS
  <1> USE DEF BufInv, edgeVars, pumpVars, asrVars, readerVars
  <1>1. CASE AsrNext
    BY <1>1 DEF AsrNext, BufTypes, OneOwner, KeptForAsr
  <1>2. CASE AfterStream
    BY <1>2 DEF AfterStream, BufTypes, OneOwner, KeptForAsr
  <1>3. CASE \E tr \in Transcripts : Emit(tr)
    <2>1. asr' \in {"ended", asr} /\ asr # "returned"
          /\ (asr' = "ended" => asr = "tail")
      BY <1>3 DEF Emit, InStream
    <2>2. UNCHANGED <<rpc, rbuf, free, ingress, pc, fr, prev, using>>
      BY <1>3 DEF Emit
    <2>. QED BY <2>1, <2>2 DEF BufTypes, OneOwner, KeptForAsr
  <1>4. CASE \E e \in {"error", "canceled"} : AsrReturns(e)
    BY <1>4 DEF AsrReturns, InStream, BufTypes, OneOwner, KeptForAsr
  <1>5. CASE Collect
    BY <1>5 DEF Collect, BufTypes, OneOwner, KeptForAsr
  <1>6. CASE TakeFinal
    BY <1>6 DEF TakeFinal, BufTypes, OneOwner, KeptForAsr
  <1>7. CASE CancelSession
    BY <1>7 DEF CancelSession, BufTypes, OneOwner, KeptForAsr
  <1>8. CASE UNCHANGED vars
    BY <1>8 DEF vars, BufTypes, OneOwner, KeptForAsr
  <1>. QED BY <1>1, <1>2, <1>3, <1>4, <1>5, <1>6, <1>7, <1>8 DEF Asr

(* The ownership of buffers is inductive.                                  *)
THEOREM AsrLoopBuffers == Spec => []BufInv
  <1>1. BufInv /\ [Next]_vars => BufInv'
    BY ReaderKeepsBufs, LoopKeepsBufs, OthersKeepBufs DEF Next
  <1>. QED BY <1>1, InitBufs, PTL DEF Spec

(* A buffer has one owner, whatever the capacities and the order of steps  *)
(* of reader, pump and ASR (pool.go, session.go readLoop), and the one the *)
(* ASR reads is never free or with the reader: the return of in <- f       *)
(* (pipeline.go) is a safe sign that the frame before it is done with.     *)
THEOREM AsrLoopBuffersApart == Spec => []BuffersApart
  <1>1. BufInv => OneOwner
    BY DEF BufInv
  <1>2. BufInv => NotReusedYet
    <2> SUFFICES ASSUME BufInv, using # 0 PROVE using # rbuf /\ using \notin Range(free)
      BY DEF NotReusedYet
    <2>1. using \in {fr, prev}
      BY DEF BufInv, KeptForAsr
    <2>. QED BY <2>1 DEF BufInv, OneOwner
  <1>3. BufInv => BuffersApart
    BY <1>1, <1>2 DEF BuffersApart
  <1>. QED BY <1>3, AsrLoopBuffers, PTL
-----------------------------------------------------------------------------
(* How many buffers there are: only a miss makes one more, and then the    *)
(* pool is empty and the reader has none.                                  *)
PoolInv == Len(ingress) <= IngressCap /\ BuffersBounded

Most == PoolCap + (IF IngressCap = 2 THEN 1 ELSE 0)
One(b) == IF b = 0 THEN 0 ELSE 1

LEMMA Counts ==
  ASSUME BufTypes
  PROVE  /\ Len(free) \in Nat /\ Len(ingress) \in Nat
         /\ One(rbuf) \in {0, 1} /\ One(fr) \in {0, 1} /\ One(prev) \in {0, 1}
         /\ InExistence = Len(free) + Len(ingress) + One(rbuf) + One(fr) + One(prev)
         /\ Most \in Nat /\ IngressCap + 3 <= Most /\ IngressCap \in Nat \ {0, 1}
BY AsrLoopAssumption DEF BufTypes, InExistence, One, Most, PoolCap

(* Put adds one at most.                                                   *)
LEMMA PutCounts ==
  ASSUME NEW b, Put(b), free \in Seq(Bufs), b \in Bufs
  PROVE  Len(free') <= Len(free) + 1 /\ Len(free') \in Nat
BY DEF Put

LEMMA PoolStep ==
  ASSUME BufInv, BufInv', PoolInv, [Next]_vars
  PROVE  PoolInv'
<1>1. PICK F \in Nat, G \in Nat, R \in {0, 1}, H \in {0, 1}, P \in {0, 1} :
        /\ Len(free) = F /\ Len(ingress) = G /\ One(rbuf) = R /\ One(fr) = H /\ One(prev) = P
        /\ InExistence = F + G + R + H + P
  BY Counts DEF BufInv
<1>2. PICK f \in Nat, g \in Nat, r \in {0, 1}, h \in {0, 1}, p \in {0, 1} :
        /\ Len(free') = f /\ Len(ingress') = g /\ One(rbuf') = r /\ One(fr') = h /\ One(prev') = p
        /\ InExistence' = f + g + r + h + p
  <2>1. /\ Len(free') \in Nat /\ Len(ingress') \in Nat
        /\ One(rbuf') \in {0, 1} /\ One(fr') \in {0, 1} /\ One(prev') \in {0, 1}
    BY DEF BufInv, BufTypes, One
  <2>2. InExistence' = Len(free') + Len(ingress') + One(rbuf') + One(fr') + One(prev')
    BY DEF InExistence, One
  <2> QED BY <2>1, <2>2
<1>3. PICK M \in Nat : M = Most /\ IngressCap + 3 <= M /\ IngressCap \in Nat \ {0, 1}
  BY Counts DEF BufInv
<1>n. /\ F \in Nat /\ G \in Nat /\ R \in Nat /\ H \in Nat /\ P \in Nat /\ M \in Nat
      /\ f \in Nat /\ g \in Nat /\ r <= 1 /\ h <= 1 /\ p <= 1
      /\ IngressCap \in Nat /\ IngressCap + 3 <= M
      /\ G <= IngressCap /\ F + G + R + H + P <= M
  BY <1>1, <1>3 DEF PoolInv, BuffersBounded, Most
<1>4. SUFFICES g <= IngressCap /\ f + g + r + h + p <= M
  BY <1>2, <1>3 DEF PoolInv, BuffersBounded, Most
<1>5. /\ free \in Seq(Bufs) /\ ingress \in Seq(Bufs) /\ (rbuf # 0 <=> rpc # "get")
      /\ fr # 0 <=> pc \in {"give", "put", "drop"}
      /\ {rbuf, fr, prev} \subseteq Bufs \cup {0} /\ 0 \notin Bufs
  BY ZeroIsNoBuf DEF BufInv, BufTypes
<1> DEFINE same == UNCHANGED <<free, ingress, rbuf, fr, prev>>
<1>6. CASE same
  <2>1. f = F /\ g = G /\ r = R /\ h = H /\ p = P
    BY <1>1, <1>2, <1>6
  <2> QED BY ONLY <1>n, <2>1
<1>7. CASE GetBuf
  <2>1. PICK b \in Bufs : Get(b) /\ rbuf' = b
    BY <1>7 DEF GetBuf
  <2>2. UNCHANGED <<ingress, fr, prev>> /\ rbuf = 0
    <3>1. UNCHANGED <<ingress, fr, prev>> /\ rpc = "get"
      BY <1>7 DEF GetBuf, edgeVars, pumpVars
    <3> QED BY <1>5, <3>1
  <2>3. R = 0 /\ g = G /\ h = H /\ p = P
    BY <1>1, <1>2, <2>2 DEF One
  <2>4. CASE free # << >>
    <3>1. f = F - 1
      BY <1>1, <1>2, <1>5, <2>1, <2>4 DEF Get
    <3> QED BY ONLY <1>n, <2>3, <3>1
  <2>5. CASE free = << >>
    <3>1. f = 0
      BY <1>2, <2>1, <2>5 DEF Get
    <3>2. H <= 1 /\ P <= 1
      BY <1>1
    <3> QED BY ONLY <1>n, <2>3, <3>1, <3>2
  <2> QED BY <2>4, <2>5
<1>8. CASE Push
  <2>1. /\ UNCHANGED <<free, fr, prev>> /\ rbuf' = 0 /\ rbuf \in Bufs
        /\ ingress' = Append(IF Len(ingress) = IngressCap THEN Tail(ingress) ELSE ingress, rbuf)
    BY <1>5, <1>8 DEF Push, pumpVars
  <2>2. R = 1 /\ r = 0 /\ f = F /\ h = H /\ p = P
    BY <1>1, <1>2, <1>5, <2>1 DEF One
  <2>3. g = (IF G = IngressCap THEN G ELSE G + 1)
    <3>1. CASE Len(ingress) = IngressCap
      <4>1. ingress # << >> /\ ingress' = Append(Tail(ingress), rbuf)
        BY <1>3, <2>1, <3>1
      <4> DEFINE t == Tail(ingress)
      <4>2. t \in Seq(Bufs) /\ Len(t) = Len(ingress) - 1
        BY <1>5, <4>1
      <4>3. ingress' = Append(t, rbuf)
        BY <4>1
      <4> HIDE DEF t
      <4>4. Len(ingress') = Len(t) + 1
        BY <2>1, <4>2, <4>3
      <4>5. g = (G - 1) + 1 /\ G = IngressCap
        BY <1>1, <1>2, <3>1, <4>2, <4>4
      <4> QED BY ONLY <1>n, <4>5
    <3>2. CASE Len(ingress) # IngressCap
      <4>1. Len(ingress') = Len(ingress) + 1
        BY <1>5, <2>1, <3>2
      <4> QED BY <1>1, <1>2, <3>2, <4>1
    <3> QED BY <3>1, <3>2
  <2> QED BY ONLY <1>n, <2>2, <2>3
<1>9. CASE NewReader
  <2>1. UNCHANGED <<free, ingress, fr, prev>> /\ rbuf' = 0
    BY <1>9 DEF NewReader, edgeVars, pumpVars
  <2>2. r = 0 /\ f = F /\ g = G /\ h = H /\ p = P
    BY <1>1, <1>2, <2>1 DEF One
  <2> QED BY ONLY <1>n, <2>2
<1>10. CASE Open
  <2>1. UNCHANGED <<free, ingress, rbuf, fr>> /\ prev' = 0
    BY <1>10 DEF Open, readerVars, edgeVars
  <2>2. p = 0 /\ f = F /\ g = G /\ h = H /\ r = R
    BY <1>1, <1>2, <2>1 DEF One
  <2> QED BY ONLY <1>n, <2>2
<1>11. CASE Pop /\ ingress # << >>
  <2>1. UNCHANGED <<free, rbuf, prev>> /\ ingress' = Tail(ingress)
    BY <1>11 DEF Pop, readerVars
  <2>2. f = F /\ r = R /\ p = P
    BY <1>1, <1>2, <2>1
  <2>3. g = G - 1
    BY <1>1, <1>2, <1>5, <1>11, <2>1
  <2> QED BY ONLY <1>n, <2>2, <2>3
<1>12. CASE Recycle
  <2>1. /\ UNCHANGED <<ingress, rbuf>> /\ prev' = fr /\ fr' = 0 /\ fr # 0
        /\ IF prev # 0 THEN Put(prev) ELSE UNCHANGED free
    BY <1>5, <1>12 DEF Recycle, readerVars, edgeVars
  <2>2. r = R /\ g = G /\ h = 0 /\ p = 1 /\ H = 1
    BY <1>1, <1>2, <2>1 DEF One
  <2>3. f <= F + P
    <3>1. CASE prev # 0
      <4>1. prev \in Bufs /\ Put(prev) /\ P = 1
        BY <1>1, <1>5, <2>1, <3>1 DEF One
      <4>2. Len(free') <= Len(free) + 1
        BY <1>5, <4>1, PutCounts
      <4> QED BY <1>1, <1>2, <4>1, <4>2
    <3>2. CASE prev = 0
      BY <1>1, <1>2, <2>1, <3>2
    <3> QED BY <3>1, <3>2
  <2> QED BY ONLY <1>n, <2>2, <2>3
<1>13. CASE Drop
  <2>1. UNCHANGED <<ingress, rbuf, prev>> /\ fr' = 0 /\ fr # 0 /\ Put(fr)
    BY <1>5, <1>13 DEF Drop, readerVars, edgeVars
  <2>2. r = R /\ g = G /\ h = 0 /\ p = P /\ H = 1
    BY <1>1, <1>2, <2>1 DEF One
  <2>3. f <= F + 1
    <3>1. fr \in Bufs
      BY <1>5, <2>1
    <3>2. Len(free') <= Len(free) + 1
      BY <1>5, <2>1, <3>1, PutCounts
    <3> QED BY <1>1, <1>2, <3>2
  <2> QED BY ONLY <1>n, <2>2, <2>3
<1>14. CASE RecycleLast
  <2>1. /\ UNCHANGED <<ingress, rbuf, fr>> /\ prev' = 0
        /\ IF prev # 0 THEN Put(prev) ELSE UNCHANGED free
    BY <1>14 DEF RecycleLast, readerVars, edgeVars
  <2>2. r = R /\ g = G /\ h = H /\ p = 0
    BY <1>1, <1>2, <2>1 DEF One
  <2>3. f <= F + P
    <3>1. CASE prev # 0
      <4>1. prev \in Bufs /\ Put(prev) /\ P = 1
        BY <1>1, <1>5, <2>1, <3>1 DEF One
      <4>2. Len(free') <= Len(free) + 1
        BY <1>5, <4>1, PutCounts
      <4> QED BY <1>1, <1>2, <4>1, <4>2
    <3>2. CASE prev = 0
      BY <1>1, <1>2, <2>1, <3>2
    <3> QED BY <3>1, <3>2
  <2> QED BY ONLY <1>n, <2>2, <2>3
<1>15. CASE Signal \/ (Pop /\ ingress = << >>) \/ Wait \/ Give \/ GiveUp \/ CloseIn \/ AwaitStream
  BY <1>6, <1>15 DEF Signal, Pop, Wait, Give, GiveUp, CloseIn, AwaitStream, edgeVars, pumpVars,
                     readerVars
<1>16. CASE Boundary \/ HandOver \/ Stop \/ Asr \/ Collect
  BY <1>6, <1>16 DEF Boundary, HandOver, Stop, Asr, AsrNext, AfterStream, Emit, AsrReturns,
                     Collect, edgeVars, pumpVars, readerVars
<1>17. CASE TakeFinal \/ CancelSession \/ UNCHANGED vars
  BY <1>6, <1>17 DEF TakeFinal, CancelSession, vars, edgeVars, pumpVars, readerVars
<1> QED BY <1>7, <1>8, <1>9, <1>10, <1>11, <1>12, <1>13, <1>14, <1>15, <1>16, <1>17
    DEF Next, Reader, Loop

LEMMA PoolInvHolds == Spec => [](BufInv /\ PoolInv)
<1>1. Init => PoolInv
  <2> SUFFICES ASSUME Init PROVE PoolInv
    OBVIOUS
  <2>1. PoolCap \in Nat /\ IngressCap \in Nat
    BY AsrLoopAssumption DEF PoolCap
  <2>2. Len(free) = PoolCap /\ Len(ingress) = 0
    BY <2>1 DEF Init
  <2>3. rbuf = 0 /\ fr = 0 /\ prev = 0
    BY DEF Init
  <2> QED BY <2>1, <2>2, <2>3 DEF PoolInv, BuffersBounded, InExistence
<1>2. BufInv /\ PoolInv /\ [Next]_vars => BufInv' /\ PoolInv'
  BY PoolStep, ReaderKeepsBufs, LoopKeepsBufs, OthersKeepBufs DEF Next
<1> QED BY <1>1, <1>2, InitBufs, PTL DEF Spec

(* The buffers that exist are bounded by the count the pool was made with, *)
(* one more with the smallest ring (session.go 84, pool.go 35-51).         *)
THEOREM AsrLoopBuffersBounded == Spec => []BuffersBounded
<1>1. PoolInv => BuffersBounded
  BY DEF PoolInv
<1> QED BY <1>1, PoolInvHolds, PTL

(* Put is called with a buffer in hand.                                    *)
PutHasRoom ==
  IngressCap > 2 /\ (pc = "drop" \/ (pc \in {"put", "recycle"} /\ prev # 0)) =>
    Len(free) < PoolCap

(* So Put, of the frame before, the frame given up or the last one, finds  *)
(* the pool with room for it, with any ring but the smallest: nothing is   *)
(* left to the garbage collector (pool.go 12-13, 44-51).                   *)
THEOREM AsrLoopPutHasRoom == Spec => []PutHasRoom
<1>1. BufInv /\ PoolInv => PutHasRoom
  <2> SUFFICES ASSUME BufInv, PoolInv, IngressCap > 2,
                      pc = "drop" \/ (pc \in {"put", "recycle"} /\ prev # 0)
               PROVE  Len(free) < PoolCap
    BY DEF PutHasRoom
  <2>1. /\ Len(free) \in Nat /\ Len(ingress) \in Nat
        /\ One(rbuf) \in {0, 1} /\ One(fr) \in {0, 1} /\ One(prev) \in {0, 1}
        /\ InExistence = Len(free) + Len(ingress) + One(rbuf) + One(fr) + One(prev)
    BY Counts DEF BufInv
  <2>2. InExistence <= PoolCap /\ PoolCap \in Nat
    BY AsrLoopAssumption DEF PoolInv, BuffersBounded, PoolCap
  <2>3. One(fr) = 1 \/ One(prev) = 1
    BY DEF BufInv, BufTypes, One
  <2> QED BY <2>1, <2>2, <2>3
<1> QED BY <1>1, PoolInvHolds, PTL
-----------------------------------------------------------------------------
(* Startup: no stream, no transcript.                                      *)
LEMMA InitFinal == Init => FinalInv
  BY DEF Init, FinalInv, NoFinal, FinalOfThisStream

(* The goroutine of the stream sends its final last.                       *)
LEMMA AsrKeepsFinal == FinalInv /\ Asr => FinalInv'
  <1> SUFFICES ASSUME FinalInv, Asr PROVE FinalInv'
    OBVIOUS
  <1> USE DEF FinalInv, FinalOfThisStream, pumpVars, colVars
  <1>1. CASE AsrNext
    BY <1>1 DEF AsrNext, NoFinal
  <1>2. CASE AfterStream
    BY <1>2 DEF AfterStream, NoFinal, FinalLast
  <1>3. CASE \E tr \in Transcripts : Emit(tr)
    <2>1. PICK tr \in Transcripts : Emit(tr)
      BY <1>3
    <2>2. tr \in [final : BOOLEAN, text : Nat]
      <3>1. 0 \in Nat /\ stream \in Nat
        OBVIOUS
      <3>2. Finals \subseteq [final : BOOLEAN, text : Nat]
        BY <3>1 DEF Finals
      <3>3. [final |-> FALSE, text |-> 0] \in [final : BOOLEAN, text : Nat]
        OBVIOUS
      <3>. QED BY <3>2, <3>3 DEF Transcripts
    <2>. QED BY <2>1, <2>2 DEF Emit, InStream, NoFinal, FinalLast
  <1>4. CASE \E e \in {"error", "canceled"} : AsrReturns(e)
    BY <1>4 DEF AsrReturns, InStream, NoFinal
  <1>. QED BY <1>1, <1>2, <1>3, <1>4 DEF Asr
(* The collector takes the transcripts in order, so the final last.        *)
LEMMA CollectKeepsFinal == FinalInv /\ Collect => FinalInv'
  <1> SUFFICES ASSUME FinalInv, Collect PROVE FinalInv'
    OBVIOUS
  <1> USE DEF FinalInv, FinalOfThisStream
  <1>0. UNCHANGED <<pc, asr, emitted, stream, heard>> /\ col = "run"
    BY DEF Collect, pumpVars, asrVars
  <1>1. CASE out # << >> /\ out' = Tail(out) /\ col' = col
             /\ final' = IF Head(out).final THEN Head(out).text ELSE final
    <2>1. /\ out' \in Seq([final : BOOLEAN, text : Nat]) /\ Len(out') = Len(out) - 1
          /\ Len(out) \in Nat \ {0} /\ Head(out) = out[1] /\ DOMAIN out = 1 .. Len(out)
          /\ DOMAIN out' = 1 .. Len(out) - 1
          /\ \A i \in 1 .. Len(out) - 1 : out'[i] = out[i + 1]
      BY <1>1
    <2>2. CASE NoFinal(out) /\ final = emitted
      <3>1. ~ Head(out).final /\ 1 \in DOMAIN out
        BY <2>1, <2>2 DEF NoFinal
      <3>2. NoFinal(out')
        <4>1. \A i \in 1 .. Len(out) - 1 : i + 1 \in DOMAIN out
          BY <2>1
        <4>. QED BY <2>1, <2>2, <4>1 DEF NoFinal
      <3>. QED BY <1>0, <1>1, <2>1, <2>2, <3>1, <3>2
    <2>3. CASE FinalLast(out) /\ asr \in {"ended", "returned"}
      <3>1. CASE Len(out) = 1
        <4>1. final' = emitted /\ out' = << >>
          BY <1>1, <2>1, <2>3, <3>1 DEF FinalLast
        <4>. QED BY <1>0, <1>1, <2>1, <2>3, <4>1 DEF NoFinal
      <3>2. CASE Len(out) # 1
        <4>1. Len(out') > 0 /\ out'[Len(out')] = out[Len(out)]
          BY <2>1, <3>2
        <4>2. \A i \in 1 .. Len(out') - 1 : out'[i] = out[i + 1] /\ i + 1 \in 1 .. Len(out) - 1
          BY <2>1
        <4>3. \A i \in 1 .. Len(out') - 1 : ~ out'[i].final
          BY <2>3, <4>2 DEF FinalLast
        <4>4. out'[Len(out')].final /\ out'[Len(out')].text = emitted'
          BY <1>0, <2>3, <4>1 DEF FinalLast
        <4>5. FinalLast(out)'
          BY <4>1, <4>3, <4>4 DEF FinalLast
        <4>6. asr' = asr /\ col' = "run" /\ pc' = pc /\ heard' = heard /\ emitted' = emitted
              /\ stream' = stream
          BY <1>0, <1>1
        <4>. QED BY <2>1, <2>3, <4>5, <4>6
      <3>. QED BY <3>1, <3>2
    <2>. QED BY <2>2, <2>3
  <1>2. CASE out = << >> /\ asr = "returned" /\ col' = "done" /\ UNCHANGED <<final, out>>
    BY <1>0, <1>2 DEF NoFinal, FinalLast
  <1>. QED BY <1>1, <1>2 DEF Collect

(* The loop reads final when the collector is done, and out then is empty. *)
LEMMA LoopKeepsFinal == FinalInv /\ Loop => FinalInv'
  <1> SUFFICES ASSUME FinalInv, Loop PROVE FinalInv'
    OBVIOUS
  <1> USE DEF FinalInv, FinalOfThisStream, asrVars, colVars
  <1>1. CASE Open
    BY <1>1 DEF Open, NoFinal
  <1>2. CASE Pop
    BY <1>2 DEF Pop, NoFinal, FinalLast
  <1>3. CASE Wait
    BY <1>3 DEF Wait, NoFinal, FinalLast
  <1>4. CASE Give
    BY <1>4 DEF Give, NoFinal, FinalLast
  <1>5. CASE GiveUp
    BY <1>5 DEF GiveUp, NoFinal, FinalLast
  <1>6. CASE Recycle
    BY <1>6 DEF Recycle, NoFinal, FinalLast
  <1>7. CASE Drop
    BY <1>7 DEF Drop, NoFinal, FinalLast
  <1>8. CASE CloseIn
    BY <1>8 DEF CloseIn, NoFinal, FinalLast
  <1>9. CASE AwaitStream
    BY <1>9 DEF AwaitStream, NoFinal, FinalLast
  <1>10. CASE RecycleLast
    BY <1>10 DEF RecycleLast, NoFinal, FinalLast
  <1>11. CASE Boundary
    <2>1. final = emitted
      BY <1>11 DEF Boundary, FinalLast
    <2>. QED BY <1>11, <2>1 DEF Boundary, NoFinal, FinalLast
  <1>12. CASE HandOver
    BY <1>12 DEF HandOver, NoFinal, FinalLast
  <1>13. CASE Stop
    BY <1>13 DEF Stop, NoFinal, FinalLast
  <1>. QED
    BY <1>1, <1>2, <1>3, <1>4, <1>5, <1>6, <1>7, <1>8, <1>9, <1>10, <1>11, <1>12, <1>13
       DEF Loop

(* The reader, the orchestrator and the session leave the stream alone.    *)
LEMMA OthersKeepFinal ==
  FinalInv /\ (Reader \/ TakeFinal \/ CancelSession \/ UNCHANGED vars) => FinalInv'
  <1> SUFFICES ASSUME FinalInv, Reader \/ TakeFinal \/ CancelSession \/ UNCHANGED vars
               PROVE  FinalInv'
    OBVIOUS
  <1>1. UNCHANGED <<pc, asr, emitted, stream, out, col, final, heard>>
    BY DEF Reader, GetBuf, Signal, Push, NewReader, TakeFinal, CancelSession, vars,
           pumpVars, asrVars, colVars
  <1>. QED BY <1>1 DEF FinalInv, FinalOfThisStream, NoFinal, FinalLast

(* The final that is handed over is the last the stream produced, for any  *)
(* capacity of out and any order of stream, collector and loop             *)
(* (pipeline.go 300-302: the stream's result, then <-collected).           *)
THEOREM AsrLoopFinal == Spec => []FinalOfThisStream
  <1>1. FinalInv /\ [Next]_vars => FinalInv'
    BY AsrKeepsFinal, CollectKeepsFinal, LoopKeepsFinal, OthersKeepFinal DEF Next
  <1>2. FinalInv => FinalOfThisStream
    BY DEF FinalInv
  <1>. QED BY <1>1, <1>2, InitFinal, PTL DEF Spec
-----------------------------------------------------------------------------
(* Every step keeps EndInv.                                                *)
LEMMA EndStep == EndInv /\ [Next]_vars => EndInv'
  <1> SUFFICES ASSUME EndInv, [Next]_vars PROVE EndInv'
    OBVIOUS
  <1> USE DEF EndInv
  <1>1. CASE Reader \/ CancelSession \/ UNCHANGED vars
    <2>1. /\ UNCHANGED <<pc, endAt, heard, finals, stream, final, out>>
          /\ ctxDone' = TRUE \/ ctxDone' = ctxDone
      BY <1>1 DEF Reader, GetBuf, Signal, Push, NewReader, CancelSession, vars, pumpVars,
                  colVars
    <2>. QED BY <2>1
  <1>2. CASE TakeFinal
    BY <1>2 DEF TakeFinal, pumpVars, colVars
  <1>3. CASE Asr
    <2>1. UNCHANGED <<endAt, ctxDone, heard, finals, stream, final, pc>>
      BY <1>3 DEF Asr, AsrNext, AfterStream, Emit, AsrReturns, pumpVars, colVars
    <2>2. out' \in Seq([final : BOOLEAN, text : Nat])
      <3>1. CASE \E tr \in Transcripts : Emit(tr)
        <4>1. PICK tr \in Transcripts : Emit(tr)
          BY <3>1
        <4>2. tr \in [final : BOOLEAN, text : Nat]
          <5>1. 0 \in Nat /\ stream \in Nat
            OBVIOUS
          <5>2. Finals \subseteq [final : BOOLEAN, text : Nat]
            BY <5>1 DEF Finals
          <5>3. [final |-> FALSE, text |-> 0] \in [final : BOOLEAN, text : Nat]
            OBVIOUS
          <5>. QED BY <5>2, <5>3 DEF Transcripts
        <4>. QED BY <4>1, <4>2 DEF Emit
      <3>2. CASE AsrNext \/ AfterStream \/ \E e \in {"error", "canceled"} : AsrReturns(e)
        BY <3>2 DEF AsrNext, AfterStream, AsrReturns
      <3>. QED BY <1>3, <3>1, <3>2 DEF Asr
    <2>. QED BY <2>1, <2>2
  <1>4. CASE Collect
    <2>1. UNCHANGED <<endAt, ctxDone, heard, finals, stream, pc>>
      BY <1>4 DEF Collect, pumpVars, asrVars
    <2>2. final' \in Nat /\ out' \in Seq([final : BOOLEAN, text : Nat])
      <3>1. out # << >> => Head(out) \in [final : BOOLEAN, text : Nat]
                           /\ Tail(out) \in Seq([final : BOOLEAN, text : Nat])
        BY HeadAndTail
      <3>. QED BY <1>4, <3>1 DEF Collect
    <2>. QED BY <2>1, <2>2
  <1>5. CASE Loop
    <2> USE DEF pumpVars, colVars
    <2>1. CASE Open
      <3>1. /\ pc' = "pop" /\ endAt' = FALSE /\ UNCHANGED <<ctxDone, heard, finals>>
            /\ stream' = stream + 1 /\ final' = 0 /\ out' = << >>
        BY <2>1 DEF Open
      <3>2. stream' \in Nat /\ final' \in Nat
        BY <3>1
      <3>3. out' \in Seq([final : BOOLEAN, text : Nat])
        BY <3>1
      <3>4. endAt' \in BOOLEAN /\ ~endAt' /\ ctxDone' \in BOOLEAN
        BY <3>1
      <3>. QED BY <3>1, <3>2, <3>3, <3>4
    <2>2. CASE Pop
      BY <2>2 DEF Pop
    <2>3. CASE Wait
      <3>1. UNCHANGED <<ctxDone, heard, finals, stream, final, out>> /\ pc = "wait"
        BY <2>3 DEF Wait
      <3>2. \/ endAt' = endAt /\ pc' = "pop"
            \/ endAt' = endAt /\ pc' = "close" /\ ctxDone
            \/ endAt' = TRUE /\ pc' = "close"
        BY <2>3 DEF Wait
      <3>3. CASE endAt' = endAt /\ pc' = "pop"
        BY <3>1, <3>3
      <3>4. CASE endAt' = endAt /\ pc' = "close" /\ ctxDone
        <4>1. ctxDone'
          BY <3>1, <3>4
        <4>. QED BY <3>1, <3>4, <4>1
      <3>5. CASE endAt' = TRUE /\ pc' = "close"
        <4>1. endAt' \in BOOLEAN /\ endAt'
          BY <3>5
        <4>. QED BY <3>1, <3>5, <4>1
      <3>. QED BY <3>2, <3>3, <3>4, <3>5
    <2>4. CASE Give
      BY <2>4 DEF Give
    <2>5. CASE GiveUp
      BY <2>5 DEF GiveUp
    <2>6. CASE Recycle
      BY <2>6 DEF Recycle
    <2>7. CASE Drop
      BY <2>7 DEF Drop
    <2>8. CASE CloseIn \/ AwaitStream
      BY <2>8 DEF CloseIn, AwaitStream
    <2>9. CASE RecycleLast
      BY <2>9 DEF RecycleLast
    <2>10. CASE Boundary
      BY <2>10 DEF Boundary
    <2>11. CASE HandOver
      BY <2>11 DEF HandOver
    <2>12. CASE Stop
      BY <2>12 DEF Stop
    <2>. QED
      BY <1>5, <2>1, <2>2, <2>3, <2>4, <2>5, <2>6, <2>7, <2>8, <2>9, <2>10, <2>11, <2>12
         DEF Loop
  <1>. QED BY <1>1, <1>2, <1>3, <1>4, <1>5 DEF Next

(* The finals channel as Recognizer sees it.                               *)
LEMMA TextsOf ==
  ASSUME NEW s \in Seq(Nat)
  PROVE  /\ Texts(s) \in Seq(BOOLEAN) /\ Len(Texts(s)) = Len(s)
         /\ \A n \in Nat : Texts(Append(s, n)) = Append(Texts(s), n # 0)
         /\ s # << >> => Texts(s) # << >> /\ Texts(Tail(s)) = Tail(Texts(s))
         /\ Texts(<< >>) = << >>
  <1>1. Texts(s) \in Seq(BOOLEAN) /\ Len(Texts(s)) = Len(s)
    <2>1. DOMAIN s = 1 .. Len(s) /\ Len(s) \in Nat
      OBVIOUS
    <2>2. Texts(s) \in [1 .. Len(s) -> BOOLEAN]
      BY <2>1, Zenon DEF Texts
    <2>. QED BY <2>1, <2>2
  <1>2. ASSUME NEW n \in Nat
        PROVE  Texts(Append(s, n)) = Append(Texts(s), n # 0)
    <2>1. /\ Append(s, n) \in Seq(Nat) /\ Len(Append(s, n)) = Len(s) + 1
          /\ \A i \in 1 .. Len(s) : Append(s, n)[i] = s[i]
          /\ Append(s, n)[Len(s) + 1] = n
      OBVIOUS
    <2>2. /\ Texts(Append(s, n)) \in Seq(BOOLEAN) /\ Len(Texts(Append(s, n))) = Len(s) + 1
          /\ \A i \in 1 .. Len(s) : Texts(Append(s, n))[i] = Texts(s)[i]
          /\ Texts(Append(s, n))[Len(s) + 1] = (n # 0)
      BY <2>1 DEF Texts
    <2>. QED BY <1>1, <2>2
  <1>3. ASSUME s # << >>
        PROVE  Texts(s) # << >> /\ Texts(Tail(s)) = Tail(Texts(s))
    <2>1. /\ Tail(s) \in Seq(Nat) /\ Len(Tail(s)) = Len(s) - 1 /\ Len(s) \in Nat \ {0}
          /\ \A i \in 1 .. Len(s) - 1 : Tail(s)[i] = s[i + 1]
      BY <1>3
    <2>. QED BY <1>1, <2>1 DEF Texts
  <1>4. Texts(<< >>) = << >>
    BY DEF Texts
  <1>. QED BY <1>1, <1>2, <1>3, <1>4
(* Every step of the uplink is a step of Recognizer, or none.              *)
LEMMA AbstractStep == EndInv /\ [Next]_vars => [Abstract!Next]_Abstract!vars
  <1> SUFFICES ASSUME EndInv, [Next]_vars
               PROVE  Abstract!Next \/ UNCHANGED Abstract!vars
    OBVIOUS
  <1> DEFINE same == UNCHANGED <<heard, endUtt, finals, ctxDone>>
  <1>0. ASSUME UNCHANGED <<Apc, heard, endUtt, finals, ctxDone>>
        PROVE  UNCHANGED Abstract!vars
    BY <1>0 DEF Abstract!vars
  <1>1. CASE GetBuf \/ Push \/ NewReader \/ Asr \/ Collect \/ UNCHANGED vars
    <2>1. UNCHANGED <<pc, endAt, heard, endUtt, finals, ctxDone>>
      BY <1>1 DEF GetBuf, Push, NewReader, Asr, AsrNext, AfterStream, Emit, AsrReturns,
                  Collect, vars, pumpVars
    <2>. QED BY <1>0, <2>1 DEF Apc
  <1>2. CASE Signal
    <2>1. endUtt' = TRUE /\ UNCHANGED <<pc, endAt, heard, finals, ctxDone>>
      BY <1>2 DEF Signal, pumpVars
    <2>2. Abstract!Signal
      BY <2>1 DEF Abstract!Signal, Apc
    <2>. QED BY <2>2 DEF Abstract!Next
  <1>3. CASE TakeFinal
    <2>1. /\ finals # << >> /\ finals' = Tail(finals)
          /\ UNCHANGED <<pc, endAt, heard, endUtt, ctxDone>>
      BY <1>3 DEF TakeFinal, pumpVars
    <2>2. Texts(finals) # << >> /\ Texts(finals') = Tail(Texts(finals))
      BY <2>1, TextsOf DEF EndInv
    <2>3. UNCHANGED <<Apc, heard # 0>>
      BY <2>1 DEF Apc
    <2>4. Abstract!TakeFinal
      BY <2>1, <2>2, <2>3 DEF Abstract!TakeFinal
    <2>. QED BY <2>4 DEF Abstract!Next
  <1>4. CASE CancelSession
    <2>1. ctxDone' = TRUE /\ UNCHANGED <<pc, endAt, heard, endUtt, finals>>
      BY <1>4 DEF CancelSession, pumpVars
    <2>2. Abstract!CancelSession
      BY <2>1 DEF Abstract!CancelSession, Apc
    <2>. QED BY <2>2 DEF Abstract!Next
  <1>5. CASE Open \/ Pop \/ Give \/ Recycle \/ Drop \/ CloseIn \/ AwaitStream \/ RecycleLast
    <2>1. same
      BY <1>5 DEF Open, Pop, Give, Recycle, Drop, CloseIn, AwaitStream, RecycleLast
    <2>2. Apc' = Apc
      <3>1. CASE Open
        BY <3>1 DEF Open, Apc
      <3>2. CASE Pop \/ Give \/ Recycle \/ Drop
        BY <3>2 DEF Pop, Give, Recycle, Drop, Apc
      <3>3. CASE CloseIn \/ AwaitStream \/ RecycleLast
        BY <3>3 DEF CloseIn, AwaitStream, RecycleLast, Apc
      <3>. QED BY <1>5, <3>1, <3>2, <3>3
    <2>. QED BY <1>0, <2>1, <2>2
  <1>6. CASE Wait \/ GiveUp
    <2>1. pc \in {"wait", "give"} /\ UNCHANGED <<heard, finals, ctxDone>> /\ ~endAt
          /\ pc' \in {"pop", "close", "drop"}
      BY <1>6 DEF Wait, GiveUp, EndInv
    <2>2. Apc = "pumping"
      BY <2>1 DEF Apc
    <2>3. CASE endUtt /\ endUtt' = FALSE /\ endAt' = TRUE /\ pc' # "pop"
      <3>1. Apc' = "closing"
        BY <2>1, <2>3 DEF Apc
      <3>2. Abstract!EndOfUtterance
        BY <2>1, <2>2, <2>3, <3>1 DEF Abstract!EndOfUtterance
      <3>. QED BY <3>2 DEF Abstract!Next, Abstract!Asr
    <2>4. CASE UNCHANGED <<endUtt, endAt>>
      <3>1. Apc' = "pumping"
        BY <2>1, <2>4 DEF Apc
      <3>. QED BY <1>0, <2>1, <2>2, <2>4, <3>1
    <2>. QED BY <1>6, <2>3, <2>4 DEF Wait, GiveUp
  <1>7. CASE Boundary
    <2>1. pc = "boundary" /\ UNCHANGED <<endAt, endUtt, finals, ctxDone>>
      BY <1>7 DEF Boundary
    <2>2. CASE ctxDone /\ pc' = "stopped" /\ heard' = heard
      <3>1. Apc \in {"pumping", "closing"} /\ Apc' = "stopped"
        BY <2>1, <2>2 DEF Apc
      <3>2. Abstract!AsrStops
        BY <2>1, <2>2, <3>1 DEF Abstract!AsrStops
      <3>. QED BY <3>2 DEF Abstract!Next, Abstract!Asr
    <2>3. CASE ~ctxDone /\ pc' = "failed" /\ heard' = heard
      <3>1. endAt
        BY <2>1, <2>3 DEF EndInv
      <3>2. Apc = "closing" /\ Apc' = "failed"
        BY <2>1, <2>3, <3>1 DEF Apc
      <3>3. Abstract!AsrFails
        BY <2>1, <2>3, <3>2 DEF Abstract!AsrFails
      <3>. QED BY <3>3 DEF Abstract!Next
    <2>4. CASE ~ctxDone /\ pc' = "hand" /\ heard' = final
      <3>1. endAt
        BY <2>1, <2>4 DEF EndInv
      <3>2. Apc = "closing" /\ Apc' = "handing"
        BY <2>1, <2>4, <3>1 DEF Apc
      <3>3. (heard' # 0) \in BOOLEAN
        OBVIOUS
      <3>4. Abstract!Transcribed((heard' # 0))
        BY <2>1, <2>4, <3>2 DEF Abstract!Transcribed
      <3>. QED BY <3>3, <3>4 DEF Abstract!Next, Abstract!Asr
    <2>. QED BY <1>7, <2>2, <2>3, <2>4 DEF Boundary
  <1>8. CASE HandOver
    <2>1. pc = "hand" /\ pc' = "open" /\ Len(finals) < FinalsCap
          /\ finals' = Append(finals, heard) /\ UNCHANGED <<heard, endUtt, ctxDone>>
      BY <1>8 DEF HandOver
    <2>2. Texts(finals') = Append(Texts(finals), heard # 0) /\ Len(Texts(finals)) = Len(finals)
      BY <2>1, TextsOf DEF EndInv
    <2>3. Apc = "handing" /\ Apc' = "pumping"
      BY <2>1 DEF Apc
    <2>4. Abstract!HandOver
      BY <2>1, <2>2, <2>3 DEF Abstract!HandOver
    <2>. QED BY <2>4 DEF Abstract!Next, Abstract!Asr
  <1>9. CASE Stop
    <2>1. pc \in {"hand", "open"} /\ pc' = "stopped" /\ ctxDone
          /\ UNCHANGED <<heard, endUtt, finals, ctxDone>>
      BY <1>9 DEF Stop
    <2>2. Apc \in {"handing", "pumping"} /\ Apc' = "stopped"
      BY <2>1 DEF Apc
    <2>3. Abstract!AsrStops
      BY <2>1, <2>2 DEF Abstract!AsrStops
    <2>. QED BY <2>3 DEF Abstract!Next, Abstract!Asr
  <1>. QED
    BY <1>1, <1>2, <1>3, <1>4, <1>5, <1>6, <1>7, <1>8, <1>9 DEF Next, Reader, Loop

(* The uplink implements Recognizer, and so does to the orchestrator what  *)
(* Dialogue takes the ASR loop to do (runASRLoop).                         *)
THEOREM AsrLoopImplements == Spec => Abstract!Safety
  <1>1. Init => EndInv /\ Abstract!Init
    <2> SUFFICES ASSUME Init PROVE EndInv /\ Abstract!Init
      OBVIOUS
    <2>1. EndInv
      <3>1. endAt = FALSE /\ ctxDone = FALSE /\ heard = 0 /\ stream = 0 /\ final = 0 /\ pc = "open"
        BY DEF Init
      <3>2. finals \in Seq(Nat)
        BY DEF Init
      <3>3. out \in Seq([final : BOOLEAN, text : Nat])
        BY DEF Init
      <3>4. endAt \in BOOLEAN /\ ctxDone \in BOOLEAN
        BY <3>1
      <3>. QED BY <3>1, <3>2, <3>3, <3>4 DEF EndInv
    <2>2. Apc = "pumping" /\ endUtt = FALSE /\ heard = 0 /\ finals = << >> /\ ctxDone = FALSE
      BY DEF Init, Apc
    <2>3. Texts(finals) = << >>
      <3>1. << >> \in Seq(Nat)
        OBVIOUS
      <3>. QED BY <2>2, <3>1, TextsOf
    <2>. QED BY <2>1, <2>2, <2>3 DEF Abstract!Init
  <1>. QED BY <1>1, EndStep, AbstractStep, PTL DEF Spec, Abstract!Safety
=============================================================================
