------------------------- MODULE PlayoutPipeProofs -------------------------
(***************************************************************************)
(* Proofs about PlayoutPipe, for any frames, pulses and bounds: the ring   *)
(* that the player and the callback share without a lock implements a      *)
(* bounded queue, and from the decoder to the device no frame is lost,     *)
(* doubled or overtaken.                                                   *)
(***************************************************************************)
EXTENDS PlayoutPipe, SequenceTheorems, TLAPS

\* Two slots, each after the other.
LEMMA SlotsAlternate ==
    /\ Slots = {0, 1}
    /\ After(0) = 1 /\ After(1) = 0
<1>1. Slots = {0, 1}
  BY DEF Slots, PIPE_NBUF
<1>2. After(0) = 1 /\ After(1) = 0
  BY DEF After, PIPE_NBUF
<1>. QED
  BY <1>1, <1>2

\* What the invariant says of a state, slot by slot.
LEMMA FirstInSlots ==
    ASSUME TypeOK
    PROVE  First \in Slots /\ After(First) \in Slots /\ NextWrite \in Slots
BY SlotsAlternate DEF TypeOK, First, NextWrite

LEMMA InitEstablishes == Init => PipeInv
<1>. SUFFICES ASSUME Init PROVE PipeInv
  OBVIOUS
<1>1. TypeOK
  BY SlotsAlternate DEF Init, TypeOK
<1>2. RingShape
  BY SlotsAlternate DEF Init, RingShape, First, NextWrite, Last
<1>. QED
  BY <1>1, <1>2 DEF PipeInv

-----------------------------------------------------------------------------
(***************************************************************************)
(* The type invariant, thread by thread.                                   *)
(***************************************************************************)
LEMMA ReceiveKeepsType ==
    ASSUME TypeOK, Receive
    PROVE  TypeOK'
<1>. USE PipeAssumption DEF TypeOK, RcvKeeps, ringVars, listVars, cbVars, closeVars
<1>1. CASE NewFrame
  BY <1>1 DEF NewFrame
<1>2. CASE ReuseFrame
  BY <1>2 DEF ReuseFrame
<1>3. CASE Unlink
  BY <1>3 DEF Unlink
<1>4. CASE Queue
  BY <1>4 DEF Queue
<1>5. CASE Signal
  BY <1>5 DEF Signal
<1>. QED
  BY <1>1, <1>2, <1>3, <1>4, <1>5 DEF Receive

LEMMA PlayerKeepsType ==
    ASSUME TypeOK, Player
    PROVE  TypeOK'
<1>. USE DEF TypeOK, PlayerKeeps, rcvVars, listVars, cbVars
<1>1. CASE LoopStarts \/ Retry \/ Wait \/ CrashWoken \/ Sleep \/ LoopEnds
  BY <1>1 DEF LoopStarts, Retry, Wait, CrashWoken, Sleep, LoopEnds
<1>2. ASSUME pending_queue # <<>>
      PROVE  Head(pending_queue) \in Frames /\ Tail(pending_queue) \in Seq(Frames)
  BY <1>2
<1>3. CASE Fetch
  BY <1>2, <1>3 DEF Fetch
<1>4. CASE FetchWoken
  BY <1>2, <1>4 DEF FetchWoken
<1>5. CASE Drain
  BY <1>2, <1>5 DEF Drain
<1>6. CASE Delay
  BY <1>6 DEF Delay
<1>7. CASE Store
  BY <1>7 DEF Store
<1>8. CASE Stored
  BY <1>8, SlotsAlternate DEF Stored
<1>9. CASE DrainLink
  BY <1>9 DEF DrainLink, Link
<1>10. CASE DrainHead
  BY <1>10 DEF DrainHead, BecomeHead
<1>. QED
  BY <1>1, <1>3, <1>4, <1>5, <1>6, <1>7, <1>8, <1>9, <1>10 DEF Player

LEMMA CallbackKeepsType ==
    ASSUME TypeOK, RingShape, Callback
    PROVE  TypeOK'
<1>. USE DEF TypeOK, CallbackKeeps, rcvVars, playerVars, closeVars, listVars
<1>1. CASE \E npcm \in Pulses : Pick(npcm)
  BY <1>1 DEF Pick
<1>2. CASE Fill
  BY <1>2 DEF Fill
<1>3. CASE Release
  BY <1>3 DEF Release
<1>4. CASE RecycleLink
  BY <1>4 DEF RecycleLink, Link
<1>5. CASE RecycleHead
  BY <1>5 DEF RecycleHead, BecomeHead
<1>6. CASE Advance
  BY <1>6, SlotsAlternate DEF Advance
<1>7. CASE PickReturns
  BY <1>7 DEF PickReturns
<1>. QED
  BY <1>1, <1>2, <1>3, <1>4, <1>5, <1>6, <1>7 DEF Callback

LEMMA CloseKeepsType ==
    ASSUME TypeOK, Close
    PROVE  TypeOK'
BY DEF TypeOK, Close, CloseStops, CloseSignals, Closed, CloseKeeps, ringVars, listVars,
       rcvVars, cbVars

-----------------------------------------------------------------------------
(***************************************************************************)
(* What each step does to the ring: its shape, and the queue it stands for.*)
(***************************************************************************)
\* Steps that move neither the slots, the positions nor the two marks that
\* First and NextWrite look at.
RingKept ==
    /\ UNCHANGED ringVars
    /\ pc' = "stored" <=> pc = "stored"
    /\ cb' \in {"link", "head", "advance"} <=> cb \in {"link", "head", "advance"}

LEMMA RingKeptKeeps ==
    ASSUME RingShape, RingKept, cb' = "fill" => outframes[outframe_r] # None
    PROVE  RingShape' /\ Ring' = Ring
BY DEF RingShape, RingKept, ringVars, First, NextWrite, Last, Ring

LEMMA OtherStepsKeepRing ==
    ASSUME PipeInv,
           \/ Receive \/ Close
           \/ LoopStarts \/ Retry \/ Fetch \/ Wait \/ FetchWoken \/ CrashWoken \/ Delay
           \/ Sleep \/ Drain \/ DrainLink \/ DrainHead \/ LoopEnds
           \/ (\E npcm \in Pulses : Pick(npcm)) \/ Fill \/ RecycleLink \/ RecycleHead
           \/ PickReturns
    PROVE  RingShape' /\ Ring' = Ring
<1>. USE DEF RingKept, ringVars, PipeInv, RingShape
<1>1. CASE Receive
  <2>1. RingKept /\ cb' = cb
    BY <1>1 DEF Receive, NewFrame, ReuseFrame, Unlink, Queue, Signal, RcvKeeps, cbVars
  <2>. QED
    BY <2>1, RingKeptKeeps
<1>2. CASE Close
  <2>1. RingKept /\ cb' = cb
    BY <1>2 DEF Close, CloseStops, CloseSignals, Closed, CloseKeeps, cbVars
  <2>. QED
    BY <2>1, RingKeptKeeps
<1>3. CASE \/ LoopStarts \/ Retry \/ Fetch \/ Wait \/ FetchWoken \/ CrashWoken \/ Delay
           \/ Sleep \/ Drain \/ DrainLink \/ DrainHead \/ LoopEnds
  <2>1. RingKept /\ cb' = cb
    BY <1>3 DEF LoopStarts, Retry, Fetch, Wait, FetchWoken, CrashWoken, Delay, Sleep, Drain,
                DrainLink, DrainHead, LoopEnds, PlayerKeeps, cbVars
  <2>. QED
    BY <2>1, RingKeptKeeps
<1>4. CASE (\E npcm \in Pulses : Pick(npcm)) \/ Fill \/ RecycleLink \/ RecycleHead \/ PickReturns
  <2>1. RingKept /\ (cb' = "fill" => outframes[outframe_r] # None)
    BY <1>4 DEF Pick, Fill, RecycleLink, RecycleHead, PickReturns, CallbackKeeps, playerVars
  <2>. QED
    BY <2>1, RingKeptKeeps
<1>. QED
  BY <1>1, <1>2, <1>3, <1>4

\* The player's frame goes behind the last.
LEMMA StorePuts ==
    ASSUME PipeInv, Store
    PROVE  RingShape' /\ Fifo!Put(auf)
<1>. USE SlotsAlternate DEF PipeInv, TypeOK
<1>1. /\ outframes' = [outframes EXCEPT ![outframe_w] = auf]
      /\ outframes[outframe_w] = None /\ auf # None
      /\ outframe_w = NextWrite /\ NextWrite' = After(outframe_w)
      /\ outframe_r' = outframe_r /\ cb' = cb /\ First' = First
  BY PipeAssumption DEF Store, PlayerKeeps, cbVars, NextWrite, First
<1>2. outframe_w = Last /\ (outframes[First] = None => outframes[After(First)] = None)
  BY <1>1 DEF RingShape
<1>3. First \in Slots /\ outframe_w \in Slots
  BY FirstInSlots
<1>4. CASE outframes[First] = None
  <2>1. outframe_w = First /\ outframes[After(First)] = None
    BY <1>2, <1>4 DEF Last
  <2>2. outframes'[First] = auf /\ outframes'[After(First)] = None
    BY <1>1, <1>3, <2>1
  <2>3. Ring = <<>> /\ Ring' = <<auf>>
    BY <1>1, <1>4, <2>2 DEF Ring
  <2>4. RingShape'
    BY <1>1, <2>1, <2>2, <1>3 DEF RingShape, Last
  <2>. QED
    BY <2>3, <2>4 DEF Fifo!Put, PIPE_NBUF
<1>5. CASE outframes[First] # None
  <2>1. outframe_w = After(First) /\ outframes[After(First)] = None
    BY <1>1, <1>2, <1>5, <1>3 DEF Last
  <2>2. outframes'[First] = outframes[First] /\ outframes'[After(First)] = auf
    BY <1>1, <1>3, <2>1
  <2>3. Ring = <<outframes[First]>> /\ Ring' = <<outframes[First], auf>>
    BY <1>1, <1>5, <2>1, <2>2 DEF Ring
  <2>4. RingShape'
    BY <1>1, <1>5, <2>1, <2>2, <1>3 DEF RingShape, Last
  <2>. QED
    BY <2>3, <2>4 DEF Fifo!Put, PIPE_NBUF
<1>. QED
  BY <1>4, <1>5

\* outframe_w catches up with what NextWrite said already.
LEMMA StoredKeepsRing ==
    ASSUME PipeInv, Stored
    PROVE  RingShape' /\ Ring' = Ring
BY DEF PipeInv, RingShape, Stored, PlayerKeeps, cbVars, First, NextWrite, Last, Ring

\* The callback takes the first frame, whose slot the player may fill at once.
LEMMA ReleaseTakes ==
    ASSUME PipeInv, Release
    PROVE  RingShape' /\ Fifo!Take
<1>. USE SlotsAlternate DEF PipeInv, TypeOK
<1>1. /\ outframes' = [outframes EXCEPT ![outframe_r] = None]
      /\ First = outframe_r /\ First' = After(outframe_r)
      /\ outframes[outframe_r] # None
      /\ NextWrite' = NextWrite /\ NextWrite = Last
      /\ cb' = "link" /\ outframe_r' = outframe_r
  BY DEF Release, CallbackKeeps, playerVars, First, NextWrite, RingShape
<1>2. /\ outframes'[outframe_r] = None
      /\ outframes'[After(outframe_r)] = outframes[After(outframe_r)]
      /\ After(After(outframe_r)) = outframe_r
  BY <1>1
<1>3. RingShape'
  BY <1>1, <1>2 DEF RingShape, Last
<1>4. CASE outframes[After(outframe_r)] = None
  BY <1>1, <1>2, <1>3, <1>4 DEF Ring, Fifo!Take
<1>5. CASE outframes[After(outframe_r)] # None
  <2>1. Ring = <<outframes[outframe_r], outframes[After(outframe_r)]>>
    BY <1>1, <1>5 DEF Ring
  <2>2. Ring' = <<outframes[After(outframe_r)]>>
    BY <1>1, <1>2, <1>5 DEF Ring
  <2>. QED
    BY <1>3, <2>1, <2>2 DEF Fifo!Take
<1>. QED
  BY <1>4, <1>5

\* outframe_r catches up with what First said already.
LEMMA AdvanceKeepsRing ==
    ASSUME PipeInv, Advance
    PROVE  RingShape' /\ Ring' = Ring
<1>1. /\ outframes' = outframes /\ First' = First /\ First = outframe_r'
      /\ NextWrite' = NextWrite
  BY DEF PipeInv, Advance, CallbackKeeps, playerVars, First, NextWrite
<1>2. cb' = "fill" => outframes[outframe_r'] # None
  BY DEF Advance
<1>. QED
  BY <1>1, <1>2 DEF PipeInv, RingShape, Last, Ring

-----------------------------------------------------------------------------
\* Every step keeps the invariant and is a step of the queue or none.
LEMMA StepRefines ==
    ASSUME PipeInv, [Next]_vars
    PROVE  PipeInv' /\ [Fifo!Next]_Ring
<1>1. CASE UNCHANGED vars
  BY <1>1 DEF PipeInv, TypeOK, RingShape, Ring, First, NextWrite, Last, vars, ringVars,
              listVars, rcvVars, playerVars, cbVars, closeVars
<1>2. CASE Next
  <2>1. TypeOK'
    BY <1>2, ReceiveKeepsType, PlayerKeepsType, CallbackKeepsType, CloseKeepsType
       DEF Next, PipeInv
  <2>2. CASE Store
    <3>1. auf \in Frames
      BY <2>2 DEF Store, PipeInv, TypeOK
    <3>. QED
      BY <2>1, <2>2, <3>1, StorePuts DEF PipeInv, Fifo!Next
  <2>3. CASE Release
    BY <2>1, <2>3, ReleaseTakes DEF PipeInv, Fifo!Next
  <2>4. CASE ~Store /\ ~Release
    <3>1. RingShape' /\ Ring' = Ring
      BY <1>2, <2>4, OtherStepsKeepRing, StoredKeepsRing, AdvanceKeepsRing
         DEF Next, Player, Callback
    <3>. QED
      BY <2>1, <3>1 DEF PipeInv
  <2>. QED
    BY <2>2, <2>3, <2>4
<1>. QED
  BY <1>1, <1>2

\* The ring of the pipe (pout_put_frame, pout_pick_content) is a queue of
\* PIPE_NBUF frames, however the player's steps fall between the callback's.
THEOREM RingImplementsFifo == Spec => RingIsFifo
<1>1. Init => PipeInv /\ Fifo!Init
  <2>1. Init => Ring = <<>>
    BY SlotsAlternate DEF Init, Ring, First
  <2>. QED
    BY <2>1, InitEstablishes DEF Fifo!Init
<1>2. PipeInv /\ [Next]_vars => PipeInv' /\ [Fifo!Next]_Ring
  BY StepRefines
<1>. QED
  BY <1>1, <1>2, PTL DEF Spec, RingIsFifo, Fifo!Spec

-----------------------------------------------------------------------------
(***************************************************************************)
(* The path of a frame from the decoder to the device.                     *)
(***************************************************************************)
LEMMA SeqFacts ==
    ASSUME NEW S, NEW r \in Seq(S), NEW h \in Seq(S), NEW q \in Seq(S), NEW f \in S
    PROVE  /\ r \o h \o Append(q, f) = Append(r \o h \o q, f)
           /\ Append(r, f) \o <<>> \o q = r \o <<f>> \o q
           /\ r # <<>> => r \o h \o q # <<>> /\ Tail(r) \o h \o q = Tail(r \o h \o q)
           /\ q # <<>> => r \o <<Head(q)>> \o Tail(q) = r \o <<>> \o q
           /\ r \o <<>> \o q = r \o q
<1>1. /\ r \o h \in Seq(S) /\ r \o h \o q \in Seq(S) /\ h \o q \in Seq(S) /\ <<f>> \in Seq(S)
      /\ <<>> \in Seq(S) /\ (Tail(q) \in Seq(S) \/ q = <<>>)
      /\ Append(q, f) = q \o <<f>> /\ Append(r, f) = r \o <<f>>
      /\ r \o <<>> = r
  BY ConcatProperties, AppendIsConcat, ConcatEmptySeq
<1>2. r \o h \o Append(q, f) = Append(r \o h \o q, f)
  BY <1>1, ConcatAssociative, AppendIsConcat
<1>3. Append(r, f) \o <<>> \o q = r \o <<f>> \o q
  <2>1. Append(r, f) \in Seq(S)
    OBVIOUS
  <2>. QED
    BY <1>1, <2>1, ConcatEmptySeq
<1>4. ASSUME r # <<>>
      PROVE  r \o h \o q # <<>> /\ Tail(r) \o h \o q = Tail(r \o h \o q)
  <2>1. /\ Head(r) \in S /\ Tail(r) \in Seq(S) /\ <<Head(r)>> \in Seq(S)
        /\ r = <<Head(r)>> \o Tail(r)
    BY <1>4
  <2>2. r \o h \o q = <<Head(r)>> \o (Tail(r) \o h \o q) /\ Tail(r) \o h \o q \in Seq(S)
    <3>1. r \o h = <<Head(r)>> \o (Tail(r) \o h) /\ Tail(r) \o h \in Seq(S)
      BY <2>1, ConcatAssociative
    <3>. QED
      BY <2>1, <3>1, ConcatAssociative
  <2>3. ASSUME NEW e \in S, NEW t \in Seq(S)
        PROVE  <<e>> \o t # <<>> /\ Tail(<<e>> \o t) = t
    OBVIOUS
  <2>. QED
    BY <2>1, <2>2, <2>3
<1>5. ASSUME q # <<>>
      PROVE  r \o <<Head(q)>> \o Tail(q) = r \o <<>> \o q
  <2>1. /\ Head(q) \in S /\ Tail(q) \in Seq(S) /\ <<Head(q)>> \in Seq(S)
        /\ q = <<Head(q)>> \o Tail(q)
    BY <1>5
  <2>. QED
    BY <1>1, <2>1, ConcatAssociative
<1>. QED
  BY <1>1, <1>2, <1>3, <1>4, <1>5

LEMMA PathTypes ==
    ASSUME PipeInv
    PROVE  Ring \in Seq(Frames) /\ InHand \in Seq(Frames) /\ pending_queue \in Seq(Frames)
<1>1. First \in Slots /\ After(First) \in Slots
  BY FirstInSlots DEF PipeInv
<1>2. Ring \in Seq(Frames)
  BY <1>1 DEF PipeInv, TypeOK, RingShape, Ring
<1>3. InHand \in Seq(Frames)
  BY DEF PipeInv, TypeOK, InHand
<1>. QED
  BY <1>2, <1>3 DEF PipeInv, TypeOK

\* Who drains the queue has been told to stop.
StopSeen == pc \in {"link", "head", "drain"} => stop

LEMMA StopSeenStep ==
    ASSUME StopSeen, [Next]_vars
    PROVE  StopSeen'
<1>1. CASE Receive \/ Callback \/ UNCHANGED vars
  BY <1>1 DEF StopSeen, Receive, NewFrame, ReuseFrame, Unlink, Queue, Signal, RcvKeeps,
     Callback, Pick, Fill, Release, RecycleLink, RecycleHead, Advance, PickReturns,
     CallbackKeeps, vars, playerVars, closeVars
<1>2. CASE Player
  BY <1>2 DEF StopSeen, Player, LoopStarts, Retry, Fetch, Wait, FetchWoken, CrashWoken, Delay,
     Store, Stored, Sleep, Drain, DrainLink, DrainHead, LoopEnds
<1>3. CASE Close
  BY <1>3 DEF StopSeen, Close, CloseStops, CloseSignals, Closed
<1>. QED
  BY <1>1, <1>2, <1>3 DEF Next

\* The player hands a frame on, in the order of the queue, or empties the queue.
LEMMA PlayerPath ==
    ASSUME PipeInv, StopSeen, Player
    PROVE  PathStep
<1>1. Ring \in Seq(Frames) /\ InHand \in Seq(Frames) /\ pending_queue \in Seq(Frames)
  BY PathTypes
<1>2. CASE Store
  <2>1. auf \in Frames /\ InHand = <<auf>> /\ InHand' = <<>> /\ pending_queue' = pending_queue
    BY <1>2 DEF Store, PipeInv, TypeOK, InHand
  <2>2. Ring' = Append(Ring, auf)
    BY <1>2, StorePuts DEF Fifo!Put
  <2>3. Append(Ring, auf) \o <<>> \o pending_queue = Ring \o <<auf>> \o pending_queue
    BY <1>1, <2>1, SeqFacts
  <2>4. Path' = Path
    BY <2>1, <2>2, <2>3 DEF Path
  <2>. QED
    BY <2>4 DEF PathStep
<1>3. CASE Stored
  <2>1. InHand = <<>> /\ InHand' = <<>> /\ pending_queue' = pending_queue /\ Ring' = Ring
    BY <1>3, StoredKeepsRing DEF Stored, InHand
  <2>. QED
    BY <2>1 DEF Path, PathStep
<1>4. CASE Fetch \/ FetchWoken
  <2>1. /\ InHand = <<>> /\ InHand' = <<Head(pending_queue)>>
        /\ pending_queue # <<>> /\ pending_queue' = Tail(pending_queue)
    BY <1>4 DEF Fetch, FetchWoken, PipeInv, TypeOK, InHand
  <2>2. Ring' = Ring
    BY <1>4, OtherStepsKeepRing
  <2>3. Head(pending_queue) \in Frames
    BY <1>1, <2>1
  <2>4. Path' = Path
    BY <1>1, <2>1, <2>2, <2>3, SeqFacts DEF Path
  <2>. QED
    BY <2>4 DEF PathStep
<1>5. CASE Drain
  <2>1. /\ InHand = <<>> /\ InHand' = <<>> /\ stop
        /\ pending_queue # <<>> /\ pending_queue' = Tail(pending_queue)
    BY <1>5 DEF Drain, PipeInv, TypeOK, InHand, StopSeen
  <2>2. Ring' = Ring
    BY <1>5, OtherStepsKeepRing
  <2>3. Tail(pending_queue) \in Seq(Frames)
    BY <1>1, <2>1
  <2>4. Path' = Ring \o Tail(pending_queue)
    BY <1>1, <2>1, <2>2, <2>3 DEF Path
  <2>. QED
    BY <2>1, <2>4 DEF PathStep
<1>6. CASE Delay
  <2>1. InHand' = InHand /\ pending_queue' = pending_queue
    BY <1>6, PipeAssumption DEF Delay, PipeInv, TypeOK, InHand
  <2>2. Ring' = Ring
    BY <1>6, OtherStepsKeepRing
  <2>. QED
    BY <2>1, <2>2 DEF Path, PathStep
<1>7. CASE \/ LoopStarts \/ Retry \/ Wait \/ CrashWoken \/ Sleep \/ DrainLink \/ DrainHead
           \/ LoopEnds
  <2>1. InHand' = InHand /\ pending_queue' = pending_queue
    <3>1. CASE LoopStarts \/ Retry \/ Wait \/ CrashWoken \/ Sleep \/ LoopEnds
      BY <3>1 DEF LoopStarts, Retry, Wait, CrashWoken, Sleep, LoopEnds, PipeInv, TypeOK, InHand
    <3>2. CASE DrainLink \/ DrainHead
      BY <3>2 DEF DrainLink, DrainHead, PipeInv, TypeOK, InHand
    <3>. QED
      BY <1>7, <3>1, <3>2
  <2>2. Ring' = Ring
    BY <1>7, OtherStepsKeepRing
  <2>. QED
    BY <2>1, <2>2 DEF Path, PathStep
<1>. QED
  BY <1>2, <1>3, <1>4, <1>5, <1>6, <1>7 DEF Player

LEMMA OthersPath ==
    ASSUME PipeInv, Receive \/ Callback \/ Close \/ UNCHANGED vars
    PROVE  PathStep
<1>1. Ring \in Seq(Frames) /\ InHand \in Seq(Frames) /\ pending_queue \in Seq(Frames)
  BY PathTypes
<1>2. CASE Queue
  <2>1. found \in Frames /\ InHand' = InHand /\ pending_queue' = Append(pending_queue, found)
    BY <1>2 DEF Queue, RcvKeeps, PipeInv, TypeOK, InHand
  <2>2. Ring' = Ring
    BY <1>2, OtherStepsKeepRing DEF Receive
  <2>3. Path' = Append(Path, found)
    BY <1>1, <2>1, <2>2, SeqFacts DEF Path
  <2>. QED
    BY <2>1, <2>3 DEF PathStep
<1>3. CASE Release
  <2>1. InHand' = InHand /\ pending_queue' = pending_queue
    BY <1>3 DEF Release, CallbackKeeps, playerVars, InHand
  <2>2. Ring # <<>> /\ Ring' = Tail(Ring)
    BY <1>3, ReleaseTakes DEF Fifo!Take
  <2>3. Head(Ring) \in Frames
    BY <1>1, <2>2
  <2>4. Path # <<>> /\ Path' = Tail(Path)
    BY <1>1, <2>1, <2>2, <2>3, SeqFacts, SMTT(30) DEF Path
  <2>. QED
    BY <2>4 DEF PathStep
<1>4. CASE (Receive /\ ~Queue) \/ (Callback /\ ~Release) \/ Close \/ UNCHANGED vars
  <2>1. Ring' = Ring
    <3>1. CASE UNCHANGED vars
      BY <3>1 DEF vars, ringVars, cbVars, Ring, First
    <3>. QED
      BY <1>4, <3>1, OtherStepsKeepRing, AdvanceKeepsRing DEF Callback
  <2>2. pending_queue' = pending_queue /\ InHand' = InHand
    <3>1. CASE Receive /\ ~Queue
      BY <3>1 DEF Receive, NewFrame, ReuseFrame, Unlink, Signal, RcvKeeps, PipeInv, TypeOK, InHand
    <3>2. CASE Callback
      BY <3>2 DEF Callback, Pick, Fill, Release, RecycleLink, RecycleHead, Advance, PickReturns,
         CallbackKeeps, playerVars, InHand
    <3>3. CASE Close
      BY <3>3 DEF Close, CloseStops, CloseSignals, Closed, CloseKeeps, PipeInv, TypeOK, InHand
    <3>4. CASE UNCHANGED vars
      BY <3>4 DEF vars, playerVars, InHand
    <3>. QED
      BY <1>4, <3>1, <3>2, <3>3, <3>4
  <2>. QED
    BY <2>1, <2>2 DEF Path, PathStep
<1>. QED
  BY <1>2, <1>3, <1>4

\* From spxp_receive_next to pout_pick_content no frame is overtaken, dropped or
\* put twice, through refusals, sleeps and the lock-free ring.
THEOREM FramesStayInOrder == Spec => PathInOrder
<1>1. Init => PipeInv /\ StopSeen
  BY InitEstablishes DEF Init, StopSeen
<1>2. PipeInv /\ StopSeen /\ [Next]_vars => PipeInv' /\ StopSeen' /\ [PathStep]_vars
  BY StepRefines, StopSeenStep, PlayerPath, OthersPath DEF Next
<1>. QED
  BY <1>1, <1>2, PTL DEF Spec, PathInOrder

=============================================================================
