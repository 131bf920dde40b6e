------------------------ MODULE SourceTrackingProofs ------------------------
(***************************************************************************)
(* Proofs about SourceTracking, for every modulus, window, source and      *)
(* network: the types; that only MIN_SEQUENTIAL packets in a row end the   *)
(* probation of a source; that what a report subtracts never underflows,   *)
(* as long as the count of expected packets fits its width; and, where the *)
(* gaps and delays fit the windows of the code, that every wrap is counted *)
(* once and the extended number never goes back.                           *)
(***************************************************************************)
EXTENDS SourceTracking, Integers, TLAPS

-----------------------------------------------------------------------------
(* The arithmetic of sequence numbers                                      *)

LEMMA ModRange == ASSUME NEW n \in Nat PROVE Seq16(n) \in Seqno
BY SeqAssumption DEF Seqno, Seq16

LEMMA NextOf ==
    ASSUME NEW s \in Seqno, NEW t \in Seqno, s = t + 1
    PROVE  SeqNext(t) = s
BY SeqAssumption DEF Seqno, SeqNext

LEMMA NeighbourRange ==
    ASSUME NEW s \in Seqno
    PROVE  SeqPrev(s) \in Seqno /\ SeqNext(s) \in Seqno
BY SeqAssumption DEF Seqno, SeqPrev, SeqNext

LEMMA SeqTurn ==
    ASSUME NEW c \in Seqno
    PROVE  (c + SEQ_MOD) % SEQ_MOD = c /\ c % SEQ_MOD = c
BY SeqAssumption DEF Seqno

LEMMA PrevOf == SeqPrev(0) = SEQ_MOD - 1 /\ \A s \in Seqno \ {0} : SeqPrev(s) = s - 1
<1>1. SeqPrev(0) = SEQ_MOD - 1
  <2>1. 0 + SEQ_MOD - 1 = SEQ_MOD - 1 /\ SEQ_MOD - 1 \in Seqno
    BY SeqAssumption DEF Seqno
  <2> QED
    BY <2>1, SeqTurn DEF SeqPrev
<1>2. ASSUME NEW s \in Seqno \ {0} PROVE SeqPrev(s) = s - 1
  <2>1. s + SEQ_MOD - 1 = (s - 1) + SEQ_MOD /\ s - 1 \in Seqno
    BY SeqAssumption DEF Seqno
  <2> QED
    BY <2>1, SeqTurn DEF SeqPrev
<1> QED
  BY <1>1, <1>2

\* udelta, in full: the distance up to a number from max_seq, once round at most.
LEMMA UdeltaOf ==
    ASSUME NEW s \in Seqno, max_seq \in Seqno
    PROVE  Udelta(s) = IF s < max_seq THEN s + SEQ_MOD - max_seq ELSE s - max_seq
<1> USE SeqAssumption
<1>1. CASE s < max_seq
  <2>1. s + SEQ_MOD - max_seq \in Seqno
    BY <1>1 DEF Seqno
  <2> QED
    BY <1>1, <2>1, SeqTurn DEF Udelta
<1>2. CASE ~(s < max_seq)
  <2>1. s - max_seq \in Seqno /\ s + SEQ_MOD - max_seq = (s - max_seq) + SEQ_MOD
    BY <1>2 DEF Seqno
  <2> QED
    BY <1>2, <2>1, SeqTurn DEF Udelta
<1> QED
  BY <1>1, <1>2

LEMMA WidthRange == ASSUME NEW n \in Int PROVE n % REPORT_MOD \in 0 .. REPORT_MOD - 1
BY SeqAssumption

-----------------------------------------------------------------------------
(* Types                                                                   *)

TypeInv ==
    /\ TypeOK
    /\ first \in Nat /\ top \in Nat /\ last \in Nat /\ run \in Nat
    /\ base_ext \in Nat /\ newest \in Nat /\ in_senders \in Nat

LEMMA TypeInit == Init => TypeInv
<1> SUFFICES ASSUME Init PROVE TypeInv
  OBVIOUS
<1> QED
  BY SeqAssumption, SourceAssumption DEF Init, TrackerInit, TypeInv, TypeOK, Seqno

LEMMA DeliveryTypes ==
    ASSUME TypeInv, NEW n \in first .. MaxExt, NetworkDelivers(n)
    PROVE  /\ n \in Nat /\ Seq16(n) \in Seqno
           /\ first' \in Nat /\ top' \in Nat /\ last' \in Nat /\ run' \in Nat
<1>1. n \in Nat
  BY SourceAssumption DEF TypeInv
<1>2. Seq16(n) \in Seqno
  BY <1>1, ModRange
<1> QED
  BY <1>1, <1>2, SeqAssumption DEF TypeInv, NetworkDelivers

LEMMA InitSeqnoTypes ==
    ASSUME TypeInv, NEW s \in Seqno, InitSeqno(s)
    PROVE  /\ max_seq' \in Seqno /\ base_seq' \in Seqno
           /\ bad_seq' \in Seqno \union {NO_BAD_SEQ}
           /\ cycles' \in Nat /\ n_rtp_received' \in Nat /\ received_prior' \in Nat
           /\ expected_prior' \in 0 .. REPORT_MOD - 1
           /\ total_lost' \in 0 .. REPORT_MOD - 1
BY NeighbourRange, SeqAssumption DEF InitSeqno, TypeInv, TypeOK

LEMMA TypeStep == TypeInv /\ [Next]_vars => TypeInv'
<1> SUFFICES ASSUME TypeInv, [Next]_vars PROVE TypeInv'
  OBVIOUS
<1>1. ASSUME NEW n \in first .. MaxExt, SourceValidated(n) PROVE TypeInv'
  <2>1. NetworkDelivers(n) /\ Seq16(n) \in Seqno /\ n \in Nat
    BY <1>1, DeliveryTypes DEF SourceValidated
  <2> QED
    BY <1>1, <2>1, DeliveryTypes, InitSeqnoTypes, SeqAssumption
    DEF SourceValidated, ProbationOver, Rebased, TypeInv, TypeOK
<1>2. ASSUME NEW n \in first .. MaxExt, PacketInOrder(n) PROVE TypeInv'
  <2>1. NetworkDelivers(n) /\ Seq16(n) \in Seqno /\ n \in Nat
    BY <1>2, DeliveryTypes DEF PacketInOrder
  <2> QED
    BY <1>2, <2>1, DeliveryTypes DEF PacketInOrder, InOrder, TypeInv, TypeOK
<1>3. ASSUME NEW n \in first .. MaxExt, SourceResynced(n) PROVE TypeInv'
  <2>1. NetworkDelivers(n) /\ Seq16(n) \in Seqno /\ n \in Nat
    BY <1>3, DeliveryTypes DEF SourceResynced
  <2> QED
    BY <1>3, <2>1, DeliveryTypes, InitSeqnoTypes
    DEF SourceResynced, JumpConfirmed, Rebased, TypeInv, TypeOK
<1>4. ASSUME NEW n \in first .. MaxExt, PacketRefused(n) PROVE TypeInv'
  <2>1. NetworkDelivers(n) /\ Seq16(n) \in Seqno /\ n \in Nat
    BY <1>4, DeliveryTypes DEF PacketRefused
  <2>2. CASE ProbationStep(Seq16(n)) \/ ProbationRestart(Seq16(n))
    BY <1>4, <2>1, <2>2, DeliveryTypes, SeqAssumption
    DEF PacketRefused, ProbationStep, ProbationRestart, TypeInv, TypeOK
  <2>3. CASE JumpSuspected(Seq16(n))
    BY <1>4, <2>1, <2>3, DeliveryTypes, NeighbourRange
    DEF PacketRefused, JumpSuspected, TypeInv, TypeOK
  <2>4. CASE Misordered(Seq16(n))
    BY <1>4, <2>1, <2>4, DeliveryTypes
    DEF PacketRefused, Misordered, trackerVars, TypeInv, TypeOK
  <2> QED
    BY <1>4, <2>2, <2>3, <2>4 DEF PacketRefused, Refused
<1>5. CASE SourceRestarts
  BY <1>5, SourceAssumption DEF SourceRestarts, trackerVars, TypeInv, TypeOK
<1>6. CASE Report
  <2>1. Expected \in 0 .. REPORT_MOD - 1
    <3>1. SEQ_MOD * cycles \in Nat
      BY SeqAssumption DEF TypeInv, TypeOK
    <3>2. MaxExseqno + 1 + REPORT_MOD - base_seq \in Int
      BY <3>1, SeqAssumption DEF MaxExseqno, TypeInv, TypeOK, Seqno
    <3> QED
      BY <3>2, WidthRange DEF Expected
  <2>2. total_lost' \in 0 .. REPORT_MOD - 1
    <3>1. /\ Minus(Expected, expected_prior) \in Int
          /\ Minus(n_rtp_received, received_prior) \in Int
      BY <2>1, WidthRange, SeqAssumption DEF Minus, TypeInv, TypeOK
    <3> QED
      BY <1>6, <3>1, WidthRange, SeqAssumption DEF Report, MakeReport, Minus
  <2> QED
    BY <1>6, <2>1, <2>2 DEF Report, MakeReport, sourceVars, TypeInv, TypeOK
<1>7. CASE UNCHANGED vars
  BY <1>7 DEF vars, trackerVars, sourceVars, TypeInv, TypeOK
<1> QED
  BY <1>1, <1>2, <1>3, <1>4, <1>5, <1>6, <1>7 DEF Next

\* Every variable of the tracker keeps the type of its field: 16 bits for a
\* number, the width of the report for what a report subtracts.
THEOREM TypeCorrect == Spec => []TypeOK
<1>1. TypeInv => TypeOK
  BY DEF TypeInv
<1> QED
  BY <1>1, TypeInit, TypeStep, PTL DEF Spec

-----------------------------------------------------------------------------
(* Probation                                                               *)

(***************************************************************************)
(* While the probation runs, the packets that shortened it came in a row   *)
(* and the last of them is the one max_seq names.                          *)
(***************************************************************************)
RunInv ==
    /\ TypeInv
    /\ run <= MIN_SEQUENTIAL
    /\ probation \in 1 .. MIN_SEQUENTIAL - 1 =>
          /\ run > 0
          /\ run + probation >= MIN_SEQUENTIAL
          /\ Seq16(last) = max_seq

LEMMA RunInit == Init => RunInv
BY TypeInit, SeqAssumption DEF Init, TrackerInit, RunInv

\* A packet in sequence lengthens the run.
LEMMA RunGrows ==
    ASSUME RunInv, NEW n \in first .. MaxExt, NetworkDelivers(n),
           probation \in 1 .. MIN_SEQUENTIAL - 1, InSequence(Seq16(n))
    PROVE  run' + probation > MIN_SEQUENTIAL /\ run' <= MIN_SEQUENTIAL /\ run' > 0
<1>1. Seq16(n) \in Seqno /\ max_seq \in Seqno
  BY DeliveryTypes DEF RunInv, TypeInv, TypeOK
<1>2. Seq16(n) = SeqNext(Seq16(last))
  BY <1>1, NextOf DEF InSequence, RunInv
<1>3. run' = IF run < MIN_SEQUENTIAL THEN run + 1 ELSE run
  BY <1>2 DEF NetworkDelivers, RunInv
<1> QED
  BY <1>3, SeqAssumption DEF RunInv, TypeInv

\* Any delivery leaves a run of at least one packet and at most MIN_SEQUENTIAL.
LEMMA RunBounds ==
    ASSUME RunInv, NEW n \in first .. MaxExt, NetworkDelivers(n)
    PROVE  run' <= MIN_SEQUENTIAL /\ run' > 0 /\ Seq16(last)' = Seq16(n)
BY SeqAssumption DEF RunInv, TypeInv, NetworkDelivers, Seq16

\* After the first packet of a run, one packet fewer is wanted.
LEMMA RunStarts ==
    ASSUME NEW r \in Nat, r > 0, NEW p, p = MIN_SEQUENTIAL - 1
    PROVE  r + p >= MIN_SEQUENTIAL
BY SeqAssumption

LEMMA RunStep == RunInv /\ [Next]_vars => RunInv'
<1> SUFFICES ASSUME RunInv, [Next]_vars PROVE RunInv'
  OBVIOUS
<1>1. TypeInv'
  BY TypeStep DEF RunInv
<1>2. ASSUME NEW n \in first .. MaxExt, SourceValidated(n) PROVE RunInv'
  BY <1>1, <1>2, RunBounds DEF SourceValidated, ProbationOver, RunInv
<1>3. ASSUME NEW n \in first .. MaxExt, PacketInOrder(n) PROVE RunInv'
  BY <1>1, <1>3, RunBounds DEF PacketInOrder, InOrder, RunInv
<1>4. ASSUME NEW n \in first .. MaxExt, SourceResynced(n) PROVE RunInv'
  BY <1>1, <1>4, RunBounds DEF SourceResynced, JumpConfirmed, LargeJump, RunInv
<1>5. ASSUME NEW n \in first .. MaxExt, PacketRefused(n) PROVE RunInv'
  <2>1. NetworkDelivers(n) /\ run' <= MIN_SEQUENTIAL /\ run' > 0 /\ Seq16(last)' = Seq16(n)
    BY <1>5, RunBounds DEF PacketRefused
  <2>2. CASE ProbationStep(Seq16(n))
    <3>1. probation' = probation - 1 /\ max_seq' = Seq16(n) /\ InSequence(Seq16(n)) /\ probation > 1
      BY <2>2 DEF ProbationStep
    <3>2. CASE probation < MIN_SEQUENTIAL
      <4>1. probation \in 1 .. MIN_SEQUENTIAL - 1
        BY <3>1, <3>2, SeqAssumption DEF RunInv, TypeInv, TypeOK
      <4>2. run' + probation > MIN_SEQUENTIAL
        BY <2>1, <3>1, <4>1, RunGrows
      <4> QED
        BY <1>1, <2>1, <3>1, <4>2, SeqAssumption DEF RunInv, TypeInv, TypeOK
    <3>3. CASE probation = MIN_SEQUENTIAL
      BY <1>1, <2>1, <3>1, <3>3, RunStarts DEF RunInv, TypeInv
    <3> QED
      BY <3>2, <3>3, SeqAssumption DEF RunInv, TypeInv, TypeOK
  <2>3. CASE ProbationRestart(Seq16(n))
    BY <1>1, <2>1, <2>3, SeqAssumption DEF ProbationRestart, RunInv, TypeInv, TypeOK
  <2>4. CASE JumpSuspected(Seq16(n)) \/ Misordered(Seq16(n))
    BY <1>1, <2>1, <2>4 DEF JumpSuspected, LargeJump, Misordered, trackerVars, RunInv
  <2> QED
    BY <1>5, <2>2, <2>3, <2>4 DEF PacketRefused, Refused
<1>6. CASE SourceRestarts \/ Report \/ UNCHANGED vars
  BY <1>1, <1>6 DEF SourceRestarts, Report, MakeReport, vars, trackerVars, sourceVars, RunInv, Seq16
<1> QED
  BY <1>2, <1>3, <1>4, <1>5, <1>6 DEF Next

\* Only MIN_SEQUENTIAL deliveries in a row validate a source: the step that
\* ends its probation in session_update_seqno is the last of them.
THEOREM ValidatedInARow == Spec => ValidAfterSequentialRun
<1>1. RunInv /\ [Next]_vars => [probation > 0 /\ probation' = 0 => run' = MIN_SEQUENTIAL]_vars
  <2> SUFFICES ASSUME RunInv, Next, probation > 0, probation' = 0 PROVE run' = MIN_SEQUENTIAL
    OBVIOUS
  <2>1. ASSUME NEW n \in first .. MaxExt, SourceValidated(n) PROVE run' = MIN_SEQUENTIAL
    <3>1. NetworkDelivers(n) /\ InSequence(Seq16(n)) /\ probation = 1
      BY <2>1 DEF SourceValidated, ProbationOver
    <3>2. run' + probation > MIN_SEQUENTIAL /\ run' <= MIN_SEQUENTIAL /\ run' \in Nat
      BY <3>1, RunGrows, DeliveryTypes, SeqAssumption DEF RunInv
    <3> QED
      BY <3>1, <3>2, SeqAssumption
  <2>2. ASSUME NEW n \in first .. MaxExt, PacketInOrder(n) PROVE FALSE
    BY <2>2 DEF PacketInOrder, InOrder
  <2>3. ASSUME NEW n \in first .. MaxExt, SourceResynced(n) PROVE FALSE
    BY <2>3 DEF SourceResynced, JumpConfirmed, LargeJump
  <2>4. ASSUME NEW n \in first .. MaxExt, PacketRefused(n) PROVE FALSE
    BY <2>4, SeqAssumption DEF PacketRefused, Refused, ProbationStep, ProbationRestart,
       JumpSuspected, LargeJump, Misordered, RunInv, TypeInv, TypeOK
  <2>5. CASE SourceRestarts \/ Report
    BY <2>5 DEF SourceRestarts, Report, MakeReport, trackerVars
  <2> QED
    BY <2>1, <2>2, <2>3, <2>4, <2>5 DEF Next
<1> QED
  BY <1>1, RunInit, RunStep, PTL DEF Spec, ValidAfterSequentialRun

-----------------------------------------------------------------------------
(* The intervals of a report                                               *)

\* The packets expected since the base, before the report masks the count.
Counted == MaxExseqno + 1 - base_seq

CountInv ==
    /\ TypeInv
    /\ probation = 0 =>
          /\ n_rtp_received <= MaxReceived + 1
          /\ received_prior <= n_rtp_received
          /\ Counted \in 0 .. SEQ_MOD + MAX_DROPOUT * n_rtp_received
          /\ expected_prior <= Counted

LEMMA CountInit == Init => CountInv
BY TypeInit, SeqAssumption DEF Init, TrackerInit, CountInv

LEMMA OneTurn ==
    ASSUME NEW c \in 0 .. REPORT_MOD - 1
    PROVE  (c + REPORT_MOD) % REPORT_MOD = c
BY SeqAssumption

LEMMA Monotone ==
    ASSUME NEW k \in Nat, NEW a \in Nat, NEW b \in Nat, a <= b
    PROVE  k * a <= k * b /\ k * a \in Nat /\ k * b \in Nat
OBVIOUS

LEMMA OneMore ==
    ASSUME NEW k \in Nat, NEW a \in Nat
    PROVE  k * (a + 1) = k * a + k /\ k * a \in Nat
OBVIOUS

\* The count of expected packets fits the width of the report.
LEMMA CountFits ==
    ASSUME CountInv, probation = 0
    PROVE  Counted \in 0 .. REPORT_MOD - 1 /\ Expected = Counted
<1>1. MAX_DROPOUT * n_rtp_received <= MAX_DROPOUT * (MaxReceived + 1)
  BY Monotone, SeqAssumption, SourceAssumption DEF CountInv, TypeInv, TypeOK
<1>2. MAX_DROPOUT * n_rtp_received \in Nat /\ MAX_DROPOUT * (MaxReceived + 1) \in Nat
  BY Monotone, SeqAssumption, SourceAssumption DEF CountInv, TypeInv, TypeOK
<1>3. Counted \in 0 .. REPORT_MOD - 1
  BY <1>1, <1>2, SeqAssumption, WidthAssumption DEF CountInv
<1>4. SEQ_MOD * cycles \in Nat
  BY OneMore, SeqAssumption DEF CountInv, TypeInv, TypeOK
<1>5. MaxExseqno + 1 + REPORT_MOD - base_seq = Counted + REPORT_MOD
  BY <1>4, SeqAssumption DEF Counted, MaxExseqno, CountInv, TypeInv, TypeOK, Seqno
<1> QED
  BY <1>3, <1>5, OneTurn DEF Expected

LEMMA RebasedCounts ==
    ASSUME CountInv, NEW s \in Seqno, InitSeqno(s)
    PROVE  /\ n_rtp_received' = 1 /\ received_prior' = 0 /\ expected_prior' = 0
           /\ Counted' \in 0 .. SEQ_MOD
<1>1. SEQ_MOD * 0 = 0
  BY SeqAssumption
<1>2. max_seq' = SeqPrev(s) /\ base_seq' = s /\ cycles' = 0
  BY DEF InitSeqno
<1>3. Counted' = SeqPrev(s) + 1 - s
  BY <1>1, <1>2, SeqAssumption, NeighbourRange DEF Counted, MaxExseqno, Seqno
<1>4. SeqPrev(s) = IF s = 0 THEN SEQ_MOD - 1 ELSE s - 1
  BY PrevOf
<1> QED
  BY <1>3, <1>4, SeqAssumption DEF InitSeqno, Seqno

\* A packet in order adds its distance from max_seq, whether it wraps or not.
LEMMA InOrderCounts ==
    ASSUME CountInv, NEW s \in Seqno, InOrder(s)
    PROVE  Counted' = Counted + Udelta(s) /\ Udelta(s) \in 0 .. MAX_DROPOUT - 1
<1> USE SeqAssumption
<1>1. max_seq \in Seqno /\ base_seq \in Seqno /\ cycles \in Nat
  BY DEF CountInv, TypeInv, TypeOK
<1>2. Udelta(s) = IF s < max_seq THEN s + SEQ_MOD - max_seq ELSE s - max_seq
  BY <1>1, UdeltaOf
<1>3. SEQ_MOD * (cycles + 1) = SEQ_MOD * cycles + SEQ_MOD /\ SEQ_MOD * cycles \in Nat
  BY <1>1, OneMore
<1>4. max_seq' = s /\ base_seq' = base_seq /\ Udelta(s) < MAX_DROPOUT
  BY DEF InOrder
<1>5. CASE s < max_seq
  <2>1. cycles' = cycles + 1
    BY <1>5 DEF InOrder, Wraps
  <2> QED
    BY <1>1, <1>2, <1>3, <1>4, <1>5, <2>1 DEF Counted, MaxExseqno, Seqno
<1>6. CASE ~(s < max_seq)
  <2>1. cycles' = cycles
    BY <1>6 DEF InOrder, Wraps
  <2> QED
    BY <1>1, <1>2, <1>3, <1>4, <1>6, <2>1 DEF Counted, MaxExseqno, Seqno
<1> QED
  BY <1>5, <1>6

LEMMA CountStep == CountInv /\ [Next]_vars => CountInv'
<1> SUFFICES ASSUME CountInv, [Next]_vars PROVE CountInv'
  OBVIOUS
<1>1. TypeInv'
  BY TypeStep DEF CountInv
<1>2. ASSUME NEW n \in first .. MaxExt, SourceValidated(n) \/ SourceResynced(n) PROVE CountInv'
  <2>1. Seq16(n) \in Seqno /\ InitSeqno(Seq16(n))
    BY <1>2, DeliveryTypes DEF CountInv, SourceValidated, ProbationOver, SourceResynced, JumpConfirmed
  <2>2. MAX_DROPOUT * 1 = MAX_DROPOUT
    BY SeqAssumption
  <2> QED
    BY <1>1, <2>1, <2>2, RebasedCounts, SeqAssumption, SourceAssumption DEF CountInv
<1>3. ASSUME NEW n \in first .. MaxExt, PacketInOrder(n) PROVE CountInv'
  <2>1. Seq16(n) \in Seqno /\ InOrder(Seq16(n)) /\ n_rtp_received < MaxReceived /\ probation = 0
    BY <1>3, DeliveryTypes DEF CountInv, PacketInOrder, InOrder
  <2>2. /\ n_rtp_received' = n_rtp_received + 1 /\ received_prior' = received_prior
        /\ expected_prior' = expected_prior
    BY <2>1 DEF InOrder
  <2>3. Counted' = Counted + Udelta(Seq16(n)) /\ Udelta(Seq16(n)) \in 0 .. MAX_DROPOUT - 1
    BY <2>1, InOrderCounts
  <2>4. n_rtp_received \in Nat /\ received_prior \in Nat /\ expected_prior \in Nat
    BY SeqAssumption DEF CountInv, TypeInv, TypeOK
  <2>5. /\ MAX_DROPOUT * (n_rtp_received + 1) = MAX_DROPOUT * n_rtp_received + MAX_DROPOUT
        /\ MAX_DROPOUT * n_rtp_received \in Nat
    BY <2>4, OneMore, SeqAssumption
  <2>6. Counted' \in 0 .. SEQ_MOD + MAX_DROPOUT * n_rtp_received' /\ expected_prior' <= Counted'
    BY <2>1, <2>2, <2>3, <2>4, <2>5, SeqAssumption DEF CountInv
  <2> QED
    BY <1>1, <2>1, <2>2, <2>4, <2>6, SourceAssumption DEF CountInv
<1>4. ASSUME NEW n \in first .. MaxExt, PacketRefused(n) PROVE CountInv'
  <2>1. CASE ProbationStep(Seq16(n)) \/ ProbationRestart(Seq16(n))
    BY <1>1, <2>1, SeqAssumption DEF ProbationStep, ProbationRestart, CountInv, TypeInv, TypeOK
  <2>2. CASE JumpSuspected(Seq16(n)) \/ Misordered(Seq16(n))
    BY <1>1, <2>2 DEF JumpSuspected, LargeJump, Misordered, trackerVars, CountInv, Counted, MaxExseqno
  <2> QED
    BY <1>4, <2>1, <2>2 DEF PacketRefused, Refused
<1>5. CASE Report
  BY <1>1, <1>5, CountFits DEF Report, MakeReport, CountInv, TypeInv, TypeOK, Counted, MaxExseqno
<1>6. CASE SourceRestarts \/ UNCHANGED vars
  BY <1>1, <1>6 DEF SourceRestarts, vars, trackerVars, sourceVars, CountInv, Counted, MaxExseqno
<1> QED
  BY <1>2, <1>3, <1>4, <1>5, <1>6 DEF Next

\* What session_member_make_report subtracts never underflows: a report finds
\* the packets expected and received at or past what the one before recorded.
THEOREM NoIntervalUnderflows == Spec => []IntervalsNotNegative
<1>1. CountInv => IntervalsNotNegative
  BY CountFits DEF CountInv, IntervalsNotNegative
<1> QED
  BY <1>1, CountInit, CountStep, PTL DEF Spec

-----------------------------------------------------------------------------
(* The turns of an extended number                                         *)

Turns(n) == n \div SEQ_MOD

LEMMA Division ==
    ASSUME NEW n \in Nat
    PROVE  Turns(n) \in Nat /\ Seq16(n) \in Seqno /\ n = SEQ_MOD * Turns(n) + Seq16(n)
BY SeqAssumption DEF Turns, Seq16, Seqno

\* Two ways to write a number in turns and a remainder are the same.
LEMMA OneDivision ==
    ASSUME NEW q \in Nat, NEW r \in Seqno, NEW p \in Nat, NEW s \in Seqno,
           SEQ_MOD * q + r = SEQ_MOD * p + s
    PROVE  q = p /\ r = s
<1>1. ASSUME NEW a \in Nat, NEW b \in Nat, NEW c \in Seqno, NEW d \in Seqno, a < b
      PROVE  SEQ_MOD * a + c # SEQ_MOD * b + d
  <2>1. SEQ_MOD * (a + 1) <= SEQ_MOD * b /\ SEQ_MOD * b \in Nat
    BY <1>1, Monotone, SeqAssumption
  <2>2. SEQ_MOD * (a + 1) = SEQ_MOD * a + SEQ_MOD /\ SEQ_MOD * a \in Nat
    BY OneMore, SeqAssumption
  <2>3. PICK u, v : u = SEQ_MOD * a /\ v = SEQ_MOD * b
    OBVIOUS
  <2>4. u \in Nat /\ v \in Nat /\ u + SEQ_MOD <= v
    BY <2>1, <2>2, <2>3
  <2>5. u + c # v + d
    BY <2>4, SeqAssumption DEF Seqno
  <2> QED
    BY <2>3, <2>5, Zenon
<1>2. ~(q < p)
  BY <1>1, Zenon
<1>3. ~(p < q)
  BY <1>1, Zenon
<1>4. q = p
  BY <1>2, <1>3
<1>5. PICK u \in Nat : u = SEQ_MOD * p
  BY OneMore, SeqAssumption
<1>6. u + r = u + s
  BY <1>4, <1>5, Zenon
<1> QED
  BY <1>4, <1>6 DEF Seqno

\* What a number a little further on looks like in 16 bits.
LEMMA Further ==
    ASSUME NEW n \in Nat, NEW d \in Seqno
    PROVE  IF Seq16(n) + d < SEQ_MOD
             THEN Seq16(n + d) = Seq16(n) + d /\ Turns(n + d) = Turns(n)
             ELSE Seq16(n + d) = Seq16(n) + d - SEQ_MOD /\ Turns(n + d) = Turns(n) + 1
<1> USE SeqAssumption
<1>1. Turns(n) \in Nat /\ Seq16(n) \in Seqno /\ n = SEQ_MOD * Turns(n) + Seq16(n)
  BY Division
<1>2. d \in Nat /\ n + d \in Nat
  BY DEF Seqno
<1>3. /\ Turns(n + d) \in Nat /\ Seq16(n + d) \in Seqno
      /\ n + d = SEQ_MOD * Turns(n + d) + Seq16(n + d)
  BY <1>2, Division
<1>4. CASE Seq16(n) + d < SEQ_MOD
  <2>1. Seq16(n) + d \in Seqno /\ n + d = SEQ_MOD * Turns(n) + (Seq16(n) + d)
    BY <1>1, <1>2, <1>4, OneMore DEF Seqno
  <2> HIDE DEF Turns, Seq16
  <2> QED
    BY <1>1, <1>3, <1>4, <2>1, OneDivision
<1>5. CASE ~(Seq16(n) + d < SEQ_MOD)
  <2>1. Seq16(n) + d - SEQ_MOD \in Seqno
    BY <1>1, <1>2, <1>5 DEF Seqno
  <2>2. SEQ_MOD * (Turns(n) + 1) = SEQ_MOD * Turns(n) + SEQ_MOD /\ SEQ_MOD * Turns(n) \in Nat
    BY <1>1, OneMore
  <2>3. n + d = SEQ_MOD * (Turns(n) + 1) + (Seq16(n) + d - SEQ_MOD)
    <3>1. PICK m \in Nat, r \in Nat : m = SEQ_MOD * Turns(n) /\ r = Seq16(n) /\ n = m + r
      BY <1>1, <2>2 DEF Seqno
    <3>2. m + r + d = (m + SEQ_MOD) + (r + d - SEQ_MOD)
      BY <1>2
    <3> QED
      BY <2>2, <3>1, <3>2
  <2>4. Turns(n) + 1 \in Nat
    BY <1>1
  <2> QED
    BY <1>3, <1>5, <2>1, <2>3, <2>4, OneDivision
<1> QED
  BY <1>4, <1>5

-----------------------------------------------------------------------------
(* Wraps                                                                   *)

\* After a re-base on w, max_seq is the number before w; else that of newest.
Tracks(w) ==
    \/ max_seq = Seq16(w)
    \/ w = base_ext /\ max_seq = SeqPrev(Seq16(w))

(***************************************************************************)
(* Until the source restarts, newest stays in the window of the network,   *)
(* and cycles counts its turns.  A restart only moves the network ahead.   *)
(***************************************************************************)
WindowInv ==
    /\ TypeInv
    /\ probation = 0 =>
          /\ base_ext <= top /\ newest <= top
          /\ base_ext <= newest + MaxLag
          /\ Tracks(newest)
          /\ steady =>
                /\ top <= newest + MaxLag
                /\ base_ext <= newest + 1
                /\ Seq16(base_ext) # 0 => cycles + Turns(base_ext) = Turns(newest)

LEMMA AheadBy ==
    ASSUME NEW w \in Nat, NEW d \in Seqno, max_seq = Seq16(w)
    PROVE  /\ Udelta(Seq16(w + d)) = d
           /\ Turns(w + d) = IF Wraps(Seq16(w + d)) THEN Turns(w) + 1 ELSE Turns(w)
<1> USE SeqAssumption
<1>1. max_seq \in Seqno /\ Seq16(w + d) \in Seqno
  BY ModRange DEF Seqno
<1>2. PICK s \in Seqno : s = Seq16(w + d)
  BY <1>1
<1>3. CASE max_seq + d < SEQ_MOD
  <2>1. s = max_seq + d /\ Turns(w + d) = Turns(w)
    BY <1>2, <1>3, Further
  <2>2. ~(s < max_seq) /\ s - max_seq = d
    BY <1>1, <2>1 DEF Seqno
  <2> QED
    BY <1>1, <1>2, <2>1, <2>2, UdeltaOf DEF Wraps
<1>4. CASE ~(max_seq + d < SEQ_MOD)
  <2>1. s = max_seq + d - SEQ_MOD /\ Turns(w + d) = Turns(w) + 1
    BY <1>2, <1>4, Further
  <2>2. s < max_seq /\ s + SEQ_MOD - max_seq = d
    BY <1>1, <2>1 DEF Seqno
  <2> QED
    BY <1>1, <1>2, <2>1, <2>2, UdeltaOf DEF Wraps
<1> QED
  BY <1>3, <1>4

LEMMA AheadOfBase ==
    ASSUME NEW w \in Nat, NEW d \in Nat, d + 1 < SEQ_MOD, max_seq = SeqPrev(Seq16(w))
    PROVE  /\ Udelta(Seq16(w + d)) = d + 1
           /\ Seq16(w) # 0 =>
                 Turns(w + d) = IF Wraps(Seq16(w + d)) THEN Turns(w) + 1 ELSE Turns(w)
<1> USE SeqAssumption
<1>1. d \in Seqno /\ Seq16(w) \in Seqno /\ Seq16(w + d) \in Seqno
  BY ModRange DEF Seqno
<1>2. PICK r \in Seqno, s \in Seqno : r = Seq16(w) /\ s = Seq16(w + d)
  BY <1>1
<1>3. max_seq = IF r = 0 THEN SEQ_MOD - 1 ELSE r - 1
  BY <1>2, PrevOf
<1>4. max_seq \in Seqno
  BY <1>3 DEF Seqno
<1>5. IF r + d < SEQ_MOD THEN s = r + d /\ Turns(w + d) = Turns(w)
                         ELSE s = r + d - SEQ_MOD /\ Turns(w + d) = Turns(w) + 1
  BY <1>1, <1>2, Further
<1>6. Udelta(s) = IF s < max_seq THEN s + SEQ_MOD - max_seq ELSE s - max_seq
  BY <1>4, UdeltaOf
<1>7. Udelta(s) = d + 1
  BY <1>3, <1>5, <1>6 DEF Seqno
<1>8. r # 0 => (s < max_seq <=> ~(r + d < SEQ_MOD))
  BY <1>3, <1>5 DEF Seqno
<1> QED
  BY <1>2, <1>5, <1>7, <1>8 DEF Wraps

LEMMA BehindBy ==
    ASSUME NEW n \in Nat, NEW d \in 1 .. SEQ_MOD - 1, max_seq = Seq16(n + d)
    PROVE  Udelta(Seq16(n)) = SEQ_MOD - d
<1> USE SeqAssumption
<1>1. d \in Seqno /\ Seq16(n) \in Seqno /\ max_seq \in Seqno
  BY ModRange DEF Seqno
<1>2. PICK s \in Seqno : s = Seq16(n)
  BY <1>1
<1>3. max_seq = IF s + d < SEQ_MOD THEN s + d ELSE s + d - SEQ_MOD
  BY <1>1, <1>2, Further
<1>4. Udelta(s) = IF s < max_seq THEN s + SEQ_MOD - max_seq ELSE s - max_seq
  BY <1>1, UdeltaOf
<1>5. Udelta(s) = SEQ_MOD - d
  BY <1>3, <1>4 DEF Seqno
<1> QED
  BY <1>2, <1>5

LEMMA BehindBase ==
    ASSUME NEW n \in Nat, NEW d \in 1 .. SEQ_MOD - 1, max_seq = SeqPrev(Seq16(n + d))
    PROVE  /\ Udelta(Seq16(n)) = IF d = 1 THEN 0 ELSE SEQ_MOD + 1 - d
           /\ d = 1 /\ Seq16(n + d) # 0 => Turns(n) = Turns(n + d)
           /\ d = 1 => ~Wraps(Seq16(n))
<1> USE SeqAssumption
<1>1. d \in Seqno /\ Seq16(n) \in Seqno /\ Seq16(n + d) \in Seqno
  BY ModRange DEF Seqno
<1>2. PICK r \in Seqno, s \in Seqno : r = Seq16(n + d) /\ s = Seq16(n)
  BY <1>1
<1>3. max_seq = IF r = 0 THEN SEQ_MOD - 1 ELSE r - 1
  BY <1>2, PrevOf
<1>4. max_seq \in Seqno
  BY <1>3 DEF Seqno
<1>5. IF s + d < SEQ_MOD THEN r = s + d /\ Turns(n + d) = Turns(n)
                         ELSE r = s + d - SEQ_MOD /\ Turns(n + d) = Turns(n) + 1
  BY <1>1, <1>2, Further
<1>6. Udelta(s) = IF s < max_seq THEN s + SEQ_MOD - max_seq ELSE s - max_seq
  BY <1>4, UdeltaOf
<1>7. Udelta(s) = IF d = 1 THEN 0 ELSE SEQ_MOD + 1 - d
  BY <1>3, <1>5, <1>6 DEF Seqno
<1>8. d = 1 => ~(s < max_seq)
  BY <1>3, <1>5 DEF Seqno
<1>9. d = 1 /\ r # 0 => s + d < SEQ_MOD
  BY <1>5 DEF Seqno
<1> QED
  BY <1>2, <1>5, <1>7, <1>8, <1>9 DEF Wraps

\* A packet within the window of newest is in order or late, never a jump.
LEMMA Near ==
    ASSUME TypeInv, Tracks(newest), NEW n \in Nat,
           n <= newest + MaxGap + MaxLag, newest <= n + MaxLag
    PROVE  \/ n < newest /\ Udelta(Seq16(n)) > SEQ_MOD - MAX_MISORDER
           \/ /\ Udelta(Seq16(n)) < MAX_DROPOUT
              /\ n < newest => newest = base_ext /\ newest = n + 1
              /\ Seq16(base_ext) # 0 =>
                    Turns(n) = IF Wraps(Seq16(n)) THEN Turns(newest) + 1 ELSE Turns(newest)
<1> USE SeqAssumption, SourceAssumption, WindowAssumption
<1>1. newest \in Nat /\ base_ext \in Nat
  BY DEF TypeInv
<1>2. CASE n >= newest
  <2>1. PICK d \in Nat : d = n - newest
    BY <1>1, <1>2
  <2>2. n = newest + d /\ d + 1 < MAX_DROPOUT /\ d + 1 < SEQ_MOD /\ d \in Seqno
    BY <1>1, <2>1 DEF Seqno
  <2>3. CASE max_seq = Seq16(newest)
    BY <1>1, <1>2, <2>2, <2>3, AheadBy
  <2>4. CASE newest = base_ext /\ max_seq = SeqPrev(Seq16(newest))
    <3>1. /\ Udelta(Seq16(newest + d)) = d + 1
          /\ Seq16(newest) # 0 =>
                Turns(newest + d) = IF Wraps(Seq16(newest + d)) THEN Turns(newest) + 1 ELSE Turns(newest)
      BY <1>1, <2>2, <2>4, AheadOfBase
    <3>2. /\ Udelta(Seq16(n)) = d + 1
          /\ Seq16(newest) # 0 =>
                Turns(n) = IF Wraps(Seq16(n)) THEN Turns(newest) + 1 ELSE Turns(newest)
      BY <2>2, <3>1
    <3> QED
      BY <1>1, <1>2, <2>2, <2>4, <3>2
  <2> QED
    BY <2>3, <2>4 DEF Tracks
<1>3. CASE n < newest
  <2>1. PICK d \in Nat : d = newest - n
    BY <1>1, <1>3
  <2>2. newest = n + d /\ d \in 1 .. SEQ_MOD - 1 /\ d < MAX_MISORDER
    BY <1>1, <1>3, <2>1
  <2>3. CASE max_seq = Seq16(newest)
    <3>1. Udelta(Seq16(n)) = SEQ_MOD - d
      BY <2>2, <2>3, BehindBy
    <3> QED
      BY <1>3, <2>2, <3>1
  <2>4. CASE newest = base_ext /\ max_seq = SeqPrev(Seq16(newest))
    <3>1. /\ Udelta(Seq16(n)) = IF d = 1 THEN 0 ELSE SEQ_MOD + 1 - d
          /\ d = 1 /\ Seq16(newest) # 0 => Turns(n) = Turns(newest)
          /\ d = 1 => ~Wraps(Seq16(n))
      BY <2>2, <2>4, BehindBase, SMTT(100)
    <3> QED
      BY <1>3, <2>2, <2>4, <3>1
  <2> QED
    BY <2>3, <2>4 DEF Tracks
<1> QED
  BY <1>1, <1>2, <1>3

LEMMA InWindow ==
    ASSUME TypeInv, NEW n \in first .. MaxExt, NetworkDelivers(n)
    PROVE  /\ n \in Nat /\ n + MaxLag >= top /\ n <= top + MaxGap
           /\ top' \in Nat /\ top' >= top /\ top' >= n /\ n + MaxLag >= top'
           /\ n <= top => top' = top
BY SourceAssumption DEF TypeInv, NetworkDelivers, Window

LEMMA WindowInit == Init => WindowInv
BY TypeInit, SeqAssumption DEF Init, TrackerInit, WindowInv

LEMMA WindowStep == WindowInv /\ [Next]_vars => WindowInv'
<1> SUFFICES ASSUME WindowInv, [Next]_vars PROVE WindowInv'
  OBVIOUS
<1> USE SourceAssumption
<1>1. TypeInv /\ TypeInv'
  BY TypeStep DEF WindowInv
<1>2. ASSUME NEW n \in first .. MaxExt, SourceValidated(n) \/ SourceResynced(n) PROVE WindowInv'
  <2>1. NetworkDelivers(n) /\ Rebased(n) /\ InitSeqno(Seq16(n))
    BY <1>2 DEF SourceValidated, ProbationOver, SourceResynced, JumpConfirmed
  <2>2. base_ext' = n /\ newest' = n /\ max_seq' = SeqPrev(Seq16(n)) /\ cycles' = 0
    BY <2>1 DEF Rebased, InitSeqno
  <2>3. Tracks(newest)'
    BY <2>2 DEF Tracks, Seq16, SeqPrev
  <2>4. cycles' + Turns(base_ext)' = Turns(newest)'
    BY <1>1, <2>2, InWindow, Division, <2>1 DEF Turns
  <2> QED
    BY <1>1, <2>1, <2>2, <2>3, <2>4, InWindow DEF WindowInv
<1>3. ASSUME NEW n \in first .. MaxExt, PacketInOrder(n) PROVE WindowInv'
  <2>1. NetworkDelivers(n) /\ InOrder(Seq16(n)) /\ probation = 0
    BY <1>3 DEF PacketInOrder, InOrder
  <2>2. /\ base_ext' = base_ext /\ newest' = n /\ max_seq' = Seq16(n) /\ steady' = steady
        /\ cycles' = IF Wraps(Seq16(n)) THEN cycles + 1 ELSE cycles
        /\ Udelta(Seq16(n)) < MAX_DROPOUT
    BY <1>3, <2>1 DEF PacketInOrder, InOrder
  <2>3. Tracks(newest)'
    BY <2>2 DEF Tracks, Seq16, SeqPrev
  <2>4. base_ext' <= top' /\ newest' <= top' /\ base_ext' <= newest' + MaxLag
    BY <1>1, <2>1, <2>2, InWindow DEF WindowInv, TypeInv
  <2>5. ASSUME steady
        PROVE  /\ top' <= newest' + MaxLag
               /\ base_ext' <= newest' + 1
               /\ Seq16(base_ext)' # 0 => cycles' + Turns(base_ext)' = Turns(newest)'
    <3>1. n \in Nat /\ n <= newest + MaxGap + MaxLag /\ newest <= n + MaxLag
      BY <1>1, <2>1, <2>5, InWindow DEF WindowInv, TypeInv
    <3>2. /\ n < newest => newest = base_ext /\ newest = n + 1
          /\ Seq16(base_ext) # 0 =>
                Turns(n) = IF Wraps(Seq16(n)) THEN Turns(newest) + 1 ELSE Turns(newest)
      <4>1. ~(Udelta(Seq16(n)) > SEQ_MOD - MAX_MISORDER)
        <5>1. Udelta(Seq16(n)) \in Nat
          BY SeqAssumption, UdeltaOf, ModRange, <1>1, <3>1 DEF TypeInv, TypeOK, Seqno
        <5> QED
          BY <2>2, <5>1, SeqAssumption
      <4> QED
        BY <1>1, <2>1, <3>1, <4>1, Near DEF WindowInv
    <3>3. base_ext' <= newest' + 1
      BY <1>1, <2>1, <2>2, <2>5, <3>1, <3>2 DEF WindowInv, TypeInv
    <3>4. Seq16(base_ext)' = Seq16(base_ext) /\ Turns(base_ext)' = Turns(base_ext) /\ Turns(newest)' = Turns(n)
      BY <2>2 DEF Seq16, Turns
    <3>5. Turns(base_ext) \in Nat /\ Turns(newest) \in Nat /\ cycles \in Nat
      BY <1>1, Division DEF TypeInv, TypeOK
    <3>6. Seq16(base_ext) # 0 => cycles' + Turns(base_ext) = Turns(n)
      BY <2>1, <2>2, <2>5, <3>2, <3>5 DEF WindowInv
    <3> QED
      BY <1>1, <2>1, <2>2, <3>3, <3>4, <3>6, InWindow
  <2> QED
    BY <1>1, <2>2, <2>3, <2>4, <2>5 DEF WindowInv
<1>4. ASSUME NEW n \in first .. MaxExt, PacketRefused(n), probation' = 0 PROVE WindowInv'
  <2>1. NetworkDelivers(n) /\ probation = 0
    BY <1>1, <1>4, SeqAssumption DEF PacketRefused, Refused, ProbationStep, ProbationRestart,
       JumpSuspected, LargeJump, Misordered, TypeInv, TypeOK
  <2>2. /\ max_seq' = max_seq /\ cycles' = cycles /\ base_ext' = base_ext /\ newest' = newest
        /\ steady' = steady /\ Udelta(Seq16(n)) >= MAX_DROPOUT
    <3>1. CASE JumpSuspected(Seq16(n))
      BY <1>4, <3>1 DEF PacketRefused, JumpSuspected, LargeJump
    <3>2. CASE Misordered(Seq16(n))
      <4>1. Udelta(Seq16(n)) \in Nat
        BY SeqAssumption, UdeltaOf, ModRange, <1>1, <2>1, InWindow DEF TypeInv, TypeOK, Seqno
      <4> QED
        BY <1>4, <3>2, <4>1, SeqAssumption DEF PacketRefused, Misordered, trackerVars
    <3> QED
      BY <1>4, <2>1, <3>1, <3>2, SeqAssumption DEF PacketRefused, Refused, ProbationStep, ProbationRestart
  <2>3. ASSUME steady PROVE top' = top
    <3>1. n \in Nat /\ n <= newest + MaxGap + MaxLag /\ newest <= n + MaxLag
      BY <1>1, <2>1, <2>3, InWindow DEF WindowInv, TypeInv
    <3>2. n < newest
      <4>1. Udelta(Seq16(n)) \in Nat
        BY SeqAssumption, UdeltaOf, ModRange, <1>1, <3>1 DEF TypeInv, TypeOK, Seqno
      <4> QED
        BY <1>1, <2>1, <2>2, <3>1, <4>1, Near, SeqAssumption DEF WindowInv
    <3> QED
      BY <1>1, <2>1, <3>1, <3>2, InWindow DEF WindowInv, TypeInv
  <2>4. top \in Nat /\ top' \in Nat /\ top' >= top
    BY <1>1, <2>1, InWindow DEF TypeInv
  <2>5. /\ Seq16(base_ext)' = Seq16(base_ext) /\ Turns(base_ext)' = Turns(base_ext)
        /\ Turns(newest)' = Turns(newest) /\ (Tracks(newest) => Tracks(newest)')
    BY <2>2 DEF Seq16, Turns, Tracks, SeqPrev
  <2> QED
    BY <1>1, <2>1, <2>2, <2>3, <2>4, <2>5 DEF WindowInv, TypeInv
<1>5. CASE SourceRestarts
  <2>1. top \in Nat /\ top' \in Nat /\ top' >= top
    BY <1>1, <1>5 DEF SourceRestarts, TypeInv
  <2> QED
    BY <1>1, <1>5, <2>1 DEF SourceRestarts, trackerVars, WindowInv, TypeInv, Tracks, Seq16, SeqPrev
<1>6. CASE Report \/ UNCHANGED vars
  BY <1>1, <1>6 DEF Report, MakeReport, vars, trackerVars, sourceVars, WindowInv, Tracks,
     Seq16, SeqPrev, Turns
<1>7. CASE probation' # 0
  BY <1>1, <1>7 DEF WindowInv
<1> QED
  BY <1>2, <1>3, <1>4, <1>5, <1>6, <1>7 DEF Next

\* cycles counts the wraps of the extended number since the base, whatever the
\* network loses, repeats or delays within a window shorter than MAX_DROPOUT.
THEOREM WrapsCountedOnce == Spec => []WrapsCounted
<1>1. WindowInv => WrapsCounted
  <2> SUFFICES ASSUME WindowInv, probation = 0, steady, Seq16(base_ext) # 0
               PROVE  cycles = Turns(newest) - Turns(base_ext)
    BY DEF WrapsCounted, Turns
  <2>1. cycles \in Nat /\ Turns(base_ext) \in Nat /\ Turns(newest) \in Nat
    BY Division DEF WindowInv, TypeInv, TypeOK
  <2> QED
    BY <2>1 DEF WindowInv
<1> QED
  BY <1>1, WindowInit, WindowStep, PTL DEF Spec

-----------------------------------------------------------------------------
(* The extended number                                                     *)

\* The packet the base was set by never looks like a jump again.
LEMMA BaseNoJump ==
    ASSUME WindowInv, NEW n \in first .. MaxExt, n = base_ext, SourceResynced(n)
    PROVE  FALSE
<1> USE SeqAssumption, SourceAssumption
<1>1. /\ NetworkDelivers(n) /\ probation = 0
      /\ Udelta(Seq16(n)) >= MAX_DROPOUT /\ Udelta(Seq16(n)) <= SEQ_MOD - MAX_MISORDER
  BY DEF SourceResynced, JumpConfirmed, LargeJump
<1>2. TypeInv /\ Tracks(newest)
  BY <1>1 DEF WindowInv
<1>3. n \in Nat /\ n <= newest + MaxGap + MaxLag /\ newest <= n + MaxLag
  BY <1>1, <1>2, InWindow DEF WindowInv, TypeInv
<1>4. Udelta(Seq16(n)) \in Nat
  BY UdeltaOf, ModRange, <1>2, <1>3 DEF TypeInv, TypeOK, Seqno
<1> QED
  BY <1>1, <1>2, <1>3, <1>4, Near

\* The extended number a report carries never falls while the base stays: a
\* packet in order adds its distance, and only a re-base starts it again.
THEOREM ExseqnoGrows == Spec => ExseqnoNeverGoesBack
<1>1. CountInv /\ WindowInv /\ [Next]_vars
        => [probation = 0 /\ base_ext' = base_ext => MaxExseqno' >= MaxExseqno]_vars
  <2> SUFFICES ASSUME CountInv, WindowInv, Next, probation = 0, base_ext' = base_ext
               PROVE  MaxExseqno' >= MaxExseqno
    OBVIOUS
  <2>1. MaxExseqno \in Nat
    BY OneMore, SeqAssumption DEF MaxExseqno, CountInv, TypeInv, TypeOK, Seqno
  <2>2. ASSUME NEW n \in first .. MaxExt, SourceValidated(n) PROVE FALSE
    BY <2>2 DEF SourceValidated, ProbationOver
  <2>3. ASSUME NEW n \in first .. MaxExt, PacketInOrder(n) PROVE MaxExseqno' >= MaxExseqno
    <3>1. Seq16(n) \in Seqno /\ InOrder(Seq16(n)) /\ base_seq' = base_seq
      BY <2>3, DeliveryTypes DEF CountInv, PacketInOrder, InOrder
    <3>2. Counted' = Counted + Udelta(Seq16(n)) /\ Udelta(Seq16(n)) \in Nat
      BY <3>1, InOrderCounts, SeqAssumption
    <3>3. MaxExseqno' \in Nat
      <4>1. TypeInv'
        BY TypeStep DEF CountInv
      <4> QED
        BY <4>1, OneMore, SeqAssumption DEF MaxExseqno, TypeInv, TypeOK, Seqno
    <3> QED
      BY <2>1, <3>1, <3>2, <3>3, SeqAssumption DEF Counted, CountInv, TypeInv, TypeOK, Seqno
  <2>4. ASSUME NEW n \in first .. MaxExt, SourceResynced(n) PROVE FALSE
    BY <2>4, BaseNoJump DEF SourceResynced, Rebased
  <2>5. ASSUME NEW n \in first .. MaxExt, PacketRefused(n) PROVE MaxExseqno' = MaxExseqno
    BY <2>5, SeqAssumption DEF PacketRefused, Refused, ProbationStep, ProbationRestart,
       JumpSuspected, Misordered, trackerVars, MaxExseqno
  <2>6. CASE SourceRestarts \/ Report
    BY <2>1, <2>6 DEF SourceRestarts, Report, MakeReport, trackerVars, MaxExseqno
  <2> QED
    BY <2>1, <2>2, <2>3, <2>4, <2>5, <2>6 DEF Next
<1> QED
  BY <1>1, CountInit, CountStep, WindowInit, WindowStep, PTL DEF Spec, ExseqnoNeverGoesBack

=============================================================================
