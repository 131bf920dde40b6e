------------------------ MODULE RtcpSchedulerProofs ------------------------
(***************************************************************************)
(* Proofs about RtcpScheduler, for every number of slots and every set of  *)
(* intervals: the count of requests is right, and the rtcp thread waits    *)
(* only when no session is being reported for.                             *)
(***************************************************************************)
EXTENDS RtcpScheduler, FiniteSetTheorems, TLAPS

\* The two halves of SchedInv: the first is inductive by itself.
CountInv == TypeOK /\ RequestsCounted /\ WaitsOnlyWithoutRequest
DeadlineInv == DeadlinesScanned /\ KnownDeadlinesKept

\* The sessions that report fill slots: there are finitely many.
LEMMA DoingFinite ==
    ASSUME TypeOK
    PROVE  IsFiniteSet(doing) /\ Cardinality(doing) \in Nat
<1>1. IsFiniteSet(Slots)
  BY SchedAssumption, FS_Interval DEF Slots
<1>2. doing \subseteq Slots
  BY SchedAssumption DEF TypeOK, Slots
<1>. QED
  BY <1>1, <1>2, FS_Subset, FS_CardinalityType

\* A request that starts adds one to the count, a request that ends takes one off.
LEMMA CountOneMore ==
    ASSUME TypeOK, NEW s, s \notin doing
    PROVE  Cardinality(doing \union {s}) = Cardinality(doing) + 1
BY DoingFinite, FS_AddElement

LEMMA CountOneLess ==
    ASSUME TypeOK, NEW s \in doing
    PROVE  /\ Cardinality(doing \ {s}) = Cardinality(doing) - 1
           /\ Cardinality(doing) - 1 \in Nat
           /\ Cardinality(doing) = 1 => doing \ {s} = {}
<1>1. /\ IsFiniteSet(doing \ {s})
      /\ Cardinality(doing \ {s}) = Cardinality(doing) - 1
  BY DoingFinite, FS_RemoveElement
<1>2. Cardinality(doing \ {s}) \in Nat
  BY <1>1, FS_CardinalityType
<1>3. Cardinality(doing) = 1 => doing \ {s} = {}
  BY <1>1, FS_EmptySet
<1>. QED
  BY <1>1, <1>2, <1>3

-----------------------------------------------------------------------------
LEMMA InitEstablishesCount == Init => CountInv
<1>. SUFFICES ASSUME Init PROVE CountInv
  OBVIOUS
<1>1. TypeOK
  <2>1. MAX_SCHED_SESSION \in Nat
    BY SchedAssumption
  <2>2. dist \in [Slots -> Nat]
    BY DEF Init
  <2>3. i \in 1 .. MAX_SCHED_SESSION + 1 /\ n_session \in 0 .. MAX_SCHED_SESSION
        /\ reported \in 0 .. MAX_SCHED_SESSION
    BY <2>1 DEF Init
  <2>. QED
    BY <2>2, <2>3 DEF Init, TypeOK
<1>2. RequestsCounted
  BY FS_EmptySet DEF Init, RequestsCounted
<1>3. WaitsOnlyWithoutRequest
  BY DEF Init, WaitsOnlyWithoutRequest
<1>. QED
  BY <1>1, <1>2, <1>3 DEF CountInv

\* What the sessions and the stopping thread do.
LEMMA SessionStepKeepsCount ==
    ASSUME CountInv,
           \/ SchedAdd \/ DoneStop \/ DoneSignal \/ DoneWait
           \/ \E s \in Slots : SessionJoins(s) \/ SchedRtcpOut(s) \/ SessionLeaves(s)
    PROVE  CountInv'
<1>. USE DEF CountInv, TypeOK, RequestsCounted, WaitsOnlyWithoutRequest, ThreadKeeps,
             requestVars, clockVars, doneVars, Slots
<1>1. CASE SchedAdd
  BY <1>1, SchedAssumption DEF SchedAdd
<1>2. CASE DoneStop
  BY <1>2 DEF DoneStop, sessionVars
<1>3. CASE DoneSignal
  BY <1>3 DEF DoneSignal, sessionVars
<1>4. CASE DoneWait
  BY <1>4 DEF DoneWait, sessionVars
<1>5. ASSUME NEW s \in Slots, SessionJoins(s) \/ SchedRtcpOut(s) \/ SessionLeaves(s)
      PROVE  CountInv'
  <2>1. CASE SessionJoins(s)
    BY <2>1 DEF SessionJoins
  <2>2. CASE SchedRtcpOut(s)
    BY <2>2 DEF SchedRtcpOut
  <2>3. CASE SessionLeaves(s)
    BY <2>3 DEF SessionLeaves
  <2>. QED
    BY <1>5, <2>1, <2>2, <2>3
<1>. QED
  BY <1>1, <1>2, <1>3, <1>4, <1>5

\* The first half of a round: the steps that wait, start and stop requests.
LEMMA RequestStepKeepsCount ==
    ASSUME CountInv,
           \/ RoundBegins \/ WaitRequest \/ RequestComes \/ SeeStop \/ ScanBegins
           \/ ScanIdle \/ ScanStops \/ ScanStarts \/ ScanStartsAgain \/ ScanRunning \/ ScanEnds
    PROVE  CountInv'
<1>. USE SchedAssumption
     DEF CountInv, TypeOK, RequestsCounted, WaitsOnlyWithoutRequest, OthersKeep,
         sessionVars, doneVars, requestVars, clockVars, Slots
<1>1. CASE RoundBegins
  <2>1. n_rtcp_request = 0 => doing = {}
    BY DoingFinite, FS_EmptySet
  <2>. QED
    BY <1>1, <2>1 DEF RoundBegins
<1>2. CASE WaitRequest
  BY <1>2 DEF WaitRequest
<1>3. CASE RequestComes
  BY <1>3 DEF RequestComes
<1>4. CASE SeeStop
  BY <1>4 DEF SeeStop
<1>5. CASE ScanBegins
  <2>1. \A s \in Slots : (IF dist[s] > elapsed THEN dist[s] - elapsed ELSE 0) \in Nat
    OBVIOUS
  <2>2. dist' \in [Slots -> Nat]
    BY <1>5, <2>1 DEF ScanBegins
  <2>. QED
    BY <1>5, <2>2 DEF ScanBegins
<1>6. CASE ScanIdle
  BY <1>6 DEF ScanIdle, Scanned
<1>7. CASE ScanStops
  <2>1. i \in doing
    BY <1>7 DEF ScanStops
  <2>2. /\ n_rtcp_request' \in Nat
        /\ n_rtcp_request' = Cardinality(doing')
        /\ n_rtcp_request = 1 => doing' = {}
    BY <1>7, <2>1, CountOneLess DEF ScanStops
  <2>3. ~waiting
    BY <1>7 DEF ScanStops
  <2>4. i + 1 \in 1 .. MAX_SCHED_SESSION + 1
    BY <1>7 DEF ScanStops
  <2>5. CASE n_rtcp_request = 1
    BY <1>7, <2>2, <2>5 DEF ScanStops
  <2>6. CASE n_rtcp_request # 1
    BY <1>7, <2>2, <2>3, <2>4, <2>6 DEF ScanStops, Scanned
  <2>. QED
    BY <2>5, <2>6
<1>8. CASE ScanStarts
  <2>1. n_rtcp_request' = Cardinality(doing')
    BY <1>8, CountOneMore DEF ScanStarts, Start
  <2>. QED
    BY <1>8, <2>1, SMTT(30) DEF ScanStarts, Start, Scanned
<1>9. CASE ScanStartsAgain
  <2>1. n_rtcp_request' = Cardinality(doing')
    BY <1>9, CountOneMore DEF ScanStartsAgain, Start
  <2>. QED
    BY <1>9, <2>1, SMTT(30) DEF ScanStartsAgain, Start, Scanned
<1>10. CASE ScanRunning
  <2>1. i \in Slots /\ dist[i] \in Nat /\ i + 1 \in 1 .. MAX_SCHED_SESSION + 1
    BY <1>10 DEF ScanRunning
  <2>. QED
    BY <1>10, <2>1 DEF ScanRunning, Nearest, Scanned
<1>11. CASE ScanEnds
  BY <1>11 DEF ScanEnds
<1>. QED
  BY <1>1, <1>2, <1>3, <1>4, <1>5, <1>6, <1>7, <1>8, <1>9, <1>10, <1>11

\* The second half: reports, input, poll and sleep; and the clock.
LEMMA ServeStepKeepsCount ==
    ASSUME CountInv,
           \/ (\E s \in Slots : SendRtcp(s) \/ ReceiveRtcp(s)) \/ Poll \/ SleepEnds
           \/ Tick
    PROVE  CountInv'
<1>. USE SchedAssumption
     DEF CountInv, TypeOK, RequestsCounted, WaitsOnlyWithoutRequest, OthersKeep,
         sessionVars, doneVars, requestVars, clockVars, Slots
<1>1. ASSUME NEW s \in Slots, SendRtcp(s)
      PROVE  CountInv'
  <2>1. s \in doing
    BY <1>1 DEF SendRtcp, First
  <2>2. need' \subseteq 1 .. n_session /\ joining \subseteq need'
    BY <1>1, <2>1 DEF SendRtcp, MayGetPeer
  <2>3. dist' \in [Slots -> Nat] /\ dt_min' \in Nat
    BY <1>1 DEF SendRtcp
  <2>. QED
    BY <1>1, <2>2, <2>3 DEF SendRtcp
<1>2. ASSUME NEW s \in Slots, ReceiveRtcp(s)
      PROVE  CountInv'
  <2>1. need' \subseteq 1 .. n_session /\ joining \subseteq need'
    BY <1>2 DEF ReceiveRtcp, First, MayGetPeer
  <2>. QED
    BY <1>2, <2>1 DEF ReceiveRtcp
<1>3. CASE Poll
  BY <1>3 DEF Poll
<1>4. CASE SleepEnds
  BY <1>4 DEF SleepEnds
<1>5. CASE Tick
  BY <1>5 DEF Tick
<1>. QED
  BY <1>1, <1>2, <1>3, <1>4, <1>5

LEMMA NextKeepsCount == CountInv /\ [Next]_vars => CountInv'
<1>1. ASSUME CountInv, Next PROVE CountInv'
  BY <1>1, SessionStepKeepsCount, RequestStepKeepsCount, ServeStepKeepsCount DEF Next, ThreadStep
<1>2. ASSUME CountInv, UNCHANGED vars PROVE CountInv'
  BY <1>2 DEF CountInv, TypeOK, RequestsCounted, WaitsOnlyWithoutRequest, vars, sessionVars,
              doneVars, requestVars, clockVars
<1>. QED
  BY <1>1, <1>2

-----------------------------------------------------------------------------
(***************************************************************************)
(* The deadlines.  A step that leaves pc, i, the running sessions and      *)
(* their distances alone leaves the bound on dt_min alone.                 *)
(***************************************************************************)
LEMMA ScanKeepsDeadlines ==
    ASSUME CountInv, DeadlineInv,
           ScanIdle \/ ScanStops \/ ScanStarts \/ ScanStartsAgain \/ ScanRunning \/ ScanEnds
    PROVE  DeadlineInv'
<1>. USE DEF CountInv, TypeOK, DeadlineInv, DeadlinesScanned, KnownDeadlinesKept, OthersKeep,
             sessionVars, doneVars, requestVars, clockVars, Slots, Scanned
<1>0. i \in Nat /\ doing \subseteq Nat
  BY SchedAssumption
<1>1. CASE ScanIdle
  BY <1>0, <1>1 DEF ScanIdle
<1>2. CASE ScanStops
  BY <1>0, <1>2 DEF ScanStops
<1>3. CASE ScanStarts
  <2>1. PICK dt \in Intervals : Start(dt)
    BY <1>3 DEF ScanStarts
  <2>2. n_rtcp_request = 0 => doing = {}
    BY DoingFinite, FS_EmptySet DEF RequestsCounted
  <2>3. ASSUME NEW s \in doing \ started, s < i
        PROVE  /\ s \in expired' \/ (0 < dt_min' /\ dt_min' <= dist'[s])
    BY <1>3, <2>1, <2>2, <2>3 DEF ScanStarts, Start
  <2>4. doing' \ started' \subseteq doing \ started /\ i \notin doing' \ started'
    BY <2>1 DEF Start
  <2>5. i' = i + 1 /\ pc' = "scan"
    BY <1>3 DEF ScanStarts
  <2>6. ASSUME NEW s \in doing' \ started', s < i'
        PROVE  s \in expired' \/ (0 < dt_min' /\ dt_min' <= dist'[s])
    <3>1. s \in doing \ started /\ s # i /\ s \in Nat
      BY <1>0, <2>4
    <3>2. s < i
      BY <1>0, <2>5, <2>6, <3>1
    <3>. QED
      BY <2>3, <3>1, <3>2
  <2>. QED
    BY <2>5, <2>6
<1>4. CASE ScanStartsAgain
  <2>1. PICK dt \in Intervals : Start(dt)
    BY <1>4 DEF ScanStartsAgain
  <2>2. doing = {}
    BY <1>4 DEF ScanStartsAgain, WaitsOnlyWithoutRequest
  <2>3. doing' \ started' = {}
    BY <2>1, <2>2 DEF Start
  <2>. QED
    BY <1>4, <2>3 DEF ScanStartsAgain
<1>5. CASE ScanRunning
  <2>1. dist[i] \in Nat /\ dt_min \in Nat
    BY <1>5, SchedAssumption DEF ScanRunning
  <2>2. ASSUME NEW s \in doing \ started, s < i + 1
        PROVE  s \in expired' \/ (0 < dt_min' /\ dt_min' <= dist[s])
    <3>1. dist[s] \in Nat /\ s \in Nat
      BY SchedAssumption
    <3>2. s < i \/ s = i
      BY <1>0, <2>2, <3>1
    <3>3. CASE dist[i] > 0
      BY <1>5, <2>1, <3>1, <3>2, <3>3 DEF ScanRunning, Nearest
    <3>4. CASE ~(dist[i] > 0)
      BY <1>5, <2>1, <3>1, <3>2, <3>4 DEF ScanRunning
    <3>. QED
      BY <3>3, <3>4
  <2>. QED
    BY <1>5, <2>2 DEF ScanRunning
<1>6. CASE ScanEnds
  <2>1. \A s \in doing : s < i
    BY <1>0, <1>6, SchedAssumption DEF ScanEnds
  <2>. QED
    BY <1>6, <2>1 DEF ScanEnds
<1>. QED
  BY <1>1, <1>2, <1>3, <1>4, <1>5, <1>6

LEMMA ServeKeepsDeadlines ==
    ASSUME CountInv, DeadlineInv, NEW s \in Slots, SendRtcp(s)
    PROVE  DeadlineInv'
<1>. USE DEF CountInv, TypeOK, DeadlineInv, DeadlinesScanned, KnownDeadlinesKept, Slots
<1>1. PICK dt \in Intervals :
        /\ dist' = [dist EXCEPT ![s] = dt]
        /\ dt_min' = IF dt < dt_min THEN dt ELSE dt_min
  BY DEF SendRtcp
<1>2. dt \in Nat /\ dt_min \in Nat
  BY SchedAssumption
<1>3. ASSUME NEW t \in doing \ started, t \notin expired'
      PROVE  dt_min' <= dist'[t]
  <2>1. t \in Slots /\ dist[t] \in Nat
    BY SchedAssumption
  <2>2. CASE t = s
    BY <1>1, <1>2, <2>1, <2>2
  <2>3. CASE t # s
    <3>1. dt_min <= dist[t]
      BY <1>3, <2>3 DEF SendRtcp
    <3>. QED
      BY <1>1, <1>2, <2>1, <2>3, <3>1
  <2>. QED
    BY <2>2, <2>3
<1>4. pc' = "serve" /\ doing' = doing /\ started' = started
  BY DEF SendRtcp, clockVars
<1>. QED
  BY <1>3, <1>4

\* The remaining steps leave the deadlines alone, or leave no state they are about.
LEMMA OtherStepKeepsDeadlines ==
    ASSUME CountInv, DeadlineInv,
           \/ SchedAdd \/ DoneStop \/ DoneSignal \/ DoneWait
           \/ \E s \in Slots : SessionJoins(s) \/ SchedRtcpOut(s) \/ SessionLeaves(s)
           \/ RoundBegins \/ WaitRequest \/ RequestComes \/ SeeStop \/ ScanBegins
           \/ (\E s \in Slots : ReceiveRtcp(s)) \/ Poll \/ SleepEnds
           \/ Tick \/ UNCHANGED vars
    PROVE  DeadlineInv'
<1>. USE DEF DeadlineInv, DeadlinesScanned, KnownDeadlinesKept, ThreadKeeps, OthersKeep,
             requestVars
<1>1. CASE SchedAdd \/ DoneStop \/ DoneSignal \/ DoneWait
  BY <1>1 DEF SchedAdd, DoneStop, DoneSignal, DoneWait
<1>2. CASE \E s \in Slots : SessionJoins(s) \/ SchedRtcpOut(s) \/ SessionLeaves(s)
  BY <1>2 DEF SessionJoins, SchedRtcpOut, SessionLeaves
<1>3. CASE RoundBegins \/ WaitRequest \/ RequestComes \/ SeeStop
  BY <1>3 DEF RoundBegins, WaitRequest, RequestComes, SeeStop
<1>4. CASE ScanBegins
  <2>1. \A s \in doing : ~(s < 1)
    BY SchedAssumption DEF CountInv, TypeOK
  <2>. QED
    BY <1>4, <2>1 DEF ScanBegins
<1>5. CASE \E s \in Slots : ReceiveRtcp(s)
  BY <1>5 DEF ReceiveRtcp
<1>6. CASE Poll
  BY <1>6 DEF Poll
<1>7. CASE SleepEnds
  BY <1>7 DEF SleepEnds
<1>8. CASE Tick
  BY <1>8 DEF Tick
<1>9. CASE UNCHANGED vars
  BY <1>9 DEF vars
<1>. QED
  BY <1>1, <1>2, <1>3, <1>4, <1>5, <1>6, <1>7, <1>8, <1>9

LEMMA InvInductive ==
    /\ Init => CountInv /\ DeadlineInv
    /\ CountInv /\ DeadlineInv /\ [Next]_vars => (CountInv /\ DeadlineInv)'
<1>1. Init => DeadlineInv
  BY DEF Init, DeadlineInv, DeadlinesScanned, KnownDeadlinesKept
<1>2. ASSUME CountInv, DeadlineInv, [Next]_vars PROVE DeadlineInv'
  BY <1>2, ScanKeepsDeadlines, ServeKeepsDeadlines, OtherStepKeepsDeadlines DEF Next, ThreadStep
<1>. QED
  BY <1>1, <1>2, InitEstablishesCount, NextKeepsCount

(***************************************************************************)
(* The inductive invariant of the scheduler holds in every state; it       *)
(* includes the type of every variable.                                    *)
(***************************************************************************)
THEOREM SchedulerInvariant == Spec => []SchedInv
<1>1. CountInv /\ DeadlineInv => SchedInv
  BY DEF SchedInv, CountInv, DeadlineInv
<1>. QED
  BY <1>1, InvInductive, PTL DEF Spec

(***************************************************************************)
(* n_rtcp_request is the number of sessions that do rtcp, and the rtcp     *)
(* thread of simple_schedule_rtcp waits without a time-out only when there *)
(* is none.                                                                *)
(***************************************************************************)
THEOREM RequestCountCorrect == Spec => []RequestsCounted
<1>1. SchedInv => RequestsCounted
  BY DEF SchedInv
<1>. QED
  BY <1>1, SchedulerInvariant, PTL

(***************************************************************************)
(* simple_schedule_rtcp never sleeps longer than the distance of a         *)
(* deadline that was set before this round, however many sessions start,   *)
(* stop, report or receive meanwhile.                                      *)
(***************************************************************************)
THEOREM KnownDeadlinesNotOverslept == Spec => []KnownDeadlinesKept
<1>1. SchedInv => KnownDeadlinesKept
  BY DEF SchedInv
<1>. QED
  BY <1>1, SchedulerInvariant, PTL

=============================================================================
