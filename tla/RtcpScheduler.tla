---------------------------- MODULE RtcpScheduler ----------------------------
(***************************************************************************)
(* The rtcp thread of the simple scheduler (simple_schedule_rtcp of        *)
(* libxrtp/psched_simple.c), the sessions that ask it to report            *)
(* (simple_sched_rtcp_out), the ports it polls (simple_sched_rtcp_in) and  *)
(* the thread that stops it (simple_sched_done).                           *)
(*                                                                         *)
(* Each round the thread waits while nobody needs rtcp, reads the clock,   *)
(* scans the slots, sends for those whose deadline is reached, receives    *)
(* for those that have input, polls the ports and sleeps until the next    *)
(* deadline.  rtcp_lock is taken by this thread alone, and `lock' is held  *)
(* over no wait: neither is a variable here.  The signals are sent without *)
(* either, so that one that comes just before a wait is lost.              *)
(*                                                                         *)
(* Time is relative: dist is next_lrts - now, with the `now' the thread    *)
(* read last, and elapsed is what has passed since it did.                 *)
(***************************************************************************)
EXTENDS Naturals, FiniteSets, FiniteSetsExt

CONSTANTS
    MAX_SCHED_SESSION,  \* slots of the scheduler
    Intervals           \* what session_rtcp_interval returns: random in the code

ASSUME SchedAssumption ==
    /\ MAX_SCHED_SESSION \in Nat \ {0}
    /\ Intervals \subseteq Nat \ {0} /\ Intervals # {} /\ IsFiniteSet(Intervals)

VARIABLES
    n_session,       \* sessions added, in slots 1 .. n_session
    need,            \* sessions with a peer or a pending join (session_need_rtcp)
    joining,         \* sessions about to call rtcp_out
    stop, pc_done,   \* simple_sched_done
    pc, i,           \* the rtcp thread and the slot it scans
    waiting,         \* it is blocked on wait_rtcp_request
    n_rtcp_request,
    doing,           \* sessions with unit->rtcp_doing
    expired,         \* slots whose deadline this round's scan found reached
    arrived,         \* sessions with unit->rtcp_arrived
    dist, elapsed,   \* next_lrts - now, and time since now was read
    dt_min, sleep_left,
    started,         \* sessions whose reports were started in this round
    reported         \* session that reported last, 0: none since it was started

sessionVars == <<n_session, need, joining>>
doneVars == <<stop, pc_done>>
requestVars == <<n_rtcp_request, doing, expired, dist, dt_min, started>>
clockVars == <<elapsed, sleep_left>>
vars == <<sessionVars, doneVars, pc, i, waiting, requestVars, arrived, clockVars, reported>>

Slots == 1 .. MAX_SCHED_SESSION
MaxInterval == Max(Intervals)

Init ==
    /\ n_session = 0 /\ need = {} /\ joining = {}
    /\ stop = FALSE /\ pc_done = "idle"
    /\ pc = "top" /\ i = 1 /\ waiting = FALSE
    /\ n_rtcp_request = 0 /\ doing = {} /\ expired = {} /\ arrived = {}
    /\ dist = [s \in Slots |-> 0] /\ elapsed = 0
    /\ dt_min = 0 /\ sleep_left = 0 /\ started = {}
    /\ reported = 0

-----------------------------------------------------------------------------
(***************************************************************************)
(* The sessions and the thread that ends the scheduler.                    *)
(***************************************************************************)
ThreadKeeps == UNCHANGED <<pc, i, requestVars, arrived, clockVars, reported>>

\* Mutant of SchedAdd: the slots never run out.
SchedAddUnbounded ==
    /\ n_session <= MAX_SCHED_SESSION
    /\ n_session' = n_session + 1
    /\ UNCHANGED <<need, joining, doneVars, waiting>>
    /\ ThreadKeeps

\* simple_sched_add, under `lock': refused when the slots are full.
SchedAdd ==
    /\ n_session < MAX_SCHED_SESSION
    /\ n_session' = n_session + 1
    /\ UNCHANGED <<need, joining, doneVars, waiting>>
    /\ ThreadKeeps

\* session_add_cname, session_join: the peer first, the signal later.
SessionJoins(s) ==
    /\ s \in 1 .. n_session
    /\ s \notin need
    /\ need' = need \union {s}
    /\ joining' = joining \union {s}
    /\ UNCHANGED <<n_session, doneVars, waiting>>
    /\ ThreadKeeps

SchedRtcpOut(s) ==
    /\ s \in joining
    /\ joining' = joining \ {s}
    /\ waiting' = FALSE
    /\ UNCHANGED <<n_session, need, doneVars>>
    /\ ThreadKeeps

\* session_delete_cname, session_move_member: the last peer goes.
SessionLeaves(s) ==
    /\ s \in need \ joining
    /\ need' = need \ {s}
    /\ UNCHANGED <<n_session, joining, doneVars, waiting>>
    /\ ThreadKeeps

DoneStop ==
    /\ pc_done = "idle"
    /\ stop' = TRUE
    /\ pc_done' = "signal"
    /\ UNCHANGED <<sessionVars, waiting>>
    /\ ThreadKeeps

DoneSignal ==
    /\ pc_done = "signal"
    /\ waiting' = FALSE
    /\ pc_done' = "wait"
    /\ UNCHANGED <<sessionVars, stop>>
    /\ ThreadKeeps

\* xthr_wait: the thread has ended.
DoneWait ==
    /\ pc_done = "wait"
    /\ pc = "ended"
    /\ pc_done' = "done"
    /\ UNCHANGED <<sessionVars, stop, waiting>>
    /\ ThreadKeeps

Tick ==
    /\ elapsed < MaxInterval \/ sleep_left > 0
    /\ elapsed' = IF elapsed < MaxInterval THEN elapsed + 1 ELSE elapsed
    /\ sleep_left' = IF sleep_left > 0 THEN sleep_left - 1 ELSE 0
    /\ UNCHANGED <<sessionVars, doneVars, pc, i, waiting, requestVars, arrived, reported>>

-----------------------------------------------------------------------------
(***************************************************************************)
(* The rtcp thread, first half: wait for a request, scan the slots.        *)
(***************************************************************************)
OthersKeep == UNCHANGED <<sessionVars, doneVars>>

\* Under `lock': stop, or see whether there is anything to do.
RoundBegins ==
    /\ pc = "top"
    /\ pc' = IF stop THEN "ended" ELSE IF n_rtcp_request = 0 THEN "idle" ELSE "see_stop"
    /\ UNCHANGED <<i, waiting, requestVars, arrived, clockVars, reported>>
    /\ OthersKeep

\* `lock' is free again, and now the thread waits.
WaitRequest ==
    /\ pc = "idle"
    /\ waiting' = TRUE
    /\ pc' = "wait"
    /\ UNCHANGED <<i, requestVars, arrived, clockVars, reported>>
    /\ OthersKeep

RequestComes ==
    /\ pc = "wait"
    /\ ~waiting
    /\ pc' = "see_stop"
    /\ UNCHANGED <<i, waiting, requestVars, arrived, clockVars, reported>>
    /\ OthersKeep

SeeStop ==
    /\ pc = "see_stop"
    /\ stop
    /\ pc' = "ended"
    /\ UNCHANGED <<i, waiting, requestVars, arrived, clockVars, reported>>
    /\ OthersKeep

\* now = time_msec_now: every distance shrinks by what has elapsed.
ScanBegins ==
    /\ pc = "see_stop"
    /\ ~stop
    /\ dist' = [s \in Slots |-> IF dist[s] > elapsed THEN dist[s] - elapsed ELSE 0]
    /\ elapsed' = 0
    /\ dt_min' = 0 /\ started' = {}
    /\ i' = 1
    /\ pc' = "scan"
    /\ UNCHANGED <<waiting, n_rtcp_request, doing, expired, arrived, sleep_left, reported>>
    /\ OthersKeep

Scanned ==
    /\ i' = i + 1
    /\ pc' = "scan"

\* No peer and no request: next slot.
ScanIdle ==
    /\ pc = "scan"
    /\ i <= n_session
    /\ i \notin need \union doing
    /\ Scanned
    /\ UNCHANGED <<waiting, requestVars, arrived, clockVars, reported>>
    /\ OthersKeep

\* Mutant of ScanStops: the request is still counted.
ScanStopsUncounted ==
    /\ pc = "scan"
    /\ i <= n_session
    /\ i \in doing \ need
    /\ doing' = doing \ {i}
    /\ expired' = expired \ {i}
    /\ Scanned
    /\ UNCHANGED <<n_rtcp_request, dist, dt_min, started, waiting, arrived, clockVars, reported>>
    /\ OthersKeep

\* Mutant of ScanStops: the scan waits although one request is left.
ScanStopsWaits ==
    /\ pc = "scan"
    /\ i <= n_session
    /\ i \in doing \ need
    /\ doing' = doing \ {i}
    /\ expired' = expired \ {i}
    /\ n_rtcp_request' = n_rtcp_request - 1
    /\ waiting' = TRUE /\ pc' = "wait_again"
    /\ UNCHANGED <<i, dist, dt_min, started, arrived, clockVars, reported>>
    /\ OthersKeep

\* No peer any more: the request ends, and with the last one the scan waits.
ScanStops ==
    /\ pc = "scan"
    /\ i <= n_session
    /\ i \in doing \ need
    /\ doing' = doing \ {i}
    /\ expired' = expired \ {i}
    /\ n_rtcp_request' = n_rtcp_request - 1
    /\ IF n_rtcp_request = 1
         THEN waiting' = TRUE /\ pc' = "wait_again" /\ UNCHANGED i
         ELSE Scanned /\ UNCHANGED waiting
    /\ UNCHANGED <<dist, dt_min, started, arrived, clockVars, reported>>
    /\ OthersKeep

\* Resume/Start the rtcp: only the first request sets dt_min.
Start(dt) ==
    /\ dist' = [dist EXCEPT ![i] = dt]
    /\ dt_min' = IF n_rtcp_request = 0 THEN dt ELSE dt_min
    /\ doing' = doing \union {i}
    /\ started' = started \union {i}
    /\ n_rtcp_request' = n_rtcp_request + 1
    /\ UNCHANGED expired

ScanStarts ==
    /\ pc = "scan"
    /\ i <= n_session
    /\ i \in need \ doing
    /\ \E dt \in Intervals : Start(dt)
    /\ Scanned
    /\ reported' = IF reported = i THEN 0 ELSE reported
    /\ UNCHANGED <<waiting, arrived, clockVars>>
    /\ OthersKeep

\* Woken inside the scan: this slot starts, whoever it was that called rtcp_out.
ScanStartsAgain ==
    /\ pc = "wait_again"
    /\ ~waiting
    /\ \E dt \in Intervals : Start(dt)
    /\ Scanned
    /\ reported' = IF reported = i THEN 0 ELSE reported
    /\ UNCHANGED <<waiting, arrived, clockVars>>
    /\ OthersKeep

\* Mutant of Nearest: the farthest deadline.
Farthest(dt) == IF dt_min = 0 \/ dt > dt_min THEN dt ELSE dt_min

Nearest(dt) == IF dt_min = 0 \/ dt < dt_min THEN dt ELSE dt_min

ScanRunning ==
    /\ pc = "scan"
    /\ i <= n_session
    /\ i \in need \intersect doing
    /\ IF dist[i] > 0
         THEN /\ dt_min' = Nearest(dist[i])
              /\ UNCHANGED expired
         ELSE /\ expired' = expired \union {i}
              /\ UNCHANGED dt_min
    /\ Scanned
    /\ UNCHANGED <<n_rtcp_request, doing, dist, started, waiting, arrived, clockVars, reported>>
    /\ OthersKeep

ScanEnds ==
    /\ pc = "scan"
    /\ i > n_session
    /\ pc' = "serve"
    /\ UNCHANGED <<i, waiting, requestVars, arrived, clockVars, reported>>
    /\ OthersKeep

-----------------------------------------------------------------------------
(***************************************************************************)
(* Second half: serve the slots in order, poll, sleep.  A session that     *)
(* receives may learn of a new peer.                                       *)
(***************************************************************************)
MayGetPeer(s) == need' \in {need, need \union {s}}

First(slots, s) == s \in slots /\ \A t \in slots : s <= t

SendRtcp(s) ==
    /\ pc = "serve"
    /\ First(expired, s)
    /\ IF s \in arrived THEN MayGetPeer(s) ELSE UNCHANGED need
    /\ arrived' = arrived \ {s}
    /\ expired' = expired \ {s}
    /\ reported' = s
    /\ \E dt \in Intervals :
         /\ dist' = [dist EXCEPT ![s] = dt]
         /\ dt_min' = IF dt < dt_min THEN dt ELSE dt_min
    /\ UNCHANGED <<n_session, joining, doneVars, pc, i, waiting, n_rtcp_request, doing, started,
                   clockVars>>

ReceiveRtcp(s) ==
    /\ pc = "serve"
    /\ expired = {}
    /\ First(arrived, s)
    /\ arrived' = arrived \ {s}
    /\ MayGetPeer(s)
    /\ UNCHANGED <<n_session, joining, doneVars, pc, i, waiting, requestVars, clockVars, reported>>

\* portman_poll: each port with input calls simple_sched_rtcp_in.
Poll ==
    /\ pc = "serve"
    /\ expired = {}
    /\ arrived = {}
    /\ arrived' \in SUBSET (1 .. n_session)
    /\ sleep_left' = dt_min
    /\ pc' = "sleep"
    /\ UNCHANGED <<i, waiting, requestVars, elapsed, reported>>
    /\ OthersKeep

SleepEnds ==
    /\ pc = "sleep"
    /\ sleep_left = 0
    /\ pc' = "top"
    /\ UNCHANGED <<i, waiting, requestVars, arrived, clockVars, reported>>
    /\ OthersKeep

ThreadStep ==
    \/ RoundBegins \/ WaitRequest \/ RequestComes \/ SeeStop \/ ScanBegins
    \/ ScanIdle \/ ScanStops \/ ScanStarts \/ ScanStartsAgain \/ ScanRunning \/ ScanEnds
    \/ (\E s \in Slots : SendRtcp(s) \/ ReceiveRtcp(s)) \/ Poll \/ SleepEnds

Next ==
    \/ SchedAdd \/ DoneStop \/ DoneSignal \/ DoneWait
    \/ \E s \in Slots : SessionJoins(s) \/ SchedRtcpOut(s) \/ SessionLeaves(s)
    \/ ThreadStep
    \/ Tick

Spec == Init /\ [][Next]_vars

(***************************************************************************)
(* The threads run and time passes; nobody has to join, leave or stop.     *)
(***************************************************************************)
Fairness ==
    /\ WF_vars(ThreadStep)
    /\ WF_vars(Tick)
    /\ WF_vars(DoneSignal)
    /\ \A s \in Slots : WF_vars(SchedRtcpOut(s))

FairSpec == Spec /\ Fairness

-----------------------------------------------------------------------------
TypeOK ==
    /\ n_session \in 0 .. MAX_SCHED_SESSION
    /\ need \subseteq 1 .. n_session /\ joining \subseteq need
    /\ stop \in BOOLEAN /\ pc_done \in {"idle", "signal", "wait", "done"}
    /\ pc \in {"top", "idle", "wait", "see_stop", "scan", "wait_again", "serve", "sleep", "ended"}
    /\ i \in 1 .. MAX_SCHED_SESSION + 1 /\ waiting \in BOOLEAN
    /\ n_rtcp_request \in Nat
    /\ doing \subseteq 1 .. n_session /\ expired \subseteq Slots
    /\ arrived \subseteq 1 .. n_session
    /\ dist \in [Slots -> Nat] /\ elapsed \in Nat /\ dt_min \in Nat /\ sleep_left \in Nat
    /\ started \subseteq Slots /\ reported \in 0 .. MAX_SCHED_SESSION

(***************************************************************************)
(* n_rtcp_request is the number of units with rtcp_doing, through starts,  *)
(* stops and waits inside the scan: the thread waits for ever only when    *)
(* there is nobody to report for, and a deadline counts only while its     *)
(* session is doing rtcp.                                                  *)
(***************************************************************************)
RequestsCounted ==
    /\ n_rtcp_request = Cardinality(doing)
    /\ waiting => doing = {}
    /\ expired \subseteq doing

(***************************************************************************)
(* What makes RequestsCounted inductive: where the thread waits or is      *)
(* about to, and which slot a wait inside the scan stands at.              *)
(***************************************************************************)
WaitsOnlyWithoutRequest ==
    /\ waiting => pc \in {"wait", "wait_again"}
    /\ pc \in {"idle", "wait", "wait_again"} => doing = {}
    /\ pc = "wait_again" => i <= n_session

(***************************************************************************)
(* "get a nearest future deadline": when the thread goes to sleep, it will *)
(* not sleep over the deadline of a session it already reported for when   *)
(* the round began.  A session started in this round is not covered: only  *)
(* the first request sets dt_min, and the next one may be due before it.   *)
(***************************************************************************)
KnownDeadlinesKept ==
    pc = "sleep" => \A s \in doing \ started : dt_min <= dist[s]

(***************************************************************************)
(* What makes it inductive: the slots before i that run and whose deadline *)
(* is not reached bound dt_min, and a dt_min of zero means there is none.  *)
(***************************************************************************)
DeadlinesScanned ==
    /\ pc \in {"scan", "wait_again"} =>
         \A s \in doing \ started :
             s < i => s \in expired \/ (0 < dt_min /\ dt_min <= dist[s])
    /\ pc = "serve" => \A s \in doing \ started : s \in expired \/ dt_min <= dist[s]

\* The inductive invariant of the scheduler.
SchedInv ==
    TypeOK /\ RequestsCounted /\ WaitsOnlyWithoutRequest /\ DeadlinesScanned /\ KnownDeadlinesKept

(***************************************************************************)
(* A session whose reports were started does report, unless its peers      *)
(* leave or the scheduler is stopped: no wait inside the scan, no sleep    *)
(* too long and no other session starves it.                               *)
(***************************************************************************)
StartedReports ==
    \A s \in Slots : s \in doing ~> (reported = s \/ s \notin doing \/ stop)

\* "see if stop": the thread ends after simple_sched_done has said so.
StopEndsThread == stop ~> pc = "ended"

=============================================================================
