----------------------- MODULE ClientRegistrationProofs -----------------------
(***************************************************************************)
(* RegistrationInv for any number of profiles, of threads and of requests. *)
(* It is inductive: what makes RegisterThreadKnown hold is that the thread *)
(* of the answers alone creates register threads, and that a register      *)
(* thread forgets its handle in its last step.                             *)
(***************************************************************************)
EXTENDS ClientRegistration, TLAPS

(***************************************************************************)
(* A step that starts and ends no register thread keeps RegisterThreadKnown.*)
(***************************************************************************)
LEMMA SameThreads ==
    ASSUME RegisterThreadKnown,
           thread_register' = thread_register,
           \A t \in Threads : /\ Running(t)' = Running(t)
                              /\ Running(t) => prof'[t] = prof[t]
    PROVE  RegisterThreadKnown'
<1>1. \A q \in Profiles : ThreadsOf(q)' = ThreadsOf(q)
  BY DEF ThreadsOf
<1>2. QED
  BY <1>1 DEF RegisterThreadKnown

(***************************************************************************)
(* The end of client_regist: a register thread goes back to its loop.      *)
(***************************************************************************)
LEMMA ReturnStep ==
    ASSUME TypeOK, NEW p \in Procs, Return(p), prof[p] \in Profiles
    PROVE  /\ pc' \in [Procs -> {"idle"} \union LoopSteps \union RegistSteps \union UnregistSteps \union EventSteps]
           /\ prof' \in [Procs -> Profiles \union {None}]
           /\ loc' \in [Procs -> BOOLEAN]
           /\ \A r \in Procs : pc'[r] = "idle" \/ prof'[r] \in Profiles
           /\ \A t \in Threads : t = p => pc'[t] = "sleep"
           /\ \A t \in Threads : prof'[t] = prof[t]
           /\ \A r \in Procs : r # p => pc'[r] = pc[r] /\ prof'[r] = prof[r]
<1>1. CASE p \in Threads
  <2>1. /\ pc' = [pc EXCEPT ![p] = "sleep"] /\ prof' = prof
        /\ loc' = [loc EXCEPT ![p] = FALSE]
    BY <1>1 DEF Return, Goto
  <2>2. QED
    BY <2>1 DEF TypeOK, At, LoopSteps, Procs
<1>2. CASE p \notin Threads
  <2>1. /\ pc' = [pc EXCEPT ![p] = "idle"] /\ prof' = [prof EXCEPT ![p] = None]
        /\ loc' = [loc EXCEPT ![p] = FALSE]
    BY <1>2 DEF Return, Finish, Goto
  <2>2. QED
    BY <1>2, <2>1 DEF TypeOK, At, Procs
<1>3. QED
  BY <1>1, <1>2

LEMMA InitInv == Init => RegistrationInv
<1>1. SUFFICES ASSUME Init PROVE RegistrationInv
  OBVIOUS
<1>2. TypeOK
  <2>1. /\ reg_status \in [Profiles -> Status]
        /\ pc \in [Procs -> {"idle"}] /\ \A p \in Procs : At(p, "idle")
        /\ prof \in [Procs -> Profiles \union {None}] /\ loc \in [Procs -> BOOLEAN]
    BY <1>1 DEF Init, Status, At
  <2>2. pending \in [Profiles -> 0 .. MaxPending] /\ asks \in 0 .. MaxAsks
    BY <1>1, RegistrationAssumption DEF Init
  <2>3. /\ reg_profile \in Profiles \union {None} /\ user_profile \in Profiles \union {None}
        /\ cname \in [Profiles -> BOOLEAN] /\ enable \in [Profiles -> BOOLEAN]
        /\ seconds_left \in [Profiles -> Nat]
        /\ thread_register \in [Profiles -> Threads \union {None}]
        /\ expires \in Nat /\ joined \in Threads \union {None} /\ crashed \in BOOLEAN
    BY <1>1 DEF Init
  <2>4. QED
    BY <2>1, <2>2, <2>3 DEF TypeOK
<1>3. RegisterThreadKnown
  BY <1>1 DEF Init, RegisterThreadKnown, ThreadsOf, Running, LoopSteps, RegistSteps, Procs
<1>4. QED
  BY <1>2, <1>3 DEF RegistrationInv

(***************************************************************************)
(* client_regist, whoever calls it.                                        *)
(***************************************************************************)
LEMMA RegistStep ==
    ASSUME RegistrationInv, NEW p \in Procs, Regist(p)
    PROVE  RegistrationInv'
<1> USE RegistrationAssumption
<1>t. TypeOK /\ RegisterThreadKnown
  BY DEF RegistrationInv
<1>1. TypeOK'
  <2>1. CASE RegistRefused(p)
    <3>1. prof[p] \in Profiles
      BY <1>t, <2>1 DEF RegistRefused, TypeOK, At
    <3>2. QED
      BY <1>t, <2>1, <3>1, ReturnStep DEF RegistRefused, TypeOK, At, profileVars, Status
  <2>2. CASE RegistAccepted(p)
    BY <1>t, <2>2 DEF RegistAccepted, TypeOK, At, Goto, profileVars, Procs, RegistSteps
  <2>3. CASE RegistClaims(p)
    BY <1>t, <2>3 DEF RegistClaims, TypeOK, At, Goto, profileVars, Procs, RegistSteps
  <2>4. CASE RegistSends(p)
    BY <1>t, <2>4 DEF RegistSends, TypeOK, At, Goto, profileVars, Procs, RegistSteps
  <2>5. CASE RegistFails(p)
    <3>1. prof[p] \in Profiles
      BY <1>t, <2>5 DEF RegistFails, TypeOK, At
    <3>2. QED
      BY <1>t, <2>5, <3>1, ReturnStep DEF RegistFails, TypeOK, At, profileVars, Status
  <2>6. CASE RegistDone(p)
    <3>1. prof[p] \in Profiles
      BY <1>t, <2>6 DEF RegistDone, TypeOK, At
    <3>2. QED
      BY <1>t, <2>6, <3>1, ReturnStep DEF RegistDone, TypeOK, At, profileVars, Status
  <2>7. CASE Crash(p)
    BY <1>t, <2>7 DEF Crash, TypeOK, At, profileVars, threadVars
  <2>8. QED
    BY <2>1, <2>2, <2>3, <2>4, <2>5, <2>6, <2>7 DEF Regist
<1>2. thread_register' = thread_register
  BY DEF Regist, RegistRefused, RegistAccepted, RegistClaims, RegistSends, RegistFails,
         RegistDone, Crash, profileVars
<1>3. ASSUME NEW t \in Threads
      PROVE  /\ Running(t)' = Running(t)
             /\ Running(t) => prof'[t] = prof[t]
  <2>1. CASE Crash(p)
    BY <2>1 DEF Crash, threadVars, Running
  <2>2. CASE pc[p] \in RegistSteps /\ Return(p)
    <3>1. prof[p] \in Profiles
      BY <1>t, <2>2 DEF TypeOK, At, RegistSteps
    <3>2. /\ t = p => pc'[t] \in LoopSteps
          /\ t # p => pc'[t] = pc[t]
          /\ prof'[t] = prof[t]
      BY <1>t, <2>2, <3>1, ReturnStep DEF LoopSteps, Procs
    <3>3. CASE t = p
      BY <2>2, <3>2, <3>3 DEF Running
    <3>4. CASE t # p
      BY <3>2, <3>4 DEF Running
    <3>5. QED
      BY <3>3, <3>4
  <2>3. CASE pc[p] \in RegistSteps /\ (\E l \in RegistSteps : Goto(p, l)) /\ prof' = prof
    BY <1>t, <2>3 DEF Goto, Running, TypeOK, Procs
  <2>4. QED
    BY <2>1, <2>2, <2>3 DEF Regist, RegistRefused, RegistAccepted, RegistClaims, RegistSends,
         RegistFails, RegistDone, At, RegistSteps
<1>4. QED
  BY <1>t, <1>1, <1>2, <1>3, SameThreads DEF RegistrationInv

(***************************************************************************)
(* The user interface: it starts and ends no register thread.              *)
(***************************************************************************)
LEMMA UiStep ==
    ASSUME RegistrationInv, Unregist \/ \E q \in Profiles : UserInterface(q), ~Crash("ui")
    PROVE  RegistrationInv'
<1> USE RegistrationAssumption
<1>t. TypeOK /\ RegisterThreadKnown
  BY DEF RegistrationInv
<1>u. "ui" \in Procs /\ "ui" \notin Threads
  BY DEF Procs
<1>1. TypeOK'
  <2>1. ASSUME NEW q \in Profiles, UiRegister(q) PROVE TypeOK'
    BY <1>t, <1>u, <2>1 DEF UiRegister, UiKeeps, CallRegist, Asks, Goto, TypeOK, At, RegistSteps
  <2>2. ASSUME NEW q \in Profiles, SetProfile(q) PROVE TypeOK'
    BY <1>t, <2>2 DEF SetProfile, UiKeeps, Asks, threadVars, TypeOK, At
  <2>3. ASSUME NEW q \in Profiles, UiUnregister(q) PROVE TypeOK'
    BY <1>t, <1>u, <2>3 DEF UiUnregister, UiKeeps, Asks, Goto, TypeOK, At, UnregistSteps
  <2>4. CASE UnregistRefused
    BY <1>t, <1>u, <2>4 DEF UnregistRefused, UiKeeps, Finish, Goto, TypeOK, At
  <2>5. CASE UnregistAccepted
    BY <1>t, <1>u, <2>5 DEF UnregistAccepted, UiKeeps, Goto, TypeOK, At, UnregistSteps
  <2>6. CASE UnregistClaims
    BY <1>t, <1>u, <2>6 DEF UnregistClaims, UiKeeps, Goto, TypeOK, At, UnregistSteps
  <2>7. CASE StopThread
    BY <1>t, <1>u, <2>7 DEF StopThread, UiKeeps, Goto, TypeOK, At, UnregistSteps
  <2>8. CASE NoThreadToStop
    BY <1>t, <1>u, <2>8 DEF NoThreadToStop, UiKeeps, Goto, TypeOK, At, UnregistSteps
  <2>9. CASE WaitThread
    BY <1>t, <1>u, <2>9 DEF WaitThread, UiKeeps, Goto, TypeOK, At, UnregistSteps
  <2>10. CASE ThreadEnded
    BY <1>t, <1>u, <2>10 DEF ThreadEnded, UiKeeps, Goto, TypeOK, At, UnregistSteps
  <2>11. CASE UnregistSends
    BY <1>t, <1>u, <2>11 DEF UnregistSends, UiKeeps, Goto, TypeOK, At, UnregistSteps
  <2>12. CASE UnregistFails
    BY <1>t, <1>u, <2>12 DEF UnregistFails, UiKeeps, Finish, Goto, TypeOK, At, Status
  <2>13. CASE UnregistDone
    BY <1>t, <1>u, <2>13 DEF UnregistDone, UiKeeps, Finish, Goto, TypeOK, At, Status
  <2>14. QED
    BY <2>1, <2>2, <2>3, <2>4, <2>5, <2>6, <2>7, <2>8, <2>9, <2>10, <2>11, <2>12, <2>13
       DEF Unregist, UserInterface
<1>2. thread_register' = thread_register
  BY DEF Unregist, UserInterface, UiRegister, SetProfile, UiUnregister, UnregistRefused,
         UnregistAccepted, UnregistClaims, StopThread, NoThreadToStop, WaitThread, ThreadEnded,
         UnregistSends, UnregistFails, UnregistDone, UiKeeps
<1>3. /\ pc' = pc \/ \E l : pc' = [pc EXCEPT !["ui"] = l]
      /\ prof' = prof \/ \E q : prof' = [prof EXCEPT !["ui"] = q]
  BY DEF Unregist, UserInterface, UiRegister, SetProfile, UiUnregister, UnregistRefused,
         UnregistAccepted, UnregistClaims, StopThread, NoThreadToStop, WaitThread, ThreadEnded,
         UnregistSends, UnregistFails, UnregistDone, CallRegist, Finish, Goto, threadVars
<1>4. \A t \in Threads : pc'[t] = pc[t] /\ prof'[t] = prof[t]
  BY <1>t, <1>u, <1>3 DEF TypeOK, Procs
<1>5. QED
  BY <1>t, <1>1, <1>2, <1>4, SameThreads DEF RegistrationInv, Running

(***************************************************************************)
(* The answers, up to the creation of a register thread.                   *)
(***************************************************************************)
EventStep == SuccessReleases \/ FailureReleases \/ \E q \in Profiles : Answer(q)

LEMMA AnswerStep ==
    ASSUME RegistrationInv, EventStep
    PROVE  RegistrationInv'
<1> USE RegistrationAssumption
<1>t. TypeOK /\ RegisterThreadKnown
  BY DEF RegistrationInv
<1>e. "ev" \in Procs /\ "ev" \notin Threads
  BY DEF Procs
<1>1. TypeOK'
  <2>1. ASSUME NEW q \in Profiles, Taken(q)
        PROVE  pending' \in [Profiles -> 0 .. MaxPending]
    BY <1>t, <2>1 DEF Taken, TypeOK
  <2>2. ASSUME NEW q \in Profiles, AnswerIgnored(q) PROVE TypeOK'
    BY <1>t, <2>1, <2>2 DEF AnswerIgnored, profileVars, threadVars, TypeOK, At
  <2>3. ASSUME NEW q \in Profiles, NEW e \in Expires, Success(q, e) PROVE TypeOK'
    <3>1. reg_profile \in Profiles
      BY <1>t, <2>3 DEF Success, TypeOK
    <3>2. Succeeded(reg_status[reg_profile]) \in Status
      BY <1>t, <3>1 DEF Succeeded, TypeOK, Status
    <3>3. reg_status' \in [Profiles -> Status]
      BY <1>t, <2>3, <3>1, <3>2 DEF Success, TypeOK
    <3>4. QED
      BY <1>t, <1>e, <2>1, <2>3, <3>1, <3>3 DEF Success, Handles, Goto, TypeOK, At, EventSteps
  <2>4. ASSUME NEW q \in Profiles, Authenticate(q) PROVE TypeOK'
    <3>1. reg_profile \in Profiles
      BY <1>t, <2>4 DEF Authenticate, TypeOK
    <3>2. QED
      BY <1>t, <1>e, <2>1, <2>4, <3>1
         DEF Authenticate, CallRegist, Asks, profileVars, Goto, TypeOK, At, RegistSteps
  <2>5. ASSUME NEW q \in Profiles, Failure(q) PROVE TypeOK'
    <3>1. reg_profile \in Profiles
      BY <1>t, <2>5 DEF Failure, TypeOK
    <3>2. Failed(reg_status[reg_profile]) \in Status
      BY <1>t, <3>1 DEF Failed, TypeOK, Status
    <3>3. reg_status' \in [Profiles -> Status]
      BY <1>t, <2>5, <3>1, <3>2 DEF Failure, TypeOK
    <3>4. QED
      BY <1>t, <1>e, <2>1, <2>5, <3>1, <3>3 DEF Failure, Handles, Goto, TypeOK, At, EventSteps
  <2>6. CASE SuccessReleases
    BY <1>t, <1>e, <2>6, ZenonT(60) DEF SuccessReleases, Finish, Goto, TypeOK, At, EventSteps, Status
  <2>7. CASE FailureReleases
    BY <1>t, <1>e, <2>7 DEF FailureReleases, Finish, Goto, profileVars, TypeOK, At
  <2>8. QED
    BY <2>2, <2>3, <2>4, <2>5, <2>6, <2>7 DEF EventStep, Answer
<1>2. thread_register' = thread_register
  BY DEF EventStep, Answer, AnswerIgnored, Success, Authenticate, Failure, SuccessReleases,
         FailureReleases, profileVars
<1>3. /\ pc' = pc \/ \E l : pc' = [pc EXCEPT !["ev"] = l]
      /\ prof' = prof \/ \E q : prof' = [prof EXCEPT !["ev"] = q]
  BY DEF EventStep, Answer, AnswerIgnored, Success, Authenticate, Failure, SuccessReleases,
         FailureReleases, CallRegist, Handles, Finish, Goto, threadVars
<1>4. \A t \in Threads : pc'[t] = pc[t] /\ prof'[t] = prof[t]
  BY <1>t, <1>e, <1>3 DEF TypeOK, Procs
<1>5. QED
  BY <1>t, <1>1, <1>2, <1>4, SameThreads DEF RegistrationInv, Running

(***************************************************************************)
(* A register thread is created for a profile that has none.               *)
(***************************************************************************)
LEMMA RenewStep ==
    ASSUME RegistrationInv, Renew
    PROVE  RegistrationInv'
<1> USE RegistrationAssumption
<1>t. TypeOK /\ RegisterThreadKnown
  BY DEF RegistrationInv
<1>e. "ev" \in Procs /\ "ev" \notin Threads /\ Threads \subseteq Procs
  BY DEF Procs
<1>p. prof["ev"] \in Profiles
  BY <1>t, <1>e DEF Renew, TypeOK, At
<1>1. CASE thread_register[prof["ev"]] # None
  <2>1. /\ pc' = [pc EXCEPT !["ev"] = "idle"]
        /\ prof' = [prof EXCEPT !["ev"] = None]
        /\ thread_register' = thread_register
    BY <1>1 DEF Renew, Goto
  <2>2. TypeOK'
    BY <1>t, <1>e, <2>1 DEF Renew, TypeOK, At
  <2>3. \A t \in Threads : pc'[t] = pc[t] /\ prof'[t] = prof[t]
    BY <1>t, <1>e, <2>1 DEF TypeOK
  <2>4. QED
    BY <1>t, <2>1, <2>2, <2>3, SameThreads DEF RegistrationInv, Running
<1>2. CASE thread_register[prof["ev"]] = None
  <2>1. PICK t \in Threads : StartThread(t)
    BY <1>2 DEF Renew
  <2>2. /\ ~Running(t)
        /\ thread_register' = [thread_register EXCEPT ![prof["ev"]] = t]
        /\ pc' = [pc EXCEPT !["ev"] = "idle", ![t] = "start"]
        /\ prof' = [prof EXCEPT !["ev"] = None, ![t] = prof["ev"]]
    BY <2>1 DEF StartThread, Unused
  <2>3. TypeOK'
    BY <1>t, <1>e, <1>p, <2>2 DEF Renew, TypeOK, At, LoopSteps
  <2>4. /\ pc'[t] = "start" /\ prof'[t] = prof["ev"]
        /\ \A r \in Threads : r # t => pc'[r] = pc[r] /\ prof'[r] = prof[r]
    BY <1>t, <1>e, <2>2 DEF TypeOK
  <2>5. Running(t)' /\ \A r \in Threads : r # t => Running(r)' = Running(r)
    BY <2>4 DEF Running, LoopSteps
  <2>6. ASSUME NEW q \in Profiles
        PROVE  ThreadsOf(q)' = IF thread_register'[q] = None THEN {} ELSE {thread_register'[q]}
    <3>1. CASE q = prof["ev"]
      <4>1. ThreadsOf(q) = {}
        BY <1>t, <1>2, <3>1 DEF RegisterThreadKnown
      <4>2. ThreadsOf(q)' = {t}
        BY <2>4, <2>5, <3>1, <4>1 DEF ThreadsOf
      <4>3. thread_register'[q] = t /\ t # None
        BY <1>t, <2>2, <3>1 DEF TypeOK
      <4>4. QED
        BY <4>2, <4>3
    <3>2. CASE q # prof["ev"]
      <4>1. ThreadsOf(q)' = ThreadsOf(q)
        BY <2>2, <2>4, <2>5, <3>2 DEF ThreadsOf
      <4>2. thread_register'[q] = thread_register[q]
        BY <1>t, <2>2, <3>2 DEF TypeOK
      <4>3. QED
        BY <1>t, <4>1, <4>2 DEF RegisterThreadKnown
    <3>3. QED
      BY <3>1, <3>2
  <2>7. QED
    BY <2>3, <2>6 DEF RegistrationInv, RegisterThreadKnown
<1>3. QED
  BY <1>1, <1>2

(***************************************************************************)
(* The register thread: its last step ends it and forgets its handle.      *)
(***************************************************************************)
LEMMA LoopStep ==
    ASSUME RegistrationInv, NEW t \in Threads, RegisterThread(t), ~LoopEnds(t)
    PROVE  RegistrationInv'
<1> USE RegistrationAssumption
<1>t. TypeOK /\ RegisterThreadKnown
  BY DEF RegistrationInv
<1>p. t \in Procs /\ Threads \subseteq Procs /\ prof[t] \in Profiles
  BY <1>t DEF RegisterThread, LoopStarts, LoopTurns, LoopWakes, LoopStops, LoopEnds, TypeOK, At, Procs
<1>1. CASE LoopStarts(t)
  BY <1>t, <1>p, <1>1, SameThreads
     DEF LoopStarts, LoopKeeps, Goto, RegistrationInv, TypeOK, At, Running, LoopSteps
<1>2. CASE LoopTurns(t)
  <2>1. /\ pc[t] = "test" /\ thread_register' = thread_register
        /\ seconds_left' \in [Profiles -> Nat]
    BY <1>t, <1>p, <1>2 DEF LoopTurns, TypeOK, At
  <2>2. CASE CallRegist(t, prof[t], cname[prof[t]])
    <3>1. TypeOK'
      BY <1>t, <1>p, <1>2, <2>1, <2>2
         DEF LoopTurns, LoopKeeps, CallRegist, Asks, Goto, TypeOK, At, RegistSteps
    <3>2. \A r \in Threads : Running(r)' = Running(r) /\ prof'[r] = prof[r]
      BY <1>t, <1>p, <2>1, <2>2 DEF CallRegist, Goto, TypeOK, Running, LoopSteps, RegistSteps
    <3>3. QED
      BY <1>t, <2>1, <3>1, <3>2, SameThreads DEF RegistrationInv
  <2>3. CASE Goto(t, "sleep") /\ UNCHANGED <<prof, loc, asks>>
    <3>1. TypeOK'
      BY <1>t, <1>p, <1>2, <2>1, <2>3 DEF LoopTurns, LoopKeeps, Goto, TypeOK, At, LoopSteps
    <3>2. \A r \in Threads : Running(r)' = Running(r) /\ prof'[r] = prof[r]
      BY <1>t, <1>p, <2>1, <2>3 DEF Goto, TypeOK, Running, LoopSteps
    <3>3. QED
      BY <1>t, <2>1, <3>1, <3>2, SameThreads DEF RegistrationInv
  <2>4. QED
    BY <1>2, <2>2, <2>3 DEF LoopTurns
<1>3. CASE LoopWakes(t)
  BY <1>t, <1>p, <1>3, SameThreads
     DEF LoopWakes, LoopKeeps, Goto, RegistrationInv, TypeOK, At, Running, LoopSteps
<1>4. CASE LoopStops(t)
  BY <1>t, <1>p, <1>4, SameThreads
     DEF LoopStops, LoopKeeps, Goto, RegistrationInv, TypeOK, At, Running, LoopSteps
<1>5. QED
  BY <1>1, <1>2, <1>3, <1>4 DEF RegisterThread

LEMMA LoopEndStep ==
    ASSUME RegistrationInv, NEW t \in Threads, LoopEnds(t)
    PROVE  RegistrationInv'
<1> USE RegistrationAssumption
<1>t. TypeOK /\ RegisterThreadKnown
  BY DEF RegistrationInv
<1>p. t \in Procs /\ Threads \subseteq Procs /\ prof[t] \in Profiles
  BY <1>t DEF LoopEnds, TypeOK, At, Procs
<1>1. /\ pc[t] = "leave" /\ pc' = [pc EXCEPT ![t] = "idle"]
      /\ prof' = [prof EXCEPT ![t] = None]
      /\ thread_register' = [thread_register EXCEPT ![prof[t]] = None]
  BY DEF LoopEnds, Finish, Goto, At
<1>2. TypeOK'
  BY <1>t, <1>p, <1>1 DEF LoopEnds, LoopKeeps, Finish, TypeOK, At
<1>3. Running(t) /\ ~Running(t)'
  BY <1>t, <1>p, <1>1 DEF TypeOK, Running, LoopSteps, RegistSteps
<1>4. \A r \in Threads : r # t => Running(r)' = Running(r) /\ prof'[r] = prof[r]
  BY <1>t, <1>p, <1>1 DEF TypeOK, Running
<1>5. ASSUME NEW q \in Profiles
      PROVE  ThreadsOf(q)' = IF thread_register'[q] = None THEN {} ELSE {thread_register'[q]}
  <2>1. CASE q = prof[t]
    <3>1. ThreadsOf(q) = {t}
      <4>1. t \in ThreadsOf(q)
        BY <1>3, <2>1 DEF ThreadsOf
      <4>2. QED
        BY <1>t, <4>1 DEF RegisterThreadKnown
    <3>2. ThreadsOf(q)' = {}
      BY <1>3, <1>4, <3>1 DEF ThreadsOf
    <3>3. QED
      BY <1>t, <1>1, <2>1, <3>2 DEF TypeOK
  <2>2. CASE q # prof[t]
    <3>1. t \notin ThreadsOf(q) /\ t \notin ThreadsOf(q)'
      BY <1>3, <2>2 DEF ThreadsOf
    <3>2. ThreadsOf(q)' = ThreadsOf(q)
      BY <1>4, <3>1 DEF ThreadsOf
    <3>3. QED
      BY <1>t, <1>1, <2>2, <3>2 DEF RegisterThreadKnown, TypeOK
  <2>3. QED
    BY <2>1, <2>2
<1>6. QED
  BY <1>2, <1>5 DEF RegistrationInv, RegisterThreadKnown

-----------------------------------------------------------------------------
LEMMA StepKeepsInv == RegistrationInv /\ [Next]_vars => RegistrationInv'
<1>. SUFFICES ASSUME RegistrationInv, [Next]_vars PROVE RegistrationInv'
  OBVIOUS
<1>1. CASE \E p \in Procs : Regist(p)
  BY <1>1, RegistStep
<1>2. CASE Unregist \/ \E q \in Profiles : UserInterface(q)
  <2>1. CASE Crash("ui")
    BY <2>1, RegistStep DEF Regist, Procs
  <2>2. QED
    BY <1>2, <2>1, UiStep
<1>3. CASE SuccessReleases \/ FailureReleases \/ \E q \in Profiles : Answer(q)
  BY <1>3, AnswerStep DEF EventStep
<1>4. CASE Renew
  BY <1>4, RenewStep
<1>5. CASE \E t \in Threads : RegisterThread(t)
  BY <1>5, LoopStep, LoopEndStep
<1>6. CASE UNCHANGED vars
  <2>1. TypeOK'
    BY <1>6 DEF RegistrationInv, vars, profileVars, threadVars, TypeOK, At
  <2>2. QED
    BY <1>6, <2>1, SameThreads DEF RegistrationInv, vars, profileVars, threadVars, Running
<1>7. QED
  BY <1>1, <1>2, <1>3, <1>4, <1>5, <1>6 DEF Next

(***************************************************************************)
(* At every time each profile has at most one register thread and its      *)
(* thread_register names it, however the keys of the user, the answers     *)
(* and the register threads interleave (client_sipua_event,                *)
(* client_register_loop, client_unregist).                                 *)
(***************************************************************************)
THEOREM RegistrationInvariant == Spec => []RegistrationInv
<1>1. QED
  BY InitInv, StepKeepsInv, PTL DEF Spec

-----------------------------------------------------------------------------
(***************************************************************************)
(* ClaimsPending.  A step that only moves a thread from a place where it   *)
(* backs no claim keeps what backs it.                                     *)
(***************************************************************************)
Backed ==
    \/ \E q \in Profiles : pending[q] > 0
    \/ pc["ev"] \in {"ev_release", "ev_drop"}
    \/ pc["ev"] \in {"rg_check", "rg_claim"} /\ prof["ev"] = reg_profile
    \/ \E p \in Procs : At(p, "rg_send")
    \/ pc["ui"] \in {"un_stop", "un_wait", "un_joined", "un_send"}

LEMMA ClaimsBacked == ClaimsPending <=> (reg_profile # None => Backed)
BY DEF ClaimsPending, Backed

BacksNothing(p) ==
    /\ ~At(p, "rg_send")
    /\ p = "ev" => /\ pc[p] \notin {"ev_release", "ev_drop"}
                   /\ pc[p] \in {"rg_check", "rg_claim"} => prof[p] # reg_profile
    /\ p = "ui" => pc[p] \notin {"un_stop", "un_wait", "un_joined", "un_send"}

LEMMA OthersBack ==
    ASSUME ClaimsPending, pending' = pending, reg_profile' = reg_profile,
           NEW S \in SUBSET Procs, \A p \in S : BacksNothing(p),
           \A r \in Procs \ S : pc'[r] = pc[r] /\ prof'[r] = prof[r]
    PROVE  ClaimsPending'
<1>1. SUFFICES ASSUME reg_profile # None PROVE Backed'
  BY DEF ClaimsPending, Backed
<1>2. Backed
  BY <1>1, ClaimsBacked
<1>3. "ui" \in Procs /\ "ev" \in Procs
  BY DEF Procs
<1>4. CASE \E q \in Profiles : pending[q] > 0
  BY <1>4 DEF Backed
<1>5. CASE pc["ev"] \in {"ev_release", "ev_drop"}
  BY <1>3, <1>5 DEF Backed, BacksNothing
<1>6. CASE pc["ev"] \in {"rg_check", "rg_claim"} /\ prof["ev"] = reg_profile
  BY <1>3, <1>6 DEF Backed, BacksNothing
<1>7. CASE \E r \in Procs : At(r, "rg_send")
  BY <1>7 DEF Backed, BacksNothing, At
<1>8. CASE pc["ui"] \in {"un_stop", "un_wait", "un_joined", "un_send"}
  BY <1>3, <1>8 DEF Backed, BacksNothing
<1>9. QED
  BY <1>2, <1>4, <1>5, <1>6, <1>7, <1>8 DEF Backed

LEMMA OneMoves ==
    ASSUME ClaimsPending, pending' = pending, reg_profile' = reg_profile,
           NEW p \in Procs, BacksNothing(p),
           \A r \in Procs \ {p} : pc'[r] = pc[r] /\ prof'[r] = prof[r]
    PROVE  ClaimsPending'
<1>1. {p} \in SUBSET Procs /\ \A r \in {p} : BacksNothing(r)
  OBVIOUS
<1>2. QED
  BY <1>1, OthersBack

LEMMA RegistKeepsClaims ==
    ASSUME TypeOK, ClaimsPending, NEW p \in Procs, Regist(p)
    PROVE  ClaimsPending'
<1>1. CASE RegistRefused(p)
  <2>1. BacksNothing(p)
    BY <1>1, RegistrationAssumption DEF RegistRefused, BacksNothing, At
  <2>2. \A r \in Procs \ {p} : pc'[r] = pc[r] /\ prof'[r] = prof[r]
    BY <1>1, ReturnStep DEF RegistRefused, TypeOK, At
  <2>3. QED
    BY <1>1, <2>1, <2>2, OneMoves DEF RegistRefused
<1>2. CASE RegistAccepted(p)
  <2>1. \A r \in Procs \ {p} : pc'[r] = pc[r] /\ prof'[r] = prof[r]
    BY <1>2 DEF RegistAccepted, Goto, TypeOK
  <2>2. CASE p # "ev"
    <3>1. BacksNothing(p)
      BY <1>2, <2>2 DEF RegistAccepted, BacksNothing, At
    <3>2. QED
      BY <1>2, <2>1, <3>1, OneMoves DEF RegistAccepted
  <2>3. CASE p = "ev"
    BY <1>2, <2>3 DEF RegistAccepted, Goto, TypeOK, ClaimsPending
  <2>4. QED
    BY <2>2, <2>3
<1>3. CASE RegistClaims(p)
  BY <1>3 DEF RegistClaims, Goto, TypeOK, At, ClaimsPending
<1>4. CASE RegistSends(p)
  <2>1. prof[p] \in Profiles
    BY <1>4 DEF RegistSends, TypeOK, At
  <2>2. pending'[prof[p]] > 0
    BY <1>4, <2>1, RegistrationAssumption DEF RegistSends, TypeOK
  <2>3. QED
    BY <2>1, <2>2 DEF ClaimsPending
<1>5. CASE RegistFails(p)
  BY <1>5 DEF RegistFails, ClaimsPending
<1>6. CASE RegistDone(p)
  <2>1. BacksNothing(p)
    BY <1>6 DEF RegistDone, BacksNothing, At
  <2>2. \A r \in Procs \ {p} : pc'[r] = pc[r] /\ prof'[r] = prof[r]
    BY <1>6, ReturnStep DEF RegistDone, TypeOK, At
  <2>3. QED
    BY <1>6, <2>1, <2>2, OneMoves DEF RegistDone
<1>7. CASE Crash(p)
  BY <1>7 DEF Crash, threadVars, ClaimsPending, At
<1>8. QED
  BY <1>1, <1>2, <1>3, <1>4, <1>5, <1>6, <1>7 DEF Regist

LEMMA UiKeepsClaims ==
    ASSUME TypeOK, ClaimsPending, Unregist \/ \E q \in Profiles : UserInterface(q), ~Crash("ui")
    PROVE  ClaimsPending'
<1>u. "ui" \in Procs /\ "ui" # "ev"
  BY DEF Procs
<1>1. CASE \/ \E q \in Profiles : UserInterface(q)
           \/ UnregistRefused \/ UnregistAccepted \/ UnregistDone
  <2>1. BacksNothing("ui")
    BY <1>u, <1>1 DEF UserInterface, UiRegister, SetProfile, UiUnregister, UnregistRefused,
       UnregistAccepted, UnregistDone, BacksNothing, At
  <2>2. pending' = pending /\ reg_profile' = reg_profile
    BY <1>1 DEF UserInterface, UiRegister, SetProfile, UiUnregister, UnregistRefused,
       UnregistAccepted, UnregistDone
  <2>3. /\ pc' = pc \/ \E l : pc' = [pc EXCEPT !["ui"] = l]
        /\ prof' = prof \/ \E q : prof' = [prof EXCEPT !["ui"] = q]
    BY <1>1 DEF UserInterface, UiRegister, SetProfile, UiUnregister, UnregistRefused,
       UnregistAccepted, UnregistDone, CallRegist, Finish, Goto, threadVars
  <2>4. \A r \in Procs \ {"ui"} : pc'[r] = pc[r] /\ prof'[r] = prof[r]
    BY <2>3 DEF TypeOK
  <2>5. QED
    BY <1>u, <2>1, <2>2, <2>4, OneMoves
<1>2. CASE UnregistClaims \/ StopThread \/ NoThreadToStop \/ WaitThread \/ ThreadEnded
  BY <1>u, <1>2 DEF UnregistClaims, StopThread, NoThreadToStop, WaitThread, ThreadEnded,
     Goto, TypeOK, ClaimsPending
<1>3. CASE UnregistSends
  <2>1. prof["ui"] \in Profiles
    BY <1>u, <1>3 DEF UnregistSends, TypeOK, At
  <2>2. pending'[prof["ui"]] > 0
    BY <1>3, <2>1, RegistrationAssumption DEF UnregistSends, TypeOK
  <2>3. QED
    BY <2>1, <2>2 DEF ClaimsPending
<1>4. CASE UnregistFails
  BY <1>4 DEF UnregistFails, ClaimsPending
<1>5. QED
  BY <1>1, <1>2, <1>3, <1>4 DEF Unregist

LEMMA AnswersKeepClaims ==
    ASSUME TypeOK, ClaimsPending, EventStep \/ Renew
    PROVE  ClaimsPending'
<1>e. "ev" \in Procs /\ "ev" # "ui" /\ "ev" \notin Threads /\ "ui" \notin Threads
  BY RegistrationAssumption DEF Procs
<1>1. ASSUME NEW q \in Profiles, AnswerIgnored(q) PROVE ClaimsPending'
  BY <1>1 DEF AnswerIgnored, ClaimsPending
<1>2. ASSUME NEW q \in Profiles, NEW e \in Expires, Success(q, e) PROVE ClaimsPending'
  BY <1>e, <1>2 DEF Success, Handles, Goto, TypeOK, ClaimsPending
<1>3. ASSUME NEW q \in Profiles, Authenticate(q) PROVE ClaimsPending'
  BY <1>e, <1>3 DEF Authenticate, CallRegist, Goto, TypeOK, ClaimsPending
<1>4. ASSUME NEW q \in Profiles, Failure(q) PROVE ClaimsPending'
  BY <1>e, <1>4 DEF Failure, Handles, Goto, TypeOK, ClaimsPending
<1>5. CASE SuccessReleases \/ FailureReleases
  BY <1>5 DEF SuccessReleases, FailureReleases, ClaimsPending
<1>6. CASE Renew
  <2>1. BacksNothing("ev")
    BY <1>e, <1>6 DEF Renew, BacksNothing, At
  <2>2. CASE thread_register[prof["ev"]] # None
    <3>1. \A r \in Procs \ {"ev"} : pc'[r] = pc[r] /\ prof'[r] = prof[r]
      BY <1>6, <2>2 DEF Renew, Goto, TypeOK
    <3>2. QED
      BY <1>e, <1>6, <2>1, <3>1, OneMoves DEF Renew
  <2>3. CASE thread_register[prof["ev"]] = None
    <3>1. PICK t \in Threads : StartThread(t)
      BY <1>6, <2>3 DEF Renew
    <3>2. BacksNothing(t)
      BY <1>e, <3>1 DEF StartThread, Unused, Running, RegistSteps, BacksNothing, At
    <3>3. \A r \in Procs \ {"ev", t} : pc'[r] = pc[r] /\ prof'[r] = prof[r]
      BY <3>1 DEF StartThread, TypeOK
    <3>4. {"ev", t} \in SUBSET Procs /\ \A r \in {"ev", t} : BacksNothing(r)
      BY <2>1, <3>2 DEF Procs
    <3>5. QED
      BY <1>6, <3>3, <3>4, OthersBack DEF Renew
  <2>4. QED
    BY <2>2, <2>3
<1>7. QED
  BY <1>1, <1>2, <1>3, <1>4, <1>5, <1>6 DEF EventStep, Answer

LEMMA LoopKeepsClaims ==
    ASSUME TypeOK, ClaimsPending, NEW t \in Threads, RegisterThread(t)
    PROVE  ClaimsPending'
<1>1. t \in Procs /\ t # "ev" /\ t # "ui"
  BY RegistrationAssumption DEF Procs
<1>2. BacksNothing(t)
  BY <1>1 DEF RegisterThread, LoopStarts, LoopTurns, LoopWakes, LoopStops, LoopEnds, BacksNothing, At
<1>3. pending' = pending /\ reg_profile' = reg_profile
  BY DEF RegisterThread, LoopStarts, LoopTurns, LoopWakes, LoopStops, LoopEnds, LoopKeeps
<1>4. /\ \E l : pc' = [pc EXCEPT ![t] = l]
      /\ prof' = prof \/ \E q : prof' = [prof EXCEPT ![t] = q]
  BY DEF RegisterThread, LoopStarts, LoopTurns, LoopWakes, LoopStops, LoopEnds,
         CallRegist, Finish, Goto
<1>5. \A r \in Procs \ {t} : pc'[r] = pc[r] /\ prof'[r] = prof[r]
  BY <1>4 DEF TypeOK
<1>6. QED
  BY <1>1, <1>2, <1>3, <1>5, OneMoves

(***************************************************************************)
(* reg_profile is never left claimed with nothing under way to give it     *)
(* back: every claim of client_regist and client_unregist is followed by a *)
(* send or given up, and every answer releases whichever claim it finds.   *)
(***************************************************************************)
THEOREM ClaimsAlwaysPending == Spec => []ClaimsPending
<1>1. Init => ClaimsPending
  BY DEF Init, ClaimsPending
<1>2. RegistrationInv /\ ClaimsPending /\ [Next]_vars => ClaimsPending'
  <2>. SUFFICES ASSUME TypeOK, ClaimsPending, [Next]_vars PROVE ClaimsPending'
    BY DEF RegistrationInv
  <2>1. CASE \E p \in Procs : Regist(p)
    BY <2>1, RegistKeepsClaims
  <2>2. CASE Unregist \/ \E q \in Profiles : UserInterface(q)
    <3>1. CASE Crash("ui")
      BY <3>1, RegistKeepsClaims DEF Regist, Procs
    <3>2. QED
      BY <2>2, <3>1, UiKeepsClaims
  <2>3. CASE SuccessReleases \/ FailureReleases \/ Renew \/ \E q \in Profiles : Answer(q)
    BY <2>3, AnswersKeepClaims DEF EventStep
  <2>4. CASE \E t \in Threads : RegisterThread(t)
    BY <2>4, LoopKeepsClaims
  <2>5. CASE UNCHANGED vars
    BY <2>5 DEF vars, threadVars, ClaimsPending, At
  <2>6. QED
    BY <2>1, <2>2, <2>3, <2>4, <2>5 DEF Next
<1>3. QED
  BY <1>1, <1>2, RegistrationInvariant, PTL DEF Spec

=============================================================================
