-------------------------- MODULE ClientRegistration --------------------------
(***************************************************************************)
(* Registration of the user's profiles with their servers, in              *)
(* libogmp/ogmp_client.c: the user interface (client_regist,               *)
(* client_unregist), the thread of the user agent that brings the answers  *)
(* (client_sipua_event) and one register thread per registered profile,    *)
(* which renews the registration before it expires (client_register_loop). *)
(*                                                                         *)
(* client->reg_profile names the profile whose transaction is in progress. *)
(* It is tested and set without a lock, so the test, the claim, the send   *)
(* and what follows the send are steps of their own; and an answer is      *)
(* applied to the profile reg_profile names, whichever asked.              *)
(***************************************************************************)
EXTENDS Naturals, FiniteSets

CONSTANTS
    Profiles,
    Threads,      \* register threads, each used again after it ended
    Expires,      \* lifetimes an answer grants, in rounds of the register thread
    MaxPending,   \* bound: requests of one profile not yet answered
    MaxAsks,      \* bound: transactions begun and profiles chosen
    None

ASSUME RegistrationAssumption ==
    /\ None \notin Profiles \union Threads
    /\ "ui" \notin Threads /\ "ev" \notin Threads
    /\ Expires \subseteq Nat
    /\ MaxPending \in Nat \ {0} /\ MaxAsks \in Nat

VARIABLES
    reg_profile,      \* profile in transaction
    user_profile,     \* current profile of the client
    reg_status,
    cname,            \* prof->cname is set
    enable,
    seconds_left,     \* in rounds of the register thread; 0 stands for all <= 0
    thread_register,
    pc,
    prof,             \* the profile each thread works on
    loc,              \* the userloc it passes to client_regist is not NULL
    expires,          \* e->seconds_expires of the answer being handled
    joined,           \* the thread xthr_wait was called for
    asks,             \* transactions begun and profiles chosen so far
    pending,          \* requests sent for each profile and not answered
    crashed

profileVars == <<reg_status, cname, enable, seconds_left, thread_register>>
threadVars == <<pc, prof, loc>>
vars == <<reg_profile, user_profile, profileVars, threadVars, expires, joined,
          asks, pending, crashed>>

Procs == {"ui", "ev"} \union Threads
Status == {"NORMAL", "REG_OK", "REG_FAIL", "REG_DOING", "UNREG_DOING"}

RegistSteps == {"rg_check", "rg_claim", "rg_send", "rg_done"}
UnregistSteps == {"un_check", "un_claim", "un_stop", "un_wait", "un_joined", "un_send", "un_done"}
EventSteps == {"ev_release", "ev_renew", "ev_drop"}
LoopSteps == {"start", "test", "sleep", "leave"}

Running(t) == pc[t] \in LoopSteps \union RegistSteps

Init ==
    /\ reg_profile = None /\ user_profile = None
    /\ reg_status = [q \in Profiles |-> "NORMAL"]
    /\ cname = [q \in Profiles |-> FALSE]
    /\ enable = [q \in Profiles |-> FALSE]
    /\ seconds_left = [q \in Profiles |-> 0]
    /\ thread_register = [q \in Profiles |-> None]
    /\ pc = [p \in Procs |-> "idle"]
    /\ prof = [p \in Procs |-> None]
    /\ loc = [p \in Procs |-> FALSE]
    /\ expires = 0 /\ joined = None
    /\ asks = 0 /\ pending = [q \in Profiles |-> 0]
    /\ crashed = FALSE

At(p, l) == pc[p] = l
Goto(p, l) == pc' = [pc EXCEPT ![p] = l]

\* The call, or the thread, is over: so are its locals.
Finish(p) ==
    /\ Goto(p, "idle")
    /\ prof' = [prof EXCEPT ![p] = None]
    /\ loc' = [loc EXCEPT ![p] = FALSE]

-----------------------------------------------------------------------------
(***************************************************************************)
(* client_regist, called by the user interface, by a register thread and,  *)
(* to authenticate, by the thread of the answers.                          *)
(***************************************************************************)
Asks ==
    /\ asks < MaxAsks
    /\ asks' = asks + 1

CallRegist(p, q, has_loc) ==
    /\ Asks
    /\ Goto(p, "rg_check")
    /\ prof' = [prof EXCEPT ![p] = q]
    /\ loc' = [loc EXCEPT ![p] = has_loc]

\* A register thread goes on, the other two are done.
Return(p) ==
    \/ p \in Threads /\ Goto(p, "sleep") /\ loc' = [loc EXCEPT ![p] = FALSE] /\ UNCHANGED prof
    \/ p \notin Threads /\ Finish(p)

RegistRefused(p) ==
    /\ At(p, "rg_check")
    /\ reg_profile \notin {None, prof[p]}
    /\ Return(p)
    /\ UNCHANGED <<reg_profile, user_profile, profileVars, expires, joined, asks, pending, crashed>>

RegistAccepted(p) ==
    /\ At(p, "rg_check")
    /\ reg_profile \in {None, prof[p]}
    /\ Goto(p, "rg_claim")
    /\ UNCHANGED <<reg_profile, user_profile, profileVars, prof, loc, expires, joined, asks, pending, crashed>>

RegistClaims(p) ==
    /\ At(p, "rg_claim")
    /\ reg_profile' = prof[p]
    /\ Goto(p, "rg_send")
    /\ UNCHANGED <<user_profile, profileVars, prof, loc, expires, joined, asks, pending, crashed>>

\* uas_regist: takes the length of loc first.
RegistSends(p) ==
    /\ At(p, "rg_send")
    /\ loc[p]
    /\ pending[prof[p]] < MaxPending
    /\ pending' = [pending EXCEPT ![prof[p]] = @ + 1]
    /\ Goto(p, "rg_done")
    /\ UNCHANGED <<reg_profile, user_profile, profileVars, prof, loc, expires, joined, asks, crashed>>

\* Mutant of RegistFails: the claim is not given back.
RegistFailsHolding(p) ==
    /\ At(p, "rg_send")
    /\ loc[p]
    /\ reg_status' = [reg_status EXCEPT ![prof[p]] = "REG_FAIL"]
    /\ Return(p)
    /\ UNCHANGED <<reg_profile, user_profile, cname, enable, seconds_left, thread_register,
                   expires, joined, asks, pending, crashed>>

RegistFails(p) ==
    /\ At(p, "rg_send")
    /\ loc[p]
    /\ reg_status' = [reg_status EXCEPT ![prof[p]] = "REG_FAIL"]
    /\ reg_profile' = None
    /\ Return(p)
    /\ UNCHANGED <<user_profile, cname, enable, seconds_left, thread_register,
                   expires, joined, asks, pending, crashed>>

RegistDone(p) ==
    /\ At(p, "rg_done")
    /\ cname' = [cname EXCEPT ![prof[p]] = TRUE]
    /\ reg_status' = [reg_status EXCEPT ![prof[p]] = "REG_DOING"]
    /\ Return(p)
    /\ UNCHANGED <<reg_profile, user_profile, enable, seconds_left, thread_register,
                   expires, joined, asks, pending, crashed>>

\* strlen(NULL), of loc in uas_regist or of user->cname in sipua_unregist.
Crash(p) ==
    /\ \/ At(p, "rg_send") /\ ~loc[p]
       \/ At(p, "un_send") /\ ~cname[prof[p]]
    /\ crashed' = TRUE
    /\ UNCHANGED <<reg_profile, user_profile, profileVars, threadVars, expires, joined, asks, pending>>

Regist(p) ==
    \/ RegistRefused(p) \/ RegistAccepted(p) \/ RegistClaims(p)
    \/ RegistSends(p) \/ RegistFails(p) \/ RegistDone(p) \/ Crash(p)

-----------------------------------------------------------------------------
(***************************************************************************)
(* The user interface.                                                     *)
(***************************************************************************)
UiKeeps == UNCHANGED <<seconds_left, thread_register, expires, crashed>>

\* Keys of the screen of profiles: all but a registered profile is registered.
UiRegister(q) ==
    /\ At("ui", "idle")
    /\ reg_status[q] # "REG_OK"
    /\ CallRegist("ui", q, TRUE)
    /\ UNCHANGED <<reg_profile, user_profile, reg_status, cname, enable, joined, pending>> /\ UiKeeps

\* ENTER on a registered profile.
SetProfile(q) ==
    /\ At("ui", "idle") /\ Asks
    /\ reg_status[q] = "REG_OK"
    /\ user_profile' = q
    /\ UNCHANGED <<reg_profile, reg_status, cname, enable, threadVars, joined, pending>> /\ UiKeeps

UiUnregister(q) ==
    /\ At("ui", "idle") /\ Asks
    /\ reg_status[q] = "REG_OK"
    /\ user_profile \notin {None, q}
    /\ Goto("ui", "un_check")
    /\ prof' = [prof EXCEPT !["ui"] = q]
    /\ UNCHANGED <<reg_profile, user_profile, reg_status, cname, enable, loc, joined, pending>> /\ UiKeeps

UnregistRefused ==
    /\ At("ui", "un_check")
    /\ reg_profile # None
    /\ Finish("ui")
    /\ UNCHANGED <<reg_profile, user_profile, reg_status, cname, enable, joined, pending, asks>> /\ UiKeeps

UnregistAccepted ==
    /\ At("ui", "un_check")
    /\ reg_profile = None
    /\ Goto("ui", "un_claim")
    /\ UNCHANGED <<reg_profile, user_profile, reg_status, cname, enable, prof, loc, joined, pending, asks>> /\ UiKeeps

UnregistClaims ==
    /\ At("ui", "un_claim")
    /\ reg_profile' = prof["ui"]
    /\ Goto("ui", "un_stop")
    /\ UNCHANGED <<user_profile, reg_status, cname, enable, prof, loc, joined, pending, asks>> /\ UiKeeps

\* user->thread_register is tested, then read again for xthr_wait.
StopThread ==
    /\ At("ui", "un_stop")
    /\ thread_register[prof["ui"]] # None
    /\ enable' = [enable EXCEPT ![prof["ui"]] = FALSE]
    /\ Goto("ui", "un_wait")
    /\ UNCHANGED <<reg_profile, user_profile, reg_status, cname, prof, loc, joined, pending, asks>> /\ UiKeeps

NoThreadToStop ==
    /\ At("ui", "un_stop")
    /\ thread_register[prof["ui"]] = None
    /\ Goto("ui", "un_send")
    /\ UNCHANGED <<reg_profile, user_profile, reg_status, cname, enable, prof, loc, joined, pending, asks>> /\ UiKeeps

WaitThread ==
    /\ At("ui", "un_wait")
    /\ joined' = thread_register[prof["ui"]]
    /\ Goto("ui", "un_joined")
    /\ UNCHANGED <<reg_profile, user_profile, reg_status, cname, enable, prof, loc, pending, asks>> /\ UiKeeps

\* SDL_WaitThread returns at once when the thread is NULL.
ThreadEnded ==
    /\ At("ui", "un_joined")
    /\ joined \in Threads => ~Running(joined)
    /\ joined' = None
    /\ Goto("ui", "un_send")
    /\ UNCHANGED <<reg_profile, user_profile, reg_status, cname, enable, prof, loc, pending, asks>> /\ UiKeeps

UnregistSends ==
    /\ At("ui", "un_send")
    /\ cname[prof["ui"]]
    /\ pending[prof["ui"]] < MaxPending
    /\ pending' = [pending EXCEPT ![prof["ui"]] = @ + 1]
    /\ Goto("ui", "un_done")
    /\ UNCHANGED <<reg_profile, user_profile, reg_status, cname, enable, prof, loc, joined, asks>> /\ UiKeeps

UnregistFails ==
    /\ At("ui", "un_send")
    /\ cname[prof["ui"]]
    /\ reg_status' = [reg_status EXCEPT ![prof["ui"]] = "REG_FAIL"]
    /\ reg_profile' = None
    /\ Finish("ui")
    /\ UNCHANGED <<user_profile, cname, enable, joined, pending, asks>> /\ UiKeeps

UnregistDone ==
    /\ At("ui", "un_done")
    /\ cname' = [cname EXCEPT ![prof["ui"]] = FALSE]
    /\ reg_status' = [reg_status EXCEPT ![prof["ui"]] = "UNREG_DOING"]
    /\ Finish("ui")
    /\ UNCHANGED <<reg_profile, user_profile, enable, joined, pending, asks>> /\ UiKeeps

Unregist ==
    \/ UnregistRefused \/ UnregistAccepted \/ UnregistClaims
    \/ StopThread \/ NoThreadToStop \/ WaitThread \/ ThreadEnded
    \/ UnregistSends \/ UnregistFails \/ UnregistDone \/ Crash("ui")

-----------------------------------------------------------------------------
(***************************************************************************)
(* The answers: jua_loop calls client_sipua_event.  A success carries the  *)
(* lifetime of the contact, and an arbitrary one when the answer has none  *)
(* (seconds_expires is then not initialised).                              *)
(***************************************************************************)
Taken(q) ==
    /\ At("ev", "idle")
    /\ pending[q] > 0
    /\ pending' = [pending EXCEPT ![q] = @ - 1]

AnswerIgnored(q) ==
    /\ Taken(q)
    /\ reg_profile = None
    /\ UNCHANGED <<reg_profile, user_profile, profileVars, threadVars, expires, joined, asks, crashed>>

Handles(u, l) ==
    /\ Goto("ev", l)
    /\ prof' = [prof EXCEPT !["ev"] = u]

Succeeded(s) ==
    CASE s = "REG_DOING" -> "REG_OK" [] s = "UNREG_DOING" -> "NORMAL" [] OTHER -> s

Failed(s) ==
    CASE s = "REG_DOING" -> "NORMAL" [] s = "UNREG_DOING" -> "REG_OK" [] OTHER -> s

Success(q, e) ==
    /\ Taken(q)
    /\ reg_profile # None
    /\ Handles(reg_profile, "ev_release")
    /\ user_profile' = IF reg_status[reg_profile] = "REG_DOING" THEN reg_profile ELSE user_profile
    /\ reg_status' = [reg_status EXCEPT ![reg_profile] = Succeeded(@)]
    /\ expires' = e
    /\ UNCHANGED <<reg_profile, cname, enable, seconds_left, thread_register, loc, joined, asks, crashed>>

SuccessReleases ==
    /\ At("ev", "ev_release")
    /\ reg_profile' = None
    /\ seconds_left' = [seconds_left EXCEPT ![prof["ev"]] = expires]
    /\ IF expires = 0
       THEN /\ reg_status' = [reg_status EXCEPT ![prof["ev"]] = "NORMAL"]
            /\ Finish("ev")
       ELSE /\ Goto("ev", "ev_renew")
            /\ UNCHANGED <<reg_status, prof, loc>>
    /\ expires' = 0
    /\ UNCHANGED <<user_profile, cname, enable, thread_register, joined, asks, pending, crashed>>

Unused(t) == t \in Threads /\ ~Running(t) /\ joined # t

StartThread(t) ==
    /\ Unused(t)
    /\ thread_register' = [thread_register EXCEPT ![prof["ev"]] = t]
    /\ pc' = [pc EXCEPT !["ev"] = "idle", ![t] = "start"]
    /\ prof' = [prof EXCEPT !["ev"] = None, ![t] = prof["ev"]]

\* Mutant of Renew: a thread is created whether or not there is one.
RenewAlways ==
    /\ At("ev", "ev_renew")
    /\ enable' = [enable EXCEPT ![prof["ev"]] = TRUE]
    /\ \E t \in Threads : StartThread(t)
    /\ UNCHANGED <<reg_profile, user_profile, reg_status, cname, seconds_left,
                   loc, expires, joined, asks, pending, crashed>>

Renew ==
    /\ At("ev", "ev_renew")
    /\ enable' = [enable EXCEPT ![prof["ev"]] = TRUE]
    /\ \/ /\ thread_register[prof["ev"]] # None
          /\ Goto("ev", "idle")
          /\ prof' = [prof EXCEPT !["ev"] = None]
          /\ UNCHANGED thread_register
       \/ /\ thread_register[prof["ev"]] = None
          /\ \E t \in Threads : StartThread(t)
    /\ UNCHANGED <<reg_profile, user_profile, reg_status, cname, seconds_left,
                   loc, expires, joined, asks, pending, crashed>>

\* A failure that asks for authentication: the profile is registered again.
Authenticate(q) ==
    /\ Taken(q)
    /\ reg_profile # None
    /\ CallRegist("ev", reg_profile, TRUE)
    /\ UNCHANGED <<reg_profile, user_profile, profileVars, expires, joined, crashed>>

Failure(q) ==
    /\ Taken(q)
    /\ reg_profile # None
    /\ Handles(reg_profile, "ev_drop")
    /\ reg_status' = [reg_status EXCEPT ![reg_profile] = Failed(@)]
    /\ UNCHANGED <<reg_profile, user_profile, cname, enable, seconds_left, thread_register,
                   loc, expires, joined, asks, crashed>>

FailureReleases ==
    /\ At("ev", "ev_drop")
    /\ reg_profile' = None
    /\ Finish("ev")
    /\ UNCHANGED <<user_profile, profileVars, expires, joined, asks, pending, crashed>>

-----------------------------------------------------------------------------
(***************************************************************************)
(* The register thread of a profile.                                       *)
(***************************************************************************)
LoopKeeps == UNCHANGED <<reg_profile, user_profile, reg_status, cname, expires, joined, pending, crashed>>

LoopStarts(t) ==
    /\ At(t, "start")
    /\ enable' = [enable EXCEPT ![prof[t]] = TRUE]
    /\ Goto(t, "test")
    /\ UNCHANGED <<seconds_left, thread_register, prof, loc, asks>> /\ LoopKeeps

LoopTurns(t) ==
    /\ At(t, "test")
    /\ enable[prof[t]]
    /\ seconds_left' = [seconds_left EXCEPT ![prof[t]] = IF @ = 0 THEN 0 ELSE @ - 1]
    /\ IF seconds_left'[prof[t]] = 0
       THEN CallRegist(t, prof[t], cname[prof[t]])
       ELSE Goto(t, "sleep") /\ UNCHANGED <<prof, loc, asks>>
    /\ UNCHANGED <<enable, thread_register>> /\ LoopKeeps

LoopWakes(t) ==
    /\ At(t, "sleep")
    /\ Goto(t, "test")
    /\ UNCHANGED <<enable, seconds_left, thread_register, prof, loc, asks>> /\ LoopKeeps

LoopStops(t) ==
    /\ At(t, "test")
    /\ ~enable[prof[t]]
    /\ Goto(t, "leave")
    /\ UNCHANGED <<enable, seconds_left, thread_register, prof, loc, asks>> /\ LoopKeeps

LoopEnds(t) ==
    /\ At(t, "leave")
    /\ thread_register' = [thread_register EXCEPT ![prof[t]] = None]
    /\ Finish(t)
    /\ UNCHANGED <<enable, seconds_left, asks>> /\ LoopKeeps

RegisterThread(t) ==
    LoopStarts(t) \/ LoopTurns(t) \/ LoopWakes(t) \/ LoopStops(t) \/ LoopEnds(t)

UserInterface(q) == UiRegister(q) \/ SetProfile(q) \/ UiUnregister(q)

Answer(q) ==
    AnswerIgnored(q) \/ (\E e \in Expires : Success(q, e)) \/ Authenticate(q) \/ Failure(q)

Next ==
    /\ ~crashed
    /\ \/ \E p \in Procs : Regist(p)
       \/ \E q \in Profiles : UserInterface(q) \/ Answer(q)
       \/ Unregist
       \/ SuccessReleases \/ Renew \/ FailureReleases
       \/ \E t \in Threads : RegisterThread(t)

Spec == Init /\ [][Next]_vars

-----------------------------------------------------------------------------
TypeOK ==
    /\ reg_profile \in Profiles \union {None}
    /\ user_profile \in Profiles \union {None}
    /\ reg_status \in [Profiles -> Status]
    /\ cname \in [Profiles -> BOOLEAN]
    /\ enable \in [Profiles -> BOOLEAN]
    /\ seconds_left \in [Profiles -> Nat]
    /\ thread_register \in [Profiles -> Threads \union {None}]
    /\ pc \in [Procs -> {"idle"} \union LoopSteps \union RegistSteps \union UnregistSteps \union EventSteps]
    /\ prof \in [Procs -> Profiles \union {None}]
    /\ \A p \in Procs : At(p, "idle") \/ prof[p] \in Profiles
    /\ loc \in [Procs -> BOOLEAN]
    /\ expires \in Nat
    /\ joined \in Threads \union {None}
    /\ asks \in 0 .. MaxAsks
    /\ pending \in [Profiles -> 0 .. MaxPending]
    /\ crashed \in BOOLEAN

ThreadsOf(q) == {t \in Threads : Running(t) /\ prof[t] = q}

(***************************************************************************)
(* A profile has at most one register thread, and thread_register names    *)
(* it: client_unregist waits for the thread there is, and no renewal goes  *)
(* on that it does not know of (client_sipua_event creates under           *)
(* thread_register_lock, client_register_loop clears without it).          *)
(***************************************************************************)
RegisterThreadKnown ==
    \A q \in Profiles :
        ThreadsOf(q) = IF thread_register[q] = None THEN {} ELSE {thread_register[q]}

RegistrationInv == TypeOK /\ RegisterThreadKnown

(***************************************************************************)
(* reg_profile never stays claimed with nothing under way that will give   *)
(* it back: while it names a profile, a request is unanswered, an answer   *)
(* is being handled, or a thread is between its claim and its send.  A     *)
(* claim left behind would refuse every later client_regist of another     *)
(* profile and every client_unregist.                                      *)
(***************************************************************************)
ClaimsPending ==
    reg_profile # None =>
        \/ \E q \in Profiles : pending[q] > 0
        \/ pc["ev"] \in {"ev_release", "ev_drop"}
        \/ pc["ev"] \in {"rg_check", "rg_claim"} /\ prof["ev"] = reg_profile
        \/ \E p \in Procs : At(p, "rg_send")
        \/ pc["ui"] \in {"un_stop", "un_wait", "un_joined", "un_send"}

=============================================================================
