--------------------------- MODULE SessionMembers ---------------------------
(***************************************************************************)
(* The members of rtp sessions (libxrtp/session.c): the client adds and    *)
(* deletes the peers of its calls by cname and moves a peer from the       *)
(* session of its call to that of the conference, while the rtcp thread    *)
(* identifies members by the rtcp that comes in, and reports on them in    *)
(* turn.                                                                   *)
(*                                                                         *)
(* A member is an object: one of Objs, or, standing for the session's own  *)
(* member (ses->self), the session itself.  Cname and address of a member  *)
(* are one thing, its peer: peers give the cname they were added by.  A    *)
(* read of freed memory or of a NULL member ends the program ("crashed").  *)
(*                                                                         *)
(* A look through a list and a section under members_lock are one step;    *)
(* a report, which holds the lock for long, is several (Locked).           *)
(***************************************************************************)
EXTENDS Naturals, Sequences, FiniteSetsExt

CONSTANTS
    Sessions,
    Conference,         \* the session members are moved to
    Objs,               \* member_state_t's that xmalloc hands out, each once
    Peers,
    Ssrcs,
    None,               \* no member, no session, no peer
    XRTP_MAX_REPORTS,
    COUNT_MOD           \* 2^32: n_member is a uint

NoSsrc == 0             \* the ssrc of a member not heard of yet

ASSUME MembersAssumption ==
    /\ Conference \in Sessions
    /\ Sessions \intersect Objs = {}
    /\ None \notin Sessions \union Objs \union Peers
    /\ Ssrcs \subseteq Nat \ {NoSsrc}
    /\ XRTP_MAX_REPORTS \in Nat \ {0}
    /\ COUNT_MOD \in Nat \ {0}

VARIABLES
    members,            \* ses->members
    n_member,           \* ses->n_member
    next_report_ssrc,   \* ses->next_report_ssrc
    port_session,       \* the session the rtcp port of a session delivers to
    ssrc, valid,        \* of a member
    peer, home,         \* of an object: whose it is, and whose ports its connects use
    freed,              \* objects session_done_member has freed
    pc, ses, mem,       \* the rtcp thread, the session it serves and the member it is at
    incoming,           \* the rtcp packet it handles
    max_report, start_report_ssrc, outgoing_rtcp,
    pcMove, moving      \* the move under way

listVars == <<members, n_member, port_session>>
memberVars == <<ssrc, valid>>
objectVars == <<peer, home, freed>>
reportVars == <<next_report_ssrc, max_report, start_report_ssrc, outgoing_rtcp>>
threadVars == <<pc, ses, mem, incoming>>
moveVars == <<pcMove, moving>>
vars == <<listVars, memberVars, objectVars, reportVars, threadVars, moveVars>>

Members == Sessions \union Objs
Packets == [peer : Peers, ssrc : Ssrcs]
NoPacket == [peer |-> None, ssrc |-> NoSsrc]

Allocated == {o \in Objs : home[o] # None}
In(s) == {members[s][k] : k \in DOMAIN members[s]}
Guests(s) == In(s) \ {s}

\* The first in the list of s that is in M, None when there is none.
FirstOf(s, M) ==
    LET at == {k \in DOMAIN members[s] : members[s][k] \in M}
    IN  IF at = {} THEN None ELSE members[s][Min(at)]

BySsrc(s, x) == FirstOf(s, {m \in Members : ssrc[m] = x})           \* session_member_state
ByPeer(s, p) == FirstOf(s, {o \in Allocated : peer[o] = p})         \* by cname, by connect

\* xlist_remove: the node of o is unlinked.
Without(s, o) ==
    LET k == CHOOSE l \in DOMAIN members[s] : members[s][l] = o
    IN  [j \in 1 .. Len(members[s]) - 1 |-> members[s][IF j < k THEN j ELSE j + 1]]

\* Mutant of AddFirst: the new member goes to the end.
AddLast(s, o) == Append(members[s], o)

AddFirst(s, o) == <<o>> \o members[s]

Init ==
    /\ members = [s \in Sessions |-> <<s>>]
    /\ n_member = [s \in Sessions |-> 1 % COUNT_MOD]
    /\ next_report_ssrc = [s \in Sessions |-> NoSsrc]
    /\ port_session = [s \in Sessions |-> s]
    /\ ssrc = [m \in Members |-> NoSsrc]
    /\ valid = [m \in Members |-> m \in Sessions]
    /\ peer = [o \in Objs |-> None] /\ home = [o \in Objs |-> None]
    /\ freed = {}
    /\ pc = "idle" /\ ses = None /\ mem = None /\ incoming = NoPacket
    /\ max_report = 0 /\ start_report_ssrc = NoSsrc /\ outgoing_rtcp = <<>>
    /\ pcMove = "idle" /\ moving = None

-----------------------------------------------------------------------------
(***************************************************************************)
(* The client: a peer of a call comes, goes, or moves to the conference.   *)
(***************************************************************************)
Running == pc # "crashed"

\* members_lock: only a report keeps it.
LockFree == Running /\ pc \notin {"report", "record"}

ThreadKeeps == UNCHANGED <<threadVars, reportVars>>

\* session_add_cname: a peer the session knows already is not added again.
AddCname(s, p) ==
    /\ LockFree
    /\ ByPeer(s, p) = None
    /\ \E o \in Objs :
        /\ o \notin Allocated
        /\ o = CHOOSE new \in Objs : new \notin Allocated
        /\ members' = [members EXCEPT ![s] = AddFirst(s, o)]
        /\ peer' = [peer EXCEPT ![o] = p]
        /\ home' = [home EXCEPT ![o] = s]
    /\ UNCHANGED <<n_member, port_session, memberVars, freed, moveVars>>
    /\ ThreadKeeps

\* session_delete_cname, session_done_member: n_member stays.
DeleteCname(s, p) ==
    /\ LockFree
    /\ \E o \in Objs :
        /\ o = ByPeer(s, p)
        /\ members' = [members EXCEPT ![s] = Without(s, o)]
        /\ freed' = freed \union {o}
    /\ UNCHANGED <<n_member, port_session, memberVars, peer, home, moveVars>>
    /\ ThreadKeeps

\* session_move_member_by_cname, session_remove_member.
MoveRemove(s, p) ==
    /\ LockFree
    /\ pcMove = "idle" /\ s # Conference
    /\ \E o \in Objs :
        /\ o = ByPeer(s, p)
        /\ members' = [members EXCEPT ![s] = Without(s, o)]
        /\ moving' = o
    /\ n_member' = [n_member EXCEPT ![s] = (n_member[s] + COUNT_MOD - 1) % COUNT_MOD]
    /\ pcMove' = "removed"
    /\ UNCHANGED <<port_session, memberVars, objectVars>>
    /\ ThreadKeeps

\* session_reset_member: the memset forgets the ssrc and the validation.
MoveReset ==
    /\ Running
    /\ pcMove = "removed"
    /\ ssrc' = [ssrc EXCEPT ![moving] = NoSsrc]
    /\ valid' = [valid EXCEPT ![moving] = FALSE]
    /\ pcMove' = "reset"
    /\ UNCHANGED <<listVars, objectVars, moving>>
    /\ ThreadKeeps

\* session_add_member looks for the cname before it locks: if it is there,
\* the moved member is in no session any more.
MoveFind ==
    /\ Running
    /\ pcMove = "reset"
    /\ IF ByPeer(Conference, peer[moving]) # None
       THEN pcMove' = "idle" /\ moving' = None
       ELSE pcMove' = "checked" /\ UNCHANGED moving
    /\ UNCHANGED <<listVars, memberVars, objectVars>>
    /\ ThreadKeeps

\* session_add_member under the lock; connect_set_session turns the port over.
MoveAdd ==
    /\ LockFree
    /\ pcMove = "checked"
    /\ members' = [members EXCEPT ![Conference] = AddFirst(Conference, moving)]
    /\ n_member' = [n_member EXCEPT ![Conference] = (Len(members[Conference]) + 1) % COUNT_MOD]
    /\ port_session' = [port_session EXCEPT ![home[moving]] = Conference]
    /\ pcMove' = "idle" /\ moving' = None
    /\ UNCHANGED <<memberVars, objectVars>>
    /\ ThreadKeeps

Client ==
    \/ \E s \in Sessions, p \in Peers : AddCname(s, p) \/ DeleteCname(s, p) \/ MoveRemove(s, p)
    \/ MoveReset \/ MoveFind \/ MoveAdd

-----------------------------------------------------------------------------
(***************************************************************************)
(* The rtcp thread identifies the sender of a packet                       *)
(* (session_update_member_by_rtcp), without members_lock.                  *)
(***************************************************************************)
ClientKeeps == UNCHANGED <<objectVars, moveVars>>

\* The thread has done what it began, and its locals are gone.
Done ==
    /\ pc' = "idle" /\ ses' = None /\ mem' = None /\ incoming' = NoPacket
    /\ max_report' = 0 /\ start_report_ssrc' = NoSsrc /\ outgoing_rtcp' = <<>>

\* session_make_ssrc: other than the members', if n_member says there are any.
MayTake(s, x) == n_member[s] > 1 => BySsrc(s, x) = None

Crash == pc' = "crashed" /\ UNCHANGED <<ses, mem, incoming, listVars, memberVars, reportVars>>

\* The packet bears the ssrc of the session itself, which takes another.
Collides(s, x) ==
    /\ x = ssrc[s]
    /\ \E y \in Ssrcs : MayTake(s, y) /\ ssrc' = [ssrc EXCEPT ![s] = y]
    /\ UNCHANGED <<pc, ses, mem, incoming, valid>>

\* Found by ssrc, or else by the connect it came on, and then booked so far.
Identifies(s, p, x) ==
    /\ x # ssrc[s]
    /\ \E o \in Objs :
        \/ /\ o = BySsrc(s, x)
           /\ mem' = o
           /\ UNCHANGED ssrc
        \/ /\ BySsrc(s, x) = None
           /\ o = ByPeer(s, p)
           /\ mem' = o
           /\ ssrc' = [ssrc EXCEPT ![o] = IF ssrc[o] = NoSsrc THEN x ELSE ssrc[o]]
    /\ pc' = "found" /\ ses' = s
    /\ incoming' = [peer |-> p, ssrc |-> x]
    /\ UNCHANGED valid

\* The port is that of a session the peer was added to, and delivers to the
\* session it belongs to now.
RtcpComes(p, x) ==
    /\ pc = "idle"
    /\ \E o \in Allocated : peer[o] = p /\ LET s == port_session[home[o]] IN
        \/ Collides(s, x) \/ Identifies(s, p, x)
    /\ UNCHANGED <<listVars, reportVars>>
    /\ ClientKeeps

\* No member has that connect: the search ends at self, whose rtcp_port is NULL.
CrashUnknown(p, x) ==
    /\ pc = "idle"
    /\ \E o \in Allocated : peer[o] = p /\ LET s == port_session[home[o]] IN
        x # ssrc[s] /\ BySsrc(s, x) = None /\ ByPeer(s, p) = None
    /\ Crash
    /\ ClientKeeps

CrashFreed ==
    /\ pc = "found"
    /\ mem \in freed
    /\ Crash
    /\ ClientKeeps

\* The member is known, or the packet comes from another peer than the member.
RtcpKnown ==
    /\ pc = "found"
    /\ mem \notin freed
    /\ valid[mem] \/ peer[mem] # incoming.peer
    /\ Done
    /\ UNCHANGED <<listVars, memberVars, next_report_ssrc>>
    /\ ClientKeeps

\* Mutant of Validated: the ssrc was set when the member was found.
ValidatedOnly == valid' = [valid EXCEPT ![mem] = TRUE] /\ UNCHANGED ssrc

Validated ==
    /\ valid' = [valid EXCEPT ![mem] = TRUE]
    /\ ssrc' = [ssrc EXCEPT ![mem] = incoming.ssrc]

RtcpValidates ==
    /\ pc = "found"
    /\ mem \notin freed
    /\ ~valid[mem] /\ peer[mem] = incoming.peer
    /\ Validated
    /\ n_member' = [n_member EXCEPT ![ses] = (n_member[ses] + 1) % COUNT_MOD]
    /\ Done
    /\ UNCHANGED <<members, port_session, next_report_ssrc>>
    /\ ClientKeeps

-----------------------------------------------------------------------------
(***************************************************************************)
(* The rtcp thread reports (session_rtcp_to_send, session_report).         *)
(***************************************************************************)
\* A visitor that nobody booked has an ssrc but is not valid.
Eligible(m) == valid[m] \/ ssrc[m] = NoSsrc

\* session_next_valid_member_of: the next in the circle after the first with ssrc x.
NextValid(s, x) ==
    LET n == Len(members[s])
        i == Min({k \in 1 .. n : ssrc[members[s][k]] = x})
        After(d) == members[s][IF i + d <= n THEN i + d ELSE i + d - n]
    IN  After(Min({d \in 1 .. n : Eligible(After(d))}))

\* Mutant of NextGuest: self is not skipped.
NextMember(s, x) == NextValid(s, x)

NextGuest(s, x) ==
    LET m == NextValid(s, x) IN IF m = s THEN NextValid(s, ssrc[s]) ELSE m

\* Mutant of MaxReport: as many as there are members.
MaxReportUnbounded(s) == n_member[s]

MaxReport(s) == IF XRTP_MAX_REPORTS > n_member[s] THEN n_member[s] ELSE XRTP_MAX_REPORTS

\* The session has somebody to report to (session_need_rtcp), and a ssrc from now on.
ReportBegins(s) ==
    /\ pc = "idle"
    /\ Len(members[s]) > 1
    /\ \/ ssrc[s] # NoSsrc /\ UNCHANGED ssrc
       \/ /\ ssrc[s] = NoSsrc
          /\ \E y \in Ssrcs : MayTake(s, y) /\ ssrc' = [ssrc EXCEPT ![s] = y]
    /\ ses' = s
    /\ max_report' = MaxReport(s)
    /\ pc' = "lock"
    /\ UNCHANGED <<mem, incoming, listVars, valid, next_report_ssrc, start_report_ssrc, outgoing_rtcp>>
    /\ ClientKeeps

\* The last peer has gone before the lock was taken: nothing to report.
ReportNobody ==
    /\ pc = "lock"
    /\ Len(members[ses]) <= 1
    /\ Done
    /\ UNCHANGED <<listVars, memberVars, next_report_ssrc>>
    /\ ClientKeeps

\* Where the last report stopped, or after self.
ReportLock ==
    /\ pc = "lock"
    /\ Len(members[ses]) > 1
    /\ \/ /\ next_report_ssrc[ses] = NoSsrc
          /\ mem' = NextValid(ses, ssrc[ses])
       \/ /\ next_report_ssrc[ses] # NoSsrc
          /\ LET m == BySsrc(ses, next_report_ssrc[ses]) IN
              /\ m # None
              /\ mem' = IF m = ses THEN NextValid(ses, ssrc[ses]) ELSE m
    /\ next_report_ssrc' = [next_report_ssrc EXCEPT ![ses] =
                               IF @ = NoSsrc THEN ssrc[mem'] ELSE @]
    /\ start_report_ssrc' = next_report_ssrc'[ses]
    /\ UNCHANGED outgoing_rtcp
    /\ pc' = IF max_report > 0 THEN "report" ELSE "record"
    /\ UNCHANGED <<ses, incoming, max_report, listVars, memberVars>>
    /\ ClientKeeps

\* The member the last report stopped at has left: session_member_state returns
\* NULL, which the report dereferences.
CrashLeft ==
    /\ pc = "lock"
    /\ Len(members[ses]) > 1
    /\ next_report_ssrc[ses] # NoSsrc
    /\ BySsrc(ses, next_report_ssrc[ses]) = None
    /\ Crash
    /\ ClientKeeps

ReportOne ==
    /\ pc = "report"
    /\ outgoing_rtcp' = Append(outgoing_rtcp, mem)
    /\ max_report' = max_report - 1
    /\ mem' = NextGuest(ses, ssrc[mem])
    /\ pc' = IF ssrc[mem'] = start_report_ssrc \/ max_report = 1 THEN "record" ELSE "report"
    /\ UNCHANGED <<ses, incoming, listVars, memberVars, next_report_ssrc, start_report_ssrc>>
    /\ ClientKeeps

\* Mutant of Recorded: the next report starts where this one did.
RecordedStart == start_report_ssrc

Recorded == ssrc[mem]

\* Unlock, and send to the connects in outgoing_rtcp (session_rtcp_send_now).
ReportRecord ==
    /\ pc = "record"
    /\ next_report_ssrc' = [next_report_ssrc EXCEPT ![ses] = Recorded]
    /\ Done
    /\ UNCHANGED <<listVars, memberVars>>
    /\ ClientKeeps

RtcpGoesOn == CrashFreed \/ RtcpKnown \/ RtcpValidates

ReportGoesOn == ReportNobody \/ ReportLock \/ CrashLeft \/ ReportOne \/ ReportRecord

Thread ==
    \/ \E p \in Peers, x \in Ssrcs : RtcpComes(p, x) \/ CrashUnknown(p, x)
    \/ RtcpGoesOn
    \/ \E s \in Sessions : ReportBegins(s)
    \/ ReportGoesOn

Next == Client \/ Thread

Spec == Init /\ [][Next]_vars

(***************************************************************************)
(* The thread goes on with what it has begun, and comes back to every      *)
(* session that needs it (StartedReports of RtcpScheduler).                *)
(***************************************************************************)
FairSpec ==
    /\ Spec
    /\ WF_vars(RtcpGoesOn) /\ WF_vars(ReportGoesOn)
    /\ \A s \in Sessions : SF_vars(ReportBegins(s))

-----------------------------------------------------------------------------
TypeOK ==
    /\ members \in [Sessions -> Seq(Members)]
    /\ n_member \in [Sessions -> 0 .. COUNT_MOD - 1]
    /\ next_report_ssrc \in [Sessions -> Ssrcs \union {NoSsrc}]
    /\ port_session \in [Sessions -> Sessions]
    /\ ssrc \in [Members -> Ssrcs \union {NoSsrc}]
    /\ valid \in [Members -> BOOLEAN]
    /\ peer \in [Objs -> Peers \union {None}]
    /\ home \in [Objs -> Sessions \union {None}]
    /\ freed \subseteq Objs
    /\ pc \in {"idle", "found", "lock", "report", "record", "crashed"}
    /\ ses \in Sessions \union {None}
    /\ mem \in Members \union {None}
    /\ incoming \in Packets \union {NoPacket}
    /\ max_report \in 0 .. XRTP_MAX_REPORTS
    /\ start_report_ssrc \in Ssrcs \union {NoSsrc}
    /\ outgoing_rtcp \in Seq(Members)
    /\ pcMove \in {"idle", "removed", "reset", "checked"}
    /\ moving \in Objs \union {None}

\* No member is twice in a list, or in two.
OneListEach ==
    \A s \in Sessions, t \in Sessions :
        \A k \in DOMAIN members[s], l \in DOMAIN members[t] :
            members[s][k] = members[t][l] => s = t /\ k = l

\* Self is last in its list, so that a search meets every guest before it.
SelfLast == \A s \in Sessions : Len(members[s]) > 0 /\ members[s][Len(members[s])] = s

\* An object that is moving, or freed, is in no list.
GoneUnlisted == \A s \in Sessions : moving \notin In(s) /\ freed \intersect In(s) = {}

\* The lists while members are added, deleted and moved, with the search for the
\* cname in a move outside of the lock: a member is in one list at most, and
\* none that is moving or freed can be found.
MembershipInv == OneListEach /\ SelfLast /\ GoneUnlisted

\* Between packets a member has a ssrc exactly if it is validated: no member is
\* left for the reports to skip (neither booked nor valid), though a move may
\* reset it between the search that found it and the validation.
NoHalfValid ==
    pc \notin {"found", "crashed"} => \A o \in Objs : valid[o] <=> ssrc[o] # NoSsrc

\* outgoing_rtcp, of XRTP_MAX_REPORTS entries, is never written past its end,
\* whatever n_member says.
OutgoingFits == Len(outgoing_rtcp) + (IF pc = "report" THEN max_report ELSE 0) <= XRTP_MAX_REPORTS

\* The ssrcs in the list tell its members apart.
SsrcsDiffer(s) ==
    \A k, l \in DOMAIN members[s] : ssrc[members[s][k]] = ssrc[members[s][l]] => k = l

\* Where the ssrcs tell the members apart a report is about guests only, and
\* about none of them twice: the walk stops where it began.  (It would not if
\* self had taken the ssrc of a member that left, and the walk began there.)
OutgoingGuests ==
    pc \in {"report", "record"} /\ SsrcsDiffer(ses) /\ start_report_ssrc # ssrc[ses] =>
        /\ \A k \in DOMAIN outgoing_rtcp : outgoing_rtcp[k] \in Guests(ses)
        /\ \A k, l \in DOMAIN outgoing_rtcp : outgoing_rtcp[k] = outgoing_rtcp[l] => k = l

\* A guest that stays is reported on again and again, however many there are,
\* while all have been heard of, their ssrcs differ and the count is not zero.
\* (A guest not heard of has ssrc 0, which next_report_ssrc takes for no start.)
EachGuestReported ==
    \A s \in Sessions, o \in Objs :
        <>[](/\ Running /\ o \in Guests(s) /\ n_member[s] # 0
             /\ SsrcsDiffer(s) /\ \A g \in Guests(s) : ssrc[g] # NoSsrc)
            => []<><<ReportOne /\ mem = o /\ ses = s>>_vars

=============================================================================
