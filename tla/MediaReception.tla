--------------------------- MODULE MediaReception ---------------------------
(***************************************************************************)
(* How the media of one identified member reaches its player               *)
(* (libxrtp/session.c, called from spxrtp_rtp_in of speex/speex_rtp.c and  *)
(* vrtp_rtp_in of vorbis/vorbis_rtp.c).  Three threads share the member:   *)
(*                                                                         *)
(*  - the rtp receiver updates the sequence tracker, starts the delivery   *)
(*    thread when there is none, and puts each frame of the packet into    *)
(*    the delivery buffer (session_member_hold_media);                     *)
(*  - the delivery thread (member_deliver_media_loop) takes frames out and *)
(*    plays them, or waits on one of two condition variables;              *)
(*  - a controller moves the member to another session                     *)
(*    (session_move_member): out of the list, delivery stopped, reset,     *)
(*    into the other list.                                                 *)
(*                                                                         *)
(* Locks are SDL mutexes: recursive, with an owner and a count; waiting on *)
(* a condition gives up one level of the count and takes it back.          *)
(* A packet n carries the number n % SEQ_MOD.                              *)
(***************************************************************************)
EXTENDS SeqnoTracker, Sequences, SequencesExt

CONSTANTS
    DeliveryThreads,  \* threads member_deliver_media_loop may run in
    Receiver,         \* the rtp receiving thread
    None,             \* no thread
    FirstPacket,      \* extended number of the source's first packet
    MaxPacket,        \* bound: the last packet
    MaxGap,           \* the network loses fewer than MaxGap packets in a row
    Lags,             \* and delivers a packet again, or late, that much behind the newest
    MaxAhead,         \* a frame waits for its play time while at most MaxAhead packets come
    MaxOld,           \* bound: how often the network does so
    Bundles,          \* packets that carry two frames (vorbis), the others one
    MaxMoves          \* bound: moves between sessions

ASSUME MediaAssumption ==
    /\ FirstPacket \in Nat /\ MaxPacket \in Nat /\ FirstPacket <= MaxPacket
    /\ MaxGap \in Nat /\ MaxMoves \in Nat
    /\ Lags \subseteq Nat /\ MaxAhead \in Nat /\ MaxOld \in Nat
    /\ Bundles \subseteq Nat

ASSUME ThreadAssumption ==
    /\ None \notin DeliveryThreads
    /\ Receiver \notin DeliveryThreads
    /\ None # Receiver

VARIABLES
    top, old,     \* newest packet the network delivered, how many old ones came
    listed,           \* the member is in a session's list of members
    pc_recv, packet, frames_left,          \* the receiver and the packet it handles
    pc_ctrl, joining, moves,               \* the controller
    pc,               \* program counter of each delivery thread
    hold,             \* the frame each delivery thread looks at (its local variable)
    deliver_thread, stop_delivery, expect_seqno, packetno, misorder,
    buffer,           \* delivery_buffer: frames in ascending seqno
    due,              \* packets whose play time has come
    lock_owner, lock_count,                \* delivery_lock
    wait_media_available, wait_seqno,      \* threads waiting on each condition
    played            \* what the player was given, in order

receiverVars == <<pc_recv, packet, frames_left>>
controlVars == <<pc_ctrl, joining, moves>>
lockVars == <<lock_owner, lock_count>>
waitVars == <<wait_media_available, wait_seqno>>
memberVars == <<deliver_thread, stop_delivery, expect_seqno, packetno, misorder>>
networkVars == <<top, old>>
vars == <<trackerVars, networkVars, listed, receiverVars, controlVars, pc, hold, memberVars,
          buffer, due, lockVars, waitVars, played>>

Packets == FirstPacket .. MaxPacket
Seq16(n) == n % SEQ_MOD

\* media_hold_t; ext is the packet's extended number, which the code does not know.
Frame(n, last) == [seqno |-> Seq16(n), ext |-> n, full_payload |-> last]
Frames == [seqno : Seqno, ext : Packets, full_payload : BOOLEAN]

\* play(NULL) at the end of a delivery.
EOS == [ext |-> MaxPacket + 1, packetno |-> 0]

Init ==
    /\ TrackerInit
    /\ top = FirstPacket /\ old = 0
    /\ listed = TRUE
    /\ pc_recv = "poll" /\ packet = FirstPacket /\ frames_left = 0
    /\ pc_ctrl = "idle" /\ joining = None /\ moves = 0
    /\ pc = [d \in DeliveryThreads |-> "ended"]
    /\ hold = [d \in DeliveryThreads |-> Frame(FirstPacket, TRUE)]
    /\ deliver_thread = None /\ stop_delivery = FALSE
    /\ expect_seqno = 0 /\ packetno = 0 /\ misorder = FALSE
    /\ buffer = <<>> /\ due = {}
    /\ lock_owner = None /\ lock_count = 0
    /\ wait_media_available = {} /\ wait_seqno = {}
    /\ played = <<>>

-----------------------------------------------------------------------------
(***************************************************************************)
(* The delivery lock (SDL_mutex) and its two conditions (SDL_cond).        *)
(***************************************************************************)
\* Mutant of LockFree: a mutex that lets in whoever waited on a condition.
LockFreeForWaiters(t) ==
    \/ lock_owner \in {None, t}
    \/ t \in DeliveryThreads /\ pc[t] = "wait_seqno"

LockFree(t) == lock_owner \in {None, t}

Acquire(t) ==
    /\ LockFree(t)
    /\ lock_owner' = t
    /\ lock_count' = lock_count + 1

Release ==
    /\ lock_count' = lock_count - 1
    /\ lock_owner' = IF lock_count = 1 THEN None ELSE lock_owner

\* A signal wakes one waiting thread, or nobody.
Signal(waiting, waiting2) ==
    IF waiting = {} THEN waiting2 = {} ELSE \E d \in waiting : waiting2 = waiting \ {d}

-----------------------------------------------------------------------------
(***************************************************************************)
(* The receiver: spxrtp_rtp_in, vrtp_rtp_in.                               *)
(***************************************************************************)

\* Mutant of Stale: nothing is.
NeverStale(n) == FALSE

\* (int32)seqno - (int32)expect_seqno < 0
Stale(n) == Seq16(n) < expect_seqno

\* 2^16 packets never come while one frame is held or played.
InTime(n) ==
    /\ \A i \in DOMAIN buffer : n <= buffer[i].ext + MaxAhead
    /\ \A d \in DeliveryThreads : pc[d] = "free" => n <= hold[d].ext + MaxAhead

NetworkDelivers(n) ==
    /\ pc_recv = "poll"
    /\ listed
    /\ InTime(n)
    /\ \/ n \in top .. top + MaxGap /\ (n > top \/ probation = MIN_SEQUENTIAL)
          /\ UNCHANGED old
       \/ probation < MIN_SEQUENTIAL
          /\ \E lag \in Lags : n + lag = top
          /\ old < MaxOld
          /\ old' = old + 1
    /\ top' = IF n > top THEN n ELSE top

RecvIgnored ==
    UNCHANGED <<listed, controlVars, pc, hold, memberVars, buffer, due, lockVars, waitVars,
                played>>

\* session_update_seqno refuses the number.
RecvRefused(n) ==
    /\ NetworkDelivers(n)
    /\ Refused(Seq16(n))
    /\ UNCHANGED receiverVars
    /\ RecvIgnored

\* The tracker has taken the number, but playing is past it.
RecvStale(n) ==
    /\ NetworkDelivers(n)
    /\ Valid(Seq16(n))
    /\ Stale(n)
    /\ UNCHANGED receiverVars
    /\ RecvIgnored

RecvValid(n) ==
    /\ NetworkDelivers(n)
    /\ Valid(Seq16(n))
    /\ ~Stale(n)
    /\ packet' = n
    /\ pc_recv' = "stall"
    /\ UNCHANGED frames_left
    /\ RecvIgnored

\* session_member_seqno_stall, a second reading of expect_seqno.
RecvStall ==
    /\ pc_recv = "stall"
    /\ pc_recv' = IF Stale(packet) THEN "poll" ELSE "deliver"
    /\ frames_left' = IF packet \in Bundles THEN 2 ELSE 1
    /\ UNCHANGED <<trackerVars, networkVars, listed, packet, controlVars, pc, hold, memberVars,
                   buffer, due, lockVars, waitVars, played>>

\* session_member_deliver
RecvDeliver ==
    /\ pc_recv = "deliver"
    /\ pc_recv' = "hold"
    /\ IF deliver_thread # None
         THEN UNCHANGED <<memberVars, pc>>
         ELSE \E d \in DeliveryThreads :
                /\ pc[d] = "ended"
                /\ d # joining
                /\ deliver_thread' = d
                /\ pc' = [pc EXCEPT ![d] = "start"]
                /\ expect_seqno' = Seq16(packet)
                /\ packetno' = 0
                /\ stop_delivery' = FALSE
                /\ UNCHANGED misorder
    /\ UNCHANGED <<trackerVars, networkVars, listed, packet, frames_left, controlVars, hold, buffer,
                   due, lockVars, waitVars, played>>

\* Where xlist_addonce_ascent stops: at the first frame of no smaller number.
AscentPlace(b, f) ==
    LET S == {i \in DOMAIN b : b[i].seqno >= f.seqno} IN IF S = {} THEN Len(b) + 1 ELSE Min(S)

\* xlist_addonce_ascent by seqno: a number already there is not added again.
AddOnceAscent(b, f) ==
    LET k == AscentPlace(b, f) IN
    IF k \in DOMAIN b /\ b[k].seqno = f.seqno THEN b ELSE InsertAt(b, k, f)

\* session_member_hold_media up to its unlock: one critical section.
RecvHold ==
    /\ pc_recv = "hold"
    /\ LockFree(Receiver)
    /\ buffer' = AddOnceAscent(buffer, Frame(packet, frames_left = 1))
    /\ frames_left' = frames_left - 1
    /\ pc_recv' = "signal"
    /\ UNCHANGED <<trackerVars, networkVars, listed, packet, controlVars, pc, hold, memberVars, due,
                   lockVars, waitVars, played>>

\* Mutant of RecvSignal: with misorder set, only the other condition is signalled.
RecvSignalOne ==
    /\ pc_recv = "signal"
    /\ IF misorder THEN Signal(wait_seqno, wait_seqno') /\ UNCHANGED wait_media_available
                   ELSE UNCHANGED waitVars
    /\ pc_recv' = IF frames_left > 0 THEN "hold" ELSE "poll"
    /\ UNCHANGED <<trackerVars, networkVars, listed, packet, frames_left, controlVars, pc, hold,
                   memberVars, buffer, due, lockVars, played>>

\* The signals of session_member_hold_media, after the lock is released.
RecvSignal ==
    /\ pc_recv = "signal"
    /\ IF misorder THEN Signal(wait_seqno, wait_seqno') ELSE UNCHANGED wait_seqno
    /\ Signal(wait_media_available, wait_media_available')
    /\ pc_recv' = IF frames_left > 0 THEN "hold" ELSE "poll"
    /\ UNCHANGED <<trackerVars, networkVars, listed, packet, frames_left, controlVars, pc, hold,
                   memberVars, buffer, due, lockVars, played>>

ReceiverStep ==
    \/ \E n \in Packets : RecvRefused(n) \/ RecvStale(n) \/ RecvValid(n)
    \/ RecvStall \/ RecvDeliver \/ RecvHold \/ RecvSignal

-----------------------------------------------------------------------------
(***************************************************************************)
(* The delivery thread: member_deliver_media_loop.                         *)
(***************************************************************************)
DeliveryKeeps ==
    UNCHANGED <<trackerVars, networkVars, listed, receiverVars, controlVars>>

DeliverStart(d) ==
    /\ pc[d] = "start"
    /\ stop_delivery' = FALSE
    /\ pc' = [pc EXCEPT ![d] = "lock"]
    /\ UNCHANGED <<hold, deliver_thread, expect_seqno, packetno, misorder, buffer, due,
                   lockVars, waitVars, played>>
    /\ DeliveryKeeps

DeliverLock(d) ==
    /\ pc[d] = "lock"
    /\ Acquire(d)
    /\ pc' = [pc EXCEPT ![d] = "check"]
    /\ UNCHANGED <<hold, memberVars, buffer, due, waitVars, played>>
    /\ DeliveryKeeps

\* stop_delivery: the player is told end of stream.
DeliverStop(d) ==
    /\ pc[d] = "check"
    /\ stop_delivery
    /\ packetno' = packetno + 1
    /\ played' = Append(played, EOS)
    /\ Release
    /\ pc' = [pc EXCEPT ![d] = "exit"]
    /\ UNCHANGED <<hold, deliver_thread, stop_delivery, expect_seqno, misorder, buffer, due,
                   waitVars>>
    /\ DeliveryKeeps

DeliverWaitMedia(d) ==
    /\ pc[d] = "check"
    /\ ~stop_delivery
    /\ buffer = <<>>
    /\ wait_media_available' = wait_media_available \union {d}
    /\ Release
    /\ pc' = [pc EXCEPT ![d] = "wait_media"]
    /\ UNCHANGED <<hold, memberVars, buffer, due, wait_seqno, played>>
    /\ DeliveryKeeps

\* Woken: the lock is taken back and released at once.
DeliverMediaAvailable(d) ==
    /\ pc[d] = "wait_media"
    /\ d \notin wait_media_available
    /\ LockFree(d)
    /\ pc' = [pc EXCEPT ![d] = "lock"]
    /\ UNCHANGED <<hold, memberVars, buffer, due, lockVars, waitVars, played>>
    /\ DeliveryKeeps

\* Mutant of Gap: the expected number itself is a gap.
GapFromExpected(f) == f.seqno >= expect_seqno

Gap(f) == f.seqno > expect_seqno

CanPlay(f) == ~Gap(f) \/ f.ext \in due

(***************************************************************************)
(* Take the first frame, sleep until its time (the lock stays held), play  *)
(* it, release.  A gap makes packetno skip one.                            *)
(***************************************************************************)
DeliverPlay(d) ==
    /\ pc[d] = "check"
    /\ ~stop_delivery
    /\ buffer # <<>>
    /\ CanPlay(Head(buffer))
    /\ buffer' = Tail(buffer)
    /\ due' = due \ {Head(buffer).ext}
    /\ packetno' = packetno + IF Gap(Head(buffer)) THEN 2 ELSE 1
    /\ played' = Append(played, [ext |-> Head(buffer).ext, packetno |-> packetno'])
    /\ hold' = [hold EXCEPT ![d] = Head(buffer)]
    /\ Release
    /\ pc' = [pc EXCEPT ![d] = "free"]
    /\ UNCHANGED <<deliver_thread, stop_delivery, expect_seqno, misorder, waitVars>>
    /\ DeliveryKeeps

\* After the unlock: the last frame of a packet advances expect_seqno.
DeliverFree(d) ==
    /\ pc[d] = "free"
    /\ expect_seqno' = IF hold[d].full_payload THEN SeqNext(hold[d].seqno)
                                                  ELSE expect_seqno
    /\ pc' = [pc EXCEPT ![d] = "lock"]
    /\ UNCHANGED <<hold, deliver_thread, stop_delivery, packetno, misorder, buffer, due,
                   lockVars, waitVars, played>>
    /\ DeliveryKeeps

\* A packet is missing and there is time: wait for it, or for the time-out.
DeliverWaitSeqno(d) ==
    /\ pc[d] = "check"
    /\ ~stop_delivery
    /\ buffer # <<>>
    /\ ~CanPlay(Head(buffer))
    /\ misorder' = TRUE
    /\ wait_seqno' = wait_seqno \union {d}
    /\ hold' = [hold EXCEPT ![d] = Head(buffer)]
    /\ Release
    /\ pc' = [pc EXCEPT ![d] = "wait_seqno"]
    /\ UNCHANGED <<deliver_thread, stop_delivery, expect_seqno, packetno, buffer, due,
                   wait_media_available, played>>
    /\ DeliveryKeeps

(***************************************************************************)
(* The wait ends on a signal or a time-out, and the loop begins again with *)
(* the lock taken back.  The time-out, now - usec_ref + usec, is never     *)
(* shorter than what is left until the frame's play time, usec_ref + usec. *)
(***************************************************************************)
TimedOut(d) == hold[d].ext \in due \/ ~Contains(buffer, hold[d])

DeliverSeqno(d) ==
    /\ pc[d] = "wait_seqno"
    /\ d \in wait_seqno => TimedOut(d)
    /\ Acquire(d)
    /\ wait_seqno' = wait_seqno \ {d}
    /\ pc' = [pc EXCEPT ![d] = "lock"]
    /\ UNCHANGED <<hold, memberVars, buffer, due, wait_media_available, played>>
    /\ DeliveryKeeps

DeliverExit(d) ==
    /\ pc[d] = "exit"
    /\ deliver_thread' = None
    /\ pc' = [pc EXCEPT ![d] = "ended"]
    /\ UNCHANGED <<hold, stop_delivery, expect_seqno, packetno, misorder, buffer, due,
                   lockVars, waitVars, played>>
    /\ DeliveryKeeps

DeliveryStep(d) ==
    \/ DeliverStart(d) \/ DeliverLock(d) \/ DeliverStop(d)
    \/ DeliverWaitMedia(d) \/ DeliverMediaAvailable(d)
    \/ DeliverPlay(d) \/ DeliverFree(d)
    \/ DeliverWaitSeqno(d) \/ DeliverSeqno(d) \/ DeliverExit(d)

\* The clock: the play time of a held frame comes.
TimePasses(n) ==
    /\ \E i \in DOMAIN buffer : buffer[i].ext = n
    /\ n \notin due
    /\ due' = due \union {n}
    /\ UNCHANGED <<pc, hold, memberVars, buffer, lockVars, waitVars, played>>
    /\ DeliveryKeeps

-----------------------------------------------------------------------------
(***************************************************************************)
(* The controller: session_move_member.                                    *)
(***************************************************************************)
ControlKeeps ==
    UNCHANGED <<networkVars, receiverVars, pc, hold, due, lockVars, waitVars, played>>

\* session_remove_member: we_sent is never set for a remote member, so that
\* its entry in session->senders stays.
MoveRemove ==
    /\ pc_ctrl = "idle"
    /\ moves < MaxMoves
    /\ listed' = FALSE
    /\ moves' = moves + 1
    /\ pc_ctrl' = "stop"
    /\ UNCHANGED <<trackerVars, joining, memberVars, buffer>>
    /\ ControlKeeps

\* session_reset_member: stop a running delivery ...
MoveStop ==
    /\ pc_ctrl = "stop"
    /\ IF deliver_thread = None
         THEN pc_ctrl' = "reset" /\ UNCHANGED stop_delivery
         ELSE pc_ctrl' = "wait" /\ stop_delivery' = TRUE
    /\ UNCHANGED <<trackerVars, listed, joining, moves, deliver_thread, expect_seqno, packetno,
                   misorder, buffer>>
    /\ ControlKeeps

\* ... read mem->deliver_thread again ...
MoveWait ==
    /\ pc_ctrl = "wait"
    /\ joining' = deliver_thread
    /\ pc_ctrl' = "join"
    /\ UNCHANGED <<trackerVars, listed, moves, memberVars, buffer>>
    /\ ControlKeeps

\* ... and wait for that thread to end (no thread: return at once).
MoveJoined ==
    /\ pc_ctrl = "join"
    /\ joining # None => pc[joining] = "ended"
    /\ joining' = None
    /\ pc_ctrl' = "reset"
    /\ UNCHANGED <<trackerVars, listed, moves, memberVars, buffer>>
    /\ ControlKeeps

\* The buffer is freed, the member zeroed, its locks and conditions kept.
MoveReset ==
    /\ pc_ctrl = "reset"
    /\ TrackerReset
    /\ buffer' = <<>>
    /\ deliver_thread' = None /\ stop_delivery' = FALSE
    /\ expect_seqno' = 0 /\ packetno' = 0 /\ misorder' = FALSE
    /\ pc_ctrl' = "add"
    /\ UNCHANGED <<listed, joining, moves>>
    /\ ControlKeeps

\* session_add_member of the other session.
MoveAdd ==
    /\ pc_ctrl = "add"
    /\ listed' = TRUE
    /\ pc_ctrl' = "idle"
    /\ UNCHANGED <<trackerVars, joining, moves, memberVars, buffer>>
    /\ ControlKeeps

ControllerStep == MoveRemove \/ MoveStop \/ MoveWait \/ MoveJoined \/ MoveReset \/ MoveAdd

Next ==
    \/ ReceiverStep
    \/ \E d \in DeliveryThreads : DeliveryStep(d)
    \/ \E n \in Packets : TimePasses(n)
    \/ ControllerStep

Spec == Init /\ [][Next]_vars

(***************************************************************************)
(* Threads that can run do run, a time-out and a play time come: nothing   *)
(* is assumed of the network, nor of the user who moves the member.        *)
(***************************************************************************)
Fairness ==
    /\ WF_vars(RecvStall \/ RecvDeliver \/ RecvHold \/ RecvSignal)
    /\ \A d \in DeliveryThreads : WF_vars(DeliveryStep(d))
    /\ \A n \in Packets : WF_vars(TimePasses(n))
    /\ WF_vars(MoveStop \/ MoveWait \/ MoveJoined \/ MoveReset \/ MoveAdd)

FairSpec == Spec /\ Fairness

-----------------------------------------------------------------------------
Labels == {"start", "lock", "check", "wait_media", "free", "wait_seqno", "exit", "ended"}

TypeOK ==
    /\ top \in Packets /\ old \in 0 .. MaxOld /\ packet \in Packets
    /\ listed \in BOOLEAN /\ stop_delivery \in BOOLEAN /\ misorder \in BOOLEAN
    /\ frames_left \in 0 .. 2
    /\ pc_recv \in {"poll", "stall", "deliver", "hold", "signal"}
    /\ pc_ctrl \in {"idle", "stop", "wait", "join", "reset", "add"}
    /\ pc \in [DeliveryThreads -> Labels]
    /\ hold \in [DeliveryThreads -> Frames]
    /\ joining \in DeliveryThreads \union {None}
    /\ deliver_thread \in DeliveryThreads \union {None}
    /\ expect_seqno \in Seqno /\ packetno \in Nat /\ moves \in 0 .. MaxMoves
    /\ buffer \in Seq(Frames) /\ due \subseteq Packets
    /\ lock_owner \in DeliveryThreads \union {None} /\ lock_count \in Nat
    /\ wait_media_available \subseteq DeliveryThreads /\ wait_seqno \subseteq DeliveryThreads

(***************************************************************************)
(* The delivery lock protects the buffer and the player: while a delivery  *)
(* thread looks at the buffer, no other one does (a member can have two    *)
(* after a move) and the receiver cannot insert, however often a thread    *)
(* has taken the recursive lock and given it up to wait.                   *)
(***************************************************************************)
BufferExclusive ==
    \A d \in DeliveryThreads :
        pc[d] = "check" => /\ \A e \in DeliveryThreads \ {d} : pc[e] # "check"
                           /\ ~LockFree(Receiver)

\* What makes it inductive: who looks at the buffer owns the lock.
LockInv ==
    /\ lock_count \in Nat
    /\ pc \in [DeliveryThreads -> Labels]
    /\ \A d \in DeliveryThreads : pc[d] = "check" => lock_owner = d /\ lock_count > 0

(***************************************************************************)
(* The player gets frames in the order the source sent them, each once,    *)
(* through losses, late packets, wraps and packets that come while another *)
(* one is played.  Three cases are not covered.  The last packet accepted  *)
(* delivered twice while it is played (0 in Lags, or 1 and 2, when the     *)
(* first valid packet came late itself): expect_seqno advances after the   *)
(* unlock, so it is cached and played once more.  A turn of the numbers    *)
(* that comes while two frames wait one after the other                    *)
(* (2 * MaxAhead + MaxGap < SEQ_MOD excludes it): the buffer would sort the *)
(* new frames before the old.  And InitSeqno                               *)
(* leaves max_seq one too low, so that the packet just before the first    *)
(* valid one is accepted when it comes late, and played after it when      *)
(* expect_seqno has wrapped in between: a base that is the last number     *)
(* before the wrap.                                                        *)
(***************************************************************************)
PlayedInOrder ==
    base_seq # SEQ_MOD - 1 =>
        \A i, j \in DOMAIN played :
            i < j /\ EOS \notin {played[i], played[j]} =>
                \/ played[i].ext < played[j].ext
                \/ played[i].ext = played[j].ext /\ played[i].ext \in Bundles

(***************************************************************************)
(* "if a gap, packetno is discontinuely by one": a decoder that gets two   *)
(* consecutive packets of one delivery sees consecutive packet numbers.    *)
(* It holds of packets with one frame each.  Of a packet with two, the     *)
(* buffer refuses the second frame (same number), the one that would have  *)
(* advanced expect_seqno, and the next packet looks like a gap.            *)
(***************************************************************************)
NoFalseGap ==
    \A i \in DOMAIN played :
        i + 1 \in DOMAIN played /\ EOS \notin {played[i], played[i + 1]}
            /\ played[i + 1].ext = played[i].ext + 1
            => played[i + 1].packetno = played[i].packetno + 1

(***************************************************************************)
(* A frame in the buffer is played or freed in the end: no wake-up of the  *)
(* delivery thread is lost between the insertion, the test of the empty    *)
(* buffer and the signal.                                                  *)
(***************************************************************************)
HeldMediaLeaves ==
    \A n \in Packets :
        (\E i \in DOMAIN buffer : buffer[i].ext = n)
            ~> ~(\E i \in DOMAIN buffer : buffer[i].ext = n)

(***************************************************************************)
(* "incoming packet in misorder or packet lost, check again later": media  *)
(* that arrives later still gets into the buffer.                          *)
(***************************************************************************)
ReceiverNotStuck == pc_recv = "hold" ~> pc_recv # "hold"

=============================================================================
