---------------------------- MODULE PlayoutPipe ----------------------------
(***************************************************************************)
(* How decoded sound reaches the audio device: the thread that delivers    *)
(* media decodes it into a frame (spxp_receive_next), the player's thread  *)
(* (spxp_loop of speex/speex_player.c) passes the frames on to the pipe of *)
(* the device, and the callback of the device empties the pipe             *)
(* (devices/timed_pipe.c).  Used frames are kept in a list for reuse.      *)
(*                                                                         *)
(* pending_lock is held over no wait, so that what is done under it is one *)
(* step.  The ring and the list of spare frames have no lock: each access  *)
(* to them is a step.  Frames are all of one size, as they are while the   *)
(* ptime and the rate stay: the first spare frame always fits.             *)
(***************************************************************************)
EXTENDS Naturals, Sequences

CONSTANTS
    Frames,      \* addresses xmalloc returns, in turn: 1, 2 ...
    None,        \* NULL
    FRAME_NPCM,  \* nraw: samples of a frame
    Pulses,      \* samples the device may ask for at a time
    MaxPending,  \* bound: frames decoded ahead of the player
    MaxSno       \* bound: frames decoded in all

ASSUME PipeAssumption ==
    /\ Frames \subseteq Nat
    /\ None \notin Frames
    /\ FRAME_NPCM \in Nat \ {0}
    /\ Pulses \subseteq Nat \ {0}
    /\ MaxSno \in Nat

PIPE_NBUF == 2
Slots == 0 .. PIPE_NBUF - 1
After(i) == (i + 1) % PIPE_NBUF

VARIABLES
    outframes, outframe_w, outframe_r,  \* the ring of the pipe
    outframe_npcm_done,                 \* samples played of the first frame
    freed_frame_head, next,             \* the spare frames, and their links
    n_frame,             \* frames allocated
    rcv, found, sno,     \* the delivering thread, its frame, and frames decoded
    pending_queue,
    pc, auf,             \* the player's thread, and the frame it has in hand
    delayed_frame, stop,
    cb, outf, left,      \* the callback, its frame, and the samples still to fill
    closing              \* spxp_close_stream

ringVars == <<outframes, outframe_w, outframe_r>>
listVars == <<freed_frame_head, next>>
rcvVars == <<n_frame, rcv, found, sno>>
playerVars == <<pc, auf, delayed_frame>>
cbVars == <<outframe_npcm_done, cb, outf, left>>
closeVars == <<stop, closing>>
vars == <<ringVars, listVars, rcvVars, pending_queue, playerVars, cbVars, closeVars>>

\* The stream is open and its player's thread just created.
Init ==
    /\ outframes = [i \in Slots |-> None] /\ outframe_w = 0 /\ outframe_r = 0
    /\ outframe_npcm_done = 0
    /\ freed_frame_head = None /\ next = [f \in Frames |-> None] /\ n_frame = 0
    /\ rcv = "idle" /\ found = None /\ sno = 0 /\ pending_queue = <<>>
    /\ pc = "start" /\ auf = None /\ delayed_frame = None /\ stop = FALSE
    /\ cb = "idle" /\ outf = None /\ left = 0
    /\ closing = "open"

\* pout_recycle_frame, in front of the frames of its size: the two writes.
Link(f) == next' = [next EXCEPT ![f] = freed_frame_head]
BecomeHead(f) == freed_frame_head' = f

-----------------------------------------------------------------------------
(***************************************************************************)
(* The delivering thread: spxp_receive_next once a chunk is complete, with *)
(* pout_new_frame.  The condition is signalled after the unlock.           *)
(***************************************************************************)
RcvKeeps == UNCHANGED <<ringVars, cbVars, auf, delayed_frame, closeVars>>

NewFrame ==
    /\ rcv = "idle" /\ closing = "open" /\ sno < MaxSno
    /\ Len(pending_queue) < MaxPending
    /\ freed_frame_head = None
    /\ n_frame + 1 \in Frames
    /\ n_frame' = n_frame + 1
    /\ found' = n_frame + 1
    /\ rcv' = "decoded"
    /\ UNCHANGED <<sno, listVars, pending_queue, pc>>
    /\ RcvKeeps

ReuseFrame ==
    /\ rcv = "idle" /\ closing = "open" /\ sno < MaxSno
    /\ Len(pending_queue) < MaxPending
    /\ freed_frame_head # None
    /\ found' = freed_frame_head
    /\ rcv' = "unlink"
    /\ UNCHANGED <<n_frame, sno, listVars, pending_queue, pc>>
    /\ RcvKeeps

\* The head moves on, and memset clears the frame's link.
Unlink ==
    /\ rcv = "unlink"
    /\ freed_frame_head' = next[found]
    /\ next' = [next EXCEPT ![found] = None]
    /\ rcv' = "decoded"
    /\ UNCHANGED <<n_frame, found, sno, pending_queue, pc>>
    /\ RcvKeeps

Queue ==
    /\ rcv = "decoded"
    /\ pending_queue' = Append(pending_queue, found)
    /\ sno' = sno + 1
    /\ rcv' = "signal"
    /\ UNCHANGED <<n_frame, found, listVars, pc>>
    /\ RcvKeeps

\* Mutant of Signal: it is left out.
SignalNobody ==
    /\ rcv = "signal"
    /\ rcv' = "idle"
    /\ found' = None
    /\ UNCHANGED <<n_frame, sno, listVars, pending_queue, pc>>
    /\ RcvKeeps

Signal ==
    /\ rcv = "signal"
    /\ rcv' = "idle"
    /\ found' = None
    /\ pc' = IF pc = "waiting" THEN "woken" ELSE pc
    /\ UNCHANGED <<n_frame, sno, listVars, pending_queue>>
    /\ RcvKeeps

Receive == NewFrame \/ ReuseFrame \/ Unlink \/ Queue \/ Signal

-----------------------------------------------------------------------------
(***************************************************************************)
(* The player's thread.                                                    *)
(***************************************************************************)
PlayerKeeps == UNCHANGED <<outframe_r, cbVars, rcvVars, closing>>

LoopStarts ==
    /\ pc = "start"
    /\ stop' = FALSE
    /\ pc' = "top"
    /\ UNCHANGED <<outframes, outframe_w, listVars, pending_queue, auf, delayed_frame>>
    /\ PlayerKeeps

\* A delayed frame is tried again before anything else, stop included.
Retry ==
    /\ pc = "top" /\ delayed_frame # None
    /\ pc' = "put"
    /\ UNCHANGED <<outframes, outframe_w, listVars, pending_queue, auf, delayed_frame, stop>>
    /\ PlayerKeeps

Fetch ==
    /\ pc = "top" /\ delayed_frame = None /\ ~stop
    /\ pending_queue # <<>>
    /\ auf' = Head(pending_queue)
    /\ pending_queue' = Tail(pending_queue)
    /\ pc' = "put"
    /\ UNCHANGED <<outframes, outframe_w, listVars, delayed_frame, stop>>
    /\ PlayerKeeps

Wait ==
    /\ pc = "top" /\ delayed_frame = None /\ ~stop
    /\ pending_queue = <<>>
    /\ pc' = "waiting"
    /\ UNCHANGED <<outframes, outframe_w, listVars, pending_queue, auf, delayed_frame, stop>>
    /\ PlayerKeeps

FetchWoken ==
    /\ pc = "woken"
    /\ pending_queue # <<>>
    /\ auf' = Head(pending_queue)
    /\ pending_queue' = Tail(pending_queue)
    /\ pc' = "put"
    /\ UNCHANGED <<outframes, outframe_w, listVars, delayed_frame, stop>>
    /\ PlayerKeeps

\* Nothing is queued, as after a stop: eots is read from the NULL frame.
CrashWoken ==
    /\ pc = "woken"
    /\ pending_queue = <<>>
    /\ auf' = None
    /\ pc' = "crashed"
    /\ UNCHANGED <<outframes, outframe_w, listVars, pending_queue, delayed_frame, stop>>
    /\ PlayerKeeps

\* pout_put_frame: the slot to write is still taken.
Delay ==
    /\ pc = "put"
    /\ outframes[outframe_w] # None
    /\ delayed_frame' = auf
    /\ pc' = "sleep"
    /\ UNCHANGED <<outframes, outframe_w, listVars, pending_queue, auf, stop>>
    /\ PlayerKeeps

\* Mutant of Store: the slot is not looked at.
StoreAnyway ==
    /\ pc = "put"
    /\ outframes' = [outframes EXCEPT ![outframe_w] = auf]
    /\ pc' = "stored"
    /\ UNCHANGED <<outframe_w, listVars, pending_queue, auf, delayed_frame, stop>>
    /\ PlayerKeeps

Store ==
    /\ pc = "put"
    /\ outframes[outframe_w] = None
    /\ outframes' = [outframes EXCEPT ![outframe_w] = auf]
    /\ pc' = "stored"
    /\ UNCHANGED <<outframe_w, listVars, pending_queue, auf, delayed_frame, stop>>
    /\ PlayerKeeps

\* Mutant of Stored: the frame stays delayed.
StoredStillDelayed ==
    /\ pc = "stored"
    /\ outframe_w' = After(outframe_w)
    /\ pc' = "top"
    /\ UNCHANGED <<outframes, listVars, pending_queue, auf, delayed_frame, stop>>
    /\ PlayerKeeps

\* The frame is no longer the player's: auf is set again before it is read.
Stored ==
    /\ pc = "stored"
    /\ outframe_w' = After(outframe_w)
    /\ delayed_frame' = None
    /\ auf' = None
    /\ pc' = "top"
    /\ UNCHANGED <<outframes, listVars, pending_queue, stop>>
    /\ PlayerKeeps

Sleep ==
    /\ pc = "sleep"
    /\ pc' = "top"
    /\ UNCHANGED <<outframes, outframe_w, listVars, pending_queue, auf, delayed_frame, stop>>
    /\ PlayerKeeps

\* Stopped: what is still queued is recycled, beside the callback.
Drain ==
    /\ \/ pc = "top" /\ delayed_frame = None /\ stop
       \/ pc = "drain"
    /\ pending_queue # <<>>
    /\ auf' = Head(pending_queue)
    /\ pending_queue' = Tail(pending_queue)
    /\ pc' = "link"
    /\ UNCHANGED <<outframes, outframe_w, listVars, delayed_frame, stop>>
    /\ PlayerKeeps

DrainLink ==
    /\ pc = "link"
    /\ Link(auf)
    /\ pc' = "head"
    /\ UNCHANGED <<outframes, outframe_w, freed_frame_head, pending_queue, auf, delayed_frame, stop>>
    /\ PlayerKeeps

DrainHead ==
    /\ pc = "head"
    /\ BecomeHead(auf)
    /\ auf' = None
    /\ pc' = "drain"
    /\ UNCHANGED <<outframes, outframe_w, next, pending_queue, delayed_frame, stop>>
    /\ PlayerKeeps

LoopEnds ==
    /\ \/ pc = "top" /\ delayed_frame = None /\ stop
       \/ pc = "drain"
    /\ pending_queue = <<>>
    /\ pc' = "ended"
    /\ UNCHANGED <<outframes, outframe_w, listVars, pending_queue, auf, delayed_frame, stop>>
    /\ PlayerKeeps

Player ==
    \/ LoopStarts \/ Retry \/ Fetch \/ Wait \/ FetchWoken \/ CrashWoken
    \/ Delay \/ Store \/ Stored \/ Sleep
    \/ Drain \/ DrainLink \/ DrainHead \/ LoopEnds

-----------------------------------------------------------------------------
(***************************************************************************)
(* The callback of the device: pout_pick_content.                          *)
(***************************************************************************)
CallbackKeeps == UNCHANGED <<outframe_w, rcvVars, pending_queue, playerVars, closeVars>>

\* An empty pipe returns at once and changes nothing.
Pick(npcm) ==
    /\ cb = "idle"
    /\ outframes[outframe_r] # None
    /\ outf' = outframes[outframe_r]
    /\ left' = npcm
    /\ cb' = "fill"
    /\ UNCHANGED <<outframes, outframe_r, outframe_npcm_done, listVars>>
    /\ CallbackKeeps

Fill ==
    /\ cb = "fill" /\ left > 0
    /\ outframe_npcm_done # FRAME_NPCM
    /\ LET ready == FRAME_NPCM - outframe_npcm_done
           tofill == IF left < ready THEN left ELSE ready
       IN  /\ outframe_npcm_done' = outframe_npcm_done + tofill
           /\ left' = left - tofill
    /\ UNCHANGED <<outframes, outframe_r, listVars, cb, outf>>
    /\ CallbackKeeps

Release ==
    /\ cb = "fill" /\ left > 0
    /\ outframe_npcm_done = FRAME_NPCM
    /\ outframes' = [outframes EXCEPT ![outframe_r] = None]
    /\ cb' = "link"
    /\ UNCHANGED <<outframe_r, outframe_npcm_done, listVars, outf, left>>
    /\ CallbackKeeps

RecycleLink ==
    /\ cb = "link"
    /\ Link(outf)
    /\ cb' = "head"
    /\ UNCHANGED <<outframes, outframe_r, outframe_npcm_done, freed_frame_head, outf, left>>
    /\ CallbackKeeps

RecycleHead ==
    /\ cb = "head"
    /\ BecomeHead(outf)
    /\ cb' = "advance"
    /\ UNCHANGED <<outframes, outframe_r, outframe_npcm_done, next, outf, left>>
    /\ CallbackKeeps

\* The next frame, and the end of the call when there is none.
Advance ==
    /\ cb = "advance"
    /\ outframe_r' = After(outframe_r)
    /\ outf' = outframes[outframe_r']
    /\ outframe_npcm_done' = 0
    /\ IF outf' = None THEN cb' = "idle" /\ left' = 0
                       ELSE cb' = "fill" /\ left' = left
    /\ UNCHANGED <<outframes, listVars>>
    /\ CallbackKeeps

PickReturns ==
    /\ cb = "fill" /\ left = 0
    /\ cb' = "idle"
    /\ outf' = None
    /\ UNCHANGED <<outframes, outframe_r, outframe_npcm_done, listVars, left>>
    /\ CallbackKeeps

Callback ==
    \/ \E npcm \in Pulses : Pick(npcm)
    \/ Fill \/ Release \/ RecycleLink \/ RecycleHead \/ Advance \/ PickReturns

-----------------------------------------------------------------------------
(***************************************************************************)
(* spxp_close_stream: stop is set and signalled without the lock.          *)
(***************************************************************************)
CloseKeeps == UNCHANGED <<ringVars, listVars, rcvVars, pending_queue, auf, delayed_frame, cbVars>>

CloseStops ==
    /\ closing = "open"
    /\ stop' = TRUE
    /\ closing' = "signal"
    /\ UNCHANGED pc
    /\ CloseKeeps

CloseSignals ==
    /\ closing = "signal"
    /\ pc' = IF pc = "waiting" THEN "woken" ELSE pc
    /\ closing' = "join"
    /\ UNCHANGED stop
    /\ CloseKeeps

\* The list and the lock are freed: what uses them afterwards is not modelled.
Closed ==
    /\ closing = "join" /\ pc = "ended"
    /\ rcv = "idle"
    /\ closing' = "closed"
    /\ UNCHANGED <<stop, pc>>
    /\ CloseKeeps

Close == CloseStops \/ CloseSignals \/ Closed

-----------------------------------------------------------------------------
Next == pc # "crashed" /\ (Receive \/ Player \/ Callback \/ Close)

Spec == Init /\ [][Next]_vars

\* The threads run, the driver calls back; media need not come, nor a stop.
Fairness ==
    /\ WF_vars(pc # "crashed" /\ (Unlink \/ Queue \/ Signal))
    /\ WF_vars(pc # "crashed" /\ Player)
    /\ WF_vars(pc # "crashed" /\ Callback)

FairSpec == Spec /\ Fairness

-----------------------------------------------------------------------------
(***************************************************************************)
(* Properties.                                                             *)
(***************************************************************************)
\* The slot of the oldest frame.  While the callback has emptied a slot and
\* not moved on, the player may already have put its newest frame there.
First == IF cb \in {"link", "head", "advance"} THEN After(outframe_r) ELSE outframe_r

Ring ==
    IF outframes[First] = None THEN <<>>
    ELSE IF outframes[After(First)] = None THEN <<outframes[First]>>
    ELSE <<outframes[First], outframes[After(First)]>>

TypeOK ==
    /\ outframes \in [Slots -> Frames \union {None}]
    /\ outframe_w \in Slots /\ outframe_r \in Slots
    /\ freed_frame_head \in Frames \union {None}
    /\ next \in [Frames -> Frames \union {None}]
    /\ n_frame \in Nat
    /\ rcv \in {"idle", "unlink", "decoded", "signal"}
    /\ found \in Frames \union {None} /\ (rcv \in {"unlink", "decoded"} => found \in Frames)
    /\ pending_queue \in Seq(Frames)
    /\ pc \in {"start", "top", "waiting", "woken", "put", "stored", "sleep",
               "link", "head", "drain", "ended", "crashed"}
    /\ auf \in Frames \union {None}
    /\ (pc \in {"put", "sleep", "link", "head"} \/ delayed_frame # None) => auf \in Frames
    /\ delayed_frame \in {None, auf}
    /\ pc \in {"start", "waiting", "woken", "link", "head", "drain"} => delayed_frame = None
    /\ cb \in {"idle", "fill", "link", "head", "advance"}
    /\ cb # "idle" => outf \in Frames

\* The ring at every step of both threads: the frames are next to each other
\* from First on, and the player writes behind the last.  A callback that fills
\* has a frame in its slot, which nobody else takes away.
NextWrite == IF pc = "stored" THEN After(outframe_w) ELSE outframe_w
Last == IF outframes[First] # None /\ outframes[After(First)] = None THEN After(First) ELSE First
RingShape ==
    /\ outframes[First] = None => outframes[After(First)] = None
    /\ NextWrite = Last
    /\ cb = "fill" => outframes[outframe_r] # None

PipeInv == TypeOK /\ RingShape

Fifo == INSTANCE BoundedFifo WITH Item <- Frames, Capacity <- PIPE_NBUF, queue <- Ring

\* The ring of the pipe (pout_put_frame, pout_pick_content), shared without a
\* lock, is a queue of PIPE_NBUF frames.
RingIsFifo == Fifo!Spec

\* A frame is in the player's hands from the queue to the ring, through every
\* refusal of put_frame and every sleep.
InHand == IF pc = "put" \/ (delayed_frame # None /\ pc # "stored") THEN <<auf>> ELSE <<>>
Path == Ring \o InHand \o pending_queue

\* From the decoder to the device a frame is neither overtaken, dropped nor put
\* twice: it joins at the end (spxp_receive_next), leaves in front (the callback)
\* or, once the player is stopped, is taken from behind those in the ring.
PathStep ==
    \/ Path' = Path
    \/ Path # <<>> /\ Path' = Tail(Path)
    \/ \E f \in Frames : Path' = Append(Path, f)
    \/ stop /\ InHand = <<>> /\ Path' = Ring \o Tail(pending_queue)
PathInOrder == [][PathStep]_vars

\* A queued frame does not stay behind a player that waits for the condition
\* (the signal may come between its test and its wait), and a frame that
\* put_frame refuses gets into the ring in the end.
FramesFlow ==
    /\ (pc = "waiting" /\ pending_queue # <<>>) ~> pc # "waiting"
    /\ (pc = "put") ~> (pc = "stored")

=============================================================================
