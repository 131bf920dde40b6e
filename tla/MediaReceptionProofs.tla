------------------------ MODULE MediaReceptionProofs ------------------------
(***************************************************************************)
(* Proofs about MediaReception.  For any number of delivery threads, of    *)
(* packets and of moves: the types, and that the delivery lock excludes,   *)
(* although it is recursive, given up in waits and not always given back.  *)
(* For a member that stays in its session and packets of one frame each:   *)
(* that packet numbers follow the packets, and, in the window of the       *)
(* network that 16-bit numbers can tell apart, that the player gets the    *)
(* frames in order and each once.                                          *)
(***************************************************************************)
EXTENDS MediaReception, Integers, SequenceTheorems, WellFoundedInduction, TLAPS

LEMMA InitEstablishesLockInv == Init => LockInv
BY DEF Init, LockInv, Labels

\* Steps that touch neither the lock nor the program counters.
LEMMA LockUntouched ==
    ASSUME LockInv, UNCHANGED <<pc, lockVars>>
    PROVE  LockInv'
BY DEF LockInv, lockVars

LEMMA ReceiverKeepsLockInv ==
    ASSUME LockInv, ReceiverStep
    PROVE  LockInv'
<1>1. ASSUME NEW n \in Packets, RecvRefused(n) \/ RecvStale(n) \/ RecvValid(n)
      PROVE  LockInv'
  BY <1>1, LockUntouched DEF RecvRefused, RecvStale, RecvValid, RecvIgnored
<1>2. CASE RecvStall \/ RecvHold \/ RecvSignal
  BY <1>2, LockUntouched DEF RecvStall, RecvHold, RecvSignal
<1>3. CASE RecvDeliver
  <2>1. CASE deliver_thread # None
    BY <1>3, <2>1, LockUntouched DEF RecvDeliver
  <2>2. CASE deliver_thread = None
    <3>1. PICK d \in DeliveryThreads : pc' = [pc EXCEPT ![d] = "start"]
      BY <1>3, <2>2 DEF RecvDeliver
    <3>2. UNCHANGED lockVars
      BY <1>3 DEF RecvDeliver
    <3>. QED
      BY <3>1, <3>2 DEF LockInv, lockVars, Labels
  <2>. QED
    BY <2>1, <2>2
<1>. QED
  BY <1>1, <1>2, <1>3 DEF ReceiverStep

(***************************************************************************)
(* A delivery thread looks at the buffer only after Acquire, which needs   *)
(* the lock to be free or its own; it releases one level when it stops     *)
(* looking, and then looks no more.                                        *)
(***************************************************************************)
LEMMA DeliveryKeepsLockInv ==
    ASSUME LockInv, NEW d \in DeliveryThreads, DeliveryStep(d)
    PROVE  LockInv'
<1>. USE ThreadAssumption DEF LockInv, lockVars, Labels
<1>1. CASE DeliverLock(d)
  BY <1>1 DEF DeliverLock, Acquire, LockFree
<1>2. CASE DeliverSeqno(d)
  BY <1>2 DEF DeliverSeqno, Acquire, LockFree
<1>3. CASE DeliverStop(d) \/ DeliverWaitMedia(d) \/ DeliverPlay(d) \/ DeliverWaitSeqno(d)
  <2>1. \E p \in Labels : p # "check" /\ pc[d] = "check" /\ Release /\ pc' = [pc EXCEPT ![d] = p]
    BY <1>3 DEF DeliverStop, DeliverWaitMedia, DeliverPlay, DeliverWaitSeqno
  <2>. QED
    BY <2>1 DEF Release
<1>4. CASE DeliverStart(d) \/ DeliverMediaAvailable(d) \/ DeliverFree(d) \/ DeliverExit(d)
  <2>1. /\ \E p \in Labels : p # "check" /\ pc' = [pc EXCEPT ![d] = p]
        /\ UNCHANGED lockVars
    BY <1>4 DEF DeliverStart, DeliverMediaAvailable, DeliverFree, DeliverExit
  <2>. QED
    BY <2>1
<1>. QED
  BY <1>1, <1>2, <1>3, <1>4 DEF DeliveryStep

LEMMA ControllerKeepsLockInv ==
    ASSUME LockInv, ControllerStep
    PROVE  LockInv'
BY LockUntouched DEF ControllerStep, MoveRemove, MoveStop, MoveWait, MoveJoined, MoveReset,
                     MoveAdd, ControlKeeps

LEMMA NextKeepsLockInv == LockInv /\ [Next]_vars => LockInv'
<1>. SUFFICES ASSUME LockInv, [Next]_vars PROVE LockInv'
  OBVIOUS
<1>1. CASE \E n \in Packets : TimePasses(n)
  BY <1>1, LockUntouched DEF TimePasses
<1>2. CASE UNCHANGED vars
  BY <1>2, LockUntouched DEF vars
<1>. QED
  BY <1>1, <1>2, ReceiverKeepsLockInv, DeliveryKeepsLockInv, ControllerKeepsLockInv DEF Next

THEOREM LockInvHolds == Spec => []LockInv
BY InitEstablishesLockInv, NextKeepsLockInv, PTL DEF Spec

(***************************************************************************)
(* member_deliver_media_loop looks at the delivery buffer in one thread at *)
(* a time, and session_member_hold_media never inserts while it does.      *)
(***************************************************************************)
THEOREM DeliveryLockExcludes == Spec => []BufferExclusive
<1>1. LockInv => BufferExclusive
  BY ThreadAssumption DEF LockInv, BufferExclusive, LockFree
<1>. QED
  BY <1>1, LockInvHolds, PTL

-----------------------------------------------------------------------------
(* Sequence numbers and the sorted buffer                                  *)

LEMMA ModRange == ASSUME NEW n \in Nat PROVE Seq16(n) \in Seqno
BY SeqAssumption DEF Seqno, Seq16

LEMMA NextRange == ASSUME NEW s \in Seqno PROVE SeqNext(s) \in Seqno
BY SeqAssumption DEF Seqno, SeqNext

LEMMA SeqTurn ==
    ASSUME NEW c \in Seqno
    PROVE  (c + SEQ_MOD) % SEQ_MOD = c /\ c % SEQ_MOD = c
BY SeqAssumption DEF Seqno

LEMMA PrevOf == SeqPrev(0) = SEQ_MOD - 1 /\ \A s \in Seqno \ {0} : SeqPrev(s) = s - 1
<1>1. SeqPrev(0) = SEQ_MOD - 1
  <2>1. 0 + SEQ_MOD - 1 = SEQ_MOD - 1 /\ SEQ_MOD - 1 \in Seqno
    BY SeqAssumption DEF Seqno
  <2> QED
    BY <2>1, SeqTurn DEF SeqPrev
<1>2. ASSUME NEW s \in Seqno \ {0} PROVE SeqPrev(s) = s - 1
  <2>1. s + SEQ_MOD - 1 = (s - 1) + SEQ_MOD /\ s - 1 \in Seqno
    BY SeqAssumption DEF Seqno
  <2> QED
    BY <2>1, SeqTurn DEF SeqPrev
<1> QED
  BY <1>1, <1>2

\* udelta, in full: the distance up to a number from max_seq, once round at most.
LEMMA UdeltaOf ==
    ASSUME NEW s \in Seqno, max_seq \in Seqno
    PROVE  Udelta(s) = IF s < max_seq THEN s + SEQ_MOD - max_seq ELSE s - max_seq
<1> USE SeqAssumption
<1>1. CASE s < max_seq
  <2>1. s + SEQ_MOD - max_seq \in Seqno
    BY <1>1 DEF Seqno
  <2> QED
    BY <1>1, <2>1, SeqTurn DEF Udelta
<1>2. CASE ~(s < max_seq)
  <2>1. s - max_seq \in Seqno /\ s + SEQ_MOD - max_seq = (s - max_seq) + SEQ_MOD
    BY <1>2 DEF Seqno
  <2> QED
    BY <1>2, <2>1, SeqTurn DEF Udelta
<1> QED
  BY <1>1, <1>2

Turns(n) == n \div SEQ_MOD

LEMMA Monotone ==
    ASSUME NEW k \in Nat, NEW a \in Nat, NEW b \in Nat, a <= b
    PROVE  k * a <= k * b /\ k * a \in Nat /\ k * b \in Nat
OBVIOUS

LEMMA OneMore ==
    ASSUME NEW k \in Nat, NEW a \in Nat
    PROVE  k * (a + 1) = k * a + k /\ k * a \in Nat
OBVIOUS

LEMMA Division ==
    ASSUME NEW n \in Nat
    PROVE  Turns(n) \in Nat /\ Seq16(n) \in Seqno /\ n = SEQ_MOD * Turns(n) + Seq16(n)
BY SeqAssumption DEF Turns, Seq16, Seqno

\* Two ways to write a number in turns and a remainder are the same.
LEMMA OneDivision ==
    ASSUME NEW q \in Nat, NEW r \in Seqno, NEW p \in Nat, NEW s \in Seqno,
           SEQ_MOD * q + r = SEQ_MOD * p + s
    PROVE  q = p /\ r = s
<1> USE SeqAssumption DEF Seqno
<1>1. ASSUME NEW a \in Nat, NEW b \in Nat, NEW c \in Seqno, NEW d \in Seqno, a < b
      PROVE  SEQ_MOD * a + c < SEQ_MOD * b + d
  <2>1. SEQ_MOD * (a + 1) <= SEQ_MOD * b /\ SEQ_MOD * b \in Nat
    BY <1>1, Monotone
  <2>2. SEQ_MOD * (a + 1) = SEQ_MOD * a + SEQ_MOD /\ SEQ_MOD * a \in Nat
    BY OneMore
  <2> QED
    BY <2>1, <2>2
<1>2. ~(q < p) /\ ~(p < q)
  BY <1>1
<1> QED
  BY <1>2, OneMore

\* What a number a little further on looks like in 16 bits.
LEMMA Further ==
    ASSUME NEW n \in Nat, NEW d \in Seqno
    PROVE  IF Seq16(n) + d < SEQ_MOD
             THEN Seq16(n + d) = Seq16(n) + d /\ Turns(n + d) = Turns(n)
             ELSE Seq16(n + d) = Seq16(n) + d - SEQ_MOD /\ Turns(n + d) = Turns(n) + 1
<1> USE SeqAssumption
<1>1. Turns(n) \in Nat /\ Seq16(n) \in Seqno /\ n = SEQ_MOD * Turns(n) + Seq16(n)
  BY Division
<1>2. d \in Nat /\ n + d \in Nat
  BY DEF Seqno
<1>3. /\ Turns(n + d) \in Nat /\ Seq16(n + d) \in Seqno
      /\ n + d = SEQ_MOD * Turns(n + d) + Seq16(n + d)
  BY <1>2, Division
<1>4. CASE Seq16(n) + d < SEQ_MOD
  <2>1. Seq16(n) + d \in Seqno /\ n + d = SEQ_MOD * Turns(n) + (Seq16(n) + d)
    BY <1>1, <1>2, <1>4, OneMore DEF Seqno
  <2> HIDE DEF Turns, Seq16
  <2> QED
    BY <1>1, <1>3, <1>4, <2>1, OneDivision
<1>5. CASE ~(Seq16(n) + d < SEQ_MOD)
  <2>1. Seq16(n) + d - SEQ_MOD \in Seqno
    BY <1>1, <1>2, <1>5 DEF Seqno
  <2>2. SEQ_MOD * (Turns(n) + 1) = SEQ_MOD * Turns(n) + SEQ_MOD /\ SEQ_MOD * Turns(n) \in Nat
    BY <1>1, OneMore
  <2>3. n + d = SEQ_MOD * (Turns(n) + 1) + (Seq16(n) + d - SEQ_MOD)
    <3>1. PICK m \in Nat, r \in Nat : m = SEQ_MOD * Turns(n) /\ r = Seq16(n) /\ n = m + r
      BY <1>1, <2>2 DEF Seqno
    <3>2. m + r + d = (m + SEQ_MOD) + (r + d - SEQ_MOD)
      BY <1>2
    <3> QED
      BY <2>2, <3>1, <3>2
  <2>4. Turns(n) + 1 \in Nat
    BY <1>1
  <2> QED
    BY <1>3, <1>5, <2>1, <2>3, <2>4, OneDivision
<1> QED
  BY <1>4, <1>5

LEMMA NextOf ==
    ASSUME NEW n \in Nat
    PROVE  SeqNext(Seq16(n)) = Seq16(n + 1)
<1> USE SeqAssumption
<1>1. PICK r \in Seqno : r = Seq16(n)
  BY ModRange
<1>2. 1 \in Seqno \/ SEQ_MOD = 1
  BY DEF Seqno
<1>3. CASE SEQ_MOD = 1
  BY <1>3
<1>4. CASE 1 \in Seqno /\ r + 1 < SEQ_MOD
  <2>1. Seq16(n + 1) = r + 1
    BY <1>1, <1>4, Further
  <2>2. r + 1 \in Seqno
    BY <1>4 DEF Seqno
  <2> QED
    BY <1>1, <2>1, <2>2, SeqTurn DEF SeqNext
<1>5. CASE 1 \in Seqno /\ ~(r + 1 < SEQ_MOD)
  <2>1. Seq16(n + 1) = r + 1 - SEQ_MOD
    BY <1>1, <1>5, Further
  <2>2. r + 1 = 0 + SEQ_MOD /\ 0 \in Seqno
    BY <1>5 DEF Seqno
  <2>3. (r + 1) % SEQ_MOD = 0
    BY <2>2, SeqTurn
  <2>4. r + 1 - SEQ_MOD = 0
    BY <2>2 DEF Seqno
  <2> QED
    BY <1>1, <2>1, <2>3, <2>4 DEF SeqNext
<1> QED
  BY <1>2, <1>3, <1>4, <1>5

LEMMA TurnsRange == ASSUME NEW n \in Nat PROVE Turns(n) \in Nat
BY Division

LEMMA TurnsMonotone ==
    ASSUME NEW a \in Nat, NEW b \in Nat, a <= b
    PROVE  Turns(a) <= Turns(b)
<1> USE SeqAssumption
<1>1. PICK p \in Nat, r \in Seqno : p = Turns(a) /\ r = Seq16(a) /\ a = SEQ_MOD * p + r
  BY Division
<1>2. PICK q \in Nat, t \in Seqno : q = Turns(b) /\ t = Seq16(b) /\ b = SEQ_MOD * q + t
  BY Division
<1>3. ASSUME q < p PROVE FALSE
  <2>1. SEQ_MOD * (q + 1) <= SEQ_MOD * p /\ SEQ_MOD * p \in Nat
    BY <1>3, Monotone
  <2>2. SEQ_MOD * (q + 1) = SEQ_MOD * q + SEQ_MOD /\ SEQ_MOD * q \in Nat
    BY OneMore
  <2> QED
    BY <1>1, <1>2, <2>1, <2>2 DEF Seqno
<1> QED
  BY <1>1, <1>2, <1>3

\* Within less than one turn, the smaller number is in the next turn.
LEMMA WithinATurn ==
    ASSUME NEW e \in Nat, NEW n \in Nat, e <= n, n < e + SEQ_MOD
    PROVE  IF Seq16(n) >= Seq16(e) THEN Turns(n) = Turns(e) ELSE Turns(n) = Turns(e) + 1
<1> USE SeqAssumption
<1>1. PICK d \in Seqno : n = e + d
  <2>1. n - e \in Seqno /\ n = e + (n - e)
    BY DEF Seqno
  <2> QED
    BY <2>1
<1>2. PICK r \in Seqno, t \in Seqno : r = Seq16(e) /\ t = Seq16(n)
  BY ModRange
<1>3. IF r + d < SEQ_MOD THEN t = r + d /\ Turns(n) = Turns(e)
                         ELSE t = r + d - SEQ_MOD /\ Turns(n) = Turns(e) + 1
  BY <1>1, <1>2, Further
<1> QED
  BY <1>2, <1>3 DEF Seqno

LEMMA SameTurn ==
    ASSUME NEW a \in Nat, NEW b \in Nat, Turns(a) = Turns(b)
    PROVE  a < b <=> Seq16(a) < Seq16(b)
<1> USE SeqAssumption
<1>1. PICK p \in Nat, r \in Seqno : p = Turns(a) /\ r = Seq16(a) /\ a = SEQ_MOD * p + r
  BY Division
<1>2. PICK t \in Seqno : t = Seq16(b) /\ b = SEQ_MOD * p + t
  BY <1>1, Division
<1>3. SEQ_MOD * p \in Nat
  BY <1>1, OneMore
<1>4. a < b <=> r < t
  BY <1>1, <1>2, <1>3 DEF Seqno
<1> QED
  BY <1>1, <1>2, <1>4

LEMMA NextTurn ==
    ASSUME NEW n \in Nat
    PROVE  Seq16(n + SEQ_MOD) = Seq16(n) /\ Turns(n + SEQ_MOD) = Turns(n) + 1
<1> USE SeqAssumption
<1>1. PICK p \in Nat, r \in Seqno : p = Turns(n) /\ r = Seq16(n) /\ n = SEQ_MOD * p + r
  BY Division
<1>2. PICK q \in Nat, t \in Seqno :
         q = Turns(n + SEQ_MOD) /\ t = Seq16(n + SEQ_MOD) /\ n + SEQ_MOD = SEQ_MOD * q + t
  <2>1. n + SEQ_MOD \in Nat
    OBVIOUS
  <2> QED
    BY <2>1, Division
<1>3. SEQ_MOD * (p + 1) = SEQ_MOD * p + SEQ_MOD /\ SEQ_MOD * p \in Nat /\ p + 1 \in Nat
  BY OneMore
<1>4. SEQ_MOD * q + t = SEQ_MOD * (p + 1) + r
  BY <1>1, <1>2, <1>3 DEF Seqno
<1>5. q = p + 1 /\ t = r
  BY <1>3, <1>4, OneDivision
<1> QED
  BY <1>1, <1>2, <1>5

LEMMA PrevNumber ==
    ASSUME NEW n \in Nat, n > 0, Seq16(n) # 0
    PROVE  SeqPrev(Seq16(n)) = Seq16(n - 1) /\ Seq16(n) = Seq16(n - 1) + 1
<1> USE SeqAssumption
<1>1. PICK m \in Nat : m = n - 1 /\ n = m + 1
  OBVIOUS
<1>2. PICK r \in Seqno, t \in Seqno : r = Seq16(m) /\ t = Seq16(n)
  BY ModRange
<1>3. SEQ_MOD > 1
  BY <1>2 DEF Seqno
<1>4. t = IF r + 1 < SEQ_MOD THEN r + 1 ELSE r + 1 - SEQ_MOD
  BY <1>1, <1>2, <1>3, Further DEF Seqno
<1>5. t = r + 1
  BY <1>2, <1>4 DEF Seqno
<1>6. SeqPrev(t) = t - 1
  BY <1>2, PrevOf
<1> QED
  BY <1>1, <1>2, <1>5, <1>6 DEF Seqno

\* udelta of a packet that is d ahead of the one max_seq names, or d behind.
LEMMA AheadBy ==
    ASSUME NEW w \in Nat, NEW d \in Seqno, max_seq = Seq16(w)
    PROVE  Udelta(Seq16(w + d)) = d
<1> USE SeqAssumption
<1>1. max_seq \in Seqno /\ Seq16(w + d) \in Seqno
  BY ModRange DEF Seqno
<1>2. PICK s \in Seqno : s = Seq16(w + d)
  BY <1>1
<1>3. s = IF max_seq + d < SEQ_MOD THEN max_seq + d ELSE max_seq + d - SEQ_MOD
  BY <1>2, Further
<1>4. Udelta(s) = IF s < max_seq THEN s + SEQ_MOD - max_seq ELSE s - max_seq
  BY <1>1, UdeltaOf
<1>5. Udelta(s) = d
  BY <1>1, <1>3, <1>4 DEF Seqno
<1> QED
  BY <1>2, <1>5

LEMMA BehindBy ==
    ASSUME NEW n \in Nat, NEW d \in 1 .. SEQ_MOD - 1, max_seq = Seq16(n + d)
    PROVE  Udelta(Seq16(n)) = SEQ_MOD - d
<1> USE SeqAssumption
<1>1. d \in Seqno /\ Seq16(n) \in Seqno /\ max_seq \in Seqno
  BY ModRange DEF Seqno
<1>2. PICK s \in Seqno : s = Seq16(n)
  BY <1>1
<1>3. max_seq = IF s + d < SEQ_MOD THEN s + d ELSE s + d - SEQ_MOD
  BY <1>1, <1>2, Further
<1>4. Udelta(s) = IF s < max_seq THEN s + SEQ_MOD - max_seq ELSE s - max_seq
  BY <1>1, UdeltaOf
<1>5. Udelta(s) = SEQ_MOD - d
  BY <1>3, <1>4 DEF Seqno
<1> QED
  BY <1>2, <1>5

LEMMA PacketRange == Packets \subseteq Nat /\ FirstPacket \in Packets
BY MediaAssumption DEF Packets

LEMMA FrameType ==
    ASSUME NEW n \in Packets, NEW last \in BOOLEAN
    PROVE  Frame(n, last) \in Frames
BY PacketRange, ModRange DEF Frame, Frames

LEMMA Least ==
    ASSUME NEW T, T \subseteq Nat, T # {}
    PROVE  \E x \in T : \A y \in T : x <= y
<1> DEFINE R == OpToRel(<, Nat)
<1>1. IsWellFoundedOn(R, Nat)
  BY NatLessThanWellFounded
<1>2. PICK x \in T : \A y \in T : ~ (<<y, x>> \in R)
  <2> HIDE DEF R
  <2> QED
    BY <1>1, WFMin
<1>3. ASSUME NEW y \in T PROVE x <= y
  <2>1. <<y, x>> \in Nat \X Nat
    OBVIOUS
  <2>2. ~(y < x)
    BY <1>2, <2>1 DEF OpToRel
  <2> QED
    BY <2>2
<1> QED
  BY <1>2, <1>3

\* xlist_addonce_ascent stops before the first frame that is not smaller.
LEMMA PlaceInBuffer ==
    ASSUME NEW b \in Seq(Frames), NEW f \in Frames
    PROVE  LET k == AscentPlace(b, f) IN
           /\ k \in 1 .. Len(b) + 1
           /\ k \in DOMAIN b => b[k].seqno >= f.seqno
           /\ \A i \in DOMAIN b : i < k => ~ (b[i].seqno >= f.seqno)
<1> DEFINE S == {i \in DOMAIN b : b[i].seqno >= f.seqno}
<1> DEFINE k == AscentPlace(b, f)
<1>1. DOMAIN b = 1 .. Len(b) /\ Len(b) \in Nat
  BY LenProperties
<1>2. CASE S = {}
  <2>1. k = Len(b) + 1
    BY <1>2 DEF AscentPlace
  <2> QED
    BY <1>1, <1>2, <2>1
<1>3. CASE S # {}
  <2>0. S \subseteq Nat
    BY <1>1
  <2>1. \E x \in S : \A y \in S : x <= y
    <3> HIDE DEF S
    <3> QED
      BY <1>3, <2>0, Least
  <2>2. k = Min(S)
    BY <1>3 DEF AscentPlace
  <2>3. k \in S /\ \A y \in S : k <= y
    BY <2>1, <2>2 DEF Min
  <2> QED
    BY <1>1, <2>3
<1> QED
  BY <1>2, <1>3

LEMMA InsertType ==
    ASSUME NEW b \in Seq(Frames), NEW f \in Frames, NEW k \in 1 .. Len(b) + 1
    PROVE  /\ InsertAt(b, k, f) \in Seq(Frames)
           /\ Len(InsertAt(b, k, f)) = Len(b) + 1
           /\ \A i \in 1 .. Len(b) + 1 :
                 InsertAt(b, k, f)[i] = IF i < k THEN b[i] ELSE IF i = k THEN f ELSE b[i - 1]
<1> DEFINE u == SubSeq(b, 1, k - 1)
           v == SubSeq(b, k, Len(b))
           w == u \o <<f>>
<1>1. Len(b) \in Nat /\ \A i \in 1 .. Len(b) : b[i] \in Frames
  BY LenProperties, ElementOfSeq
<1>2. u \in Seq(Frames) /\ Len(u) = k - 1 /\ \A i \in 1 .. k - 1 : u[i] = b[i]
  <2>1. \A i \in 1 .. k - 1 : b[i] \in Frames
    BY <1>1
  <2>2. /\ SubSeq(b, 1, k - 1) \in Seq(Frames)
        /\ Len(SubSeq(b, 1, k - 1)) = IF 1 <= k - 1 THEN (k - 1) - 1 + 1 ELSE 0
        /\ \A i \in 1 .. (k - 1) - 1 + 1 : SubSeq(b, 1, k - 1)[i] = b[1 + i - 1]
    BY <1>1, <2>1, SubSeqProperties
  <2> QED
    BY <2>2
<1>3. v \in Seq(Frames) /\ Len(v) = Len(b) - k + 1 /\ \A i \in 1 .. Len(b) - k + 1 : v[i] = b[k + i - 1]
  <2>1. \A i \in k .. Len(b) : b[i] \in Frames
    BY <1>1
  <2> QED
    BY <1>1, <2>1, SubSeqProperties
<1>4. <<f>> \in Seq(Frames) /\ Len(<<f>>) = 1 /\ <<f>>[1] = f
  OBVIOUS
<1> HIDE DEF u, v
<1>5. w \in Seq(Frames) /\ Len(w) = k /\ \A i \in 1 .. k : w[i] = IF i < k THEN b[i] ELSE f
  <2>1. /\ w \in Seq(Frames) /\ Len(w) = Len(u) + 1
        /\ \A i \in 1 .. Len(u) + 1 : w[i] = IF i <= Len(u) THEN u[i] ELSE <<f>>[i - Len(u)]
    BY <1>2, <1>4, ConcatProperties
  <2> QED
    BY <1>2, <1>4, <2>1
<1>6. InsertAt(b, k, f) = w \o v
  BY DEF InsertAt, u, v
<1> HIDE DEF w
<1>7. /\ w \o v \in Seq(Frames) /\ Len(w \o v) = Len(w) + Len(v)
      /\ \A i \in 1 .. Len(w) + Len(v) : (w \o v)[i] = IF i <= Len(w) THEN w[i] ELSE v[i - Len(w)]
  BY <1>3, <1>5, ConcatProperties
<1>8. ASSUME NEW i \in 1 .. Len(b) + 1
      PROVE  (w \o v)[i] = IF i < k THEN b[i] ELSE IF i = k THEN f ELSE b[i - 1]
  <2>1. CASE i <= k
    BY <1>1, <1>3, <1>5, <1>7, <2>1
  <2>2. CASE ~(i <= k)
    <3>1. i - k \in 1 .. Len(b) - k + 1 /\ k + (i - k) - 1 = i - 1
      BY <1>1, <2>2
    <3>2. v[i - k] = b[i - 1]
      BY <1>3, <3>1
    <3> QED
      BY <1>1, <1>3, <1>5, <1>7, <2>2, <3>2
  <2> QED
    BY <2>1, <2>2
<1> QED
  BY <1>1, <1>3, <1>5, <1>6, <1>7, <1>8

LEMMA AddedType ==
    ASSUME NEW b \in Seq(Frames), NEW f \in Frames
    PROVE  AddOnceAscent(b, f) \in Seq(Frames)
BY PlaceInBuffer, InsertType DEF AddOnceAscent

\* Insertion adds nothing but the frame.
LEMMA AddedFrames ==
    ASSUME NEW b \in Seq(Frames), NEW f \in Frames,
           NEW i \in DOMAIN AddOnceAscent(b, f)
    PROVE  \/ AddOnceAscent(b, f)[i] = f
           \/ \E j \in DOMAIN b : AddOnceAscent(b, f)[i] = b[j]
<1> DEFINE k == AscentPlace(b, f)
<1>1. k \in 1 .. Len(b) + 1 /\ DOMAIN b = 1 .. Len(b) /\ Len(b) \in Nat
  BY PlaceInBuffer, LenProperties
<1> HIDE DEF k
<1>2. CASE AddOnceAscent(b, f) = b
  BY <1>2
<1>3. CASE AddOnceAscent(b, f) = InsertAt(b, k, f)
  <2>1. i \in 1 .. Len(b) + 1
    BY <1>1, <1>3, InsertType, LenProperties
  <2>2. InsertAt(b, k, f)[i] = IF i < k THEN b[i] ELSE IF i = k THEN f ELSE b[i - 1]
    <3>1. \A j \in 1 .. Len(b) + 1 :
             InsertAt(b, k, f)[j] = IF j < k THEN b[j] ELSE IF j = k THEN f ELSE b[j - 1]
      BY <1>1, InsertType, SMTT(30)
    <3> QED
      BY <2>1, <3>1
  <2>3. CASE i < k
    BY <1>1, <1>3, <2>1, <2>2, <2>3
  <2>4. CASE i = k
    BY <1>3, <2>2, <2>4
  <2>5. CASE i > k
    BY <1>1, <1>3, <2>1, <2>2, <2>5
  <2> QED
    BY <1>1, <2>1, <2>3, <2>4, <2>5
<1> QED
  BY <1>2, <1>3 DEF AddOnceAscent, k

-----------------------------------------------------------------------------
(* Types                                                                   *)

TypeInv ==
    /\ TypeOK
    /\ LockInv
    /\ pc_recv \in {"deliver", "hold"} => frames_left > 0

LEMMA TypeInit == Init => TypeInv
<1> SUFFICES ASSUME Init PROVE TypeInv
  OBVIOUS
<1>1. LockInv
  BY InitEstablishesLockInv
<1>2. 0 \in Seqno
  BY SeqAssumption DEF Seqno
<1>3. hold \in [DeliveryThreads -> Frames]
  BY PacketRange, FrameType DEF Init
<1>4. buffer \in Seq(Frames)
  BY DEF Init
<1>5. old \in 0 .. MaxOld /\ moves \in 0 .. MaxMoves
  BY MediaAssumption DEF Init
<1>6. pc \in [DeliveryThreads -> Labels] /\ pc_recv = "poll"
  BY DEF Init, Labels
<1>7. /\ top \in Packets /\ packet \in Packets
      /\ listed \in BOOLEAN /\ stop_delivery \in BOOLEAN /\ misorder \in BOOLEAN
  BY PacketRange, Zenon DEF Init
<1>8. frames_left \in 0 .. 2 /\ packetno \in Nat /\ lock_count \in Nat
  BY DEF Init
<1>9. TypeOK
  BY <1>2, <1>3, <1>4, <1>5, <1>6, <1>7, <1>8, Zenon DEF Init, TypeOK
<1> QED
  BY <1>1, <1>6, <1>9 DEF TypeInv

LEMMA ReceiverTypes == ASSUME TypeInv, ReceiverStep PROVE TypeInv'
<1>1. LockInv'
  BY ReceiverKeepsLockInv DEF TypeInv
<1> USE DEF TypeInv
<1>2. ASSUME NEW n \in Packets, NetworkDelivers(n) PROVE top' \in Packets /\ old' \in 0 .. MaxOld
  BY <1>2, MediaAssumption, PacketRange DEF NetworkDelivers, TypeOK
<1>3. ASSUME NEW n \in Packets, RecvRefused(n) \/ RecvStale(n) PROVE TypeInv'
  BY <1>1, <1>2, <1>3 DEF RecvRefused, RecvStale, RecvIgnored, receiverVars, controlVars, memberVars,
     lockVars, waitVars, TypeOK
<1>4. ASSUME NEW n \in Packets, RecvValid(n) PROVE TypeInv'
  BY <1>1, <1>2, <1>4 DEF RecvValid, RecvIgnored, controlVars, memberVars, lockVars, waitVars, TypeOK
<1>5. CASE RecvStall
  BY <1>1, <1>5 DEF RecvStall, networkVars, controlVars, memberVars, lockVars, waitVars, TypeOK
<1>6. CASE RecvDeliver
  <2>1. packet \in Nat
    BY PacketRange DEF TypeOK
  <2>2. Seq16(packet) \in Seqno
    BY <2>1, ModRange
  <2>3. /\ pc' \in [DeliveryThreads -> Labels]
        /\ deliver_thread' \in DeliveryThreads \union {None}
        /\ expect_seqno' \in Seqno /\ packetno' \in Nat
        /\ stop_delivery' \in BOOLEAN /\ misorder' \in BOOLEAN
    <3>1. CASE deliver_thread # None
      BY <1>6, <3>1 DEF RecvDeliver, memberVars, TypeOK
    <3>2. CASE deliver_thread = None
      <4>1. PICK d \in DeliveryThreads :
                /\ deliver_thread' = d /\ pc' = [pc EXCEPT ![d] = "start"]
                /\ expect_seqno' = Seq16(packet) /\ packetno' = 0
                /\ stop_delivery' = FALSE /\ misorder' = misorder
        BY <1>6, <3>2 DEF RecvDeliver
      <4> QED
        BY <2>2, <4>1 DEF TypeOK, Labels
    <3> QED
      BY <3>1, <3>2
  <2> QED
    BY <1>1, <1>6, <2>3 DEF RecvDeliver, networkVars, controlVars, lockVars, waitVars, TypeOK
<1>7. CASE RecvHold
  <2>1. frames_left' \in 0 .. 2
    BY <1>7 DEF RecvHold, TypeOK
  <2>2. Frame(packet, frames_left = 1) \in Frames
    BY FrameType DEF TypeOK
  <2>3. buffer' \in Seq(Frames)
    BY <1>7, <2>2, AddedType DEF RecvHold, TypeOK
  <2> QED
    BY <1>1, <1>7, <2>1, <2>3 DEF RecvHold, networkVars, controlVars, memberVars, lockVars, waitVars, TypeOK
<1>8. CASE RecvSignal
  <2>1. wait_media_available' \subseteq DeliveryThreads /\ wait_seqno' \subseteq DeliveryThreads
    BY <1>8 DEF RecvSignal, Signal, TypeOK
  <2> QED
    BY <1>1, <1>8, <2>1 DEF RecvSignal, networkVars, controlVars, memberVars, lockVars, TypeOK
<1> QED
  BY <1>3, <1>4, <1>5, <1>6, <1>7, <1>8 DEF ReceiverStep

LEMMA HeadOfBuffer ==
    ASSUME TypeOK, buffer # <<>>
    PROVE  Head(buffer) \in Frames /\ Tail(buffer) \in Seq(Frames) /\ Head(buffer).ext \in Packets
<1>1. Head(buffer) \in Frames /\ Tail(buffer) \in Seq(Frames)
  BY HeadTailProperties DEF TypeOK
<1> QED
  BY <1>1 DEF Frames

LEMMA DeliveryTypes == ASSUME TypeInv, NEW d \in DeliveryThreads, DeliveryStep(d) PROVE TypeInv'
<1>1. LockInv'
  BY DeliveryKeepsLockInv DEF TypeInv
<1> USE DEF TypeInv, DeliveryKeeps, networkVars, receiverVars, controlVars
<1>2. CASE DeliverStart(d) \/ DeliverMediaAvailable(d) \/ DeliverExit(d)
  BY <1>1, <1>2, ZenonT(60) DEF DeliverStart, DeliverMediaAvailable, DeliverExit, lockVars, waitVars, memberVars,
     TypeOK, Labels
<1>3. CASE DeliverLock(d) \/ DeliverSeqno(d)
  BY <1>1, <1>3 DEF DeliverLock, DeliverSeqno, Acquire, waitVars, memberVars, TypeOK, Labels
<1>4. ASSUME pc[d] = "check", Release
      PROVE  lock_count' \in Nat /\ lock_owner' \in DeliveryThreads \union {None}
  BY <1>4 DEF Release, LockInv, TypeOK
<1>5. CASE DeliverStop(d)
  <2>1. pc[d] = "check" /\ Release /\ packetno' \in Nat
    BY <1>5 DEF DeliverStop, TypeOK
  <2> QED
    BY <1>1, <1>4, <1>5, <2>1 DEF DeliverStop, waitVars, TypeOK, Labels
<1>6. CASE DeliverWaitMedia(d)
  BY <1>1, <1>4, <1>6 DEF DeliverWaitMedia, memberVars, TypeOK, Labels
<1>7. CASE DeliverPlay(d)
  <2>1. pc[d] = "check" /\ Release /\ packetno' \in Nat
    BY <1>7 DEF DeliverPlay, TypeOK
  <2>2. buffer' \in Seq(Frames) /\ hold' \in [DeliveryThreads -> Frames] /\ due' \subseteq Packets
    BY <1>7, HeadOfBuffer DEF DeliverPlay, TypeOK
  <2> QED
    BY <1>1, <1>4, <1>7, <2>1, <2>2 DEF DeliverPlay, waitVars, TypeOK, Labels
<1>8. CASE DeliverFree(d)
  <2>1. hold[d].seqno \in Seqno
    BY DEF TypeOK, Frames
  <2>2. expect_seqno' \in Seqno
    BY <1>8, <2>1, NextRange DEF DeliverFree, TypeOK
  <2> QED
    BY <1>1, <1>8, <2>2 DEF DeliverFree, lockVars, waitVars, TypeOK, Labels
<1>9. CASE DeliverWaitSeqno(d)
  <2>1. hold' \in [DeliveryThreads -> Frames]
    BY <1>9, HeadOfBuffer DEF DeliverWaitSeqno, TypeOK
  <2> QED
    BY <1>1, <1>4, <1>9, <2>1 DEF DeliverWaitSeqno, TypeOK, Labels
<1> QED
  BY <1>2, <1>3, <1>5, <1>6, <1>7, <1>8, <1>9 DEF DeliveryStep

LEMMA ControllerTypes == ASSUME TypeInv, ControllerStep PROVE TypeInv'
<1>1. LockInv'
  BY ControllerKeepsLockInv DEF TypeInv
<1>2. 0 \in Seqno
  BY SeqAssumption DEF Seqno
<1>3. <<>> \in Seq(Frames)
  OBVIOUS
<1> USE DEF TypeInv, TypeOK, ControlKeeps, networkVars, receiverVars, lockVars, waitVars, memberVars
<1>4. CASE MoveRemove
  <2>1. moves' \in 0 .. MaxMoves
    BY <1>4, MediaAssumption DEF MoveRemove
  <2> QED
    BY <1>1, <1>4, <2>1 DEF MoveRemove
<1>5. CASE MoveStop
  BY <1>1, <1>5 DEF MoveStop
<1>6. CASE MoveWait \/ MoveJoined
  BY <1>1, <1>6 DEF MoveWait, MoveJoined
<1>7. CASE MoveReset
  BY <1>1, <1>2, <1>3, <1>7 DEF MoveReset
<1>8. CASE MoveAdd
  BY <1>1, <1>8 DEF MoveAdd
<1> QED
  BY <1>4, <1>5, <1>6, <1>7, <1>8 DEF ControllerStep

LEMMA TypeStep == TypeInv /\ [Next]_vars => TypeInv'
<1> SUFFICES ASSUME TypeInv, [Next]_vars PROVE TypeInv'
  OBVIOUS
<1>1. LockInv'
  BY NextKeepsLockInv DEF TypeInv
<1>2. ASSUME NEW n \in Packets, TimePasses(n) PROVE TypeInv'
  BY <1>1, <1>2 DEF TimePasses, DeliveryKeeps, networkVars, receiverVars, controlVars, memberVars,
     lockVars, waitVars, TypeInv, TypeOK
<1>3. CASE UNCHANGED vars
  BY <1>1, <1>3 DEF vars, networkVars, receiverVars, controlVars, memberVars, lockVars, waitVars,
     TypeInv, TypeOK
<1> QED
  BY <1>2, <1>3, ReceiverTypes, DeliveryTypes, ControllerTypes DEF Next

\* Of two threads that share a member and of its buffer, whatever the network
\* and the controller do: every variable keeps its type, the buffer only holds
\* frames of packets, and no thread unlocks a lock it has not taken.
THEOREM TypeCorrect == Spec => []TypeOK
<1>1. TypeInv => TypeOK
  BY DEF TypeInv
<1> QED
  BY <1>1, TypeInit, TypeStep, PTL DEF Spec

-----------------------------------------------------------------------------
(* Packet numbers, of a member that stays in its session and whose packets *)
(* carry one frame each.                                                   *)

\* One delivery thread runs, and nothing stops it.
Alone ==
    /\ pc_ctrl = "idle" /\ stop_delivery = FALSE /\ moves = 0
    /\ \A d \in DeliveryThreads : pc[d] # "ended" => d = deliver_thread /\ pc[d] # "exit"
    /\ deliver_thread # None => pc[deliver_thread] # "ended"

Whole(f) == f.seqno = Seq16(f.ext) /\ f.full_payload = TRUE

\* The thread has played the frame it holds, and not yet advanced expect_seqno.
Free == deliver_thread # None /\ pc[deliver_thread] = "free"
Playing == hold[deliver_thread]

OneFrameEach ==
    /\ pc_recv \in {"deliver", "hold"} => frames_left = 1
    /\ pc_recv = "signal" => frames_left = 0
    /\ \A i \in DOMAIN buffer : Whole(buffer[i])
    /\ Free => Whole(Playing)

PlayedType == [ext : Packets, packetno : Nat]
LastPlayed == played[Len(played)]

(***************************************************************************)
(* Between two frames expect_seqno follows the last one played: a frame    *)
(* that is next to it is not taken for a gap.                              *)
(***************************************************************************)
Numbered ==
    /\ played \in Seq(PlayedType)
    /\ deliver_thread = None => played = <<>>
    /\ Free => played # <<>>
    /\ played # <<>> =>
          /\ LastPlayed.packetno = packetno
          /\ IF Free THEN LastPlayed.ext = Playing.ext
                     ELSE expect_seqno = SeqNext(Seq16(LastPlayed.ext))
    /\ NoFalseGap

PlayInv == TypeInv /\ Alone /\ OneFrameEach /\ Numbered

LEMMA AloneInit == Init => Alone
BY ThreadAssumption DEF Init, Alone

LEMMA AloneStep ==
    ASSUME MaxMoves = 0, TypeInv, Alone, [Next]_vars
    PROVE  Alone'
<1> USE ThreadAssumption DEF Alone, controlVars, memberVars
<1>1. ASSUME NEW n \in Packets, RecvRefused(n) \/ RecvStale(n) \/ RecvValid(n) PROVE Alone'
  BY <1>1 DEF RecvRefused, RecvStale, RecvValid, RecvIgnored
<1>2. CASE RecvStall \/ RecvHold \/ RecvSignal
  BY <1>2 DEF RecvStall, RecvHold, RecvSignal
<1>3. CASE RecvDeliver
  <2>1. CASE deliver_thread # None
    BY <1>3, <2>1 DEF RecvDeliver
  <2>2. CASE deliver_thread = None
    BY <1>3, <2>2 DEF RecvDeliver, TypeInv, TypeOK
  <2> QED
    BY <2>1, <2>2
<1>4. ASSUME NEW d \in DeliveryThreads, DeliveryStep(d) PROVE Alone'
  <2>1. pc_ctrl' = pc_ctrl /\ moves' = moves
    BY <1>4 DEF DeliveryStep, DeliverStart, DeliverLock, DeliverStop, DeliverWaitMedia, DeliverMediaAvailable,
       DeliverPlay, DeliverFree, DeliverWaitSeqno, DeliverSeqno, DeliverExit, DeliveryKeeps
  <2>2. pc[d] # "ended" /\ ~DeliverStop(d) /\ ~DeliverExit(d)
    BY <1>4 DEF DeliveryStep, DeliverStart, DeliverLock, DeliverStop, DeliverWaitMedia, DeliverMediaAvailable,
       DeliverPlay, DeliverFree, DeliverWaitSeqno, DeliverSeqno, DeliverExit
  <2>3. /\ \E p \in Labels \ {"ended", "exit"} : pc' = [pc EXCEPT ![d] = p]
        /\ deliver_thread' = deliver_thread /\ stop_delivery' = FALSE
    BY <1>4, <2>2 DEF DeliveryStep, DeliverStart, DeliverLock, DeliverWaitMedia, DeliverMediaAvailable,
       DeliverPlay, DeliverFree, DeliverWaitSeqno, DeliverSeqno, Labels
  <2> QED
    BY <2>1, <2>2, <2>3 DEF TypeInv, TypeOK, Labels
<1>5. ASSUME NEW n \in Packets, TimePasses(n) PROVE Alone'
  BY <1>5 DEF TimePasses, DeliveryKeeps
<1>6. ~ControllerStep
  BY DEF ControllerStep, MoveRemove, MoveStop, MoveWait, MoveJoined, MoveReset, MoveAdd
<1>7. CASE UNCHANGED vars
  BY <1>7 DEF vars
<1> QED
  BY <1>1, <1>2, <1>3, <1>4, <1>5, <1>6, <1>7 DEF Next, ReceiverStep

LEMMA FramesStep ==
    ASSUME Bundles = {}, MaxMoves = 0, TypeInv, Alone, OneFrameEach, [Next]_vars
    PROVE  OneFrameEach'
<1>1. Alone'
  BY AloneStep
<1> DEFINE Keeps == UNCHANGED <<buffer, hold, pc, deliver_thread>>
<1>2. ASSUME Keeps, pc_recv' = pc_recv /\ frames_left' = frames_left PROVE OneFrameEach'
  BY <1>2 DEF OneFrameEach, Whole, Free, Playing
<1>3. ASSUME NEW n \in Packets, RecvRefused(n) \/ RecvStale(n) PROVE OneFrameEach'
  BY <1>2, <1>3 DEF RecvRefused, RecvStale, RecvIgnored, receiverVars, memberVars
<1>4. ASSUME Keeps, pc_recv' \in {"deliver", "hold"} => frames_left' = 1, pc_recv' = "signal" => frames_left' = 0
      PROVE  OneFrameEach'
  BY <1>4 DEF OneFrameEach, Whole, Free, Playing
<1>5. ASSUME NEW n \in Packets, RecvValid(n) PROVE OneFrameEach'
  BY <1>4, <1>5 DEF RecvValid, RecvIgnored, memberVars
<1>6. CASE RecvStall
  BY <1>4, <1>6 DEF RecvStall, memberVars
<1>7. CASE RecvDeliver
  <2>1. CASE deliver_thread # None
    BY <1>4, <1>7, <2>1 DEF RecvDeliver, memberVars, OneFrameEach
  <2>2. CASE deliver_thread = None
    <3>1. ~Free'
      BY <1>7, <2>2 DEF RecvDeliver, Free, TypeInv, TypeOK
    <3> QED
      BY <1>7, <3>1 DEF RecvDeliver, OneFrameEach, Whole
  <2> QED
    BY <2>1, <2>2
<1>8. CASE RecvHold
  <2>1. frames_left = 1 /\ frames_left' = 0 /\ pc_recv' = "signal"
    BY <1>8 DEF RecvHold, OneFrameEach
  <2>2. PICK f \in Frames : f = Frame(packet, TRUE) /\ Whole(f)
    BY FrameType DEF TypeInv, TypeOK, Frame, Whole
  <2>3. buffer \in Seq(Frames) /\ buffer' = AddOnceAscent(buffer, f)
    BY <1>8, <2>1, <2>2 DEF RecvHold, TypeInv, TypeOK
  <2>4. \A i \in DOMAIN buffer' : Whole(buffer'[i])
    BY <2>2, <2>3, AddedFrames DEF OneFrameEach
  <2> QED
    BY <1>8, <2>1, <2>4 DEF RecvHold, memberVars, OneFrameEach, Free, Playing, Whole, Seq16
<1>9. CASE RecvSignal
  BY <1>4, <1>9 DEF RecvSignal, memberVars, OneFrameEach, TypeInv, TypeOK
<1>10. ASSUME NEW d \in DeliveryThreads, DeliveryStep(d) PROVE OneFrameEach'
  <2>1. d = deliver_thread
    BY <1>10 DEF Alone, DeliveryStep, DeliverStart, DeliverLock, DeliverStop, DeliverWaitMedia,
       DeliverMediaAvailable, DeliverPlay, DeliverFree, DeliverWaitSeqno, DeliverSeqno, DeliverExit
  <2>2. CASE DeliverPlay(d)
    <3>1. /\ buffer # <<>> /\ buffer' = Tail(buffer)
          /\ hold' = [hold EXCEPT ![d] = Head(buffer)]
          /\ deliver_thread' = deliver_thread /\ UNCHANGED receiverVars
      BY <2>2 DEF DeliverPlay, DeliveryKeeps
    <3>2. /\ buffer \in Seq(Frames) /\ DOMAIN buffer = 1 .. Len(buffer) /\ Len(buffer) \in Nat \ {0}
          /\ Head(buffer) = buffer[1]
      BY <3>1, LenProperties, EmptySeq DEF TypeInv, TypeOK
    <3>3. /\ DOMAIN Tail(buffer) = 1 .. Len(buffer) - 1
          /\ \A i \in 1 .. Len(buffer) - 1 : Tail(buffer)[i] = buffer[i + 1]
      BY <3>1, <3>2, HeadTailProperties, LenProperties
    <3>4. \A i \in DOMAIN buffer' : Whole(buffer'[i])
      BY <3>1, <3>2, <3>3 DEF OneFrameEach
    <3>5. Playing' = buffer[1] /\ Whole(buffer[1])
      BY <2>1, <3>1, <3>2 DEF OneFrameEach, Playing, TypeInv, TypeOK
    <3> QED
      BY <3>1, <3>4, <3>5 DEF OneFrameEach, receiverVars, Whole, Seq16
  <2>3. CASE ~DeliverPlay(d)
    <3>1. buffer' = buffer /\ UNCHANGED receiverVars /\ deliver_thread' = deliver_thread
      BY <1>1, <1>10, <2>1, <2>3 DEF Alone, DeliveryStep, DeliverStart, DeliverLock, DeliverStop, DeliverWaitMedia,
         DeliverMediaAvailable, DeliverFree, DeliverWaitSeqno, DeliverSeqno, DeliverExit, DeliveryKeeps, memberVars
    <3>2. ~Free'
      BY <1>10, <2>1, <2>3, <3>1 DEF Free, DeliveryStep, DeliverStart, DeliverLock, DeliverStop, DeliverWaitMedia,
         DeliverMediaAvailable, DeliverFree, DeliverWaitSeqno, DeliverSeqno, DeliverExit, TypeInv, TypeOK
    <3> QED
      BY <3>1, <3>2 DEF OneFrameEach, receiverVars, Whole
  <2> QED
    BY <2>2, <2>3
<1>11. ASSUME NEW n \in Packets, TimePasses(n) PROVE OneFrameEach'
  BY <1>2, <1>11 DEF TimePasses, DeliveryKeeps, receiverVars, memberVars
<1>12. ~ControllerStep
  BY DEF ControllerStep, MoveRemove, MoveStop, MoveWait, MoveJoined, MoveReset, MoveAdd, Alone
<1>13. CASE UNCHANGED vars
  BY <1>2, <1>13 DEF vars, receiverVars, memberVars
<1> QED
  BY <1>3, <1>5, <1>6, <1>7, <1>8, <1>9, <1>10, <1>11, <1>12, <1>13 DEF Next, ReceiverStep

LEMMA NumberedInit == Init => Numbered
BY ThreadAssumption DEF Init, Numbered, NoFalseGap, Free

\* What only moves the thread, between two frames, changes no number.
LEMMA NumberedKept ==
    ASSUME Numbered, ~Free, ~Free',
           UNCHANGED <<played, deliver_thread, expect_seqno, packetno>>
    PROVE  Numbered'
BY DEF Numbered, NoFalseGap, LastPlayed, EOS, Seq16, SeqNext

LEMMA NumberedKeptFree ==
    ASSUME Numbered, UNCHANGED <<played, deliver_thread, expect_seqno, packetno, pc, hold>>
    PROVE  Numbered'
BY DEF Numbered, NoFalseGap, LastPlayed, EOS, Seq16, SeqNext, Free, Playing

LEMMA PlayNumbers ==
    ASSUME PlayInv, NEW d \in DeliveryThreads, d = deliver_thread, DeliverPlay(d)
    PROVE  Numbered'
<1>1. /\ buffer # <<>> /\ pc[d] = "check"
      /\ packetno' = packetno + IF Gap(Head(buffer)) THEN 2 ELSE 1
      /\ played' = Append(played, [ext |-> Head(buffer).ext, packetno |-> packetno'])
      /\ hold' = [hold EXCEPT ![d] = Head(buffer)]
      /\ pc' = [pc EXCEPT ![d] = "free"]
      /\ deliver_thread' = deliver_thread /\ expect_seqno' = expect_seqno
  BY DEF DeliverPlay
<1>2. PICK f \in Frames : f = Head(buffer) /\ f.ext \in Packets /\ Whole(f)
  <2>1. 1 \in DOMAIN buffer /\ Head(buffer) = buffer[1]
    BY <1>1, LenProperties, EmptySeq DEF PlayInv, TypeInv, TypeOK
  <2> QED
    BY <1>1, <2>1, HeadOfBuffer DEF PlayInv, TypeInv, OneFrameEach
<1>3. ~Free /\ Free' /\ Playing' = f
  BY <1>1, <1>2, ThreadAssumption DEF Free, Playing, PlayInv, TypeInv, TypeOK
<1>4. PICK e : e = [ext |-> f.ext, packetno |-> packetno']
  OBVIOUS
<1>5. packetno' \in Nat /\ e \in PlayedType
  BY <1>1, <1>2, <1>4 DEF PlayInv, TypeInv, TypeOK, PlayedType
<1>6. played \in Seq(PlayedType) /\ played' = Append(played, e)
  BY <1>1, <1>2, <1>4 DEF PlayInv, Numbered
<1>7. /\ played' \in Seq(PlayedType) /\ played' # <<>> /\ Len(played') = Len(played) + 1
      /\ \A i \in 1 .. Len(played) : played'[i] = played[i]
      /\ played'[Len(played) + 1] = e
      /\ Len(played) \in Nat /\ DOMAIN played = 1 .. Len(played) /\ DOMAIN played' = 1 .. Len(played) + 1
  BY <1>5, <1>6, AppendProperties, LenProperties
<1>8. LastPlayed' = e
  BY <1>7 DEF LastPlayed
<1>9. NoFalseGap'
  <2> SUFFICES ASSUME NEW i \in DOMAIN played', i + 1 \in DOMAIN played',
                      played'[i + 1].ext = played'[i].ext + 1
               PROVE  played'[i + 1].packetno = played'[i].packetno + 1
    BY DEF NoFalseGap
  <2>1. CASE i + 1 <= Len(played)
    <3>1. i \in DOMAIN played /\ i + 1 \in DOMAIN played /\ played'[i] = played[i] /\ played'[i + 1] = played[i + 1]
      BY <1>7, <2>1
    <3>2. played[i] \in PlayedType /\ played[i + 1] \in PlayedType
      BY <1>6, <1>7, <3>1, ElementOfSeq
    <3>3. EOS \notin {played[i], played[i + 1]}
      BY <3>2, MediaAssumption DEF EOS, Packets, PlayedType
    <3> QED
      BY <3>1, <3>3 DEF PlayInv, Numbered, NoFalseGap
  <2>2. CASE i = Len(played)
    <3>1. played # <<>> /\ played'[i] = LastPlayed /\ played'[i + 1] = e
      BY <1>7, <2>2 DEF LastPlayed
    <3>2. LastPlayed.packetno = packetno /\ expect_seqno = SeqNext(Seq16(LastPlayed.ext))
      BY <1>3, <3>1 DEF PlayInv, Numbered
    <3>3. LastPlayed.ext \in Nat /\ f.ext = LastPlayed.ext + 1
      <4>1. LastPlayed \in PlayedType
        BY <1>6, <1>7, <2>2, ElementOfSeq DEF LastPlayed
      <4>2. LastPlayed.ext \in Nat
        BY <4>1, PacketRange DEF PlayedType
      <4>3. e.ext = f.ext
        BY <1>4
      <4> QED
        BY <3>1, <4>2, <4>3
    <3>4. f.seqno = expect_seqno
      BY <1>2, <3>2, <3>3, NextOf DEF Whole
    <3>5. ~Gap(f)
      BY <3>4 DEF Gap, PlayInv, TypeInv, TypeOK, Seqno
    <3> QED
      BY <1>1, <1>2, <1>4, <3>1, <3>2, <3>5
  <2> QED
    BY <1>7, <2>1, <2>2
<1> QED
  BY <1>1, <1>3, <1>4, <1>7, <1>8, <1>9, ThreadAssumption DEF Numbered

LEMMA PlayStep ==
    ASSUME Bundles = {}, MaxMoves = 0, PlayInv, [Next]_vars
    PROVE  PlayInv'
<1>1. TypeInv' /\ Alone' /\ OneFrameEach'
  BY TypeStep, AloneStep, FramesStep DEF PlayInv
<1> SUFFICES Numbered'
  BY <1>1 DEF PlayInv
<1>2. ASSUME NEW n \in Packets, RecvRefused(n) \/ RecvStale(n) \/ RecvValid(n) PROVE Numbered'
  BY <1>2, NumberedKeptFree DEF RecvRefused, RecvStale, RecvValid, RecvIgnored, memberVars, PlayInv
<1>3. CASE RecvStall \/ RecvHold \/ RecvSignal
  BY <1>3, NumberedKeptFree DEF RecvStall, RecvHold, RecvSignal, memberVars, PlayInv
<1>4. CASE RecvDeliver
  <2>1. CASE deliver_thread # None
    BY <1>4, <2>1, NumberedKeptFree DEF RecvDeliver, memberVars, PlayInv
  <2>2. CASE deliver_thread = None
    <3>1. played = <<>> /\ played' = <<>> /\ ~Free'
      BY <1>4, <2>2 DEF RecvDeliver, Free, PlayInv, TypeInv, TypeOK, Numbered
    <3> QED
      BY <3>1 DEF Numbered, NoFalseGap
  <2> QED
    BY <2>1, <2>2
<1>5. ASSUME NEW d \in DeliveryThreads, DeliveryStep(d) PROVE Numbered'
  <2>1. d = deliver_thread
    BY <1>5 DEF PlayInv, Alone, DeliveryStep, DeliverStart, DeliverLock, DeliverStop, DeliverWaitMedia,
       DeliverMediaAvailable, DeliverPlay, DeliverFree, DeliverWaitSeqno, DeliverSeqno, DeliverExit
  <2>2. CASE DeliverFree(d)
    <3>1. Free /\ ~Free'
      BY <2>1, <2>2, ThreadAssumption DEF DeliverFree, Free, PlayInv, TypeInv, TypeOK
    <3>2. /\ played # <<>> /\ LastPlayed.packetno = packetno /\ LastPlayed.ext = Playing.ext
          /\ Whole(Playing)
      BY <3>1 DEF PlayInv, Numbered, OneFrameEach
    <3>3. expect_seqno' = SeqNext(Seq16(LastPlayed.ext))
      BY <2>1, <2>2, <3>2 DEF DeliverFree, Playing, Whole
    <3> QED
      BY <2>1, <2>2, <3>1, <3>2, <3>3 DEF DeliverFree, PlayInv, Numbered, NoFalseGap, LastPlayed, EOS, Seq16, SeqNext
  <2>3. CASE ~DeliverFree(d) /\ ~DeliverPlay(d)
    <3>1. ~Free /\ UNCHANGED <<played, deliver_thread, expect_seqno, packetno>>
      BY <1>5, <2>1, <2>3 DEF Free, PlayInv, Alone, DeliveryStep, DeliverStart, DeliverLock, DeliverStop, DeliverWaitMedia,
         DeliverMediaAvailable, DeliverWaitSeqno, DeliverSeqno, DeliverExit, memberVars
    <3>2. ~Free'
      BY <1>5, <2>1, <2>3, <3>1 DEF Free, DeliveryStep, DeliverStart, DeliverLock, DeliverStop, DeliverWaitMedia,
         DeliverMediaAvailable, DeliverWaitSeqno, DeliverSeqno, DeliverExit, PlayInv, TypeInv, TypeOK
    <3> QED
      BY <3>1, <3>2, NumberedKept DEF PlayInv
  <2> QED
    BY <2>1, <2>2, <2>3, PlayNumbers
<1>6. ASSUME NEW n \in Packets, TimePasses(n) PROVE Numbered'
  BY <1>6, NumberedKeptFree DEF TimePasses, memberVars, PlayInv
<1>7. ~ControllerStep
  BY DEF ControllerStep, MoveRemove, MoveStop, MoveWait, MoveJoined, MoveReset, MoveAdd, PlayInv, Alone
<1>8. CASE UNCHANGED vars
  BY <1>8, NumberedKeptFree DEF vars, memberVars, PlayInv
<1> QED
  BY <1>2, <1>3, <1>4, <1>5, <1>6, <1>7, <1>8 DEF Next, ReceiverStep

LEMMA PlayInit == Init => PlayInv
<1> SUFFICES ASSUME Init PROVE PlayInv
  OBVIOUS
<1>1. OneFrameEach
  BY DEF Init, OneFrameEach, Free
<1> QED
  BY <1>1, TypeInit, AloneInit, NumberedInit DEF PlayInv

(***************************************************************************)
(* A decoder that gets two consecutive packets sees consecutive packet     *)
(* numbers, whatever the network loses, repeats or delivers late: of a     *)
(* member that stays in its session and packets of one frame each, the two *)
(* conditions without which member_deliver_media_loop does not promise it. *)
(***************************************************************************)
THEOREM PacketnoFollows ==
    ASSUME MaxMoves = 0, Bundles = {}
    PROVE  Spec => []NoFalseGap
<1>1. PlayInv /\ [Next]_vars => PlayInv'
  BY PlayStep
<1>2. PlayInv => NoFalseGap
  BY DEF PlayInv, Numbered
<1> QED
  BY <1>1, <1>2, PlayInit, PTL DEF Spec

-----------------------------------------------------------------------------
(* The order of playing                                                    *)

(***************************************************************************)
(* The network and the play times of PlayedInOrder: a packet comes at most *)
(* one behind the newest, what is lost in a row is no jump, and what may   *)
(* come while one frame is held, and while the one before it was, does not *)
(* fill a turn of the 16-bit numbers.                                      *)
(***************************************************************************)
NetworkWindow ==
    /\ Lags \subseteq {1}
    /\ MaxGap + 1 < MAX_DROPOUT
    /\ MAX_MISORDER > 1
    /\ 2 * MaxAhead + MaxGap < SEQ_MOD

\* max_seq is the number of the newest packet, or one less while the base is it.
Tracked ==
    /\ probation \in 0 .. MIN_SEQUENTIAL /\ max_seq \in Seqno /\ base_seq \in Seqno
    /\ probation < MIN_SEQUENTIAL =>
          max_seq = Seq16(top) \/ (top > 0 /\ max_seq = Seq16(top - 1))
    /\ probation = 0 /\ max_seq # Seq16(top) => base_seq = Seq16(top) /\ base_seq # 0

\* Delivery begins with the packet that ends the probation.
Begun ==
    /\ probation > 0 => pc_recv = "poll" /\ deliver_thread = None
    /\ deliver_thread = None =>
          /\ played = <<>> /\ buffer = <<>> /\ expect_seqno = 0
          /\ probation = 0 => pc_recv \in {"stall", "deliver"} /\ packet = top

InFlight == pc_recv \in {"stall", "deliver", "hold"}
Pending == {buffer[i].ext : i \in DOMAIN buffer} \union (IF InFlight THEN {packet} ELSE {})

Sorted ==
    /\ InFlight => packet = top /\ \A i \in DOMAIN buffer : buffer[i].ext < packet
    /\ \A i, j \in DOMAIN buffer : i < j => buffer[i].ext < buffer[j].ext
    /\ \A i, j \in DOMAIN played : i < j => played[i].ext < played[j].ext

(***************************************************************************)
(* expect_seqno is the number of an extended e that separates what was     *)
(* played from what is pending, all of it in the turn of e.  While nothing *)
(* is pending the network may pass e by; the turn it passes into is that   *)
(* of e, as a packet of the next turn is stale.                            *)
(***************************************************************************)
WhilePlaying(e) ==
    /\ e <= Playing.ext /\ Turns(Playing.ext) = Turns(e) /\ Playing.ext <= e + MaxAhead + MaxGap
    /\ Playing.ext <= top /\ top <= Playing.ext + MaxAhead
    /\ \A n \in Pending : Playing.ext < n
    /\ \A i \in DOMAIN played : played[i].ext <= Playing.ext

BetweenFrames(e) ==
    /\ \A i \in DOMAIN played : played[i].ext < e
    /\ Pending = {} => top <= e + MaxAhead /\ Turns(e) <= Turns(top + 1)
    /\ \A n \in Pending : (\A m \in Pending : n <= m) => n <= e + MaxAhead + MaxGap

Expects(e) ==
    /\ e \in Nat /\ Seq16(e) = expect_seqno
    /\ \A n \in Pending : e <= n /\ Turns(n) = Turns(e) /\ n <= top /\ top <= n + MaxAhead
    /\ max_seq # Seq16(top) => e >= top
    /\ IF Free THEN WhilePlaying(e) ELSE BetweenFrames(e)

Ordered ==
    base_seq # SEQ_MOD - 1 =>
        /\ Sorted
        /\ deliver_thread # None => \E e \in Nat : Expects(e)

OrderInv == PlayInv /\ Tracked /\ Begun /\ Ordered

LEMMA ModulusLarge ==
    ASSUME NetworkWindow
    PROVE  SEQ_MOD >= 4 /\ 1 \in Seqno /\ 2 \in Seqno
BY SeqAssumption, MediaAssumption DEF NetworkWindow, Seqno

LEMMA Delivered ==
    ASSUME NetworkWindow, PlayInv, NEW n \in Packets, NetworkDelivers(n)
    PROVE  /\ n \in Nat /\ top \in Nat /\ pc_recv = "poll"
           /\ \/ n \in top .. top + MaxGap /\ (n > top \/ probation = MIN_SEQUENTIAL)
              \/ n + 1 = top /\ probation < MIN_SEQUENTIAL
           /\ top' = IF n > top THEN n ELSE top
BY PacketRange DEF NetworkWindow, NetworkDelivers, PlayInv, TypeInv, TypeOK

(***************************************************************************)
(* What session_update_seqno does with a packet of a valid source: a new   *)
(* one is in order; one that comes late is refused, or it is the one just  *)
(* before the base, and leaves max_seq as it is.                           *)
(***************************************************************************)
LEMMA ValidSource ==
    ASSUME NetworkWindow, PlayInv, Tracked, probation = 0,
           NEW n \in Packets, NetworkDelivers(n), Valid(Seq16(n)) \/ Refused(Seq16(n))
    PROVE  /\ probation' = 0 /\ base_seq' = base_seq
           /\ \/ n > top /\ n <= top + MaxGap /\ max_seq' = Seq16(n) /\ ~Refused(Seq16(n))
              \/ n + 1 = top /\ UNCHANGED max_seq /\ max_seq = Seq16(top) /\ ~Valid(Seq16(n))
              \/ n + 1 = top /\ UNCHANGED max_seq /\ max_seq = Seq16(n)
<1> USE SeqAssumption, ModulusLarge, MediaAssumption DEF NetworkWindow
<1>1. /\ n \in Nat /\ top \in Nat /\ MIN_SEQUENTIAL > 1
      /\ \/ n > top /\ n <= top + MaxGap
         \/ n + 1 = top
  BY Delivered
<1>2. Seq16(n) \in Seqno /\ max_seq \in Seqno
  BY <1>1, ModRange DEF Tracked
<1>3. max_seq = Seq16(top) \/ (top > 0 /\ max_seq = Seq16(top - 1))
  BY DEF Tracked
<1>4. CASE n > top /\ n <= top + MaxGap
  <2>1. Udelta(Seq16(n)) \in Nat /\ Udelta(Seq16(n)) < MAX_DROPOUT
    <3>1. CASE max_seq = Seq16(top)
      <4>1. PICK d \in Seqno : n = top + d /\ d < MAX_DROPOUT
        <5>1. n - top \in Seqno /\ n = top + (n - top) /\ n - top < MAX_DROPOUT
          BY <1>1, <1>4 DEF Seqno
        <5> QED
          BY <5>1
      <4> QED
        BY <1>1, <3>1, <4>1, AheadBy DEF Seqno
    <3>2. CASE top > 0 /\ max_seq = Seq16(top - 1)
      <4>1. PICK d \in Seqno : n = (top - 1) + d /\ d < MAX_DROPOUT
        <5>1. n - top + 1 \in Seqno /\ n = (top - 1) + (n - top + 1) /\ n - top + 1 < MAX_DROPOUT
          BY <1>1, <1>4 DEF Seqno
        <5> QED
          BY <5>1
      <4>2. top - 1 \in Nat
        BY <1>1, <3>2
      <4> QED
        BY <3>2, <4>1, <4>2, AheadBy DEF Seqno
    <3> QED
      BY <1>3, <3>1, <3>2
  <2>2. ~Refused(Seq16(n))
    BY <2>1 DEF Refused, ProbationStep, ProbationRestart, JumpSuspected, LargeJump, Misordered
  <2>3. InOrder(Seq16(n))
    BY <2>1, <2>2 DEF Valid, ProbationOver, JumpConfirmed, LargeJump
  <2> QED
    BY <1>4, <2>2, <2>3 DEF InOrder
<1>5. CASE n + 1 = top /\ max_seq = Seq16(top)
  <2>1. Udelta(Seq16(n)) = SEQ_MOD - 1
    BY <1>1, <1>5, BehindBy
  <2>2. ~Valid(Seq16(n))
    BY <2>1 DEF Valid, ProbationOver, InOrder, JumpConfirmed, LargeJump
  <2>3. Misordered(Seq16(n))
    BY <2>1, <2>2 DEF Refused, ProbationStep, ProbationRestart, JumpSuspected, LargeJump
  <2> QED
    BY <1>5, <2>2, <2>3 DEF Misordered, trackerVars
<1>6. CASE n + 1 = top /\ max_seq = Seq16(top - 1)
  <2>1. max_seq = Seq16(n) /\ n + 0 = n /\ 0 \in Seqno
    BY <1>1, <1>6 DEF Seqno
  <2>2. Udelta(Seq16(n)) = 0
    BY <1>1, <2>1, AheadBy
  <2>3. ~Refused(Seq16(n))
    BY <2>2 DEF Refused, ProbationStep, ProbationRestart, JumpSuspected, LargeJump, Misordered
  <2>4. InOrder(Seq16(n))
    BY <2>2, <2>3 DEF Valid, ProbationOver, JumpConfirmed, LargeJump
  <2> QED
    BY <1>6, <2>1, <2>4 DEF InOrder
<1> QED
  BY <1>1, <1>3, <1>4, <1>5, <1>6

\* Before, a packet is refused, or it is the newest and the base.
LEMMA InProbation ==
    ASSUME NetworkWindow, PlayInv, Tracked, probation > 0,
           NEW n \in Packets, NetworkDelivers(n), Valid(Seq16(n)) \/ Refused(Seq16(n))
    PROVE  \/ /\ Refused(Seq16(n)) /\ ~Valid(Seq16(n))
              /\ probation' \in 1 .. MIN_SEQUENTIAL - 1
              /\ max_seq' = Seq16(n) /\ base_seq' = base_seq
           \/ /\ Valid(Seq16(n)) /\ ~Refused(Seq16(n))
              /\ probation' = 0 /\ n > top /\ n > 0
              /\ base_seq' = Seq16(n) /\ Seq16(n) # 0 /\ max_seq' = Seq16(n - 1)
<1> USE SeqAssumption, ModulusLarge, MediaAssumption DEF NetworkWindow
<1>1. /\ n \in Nat /\ top \in Nat /\ MIN_SEQUENTIAL > 1
      /\ \/ n >= top /\ (n > top \/ probation = MIN_SEQUENTIAL)
         \/ n + 1 = top /\ probation < MIN_SEQUENTIAL
  BY Delivered
<1>2. Seq16(n) \in Seqno /\ max_seq \in Seqno /\ probation \in 1 .. MIN_SEQUENTIAL
  BY <1>1, ModRange DEF Tracked
<1>3. CASE ProbationOver(Seq16(n))
  <2>1. probation = 1 /\ Seq16(n) = max_seq + 1 /\ probation' = 0 /\ base_seq' = Seq16(n)
        /\ max_seq' = SeqPrev(Seq16(n))
    BY <1>3 DEF ProbationOver, InSequence, InitSeqno
  <2>2. ~(n + 1 = top)
    <3> SUFFICES ASSUME n + 1 = top PROVE FALSE
      OBVIOUS
    <3>1. max_seq = Seq16(n + 1) \/ max_seq = Seq16(n)
      BY <1>1, <2>1 DEF Tracked
    <3>2. PICK r \in Seqno : r = Seq16(n)
      BY <1>2
    <3>3. Seq16(n + 1) = IF r + 1 < SEQ_MOD THEN r + 1 ELSE r + 1 - SEQ_MOD
      BY <1>1, <3>2, Further
    <3>4. r = max_seq + 1
      BY <2>1, <3>2
    <3> QED
      BY <1>2, <3>1, <3>2, <3>3, <3>4 DEF Seqno
  <2>3. n > top /\ n > 0
    BY <1>1, <2>1, <2>2
  <2>4. Seq16(n) # 0
    BY <1>2, <2>1 DEF Seqno
  <2>5. max_seq' = Seq16(n - 1)
    BY <1>1, <2>1, <2>3, <2>4, PrevNumber
  <2>6. ~Refused(Seq16(n))
    BY <2>1 DEF Refused, ProbationStep, ProbationRestart, JumpSuspected, LargeJump, Misordered, InSequence
  <2> QED
    BY <1>3, <2>1, <2>3, <2>4, <2>5, <2>6 DEF Valid
<1>4. CASE ~ProbationOver(Seq16(n))
  <2>1. ~Valid(Seq16(n)) /\ Refused(Seq16(n))
    BY <1>2, <1>4 DEF Valid, InOrder, JumpConfirmed, LargeJump
  <2>2. ProbationStep(Seq16(n)) \/ ProbationRestart(Seq16(n))
    BY <1>2, <2>1 DEF Refused, JumpSuspected, LargeJump, Misordered
  <2> QED
    BY <1>2, <2>1, <2>2 DEF ProbationStep, ProbationRestart
<1> QED
  BY <1>3, <1>4

LEMMA NetworkTracked ==
    ASSUME NetworkWindow, PlayInv, Tracked,
           NEW n \in Packets, NetworkDelivers(n), Valid(Seq16(n)) \/ Refused(Seq16(n))
    PROVE  Tracked'
<1>1. n \in Nat /\ top \in Nat /\ top' = IF n > top THEN n ELSE top
  BY Delivered
<1>2. Seq16(n) \in Seqno /\ MIN_SEQUENTIAL \in Nat /\ MIN_SEQUENTIAL > 1
  BY <1>1, ModRange, SeqAssumption
<1>3. Seq16(top)' = Seq16(top') /\ Seq16(top - 1)' = Seq16(top' - 1)
  BY DEF Seq16
<1>4. /\ max_seq \in Seqno /\ base_seq \in Seqno /\ probation \in 0 .. MIN_SEQUENTIAL
      /\ probation < MIN_SEQUENTIAL => max_seq = Seq16(top) \/ (top > 0 /\ max_seq = Seq16(top - 1))
      /\ probation = 0 /\ max_seq # Seq16(top) => base_seq = Seq16(top) /\ base_seq # 0
  BY DEF Tracked
<1>5. CASE probation = 0
  <2>1. /\ probation' = 0 /\ base_seq' = base_seq
        /\ \/ n > top /\ max_seq' = Seq16(n)
           \/ n + 1 = top /\ max_seq' = max_seq
    BY <1>5, ValidSource
  <2>2. CASE n > top /\ max_seq' = Seq16(n)
    <3>1. top' = n /\ max_seq' = Seq16(top')
      BY <1>1, <2>2
    <3> QED
      BY <1>1, <1>2, <1>3, <1>4, <2>1, <2>2, <3>1 DEF Tracked
  <2>3. CASE n + 1 = top /\ max_seq' = max_seq
    <3>1. top' = top
      BY <1>1, <2>3
    <3> QED
      BY <1>1, <1>2, <1>3, <1>4, <1>5, <2>1, <2>3, <3>1 DEF Tracked
  <2> QED
    BY <2>1, <2>2, <2>3
<1>6. CASE probation > 0
  <2>1. CASE /\ probation' \in 1 .. MIN_SEQUENTIAL - 1
             /\ max_seq' = Seq16(n) /\ base_seq' = base_seq
    <3>1. top' = n \/ (top' = n + 1 /\ n = top' - 1 /\ top' > 0)
      BY <1>1, Delivered
    <3> QED
      BY <1>2, <1>3, <1>4, <2>1, <3>1 DEF Tracked
  <2>2. CASE /\ probation' = 0 /\ n > top /\ n > 0
             /\ base_seq' = Seq16(n) /\ Seq16(n) # 0 /\ max_seq' = Seq16(n - 1)
    <3>1. top' = n /\ n - 1 \in Nat
      BY <1>1, <2>2
    <3>2. Seq16(n - 1) \in Seqno
      BY <3>1, ModRange
    <3> QED
      BY <1>2, <1>3, <1>4, <2>2, <3>1, <3>2 DEF Tracked
  <2> QED
    BY <1>6, <2>1, <2>2, InProbation
<1> QED
  BY <1>4, <1>5, <1>6

LEMMA NetworkBegun ==
    ASSUME NetworkWindow, PlayInv, Tracked, Begun,
           NEW n \in Packets, RecvRefused(n) \/ RecvStale(n) \/ RecvValid(n)
    PROVE  /\ Begun'
           /\ probation = 0 => deliver_thread # None
           /\ probation > 0 => ~RecvStale(n)
<1>1. NetworkDelivers(n) /\ pc_recv = "poll" /\ n \in Nat /\ Seq16(n) \in Seqno
  BY Delivered, ModRange DEF RecvRefused, RecvStale, RecvValid
<1>2. UNCHANGED <<played, buffer, expect_seqno, deliver_thread>>
  BY DEF RecvRefused, RecvStale, RecvValid, RecvIgnored, memberVars
<1>3. probation \in Nat
  BY SeqAssumption DEF Tracked
<1>4. CASE probation = 0
  <2>1. deliver_thread # None
    BY <1>1, <1>4 DEF Begun
  <2>2. probation' = 0
    BY <1>1, <1>4, ValidSource DEF RecvRefused, RecvStale, RecvValid
  <2> QED
    BY <1>2, <1>3, <1>4, <2>1, <2>2 DEF Begun
<1>5. CASE probation > 0
  <2>1. /\ deliver_thread = None /\ played = <<>> /\ buffer = <<>> /\ expect_seqno = 0
    BY <1>5 DEF Begun
  <2>2. ~Stale(n)
    BY <1>1, <2>1 DEF Stale, Seqno
  <2>3. CASE RecvRefused(n)
    <3>1. probation' > 0 /\ pc_recv' = "poll"
      BY <1>1, <1>5, <2>3, InProbation, SeqAssumption DEF RecvRefused, receiverVars
    <3> QED
      BY <1>2, <1>5, <2>1, <2>2, <3>1 DEF Begun, RecvStale
  <2>4. CASE RecvValid(n)
    <3>1. probation' = 0 /\ pc_recv' = "stall" /\ packet' = n /\ top' = n
      BY <1>1, <1>5, <2>4, InProbation, Delivered DEF RecvValid
    <3> QED
      BY <1>2, <1>5, <2>1, <2>2, <3>1 DEF Begun, RecvStale
  <2> QED
    BY <2>2, <2>3, <2>4 DEF RecvStale
<1> QED
  BY <1>3, <1>4, <1>5

\* Expects in the next state, with the primes where they matter.
LEMMA ExpectsNext ==
    ASSUME NEW e \in Nat, Seq16(e) = expect_seqno',
           \A n \in Pending' : e <= n /\ Turns(n) = Turns(e) /\ n <= top' /\ top' <= n + MaxAhead,
           max_seq' # Seq16(top') => e >= top',
           Free' =>
              /\ e <= Playing'.ext /\ Turns(Playing'.ext) = Turns(e) /\ Playing'.ext <= e + MaxAhead + MaxGap
              /\ Playing'.ext <= top' /\ top' <= Playing'.ext + MaxAhead
              /\ \A n \in Pending' : Playing'.ext < n
              /\ \A i \in DOMAIN played' : played'[i].ext <= Playing'.ext,
           ~Free' =>
              /\ \A i \in DOMAIN played' : played'[i].ext < e
              /\ Pending' = {} => top' <= e + MaxAhead /\ Turns(e) <= Turns(top' + 1)
              /\ \A n \in Pending' : (\A m \in Pending' : n <= m) => n <= e + MaxAhead + MaxGap
    PROVE  Expects(e)'
BY DEF Expects, WhilePlaying, BetweenFrames, Turns, Seq16

\* What leaves the network, the frames and what is played alone.
LEMMA OrderedKept ==
    ASSUME Ordered, Pending' = Pending, InFlight' => InFlight, Free' <=> Free, Free => Playing' = Playing,
           UNCHANGED <<top, max_seq, base_seq, packet, buffer, played, expect_seqno, deliver_thread>>
    PROVE  Ordered'
<1> SUFFICES ASSUME base_seq # SEQ_MOD - 1
             PROVE  Sorted' /\ (deliver_thread' # None => \E e \in Nat : Expects(e)')
  BY DEF Ordered
<1>1. Sorted'
  BY DEF Ordered, Sorted
<1>2. ASSUME NEW e \in Nat, Expects(e) PROVE Expects(e)'
  BY <1>2, ExpectsNext DEF Expects, WhilePlaying, BetweenFrames
<1> QED
  BY <1>1, <1>2 DEF Ordered

\* The extended numbers of a state are natural numbers.
LEMMA NumbersTypes ==
    ASSUME PlayInv
    PROVE  /\ top \in Nat /\ packet \in Nat /\ Pending \subseteq Nat
           /\ Free => Playing.ext \in Nat
           /\ played \in Seq(PlayedType) /\ \A i \in DOMAIN played : played[i].ext \in Nat
           /\ buffer \in Seq(Frames) /\ \A i \in DOMAIN buffer : buffer[i] \in Frames /\ buffer[i].ext \in Nat
<1>1. top \in Nat /\ packet \in Nat /\ buffer \in Seq(Frames) /\ played \in Seq(PlayedType)
  BY PacketRange DEF PlayInv, TypeInv, TypeOK, Numbered
<1>2. \A i \in DOMAIN buffer : buffer[i] \in Frames
  BY <1>1, ElementOfSeq, LenProperties
<1>3. \A i \in DOMAIN buffer : buffer[i].ext \in Nat
  BY <1>2, PacketRange DEF Frames
<1>4. \A i \in DOMAIN played : played[i] \in PlayedType
  BY <1>1, ElementOfSeq, LenProperties
<1>5. \A i \in DOMAIN played : played[i].ext \in Nat
  BY <1>4, PacketRange DEF PlayedType
<1>6. Free => Playing.ext \in Nat
  <2>1. Free => Playing \in Frames
    BY DEF Free, Playing, PlayInv, TypeInv, TypeOK
  <2> QED
    BY <2>1, PacketRange DEF Frames
<1> QED
  BY <1>1, <1>2, <1>3, <1>5, <1>6 DEF Pending

\* A packet that is not new is never pending nor stale without reason: the one
\* before the base has the smaller number, in the turn of e.
LEMMA BeforeBase ==
    ASSUME NetworkWindow, PlayInv, Tracked, base_seq # SEQ_MOD - 1, probation = 0,
           NEW e \in Nat, Expects(e), NEW n \in Nat, n + 1 = top, max_seq = Seq16(n)
    PROVE  Stale(n)
<1> USE ModulusLarge, SeqAssumption
<1>1. PICK r \in Seqno, t \in Seqno : r = Seq16(n) /\ t = Seq16(top)
  BY NumbersTypes, ModRange
<1>2. t = IF r + 1 < SEQ_MOD THEN r + 1 ELSE r + 1 - SEQ_MOD
  BY <1>1, Further
<1>3. max_seq # Seq16(top)
  BY <1>1, <1>2 DEF Seqno
<1>4. base_seq = t /\ t # 0 /\ t < SEQ_MOD - 1
  BY <1>1, <1>3 DEF Tracked, Seqno
<1>5. e >= top /\ expect_seqno = Seq16(e) /\ top \in Nat
  BY <1>3, NumbersTypes DEF Expects
<1>6. Turns(top + 1) = Turns(top)
  BY <1>1, <1>4, <1>5, Further DEF Seqno
<1>7. Turns(e) = Turns(top)
  <2>1. CASE Free
    <3>1. e <= Playing.ext /\ Playing.ext <= top /\ Playing.ext \in Nat
      BY <2>1, NumbersTypes DEF Expects, WhilePlaying
    <3> QED
      BY <1>5, <3>1
  <2>2. CASE ~Free /\ Pending = {}
    <3>1. Turns(e) <= Turns(top)
      BY <1>6, <2>2 DEF Expects, BetweenFrames
    <3>2. Turns(top) <= Turns(e)
      BY <1>5, TurnsMonotone
    <3>3. Turns(e) \in Nat /\ Turns(top) \in Nat
      BY <1>5, TurnsRange
    <3>4. PICK u, v : u = Turns(e) /\ v = Turns(top)
      OBVIOUS
    <3> QED
      BY <3>1, <3>2, <3>3, <3>4
  <2>3. CASE Pending # {}
    <3>1. PICK m \in Pending : m \in Nat /\ e <= m /\ m <= top
      BY <2>3, NumbersTypes DEF Expects
    <3> QED
      BY <1>5, <3>1
  <2> QED
    BY <2>1, <2>2, <2>3
<1>8. ~(Seq16(e) < t)
  BY <1>1, <1>5, <1>7, SameTurn
<1>9. Seq16(e) \in Seqno
  BY ModRange
<1> QED
  BY <1>1, <1>2, <1>4, <1>5, <1>8, <1>9 DEF Stale, Seqno

\* A new packet that is not stale is pending in the turn of e, not too far on.
LEMMA NewPending ==
    ASSUME NetworkWindow, PlayInv, NEW e \in Nat, Expects(e), pc_recv = "poll",
           NEW n \in Nat, n > top, n <= top + MaxGap, InTime(n), ~Stale(n)
    PROVE  /\ e <= n /\ Turns(n) = Turns(e)
           /\ Pending = {} /\ ~Free => n <= e + MaxAhead + MaxGap
<1> USE MediaAssumption, SeqAssumption DEF NetworkWindow
<1>1. top \in Nat /\ Pending \subseteq Nat /\ expect_seqno = Seq16(e)
  BY NumbersTypes DEF Expects
<1>2. Seq16(e) \in Nat /\ Seq16(n) \in Nat
  BY ModRange DEF Seqno
<1>3. Seq16(n) >= Seq16(e)
  BY <1>1, <1>2 DEF Stale
<1>4. CASE Free
  <2>1. Playing.ext \in Nat /\ e <= Playing.ext /\ Playing.ext <= e + MaxAhead + MaxGap /\ Playing.ext <= top
    BY <1>4, NumbersTypes DEF Expects, WhilePlaying
  <2>2. n <= Playing.ext + MaxAhead
    BY <1>4 DEF Free, Playing, InTime, PlayInv, TypeInv, TypeOK
  <2>3. e <= n /\ n < e + SEQ_MOD
    BY <1>1, <2>1, <2>2
  <2> QED
    BY <1>3, <1>4, <2>3, WithinATurn
<1>5. CASE ~Free /\ Pending # {}
  <2>1. PICK m \in Pending : \A k \in Pending : m <= k
    BY <1>1, <1>5, Least
  <2>2. m \in Nat /\ e <= m /\ m <= top /\ m <= e + MaxAhead + MaxGap
    BY <1>1, <1>5, <2>1 DEF Expects, BetweenFrames
  <2>3. n <= m + MaxAhead
    BY <2>1 DEF Pending, InFlight, InTime
  <2>4. e <= n /\ n < e + SEQ_MOD
    BY <1>1, <2>2, <2>3
  <2> QED
    BY <1>3, <1>5, <2>4, WithinATurn
<1>6. CASE ~Free /\ Pending = {}
  <2>1. top <= e + MaxAhead /\ Turns(e) <= Turns(top + 1)
    BY <1>6 DEF Expects, BetweenFrames
  <2>2. n <= e + MaxAhead + MaxGap /\ n < e + SEQ_MOD
    BY <1>1, <2>1
  <2>3. e <= n
    <3> SUFFICES ASSUME n < e PROVE FALSE
      OBVIOUS
    <3>1. Turns(top + 1) <= Turns(n) /\ Turns(n) <= Turns(e)
      BY <1>1, TurnsMonotone
    <3>2. Turns(n) = Turns(e)
      <4>1. Turns(top + 1) \in Nat /\ Turns(n) \in Nat /\ Turns(e) \in Nat
        BY <1>1, TurnsRange
      <4> QED
        BY <2>1, <3>1, <4>1
    <3> QED
      BY <1>2, <1>3, <3>2, SameTurn
  <2> QED
    BY <1>3, <2>2, <2>3, WithinATurn
<1> QED
  BY <1>4, <1>5, <1>6

LEMMA PendingInTime ==
    ASSUME PlayInv, pc_recv = "poll", NEW n, InTime(n)
    PROVE  /\ \A m \in Pending : n <= m + MaxAhead
           /\ Free => n <= Playing.ext + MaxAhead
BY DEF Pending, InFlight, InTime, Free, Playing, PlayInv, TypeInv, TypeOK

LEMMA ValidOrdered ==
    ASSUME NetworkWindow, OrderInv, base_seq # SEQ_MOD - 1, probation = 0,
           NEW n \in Packets, RecvValid(n)
    PROVE  Ordered'
<1> USE MediaAssumption
<1>1. NetworkDelivers(n) /\ pc_recv = "poll" /\ n \in Nat /\ top \in Nat /\ InTime(n) /\ ~Stale(n)
  BY Delivered DEF RecvValid, NetworkDelivers, OrderInv
<1>2. PICK e \in Nat : Expects(e)
  BY <1>1 DEF OrderInv, Ordered, Begun
<1>3. n > top /\ n <= top + MaxGap /\ max_seq' = Seq16(n)
  BY <1>1, <1>2, ValidSource, BeforeBase DEF RecvValid, OrderInv
<1>4. top' = n /\ packet' = n /\ pc_recv' = "stall"
      /\ UNCHANGED <<buffer, played, expect_seqno, deliver_thread, pc, hold>>
  BY <1>1, <1>3, Delivered DEF RecvValid, RecvIgnored, memberVars, OrderInv
<1>5. Pending' = Pending \union {n} /\ (Free' <=> Free) /\ Playing' = Playing /\ Pending \subseteq Nat
  BY <1>1, <1>4, NumbersTypes DEF Pending, InFlight, Free, Playing, OrderInv
<1>6. \A m \in Pending : m <= top /\ n <= m + MaxAhead
  BY <1>1, <1>2, PendingInTime DEF Expects, OrderInv
<1>7. /\ e <= n /\ Turns(n) = Turns(e)
      /\ Pending = {} /\ ~Free => n <= e + MaxAhead + MaxGap
  BY <1>1, <1>2, <1>3, NewPending DEF OrderInv
<1>8. Expects(e)'
  <2>1. Seq16(e) = expect_seqno' /\ (max_seq' # Seq16(top') => e >= top')
    BY <1>2, <1>3, <1>4 DEF Expects
  <2>2. \A m \in Pending' : e <= m /\ Turns(m) = Turns(e) /\ m <= top' /\ top' <= m + MaxAhead
    BY <1>1, <1>2, <1>3, <1>4, <1>5, <1>6, <1>7 DEF Expects
  <2>3. Free' =>
              /\ e <= Playing'.ext /\ Turns(Playing'.ext) = Turns(e) /\ Playing'.ext <= e + MaxAhead + MaxGap
              /\ Playing'.ext <= top' /\ top' <= Playing'.ext + MaxAhead
              /\ \A m \in Pending' : Playing'.ext < m
              /\ \A i \in DOMAIN played' : played'[i].ext <= Playing'.ext
    <3>1. Free => n <= Playing.ext + MaxAhead /\ Playing.ext \in Nat
      BY <1>1, PendingInTime, NumbersTypes DEF OrderInv
    <3> QED
      BY <1>1, <1>2, <1>3, <1>4, <1>5, <3>1 DEF Expects, WhilePlaying
  <2>4. ~Free' =>
              /\ \A i \in DOMAIN played' : played'[i].ext < e
              /\ Pending' = {} => top' <= e + MaxAhead /\ Turns(e) <= Turns(top' + 1)
              /\ \A m \in Pending' : (\A k \in Pending' : m <= k) => m <= e + MaxAhead + MaxGap
    <3> SUFFICES ASSUME ~Free
                 PROVE  /\ \A i \in DOMAIN played' : played'[i].ext < e
                        /\ \A m \in Pending' : (\A k \in Pending' : m <= k) => m <= e + MaxAhead + MaxGap
      BY <1>5
    <3>1. \A m \in Pending : m < n
      BY <1>1, <1>3, <1>5, <1>6
    <3> QED
      BY <1>1, <1>2, <1>4, <1>5, <1>7, <3>1 DEF Expects, BetweenFrames
  <2> QED
    BY <2>1, <2>2, <2>3, <2>4, ExpectsNext
<1>9. Sorted'
  <2>1. \A i \in DOMAIN buffer : buffer[i].ext < n
    <3>1. \A i \in DOMAIN buffer : buffer[i].ext \in Pending
      BY DEF Pending
    <3>2. \A m \in Pending : m < n
      BY <1>1, <1>3, <1>5, <1>6
    <3> QED
      BY <3>1, <3>2
  <2> QED
    BY <1>4, <2>1 DEF Sorted, OrderInv, Ordered
<1> QED
  BY <1>8, <1>9 DEF Ordered

LEMMA StaleOrdered ==
    ASSUME NetworkWindow, OrderInv, base_seq # SEQ_MOD - 1, probation = 0,
           NEW n \in Packets, RecvStale(n)
    PROVE  Ordered'
<1> USE MediaAssumption, SeqAssumption DEF NetworkWindow
<1>1. NetworkDelivers(n) /\ pc_recv = "poll" /\ n \in Nat /\ top \in Nat /\ InTime(n) /\ Stale(n)
      /\ top' = IF n > top THEN n ELSE top
  BY Delivered DEF RecvStale, NetworkDelivers, OrderInv
<1>2. PICK e \in Nat : Expects(e)
  BY <1>1 DEF OrderInv, Ordered, Begun
<1>3. UNCHANGED <<buffer, played, packet, pc_recv, expect_seqno, deliver_thread, pc, hold>>
  BY DEF RecvStale, RecvIgnored, memberVars, receiverVars
<1>4. Pending' = Pending /\ (Free' <=> Free) /\ Playing' = Playing /\ Pending \subseteq Nat /\ ~InFlight
  BY <1>1, <1>3, NumbersTypes DEF Pending, InFlight, Free, Playing, OrderInv
<1>5. CASE n + 1 = top
  <2>1. top' = top /\ max_seq' = max_seq /\ base_seq' = base_seq
    BY <1>1, <1>5, ValidSource DEF RecvStale, OrderInv
  <2> QED
    BY <1>3, <1>4, <2>1, OrderedKept DEF InFlight, OrderInv
<1>6. CASE n > top /\ n <= top + MaxGap
  <2>1. top' = n /\ max_seq' = Seq16(n)
    BY <1>1, <1>6, ValidSource DEF RecvStale, OrderInv
  <2>2. Sorted'
    BY <1>3, <1>4, <2>1 DEF Sorted, InFlight, OrderInv, Ordered
  <2>3. \A m \in Pending : m <= n /\ n <= m + MaxAhead
    BY <1>1, <1>2, <1>4, <1>6, PendingInTime DEF Expects, OrderInv
  <2>4. Seq16(n) < Seq16(e) /\ Seq16(e) = expect_seqno'
    BY <1>1, <1>2, <1>3 DEF Stale, Expects
  <2>5. CASE Free
    <3>1. n <= Playing.ext + MaxAhead /\ Playing.ext \in Nat /\ Playing.ext <= n
      BY <1>1, <1>2, <1>6, <2>5, PendingInTime, NumbersTypes, SMTT(100) DEF Expects, WhilePlaying, OrderInv
    <3>2. /\ e <= Playing'.ext /\ Turns(Playing'.ext) = Turns(e) /\ Playing'.ext <= e + MaxAhead + MaxGap
          /\ Playing'.ext <= top' /\ top' <= Playing'.ext + MaxAhead
          /\ \A m \in Pending' : Playing'.ext < m
          /\ \A i \in DOMAIN played' : played'[i].ext <= Playing'.ext
      BY <1>2, <1>3, <1>4, <2>1, <2>5, <3>1 DEF Expects, WhilePlaying
    <3>3. \A m \in Pending' : e <= m /\ Turns(m) = Turns(e) /\ m <= top' /\ top' <= m + MaxAhead
      BY <1>2, <1>4, <2>1, <2>3 DEF Expects
    <3>4. Expects(e)'
      BY <1>4, <2>1, <2>4, <2>5, <3>2, <3>3, ExpectsNext
    <3> QED
      BY <2>2, <3>4 DEF Ordered
  <2>6. CASE ~Free /\ Pending # {}
    <3>1. \A m \in Pending' : e <= m /\ Turns(m) = Turns(e) /\ m <= top' /\ top' <= m + MaxAhead
      BY <1>2, <1>4, <2>1, <2>3 DEF Expects
    <3>2. /\ \A i \in DOMAIN played' : played'[i].ext < e
          /\ \A m \in Pending' : (\A k \in Pending' : m <= k) => m <= e + MaxAhead + MaxGap
      BY <1>2, <1>3, <1>4, <2>6 DEF Expects, BetweenFrames
    <3>3. Expects(e)'
      BY <1>4, <2>1, <2>4, <2>6, <3>1, <3>2, ExpectsNext
    <3> QED
      BY <2>2, <3>3 DEF Ordered
  <2>7. CASE ~Free /\ Pending = {}
    <3>1. top <= e + MaxAhead /\ Turns(e) <= Turns(top + 1) /\ \A i \in DOMAIN played : played[i].ext < e
      BY <1>2, <2>7 DEF Expects, BetweenFrames
    <3>2. /\ Turns(top + 1) <= Turns(n + 1) /\ Turns(n) <= Turns(n + 1)
          /\ Turns(top + 1) \in Nat /\ Turns(n) \in Nat /\ Turns(n + 1) \in Nat /\ Turns(e) \in Nat
      BY <1>1, <1>6, TurnsMonotone, TurnsRange
    <3>3. CASE n <= e
      <4>1. top' <= e + MaxAhead /\ Turns(e) <= Turns(top' + 1)
        <5>1. top' <= e + MaxAhead
          BY <1>1, <2>1, <3>3
        <5>2. PICK a, b, c : a = Turns(e) /\ b = Turns(top + 1) /\ c = Turns(n + 1)
          OBVIOUS
        <5>3. a <= c
          BY <3>1, <3>2, <5>2
        <5>4. Turns(top' + 1) = c
          BY <2>1, <5>2, Zenon
        <5> QED
          BY <5>1, <5>2, <5>3, <5>4, Zenon
      <4>2. Expects(e)'
        BY <1>3, <1>4, <2>1, <2>4, <2>7, <3>1, <4>1, ExpectsNext
      <4> QED
        BY <2>2, <4>2 DEF Ordered
    <3>4. CASE e < n
      <4>1. n <= e + MaxAhead + MaxGap /\ n < e + SEQ_MOD
        BY <1>1, <1>6, <3>1
      <4>2. Turns(n) = Turns(e) + 1
        <5>1. Seq16(n) \in Nat /\ Seq16(e) \in Nat
          BY <1>1, ModRange DEF Seqno
        <5> QED
          BY <1>1, <2>4, <3>4, <4>1, <5>1, WithinATurn
      <4>3. PICK f \in Nat : f = e + SEQ_MOD /\ Seq16(f) = Seq16(e) /\ Turns(f) = Turns(e) + 1
        BY NextTurn
      <4>4. top' <= f + MaxAhead /\ Turns(f) <= Turns(top' + 1)
        BY <1>1, <2>1, <3>2, <4>1, <4>2, <4>3
      <4>5. \A i \in DOMAIN played' : played'[i].ext < f
        <5>1. \A i \in DOMAIN played : played[i].ext \in Nat /\ played[i].ext < e
          BY <3>1, NumbersTypes DEF OrderInv
        <5>2. \A x \in Nat : x < e => x < f
          BY <4>3
        <5> QED
          BY <1>3, <5>1, <5>2
      <4>6. Expects(f)'
        BY <1>4, <2>1, <2>4, <2>7, <4>3, <4>4, <4>5, ExpectsNext
      <4> QED
        BY <2>2, <4>6 DEF Ordered
    <3> QED
      BY <1>1, <3>3, <3>4
  <2> QED
    BY <2>5, <2>6, <2>7
<1> QED
  BY <1>1, <1>5, <1>6, ValidSource DEF RecvStale, OrderInv

LEMMA RefusedOrdered ==
    ASSUME NetworkWindow, OrderInv, probation = 0, NEW n \in Packets, RecvRefused(n)
    PROVE  Ordered'
<1>1. NetworkDelivers(n) /\ n \in Nat /\ top \in Nat /\ top' = IF n > top THEN n ELSE top
  BY Delivered DEF RecvRefused, OrderInv
<1>2. n + 1 = top /\ max_seq' = max_seq /\ base_seq' = base_seq
  BY <1>1, ValidSource DEF RecvRefused, OrderInv
<1>3. top' = top
  BY <1>1, <1>2
<1>4. UNCHANGED <<buffer, played, packet, pc_recv, expect_seqno, deliver_thread, pc, hold>>
  BY DEF RecvRefused, RecvIgnored, memberVars, receiverVars
<1> QED
  BY <1>2, <1>3, <1>4, OrderedKept DEF Pending, InFlight, Free, Playing, OrderInv

LEMMA NetworkOrdered ==
    ASSUME NetworkWindow, OrderInv,
           NEW n \in Packets, RecvRefused(n) \/ RecvStale(n) \/ RecvValid(n)
    PROVE  Ordered'
<1>1. NetworkDelivers(n) /\ probation \in Nat /\ (Valid(Seq16(n)) \/ Refused(Seq16(n)))
  BY SeqAssumption DEF RecvRefused, RecvStale, RecvValid, OrderInv, Tracked
<1>2. CASE probation = 0
  <2>1. base_seq' = base_seq
    BY <1>1, <1>2, ValidSource DEF OrderInv
  <2> QED
    BY <1>2, <2>1, RefusedOrdered, StaleOrdered, ValidOrdered DEF Ordered
<1>3. CASE probation > 0
  <2>1. /\ played' = <<>> /\ buffer' = <<>> /\ deliver_thread' = None
    BY <1>3 DEF RecvRefused, RecvStale, RecvValid, RecvIgnored, memberVars, OrderInv, Begun
  <2>2. InFlight' => packet' = top'
    <3>1. CASE RecvRefused(n)
      BY <1>1, <3>1, Delivered DEF RecvRefused, receiverVars, InFlight, OrderInv
    <3>2. CASE RecvValid(n)
      BY <1>1, <1>3, <3>2, Delivered, InProbation DEF RecvValid, OrderInv
    <3> QED
      BY <1>3, <3>1, <3>2, NetworkBegun DEF OrderInv
  <2> QED
    BY <2>1, <2>2 DEF Ordered, Sorted
<1> QED
  BY <1>1, <1>2, <1>3

\* A pending packet is not stale, nor is the first one.
LEMMA InFlightNotStale ==
    ASSUME OrderInv, base_seq # SEQ_MOD - 1 \/ deliver_thread = None, pc_recv = "stall"
    PROVE  ~Stale(packet)
<1>1. packet \in Nat /\ Seq16(packet) \in Nat
  BY NumbersTypes, ModRange DEF OrderInv, Seqno
<1>2. CASE deliver_thread = None
  BY <1>1, <1>2 DEF Stale, OrderInv, Begun
<1>3. CASE deliver_thread # None
  <2>1. PICK e \in Nat : Expects(e)
    BY <1>3 DEF OrderInv, Ordered
  <2>2. e <= packet /\ Turns(packet) = Turns(e) /\ Seq16(e) = expect_seqno
    BY <2>1 DEF Expects, Pending, InFlight
  <2>3. ~(Seq16(packet) < Seq16(e))
    BY <1>1, <2>2, SameTurn
  <2> QED
    BY <2>2, <2>3 DEF Stale
<1> QED
  BY <1>2, <1>3

LEMMA StallStep ==
    ASSUME OrderInv, RecvStall
    PROVE  Begun' /\ Ordered'
<1>1. /\ pc_recv = "stall" /\ pc_recv' = IF Stale(packet) THEN "poll" ELSE "deliver"
      /\ UNCHANGED <<trackerVars, top, packet, pc, hold, memberVars, buffer, played>>
  BY DEF RecvStall, networkVars
<1>2. Begun'
  BY <1>1, InFlightNotStale DEF OrderInv, Begun, trackerVars, memberVars
<1>3. ASSUME base_seq # SEQ_MOD - 1 PROVE Ordered'
  <2>1. pc_recv' = "deliver"
    BY <1>1, <1>3, InFlightNotStale
  <2> QED
    BY <1>1, <2>1, OrderedKept DEF OrderInv, Pending, InFlight, Free, Playing, trackerVars, memberVars
<1> QED
  BY <1>1, <1>2, <1>3 DEF Ordered, trackerVars

LEMMA DeliverStep ==
    ASSUME OrderInv, RecvDeliver
    PROVE  Begun' /\ Ordered'
<1> USE MediaAssumption
<1>1. /\ pc_recv = "deliver" /\ pc_recv' = "hold"
      /\ UNCHANGED <<trackerVars, top, packet, hold, buffer, played>>
  BY DEF RecvDeliver, networkVars
<1>2. CASE deliver_thread # None
  <2>1. UNCHANGED <<memberVars, pc>>
    BY <1>2 DEF RecvDeliver
  <2>2. Begun'
    BY <1>1, <1>2, <2>1 DEF OrderInv, Begun, trackerVars, memberVars
  <2> QED
    BY <1>1, <2>1, <2>2, OrderedKept DEF OrderInv, Pending, InFlight, Free, Playing, trackerVars, memberVars
<1>3. CASE deliver_thread = None
  <2>1. PICK d \in DeliveryThreads : /\ deliver_thread' = d /\ pc' = [pc EXCEPT ![d] = "start"]
                                     /\ expect_seqno' = Seq16(packet)
    BY <1>3 DEF RecvDeliver
  <2>2. played = <<>> /\ buffer = <<>> /\ (probation = 0 => packet = top) /\ probation = 0
    BY <1>1, <1>3, SeqAssumption DEF OrderInv, Begun, Tracked
  <2>3. deliver_thread' # None /\ ~Free'
    BY <2>1, ThreadAssumption DEF Free, OrderInv, PlayInv, TypeInv, TypeOK
  <2>4. Begun'
    BY <1>1, <2>2, <2>3 DEF Begun, trackerVars
  <2>5. packet \in Nat /\ top = packet /\ Pending' = {packet}
    BY <1>1, <2>2, NumbersTypes DEF OrderInv, Pending, InFlight
  <2>6. Expects(packet)'
    <3>1. PICK e \in Nat : e = packet
      BY <2>5
    <3>2. Expects(e)'
      BY <1>1, <2>1, <2>2, <2>3, <2>5, <3>1, ExpectsNext
    <3> QED
      BY <1>1, <3>1, <3>2 DEF Expects, WhilePlaying, BetweenFrames, Turns, Seq16
  <2>7. Sorted'
    BY <1>1, <2>2, <2>5 DEF Sorted
  <2> QED
    BY <1>1, <2>4, <2>5, <2>6, <2>7 DEF Ordered
<1> QED
  BY <1>2, <1>3

\* The packet in flight goes to the end of the buffer.
LEMMA HoldAppends ==
    ASSUME OrderInv, base_seq # SEQ_MOD - 1, RecvHold
    PROVE  /\ Len(buffer') = Len(buffer) + 1 /\ DOMAIN buffer' = 1 .. Len(buffer) + 1
           /\ DOMAIN buffer = 1 .. Len(buffer) /\ Len(buffer) \in Nat
           /\ \A i \in 1 .. Len(buffer) : buffer'[i] = buffer[i]
           /\ buffer'[Len(buffer) + 1].ext = packet
<1>1. pc_recv = "hold" /\ frames_left = 1 /\ deliver_thread # None
  BY SeqAssumption DEF RecvHold, OrderInv, PlayInv, OneFrameEach, Begun, Tracked
<1>2. PICK f \in Frames : f = Frame(packet, TRUE) /\ f.ext = packet /\ f.seqno = Seq16(packet)
  BY FrameType DEF OrderInv, PlayInv, TypeInv, TypeOK, Frame
<1>3. /\ buffer \in Seq(Frames) /\ buffer' = AddOnceAscent(buffer, f)
      /\ DOMAIN buffer = 1 .. Len(buffer) /\ Len(buffer) \in Nat
  BY <1>1, <1>2, LenProperties DEF RecvHold, OrderInv, PlayInv, TypeInv, TypeOK
<1>4. PICK e \in Nat : Expects(e)
  BY <1>1 DEF OrderInv, Ordered
<1>5. ASSUME NEW i \in DOMAIN buffer PROVE ~(buffer[i].seqno >= f.seqno)
  <2>1. PICK b \in Nat : b = buffer[i].ext /\ buffer[i].seqno = Seq16(b)
    BY NumbersTypes DEF OrderInv, PlayInv, OneFrameEach, Whole
  <2>2. packet \in Nat /\ b < packet
    BY <1>1, <2>1, NumbersTypes DEF OrderInv, Ordered, Sorted, InFlight
  <2>3. b \in Pending /\ packet \in Pending
    BY <1>1, <2>1 DEF Pending, InFlight
  <2>4. Turns(b) = Turns(packet)
    BY <1>4, <2>3 DEF Expects
  <2>5. Seq16(b) < Seq16(packet)
    BY <2>1, <2>2, <2>4, SameTurn
  <2>6. PICK r \in Nat, t \in Nat : r = Seq16(b) /\ t = Seq16(packet)
    BY <2>1, <2>2, ModRange DEF Seqno
  <2>7. buffer[i].seqno = r /\ f.seqno = t /\ r < t
    BY <1>2, <2>1, <2>5, <2>6
  <2> QED
    BY <2>7
<1>6. AscentPlace(buffer, f) = Len(buffer) + 1
  BY <1>3, <1>5, PlaceInBuffer
<1>7. PICK k \in Nat : k = Len(buffer) + 1 /\ k \in 1 .. Len(buffer) + 1 /\ buffer' = InsertAt(buffer, k, f)
  BY <1>3, <1>6 DEF AddOnceAscent
<1>8. /\ InsertAt(buffer, k, f) \in Seq(Frames)
      /\ Len(InsertAt(buffer, k, f)) = Len(buffer) + 1
      /\ \A i \in 1 .. Len(buffer) + 1 :
            InsertAt(buffer, k, f)[i] = IF i < k THEN buffer[i] ELSE IF i = k THEN f ELSE buffer[i - 1]
  BY <1>3, <1>7, InsertType
<1>9. Len(buffer') = Len(buffer) + 1 /\ DOMAIN buffer' = 1 .. Len(buffer) + 1
  BY <1>7, <1>8, LenProperties
<1>10. \A i \in 1 .. Len(buffer) : buffer'[i] = buffer[i]
  BY <1>3, <1>7, <1>8
<1>11. buffer'[k] = f
  BY <1>3, <1>7, <1>8
<1> QED
  BY <1>2, <1>3, <1>7, <1>9, <1>10, <1>11

LEMMA HoldStep ==
    ASSUME OrderInv, RecvHold
    PROVE  Begun' /\ Ordered'
<1>1. /\ pc_recv = "hold" /\ pc_recv' = "signal"
      /\ UNCHANGED <<trackerVars, top, packet, pc, hold, memberVars, played>>
  BY DEF RecvHold, networkVars
<1>2. deliver_thread # None /\ probation = 0
  BY <1>1, SeqAssumption DEF OrderInv, Begun, Tracked
<1>3. Begun'
  BY <1>1, <1>2 DEF Begun, trackerVars, memberVars
<1>4. ASSUME base_seq # SEQ_MOD - 1 PROVE Ordered'
  <2>1. /\ Len(buffer') = Len(buffer) + 1 /\ DOMAIN buffer' = 1 .. Len(buffer) + 1
        /\ DOMAIN buffer = 1 .. Len(buffer) /\ Len(buffer) \in Nat
        /\ \A i \in 1 .. Len(buffer) : buffer'[i] = buffer[i]
        /\ buffer'[Len(buffer) + 1].ext = packet
    BY <1>4, HoldAppends
  <2>2. Pending' = Pending
    <3>1. {buffer'[i].ext : i \in DOMAIN buffer'} = {buffer[i].ext : i \in DOMAIN buffer} \union {packet}
      BY <2>1
    <3> QED
      BY <1>1, <3>1 DEF Pending, InFlight
  <2>3. Sorted /\ \A i \in DOMAIN buffer : buffer[i].ext < packet
    BY <1>1, <1>4 DEF OrderInv, Ordered, Sorted, InFlight
  <2>4. Sorted'
    BY <1>1, <2>1, <2>3 DEF Sorted, InFlight
  <2>5. PICK e \in Nat : Expects(e)
    BY <1>2, <1>4 DEF OrderInv, Ordered
  <2>6. (Free' <=> Free) /\ Playing' = Playing /\ UNCHANGED <<top, max_seq, expect_seqno, played>>
    BY <1>1 DEF Free, Playing, trackerVars, memberVars
  <2>7. Expects(e)'
    BY <2>2, <2>5, <2>6, ExpectsNext DEF Expects, WhilePlaying, BetweenFrames
  <2> QED
    BY <2>4, <2>7 DEF Ordered
<1> QED
  BY <1>1, <1>3, <1>4 DEF Ordered, trackerVars

\* The first frame of the buffer is the least of what is pending.
LEMMA HeadIsLeast ==
    ASSUME OrderInv, base_seq # SEQ_MOD - 1, buffer # <<>>
    PROVE  /\ buffer[1].ext \in Pending /\ Head(buffer) = buffer[1] /\ buffer[1].ext \in Nat
           /\ \A n \in Pending : buffer[1].ext <= n
           /\ DOMAIN buffer = 1 .. Len(buffer) /\ Len(buffer) \in Nat \ {0}
           /\ DOMAIN Tail(buffer) = 1 .. Len(buffer) - 1
           /\ \A i \in 1 .. Len(buffer) - 1 : Tail(buffer)[i] = buffer[i + 1]
<1>1. buffer \in Seq(Frames) /\ Sorted
  BY NumbersTypes, SeqAssumption DEF OrderInv, Ordered
<1>2. DOMAIN buffer = 1 .. Len(buffer) /\ Len(buffer) \in Nat \ {0}
  BY <1>1, LenProperties, EmptySeq
<1>3. /\ DOMAIN Tail(buffer) = 1 .. Len(buffer) - 1
      /\ \A i \in 1 .. Len(buffer) - 1 : Tail(buffer)[i] = buffer[i + 1]
  BY <1>1, <1>2, HeadTailProperties, LenProperties
<1>4. 1 \in DOMAIN buffer /\ \A i \in DOMAIN buffer : i = 1 \/ 1 < i
  BY <1>2
<1>5. \A i \in DOMAIN buffer : buffer[i].ext \in Nat
  BY NumbersTypes DEF OrderInv
<1>6. \A i \in DOMAIN buffer : buffer[1].ext <= buffer[i].ext
  BY <1>1, <1>4, <1>5 DEF Sorted
<1>7. InFlight => buffer[1].ext <= packet
  BY <1>1, <1>4, <1>5, NumbersTypes DEF Sorted, OrderInv
<1>8. Head(buffer) = buffer[1] /\ buffer[1].ext \in Pending
  BY <1>4 DEF Pending
<1> QED
  BY <1>2, <1>3, <1>4, <1>5, <1>6, <1>7, <1>8 DEF Pending

LEMMA PlayOrdered ==
    ASSUME OrderInv, NEW d \in DeliveryThreads, d = deliver_thread, DeliverPlay(d)
    PROVE  Ordered'
<1> SUFFICES ASSUME base_seq # SEQ_MOD - 1
             PROVE  Sorted' /\ \E e \in Nat : Expects(e)'
  BY DEF Ordered, DeliverPlay, DeliveryKeeps, trackerVars
<1> USE MediaAssumption
<1>1. /\ buffer # <<>> /\ pc[d] = "check" /\ buffer' = Tail(buffer)
      /\ played' = Append(played, [ext |-> Head(buffer).ext, packetno |-> packetno'])
      /\ hold' = [hold EXCEPT ![d] = Head(buffer)] /\ pc' = [pc EXCEPT ![d] = "free"]
      /\ UNCHANGED <<deliver_thread, expect_seqno, top, max_seq, packet, pc_recv>>
  BY DEF DeliverPlay, DeliveryKeeps, trackerVars, networkVars, receiverVars
<1>2. PICK h \in Nat : h = buffer[1].ext /\ h = Head(buffer).ext /\ h \in Pending /\ \A n \in Pending : h <= n
  BY <1>1, HeadIsLeast
<1>3. /\ DOMAIN buffer = 1 .. Len(buffer) /\ Len(buffer) \in Nat \ {0}
      /\ DOMAIN buffer' = 1 .. Len(buffer) - 1
      /\ \A i \in 1 .. Len(buffer) - 1 : buffer'[i] = buffer[i + 1]
      /\ Head(buffer) = buffer[1]
  BY <1>1, HeadIsLeast
<1>4. ~Free /\ Free' /\ Playing'.ext = h
  BY <1>1, <1>2, ThreadAssumption DEF Free, Playing, OrderInv, PlayInv, TypeInv, TypeOK
<1>5. PICK e \in Nat : Expects(e)
  BY ThreadAssumption DEF OrderInv, Ordered
<1>6. Sorted
  BY DEF OrderInv, Ordered
<1>7. \A n \in Pending' : n \in Pending /\ h < n
  <2>1. ASSUME NEW i \in DOMAIN buffer' PROVE buffer'[i].ext \in Pending /\ h < buffer'[i].ext
    <3>1. i + 1 \in DOMAIN buffer /\ 1 \in DOMAIN buffer /\ 1 < i + 1 /\ buffer'[i] = buffer[i + 1]
      BY <1>3
    <3> QED
      BY <1>2, <1>6, <3>1 DEF Sorted, Pending
  <2>2. InFlight => packet \in Pending /\ h < packet
    BY <1>2, <1>3, <1>6 DEF Sorted, Pending
  <2>3. InFlight' <=> InFlight
    BY <1>1 DEF InFlight
  <2> QED
    BY <1>1, <2>1, <2>2, <2>3 DEF Pending
<1>8. /\ played \in Seq(PlayedType) /\ \A i \in DOMAIN played : played[i].ext \in Nat /\ played[i].ext < e
      /\ DOMAIN played = 1 .. Len(played) /\ Len(played) \in Nat
  <2>1. \A i \in DOMAIN played : played[i].ext < e
    BY <1>4, <1>5 DEF Expects, BetweenFrames
  <2> QED
    BY <2>1, NumbersTypes, LenProperties DEF OrderInv
<1>9. /\ e <= h /\ Turns(h) = Turns(e) /\ h <= top /\ top <= h + MaxAhead /\ h <= e + MaxAhead + MaxGap
      /\ Seq16(e) = expect_seqno /\ (max_seq # Seq16(top) => e >= top)
  BY <1>2, <1>4, <1>5 DEF Expects, BetweenFrames
<1>10. PICK f \in PlayedType : f.ext = h /\ played' = Append(played, f)
  <2>1. packetno' \in Nat /\ h \in Packets
    BY <1>1, <1>2, HeadOfBuffer DEF DeliverPlay, OrderInv, PlayInv, TypeInv, TypeOK
  <2>2. [ext |-> h, packetno |-> packetno'] \in PlayedType
    BY <2>1 DEF PlayedType
  <2> QED
    BY <1>1, <1>2, <2>2
<1>11. /\ DOMAIN played' = 1 .. Len(played) + 1
       /\ \A i \in 1 .. Len(played) : played'[i] = played[i]
       /\ played'[Len(played) + 1].ext = h
  BY <1>8, <1>10, AppendProperties, LenProperties
<1>12. Sorted'
  <2>1. \A i, j \in DOMAIN buffer' : i < j => buffer'[i].ext < buffer'[j].ext
    <3> SUFFICES ASSUME NEW i \in DOMAIN buffer', NEW j \in DOMAIN buffer', i < j
                 PROVE  buffer'[i].ext < buffer'[j].ext
      OBVIOUS
    <3>1. i + 1 \in DOMAIN buffer /\ j + 1 \in DOMAIN buffer /\ i + 1 < j + 1
          /\ buffer'[i] = buffer[i + 1] /\ buffer'[j] = buffer[j + 1]
      BY <1>3
    <3> QED
      BY <1>6, <3>1 DEF Sorted
  <2>2. InFlight' => packet' = top' /\ \A i \in DOMAIN buffer' : buffer'[i].ext < packet'
    <3> SUFFICES ASSUME InFlight
                 PROVE  packet = top /\ \A i \in DOMAIN buffer' : buffer'[i].ext < packet
      BY <1>1 DEF InFlight
    <3>1. ASSUME NEW i \in DOMAIN buffer' PROVE buffer'[i].ext < packet
      <4>1. i + 1 \in DOMAIN buffer /\ buffer'[i] = buffer[i + 1]
        BY <1>3
      <4> QED
        BY <1>6, <4>1 DEF Sorted
    <3> QED
      BY <1>6, <3>1 DEF Sorted
  <2>3. \A i, j \in DOMAIN played' : i < j => played'[i].ext < played'[j].ext
    <3> SUFFICES ASSUME NEW i \in DOMAIN played', NEW j \in DOMAIN played', i < j
                 PROVE  played'[i].ext < played'[j].ext
      OBVIOUS
    <3>1. i \in DOMAIN played /\ played'[i] = played[i]
      BY <1>8, <1>11
    <3>2. CASE j <= Len(played)
      <4>1. j \in DOMAIN played /\ played'[j] = played[j]
        BY <1>8, <1>11, <3>2
      <4> QED
        BY <1>6, <3>1, <4>1 DEF Sorted
    <3>3. CASE j = Len(played) + 1
      <4>1. played[i].ext \in Nat /\ played[i].ext < e /\ played'[j].ext = h
        BY <1>8, <1>11, <3>1, <3>3
      <4> QED
        BY <1>9, <3>1, <4>1
    <3> QED
      BY <1>8, <1>11, <3>2, <3>3
  <2> QED
    BY <2>1, <2>2, <2>3 DEF Sorted
<1>13. \A i \in DOMAIN played' : played'[i].ext <= h
  <2> SUFFICES ASSUME NEW i \in DOMAIN played' PROVE played'[i].ext <= h
    OBVIOUS
  <2>1. CASE i = Len(played) + 1
    BY <1>11, <2>1
  <2>2. CASE i # Len(played) + 1
    <3>1. i \in DOMAIN played /\ played'[i] = played[i]
      BY <1>8, <1>11, <2>2
    <3>2. played[i].ext \in Nat /\ played[i].ext < e
      BY <1>8, <3>1
    <3> QED
      BY <1>9, <3>1, <3>2
  <2> QED
    BY <2>1, <2>2
<1>14. Expects(e)'
  <2>1. \A n \in Pending' : e <= n /\ Turns(n) = Turns(e) /\ n <= top' /\ top' <= n + MaxAhead
    BY <1>1, <1>5, <1>7 DEF Expects
  <2> QED
    BY <1>1, <1>4, <1>7, <1>9, <1>13, <2>1, ExpectsNext
<1> QED
  BY <1>12, <1>14

LEMMA FreeOrdered ==
    ASSUME OrderInv, NEW d \in DeliveryThreads, d = deliver_thread, DeliverFree(d)
    PROVE  Ordered'
<1> SUFFICES ASSUME base_seq # SEQ_MOD - 1
             PROVE  Sorted' /\ \E e \in Nat : Expects(e)'
  BY DEF Ordered, DeliverFree, DeliveryKeeps, trackerVars
<1> USE MediaAssumption
<1>1. /\ pc[d] = "free" /\ pc' = [pc EXCEPT ![d] = "lock"]
      /\ expect_seqno' = IF hold[d].full_payload THEN SeqNext(hold[d].seqno) ELSE expect_seqno
      /\ UNCHANGED <<hold, deliver_thread, buffer, played, top, max_seq, packet, pc_recv>>
  BY DEF DeliverFree, DeliveryKeeps, trackerVars, networkVars, receiverVars
<1>2. Free /\ ~Free' /\ Playing = hold[d] /\ Whole(Playing)
  BY <1>1, ThreadAssumption DEF Free, Playing, OrderInv, PlayInv, OneFrameEach, TypeInv, TypeOK
<1>3. PICK h \in Nat : h = Playing.ext
  BY <1>2, NumbersTypes DEF OrderInv
<1>4. expect_seqno' = Seq16(h + 1)
  BY <1>1, <1>2, <1>3, NextOf DEF Whole
<1>5. PICK e \in Nat : Expects(e)
  BY ThreadAssumption DEF OrderInv, Ordered
<1>6. /\ e <= h /\ Turns(h) = Turns(e) /\ h <= top /\ top <= h + MaxAhead
      /\ \A n \in Pending : h < n
      /\ \A i \in DOMAIN played : played[i].ext <= h
      /\ \A n \in Pending : e <= n /\ Turns(n) = Turns(e) /\ n <= top /\ top <= n + MaxAhead
      /\ max_seq # Seq16(top) => e >= top
  BY <1>2, <1>3, <1>5 DEF Expects, WhilePlaying
<1>7. Pending' = Pending /\ Pending \subseteq Nat /\ top \in Nat
  BY <1>1, NumbersTypes DEF Pending, InFlight, OrderInv
<1>8. PICK f \in Nat : f = h + 1
  BY <1>3
<1>9. \A n \in Pending : f <= n /\ Turns(n) = Turns(f) /\ n <= f + MaxAhead + MaxGap
  <2> SUFFICES ASSUME NEW n \in Pending PROVE f <= n /\ Turns(n) = Turns(f) /\ n <= f + MaxAhead + MaxGap
    OBVIOUS
  <2>1. n \in Nat /\ h < n /\ Turns(n) = Turns(h) /\ n <= top
    BY <1>6, <1>7
  <2>2. f <= n /\ h <= f /\ n <= f + MaxAhead + MaxGap
    BY <1>6, <1>7, <1>8, <2>1
  <2>3. Turns(h) <= Turns(f) /\ Turns(f) <= Turns(n)
    BY <2>1, <2>2, TurnsMonotone
  <2> QED
    BY <2>1, <2>2, <2>3, TurnsRange
<1>10. top <= f + MaxAhead /\ Turns(f) <= Turns(top + 1)
  BY <1>6, <1>7, <1>8, TurnsMonotone
<1>11. \A i \in DOMAIN played : played[i].ext < f
  <2>1. \A i \in DOMAIN played : played[i].ext \in Nat /\ played[i].ext <= h
    BY <1>6, NumbersTypes DEF OrderInv
  <2>2. \A x \in Nat : x <= h => x < f
    BY <1>8
  <2> QED
    BY <2>1, <2>2
<1>12. max_seq # Seq16(top) => f >= top
  BY <1>6, <1>7, <1>8
<1>13. Expects(f)'
  BY <1>1, <1>2, <1>4, <1>6, <1>7, <1>8, <1>9, <1>10, <1>11, <1>12, ExpectsNext
<1>14. Sorted'
  BY <1>1 DEF Sorted, InFlight, OrderInv, Ordered
<1> QED
  BY <1>13, <1>14

LEMMA TrackedKept == ASSUME Tracked, UNCHANGED <<trackerVars, top>> PROVE Tracked'
BY DEF Tracked, trackerVars, Seq16

LEMMA BegunKept ==
    ASSUME Begun, UNCHANGED <<trackerVars, top, packet, pc_recv, buffer, played, expect_seqno, deliver_thread>>
    PROVE  Begun'
BY DEF Begun, trackerVars

LEMMA DeliveryOrdered ==
    ASSUME OrderInv, NEW d \in DeliveryThreads, DeliveryStep(d)
    PROVE  Begun' /\ Ordered'
<1>1. d = deliver_thread /\ deliver_thread # None
  BY ThreadAssumption DEF OrderInv, PlayInv, Alone, DeliveryStep, DeliverStart, DeliverLock, DeliverStop,
     DeliverWaitMedia, DeliverMediaAvailable, DeliverPlay, DeliverFree, DeliverWaitSeqno, DeliverSeqno, DeliverExit
<1>2. /\ deliver_thread' = deliver_thread
      /\ UNCHANGED <<trackerVars, top, packet, pc_recv>>
  BY DEF OrderInv, PlayInv, Alone, DeliveryStep, DeliverStart, DeliverLock, DeliverStop,
     DeliverWaitMedia, DeliverMediaAvailable, DeliverPlay, DeliverFree, DeliverWaitSeqno, DeliverSeqno, DeliverExit,
     DeliveryKeeps, memberVars, networkVars, receiverVars
<1>3. Begun'
  BY <1>1, <1>2 DEF OrderInv, Begun, trackerVars
<1>4. CASE ~DeliverPlay(d) /\ ~DeliverFree(d)
  <2>1. ~Free /\ UNCHANGED <<buffer, played, expect_seqno>>
    BY <1>1, <1>4 DEF Free, OrderInv, PlayInv, Alone, DeliveryStep, DeliverStart, DeliverLock, DeliverStop,
       DeliverWaitMedia, DeliverMediaAvailable, DeliverWaitSeqno, DeliverSeqno, DeliverExit, memberVars
  <2>2. ~Free'
    BY <1>1, <1>2, <1>4 DEF Free, DeliveryStep, DeliverStart, DeliverLock, DeliverStop, DeliverWaitMedia,
       DeliverMediaAvailable, DeliverWaitSeqno, DeliverSeqno, DeliverExit, OrderInv, PlayInv, TypeInv, TypeOK
  <2> QED
    BY <1>2, <1>3, <2>1, <2>2, OrderedKept DEF OrderInv, Pending, InFlight, trackerVars
<1> QED
  BY <1>1, <1>3, <1>4, PlayOrdered, FreeOrdered

LEMMA OrderStep ==
    ASSUME Bundles = {}, MaxMoves = 0, NetworkWindow, OrderInv, [Next]_vars
    PROVE  OrderInv'
<1>1. PlayInv'
  BY PlayStep DEF OrderInv
<1>2. ASSUME NEW n \in Packets, RecvRefused(n) \/ RecvStale(n) \/ RecvValid(n) PROVE OrderInv'
  <2>1. NetworkDelivers(n) /\ (Valid(Seq16(n)) \/ Refused(Seq16(n)))
    BY <1>2 DEF RecvRefused, RecvStale, RecvValid
  <2> QED
    BY <1>1, <1>2, <2>1, NetworkTracked, NetworkBegun, NetworkOrdered DEF OrderInv
<1>3. CASE RecvStall
  BY <1>1, <1>3, StallStep, TrackedKept DEF OrderInv, RecvStall, networkVars
<1>4. CASE RecvDeliver
  BY <1>1, <1>4, DeliverStep, TrackedKept DEF OrderInv, RecvDeliver, networkVars
<1>5. CASE RecvHold
  BY <1>1, <1>5, HoldStep, TrackedKept DEF OrderInv, RecvHold, networkVars
<1>6. CASE RecvSignal
  <2>1. /\ pc_recv = "signal" /\ pc_recv' = "poll"
        /\ UNCHANGED <<trackerVars, top, packet, pc, hold, memberVars, buffer, played>>
    BY <1>6 DEF RecvSignal, networkVars, OrderInv, PlayInv, OneFrameEach
  <2>2. Begun'
    BY <2>1, SeqAssumption DEF OrderInv, Begun, Tracked, trackerVars, memberVars
  <2>3. Ordered'
    BY <2>1, OrderedKept DEF OrderInv, Pending, InFlight, Free, Playing, trackerVars, memberVars
  <2> QED
    BY <1>1, <2>1, <2>2, <2>3, TrackedKept DEF OrderInv
<1>7. ASSUME NEW d \in DeliveryThreads, DeliveryStep(d) PROVE OrderInv'
  <2>1. UNCHANGED <<trackerVars, top>>
    BY <1>7 DEF DeliveryStep, DeliverStart, DeliverLock, DeliverStop, DeliverWaitMedia, DeliverMediaAvailable,
       DeliverPlay, DeliverFree, DeliverWaitSeqno, DeliverSeqno, DeliverExit, DeliveryKeeps, networkVars
  <2> QED
    BY <1>1, <1>7, <2>1, DeliveryOrdered, TrackedKept DEF OrderInv
<1>8. ASSUME UNCHANGED <<trackerVars, networkVars, receiverVars, pc, hold, memberVars, buffer, played>>
      PROVE  OrderInv'
  BY <1>1, <1>8, OrderedKept, TrackedKept, BegunKept
  DEF OrderInv, Pending, InFlight, Free, Playing, trackerVars, networkVars, receiverVars, memberVars
<1>9. ASSUME NEW n \in Packets, TimePasses(n) PROVE OrderInv'
  BY <1>8, <1>9 DEF TimePasses, DeliveryKeeps
<1>10. ~ControllerStep
  BY DEF ControllerStep, MoveRemove, MoveStop, MoveWait, MoveJoined, MoveReset, MoveAdd, OrderInv, PlayInv, Alone
<1>11. CASE UNCHANGED vars
  BY <1>8, <1>11 DEF vars
<1> QED
  BY <1>2, <1>3, <1>4, <1>5, <1>6, <1>7, <1>9, <1>10, <1>11 DEF Next, ReceiverStep

LEMMA OrderInit == Init => OrderInv
<1> SUFFICES ASSUME Init PROVE OrderInv
  OBVIOUS
<1>1. Tracked
  BY SeqAssumption DEF Init, TrackerInit, Tracked, Seqno
<1>2. Begun
  BY SeqAssumption DEF Init, TrackerInit, Begun
<1>3. Ordered
  BY DEF Init, Ordered, Sorted, InFlight
<1> QED
  BY <1>1, <1>2, <1>3, PlayInit DEF OrderInv

(***************************************************************************)
(* The player gets the frames in the order the source sent them and each   *)
(* once, for every modulus, number of packets and of old packets, however  *)
(* often the numbers wrap: expect_seqno, 16 bits of the code that says     *)
(* nothing of turns, always separates what was played from what is held or *)
(* in the receiver's hands.                                                *)
(***************************************************************************)
THEOREM FramesPlayedInOrder ==
    ASSUME MaxMoves = 0, Bundles = {}, NetworkWindow
    PROVE  Spec => []PlayedInOrder
<1>1. OrderInv /\ [Next]_vars => OrderInv'
  BY OrderStep
<1>2. OrderInv => PlayedInOrder
  BY DEF OrderInv, Ordered, Sorted, PlayedInOrder
<1> QED
  BY <1>1, <1>2, OrderInit, PTL DEF Spec

=============================================================================
