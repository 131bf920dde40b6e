------------------------- MODULE RtcpPacketsProofs -------------------------
(***************************************************************************)
(* Proofs about a compound packet, for any cname, any data of an APP and   *)
(* any number of guests.  Every packet is a whole number of words when it  *)
(* is packed (PacketsWhole); what is packed fills the buffer and the       *)
(* lengths in the heads lead from packet to packet (PackedAsCounted); the  *)
(* reader looks for heads where packets begin (ScansOnHeads) and finds     *)
(* what was sent (ReadsAsSent).                                            *)
(*                                                                         *)
(* The inductive invariant CompoundInv has four parts, each inductive      *)
(* given the ones before: BuiltInv (the types and paddings of the heads),  *)
(* ShapeInv (which packets there are at each call), PackInv (every packet  *)
(* lies in the wire at its offset) and ReadInv (what was read is the first *)
(* part of what was sent, and where the reader may stand).  The folds that *)
(* count and concatenate are dealt with by an induction of their own each, *)
(* from the least element of a set of naturals (MinIn).                    *)
(***************************************************************************)
EXTENDS RtcpPackets, WellFoundedInduction, SequenceTheorems, TLAPS

Packets == PacketsOf(SR) \cup PacketsOf(RR) \cup PacketsOf(SDES) \cup PacketsOf(APP)

\* A packet of whole words, or the SDES whose chunk is about to be ended.
Whole(p) == p.bytes % 4 = 0 \/ (p.type = SDES /\ pc = "end")

\* The inductive invariant: between two compounds there is no packet, and in
\* one the first packet is the report that is added to.
BuiltInv ==
    /\ heads \in Seq(Packets)
    /\ pc = "new" => heads = <<>>
    /\ pc # "new" => Len(heads) > 0 /\ heads[1].type \in {SR, RR}
    /\ \A i \in DOMAIN heads : Whole(heads[i])

-----------------------------------------------------------------------------
(* The inputs                                                              *)

LEMMA Inputs ==
    /\ \A len \in AppLens : len \in Nat /\ len >= 16 /\ len <= 196621
    /\ \A len \in CnameLens : len \in Nat /\ len <= 255
    /\ \A ts \in Stamps : ts \in Nat /\ ts <= 255
  BY PacketAssumption

-----------------------------------------------------------------------------
(* The padding of a chunk and of an APP                                    *)

\* Padding 1 to 4 bytes gives a multiple of 4 (rtcp_end_sdes).
LEMMA PadToWord ==
    ASSUME NEW b \in Nat
    PROVE  /\ 4 - (b % 4) \in 1..4
           /\ b + 4 - (b % 4) \in Nat
           /\ (b + 4 - (b % 4)) % 4 = 0
  OBVIOUS

\* Padding the data only when needed does too (rtcp_new_app).
LEMMA PadData ==
    ASSUME NEW n \in Nat,
           NEW npad, npad = IF n % 4 = 0 THEN 0 ELSE 4 - (n % 4)
    PROVE  /\ npad \in 0..3
           /\ (12 + n + npad) % 4 = 0
  OBVIOUS

LEMMA WordAdded ==
    ASSUME NEW b \in Nat, b % 4 = 0
    PROVE  (b + REPORT_BYTE) % 4 = 0
  BY DEF REPORT_BYTE

-----------------------------------------------------------------------------
(* What is put into the packets                                            *)

LEMMA ReportTyped ==
    ASSUME NEW i \in Nat
    PROVE  ReportOf(i) \in Report
<1>1. GuestSsrc(i) \in Nat /\ (9 * i) % 256 \in Nat /\ 300 * i \in Nat
  BY DEF GuestSsrc
<1>2. <<65536 + i, i, 77 * i, 131072 * i>> \in Seq(Nat)
  OBVIOUS
<1> QED
  BY <1>1, <1>2 DEF ReportOf, Report

LEMMA TextTyped ==
    ASSUME NEW len \in Nat
    PROVE  Text(len) \in Seq(0..255) /\ Text(len) \in Seq(Nat)
<1>1. \A k \in 1..len : 97 + (k % 26) \in 0..255
  OBVIOUS
<1> QED
  BY <1>1 DEF Text

LEMMA AppDataTyped ==
    ASSUME NEW len \in AppLens, NEW ts \in Stamps
    PROVE  AppData(len, ts) \in Seq(0..255)
<1>1. len \in Nat /\ len >= 16 /\ ts \in 0..255
  BY Inputs
<1>2. Text(len - 16) \in Seq(0..255)
  BY <1>1, TextTyped
<1>3. ts - (ts % 16) \in 0..255 /\ ts % 16 \in 0..255
  BY <1>1
<1> DEFINE front == <<0, 0, ts - (ts % 16), ts % 16, 255, 255, 255, 255,
                      224, 1, 0, 30, 0, 9, 1, 0>>
<1>4. front \in Seq(0..255)
  BY <1>3
<1>5. front \o Text(len - 16) \in Seq(0..255)
  BY <1>2, <1>4
<1> QED
  BY <1>5 DEF AppData

-----------------------------------------------------------------------------
(* New packets, and packets changed                                        *)

\* Every packet is one of the set of its own type.
LEMMA TypeOfPacket ==
    ASSUME NEW p \in Packets
    PROVE  p \in PacketsOf(p.type) /\ p.type \in {SR, RR, SDES, APP} /\ p.bytes \in Nat
  BY DEF Packets, PacketsOf

LEMMA PacketTyped ==
    ASSUME NEW type \in {SR, RR, SDES, APP}, NEW padding \in {0, 1}, NEW size \in Nat,
           NEW ssrc \in Nat, NEW body \in BodiesOf(type)
    PROVE  /\ Packet(type, padding, size, ssrc, body) \in Packets
           /\ Packet(type, padding, size, ssrc, body).type = type
           /\ Packet(type, padding, size, ssrc, body).bytes = size
<1>1. <<>> \in Seq(Nat)
  OBVIOUS
<1>2. Packet(type, padding, size, ssrc, body) \in PacketsOf(type)
  BY <1>1 DEF Packet, PacketsOf
<1> QED
  BY <1>2 DEF Packet, Packets

\* The body of a report packet is its reports.
LEMMA ReportBody ==
    ASSUME NEW p \in Packets, p.type \in {SR, RR}
    PROVE  p.body \in Seq(Report)
<1>1. p \in PacketsOf(p.type)
  BY TypeOfPacket
<1>2. BodiesOf(p.type) = Seq(Report)
  BY DEF BodiesOf
<1> QED
  BY <1>1, <1>2 DEF PacketsOf

LEMMA InfoTyped ==
    ASSUME NEW p \in Packets, NEW ssrc \in Nat, NEW info \in Seq(Nat)
    PROVE  /\ [p EXCEPT !.ssrc = ssrc, !.info = info] \in Packets
           /\ [p EXCEPT !.ssrc = ssrc, !.info = info].type = p.type
           /\ [p EXCEPT !.ssrc = ssrc, !.info = info].bytes = p.bytes
<1>1. p \in PacketsOf(p.type) /\ p.type \in {SR, RR, SDES, APP}
  BY TypeOfPacket
<1>2. [p EXCEPT !.ssrc = ssrc, !.info = info] \in PacketsOf(p.type)
  BY <1>1 DEF PacketsOf
<1> QED
  BY <1>1, <1>2 DEF Packets, PacketsOf

\* A packet with other reports.
WithReports(p, body, size) == [p EXCEPT !.body = body, !.bytes = size]

LEMMA ReportAdded ==
    ASSUME NEW p \in Packets, p.type \in {SR, RR},
           NEW body \in Seq(Report), NEW size \in Nat
    PROVE  /\ WithReports(p, body, size) \in Packets
           /\ WithReports(p, body, size).type = p.type
           /\ WithReports(p, body, size).bytes = size
<1>1. p \in PacketsOf(p.type) /\ BodiesOf(p.type) = Seq(Report)
  BY TypeOfPacket DEF BodiesOf
<1>2. WithReports(p, body, size) \in PacketsOf(p.type)
  BY <1>1 DEF PacketsOf, WithReports
<1> QED
  BY <1>1, <1>2 DEF Packets, PacketsOf, WithReports

\* The end of a chunk leaves whole words.
LEMMA EndedTyped ==
    ASSUME NEW p \in Packets
    PROVE  /\ ChunkEnded(p) \in Packets
           /\ ChunkEnded(p).type = p.type
           /\ ChunkEnded(p).bytes % 4 = 0
<1>1. p \in PacketsOf(p.type) /\ p.type \in {SR, RR, SDES, APP} /\ p.bytes \in Nat
  BY TypeOfPacket
<1>2. /\ 4 - (p.bytes % 4) \in 0..4
      /\ p.bytes + 4 - (p.bytes % 4) \in Nat
      /\ (p.bytes + 4 - (p.bytes % 4)) % 4 = 0
  BY <1>1, PadToWord
<1>3. ChunkEnded(p) \in PacketsOf(p.type)
  BY <1>1, <1>2 DEF ChunkEnded, PacketsOf
<1>4. ChunkEnded(p).type = p.type /\ ChunkEnded(p).bytes = p.bytes + 4 - (p.bytes % 4)
  BY <1>1 DEF ChunkEnded, PacketsOf
<1> QED
  BY <1>1, <1>2, <1>3, <1>4 DEF Packets

-----------------------------------------------------------------------------
(* The steps of the invariant                                              *)

LEMMA NewReportBuilt ==
    ASSUME BuiltInv, ReceiverReportNew \/ SenderReportNew
    PROVE  BuiltInv'
<1>1. <<>> \in BodiesOf(SR) /\ <<>> \in BodiesOf(RR)
  BY DEF BodiesOf
<1>2. OwnSsrc \in Nat
  BY DEF OwnSsrc
<1>3. CASE ReceiverReportNew
  <2> DEFINE p == Packet(RR, 0, HEAD_BYTE + SSRC_BYTE, OwnSsrc, <<>>)
  <2>1. p \in Packets /\ p.type = RR /\ p.bytes = 8
    BY <1>1, <1>2, PacketTyped DEF HEAD_BYTE, SSRC_BYTE
  <2>2. heads' = <<p>> /\ pc' = "cname" /\ bytes' = 8
    BY <1>3 DEF ReceiverReportNew, HEAD_BYTE, SSRC_BYTE
  <2> HIDE DEF p
  <2> QED
    BY <2>1, <2>2 DEF BuiltInv, Whole
<1>4. CASE SenderReportNew
  <2> DEFINE p == Packet(SR, 1, HEAD_BYTE + SENDERINFO_BYTE, 0, <<>>)
  <2>1. p \in Packets /\ p.type = SR /\ p.bytes = 28
    BY <1>1, PacketTyped DEF HEAD_BYTE, SENDERINFO_BYTE
  <2>2. heads' = <<p>> /\ pc' = "info" /\ bytes' = 28
    BY <1>4 DEF SenderReportNew, HEAD_BYTE, SENDERINFO_BYTE
  <2> HIDE DEF p
  <2> QED
    BY <2>1, <2>2 DEF BuiltInv, Whole
<1> QED
  BY <1>3, <1>4

LEMMA SetSenderInfoBuilt ==
    ASSUME BuiltInv, SetSenderInfo
    PROVE  BuiltInv'
<1>1. SenderInfo \in Seq(Nat) /\ OwnSsrc \in Nat
  BY DEF SenderInfo, OwnSsrc
<1>2. /\ heads \in Seq(Packets) /\ Len(heads) > 0
      /\ heads[1].type \in {SR, RR} /\ heads[1] \in Packets
  BY DEF BuiltInv, SetSenderInfo
<1> DEFINE p == [heads[1] EXCEPT !.ssrc = OwnSsrc, !.info = SenderInfo]
<1>3. p \in Packets /\ p.type = heads[1].type /\ p.bytes = heads[1].bytes
  BY <1>1, <1>2, InfoTyped, ZenonT(60)
<1>5. heads' = [heads EXCEPT ![1] = p] /\ pc' = "cname" /\ bytes' = bytes /\ pc = "info"
  BY DEF SetSenderInfo
<1> HIDE DEF p
<1>6. heads' \in Seq(Packets) /\ Len(heads') = Len(heads) /\ heads'[1] = p
  BY <1>2, <1>3, <1>5
<1>7. \A i \in DOMAIN heads' : heads'[i].bytes % 4 = 0
  BY <1>2, <1>3, <1>5, <1>6 DEF BuiltInv, Whole
<1> QED
  BY <1>2, <1>3, <1>5, <1>6, <1>7 DEF BuiltInv, Whole

LEMMA SdesBuilt ==
    ASSUME BuiltInv, NEW len \in CnameLens, AddSdes(len)
    PROVE  BuiltInv'
<1>1. len \in Nat
  BY Inputs
<1> DEFINE size == HEAD_BYTE + SSRC_BYTE + ITEM_BYTE + len
           body == <<[id |-> CNAME, value |-> Text(len)]>>
           p == Packet(SDES, 0, size, OwnSsrc, body)
<1>2. body \in BodiesOf(SDES)
  <2>1. Text(len) \in Seq(Nat)
    BY <1>1, TextTyped
  <2>2. [id |-> CNAME, value |-> Text(len)] \in Item
    BY <2>1 DEF Item, CNAME
  <2> QED
    BY <2>2 DEF BodiesOf, SDES, SR, RR
<1>3. p \in Packets /\ p.type = SDES
  BY <1>1, <1>2, PacketTyped DEF HEAD_BYTE, SSRC_BYTE, ITEM_BYTE, OwnSsrc
<1>4. heads' = Append(heads, p) \/ heads' = heads
  BY DEF AddSdes
<1>5. pc = "cname" /\ pc' = "end" /\ bytes' = bytes
  BY DEF AddSdes
<1> HIDE DEF p
<1> QED
  BY <1>3, <1>4, <1>5 DEF BuiltInv, Whole

LEMMA EndSdesBuilt ==
    ASSUME BuiltInv, EndSdes
    PROVE  BuiltInv'
<1>1. heads \in Seq(Packets) /\ Len(heads) > 0 /\ pc = "end" /\ pc' = "reports"
  BY DEF BuiltInv, EndSdes
<1>2. heads' = [i \in 1..Len(heads) |->
                   IF heads[i].type = SDES THEN ChunkEnded(heads[i]) ELSE heads[i]]
  BY <1>1 DEF EndSdes
<1>3. \A i \in 1..Len(heads) :
         /\ heads'[i] \in Packets
         /\ heads'[i].type = heads[i].type
         /\ heads'[i].bytes % 4 = 0
  BY <1>1, <1>2, EndedTyped DEF BuiltInv, Whole
<1>4. heads' \in Seq(Packets) /\ Len(heads') = Len(heads)
  BY <1>1, <1>2, <1>3
<1>5. heads'[1].type \in {SR, RR}
  <2>1. 1 \in 1..Len(heads) /\ heads[1].type \in {SR, RR}
    BY <1>1 DEF BuiltInv
  <2> QED
    BY <1>3, <2>1
<1> QED
  BY <1>1, <1>3, <1>4, <1>5 DEF BuiltInv, Whole

LEMMA AddReportBuilt ==
    ASSUME BuiltInv, AddReport
    PROVE  BuiltInv'
<1>1. /\ heads \in Seq(Packets) /\ Len(heads) > 0
      /\ heads[1].type \in {SR, RR} /\ heads[1] \in Packets
      /\ pc = "reports" /\ pc' = "reports"
  BY DEF BuiltInv, AddReport
<1>2. heads[1].body \in Seq(Report) /\ heads[1].bytes \in Nat
  BY <1>1, ReportBody, TypeOfPacket
<1> DEFINE body == Append(heads[1].body, ReportOf(Len(heads[1].body) + 1))
           size == heads[1].bytes + REPORT_BYTE
           p == WithReports(heads[1], body, size)
<1>3. body \in Seq(Report) /\ size \in Nat
  BY <1>2, ReportTyped DEF REPORT_BYTE
<1> HIDE DEF body, size
<1>4. p \in Packets /\ p.type = heads[1].type /\ p.bytes = size
  BY <1>1, <1>3, ReportAdded
<1>6. size % 4 = 0
  BY <1>1, <1>2, WordAdded DEF BuiltInv, Whole, size, SDES, SR, RR
<1>7. heads' = [heads EXCEPT ![1] = p] /\ bytes' = bytes
  BY <1>1 DEF AddReport, body, size, WithReports
<1> HIDE DEF p
<1>8. heads' \in Seq(Packets) /\ Len(heads') = Len(heads) /\ heads'[1] = p
  BY <1>1, <1>4, <1>7
<1>9. \A i \in DOMAIN heads' : heads'[i].bytes % 4 = 0
  BY <1>1, <1>4, <1>6, <1>7, <1>8 DEF BuiltInv, Whole
<1> QED
  BY <1>1, <1>4, <1>7, <1>8, <1>9 DEF BuiltInv, Whole

LEMMA NewAppBuilt ==
    ASSUME BuiltInv, NEW len \in AppLens, NEW ts \in Stamps, NewApp(len, ts)
    PROVE  BuiltInv'
<1>1. len \in Nat
  BY Inputs
<1> DEFINE npad == IF len % 4 = 0 THEN 0 ELSE 4 - (len % 4)
           size == HEAD_BYTE + SSRC_BYTE + NAME_BYTE + len + npad
           p == Packet(APP, PaddingFlag(npad), size, OwnSsrc, AppData(len, ts))
<1>2. npad \in 0..3 /\ (12 + len + npad) % 4 = 0
  BY <1>1, PadData
<1>3. AppData(len, ts) \in BodiesOf(APP)
  BY AppDataTyped DEF BodiesOf, APP, SDES, SR, RR
<1>4. size \in Nat /\ size % 4 = 0
  BY <1>1, <1>2 DEF HEAD_BYTE, SSRC_BYTE, NAME_BYTE
<1>5. p \in Packets /\ p.type = APP /\ p.bytes = size
  BY <1>3, <1>4, PacketTyped DEF PaddingFlag, OwnSsrc
<1>6. heads' = Append(heads, p) /\ pc = "reports" /\ pc' = "pack" /\ bytes' = bytes
  BY DEF NewApp
<1> HIDE DEF p, size
<1> QED
  BY <1>4, <1>5, <1>6 DEF BuiltInv, Whole

\* The steps that leave the packets alone.
LEMMA RestBuilt ==
    ASSUME BuiltInv, NoCname \/ NoApp \/ Read \/ UNCHANGED vars
    PROVE  BuiltInv'
<1>1. heads' = heads
  BY DEF NoCname, NoApp, Read, UnpackFirst, ScanSdes, SdesItem, SdesEnd, ScanApp,
         ScanUnknown, ScanOver, vars
<1>2. pc' = pc \/ (pc \notin {"new", "end"} /\ pc' \notin {"new", "end"})
  BY DEF NoCname, NoApp, Read, UnpackFirst, ScanSdes, SdesItem, SdesEnd, ScanApp,
         ScanUnknown, ScanOver, vars
<1> QED
  BY <1>1, <1>2 DEF BuiltInv, Whole

LEMMA DoneBuilt ==
    ASSUME BuiltInv, Done
    PROVE  BuiltInv'
  BY DEF BuiltInv, Done

-----------------------------------------------------------------------------

LEMMA InitBuilt == Init => BuiltInv
  BY DEF Init, BuiltInv

LEMMA StepBuilt == BuiltInv /\ [Next]_vars => BuiltInv'
<1> SUFFICES ASSUME BuiltInv, [Next]_vars
             PROVE  BuiltInv'
  OBVIOUS
<1>1. CASE ReceiverReportNew \/ SenderReportNew
  BY <1>1, NewReportBuilt
<1>2. CASE SetSenderInfo
  BY <1>2, SetSenderInfoBuilt
<1>3. CASE \E len \in CnameLens : AddSdes(len)
  BY <1>3, SdesBuilt
<1>4. CASE EndSdes
  BY <1>4, EndSdesBuilt
<1>5. CASE AddReport
  BY <1>5, AddReportBuilt
<1>6. CASE \E len \in AppLens, ts \in Stamps : NewApp(len, ts)
  BY <1>6, NewAppBuilt
<1>7. CASE Pack
  BY <1>7 DEF Pack, BuiltInv, Whole
<1>8. CASE NoCname \/ NoApp \/ Read \/ UNCHANGED vars
  BY <1>8, RestBuilt
<1>9. CASE Done
  BY <1>9, DoneBuilt
<1> QED
  BY <1>1, <1>2, <1>3, <1>4, <1>5, <1>6, <1>7, <1>8, <1>9 DEF Next, Build

\* Every packet that rtcp_pack meets has whole words: rtcp_end_sdes and
\* rtcp_new_app pad whatever the length of the cname and of the data, and
\* reports are words.
THEOREM PacketsWhole == Spec => []WholeWords
<1>1. Init => BuiltInv
  BY InitBuilt
<1>2. BuiltInv /\ [Next]_vars => BuiltInv'
  BY StepBuilt
<1>3. BuiltInv => WholeWords
  BY DEF BuiltInv, Whole, WholeWords
<1> QED
  BY <1>1, <1>2, <1>3, PTL DEF Spec

-----------------------------------------------------------------------------
(* Folds over sequences                                                    *)

\* A set of numbers that is not empty has a least one.
LEMMA MinIn ==
    ASSUME NEW K \in SUBSET Nat, K # {}
    PROVE  Min(K) \in K /\ \A k \in K : Min(K) <= k
<1>1. \E m \in K : \A k \in K : ~(<<k, m>> \in OpToRel(<, Nat))
  BY NatLessThanWellFounded, WFMin
<1>2. PICK m \in K : \A k \in K : ~(<<k, m>> \in OpToRel(<, Nat))
  BY <1>1
<1>3. ASSUME NEW k \in K PROVE m <= k
  <2>1. <<k, m>> \in Nat \X Nat /\ <<k, m>>[1] = k /\ <<k, m>>[2] = m
    OBVIOUS
  <2>2. ~(<<k, m>>[1] < <<k, m>>[2])
    BY <1>2, <2>1, Zenon DEF OpToRel
  <2>. QED
    BY <2>1, <2>2
<1>. QED
  BY <1>3 DEF Min

\* And a greatest one, if it is bounded.
LEMMA MaxIn ==
    ASSUME NEW m \in Nat, NEW S \in SUBSET (1..m), S # {}
    PROVE  Max(S) \in S /\ \A k \in S : k <= Max(S)
<1>. DEFINE K == {k \in Nat : \A x \in S : x <= k}
<1>1. K \in SUBSET Nat /\ m \in K
  OBVIOUS
<1>2. Min(K) \in K /\ \A k \in K : Min(K) <= k
  <2>. HIDE DEF K
  <2>. QED
    BY <1>1, MinIn
<1>3. PICK b \in Nat : b = Min(K)
  BY <1>2
<1>4. (\A x \in S : x <= b) /\ \A k \in K : b <= k
  BY <1>2, <1>3
<1>5. b \in S
  <2>. SUFFICES ASSUME b \notin S PROVE FALSE
    OBVIOUS
  <2>1. \A x \in S : x \in Nat /\ x # 0 /\ x < b
    BY <1>4
  <2>2. b \in Nat /\ b - 1 \in Nat
    <3>1. \E x : x \in S
      BY Zenon
    <3>. QED
      BY <2>1, <3>1
  <2>3. \A x \in S : x <= b - 1
    BY <2>1, <2>2
  <2>4. b - 1 \in K /\ ~(b <= b - 1)
    BY <2>2, <2>3
  <2>. QED
    BY <1>4, <2>4, Zenon
<1>6. Max(S) \in S /\ \A y \in S : Max(S) >= y
  <2>1. \A y \in S : b >= y
    BY <1>4
  <2>. QED
    BY <1>5, <2>1, Zenon DEF Max
<1>. QED
  BY <1>6

LEMMA MaxOfPrefix ==
    ASSUME NEW k \in Nat, k # 0
    PROVE  Max(1..k) = k /\ (1..k) \ {Max(1..k)} = 1..(k - 1)
<1>1. PICK S : S = 1..k
  OBVIOUS
<1>2. Max(S) \in S /\ \A j \in S : j <= Max(S)
  <2>1. S \in SUBSET (1..k) /\ S # {}
    BY <1>1
  <2>. QED
    BY <2>1, MaxIn
<1>3. Max(S) = k
  BY <1>1, <1>2
<1>. QED
  BY <1>1, <1>3

(***************************************************************************)
(* The recursion of the folds: over the sets of indices, the greatest      *)
(* index last.  G[k] is what the fold does with the k-th element.          *)
(***************************************************************************)
FoldsBy(f, n, base, G) ==
    f = [S \in SUBSET (1..n) |->
            IF S = {} THEN base ELSE G[Max(S)][f[S \ {Max(S)}]]]

LEMMA FoldExists ==
    ASSUME NEW n \in Nat, NEW V, NEW base \in V, NEW G \in [1..n -> [V -> V]]
    PROVE  \E f \in [SUBSET (1..n) -> V] : FoldsBy(f, n, base, G)
<1>. PICK K : K = {m \in Nat : m <= n /\ ~\E f \in [SUBSET (1..m) -> V] : FoldsBy(f, m, base, G)}
  OBVIOUS
<1>. SUFFICES ASSUME K # {} PROVE FALSE
  <2>1. n <= n
    OBVIOUS
  <2>2. n \in K \/ \E f \in [SUBSET (1..n) -> V] : FoldsBy(f, n, base, G)
    BY <2>1, Zenon
  <2>. QED
    BY <2>2, Zenon
<1>1. K \in SUBSET Nat
  BY Zenon
<1>2. Min(K) \in K /\ \A k \in K : Min(K) <= k
  BY <1>1, MinIn
<1>3. PICK m \in Nat : m \in K /\ \A k \in K : m <= k
  BY <1>2
<1>4. m # 0
  <2>1. PICK f : f = [S \in SUBSET (1..0) |-> base]
    OBVIOUS
  <2>2. \A S \in SUBSET (1..0) : S = {}
    OBVIOUS
  <2>3. f \in [SUBSET (1..0) -> V] /\ FoldsBy(f, 0, base, G)
    BY <2>1, <2>2 DEF FoldsBy
  <2>. QED
    BY <1>3, <2>3
<1>5. PICK l \in Nat : l = m - 1 /\ l < m /\ l <= n
  BY <1>3, <1>4
<1>6. l \notin K
  <2>1. ~(m <= l)
    BY <1>5
  <2>. QED
    BY <1>3, <2>1, Zenon
<1>7. PICK g \in [SUBSET (1..l) -> V] : FoldsBy(g, l, base, G)
  BY <1>5, <1>6
<1>8. ASSUME NEW S \in SUBSET (1..m), S # {}
      PROVE  Max(S) \in 1..n /\ S \ {Max(S)} \in SUBSET (1..l)
  <2>1. Max(S) \in S /\ \A k \in S : k <= Max(S)
    BY <1>8, MaxIn
  <2>2. PICK b : b = Max(S)
    OBVIOUS
  <2>3. ASSUME NEW k \in S, k # b PROVE k \in 1..l
    <3>1. k \in 1..m /\ b \in 1..m /\ k <= b
      BY <2>1, <2>2
    <3>. QED
      BY <1>5, <2>3, <3>1
  <2>4. b \in 1..n
    <3>1. b \in 1..m /\ m <= n
      BY <1>3, <2>1, <2>2
    <3>. QED
      BY <3>1
  <2>. QED
    BY <2>2, <2>3, <2>4
<1>9. PICK f : f = [S \in SUBSET (1..m) |->
                       IF S = {} THEN base ELSE G[Max(S)][g[S \ {Max(S)}]]]
  OBVIOUS
<1>10. f \in [SUBSET (1..m) -> V]
  <2>1. ASSUME NEW S \in SUBSET (1..m), S # {} PROVE G[Max(S)][g[S \ {Max(S)}]] \in V
    <3>1. Max(S) \in 1..n /\ S \ {Max(S)} \in SUBSET (1..l)
      BY <1>8, <2>1
    <3>2. g[S \ {Max(S)}] \in V /\ G[Max(S)] \in [V -> V]
      BY <3>1, Zenon
    <3>. QED
      BY <3>2, Zenon
  <2>. QED
    BY <1>9, <2>1
<1>11. ASSUME NEW S \in SUBSET (1..l) PROVE f[S] = g[S]
  <2>1. S \in SUBSET (1..m)
    BY <1>5
  <2>2. PICK v : v = IF S = {} THEN base ELSE G[Max(S)][g[S \ {Max(S)}]]
    OBVIOUS
  <2>3. f[S] = v
    BY <1>9, <2>1, <2>2, Zenon
  <2>4. g[S] = v
    BY <1>7, <2>2, Zenon DEF FoldsBy
  <2>. QED
    BY <2>3, <2>4, Zenon
<1>12. FoldsBy(f, m, base, G)
  <2>1. ASSUME NEW S \in SUBSET (1..m)
        PROVE  (IF S = {} THEN base ELSE G[Max(S)][g[S \ {Max(S)}]])
                 = (IF S = {} THEN base ELSE G[Max(S)][f[S \ {Max(S)}]])
    <3>1. CASE S = {}
      BY <3>1, Zenon
    <3>2. CASE S # {}
      <4>1. f[S \ {Max(S)}] = g[S \ {Max(S)}]
        BY <1>8, <1>11, <3>2, Zenon
      <4>. QED
        BY <4>1, Zenon
    <3>. QED
      BY <3>1, <3>2, Zenon
  <2>. QED
    BY <1>9, <2>1, Zenon DEF FoldsBy
<1>. QED
  BY <1>3, <1>10, <1>12

\* The recursion of AddFields, over the sets of fields.
Adds(f, fields, size) ==
    f = [S \in SUBSET DOMAIN fields |->
            IF S = {} THEN <<>>
            ELSE IF Len(f[S \ {Max(S)}]) + Len(fields[Max(S)]) > size
                 THEN f[S \ {Max(S)}] ELSE f[S \ {Max(S)}] \o fields[Max(S)]]

Bytes == Seq(0..255)

\* a[k] is what the buffer holds after k fields.
Adding(a, fields, size) ==
    /\ a[0] = <<>>
    /\ \A k \in 1..Len(fields) :
          a[k] = IF Len(a[k - 1]) + Len(fields[k]) > size THEN a[k - 1] ELSE a[k - 1] \o fields[k]

LEMMA FieldsAdded ==
    ASSUME NEW fields \in Seq(Bytes), NEW size \in Nat
    PROVE  \E a : Adding(a, fields, size) /\ AddFields(fields, size) = a[Len(fields)]
<1>. PICK n \in Nat : n = Len(fields)
  OBVIOUS
<1>1. DOMAIN fields = 1..n /\ \A k \in 1..n : fields[k] \in Bytes
  OBVIOUS
<1>2. PICK G : G = [k \in 1..n |-> [b \in Bytes |->
                       IF Len(b) + Len(fields[k]) > size THEN b ELSE b \o fields[k]]]
  OBVIOUS
<1>3. G \in [1..n -> [Bytes -> Bytes]] /\ <<>> \in Bytes
  <2>1. ASSUME NEW k \in 1..n, NEW b \in Bytes PROVE b \o fields[k] \in Bytes
    BY <1>1 DEF Bytes
  <2>. QED
    BY <1>2, <2>1 DEF Bytes
<1>4. PICK f \in [SUBSET (1..n) -> Bytes] : FoldsBy(f, n, <<>>, G)
  BY <1>3, FoldExists
<1>5. Adds(f, fields, size)
  <2>1. ASSUME NEW S \in SUBSET (1..n), S # {}
        PROVE  G[Max(S)][f[S \ {Max(S)}]]
                 = IF Len(f[S \ {Max(S)}]) + Len(fields[Max(S)]) > size
                   THEN f[S \ {Max(S)}] ELSE f[S \ {Max(S)}] \o fields[Max(S)]
    <3>1. PICK m : m = Max(S)
      OBVIOUS
    <3>2. m \in 1..n
      BY <2>1, <3>1, MaxIn
    <3>3. PICK b \in Bytes : b = f[S \ {m}]
      OBVIOUS
    <3>4. G[m][b] = IF Len(b) + Len(fields[m]) > size THEN b ELSE b \o fields[m]
      BY <1>2, <3>2, Zenon
    <3>. QED
      BY <3>1, <3>3, <3>4, Zenon
  <2>2. f = [S \in SUBSET (1..n) |-> IF S = {} THEN <<>> ELSE G[Max(S)][f[S \ {Max(S)}]]]
    BY <1>4, Zenon DEF FoldsBy
  <2>. QED
    BY <1>1, <2>1, <2>2, Zenon DEF Adds
<1>6. PICK h : h = CHOOSE g : Adds(g, fields, size)
  OBVIOUS
<1>7. Adds(h, fields, size) /\ AddFields(fields, size) = h[1..n]
  <2>1. AddFields(fields, size) = (CHOOSE g : Adds(g, fields, size))[DOMAIN fields]
    BY Zenon DEF AddFields, FoldLeft, MapThenFoldSet, Adds
  <2>. QED
    BY <1>1, <1>5, <1>6, <2>1, Zenon
<1>8. PICK a : a = [k \in 0..n |-> h[1..k]]
  OBVIOUS
<1>9. a[0] = <<>>
  <2>1. a[0] = h[1..0] /\ 1..0 = {} /\ {} \in SUBSET DOMAIN fields
    BY <1>8
  <2>. QED
    BY <1>7, <2>1, Zenon DEF Adds
<1>10. ASSUME NEW k \in 1..n
       PROVE  a[k] = IF Len(a[k - 1]) + Len(fields[k]) > size THEN a[k - 1] ELSE a[k - 1] \o fields[k]
  <2>1. Max(1..k) = k /\ (1..k) \ {Max(1..k)} = 1..(k - 1) /\ 1..k # {}
    BY MaxOfPrefix
  <2>2. a[k] = h[1..k] /\ a[k - 1] = h[1..(k - 1)]
    BY <1>8
  <2>3. PICK S : S = 1..k
    OBVIOUS
  <2>4. S \in SUBSET DOMAIN fields
    BY <1>1, <2>3
  <2>5. h[S] = IF S = {} THEN <<>>
               ELSE IF Len(h[S \ {Max(S)}]) + Len(fields[Max(S)]) > size
                    THEN h[S \ {Max(S)}] ELSE h[S \ {Max(S)}] \o fields[Max(S)]
    BY <1>7, <2>4, Zenon DEF Adds
  <2>6. PICK T : T = 1..(k - 1)
    OBVIOUS
  <2>7. Max(S) = k /\ S \ {Max(S)} = T /\ S # {} /\ a[k] = h[S] /\ a[k - 1] = h[T]
    BY <2>1, <2>2, <2>3, <2>6, Zenon
  <2>. QED
    BY <2>5, <2>7, Zenon
<1>11. a[n] = h[1..n]
  BY <1>8
<1>. QED
  BY <1>7, <1>9, <1>10, <1>11 DEF Adding

\* The recursion of Offset and of CompoundLength.
SumBytes(s) == FoldLeft(LAMBDA n, p : n + p.bytes, 0, s)

Sums(f, s) ==
    f = [S \in SUBSET DOMAIN s |->
            IF S = {} THEN 0 ELSE f[S \ {Max(S)}] + s[Max(S)].bytes]

LEMMA BytesSummed ==
    ASSUME NEW s \in Seq(Packets)
    PROVE  \E a : /\ a[0] = 0
                  /\ \A k \in 1..Len(s) : a[k] = a[k - 1] + s[k].bytes
                  /\ SumBytes(s) = a[Len(s)]
<1>. PICK n \in Nat : n = Len(s)
  OBVIOUS
<1>1. DOMAIN s = 1..n /\ \A k \in 1..n : s[k].bytes \in Nat
  BY TypeOfPacket
<1>2. PICK G : G = [k \in 1..n |-> [b \in Nat |-> b + s[k].bytes]]
  OBVIOUS
<1>3. G \in [1..n -> [Nat -> Nat]] /\ 0 \in Nat
  <2>1. ASSUME NEW k \in 1..n, NEW b \in Nat PROVE b + s[k].bytes \in Nat
    BY <1>1
  <2>. QED
    BY <1>2, <2>1
<1>4. PICK f \in [SUBSET (1..n) -> Nat] : FoldsBy(f, n, 0, G)
  BY <1>3, FoldExists
<1>5. Sums(f, s)
  <2>1. ASSUME NEW S \in SUBSET (1..n), S # {}
        PROVE  G[Max(S)][f[S \ {Max(S)}]] = f[S \ {Max(S)}] + s[Max(S)].bytes
    <3>1. PICK m : m = Max(S)
      OBVIOUS
    <3>2. m \in 1..n
      BY <2>1, <3>1, MaxIn
    <3>3. PICK b \in Nat : b = f[S \ {m}]
      OBVIOUS
    <3>4. G[m][b] = b + s[m].bytes
      BY <1>2, <3>2, Zenon
    <3>. QED
      BY <3>1, <3>3, <3>4, Zenon
  <2>2. f = [S \in SUBSET (1..n) |-> IF S = {} THEN 0 ELSE G[Max(S)][f[S \ {Max(S)}]]]
    BY <1>4, Zenon DEF FoldsBy
  <2>. QED
    BY <1>1, <2>1, <2>2, Zenon DEF Sums
<1>6. PICK h : h = CHOOSE g : Sums(g, s)
  OBVIOUS
<1>7. Sums(h, s) /\ SumBytes(s) = h[1..n]
  <2>1. SumBytes(s) = (CHOOSE g : Sums(g, s))[DOMAIN s]
    BY Zenon DEF SumBytes, FoldLeft, MapThenFoldSet, Sums
  <2>. QED
    BY <1>1, <1>5, <1>6, <2>1, Zenon
<1>8. PICK a : a = [k \in 0..n |-> h[1..k]]
  OBVIOUS
<1>9. a[0] = 0
  <2>1. a[0] = h[1..0] /\ 1..0 = {} /\ {} \in SUBSET DOMAIN s
    BY <1>8
  <2>. QED
    BY <1>7, <2>1, Zenon DEF Sums
<1>10. ASSUME NEW k \in 1..n PROVE a[k] = a[k - 1] + s[k].bytes
  <2>1. Max(1..k) = k /\ (1..k) \ {Max(1..k)} = 1..(k - 1) /\ 1..k # {}
    BY MaxOfPrefix
  <2>2. a[k] = h[1..k] /\ a[k - 1] = h[1..(k - 1)]
    BY <1>8
  <2>3. PICK S : S = 1..k
    OBVIOUS
  <2>4. S \in SUBSET DOMAIN s
    BY <1>1, <2>3
  <2>5. h[S] = IF S = {} THEN 0 ELSE h[S \ {Max(S)}] + s[Max(S)].bytes
    BY <1>7, <2>4, Zenon DEF Sums
  <2>6. PICK T : T = 1..(k - 1)
    OBVIOUS
  <2>7. Max(S) = k /\ S \ {Max(S)} = T /\ S # {} /\ a[k] = h[S] /\ a[k - 1] = h[T]
    BY <2>1, <2>2, <2>3, <2>6, Zenon
  <2>. QED
    BY <2>5, <2>7, Zenon
<1>11. a[n] = h[1..n]
  BY <1>8
<1>. QED
  BY <1>7, <1>9, <1>10, <1>11

\* A compound of three packets at most.
LEMMA BytesOfThree ==
    ASSUME NEW s \in Seq(Packets), Len(s) <= 3
    PROVE  /\ Len(s) = 0 => SumBytes(s) = 0
           /\ Len(s) = 1 => SumBytes(s) = s[1].bytes
           /\ Len(s) = 2 => SumBytes(s) = s[1].bytes + s[2].bytes
           /\ Len(s) = 3 => SumBytes(s) = s[1].bytes + s[2].bytes + s[3].bytes
<1>1. PICK a : /\ a[0] = 0
               /\ \A k \in 1..Len(s) : a[k] = a[k - 1] + s[k].bytes
               /\ SumBytes(s) = a[Len(s)]
  BY BytesSummed
<1>2. \A k \in 1..Len(s) : s[k].bytes \in Nat
  BY TypeOfPacket
<1>3. Len(s) >= 1 => a[1] = s[1].bytes
  <2>. SUFFICES ASSUME Len(s) >= 1 PROVE a[1] = s[1].bytes
    OBVIOUS
  <2>1. a[1] = a[1 - 1] + s[1].bytes /\ s[1].bytes \in Nat /\ 1 - 1 = 0
    BY <1>1, <1>2
  <2>. QED
    BY <1>1, <2>1
<1>4. Len(s) >= 2 => a[2] = s[1].bytes + s[2].bytes
  <2>. SUFFICES ASSUME Len(s) >= 2 PROVE a[2] = s[1].bytes + s[2].bytes
    OBVIOUS
  <2>1. a[2] = a[2 - 1] + s[2].bytes /\ 2 - 1 = 1
    BY <1>1
  <2>. QED
    BY <1>3, <2>1
<1>5. Len(s) >= 3 => a[3] = s[1].bytes + s[2].bytes + s[3].bytes
  <2>. SUFFICES ASSUME Len(s) >= 3 PROVE a[3] = s[1].bytes + s[2].bytes + s[3].bytes
    OBVIOUS
  <2>1. a[3] = a[3 - 1] + s[3].bytes /\ 3 - 1 = 2
    BY <1>1
  <2>. QED
    BY <1>4, <2>1
<1>. QED
  BY <1>1, <1>3, <1>4, <1>5

-----------------------------------------------------------------------------
(* Sequences put end to end                                                *)

LEMMA Joined ==
    ASSUME NEW X, NEW a \in Seq(X), NEW b \in Seq(X)
    PROVE  /\ a \o b \in Seq(X) /\ Len(a \o b) = Len(a) + Len(b)
           /\ \A i \in 1..Len(a) : (a \o b)[i] = a[i]
           /\ \A i \in 1..Len(b) : (a \o b)[Len(a) + i] = b[i]
<1>1. a \o b \in Seq(X) /\ Len(a \o b) = Len(a) + Len(b)
  BY ConcatProperties
<1>2. \A i \in 1..Len(a) : (a \o b)[i] = a[i]
  BY ConcatProperties
<1>3. \A i \in 1..Len(b) : (a \o b)[Len(a) + i] = b[i]
  <2>. SUFFICES ASSUME NEW i \in 1..Len(b) PROVE (a \o b)[Len(a) + i] = b[i]
    OBVIOUS
  <2>1. Len(a) \in Nat /\ Len(b) \in Nat
    OBVIOUS
  <2>2. PICK j : j = Len(a) + i
    OBVIOUS
  <2>3. j \in 1..(Len(a) + Len(b)) /\ ~(j <= Len(a)) /\ j - Len(a) = i
    BY <2>1, <2>2
  <2>4. (a \o b)[j] = b[j - Len(a)]
    BY <2>3, ConcatProperties
  <2>. QED
    BY <2>2, <2>3, <2>4
<1>. QED
  BY <1>1, <1>2, <1>3

LEMMA EqualSeqs ==
    ASSUME NEW X, NEW a \in Seq(X), NEW b \in Seq(X), Len(a) = Len(b),
           \A i \in 1..Len(a) : a[i] = b[i]
    PROVE  a = b
  BY SeqEqual

LEMMA JoinedThree ==
    ASSUME NEW X, NEW a \in Seq(X), NEW b \in Seq(X), NEW c \in Seq(X)
    PROVE  (a \o b) \o c = a \o (b \o c)
  BY ConcatAssociative

\* f[i] is the first i sequences of s end to end.
Flattens(f, s, n) ==
    f = [i \in 1..n |-> IF i = 1 THEN s[i] ELSE f[i - 1] \o s[i]]

GrownAlong(f, s, n) ==
    /\ f[1] = s[1]
    /\ \A i \in 2..n : f[i] = f[i - 1] \o s[i]

LEMMA FlattenExists ==
    ASSUME NEW X, NEW s \in Seq(Seq(X)), NEW n \in Nat, n # 0, n <= Len(s)
    PROVE  \E f \in [1..n -> Seq(X)] : Flattens(f, s, n)
<1>. DEFINE Has(m) == \E f \in [1..m -> Seq(X)] : Flattens(f, s, m)
<1>. PICK K : K = {m \in Nat : m # 0 /\ m <= n /\ ~Has(m)}
  OBVIOUS
<1>. SUFFICES ASSUME K # {} PROVE FALSE
  <2>1. n <= n
    OBVIOUS
  <2>2. n \in K \/ Has(n)
    BY <2>1, Zenon
  <2>. QED
    BY <2>2, Zenon
<1>1. K \in SUBSET Nat
  BY Zenon
<1>2. Min(K) \in K /\ \A k \in K : Min(K) <= k
  BY <1>1, MinIn
<1>3. PICK m \in Nat : m \in K /\ \A k \in K : m <= k
  BY <1>2
<1>4. m # 0 /\ m <= n /\ ~Has(m)
  BY <1>3, Zenon
<1>5. \A i \in 1..m : s[i] \in Seq(X)
  BY <1>4
<1>6. m # 1
  <2>. SUFFICES ASSUME m = 1 PROVE Has(m)
    BY <1>4, Zenon
  <2>1. PICK f : f = [i \in 1..1 |-> s[1]]
    OBVIOUS
  <2>2. s[1] \in Seq(X)
    BY <1>5
  <2>3. f \in [1..1 -> Seq(X)]
    BY <2>1, <2>2
  <2>4. \A i \in 1..1 : s[1] = IF i = 1 THEN s[i] ELSE f[i - 1] \o s[i]
    OBVIOUS
  <2>5. f = [i \in 1..1 |-> IF i = 1 THEN s[i] ELSE f[i - 1] \o s[i]]
    BY <2>1, <2>4, Zenon
  <2>. QED
    BY <2>3, <2>5, Zenon DEF Flattens
<1>7. PICK l \in Nat : l = m - 1 /\ l # 0 /\ l <= n /\ ~(m <= l)
  BY <1>4, <1>6
<1>8. Has(l)
  <2>1. l \notin K
    BY <1>3, <1>7, Zenon
  <2>. QED
    BY <1>7, <2>1, Zenon
<1>9. PICK g \in [1..l -> Seq(X)] :
         g = [i \in 1..l |-> IF i = 1 THEN s[i] ELSE g[i - 1] \o s[i]]
  BY <1>8, Zenon DEF Flattens
<1>10. PICK f : f = [i \in 1..m |-> IF i = m THEN g[l] \o s[m] ELSE g[i]]
  OBVIOUS
<1>11. f \in [1..m -> Seq(X)]
  <2>1. g[l] \o s[m] \in Seq(X)
    <3>1. l \in 1..l /\ m \in 1..m
      BY <1>4, <1>7
    <3>2. g[l] \in Seq(X) /\ s[m] \in Seq(X)
      BY <1>5, <1>9, <3>1
    <3>. QED
      BY <3>2, Joined
  <2>2. ASSUME NEW i \in 1..m, i # m PROVE g[i] \in Seq(X)
    <3>1. i \in 1..l
      BY <1>7, <2>2
    <3>. QED
      BY <1>9, <3>1
  <2>. QED
    BY <1>10, <2>1, <2>2
<1>12. ASSUME NEW i \in 1..m
       PROVE  (IF i = m THEN g[l] \o s[m] ELSE g[i])
                 = (IF i = 1 THEN s[i] ELSE f[i - 1] \o s[i])
  <2>1. CASE i = m
    <3>1. i # 1 /\ i - 1 = l /\ l # m /\ l \in 1..m
      BY <1>4, <1>6, <1>7, <2>1
    <3>2. f[l] = g[l]
      BY <1>10, <3>1, Zenon
    <3>. QED
      BY <2>1, <3>1, <3>2, Zenon
  <2>2. CASE i # m
    <3>1. i \in 1..l
      BY <1>7, <2>2
    <3>2. PICK v : v = IF i = 1 THEN s[i] ELSE g[i - 1] \o s[i]
      OBVIOUS
    <3>3. g[i] = v
      BY <1>9, <3>1, <3>2, Zenon
    <3>4. i # 1 => f[i - 1] = g[i - 1]
      <4>. SUFFICES ASSUME i # 1 PROVE f[i - 1] = g[i - 1]
        OBVIOUS
      <4>1. i - 1 \in 1..m /\ i - 1 # m
        BY <1>4, <1>7, <3>1
      <4>. QED
        BY <1>10, <4>1, Zenon
    <3>. QED
      BY <2>2, <3>2, <3>3, <3>4, Zenon
  <2>. QED
    BY <2>1, <2>2, Zenon
<1>13. f = [i \in 1..m |-> IF i = 1 THEN s[i] ELSE f[i - 1] \o s[i]]
  BY <1>10, <1>12, Zenon
<1>14. Has(m)
  BY <1>11, <1>13, Zenon DEF Flattens
<1>. QED
  BY <1>4, <1>14, Zenon

\* What holds of the first and of each next one holds of all.
LEMMA UpTo ==
    ASSUME NEW n \in Nat, NEW P, 1 \in P, \A i \in 2..n : i - 1 \in P => i \in P
    PROVE  \A i \in 1..n : i \in P
<1>. PICK K : K = {i \in Nat : i # 0 /\ i <= n /\ i \notin P}
  OBVIOUS
<1>. SUFFICES ASSUME K # {} PROVE FALSE
  BY SMT
<1>1. K \in SUBSET Nat
  BY Zenon
<1>2. Min(K) \in K /\ \A k \in K : Min(K) <= k
  BY <1>1, MinIn
<1>3. PICK m \in Nat : m \in K /\ \A k \in K : m <= k
  BY <1>2
<1>4. m # 0 /\ m # 1 /\ m <= n /\ m \notin P
  BY <1>3
<1>5. m \in 2..n /\ m - 1 \in Nat /\ m - 1 # 0 /\ m - 1 <= n /\ ~(m <= m - 1)
  BY <1>4
<1>6. m - 1 \notin K
  BY <1>3, <1>5, Zenon
<1>7. m - 1 \in P
  BY <1>5, <1>6, Zenon
<1>. QED
  BY <1>4, <1>5, <1>7, Zenon

LEMMA FlattenAlong ==
    ASSUME NEW X, NEW s \in Seq(Seq(X)), Len(s) # 0
    PROVE  \E f : /\ GrownAlong(f, s, Len(s))
                  /\ \A i \in 1..Len(s) : f[i] \in Seq(X)
                  /\ FlattenSeq(s) = f[Len(s)]
<1>. PICK n \in Nat : n = Len(s)
  OBVIOUS
<1>1. \E f : Flattens(f, s, n)
  <2>1. n # 0 /\ n <= Len(s)
    OBVIOUS
  <2>. QED
    BY <2>1, FlattenExists
<1>2. PICK h : h = CHOOSE f : Flattens(f, s, n)
  OBVIOUS
<1>3. Flattens(h, s, n)
  BY <1>1, <1>2, Zenon
<1>4. FlattenSeq(s) = h[n]
  <2>1. FlattenSeq(s) = IF Len(s) = 0 THEN s ELSE (CHOOSE f : Flattens(f, s, Len(s)))[Len(s)]
    BY Zenon DEF FlattenSeq, Flattens
  <2>. QED
    BY <1>2, <2>1, Zenon
<1>5. ASSUME NEW i \in 1..n PROVE h[i] = IF i = 1 THEN s[i] ELSE h[i - 1] \o s[i]
  BY <1>3, Zenon DEF Flattens
<1>6. GrownAlong(h, s, n)
  <2>1. 1 \in 1..n
    OBVIOUS
  <2>2. h[1] = s[1]
    BY <1>5, <2>1, Zenon
  <2>3. ASSUME NEW i \in 2..n PROVE h[i] = h[i - 1] \o s[i]
    <3>1. i \in 1..n /\ i # 1
      OBVIOUS
    <3>. QED
      BY <1>5, <3>1, Zenon
  <2>. QED
    BY <2>2, <2>3, Zenon DEF GrownAlong
<1>7. \A i \in 1..n : h[i] \in Seq(X)
  <2>1. PICK P : P = {i \in 1..n : h[i] \in Seq(X)}
    OBVIOUS
  <2>2. 1 \in P
    BY <1>6, <2>1 DEF GrownAlong
  <2>3. ASSUME NEW i \in 2..n, i - 1 \in P PROVE i \in P
    <3>1. h[i - 1] \in Seq(X) /\ s[i] \in Seq(X) /\ i \in 1..n
      BY <2>1, <2>3
    <3>2. h[i - 1] \o s[i] \in Seq(X)
      BY <3>1, Joined
    <3>. QED
      BY <1>6, <2>1, <3>1, <3>2, Zenon DEF GrownAlong
  <2>4. \A i \in 1..n : i \in P
    BY <2>2, <2>3, UpTo
  <2>. QED
    BY <2>1, <2>4
<1>. QED
  BY <1>4, <1>6, <1>7

LEMMA EmptyEnds ==
    ASSUME NEW X, NEW a \in Seq(X)
    PROVE  /\ <<>> \in Seq(X) /\ Len(<<>>) = 0
           /\ <<>> \o a = a /\ a \o <<>> = a
           /\ (Len(a) = 0 => a = <<>>)
  BY ConcatEmptySeq, EmptySeq

LEMMA LenNat ==
    ASSUME NEW b \in Bytes
    PROVE  Len(b) \in Nat
  BY DEF Bytes

LEMMA FlattenTyped ==
    ASSUME NEW X, NEW s \in Seq(Seq(X))
    PROVE  FlattenSeq(s) \in Seq(X)
<1>1. CASE Len(s) = 0
  <2>1. FlattenSeq(s) = s
    BY <1>1, Zenon DEF FlattenSeq
  <2>2. s = <<>>
    BY <1>1, EmptyEnds
  <2>. QED
    BY <2>1, <2>2
<1>2. CASE Len(s) # 0
  <2>1. PICK f : (\A i \in 1..Len(s) : f[i] \in Seq(X)) /\ FlattenSeq(s) = f[Len(s)]
    BY <1>2, FlattenAlong
  <2>2. Len(s) \in 1..Len(s)
    BY <1>2
  <2>. QED
    BY <2>1, <2>2, Zenon
<1>. QED
  BY <1>1, <1>2

LEMMA FlattenEmpty == FlattenSeq(<<>>) = <<>>
<1>1. Len(<<>>) = 0
  OBVIOUS
<1>. QED
  BY <1>1, Zenon DEF FlattenSeq

LEMMA FlattenOne ==
    ASSUME NEW X, NEW s \in Seq(Seq(X)), Len(s) = 1
    PROVE  FlattenSeq(s) = s[1]
<1>1. PICK f : GrownAlong(f, s, Len(s)) /\ FlattenSeq(s) = f[Len(s)]
  <2>1. Len(s) # 0
    OBVIOUS
  <2>. QED
    BY <2>1, FlattenAlong
<1>. QED
  BY <1>1, Zenon DEF GrownAlong

LEMMA FlattenTwo ==
    ASSUME NEW X, NEW s \in Seq(Seq(X)), Len(s) = 2
    PROVE  FlattenSeq(s) = s[1] \o s[2]
<1>1. PICK f : GrownAlong(f, s, Len(s)) /\ FlattenSeq(s) = f[Len(s)]
  <2>1. Len(s) # 0
    OBVIOUS
  <2>. QED
    BY <2>1, FlattenAlong
<1>2. f[2] = f[2 - 1] \o s[2] /\ f[1] = s[1]
  <2>1. 2 \in 2..Len(s)
    OBVIOUS
  <2>. QED
    BY <1>1, <2>1, Zenon DEF GrownAlong
<1>3. 2 - 1 = 1
  OBVIOUS
<1>. QED
  BY <1>1, <1>2, <1>3, Zenon

LEMMA FlattenThree ==
    ASSUME NEW X, NEW s \in Seq(Seq(X)), Len(s) = 3
    PROVE  FlattenSeq(s) = (s[1] \o s[2]) \o s[3]
<1>1. PICK f : GrownAlong(f, s, Len(s)) /\ FlattenSeq(s) = f[Len(s)]
  <2>1. Len(s) # 0
    OBVIOUS
  <2>. QED
    BY <2>1, FlattenAlong
<1>2. f[2] = f[2 - 1] \o s[2] /\ f[1] = s[1] /\ f[3] = f[3 - 1] \o s[3]
  <2>1. 2 \in 2..Len(s) /\ 3 \in 2..Len(s)
    OBVIOUS
  <2>. QED
    BY <1>1, <2>1, Zenon DEF GrownAlong
<1>3. 2 - 1 = 1 /\ 3 - 1 = 2
  OBVIOUS
<1>. QED
  BY <1>1, <1>2, <1>3, Zenon

LEMMA FlattenConcat ==
    ASSUME NEW X, NEW a \in Seq(Seq(X)), NEW b \in Seq(Seq(X))
    PROVE  FlattenSeq(a \o b) = FlattenSeq(a) \o FlattenSeq(b)
<1>0. \A x, y, z \in Seq(X) : (x \o y) \o z = x \o (y \o z)
  BY JoinedThree, SMTT(60)
<1>1. CASE Len(a) = 0
  <2>1. a = <<>> /\ a \o b = b
    BY <1>1, EmptyEnds
  <2>. QED
    BY <2>1, FlattenEmpty, FlattenTyped, EmptyEnds
<1>2. CASE Len(b) = 0
  <2>1. b = <<>> /\ a \o b = a
    BY <1>2, EmptyEnds
  <2>. QED
    BY <2>1, FlattenEmpty, FlattenTyped, EmptyEnds
<1>3. CASE Len(a) # 0 /\ Len(b) # 0
  <2>. PICK n \in Nat : n = Len(a)
    OBVIOUS
  <2>. PICK m \in Nat : m = Len(b)
    OBVIOUS
  <2>. PICK c : c = a \o b
    OBVIOUS
  <2>1. /\ c \in Seq(Seq(X)) /\ Len(c) = n + m /\ n # 0 /\ m # 0 /\ Len(c) # 0
        /\ \A i \in 1..n : c[i] = a[i]
        /\ \A j \in 1..m : c[n + j] = b[j]
    BY <1>3, Joined
  <2>2. PICK f : /\ GrownAlong(f, a, n) /\ FlattenSeq(a) = f[n]
                 /\ \A i \in 1..n : f[i] \in Seq(X)
    BY <1>3, FlattenAlong
  <2>3. PICK g : /\ GrownAlong(g, b, m) /\ FlattenSeq(b) = g[m]
                 /\ \A i \in 1..m : g[i] \in Seq(X)
    BY <1>3, FlattenAlong
  <2>4. PICK h : GrownAlong(h, c, n + m) /\ FlattenSeq(c) = h[n + m]
    <3>1. \E h : GrownAlong(h, c, Len(c)) /\ FlattenSeq(c) = h[Len(c)]
      BY <2>1, FlattenAlong
    <3>. QED
      BY <2>1, <3>1, Zenon
  <2>5. \A i \in 1..n : h[i] = f[i]
    <3>1. PICK P : P = {i \in 1..n : h[i] = f[i]}
      OBVIOUS
    <3>2. 1 \in P
      <4>1. 1 \in 1..n
        BY <2>1
      <4>2. h[1] = c[1] /\ f[1] = a[1] /\ c[1] = a[1]
        BY <2>1, <2>2, <2>4, <4>1, Zenon DEF GrownAlong
      <4>. QED
        BY <3>1, <4>1, <4>2, Zenon
    <3>3. ASSUME NEW i \in 2..n, i - 1 \in P PROVE i \in P
      <4>1. i \in 1..n /\ i \in 2..(n + m)
        OBVIOUS
      <4>2. h[i] = h[i - 1] \o c[i] /\ f[i] = f[i - 1] \o a[i] /\ c[i] = a[i]
        BY <2>1, <2>2, <2>4, <4>1, Zenon DEF GrownAlong
      <4>. QED
        BY <3>1, <3>3, <4>1, <4>2, Zenon
    <3>4. \A i \in 1..n : i \in P
      BY <3>2, <3>3, UpTo
    <3>. QED
      BY <3>1, <3>4, Zenon
  <2>6. ASSUME NEW j \in 1..m
        PROVE  h[n + j] = h[(n + j) - 1] \o b[j]
    <3>1. PICK k : k = n + j
      OBVIOUS
    <3>2. k \in 2..(n + m)
      BY <2>1, <3>1
    <3>3. h[k] = h[k - 1] \o c[k] /\ c[k] = b[j]
      BY <2>1, <2>4, <3>1, <3>2, Zenon DEF GrownAlong
    <3>. QED
      BY <3>1, <3>3, Zenon
  <2>7. \A j \in 1..m : h[n + j] = f[n] \o g[j]
    <3>1. PICK P : P = {j \in 1..m : h[n + j] = f[n] \o g[j]}
      OBVIOUS
    <3>2. n \in 1..n /\ 1 \in 1..m /\ (n + 1) - 1 = n
      BY <2>1
    <3>3. 1 \in P
      <4>1. h[n + 1] = h[n] \o b[1] /\ h[n] = f[n] /\ g[1] = b[1]
        BY <2>3, <2>5, <2>6, <3>2, Zenon DEF GrownAlong
      <4>. QED
        BY <3>1, <3>2, <4>1, Zenon
    <3>4. ASSUME NEW j \in 2..m, j - 1 \in P PROVE j \in P
      <4>1. PICK l : l = j - 1
        OBVIOUS
      <4>2. j \in 1..m /\ l \in 1..m /\ (n + j) - 1 = n + l
        BY <4>1
      <4>3. h[n + j] = h[n + l] \o b[j] /\ h[n + l] = f[n] \o g[l] /\ g[j] = g[l] \o b[j]
        BY <2>3, <2>6, <3>1, <3>4, <4>1, <4>2, Zenon DEF GrownAlong
      <4>4. f[n] \in Seq(X) /\ g[l] \in Seq(X) /\ b[j] \in Seq(X)
        BY <2>2, <2>3, <3>2, <4>2
      <4>5. (f[n] \o g[l]) \o b[j] = f[n] \o (g[l] \o b[j])
        <5>1. PICK x : x = f[n]
          OBVIOUS
        <5>2. PICK y : y = g[l]
          OBVIOUS
        <5>3. PICK z : z = b[j]
          OBVIOUS
        <5>4. x \in Seq(X) /\ y \in Seq(X) /\ z \in Seq(X)
          BY <4>4, <5>1, <5>2, <5>3, Zenon
        <5>5. (x \o y) \o z = x \o (y \o z)
          BY <5>4, <1>0, Zenon
        <5>. QED
          BY <5>1, <5>2, <5>3, <5>5, Zenon
      <4>. QED
        BY <3>1, <4>2, <4>3, <4>5, Zenon
    <3>5. \A j \in 1..m : j \in P
      BY <3>3, <3>4, UpTo
    <3>. QED
      BY <3>1, <3>5, Zenon
  <2>8. m \in 1..m
    BY <2>1
  <2>. QED
    BY <2>2, <2>3, <2>4, <2>7, <2>8, Zenon
<1>. QED
  BY <1>1, <1>2, <1>3

\* f is the sequences of s, c long, end to end.
Evenly(f, s, c) ==
    /\ Len(f) = c * Len(s)
    /\ \A i \in 1..Len(s) : \A j \in 1..c : f[c * (i - 1) + j] = s[i][j]

LEMMA FlattenEven ==
    ASSUME NEW X, NEW s \in Seq(Seq(X)), NEW c \in {1, 4, 6},
           \A i \in 1..Len(s) : Len(s[i]) = c
    PROVE  Evenly(FlattenSeq(s), s, c)
<1>1. CASE Len(s) = 0
  <2>1. s = <<>>
    BY <1>1, EmptyEnds
  <2>. QED
    BY <1>1, <2>1, FlattenEmpty DEF Evenly
<1>2. CASE Len(s) # 0
  <2>. PICK n \in Nat : n = Len(s) /\ n # 0
    BY <1>2
  <2>1. PICK f : /\ GrownAlong(f, s, n) /\ FlattenSeq(s) = f[n]
                 /\ \A i \in 1..n : f[i] \in Seq(X)
    BY <1>2, FlattenAlong
  <2>. DEFINE Even(m) == /\ Len(f[m]) = c * m
                         /\ \A i \in 1..m : \A j \in 1..c : f[m][c * (i - 1) + j] = s[i][j]
  <2>2. PICK P : P = {m \in 1..n : Even(m)}
    OBVIOUS
  <2>3. 1 \in P
    <3>1. f[1] = s[1] /\ 1 \in 1..n
      BY <2>1 DEF GrownAlong
    <3>2. Len(f[1]) = c * 1
      BY <3>1
    <3>3. \A j \in 1..c : c * (1 - 1) + j = j
      OBVIOUS
    <3>4. ASSUME NEW i \in 1..1, NEW j \in 1..c PROVE f[1][c * (i - 1) + j] = s[i][j]
      <4>1. i = 1
        OBVIOUS
      <4>. QED
        BY <3>1, <3>3, <4>1, Zenon
    <3>5. Even(1)
      BY <3>2, <3>4, Zenon
    <3>. QED
      BY <2>2, <3>1, <3>5, Zenon
  <2>4. ASSUME NEW m \in 2..n, m - 1 \in P PROVE m \in P
    <3>1. PICK l \in Nat : l = m - 1
      OBVIOUS
    <3>2. m \in 1..n /\ l \in 1..n /\ m = l + 1
      BY <3>1
    <3>3. /\ Len(f[l]) = c * l
          /\ \A i \in 1..l : \A j \in 1..c : f[l][c * (i - 1) + j] = s[i][j]
      BY <2>2, <2>4, <3>1, Zenon
    <3>4. f[m] = f[l] \o s[m] /\ f[l] \in Seq(X)
      BY <2>1, <3>1, <3>2, Zenon DEF GrownAlong
    <3>9. s[m] \in Seq(X) /\ Len(s[m]) = c
      BY <3>2
    <3>5. /\ Len(f[m]) = Len(f[l]) + c
          /\ \A i \in 1..Len(f[l]) : f[m][i] = f[l][i]
          /\ \A j \in 1..c : f[m][Len(f[l]) + j] = s[m][j]
      <4>1. PICK a : a = f[l]
        OBVIOUS
      <4>2. PICK b : b = s[m]
        OBVIOUS
      <4>3. /\ Len(a \o b) = Len(a) + Len(b)
            /\ \A i \in 1..Len(a) : (a \o b)[i] = a[i]
            /\ \A j \in 1..Len(b) : (a \o b)[Len(a) + j] = b[j]
        <5>1. a \in Seq(X) /\ b \in Seq(X)
          BY <3>4, <3>9, <4>1, <4>2, Zenon
        <5>. QED
          BY <5>1, Joined
      <4>. QED
        BY <3>4, <3>9, <4>1, <4>2, <4>3, Zenon
    <3>6. Len(f[m]) = c * m
      <4>1. c * l + c = c * m
        BY <3>2
      <4>. QED
        BY <3>3, <3>5, <4>1, Zenon
    <3>7. ASSUME NEW i \in 1..m, NEW j \in 1..c PROVE f[m][c * (i - 1) + j] = s[i][j]
      <4>1. CASE i = m
        <5>1. c * (i - 1) + j = c * l + j
          BY <3>1, <4>1
        <5>. QED
          BY <3>3, <3>5, <4>1, <5>1, Zenon
      <4>2. CASE i # m
        <5>1. i \in 1..l
          BY <3>2, <4>2
        <5>2. PICK k : k = c * (i - 1) + j
          OBVIOUS
        <5>3. k \in 1..(c * l)
          <6>1. CASE c = 4
            BY <5>1, <5>2, <6>1
          <6>2. CASE c = 6
            BY <5>1, <5>2, <6>2
          <6>3. CASE c = 1
            BY <5>1, <5>2, <6>3
          <6>. QED
            BY <6>1, <6>2, <6>3
        <5>4. f[m][k] = f[l][k] /\ f[l][k] = s[i][j]
          BY <3>3, <3>5, <5>1, <5>2, <5>3, Zenon
        <5>. QED
          BY <5>2, <5>4, Zenon
      <4>. QED
        BY <4>1, <4>2
    <3>8. Even(m)
      BY <3>6, <3>7, Zenon
    <3>. QED
      BY <2>2, <3>2, <3>8, Zenon
  <2>5. \A m \in 1..n : m \in P
    BY <2>3, <2>4, UpTo
  <2>6. n \in 1..n
    OBVIOUS
  <2>7. Even(n)
    BY <2>2, <2>5, <2>6, Zenon
  <2>. QED
    BY <2>1, <2>7, Zenon DEF Evenly
<1>. QED
  BY <1>1, <1>2

\* A buffer large enough refuses no field.
LEMMA NoneRefused ==
    ASSUME NEW fields \in Seq(Bytes), NEW size \in Nat, Len(FlattenSeq(fields)) <= size
    PROVE  AddFields(fields, size) = FlattenSeq(fields)
<1>1. PICK a : Adding(a, fields, size) /\ AddFields(fields, size) = a[Len(fields)]
  BY FieldsAdded
<1>2. CASE Len(fields) = 0
  <2>1. fields = <<>>
    BY <1>2, EmptyEnds
  <2>. QED
    BY <1>1, <1>2, <2>1, FlattenEmpty, Zenon DEF Adding
<1>3. CASE Len(fields) # 0
  <2>. PICK n \in Nat : n = Len(fields) /\ n # 0
    BY <1>3
  <2>1. PICK f : /\ GrownAlong(f, fields, n) /\ FlattenSeq(fields) = f[n]
                 /\ \A i \in 1..n : f[i] \in Bytes
    BY <1>3, FlattenAlong DEF Bytes
  <2>2. ASSUME NEW i \in 2..n
        PROVE  /\ f[i] = f[i - 1] \o fields[i]
               /\ f[i] \in Bytes /\ f[i - 1] \in Bytes /\ fields[i] \in Bytes
               /\ Len(f[i]) = Len(f[i - 1]) + Len(fields[i])
    <3>1. i \in 1..n /\ i - 1 \in 1..n
      OBVIOUS
    <3>2. f[i] = f[i - 1] \o fields[i]
      BY <2>1, Zenon DEF GrownAlong
    <3>3. f[i] \in Bytes /\ f[i - 1] \in Bytes
      BY <2>1, <3>1, Zenon
    <3>4. fields[i] \in Bytes
      BY <3>1
    <3>. QED
      BY <3>2, <3>3, <3>4, Joined DEF Bytes
  <2>3. \A i \in 1..n : Len(f[i]) <= size
    <3>1. PICK P : P = {i \in 1..n : \A j \in 1..i : Len(f[j]) <= Len(f[i])}
      OBVIOUS
    <3>2. \A i \in 1..n : Len(f[i]) \in Nat
      BY <2>1 DEF Bytes
    <3>3. 1 \in P
      BY <3>1, <3>2
    <3>4. ASSUME NEW i \in 2..n, i - 1 \in P PROVE i \in P
      <4>1. Len(f[i]) = Len(f[i - 1]) + Len(fields[i]) /\ Len(fields[i]) \in Nat
        BY <2>2, LenNat, Zenon
      <4>2. ASSUME NEW j \in 1..i PROVE Len(f[j]) <= Len(f[i])
        <5>1. CASE j = i
          BY <3>2, <5>1
        <5>2. CASE j # i
          <6>1. j \in 1..(i - 1) /\ j \in 1..n /\ i - 1 \in 1..n /\ i \in 1..n
            BY <5>2
          <6>2. Len(f[j]) <= Len(f[i - 1])
            BY <3>1, <3>4, <6>1, Zenon
          <6>3. Len(f[j]) \in Nat /\ Len(f[i - 1]) \in Nat
            BY <3>2, <6>1, Zenon
          <6>4. PICK x \in Nat : x = Len(f[j])
            BY <6>3
          <6>5. PICK y \in Nat : y = Len(f[i - 1])
            BY <6>3
          <6>6. PICK z \in Nat : z = Len(fields[i])
            BY <4>1
          <6>7. x <= y + z
            BY <6>2, <6>4, <6>5
          <6>. QED
            BY <4>1, <6>4, <6>5, <6>6, <6>7, Zenon
        <5>. QED
          BY <5>1, <5>2
      <4>3. i \in 1..n
        OBVIOUS
      <4>. QED
        BY <3>1, <4>2, <4>3, Zenon
    <3>5. \A i \in 1..n : i \in P
      BY <3>3, <3>4, UpTo
    <3>6. \A i \in 1..n : Len(f[i]) <= Len(f[n])
      <4>1. n \in P
        BY <3>5
      <4>. QED
        BY <3>1, <4>1, Zenon
    <3>7. Len(f[n]) <= size /\ n \in 1..n
      BY <2>1
    <3>. QED
      BY <3>2, <3>6, <3>7
  <2>4. \A i \in 1..n : a[i] = f[i]
    <3>1. PICK P : P = {i \in 1..n : a[i] = f[i]}
      OBVIOUS
    <3>2. 1 \in P
      <4>1. 1 \in 1..n /\ 1 - 1 = 0 /\ fields[1] \in Bytes
        OBVIOUS
      <4>2. f[1] = fields[1] /\ a[0] = <<>> /\ Len(f[1]) <= size
        BY <1>1, <2>1, <2>3, <4>1 DEF GrownAlong, Adding
      <4>3. Len(<<>>) = 0 /\ <<>> \o fields[1] = fields[1] /\ Len(fields[1]) \in Nat
        BY <4>1, EmptyEnds DEF Bytes
      <4>4. ~(Len(a[0]) + Len(fields[1]) > size)
        BY <4>2, <4>3
      <4>5. a[1] = IF Len(a[0]) + Len(fields[1]) > size THEN a[0] ELSE a[0] \o fields[1]
        BY <1>1, <4>1 DEF Adding
      <4>6. a[1] = f[1]
        BY <4>2, <4>3, <4>4, <4>5, Zenon
      <4>. QED
        BY <3>1, <4>1, <4>6, Zenon
    <3>3. ASSUME NEW i \in 2..n, i - 1 \in P PROVE i \in P
      <4>1. i \in 1..n /\ a[i - 1] = f[i - 1]
        BY <3>1, <3>3
      <4>2. a[i] = IF Len(a[i - 1]) + Len(fields[i]) > size THEN a[i - 1] ELSE a[i - 1] \o fields[i]
        BY <1>1, <4>1, Zenon DEF Adding
      <4>3. ~(Len(f[i - 1]) + Len(fields[i]) > size)
        <5>1. Len(f[i - 1]) + Len(fields[i]) <= size
          BY <2>2, <2>3, <4>1, Zenon
        <5>2. Len(f[i - 1]) + Len(fields[i]) \in Nat
          BY <2>2, LenNat
        <5>3. PICK x \in Nat : x = Len(f[i - 1]) + Len(fields[i])
          BY <5>2
        <5>4. x <= size
          BY <5>1, <5>3, Zenon
        <5>5. ~(x > size)
          BY <5>4
        <5>. QED
          BY <5>3, <5>5, Zenon
      <4>4. a[i] = f[i]
        BY <2>2, <4>1, <4>2, <4>3, Zenon
      <4>. QED
        BY <3>1, <4>1, <4>4, Zenon
    <3>4. \A i \in 1..n : i \in P
      BY <3>2, <3>3, UpTo
    <3>. QED
      BY <3>1, <3>4, Zenon
  <2>5. n \in 1..n
    OBVIOUS
  <2>. QED
    BY <1>1, <2>1, <2>4, <2>5, Zenon
<1>. QED
  BY <1>2, <1>3


-----------------------------------------------------------------------------
(* Where bytes lie in a buffer                                             *)

LEMMA BytesJoined ==
    ASSUME NEW a \in Bytes, NEW b \in Bytes
    PROVE  /\ a \o b \in Bytes /\ Len(a \o b) = Len(a) + Len(b)
           /\ \A i \in 1..Len(a) : (a \o b)[i] = a[i]
           /\ \A i \in 1..Len(b) : (a \o b)[Len(a) + i] = b[i]
  BY Joined DEF Bytes

LEMMA FieldsConcat ==
    ASSUME NEW a \in Seq(Bytes), NEW b \in Seq(Bytes)
    PROVE  /\ a \o b \in Seq(Bytes)
           /\ FlattenSeq(a \o b) = FlattenSeq(a) \o FlattenSeq(b)
<1>1. a \o b \in Seq(Bytes)
  BY Joined
<1>2. FlattenSeq(a \o b) = FlattenSeq(a) \o FlattenSeq(b)
  BY FlattenConcat DEF Bytes
<1>. QED
  BY <1>1, <1>2

LEMMA EvenBytes ==
    ASSUME NEW s \in Seq(Bytes), NEW c \in {1, 4, 6}, \A i \in 1..Len(s) : Len(s[i]) = c
    PROVE  Evenly(FlattenSeq(s), s, c)
<1>1. s \in Seq(Seq(0..255))
  BY DEF Bytes
<1>. QED
  BY <1>1, FlattenEven

\* The bytes s lie in w at position o, which counts from 0.
Lies(w, o, s) == \A k \in 1..Len(s) : w[o + k] = s[k]

LEMMA LiesJoined ==
    ASSUME NEW w, NEW o \in Nat, NEW a \in Bytes, NEW b \in Bytes, Lies(w, o, a \o b)
    PROVE  Lies(w, o, a) /\ Lies(w, o + Len(a), b)
<1>. PICK n \in Nat : n = Len(a)
  BY LenNat
<1>. PICK m \in Nat : m = Len(b)
  BY LenNat
<1>. PICK c : c = a \o b
  OBVIOUS
<1>1. /\ Len(c) = n + m
      /\ \A k \in 1..n : c[k] = a[k]
      /\ \A k \in 1..m : c[n + k] = b[k]
  BY Joined DEF Bytes
<1>2. \A k \in 1..(n + m) : w[o + k] = c[k]
  BY <1>1, Zenon DEF Lies
<1>3. ASSUME NEW k \in 1..n PROVE w[o + k] = a[k]
  <2>1. k \in 1..(n + m)
    OBVIOUS
  <2>. QED
    BY <1>1, <1>2, <2>1, Zenon
<1>4. ASSUME NEW k \in 1..m PROVE w[(o + n) + k] = b[k]
  <2>1. n + k \in 1..(n + m) /\ o + (n + k) = (o + n) + k
    OBVIOUS
  <2>. QED
    BY <1>1, <1>2, <2>1, Zenon
<1>. QED
  BY <1>3, <1>4, Zenon DEF Lies

LEMMA LiesSplit ==
    ASSUME NEW w, NEW o \in Nat, NEW a \in Bytes, NEW b \in Bytes, NEW c, c = a \o b,
           NEW n, Len(a) = n, Lies(w, o, c)
    PROVE  Lies(w, o, a) /\ Lies(w, o + n, b)
<1>1. Lies(w, o, a \o b)
  BY Zenon
<1>2. Lies(w, o, a) /\ Lies(w, o + Len(a), b)
  BY <1>1, LiesJoined
<1>. QED
  BY <1>2, Zenon

LEMMA LiesEven ==
    ASSUME NEW w, NEW o \in Nat, NEW s \in Seq(Bytes),
           \A i \in 1..Len(s) : Len(s[i]) = 4, Lies(w, o, FlattenSeq(s)),
           NEW i \in 1..Len(s)
    PROVE  Lies(w, o + 4 * (i - 1), s[i])
<1>. PICK n \in Nat : n = Len(s)
  OBVIOUS
<1>. PICK f : f = FlattenSeq(s)
  OBVIOUS
<1>1. /\ Len(f) = 4 * n
      /\ \A h \in 1..n : \A j \in 1..4 : f[4 * (h - 1) + j] = s[h][j]
  <2>1. /\ Len(FlattenSeq(s)) = 4 * Len(s)
        /\ \A h \in 1..Len(s) : \A j \in 1..4 : FlattenSeq(s)[4 * (h - 1) + j] = s[h][j]
    <3>1. Evenly(FlattenSeq(s), s, 4)
      BY EvenBytes
    <3>. QED
      BY <3>1, Zenon DEF Evenly
  <2>. QED
    BY <2>1, Zenon
<1>2. \A k \in 1..(4 * n) : w[o + k] = f[k]
  BY <1>1, Zenon DEF Lies
<1>3. ASSUME NEW j \in 1..4 PROVE w[(o + 4 * (i - 1)) + j] = s[i][j]
  <2>1. /\ 4 * (i - 1) + j \in 1..(4 * n)
        /\ o + (4 * (i - 1) + j) = (o + 4 * (i - 1)) + j
    OBVIOUS
  <2>. QED
    BY <1>1, <1>2, <2>1, Zenon
<1>4. Len(s[i]) = 4
  OBVIOUS
<1>. QED
  BY <1>3, <1>4, Zenon DEF Lies

-----------------------------------------------------------------------------
(* Words                                                                   *)

\* Large numerals are kept in these.
IsHalf(v) == v \in Nat /\ v < 65536
IsWord(v) == v \in Nat /\ v < 4294967296
HalfOf(a, b) == a * 256 + b
WordOf(h, l) == h * 65536 + l

LEMMA HalfBytes ==
    ASSUME NEW v, IsHalf(v)
    PROVE  /\ U16(v) \in Bytes /\ Len(U16(v)) = 2
           /\ HalfOf(U16(v)[1], U16(v)[2]) = v
<1>1. /\ v \div 256 \in 0..255 /\ v % 256 \in 0..255
      /\ (v \div 256) * 256 + (v % 256) = v
  BY DEF IsHalf
<1>. QED
  BY <1>1 DEF U16, Bytes, HalfOf

LEMMA WordHalves ==
    ASSUME NEW v, IsWord(v)
    PROVE  \E h, l : /\ IsHalf(h) /\ IsHalf(l) /\ v = WordOf(h, l)
                     /\ U32(v) = U16(h) \o U16(l)
<1>1. v \in Nat /\ v < 4294967296
  BY DEF IsWord
<1>2. IsHalf(v \div 65536) /\ IsHalf(v % 65536)
  BY <1>1, SMT DEF IsHalf
<1>3. v = WordOf(v \div 65536, v % 65536)
  BY <1>1, SMT DEF WordOf
<1>. HIDE <1>1
<1>. QED
  BY <1>2, <1>3, SMT DEF U32

LEMMA WordBytes ==
    ASSUME NEW v, IsWord(v)
    PROVE  /\ U32(v) \in Bytes /\ Len(U32(v)) = 4
           /\ WordOf(HalfOf(U32(v)[1], U32(v)[2]), HalfOf(U32(v)[3], U32(v)[4])) = v
<1>1. PICK h, l : /\ IsHalf(h) /\ IsHalf(l) /\ v = WordOf(h, l)
                  /\ U32(v) = U16(h) \o U16(l)
  BY WordHalves
<1>. PICK a : a = U16(h)
  OBVIOUS
<1>. PICK b : b = U16(l)
  OBVIOUS
<1>2. /\ a \in Bytes /\ Len(a) = 2 /\ HalfOf(a[1], a[2]) = h
      /\ b \in Bytes /\ Len(b) = 2 /\ HalfOf(b[1], b[2]) = l
  BY <1>1, HalfBytes
<1>3. U32(v) = a \o b
  BY <1>1, Zenon
<1>4. /\ a \o b \in Bytes /\ Len(a \o b) = 4
      /\ (a \o b)[1] = a[1] /\ (a \o b)[2] = a[2]
      /\ (a \o b)[3] = b[1] /\ (a \o b)[4] = b[2]
  <2>1. a \in Bytes /\ b \in Bytes /\ Len(a) = 2 /\ Len(b) = 2
    BY <1>2, Zenon
  <2>2. /\ a \o b \in Bytes /\ Len(a \o b) = Len(a) + Len(b)
        /\ \A i \in 1..Len(a) : (a \o b)[i] = a[i]
        /\ \A i \in 1..Len(b) : (a \o b)[Len(a) + i] = b[i]
    BY <2>1, BytesJoined
  <2>3. 1 \in 1..2 /\ 2 \in 1..2 /\ 2 + 1 = 3 /\ 2 + 2 = 4
    OBVIOUS
  <2>4. (a \o b)[1] = a[1] /\ (a \o b)[2] = a[2]
    BY <2>1, <2>2, <2>3, Zenon
  <2>5. (a \o b)[2 + 1] = b[1] /\ (a \o b)[2 + 2] = b[2]
    BY <2>1, <2>2, <2>3, Zenon
  <2>. QED
    BY <2>1, <2>2, <2>3, <2>4, <2>5, Zenon
<1>. QED
  BY <1>1, <1>2, <1>3, <1>4, Zenon

LEMMA ReadHalf ==
    ASSUME NEW v, IsHalf(v), NEW o \in Nat, Lies(wire, o, U16(v))
    PROVE  Word16(o) = v
<1>1. 1 \in 1..2 /\ 2 \in 1..2 /\ o + 2 = (o + 1) + 1
  OBVIOUS
<1>2. Len(U16(v)) = 2 /\ HalfOf(U16(v)[1], U16(v)[2]) = v
  BY HalfBytes
<1>3. wire[o + 1] = U16(v)[1] /\ wire[o + 2] = U16(v)[2]
  BY <1>1, <1>2, Zenon DEF Lies
<1>. QED
  BY <1>1, <1>2, <1>3, Zenon DEF Word16, Byte, HalfOf

LEMMA ReadWord ==
    ASSUME NEW v, IsWord(v), NEW o \in Nat, Lies(wire, o, U32(v))
    PROVE  Word32(o) = v
<1>1. /\ 1 \in 1..4 /\ 2 \in 1..4 /\ 3 \in 1..4 /\ 4 \in 1..4
      /\ o + 2 = (o + 1) + 1 /\ o + 3 = (o + 2) + 1 /\ o + 4 = ((o + 2) + 1) + 1
  OBVIOUS
<1>2. /\ Len(U32(v)) = 4
      /\ WordOf(HalfOf(U32(v)[1], U32(v)[2]), HalfOf(U32(v)[3], U32(v)[4])) = v
  BY WordBytes
<1>3. /\ wire[o + 1] = U32(v)[1] /\ wire[o + 2] = U32(v)[2]
      /\ wire[o + 3] = U32(v)[3] /\ wire[o + 4] = U32(v)[4]
  BY <1>1, <1>2, Zenon DEF Lies
<1>4. Word16(o) = HalfOf(wire[o + 1], wire[o + 2])
  BY Zenon, <1>1 DEF Word16, Byte, HalfOf
<1>5. Word16(o + 2) = HalfOf(wire[o + 3], wire[o + 4])
  BY Zenon, <1>1 DEF Word16, Byte, HalfOf
<1>6. Word32(o) = WordOf(Word16(o), Word16(o + 2))
  BY SMT DEF Word32, WordOf
<1>. QED
  BY <1>2, <1>3, <1>4, <1>5, <1>6, Zenon

-----------------------------------------------------------------------------
(* The compound: a report, then the cname, then the APP, the two of them   *)
(* being there or not                                                      *)

InfoOf(type) == IF type = SR THEN SenderInfo ELSE <<>>

\* A report packet with n reports.
ReportPacket(type, n) ==
    [type |-> type, padding |-> IF type = SR THEN 1 ELSE 0,
     bytes |-> 8 + 4 * Len(InfoOf(type)) + 24 * n, ssrc |-> OwnSsrc,
     info |-> InfoOf(type), body |-> [i \in 1..n |-> ReportOf(i)], padlen |-> 0]

CnamePacket(len) == Packet(SDES, 0, 10 + len, OwnSsrc, <<[id |-> CNAME, value |-> Text(len)]>>)

PadOf(len) == IF len % 4 = 0 THEN 0 ELSE 4 - (len % 4)

AppPacket(len, ts) ==
    Packet(APP, PaddingFlag(PadOf(len)), 12 + len + PadOf(len), OwnSsrc, AppData(len, ts))

IsReport(p) == \E type \in {SR, RR}, n \in 0..MAX_REPORTS : p = ReportPacket(type, n)
IsBare(p) == \E type \in {SR, RR} : p = ReportPacket(type, 0)
IsOpen(p) == \E len \in 1..255 : p = CnamePacket(len)
IsCname(p) == \E len \in 1..255 : p = ChunkEnded(CnamePacket(len))
IsApp(p) == \E len \in AppLens, ts \in Stamps : p = AppPacket(len, ts)

IsCompound(hs) ==
    /\ Len(hs) \in 1..3 /\ IsReport(hs[1])
    /\ Len(hs) = 2 => IsCname(hs[2]) \/ IsApp(hs[2])
    /\ Len(hs) = 3 => IsCname(hs[2]) /\ IsApp(hs[3])

\* What the compound looks like before each call.
ShapeInv ==
    /\ pc = "new" => heads = <<>>
    /\ pc = "info" => heads = <<Packet(SR, 1, 28, 0, <<>>)>>
    /\ pc = "cname" => Len(heads) = 1 /\ IsBare(heads[1])
    /\ pc = "end" => /\ Len(heads) \in 1..2 /\ IsBare(heads[1])
                     /\ Len(heads) = 2 => IsOpen(heads[2])
    /\ pc = "reports" => /\ Len(heads) \in 1..2 /\ IsReport(heads[1])
                         /\ Len(heads) = 2 => IsCname(heads[2])
    /\ pc \in {"pack", "sent", "scan", "item", "read"} => IsCompound(heads)

LEMMA ReportFacts ==
    ASSUME NEW type \in {SR, RR}, NEW n \in Nat
    PROVE  /\ ReportPacket(type, n).type = type
           /\ ReportPacket(type, n).bytes = 8 + 4 * Len(InfoOf(type)) + 24 * n
           /\ Len(ReportPacket(type, n).body) = n
           /\ ReportPacket(type, n).body = [i \in 1..n |-> ReportOf(i)]
           /\ ReportPacket(type, n).ssrc = OwnSsrc
           /\ ReportPacket(type, n).info = InfoOf(type)
           /\ ReportPacket(type, n).padding = IF type = SR THEN 1 ELSE 0
  BY DEF ReportPacket

LEMMA InfoLength == Len(InfoOf(SR)) = 5 /\ Len(InfoOf(RR)) = 0
  BY DEF InfoOf, SenderInfo, SR, RR

LEMMA WithOther ==
    ASSUME NEW t, NEW g, NEW y, NEW o, NEW f, NEW c, NEW e, NEW b, NEW z
    PROVE  WithReports([type |-> t, padding |-> g, bytes |-> y, ssrc |-> o,
                        info |-> f, body |-> c, padlen |-> e], b, z)
               = [type |-> t, padding |-> g, bytes |-> z, ssrc |-> o,
                  info |-> f, body |-> b, padlen |-> e]
<1>1. [[type |-> t, padding |-> g, bytes |-> y, ssrc |-> o,
        info |-> f, body |-> c, padlen |-> e] EXCEPT !.body = b]
          = [type |-> t, padding |-> g, bytes |-> y, ssrc |-> o,
             info |-> f, body |-> b, padlen |-> e]
  OBVIOUS
<1>2. [[type |-> t, padding |-> g, bytes |-> y, ssrc |-> o,
        info |-> f, body |-> b, padlen |-> e] EXCEPT !.bytes = z]
          = [type |-> t, padding |-> g, bytes |-> z, ssrc |-> o,
             info |-> f, body |-> b, padlen |-> e]
  OBVIOUS
<1>. QED
  BY <1>1, <1>2 DEF WithReports

\* What one report more makes of a report packet (rtcp_add_report).
LEMMA ReportAppended ==
    ASSUME NEW type \in {SR, RR}, NEW n \in Nat
    PROVE  WithReports(ReportPacket(type, n),
                       Append(ReportPacket(type, n).body, ReportOf(n + 1)),
                       ReportPacket(type, n).bytes + 24) = ReportPacket(type, n + 1)
<1>1. Append([i \in 1..n |-> ReportOf(i)], ReportOf(n + 1)) = [i \in 1..(n + 1) |-> ReportOf(i)]
  <2>. PICK R : R = [i \in 1..(n + 1) |-> ReportOf(i)]
    OBVIOUS
  <2>1. [i \in 1..n |-> ReportOf(i)] = [i \in 1..n |-> R[i]] /\ ReportOf(n + 1) = R[n + 1]
    OBVIOUS
  <2>2. Append([i \in 1..n |-> R[i]], R[n + 1]) = [i \in 1..(n + 1) |-> R[i]]
    OBVIOUS
  <2>. QED
    BY <2>1, <2>2
<1>. PICK b : b = [i \in 1..(n + 1) |-> ReportOf(i)]
  OBVIOUS
<1>2. Len(InfoOf(type)) \in Nat
  BY InfoLength
<1>3. (8 + 4 * Len(InfoOf(type)) + 24 * n) + 24 = 8 + 4 * Len(InfoOf(type)) + 24 * (n + 1)
  BY <1>2
<1>. PICK z : z = 8 + 4 * Len(InfoOf(type)) + 24 * (n + 1)
  OBVIOUS
<1>4. WithReports(ReportPacket(type, n), b, z) = ReportPacket(type, n + 1)
  <2>. PICK g : g = IF type = SR THEN 1 ELSE 0
    OBVIOUS
  <2>. PICK f : f = InfoOf(type)
    OBVIOUS
  <2>. PICK y : y = 8 + 4 * Len(InfoOf(type)) + 24 * n
    OBVIOUS
  <2>. PICK c : c = [i \in 1..n |-> ReportOf(i)]
    OBVIOUS
  <2>1. ReportPacket(type, n) = [type |-> type, padding |-> g, bytes |-> y, ssrc |-> OwnSsrc,
                                 info |-> f, body |-> c, padlen |-> 0]
    BY Zenon DEF ReportPacket
  <2>2. ReportPacket(type, n + 1) = [type |-> type, padding |-> g, bytes |-> z,
                                     ssrc |-> OwnSsrc, info |-> f, body |-> b, padlen |-> 0]
    BY Zenon DEF ReportPacket
  <2>3. WithReports([type |-> type, padding |-> g, bytes |-> y, ssrc |-> OwnSsrc,
                     info |-> f, body |-> c, padlen |-> 0], b, z)
            = [type |-> type, padding |-> g, bytes |-> z, ssrc |-> OwnSsrc,
               info |-> f, body |-> b, padlen |-> 0]
    BY WithOther
  <2>. QED
    BY <2>1, <2>2, <2>3, Zenon
<1>. QED
  BY <1>1, <1>3, <1>4, ReportFacts, Zenon

-----------------------------------------------------------------------------
(* The shape is kept                                                       *)

LEMMA FirstShaped ==
    ASSUME ShapeInv, ReceiverReportNew \/ SenderReportNew
    PROVE  ShapeInv'
<1>1. CASE ReceiverReportNew
  <2>1. Packet(RR, 0, 8, OwnSsrc, <<>>) = ReportPacket(RR, 0)
    BY DEF Packet, ReportPacket, InfoOf, SR, RR
  <2>2. heads' = <<ReportPacket(RR, 0)>> /\ pc' = "cname"
    BY <1>1, <2>1 DEF ReceiverReportNew, HEAD_BYTE, SSRC_BYTE
  <2>. QED
    BY <2>2 DEF ShapeInv, IsBare
<1>2. CASE SenderReportNew
  <2>1. heads' = <<Packet(SR, 1, 28, 0, <<>>)>> /\ pc' = "info"
    BY <1>2 DEF SenderReportNew, HEAD_BYTE, SENDERINFO_BYTE
  <2>. QED
    BY <2>1 DEF ShapeInv
<1>. QED
  BY <1>1, <1>2

LEMMA InfoShaped ==
    ASSUME ShapeInv, SetSenderInfo
    PROVE  ShapeInv'
<1>1. heads = <<Packet(SR, 1, 28, 0, <<>>)>> /\ pc' = "cname"
  BY DEF ShapeInv, SetSenderInfo
<1>2. [Packet(SR, 1, 28, 0, <<>>) EXCEPT !.ssrc = OwnSsrc, !.info = SenderInfo]
          = ReportPacket(SR, 0)
  <2>1. [Packet(SR, 1, 28, 0, <<>>) EXCEPT !.ssrc = OwnSsrc, !.info = SenderInfo]
            = [type |-> SR, padding |-> 1, bytes |-> 28, ssrc |-> OwnSsrc,
               info |-> SenderInfo, body |-> <<>>, padlen |-> 0]
    <3>1. [[type |-> SR, padding |-> 1, bytes |-> 28, ssrc |-> 0,
            info |-> <<>>, body |-> <<>>, padlen |-> 0] EXCEPT !.ssrc = OwnSsrc]
              = [type |-> SR, padding |-> 1, bytes |-> 28, ssrc |-> OwnSsrc,
                 info |-> <<>>, body |-> <<>>, padlen |-> 0]
      OBVIOUS
    <3>2. [[type |-> SR, padding |-> 1, bytes |-> 28, ssrc |-> OwnSsrc,
            info |-> <<>>, body |-> <<>>, padlen |-> 0] EXCEPT !.info = SenderInfo]
              = [type |-> SR, padding |-> 1, bytes |-> 28, ssrc |-> OwnSsrc,
                 info |-> SenderInfo, body |-> <<>>, padlen |-> 0]
      OBVIOUS
    <3>. QED
      BY <3>1, <3>2 DEF Packet
  <2>2. 8 + 4 * Len(InfoOf(SR)) + 24 * 0 = 28 /\ [i \in 1..0 |-> ReportOf(i)] = <<>>
    BY InfoLength
  <2>3. InfoOf(SR) = SenderInfo
    BY DEF InfoOf
  <2>4. ReportPacket(SR, 0)
            = [type |-> SR, padding |-> 1, bytes |-> 28, ssrc |-> OwnSsrc,
               info |-> SenderInfo, body |-> <<>>, padlen |-> 0]
    BY <2>2, <2>3, Zenon DEF ReportPacket
  <2>. QED
    BY <2>1, <2>4, Zenon
<1>3. heads' = <<ReportPacket(SR, 0)>>
  BY <1>1, <1>2 DEF SetSenderInfo
<1>. QED
  BY <1>1, <1>3 DEF ShapeInv, IsBare

LEMMA SecondAdded ==
    ASSUME NEW hs \in Seq(Packets), Len(hs) = 1, NEW q \in Packets
    PROVE  Len(Append(hs, q)) = 2 /\ Append(hs, q)[1] = hs[1] /\ Append(hs, q)[2] = q
<1>1. Len(Append(hs, q)) = 2
  <2>1. Len(Append(hs, q)) = Len(hs) + 1
    BY AppendProperties, Zenon
  <2>. QED
    BY <2>1
<1>2. Append(hs, q)[2] = q
  BY AppendProperties
<1>3. Append(hs, q)[1] = hs[1]
  <2>1. 1 \in 1..Len(hs)
    OBVIOUS
  <2>. QED
    BY <2>1, AppendProperties
<1>. QED
  BY <1>1, <1>2, <1>3

LEMMA CnameTyped ==
    ASSUME NEW len \in 1..255
    PROVE  /\ CnamePacket(len) \in Packets
           /\ CnamePacket(len).type = SDES
           /\ CnamePacket(len).bytes = 10 + len
<1>. PICK text : text = Text(len)
  OBVIOUS
<1>1. text \in Seq(Nat)
  BY TextTyped
<1>2. [id |-> CNAME, value |-> text] \in Item
  BY <1>1 DEF Item, CNAME
<1>. PICK body : body = <<[id |-> CNAME, value |-> text]>>
  OBVIOUS
<1>3. body \in BodiesOf(SDES)
  BY <1>2 DEF BodiesOf, SDES, SR, RR
<1>4. 10 + len \in Nat /\ OwnSsrc \in Nat
  BY DEF OwnSsrc
<1>. QED
  BY <1>3, <1>4, PacketTyped DEF CnamePacket

LEMMA SdesShaped ==
    ASSUME ShapeInv, BuiltInv, NEW len \in CnameLens, AddSdes(len)
    PROVE  ShapeInv'
<1>1. len \in 1..255
  BY PacketAssumption DEF AddSdes
<1>2. Len(heads) = 1 /\ IsBare(heads[1]) /\ pc' = "end" /\ heads \in Seq(Packets)
  BY DEF ShapeInv, BuiltInv, AddSdes
<1>. PICK p : p = CnamePacket(len)
  OBVIOUS
<1>3. IsOpen(p)
  BY <1>1 DEF IsOpen
<1>4. heads' = heads \/ heads' = Append(heads, p)
  BY DEF AddSdes, CnamePacket, HEAD_BYTE, SSRC_BYTE, ITEM_BYTE
<1>5. /\ Len(heads') \in 1..2 /\ heads'[1] = heads[1]
      /\ Len(heads') = 2 => heads'[2] = p
  <2>1. CASE heads' = heads
    BY <1>2, <2>1
  <2>2. CASE heads' = Append(heads, p)
    <3>1. Len(heads) = 1 /\ heads \in Seq(Packets)
      BY <1>2
    <3>2. Len(heads') = 2 /\ heads'[1] = heads[1] /\ heads'[2] = p
      <4>1. p \in Packets
        BY <1>1, CnameTyped
      <4>. PICK q \in Packets : q = p
        BY <4>1
      <4>. PICK hs \in Seq(Packets) : hs = heads /\ Len(hs) = 1
        BY <3>1
      <4>2. Len(Append(hs, q)) = 2 /\ Append(hs, q)[1] = hs[1] /\ Append(hs, q)[2] = q
        BY SecondAdded
      <4>3. heads' = Append(hs, q)
        BY <2>2, Zenon
      <4>. QED
        BY <4>2, <4>3, Zenon
    <3>. QED
      BY <3>2
  <2>. QED
    BY <1>4, <2>1, <2>2
<1>. QED
  BY <1>2, <1>3, <1>5 DEF ShapeInv

LEMMA EndShaped ==
    ASSUME ShapeInv, BuiltInv, EndSdes
    PROVE  ShapeInv'
<1>1. /\ Len(heads) \in 1..2 /\ IsBare(heads[1]) /\ pc' = "reports"
      /\ Len(heads) = 2 => IsOpen(heads[2])
      /\ heads \in Seq(Packets)
  BY DEF ShapeInv, BuiltInv, EndSdes
<1>2. heads[1].type # SDES /\ IsReport(heads[1])
  <2>1. PICK type \in {SR, RR} : heads[1] = ReportPacket(type, 0)
    BY <1>1 DEF IsBare
  <2>2. 0 \in 0..MAX_REPORTS
    BY PacketAssumption
  <2>3. IsReport(heads[1])
    BY <2>1, <2>2, Zenon DEF IsReport
  <2>4. heads[1].type = type
    <3>1. ReportPacket(type, 0).type = type
      BY ReportFacts
    <3>. QED
      BY <2>1, <3>1, Zenon
  <2>. QED
    BY <2>3, <2>4 DEF SR, RR, SDES
<1>3. Len(heads) = 2 => heads[2].type = SDES /\ IsCname(ChunkEnded(heads[2]))
  <2>. SUFFICES ASSUME Len(heads) = 2
               PROVE  heads[2].type = SDES /\ IsCname(ChunkEnded(heads[2]))
    OBVIOUS
  <2>1. PICK len \in 1..255 : heads[2] = CnamePacket(len)
    BY <1>1 DEF IsOpen
  <2>2. heads[2].type = SDES
    BY <2>1 DEF CnamePacket, Packet
  <2>3. IsCname(ChunkEnded(heads[2]))
    BY <2>1, Zenon DEF IsCname
  <2>. QED
    BY <2>2, <2>3
<1>4. /\ Len(heads') = Len(heads) /\ heads'[1] = heads[1]
      /\ Len(heads) = 2 => heads'[2] = ChunkEnded(heads[2])
  BY <1>1, <1>2, <1>3 DEF EndSdes
<1>. QED
  BY <1>1, <1>2, <1>3, <1>4 DEF ShapeInv

LEMMA AddShaped ==
    ASSUME ShapeInv, BuiltInv, AddReport
    PROVE  ShapeInv'
<1>1. /\ Len(heads) \in 1..2 /\ IsReport(heads[1]) /\ pc' = "reports"
      /\ Len(heads) = 2 => IsCname(heads[2])
      /\ heads \in Seq(Packets)
  BY DEF ShapeInv, BuiltInv, AddReport
<1>2. PICK type \in {SR, RR}, n \in 0..MAX_REPORTS : heads[1] = ReportPacket(type, n)
  BY <1>1 DEF IsReport
<1>9. n \in Nat /\ n <= MAX_REPORTS /\ MAX_REPORTS \in Nat
  BY PacketAssumption
<1>3. Len(heads[1].body) = n /\ n \in Nat
  BY <1>2, <1>9, ReportFacts, ZenonT(60)
<1>4. n + 1 \in 0..MAX_REPORTS
  <2>1. n < MAX_REPORTS
    BY <1>3 DEF AddReport, ReportLeft
  <2>. QED
    BY <1>9, <2>1
<1>5. WithReports(heads[1], Append(heads[1].body, ReportOf(n + 1)), heads[1].bytes + 24)
          = ReportPacket(type, n + 1)
  BY <1>2, <1>3, ReportAppended
<1>6. heads' = [heads EXCEPT ![1] = ReportPacket(type, n + 1)]
  <2>1. heads' = [heads EXCEPT ![1] = WithReports(heads[1],
                     Append(heads[1].body, ReportOf(Len(heads[1].body) + 1)),
                     heads[1].bytes + 24)]
    BY DEF AddReport, WithReports, REPORT_BYTE
  <2>. QED
    BY <1>3, <1>5, <2>1, Zenon
<1>7. IsReport(ReportPacket(type, n + 1))
  BY <1>4 DEF IsReport
<1>. PICK p : p = ReportPacket(type, n + 1)
  OBVIOUS
<1>8. Len(heads') = Len(heads) /\ heads'[1] = p /\ (Len(heads) = 2 => heads'[2] = heads[2])
  BY <1>1, <1>6
<1>. QED
  BY <1>1, <1>7, <1>8 DEF ShapeInv

LEMMA AppShaped ==
    ASSUME ShapeInv, BuiltInv, NEW len \in AppLens, NEW ts \in Stamps, NewApp(len, ts)
    PROVE  ShapeInv'
<1>1. /\ Len(heads) \in 1..2 /\ IsReport(heads[1]) /\ pc' = "pack"
      /\ Len(heads) = 2 => IsCname(heads[2])
      /\ heads \in Seq(Packets)
  BY DEF ShapeInv, BuiltInv, NewApp
<1>. PICK p : p = AppPacket(len, ts)
  OBVIOUS
<1>2. IsApp(p)
  BY DEF IsApp
<1>3. heads' = Append(heads, p)
  BY DEF NewApp, AppPacket, PadOf, HEAD_BYTE, SSRC_BYTE, NAME_BYTE
<1>4. IsCompound(heads')
  BY <1>1, <1>2, <1>3 DEF IsCompound
<1>. QED
  BY <1>1, <1>4 DEF ShapeInv

LEMMA RestShaped ==
    ASSUME ShapeInv, BuiltInv, NoCname \/ NoApp \/ Pack \/ Read \/ UNCHANGED vars
    PROVE  ShapeInv'
<1>1. heads' = heads
  BY DEF NoCname, NoApp, Pack, Read, UnpackFirst, ScanSdes, SdesItem, SdesEnd, ScanApp,
         ScanUnknown, ScanOver, vars
<1>2. CASE NoCname
  <2>1. Len(heads) = 1 /\ IsBare(heads[1]) /\ pc' = "reports"
    BY <1>2 DEF ShapeInv, NoCname
  <2>2. 0 \in 0..MAX_REPORTS
    BY PacketAssumption
  <2>3. IsReport(heads[1])
    BY <2>1, <2>2 DEF IsBare, IsReport
  <2>. QED
    BY <1>1, <2>1, <2>3 DEF ShapeInv
<1>3. CASE NoApp
  <2>1. /\ Len(heads) \in 1..2 /\ IsReport(heads[1]) /\ pc' = "pack"
        /\ Len(heads) = 2 => IsCname(heads[2])
    BY <1>3 DEF ShapeInv, NoApp
  <2>. QED
    BY <1>1, <2>1 DEF ShapeInv, IsCompound
<1>4. CASE Pack \/ Read
  <2>1. /\ pc \in {"pack", "sent", "scan", "item", "read"}
        /\ pc' \in {"pack", "sent", "scan", "item", "read"}
    BY <1>4 DEF Pack, Read, UnpackFirst, ScanSdes, SdesItem, SdesEnd, ScanApp,
           ScanUnknown, ScanOver
  <2>. QED
    BY <1>1, <2>1 DEF ShapeInv
<1>5. CASE UNCHANGED vars
  BY <1>5 DEF ShapeInv, vars
<1>. QED
  BY <1>2, <1>3, <1>4, <1>5

LEMMA InitShaped == Init => ShapeInv
  BY DEF Init, ShapeInv

LEMMA StepShaped == ShapeInv /\ BuiltInv /\ [Next]_vars => ShapeInv'
<1> SUFFICES ASSUME ShapeInv, BuiltInv, [Next]_vars
             PROVE  ShapeInv'
  OBVIOUS
<1>1. CASE ReceiverReportNew \/ SenderReportNew
  BY <1>1, FirstShaped
<1>2. CASE SetSenderInfo
  BY <1>2, InfoShaped
<1>3. CASE \E len \in CnameLens : AddSdes(len)
  BY <1>3, SdesShaped
<1>4. CASE EndSdes
  BY <1>4, EndShaped
<1>5. CASE AddReport
  BY <1>5, AddShaped
<1>6. CASE \E len \in AppLens, ts \in Stamps : NewApp(len, ts)
  BY <1>6, AppShaped
<1>7. CASE NoCname \/ NoApp \/ Pack \/ Read \/ UNCHANGED vars
  BY <1>7, RestShaped
<1>8. CASE Done
  BY <1>8 DEF Done, ShapeInv
<1> QED
  BY <1>1, <1>2, <1>3, <1>4, <1>5, <1>6, <1>7, <1>8 DEF Next, Build

-----------------------------------------------------------------------------
(* The bytes of a packet                                                   *)

BytesOf(p) == FlattenSeq(PacketFields(p))

HeadBytes(p) == <<2 * 64 + p.padding * 32 + CountOf(p), p.type>> \o U16(p.bytes \div 4 - 1)

\* What the fields of a head can say.
Sized(p) ==
    /\ p.padding \in {0, 1} /\ CountOf(p) \in 0..31 /\ p.type \in {SR, RR, SDES, APP}
    /\ p.bytes \in Nat /\ p.bytes % 4 = 0 /\ IsHalf(p.bytes \div 4 - 1) /\ IsWord(p.ssrc)

LEMMA PairTyped ==
    ASSUME NEW x \in 0..255, NEW y \in 0..255
    PROVE  /\ <<x, y>> \in Bytes /\ Len(<<x, y>>) = 2
           /\ <<x, y>>[1] = x /\ <<x, y>>[2] = y
  BY DEF Bytes

LEMMA HeadTyped ==
    ASSUME NEW p, Sized(p)
    PROVE  /\ HeadFields(p) \in Seq(Bytes) /\ FlattenSeq(HeadFields(p)) = HeadBytes(p)
           /\ HeadBytes(p) \in Bytes /\ Len(HeadBytes(p)) = 4
<1>. PICK x : x = 2 * 64 + p.padding * 32 + CountOf(p)
  OBVIOUS
<1>. PICK y : y = p.type
  OBVIOUS
<1>. PICK a : a = <<x, y>>
  OBVIOUS
<1>. PICK b : b = U16(p.bytes \div 4 - 1)
  OBVIOUS
<1>1. x \in 0..255 /\ y \in 0..255
  BY DEF Sized, SR, RR, SDES, APP
<1>2. a \in Bytes /\ Len(a) = 2
  BY <1>1, PairTyped
<1>3. b \in Bytes /\ Len(b) = 2
  BY HalfBytes DEF Sized
<1>4. HeadFields(p) = <<a, b>> /\ HeadBytes(p) = a \o b
  BY Zenon DEF HeadFields, HeadBytes
<1>5. <<a, b>> \in Seq(Bytes) /\ Len(<<a, b>>) = 2 /\ <<a, b>>[1] = a /\ <<a, b>>[2] = b
  BY <1>2, <1>3
<1>6. FlattenSeq(<<a, b>>) = a \o b
  BY <1>5, FlattenTwo DEF Bytes
<1>7. a \o b \in Bytes /\ Len(a \o b) = 4
  <2>1. a \in Bytes /\ b \in Bytes
    BY <1>2, <1>3, Zenon
  <2>2. a \o b \in Bytes /\ Len(a \o b) = Len(a) + Len(b)
    BY <2>1, BytesJoined
  <2>3. 2 + 2 = 4
    OBVIOUS
  <2>. QED
    BY <1>2, <1>3, <2>2, <2>3, Zenon
<1>. QED
  BY <1>4, <1>5, <1>6, <1>7, Zenon

LEMMA HeadRead ==
    ASSUME NEW p, Sized(p), NEW o \in Nat, Lies(wire, o, HeadBytes(p))
    PROVE  /\ HeadType(o) = p.type /\ HeadPadding(o) = p.padding
           /\ HeadCount(o) = CountOf(p) /\ HeadLength(o) = p.bytes \div 4 - 1
<1>. PICK x : x = 2 * 64 + p.padding * 32 + CountOf(p)
  OBVIOUS
<1>. PICK y : y = p.type
  OBVIOUS
<1>. PICK a : a = <<x, y>>
  OBVIOUS
<1>. PICK v : v = p.bytes \div 4 - 1
  OBVIOUS
<1>. PICK b : b = U16(v)
  OBVIOUS
<1>1. x \in 0..255 /\ y \in 0..255
  BY DEF Sized, SR, RR, SDES, APP
<1>2. a \in Bytes /\ Len(a) = 2 /\ a[1] = x /\ a[2] = y
  BY <1>1, PairTyped
<1>3. b \in Bytes /\ IsHalf(v)
  BY HalfBytes DEF Sized
<1>4. HeadBytes(p) = a \o b
  BY Zenon DEF HeadBytes
<1>5. Lies(wire, o, a) /\ Lies(wire, o + 2, b)
  <2>1. Lies(wire, o, a \o b)
    BY <1>4, Zenon
  <2>. QED
    BY <1>2, <1>3, <2>1, LiesSplit
<1>6. Word16(o + 2) = v
  <2>1. o + 2 \in Nat
    OBVIOUS
  <2>. QED
    BY <1>3, <1>5, <2>1, ReadHalf
<1>7. Byte(o) = x /\ Byte(o + 1) = y
  <2>1. 1 \in 1..2 /\ 2 \in 1..2 /\ (o + 1) + 1 = o + 2
    OBVIOUS
  <2>2. wire[o + 1] = x /\ wire[o + 2] = y
    BY <1>2, <1>5, <2>1, Zenon DEF Lies
  <2>. QED
    BY <2>1, <2>2, Zenon DEF Byte
<1>8. (x \div 32) % 2 = p.padding /\ x % 32 = CountOf(p)
  <2>. PICK c \in 0..31 : c = CountOf(p)
    BY DEF Sized
  <2>1. CASE p.padding = 0
    BY <2>1
  <2>2. CASE p.padding = 1
    BY <2>2
  <2>. QED
    BY <2>1, <2>2 DEF Sized
<1>. QED
  BY <1>6, <1>7, <1>8, Zenon DEF HeadType, HeadPadding, HeadCount, HeadLength

LEMMA PacketFlat ==
    ASSUME NEW p, Sized(p), BodyFields(p) \in Seq(Bytes)
    PROVE  /\ PacketFields(p) \in Seq(Bytes)
           /\ BytesOf(p) = (HeadBytes(p) \o U32(p.ssrc)) \o FlattenSeq(BodyFields(p))
           /\ BytesOf(p) \in Bytes /\ FlattenSeq(BodyFields(p)) \in Bytes
           /\ Len(BytesOf(p)) = 8 + Len(FlattenSeq(BodyFields(p)))
<1>. PICK h : h = HeadFields(p)
  OBVIOUS
<1>. PICK u : u = U32(p.ssrc)
  OBVIOUS
<1>. PICK b : b = BodyFields(p)
  OBVIOUS
<1>. PICK hb : hb = HeadBytes(p)
  OBVIOUS
<1>1. h \in Seq(Bytes) /\ FlattenSeq(h) = hb /\ hb \in Bytes /\ Len(hb) = 4
  BY HeadTyped
<1>2. u \in Bytes /\ Len(u) = 4
  BY WordBytes DEF Sized
<1>3. <<u>> \in Seq(Bytes) /\ FlattenSeq(<<u>>) = u
  <2>1. <<u>> \in Seq(Bytes) /\ Len(<<u>>) = 1 /\ <<u>>[1] = u
    BY <1>2
  <2>. QED
    BY <2>1, FlattenOne DEF Bytes
<1>4. h \o <<u>> \in Seq(Bytes) /\ FlattenSeq(h \o <<u>>) = hb \o u
  BY <1>1, <1>3, FieldsConcat, ZenonT(60)
<1>. PICK hu : hu = h \o <<u>>
  OBVIOUS
<1>5. hu \o b \in Seq(Bytes) /\ FlattenSeq(hu \o b) = FlattenSeq(hu) \o FlattenSeq(b)
  BY <1>4, FieldsConcat, ZenonT(60)
<1>6. PacketFields(p) = hu \o b
  BY Zenon DEF PacketFields
<1>7. FlattenSeq(b) \in Bytes
  BY FlattenTyped DEF Bytes
<1>8. hb \o u \in Bytes /\ Len(hb \o u) = 8
  <2>1. hb \in Bytes /\ u \in Bytes
    BY <1>1, <1>2, Zenon
  <2>2. hb \o u \in Bytes /\ Len(hb \o u) = Len(hb) + Len(u)
    BY <2>1, BytesJoined
  <2>3. 4 + 4 = 8
    OBVIOUS
  <2>. QED
    BY <1>1, <1>2, <2>2, <2>3, Zenon
<1>. PICK f : f = FlattenSeq(b)
  OBVIOUS
<1>. PICK g : g = hb \o u
  OBVIOUS
<1>9. g \o f \in Bytes /\ Len(g \o f) = 8 + Len(f)
  <2>1. g \in Bytes /\ f \in Bytes /\ Len(g) = 8
    BY <1>7, <1>8, Zenon
  <2>2. g \o f \in Bytes /\ Len(g \o f) = Len(g) + Len(f)
    BY <2>1, BytesJoined
  <2>. QED
    BY <2>1, <2>2, Zenon
<1>. QED
  BY <1>4, <1>5, <1>6, <1>7, <1>9, Zenon DEF BytesOf

\* Where a packet lies its head and its ssrc are read, and its body follows.
LEMMA PacketLies ==
    ASSUME NEW p, Sized(p), BodyFields(p) \in Seq(Bytes),
           NEW o \in Nat, Lies(wire, o, BytesOf(p))
    PROVE  /\ HeadType(o) = p.type /\ HeadPadding(o) = p.padding
           /\ HeadCount(o) = CountOf(p) /\ HeadLength(o) = p.bytes \div 4 - 1
           /\ Word32(o + 4) = p.ssrc
           /\ Lies(wire, o + 8, FlattenSeq(BodyFields(p)))
<1>. PICK u : u = U32(p.ssrc)
  OBVIOUS
<1>. PICK hb : hb = HeadBytes(p)
  OBVIOUS
<1>. PICK f : f = FlattenSeq(BodyFields(p))
  OBVIOUS
<1>1. hb \in Bytes /\ Len(hb) = 4
  BY HeadTyped
<1>2. u \in Bytes /\ IsWord(p.ssrc) /\ Len(u) = 4
  BY WordBytes DEF Sized
<1>3. BytesOf(p) = (hb \o u) \o f /\ f \in Bytes
  BY PacketFlat
<1>4. hb \o u \in Bytes /\ Len(hb \o u) = 8
  <2>1. hb \in Bytes /\ u \in Bytes
    BY <1>1, <1>2, Zenon
  <2>2. hb \o u \in Bytes /\ Len(hb \o u) = Len(hb) + Len(u)
    BY <2>1, BytesJoined
  <2>3. 4 + 4 = 8
    OBVIOUS
  <2>. QED
    BY <1>1, <1>2, <2>2, <2>3, Zenon
<1>. PICK g : g = hb \o u
  OBVIOUS
<1>5. Lies(wire, o, g) /\ Lies(wire, o + 8, f)
  <2>1. g \in Bytes /\ Lies(wire, o, g \o f) /\ Len(g) = 8
    BY <1>3, <1>4, Zenon
  <2>2. Lies(wire, o, g) /\ Lies(wire, o + Len(g), f)
    BY <1>3, <2>1, LiesJoined
  <2>. QED
    BY <2>1, <2>2, Zenon
<1>6. Lies(wire, o, hb) /\ Lies(wire, o + 4, u)
  <2>1. Lies(wire, o, hb) /\ Lies(wire, o + Len(hb), u)
    BY <1>1, <1>2, <1>5, LiesJoined
  <2>. QED
    BY <1>1, <2>1, Zenon
<1>7. o + 4 \in Nat
  OBVIOUS
<1>8. Word32(o + 4) = p.ssrc
  BY <1>2, <1>6, <1>7, ReadWord
<1>. QED
  BY <1>5, <1>6, <1>8, HeadRead

-----------------------------------------------------------------------------
(* The bytes of a report packet                                            *)

InfoFields(type) == [k \in DOMAIN InfoOf(type) |-> U32(InfoOf(type)[k])]
ReportsFields(n) == [i \in 1..n |-> ReportFields(ReportOf(i))]

\* s is k fields of four bytes.
Quads(s, k) == s \in Seq(Bytes) /\ Len(s) = k /\ \A j \in 1..k : Len(s[j]) = 4

LEMMA QuadsBytes ==
    ASSUME NEW s, NEW k \in Nat, Quads(s, k)
    PROVE  /\ s \in Seq(Bytes) /\ FlattenSeq(s) \in Bytes /\ Len(FlattenSeq(s)) = 4 * k
           /\ \A w : \A o \in Nat : Lies(w, o, FlattenSeq(s)) =>
                 \A j \in 1..k : Lies(w, o + 4 * (j - 1), s[j])
<1>1. s \in Seq(Bytes) /\ Len(s) = k /\ \A j \in 1..Len(s) : Len(s[j]) = 4
  BY DEF Quads
<1>2. FlattenSeq(s) \in Bytes
  BY <1>1, FlattenTyped DEF Bytes
<1>3. Len(FlattenSeq(s)) = 4 * k
  <2>1. Evenly(FlattenSeq(s), s, 4)
    BY <1>1, EvenBytes
  <2>. QED
    BY <1>1, <2>1, Zenon DEF Evenly
<1>4. ASSUME NEW w, NEW o \in Nat, Lies(w, o, FlattenSeq(s)), NEW j \in 1..k
      PROVE  Lies(w, o + 4 * (j - 1), s[j])
  BY <1>1, <1>4, LiesEven
<1>. QED
  BY <1>1, <1>2, <1>3, <1>4, Zenon

LEMMA InfoQuads ==
    ASSUME NEW type \in {SR, RR}
    PROVE  /\ Quads(InfoFields(type), Len(InfoOf(type)))
           /\ \A k \in 1..Len(InfoOf(type)) :
                 InfoFields(type)[k] = U32(InfoOf(type)[k]) /\ IsWord(InfoOf(type)[k])
<1>. PICK n \in Nat : n = Len(InfoOf(type))
  BY InfoLength
<1>. PICK f : f = InfoOf(type)
  OBVIOUS
<1>1. \A k \in 1..n : IsWord(f[k])
  BY InfoLength DEF InfoOf, SenderInfo, IsWord, SR, RR
<1>2. DOMAIN f = 1..n
  <2>1. DOMAIN InfoOf(SR) = 1..5 /\ DOMAIN InfoOf(RR) = 1..0
    BY DEF InfoOf, SenderInfo, SR, RR
  <2>. QED
    BY <2>1, InfoLength
<1>3. InfoFields(type) = [k \in 1..n |-> U32(f[k])]
  BY <1>2, Zenon DEF InfoFields
<1>4. \A k \in 1..n : U32(f[k]) \in Bytes /\ Len(U32(f[k])) = 4
  BY <1>1, WordBytes
<1>. QED
  BY <1>1, <1>3, <1>4 DEF Quads

\* The numbers of a report fit their fields.
LEMMA ReportFits ==
    ASSUME NEW i \in 1..31
    PROVE  /\ IsWord(GuestSsrc(i))
           /\ (9 * i) % 256 \in 0..255 /\ IsHalf(300 * i)
           /\ IsWord(65536 + i) /\ IsWord(i) /\ IsWord(77 * i) /\ IsWord(131072 * i)
  BY SMT DEF GuestSsrc, IsWord, IsHalf

SixOf(q, a, d, e) ==
    /\ Quads(q, 6) /\ q[1] = a /\ q[2] = d
    /\ \A k \in 1..4 : q[2 + k] = e[k]

LEMMA SixQuads ==
    ASSUME NEW a \in Bytes, Len(a) = 4, NEW d \in Bytes, Len(d) = 4, NEW e, Quads(e, 4)
    PROVE  SixOf(<<a, d>> \o e, a, d, e)
<1>1. <<a, d>> \in Seq(Bytes) /\ Len(<<a, d>>) = 2 /\ <<a, d>>[1] = a /\ <<a, d>>[2] = d
  OBVIOUS
<1>. PICK s : s = <<a, d>>
  OBVIOUS
<1>2. s \in Seq(Bytes) /\ Len(s) = 2 /\ s[1] = a /\ s[2] = d
  BY <1>1
<1>3. e \in Seq(Bytes) /\ Len(e) = 4 /\ \A k \in 1..4 : Len(e[k]) = 4
  BY DEF Quads
<1>4. /\ s \o e \in Seq(Bytes) /\ Len(s \o e) = Len(s) + Len(e)
      /\ \A k \in 1..Len(s) : (s \o e)[k] = s[k]
      /\ \A k \in 1..Len(e) : (s \o e)[Len(s) + k] = e[k]
  <2>1. s \in Seq(Bytes) /\ e \in Seq(Bytes)
    BY <1>2, <1>3, Zenon
  <2>. QED
    BY <2>1, Joined
<1>. PICK q : q = s \o e
  OBVIOUS
<1>5. /\ q \in Seq(Bytes) /\ Len(q) = 6
      /\ \A k \in 1..2 : q[k] = s[k]
      /\ \A k \in 1..4 : q[2 + k] = e[k]
  BY <1>2, <1>3, <1>4
<1>6. q[1] = a /\ q[2] = d
  BY <1>2, <1>5
<1>7. ASSUME NEW j \in 1..6 PROVE Len(q[j]) = 4
  <2>1. CASE j = 1
    BY <1>6, <2>1
  <2>2. CASE j = 2
    BY <1>6, <2>2
  <2>3. CASE j \notin {1, 2}
    <3>1. PICK k \in 1..4 : j = 2 + k
      <4>1. j - 2 \in 1..4 /\ j = 2 + (j - 2)
        BY <2>3
      <4>. QED
        BY <4>1
    <3>. QED
      BY <1>3, <1>5, <3>1
  <2>. QED
    BY <2>1, <2>2, <2>3
<1>8. Quads(q, 6)
  BY <1>5, <1>7, Zenon DEF Quads
<1>. QED
  BY <1>5, <1>6, <1>8, Zenon DEF SixOf

\* The loss, a byte and three.
LEMMA LossBytes ==
    ASSUME NEW f \in 0..255, NEW l, IsHalf(l)
    PROVE  /\ <<f, 0>> \in Bytes /\ Len(<<f, 0>>) = 2
           /\ <<f, 0>> \o U16(l) \in Bytes /\ Len(<<f, 0>> \o U16(l)) = 4
<1>. PICK b : b = <<f, 0>>
  OBVIOUS
<1>. PICK c : c = U16(l)
  OBVIOUS
<1>1. 0 \in 0..255
  OBVIOUS
<1>2. b \in Bytes /\ Len(b) = 2
  BY <1>1, PairTyped
<1>3. c \in Bytes /\ Len(c) = 2
  BY HalfBytes
<1>4. b \o c \in Bytes /\ Len(b \o c) = Len(b) + Len(c)
  BY <1>2, <1>3, BytesJoined
<1>5. Len(b \o c) = 4
  BY <1>2, <1>3, <1>4
<1>. QED
  BY <1>2, <1>4, <1>5, Zenon

LEMMA RestQuads ==
    ASSUME NEW t, \A k \in 1..4 : IsWord(t[k])
    PROVE  Quads([k \in 1..4 |-> U32(t[k])], 4)
<1>1. \A k \in 1..4 : U32(t[k]) \in Bytes /\ Len(U32(t[k])) = 4
  BY WordBytes
<1>. QED
  BY <1>1 DEF Quads

HighOf(l) == l \div 65536
LowOf(l) == l % 65536

LEMMA ReportNumbers ==
    ASSUME NEW i \in 1..31
    PROVE  /\ ReportOf(i).src = GuestSsrc(i)
           /\ ReportOf(i).frac \in 0..255
           /\ IsHalf(ReportOf(i).lost)
           /\ HighOf(ReportOf(i).lost) = 0
           /\ LowOf(ReportOf(i).lost) = ReportOf(i).lost
           /\ IsWord(ReportOf(i).src)
           /\ \A k \in 1..4 : IsWord(ReportOf(i).rest[k])
<1>1. /\ ReportOf(i).src = GuestSsrc(i) /\ ReportOf(i).frac = (9 * i) % 256
      /\ ReportOf(i).lost = 300 * i
      /\ ReportOf(i).rest = <<65536 + i, i, 77 * i, 131072 * i>>
  BY DEF ReportOf
<1>2. \A k \in 1..4 : IsWord(ReportOf(i).rest[k])
  BY <1>1, ReportFits, SMT
<1>3. HighOf(300 * i) = 0 /\ LowOf(300 * i) = 300 * i
  BY SMT DEF HighOf, LowOf
<1>. QED
  BY <1>1, <1>2, <1>3, ReportFits, SMT

LEMMA ReportQuads ==
    ASSUME NEW i \in 1..31
    PROVE  /\ Quads(ReportFields(ReportOf(i)), 6)
           /\ ReportFields(ReportOf(i))[1] = U32(ReportOf(i).src)
           /\ ReportFields(ReportOf(i))[2] = <<ReportOf(i).frac, 0>> \o U16(ReportOf(i).lost)
           /\ \A k \in 1..4 : ReportFields(ReportOf(i))[2 + k] = U32(ReportOf(i).rest[k])
<1>. PICK r : r = ReportOf(i)
  OBVIOUS
<1>1. /\ IsWord(r.src) /\ r.frac \in 0..255 /\ IsHalf(r.lost)
      /\ \A k \in 1..4 : IsWord(r.rest[k])
  BY ReportNumbers, Zenon
<1>2. HighOf(r.lost) = 0 /\ LowOf(r.lost) = r.lost
  BY ReportNumbers, Zenon
<1>3. ReportFields(r) = <<U32(r.src), <<r.frac, 0>> \o U16(r.lost)>>
                            \o [k \in 1..4 |-> U32(r.rest[k])]
  <2>1. ReportFields(r) = <<U32(r.src), <<r.frac, HighOf(r.lost)>> \o U16(LowOf(r.lost))>>
                              \o [k \in 1..4 |-> U32(r.rest[k])]
    BY SMT DEF ReportFields, HighOf, LowOf
  <2>. QED
    BY <1>2, <2>1, Zenon
<1>4. U32(r.src) \in Bytes /\ Len(U32(r.src)) = 4
  BY <1>1, WordBytes
<1>5. <<r.frac, 0>> \o U16(r.lost) \in Bytes /\ Len(<<r.frac, 0>> \o U16(r.lost)) = 4
  BY <1>1, LossBytes
<1>6. Quads([k \in 1..4 |-> U32(r.rest[k])], 4)
  BY <1>1, RestQuads
<1>. PICK a \in Bytes : a = U32(r.src) /\ Len(a) = 4
  BY <1>4
<1>. PICK d \in Bytes : d = <<r.frac, 0>> \o U16(r.lost) /\ Len(d) = 4
  BY <1>5
<1>. PICK e : e = [k \in 1..4 |-> U32(r.rest[k])] /\ Quads(e, 4)
  BY <1>6
<1>7. SixOf(<<a, d>> \o e, a, d, e)
  BY SixQuads
<1>8. \A k \in 1..4 : e[k] = U32(r.rest[k])
  OBVIOUS
<1>9. ReportFields(r) = <<a, d>> \o e
  BY <1>3, Zenon
<1>. PICK q : q = <<a, d>> \o e
  OBVIOUS
<1>10. Quads(q, 6) /\ q[1] = a /\ q[2] = d /\ \A k \in 1..4 : q[2 + k] = U32(r.rest[k])
  BY <1>7, <1>8, Zenon DEF SixOf
<1>. QED
  BY <1>9, <1>10, Zenon

\* All the reports of a packet: six fields for each.
LEMMA ReportsQuads ==
    ASSUME NEW n \in 0..31
    PROVE  /\ Quads(FlattenSeq(ReportsFields(n)), 6 * n)
           /\ \A i \in 1..n : \A j \in 1..6 :
                 FlattenSeq(ReportsFields(n))[6 * (i - 1) + j] = ReportFields(ReportOf(i))[j]
<1>. PICK R : R = ReportsFields(n)
  OBVIOUS
<1>1. /\ R = [i \in 1..n |-> ReportFields(ReportOf(i))]
      /\ \A i \in 1..n : R[i] = ReportFields(ReportOf(i)) /\ Quads(R[i], 6)
  <2>1. R = [i \in 1..n |-> ReportFields(ReportOf(i))]
    BY DEF ReportsFields
  <2>2. ASSUME NEW i \in 1..n PROVE Quads(ReportFields(ReportOf(i)), 6)
    <3>1. i \in 1..31
      OBVIOUS
    <3>. QED
      BY <3>1, ReportQuads
  <2>. QED
    BY <2>1, <2>2, Zenon
<1>2. R \in Seq(Seq(Bytes)) /\ Len(R) = n /\ \A i \in 1..Len(R) : Len(R[i]) = 6
  BY <1>1 DEF Quads
<1>. PICK F : F = FlattenSeq(R)
  OBVIOUS
<1>3. Evenly(F, R, 6)
  BY <1>2, FlattenEven
<1>4. /\ Len(F) = 6 * n
      /\ \A i \in 1..n : \A j \in 1..6 : F[6 * (i - 1) + j] = R[i][j]
  BY <1>2, <1>3, Zenon DEF Evenly
<1>5. F \in Seq(Bytes)
  BY <1>2, FlattenTyped
<1>6. ASSUME NEW m \in 1..(6 * n) PROVE Len(F[m]) = 4
  <2>. PICK i \in 1..n, j \in 1..6 : m = 6 * (i - 1) + j
    <3>1. ((m - 1) \div 6) + 1 \in 1..n /\ ((m - 1) % 6) + 1 \in 1..6
          /\ m = 6 * ((((m - 1) \div 6) + 1) - 1) + (((m - 1) % 6) + 1)
      OBVIOUS
    <3>. QED
      BY <3>1
  <2>1. F[m] = R[i][j]
    BY <1>4, Zenon
  <2>2. Len(R[i][j]) = 4
    BY <1>1, Zenon DEF Quads
  <2>. QED
    BY <2>1, <2>2, Zenon
<1>7. Quads(F, 6 * n)
  BY <1>4, <1>5, <1>6, Zenon DEF Quads
<1>. QED
  BY <1>1, <1>4, <1>7, Zenon

\* A report with other losses.
WithLosses(r, frac, lost) == [r EXCEPT !.frac = frac, !.lost = lost]

LEMMA LossesOther ==
    ASSUME NEW a, NEW b, NEW c, NEW d, NEW x, NEW y
    PROVE  WithLosses([src |-> a, frac |-> b, lost |-> c, rest |-> d], x, y)
               = [src |-> a, frac |-> x, lost |-> y, rest |-> d]
<1>1. [[src |-> a, frac |-> b, lost |-> c, rest |-> d] EXCEPT !.frac = x]
          = [src |-> a, frac |-> x, lost |-> c, rest |-> d]
  OBVIOUS
<1>2. [[src |-> a, frac |-> x, lost |-> c, rest |-> d] EXCEPT !.lost = y]
          = [src |-> a, frac |-> x, lost |-> y, rest |-> d]
  OBVIOUS
<1>. QED
  BY <1>1, <1>2 DEF WithLosses

LEMMA KeptFields ==
    ASSUME NEW i \in 1..31
    PROVE  Kept(ReportOf(i)) = [src |-> ReportOf(i).src, frac |-> ReportOf(i).frac % 16,
                                lost |-> ReportOf(i).lost % 4096, rest |-> ReportOf(i).rest]
<1>. PICK r : r = ReportOf(i)
  OBVIOUS
<1>. PICK a : a = r.src
  OBVIOUS
<1>. PICK b : b = r.frac
  OBVIOUS
<1>. PICK c : c = r.lost
  OBVIOUS
<1>. PICK d : d = r.rest
  OBVIOUS
<1>2. r = [src |-> a, frac |-> b, lost |-> c, rest |-> d]
  BY SMT DEF ReportOf
<1>. PICK x : x = r.frac % 16
  OBVIOUS
<1>. PICK y : y = r.lost % 4096
  OBVIOUS
<1>1. Kept(r) = WithLosses(r, x, y)
  BY SMT DEF Kept, WithLosses
<1>3. WithLosses([src |-> a, frac |-> b, lost |-> c, rest |-> d], x, y)
          = [src |-> a, frac |-> x, lost |-> y, rest |-> d]
  BY LossesOther
<1>4. Kept(r) = [src |-> a, frac |-> x, lost |-> y, rest |-> d]
  BY <1>1, <1>2, <1>3
<1>. QED
  BY <1>4, SMT

\* What rtcp_unpack reads of a report is what it keeps of it.
LEMMA ReportKept ==
    ASSUME NEW i \in 1..31, NEW o \in Nat,
           \A j \in 1..6 : Lies(wire, o + 4 * (j - 1), ReportFields(ReportOf(i))[j])
    PROVE  ReadReport(o) = Kept(ReportOf(i))
<1>. PICK r : r = ReportOf(i)
  OBVIOUS
<1>. PICK q : q = ReportFields(r)
  OBVIOUS
<1>1. /\ q[1] = U32(r.src) /\ q[2] = <<r.frac, 0>> \o U16(r.lost)
      /\ \A k \in 1..4 : q[2 + k] = U32(r.rest[k])
  BY ReportQuads, Zenon
<1>2. /\ IsWord(r.src) /\ r.frac \in 0..255 /\ IsHalf(r.lost)
      /\ \A k \in 1..4 : IsWord(r.rest[k])
  BY ReportNumbers, Zenon
<1>3. \A j \in 1..6 : Lies(wire, o + 4 * (j - 1), q[j])
  BY Zenon
<1>4. Word32(o) = r.src
  <2>1. 1 \in 1..6 /\ o + 4 * (1 - 1) = o
    OBVIOUS
  <2>2. Lies(wire, o, U32(r.src))
    BY <1>1, <1>3, <2>1, Zenon
  <2>. QED
    BY <1>2, <2>2, ReadWord
<1>5. Byte(o + 4) = r.frac /\ Word16(o + 6) = r.lost
  <2>1. 2 \in 1..6 /\ o + 4 * (2 - 1) = o + 4 /\ (o + 4) + 2 = o + 6
        /\ o + 4 \in Nat /\ o + 6 \in Nat /\ 1 \in 1..2
    OBVIOUS
  <2>. PICK a : a = <<r.frac, 0>>
    OBVIOUS
  <2>. PICK b : b = U16(r.lost)
    OBVIOUS
  <2>2. Lies(wire, o + 4, a \o b)
    BY <1>1, <1>3, <2>1, Zenon
  <2>3. a \in Bytes /\ Len(a) = 2 /\ a[1] = r.frac
    <3>1. 0 \in 0..255
      OBVIOUS
    <3>. QED
      BY <1>2, <3>1, PairTyped
  <2>4. b \in Bytes
    BY <1>2, HalfBytes
  <2>5. Lies(wire, o + 4, a) /\ Lies(wire, (o + 4) + 2, b)
    BY <2>1, <2>2, <2>3, <2>4, LiesSplit
  <2>6. wire[(o + 4) + 1] = r.frac
    BY <2>1, <2>3, <2>5, Zenon DEF Lies
  <2>7. Word16(o + 6) = r.lost
    BY <1>2, <2>1, <2>5, ReadHalf
  <2>. QED
    BY <2>6, <2>7, Zenon DEF Byte
<1>6. ASSUME NEW k \in 1..4 PROVE Word32(o + 4 + 4 * k) = r.rest[k]
  <2>1. 2 + k \in 1..6 /\ o + 4 * ((2 + k) - 1) = o + 4 + 4 * k /\ o + 4 + 4 * k \in Nat
    OBVIOUS
  <2>2. Lies(wire, o + 4 + 4 * k, U32(r.rest[k]))
    BY <1>1, <1>3, <2>1, Zenon
  <2>. QED
    BY <1>2, <2>1, <2>2, ReadWord
<1>7. [k \in 1..4 |-> Word32(o + 4 + 4 * k)] = [k \in 1..4 |-> r.rest[k]]
  BY <1>6
<1>8. [k \in 1..4 |-> r.rest[k]] = r.rest
  BY DEF ReportOf
<1>9. Kept(r) = [src |-> r.src, frac |-> r.frac % 16, lost |-> r.lost % 4096, rest |-> r.rest]
  BY KeptFields
<1>. QED
  BY <1>4, <1>5, <1>7, <1>8, <1>9, SMT DEF ReadReport

LEMMA WordsOfReport ==
    ASSUME NEW l \in 0..5, NEW n \in 0..31
    PROVE  IsHalf((2 + l + 6 * n) - 1)
  BY SMT DEF IsHalf

LEMMA ReportSized ==
    ASSUME NEW type \in {SR, RR}, NEW n \in 0..31
    PROVE  /\ Sized(ReportPacket(type, n))
           /\ CountOf(ReportPacket(type, n)) = n
           /\ BodyFields(ReportPacket(type, n))
                  = InfoFields(type) \o FlattenSeq(ReportsFields(n))
<1>. PICK p : p = ReportPacket(type, n)
  OBVIOUS
<1>1. /\ p.type = type /\ p.bytes = 8 + 4 * Len(InfoOf(type)) + 24 * n
      /\ p.body = [i \in 1..n |-> ReportOf(i)] /\ Len(p.body) = n
      /\ p.ssrc = OwnSsrc /\ p.info = InfoOf(type)
      /\ p.padding = IF type = SR THEN 1 ELSE 0
  <2>1. n \in Nat
    OBVIOUS
  <2>. QED
    BY <2>1, ReportFacts, Zenon
<1>2. CountOf(p) = n
  BY <1>1, Zenon DEF CountOf
<1>3. p.bytes \in Nat /\ p.bytes % 4 = 0 /\ IsHalf(p.bytes \div 4 - 1)
  <2>. PICK l \in 0..5 : l = Len(InfoOf(type))
    BY InfoLength
  <2>. PICK v : v = 8 + 4 * l + 24 * n
    OBVIOUS
  <2>1. v \in Nat /\ v % 4 = 0 /\ v \div 4 = 2 + l + 6 * n
    OBVIOUS
  <2>. PICK w : w = v \div 4 - 1
    OBVIOUS
  <2>5. w = (2 + l + 6 * n) - 1
    BY <2>1, Zenon
  <2>4. IsHalf(w)
    BY <2>5, WordsOfReport, Zenon
  <2>2. IsHalf(v \div 4 - 1)
    BY <2>4, Zenon
  <2>. QED
    BY <1>1, <2>1, <2>2, Zenon
<1>4. IsWord(p.ssrc)
  BY <1>1, SMT DEF IsWord, OwnSsrc
<1>5. Sized(p)
  BY <1>1, <1>2, <1>3, <1>4 DEF Sized
<1>6. [k \in DOMAIN p.info |-> U32(p.info[k])] = InfoFields(type)
  BY <1>1, Zenon DEF InfoFields
<1>7. [i \in DOMAIN p.body |-> ReportFields(p.body[i])] = ReportsFields(n)
  <2>1. DOMAIN p.body = 1..n /\ \A i \in 1..n : p.body[i] = ReportOf(i)
    BY <1>1
  <2>. QED
    BY <2>1 DEF ReportsFields
<1>8. BodyFields(p) = InfoFields(type) \o FlattenSeq(ReportsFields(n))
  <2>1. p.type \in {SR, RR} /\ p.type # SDES /\ p.type # APP
    BY <1>1 DEF SR, RR, SDES, APP
  <2>. QED
    BY <1>6, <1>7, <2>1, Zenon DEF BodyFields
<1>. QED
  BY <1>2, <1>5, <1>8, Zenon

LEMMA ReportBytes ==
    ASSUME NEW type \in {SR, RR}, NEW n \in 0..31
    PROVE  /\ BodyFields(ReportPacket(type, n)) \in Seq(Bytes)
           /\ FlattenSeq(BodyFields(ReportPacket(type, n)))
                  = FlattenSeq(InfoFields(type)) \o FlattenSeq(FlattenSeq(ReportsFields(n)))
           /\ PacketFields(ReportPacket(type, n)) \in Seq(Bytes)
           /\ BytesOf(ReportPacket(type, n)) \in Bytes
           /\ Len(BytesOf(ReportPacket(type, n))) = ReportPacket(type, n).bytes
<1>. PICK p : p = ReportPacket(type, n)
  OBVIOUS
<1>. PICK I : I = InfoFields(type)
  OBVIOUS
<1>. PICK R : R = FlattenSeq(ReportsFields(n))
  OBVIOUS
<1>. PICK l \in Nat : l = Len(InfoOf(type))
  BY InfoLength
<1>1. Quads(I, l) /\ Quads(R, 6 * n)
  BY InfoQuads, ReportsQuads, Zenon
<1>. PICK m \in Nat : m = 6 * n
  OBVIOUS
<1>2. /\ I \in Seq(Bytes) /\ FlattenSeq(I) \in Bytes /\ Len(FlattenSeq(I)) = 4 * l
      /\ R \in Seq(Bytes) /\ FlattenSeq(R) \in Bytes /\ Len(FlattenSeq(R)) = 4 * m
  BY <1>1, QuadsBytes
<1>. PICK b : b = BodyFields(p)
  OBVIOUS
<1>3. b = I \o R /\ Sized(p)
  BY ReportSized, Zenon
<1>4. b \in Seq(Bytes) /\ FlattenSeq(b) = FlattenSeq(I) \o FlattenSeq(R)
  BY <1>2, <1>3, FieldsConcat, ZenonT(60)
<1>5. Len(FlattenSeq(b)) = 4 * l + 4 * m
  <2>. PICK x \in Bytes : x = FlattenSeq(I)
    BY <1>2
  <2>. PICK y \in Bytes : y = FlattenSeq(R)
    BY <1>2
  <2>1. Len(x \o y) = Len(x) + Len(y)
    BY BytesJoined
  <2>. QED
    BY <1>2, <1>4, <2>1, Zenon
<1>6. /\ PacketFields(p) \in Seq(Bytes) /\ BytesOf(p) \in Bytes
      /\ Len(BytesOf(p)) = 8 + Len(FlattenSeq(b))
  BY <1>3, <1>4, PacketFlat
<1>7. 8 + (4 * l + 4 * m) = p.bytes
  <2>1. n \in Nat
    OBVIOUS
  <2>2. p.bytes = 8 + 4 * l + 24 * n
    BY <2>1, ReportFacts, Zenon
  <2>3. 8 + (4 * l + 4 * m) = 8 + 4 * l + 24 * n
    OBVIOUS
  <2>. QED
    BY <2>2, <2>3, Zenon
<1>. QED
  BY <1>4, <1>5, <1>6, <1>7, Zenon

\* At o the head of a report packet is read, its sender, its info, its reports.
ReportThere(type, n, o) ==
    /\ HeadType(o) = type /\ HeadPadding(o) = IF type = SR THEN 1 ELSE 0
    /\ HeadCount(o) = n /\ HeadLength(o) = ReportPacket(type, n).bytes \div 4 - 1
    /\ Word32(o + 4) = OwnSsrc
    /\ \A k \in 1..Len(InfoOf(type)) : Word32(o + 4 + 4 * k) = InfoOf(type)[k]
    /\ \A i \in 1..n : ReadReport((o + 8 + 4 * Len(InfoOf(type))) + 24 * (i - 1))
                           = Kept(ReportOf(i))

\* Where a report packet lies, its info and its reports are read.
LEMMA ReportLies ==
    ASSUME NEW type \in {SR, RR}, NEW n \in 0..31, NEW o \in Nat,
           Lies(wire, o, BytesOf(ReportPacket(type, n)))
    PROVE  ReportThere(type, n, o)
<1>. PICK p : p = ReportPacket(type, n)
  OBVIOUS
<1>. PICK I : I = InfoFields(type)
  OBVIOUS
<1>. PICK R : R = FlattenSeq(ReportsFields(n))
  OBVIOUS
<1>. PICK l \in Nat : l = Len(InfoOf(type))
  BY InfoLength
<1>. PICK m \in Nat : m = 6 * n
  OBVIOUS
<1>1. Quads(I, l) /\ Quads(R, m)
  BY InfoQuads, ReportsQuads, Zenon
<1>2. /\ FlattenSeq(I) \in Bytes /\ Len(FlattenSeq(I)) = 4 * l /\ FlattenSeq(R) \in Bytes
  BY <1>1, QuadsBytes
<1>3. Sized(p) /\ CountOf(p) = n
  BY ReportSized, Zenon
<1>4. /\ BodyFields(p) \in Seq(Bytes)
      /\ FlattenSeq(BodyFields(p)) = FlattenSeq(I) \o FlattenSeq(R)
  BY ReportBytes, Zenon
<1>5. Lies(wire, o, BytesOf(p))
  BY Zenon
<1>6. /\ HeadType(o) = p.type /\ HeadPadding(o) = p.padding
      /\ HeadCount(o) = CountOf(p) /\ HeadLength(o) = p.bytes \div 4 - 1
      /\ Word32(o + 4) = p.ssrc
      /\ Lies(wire, o + 8, FlattenSeq(BodyFields(p)))
  BY <1>3, <1>4, <1>5, PacketLies
<1>7. p.type = type /\ p.padding = (IF type = SR THEN 1 ELSE 0) /\ p.ssrc = OwnSsrc
  <2>1. n \in Nat
    OBVIOUS
  <2>. QED
    BY <2>1, ReportFacts, Zenon
<1>8. Lies(wire, o + 8, FlattenSeq(I)) /\ Lies(wire, (o + 8) + 4 * l, FlattenSeq(R))
  <2>. PICK x \in Bytes : x = FlattenSeq(I)
    BY <1>2
  <2>. PICK y \in Bytes : y = FlattenSeq(R)
    BY <1>2
  <2>1. Lies(wire, o + 8, x \o y)
    BY <1>4, <1>6, Zenon
  <2>2. Len(x) = 4 * l /\ o + 8 \in Nat
    BY <1>2
  <2>3. Lies(wire, o + 8, x) /\ Lies(wire, (o + 8) + Len(x), y)
    BY <2>1, <2>2, LiesJoined
  <2>. QED
    BY <2>2, <2>3, Zenon
<1>9. ASSUME NEW k \in 1..l PROVE Word32(o + 4 + 4 * k) = InfoOf(type)[k]
  <2>1. (o + 8) + 4 * (k - 1) = o + 4 + 4 * k /\ o + 8 \in Nat /\ o + 4 + 4 * k \in Nat
    OBVIOUS
  <2>2. \A j \in 1..l : Lies(wire, (o + 8) + 4 * (j - 1), I[j])
    BY <1>1, <1>8, <2>1, QuadsBytes
  <2>3. I[k] = U32(InfoOf(type)[k]) /\ IsWord(InfoOf(type)[k])
    BY InfoQuads, Zenon
  <2>4. Lies(wire, o + 4 + 4 * k, U32(InfoOf(type)[k]))
    BY <2>1, <2>2, <2>3, Zenon
  <2>. QED
    BY <2>1, <2>3, <2>4, ReadWord
<1>. PICK s \in Nat : s = (o + 8) + 4 * l
  OBVIOUS
<1>10. \A h \in 1..m : Lies(wire, s + 4 * (h - 1), R[h])
  BY <1>1, <1>8, QuadsBytes
<1>11. ASSUME NEW i \in 1..n PROVE ReadReport(s + 24 * (i - 1)) = Kept(ReportOf(i))
  <2>. PICK t \in Nat : t = s + 24 * (i - 1)
    OBVIOUS
  <2>1. ASSUME NEW j \in 1..6 PROVE Lies(wire, t + 4 * (j - 1), ReportFields(ReportOf(i))[j])
    <3>. PICK h : h = 6 * (i - 1) + j
      OBVIOUS
    <3>1. h \in 1..m /\ s + 4 * (h - 1) = t + 4 * (j - 1)
      OBVIOUS
    <3>2. R[h] = ReportFields(ReportOf(i))[j]
      BY ReportsQuads, Zenon
    <3>. QED
      BY <1>10, <3>1, <3>2, Zenon
  <2>2. i \in 1..31
    OBVIOUS
  <2>. QED
    BY <2>1, <2>2, ReportKept
<1>12. s = o + 8 + 4 * Len(InfoOf(type))
  OBVIOUS
<1>. QED
  BY <1>3, <1>6, <1>7, <1>9, <1>11, <1>12, Zenon DEF ReportThere

-----------------------------------------------------------------------------
(* The bytes of a cname                                                    *)

Zeros(n) == [k \in 1..n |-> 0]
CnamePad(len) == 4 - ((10 + len) % 4)

LEMMA CnamePads ==
    ASSUME NEW len \in 1..255
    PROVE  /\ CnamePad(len) \in 1..4
           /\ 10 + len + CnamePad(len) \in Nat
           /\ (10 + len + CnamePad(len)) % 4 = 0
           /\ 10 + len + CnamePad(len) <= 269 /\ 10 + len + CnamePad(len) >= 11
  BY DEF CnamePad

LEMMA CnameFacts ==
    ASSUME NEW len \in 1..255
    PROVE  /\ ChunkEnded(CnamePacket(len)) \in Packets
           /\ ChunkEnded(CnamePacket(len)).type = SDES
           /\ ChunkEnded(CnamePacket(len)).padding = 0
           /\ ChunkEnded(CnamePacket(len)).bytes = 10 + len + CnamePad(len)
           /\ ChunkEnded(CnamePacket(len)).ssrc = OwnSsrc
           /\ ChunkEnded(CnamePacket(len)).body = <<[id |-> CNAME, value |-> Text(len)]>>
           /\ ChunkEnded(CnamePacket(len)).padlen = CnamePad(len)
<1>. PICK p : p = CnamePacket(len)
  OBVIOUS
<1>1. p \in Packets /\ p.type = SDES /\ p.bytes = 10 + len
  BY CnameTyped
<1>2. ChunkEnded(p) \in Packets /\ ChunkEnded(p).type = SDES
  BY <1>1, EndedTyped
<1>. PICK text : text = Text(len)
  OBVIOUS
<1>. PICK o : o = OwnSsrc
  OBVIOUS
<1>3. p.padding = 0 /\ p.ssrc = o /\ p.body = <<[id |-> CNAME, value |-> text]>>
  BY DEF CnamePacket, Packet
<1>4. p \in PacketsOf(p.type)
  BY <1>1, TypeOfPacket
<1>5. ChunkEnded(p).padding = p.padding /\ ChunkEnded(p).ssrc = p.ssrc
      /\ ChunkEnded(p).body = p.body
      /\ ChunkEnded(p).padlen = 4 - (p.bytes % 4)
      /\ ChunkEnded(p).bytes = p.bytes + 4 - (p.bytes % 4)
  BY <1>4 DEF ChunkEnded, PacketsOf
<1>6. 10 + len + 4 - ((10 + len) % 4) = 10 + len + CnamePad(len)
  BY DEF CnamePad
<1>7. ChunkEnded(p).bytes = 10 + len + CnamePad(len)
  BY <1>1, <1>5, <1>6, Zenon
<1>8. ChunkEnded(p).padlen = CnamePad(len)
  BY <1>1, <1>5, Zenon DEF CnamePad
<1>. QED
  BY <1>2, <1>3, <1>5, <1>7, <1>8, Zenon

\* The bytes of the one item.
ItemBytes(len) == (<<1>> \o <<len>>) \o Text(len)

LEMMA ByteTyped ==
    ASSUME NEW x \in 0..255
    PROVE  <<x>> \in Bytes /\ Len(<<x>>) = 1 /\ <<x>>[1] = x
  BY DEF Bytes

LEMMA TextBytes ==
    ASSUME NEW len \in Nat
    PROVE  Text(len) \in Bytes /\ Len(Text(len)) = len
<1>1. Text(len) \in Bytes
  BY TextTyped DEF Bytes
<1>2. Len(Text(len)) = len
  BY DEF Text
<1>. QED
  BY <1>1, <1>2

LEMMA ItemTyped ==
    ASSUME NEW len \in 1..255
    PROVE  /\ ItemFields([id |-> CNAME, value |-> Text(len)]) \in Seq(Bytes)
           /\ FlattenSeq(ItemFields([id |-> CNAME, value |-> Text(len)])) = ItemBytes(len)
           /\ <<1>> \o <<len>> \in Bytes /\ Len(<<1>> \o <<len>>) = 2
           /\ ItemBytes(len) \in Bytes /\ Len(ItemBytes(len)) = 2 + len
<1>. PICK t : t = Text(len)
  OBVIOUS
<1>. PICK a : a = <<1>>
  OBVIOUS
<1>. PICK b : b = <<len>>
  OBVIOUS
<1>1. t \in Bytes /\ Len(t) = len
  BY TextBytes
<1>2. a \in Bytes /\ Len(a) = 1 /\ b \in Bytes /\ Len(b) = 1
  <2>1. 1 \in 0..255 /\ len \in 0..255
    OBVIOUS
  <2>. QED
    BY <2>1, ByteTyped
<1>3. ItemFields([id |-> CNAME, value |-> t]) = <<a, b, t>>
  BY <1>1 DEF ItemFields, CNAME
<1>4. /\ <<a, b, t>> \in Seq(Bytes) /\ Len(<<a, b, t>>) = 3
      /\ <<a, b, t>>[1] = a /\ <<a, b, t>>[2] = b /\ <<a, b, t>>[3] = t
  BY <1>1, <1>2
<1>5. FlattenSeq(<<a, b, t>>) = (a \o b) \o t
  BY <1>4, FlattenThree DEF Bytes
<1>6. a \o b \in Bytes /\ Len(a \o b) = 2
  <2>1. a \o b \in Bytes /\ Len(a \o b) = Len(a) + Len(b)
    BY <1>2, BytesJoined
  <2>2. 1 + 1 = 2
    OBVIOUS
  <2>. QED
    BY <1>2, <2>1, <2>2, Zenon
<1>. PICK c \in Bytes : c = a \o b /\ Len(c) = 2
  BY <1>6
<1>7. c \o t \in Bytes /\ Len(c \o t) = 2 + len
  <2>1. c \o t \in Bytes /\ Len(c \o t) = Len(c) + Len(t)
    BY <1>1, BytesJoined
  <2>. QED
    BY <1>1, <2>1, Zenon
<1>8. ItemBytes(len) = c \o t
  BY Zenon DEF ItemBytes
<1>. QED
  BY <1>3, <1>4, <1>5, <1>6, <1>7, <1>8, Zenon

LEMMA CnameSized ==
    ASSUME NEW len \in 1..255
    PROVE  /\ Sized(ChunkEnded(CnamePacket(len)))
           /\ CountOf(ChunkEnded(CnamePacket(len))) = 1
           /\ BodyFields(ChunkEnded(CnamePacket(len)))
                  = ItemFields([id |-> CNAME, value |-> Text(len)]) \o <<Zeros(CnamePad(len))>>
<1>. PICK p : p = ChunkEnded(CnamePacket(len))
  OBVIOUS
<1>. PICK it : it = [id |-> CNAME, value |-> Text(len)]
  OBVIOUS
<1>. PICK n : n = CnamePad(len)
  OBVIOUS
<1>1. /\ p.type = SDES /\ p.padding = 0 /\ p.bytes = 10 + len + n /\ p.ssrc = OwnSsrc
      /\ p.body = <<it>> /\ p.padlen = n
  BY CnameFacts, Zenon
<1>2. p.type \notin {SR, RR} /\ p.type # SR /\ p.type # RR
  BY <1>1 DEF SR, RR, SDES
<1>3. CountOf(p) = 1
  BY <1>1, <1>2, Zenon DEF CountOf
<1>4. n \in 1..4 /\ p.bytes \in Nat /\ p.bytes % 4 = 0 /\ p.bytes <= 269 /\ p.bytes >= 11
  <2>1. /\ CnamePad(len) \in 1..4 /\ 10 + len + CnamePad(len) \in Nat
        /\ (10 + len + CnamePad(len)) % 4 = 0
        /\ 10 + len + CnamePad(len) <= 269 /\ 10 + len + CnamePad(len) >= 11
    BY CnamePads
  <2>. QED
    BY <1>1, <2>1, ZenonT(60)
<1>5. IsHalf(p.bytes \div 4 - 1)
  <2>. PICK v \in Nat : v = p.bytes /\ v <= 269 /\ v >= 11
    BY <1>4
  <2>1. IsHalf(v \div 4 - 1)
    BY SMT DEF IsHalf
  <2>. QED
    BY <2>1, Zenon
<1>6. IsWord(p.ssrc)
  BY <1>1, SMT DEF IsWord, OwnSsrc
<1>7. Sized(p)
  BY <1>1, <1>3, <1>4, <1>5, <1>6 DEF Sized
<1>8. [k \in 1..p.padlen |-> 0] = Zeros(n)
  BY <1>1, Zenon DEF Zeros
<1>9. FlattenSeq([i \in DOMAIN p.body |-> ItemFields(p.body[i])]) = ItemFields(it)
  <2>. PICK s : s = [i \in DOMAIN p.body |-> ItemFields(p.body[i])]
    OBVIOUS
  <2>1. DOMAIN p.body = 1..1 /\ p.body[1] = it
    BY <1>1
  <2>2. ItemFields(it) \in Seq(Bytes)
    BY ItemTyped, Zenon
  <2>3. s \in Seq(Seq(Bytes)) /\ Len(s) = 1 /\ s[1] = ItemFields(it)
    <3>1. s = [i \in 1..1 |-> ItemFields(p.body[i])]
      BY <2>1, Zenon
    <3>. QED
      BY <2>1, <2>2, <3>1
  <2>4. FlattenSeq(s) = s[1]
    BY <2>3, FlattenOne
  <2>. QED
    BY <2>3, <2>4, Zenon
<1>10. BodyFields(p) = ItemFields(it) \o <<Zeros(n)>>
  <2>1. p.type # APP
    BY <1>1 DEF SDES, APP
  <2>. QED
    BY <1>1, <1>2, <1>8, <1>9, <2>1, Zenon DEF BodyFields
<1>. QED
  BY <1>3, <1>7, <1>10, Zenon

LEMMA CnameBytes ==
    ASSUME NEW len \in 1..255
    PROVE  /\ BodyFields(ChunkEnded(CnamePacket(len))) \in Seq(Bytes)
           /\ FlattenSeq(BodyFields(ChunkEnded(CnamePacket(len))))
                  = ItemBytes(len) \o Zeros(CnamePad(len))
           /\ Zeros(CnamePad(len)) \in Bytes
           /\ PacketFields(ChunkEnded(CnamePacket(len))) \in Seq(Bytes)
           /\ BytesOf(ChunkEnded(CnamePacket(len))) \in Bytes
           /\ Len(BytesOf(ChunkEnded(CnamePacket(len))))
                  = ChunkEnded(CnamePacket(len)).bytes
<1>. PICK p : p = ChunkEnded(CnamePacket(len))
  OBVIOUS
<1>. PICK F : F = ItemFields([id |-> CNAME, value |-> Text(len)])
  OBVIOUS
<1>. PICK f : f = ItemBytes(len)
  OBVIOUS
<1>. PICK n : n = CnamePad(len)
  OBVIOUS
<1>. PICK z : z = Zeros(n)
  OBVIOUS
<1>1. F \in Seq(Bytes) /\ FlattenSeq(F) = f /\ f \in Bytes /\ Len(f) = 2 + len
  BY ItemTyped, Zenon
<1>2. n \in 1..4
  BY CnamePads
<1>3. z \in Bytes /\ Len(z) = n
  <2>1. z = [k \in 1..n |-> 0] /\ n \in Nat /\ 0 \in 0..255
    BY <1>2 DEF Zeros
  <2>. QED
    BY <2>1 DEF Bytes
<1>4. <<z>> \in Seq(Bytes) /\ FlattenSeq(<<z>>) = z
  <2>1. <<z>> \in Seq(Bytes) /\ Len(<<z>>) = 1 /\ <<z>>[1] = z
    BY <1>3
  <2>. QED
    BY <2>1, FlattenOne DEF Bytes
<1>. PICK b : b = BodyFields(p)
  OBVIOUS
<1>5. b = F \o <<z>> /\ Sized(p)
  BY CnameSized, Zenon
<1>. PICK zz \in Seq(Bytes) : zz = <<z>>
  BY <1>4
<1>6. b \in Seq(Bytes) /\ FlattenSeq(b) = f \o z
  <2>1. F \o zz \in Seq(Bytes) /\ FlattenSeq(F \o zz) = FlattenSeq(F) \o FlattenSeq(zz)
    BY <1>1, FieldsConcat, ZenonT(60)
  <2>. QED
    BY <1>1, <1>4, <1>5, <2>1, Zenon
<1>7. Len(f \o z) = (2 + len) + n
  <2>1. Len(f \o z) = Len(f) + Len(z)
    BY <1>1, <1>3, BytesJoined
  <2>. QED
    BY <1>1, <1>3, <2>1, Zenon
<1>8. /\ PacketFields(p) \in Seq(Bytes) /\ BytesOf(p) \in Bytes
      /\ Len(BytesOf(p)) = 8 + Len(FlattenSeq(b))
  BY <1>5, <1>6, PacketFlat
<1>9. p.bytes = 8 + ((2 + len) + n)
  <2>1. p.bytes = 10 + len + n
    BY CnameFacts, Zenon
  <2>. QED
    BY <1>2, <2>1
<1>. QED
  BY <1>3, <1>6, <1>7, <1>8, <1>9, Zenon

\* Where a cname lies its item is read, and after it the END of the chunk.
LEMMA CnameLies ==
    ASSUME NEW len \in 1..255, NEW o \in Nat,
           Lies(wire, o, BytesOf(ChunkEnded(CnamePacket(len))))
    PROVE  /\ HeadType(o) = SDES /\ Word32(o + 4) = OwnSsrc
           /\ HeadLength(o) = ChunkEnded(CnamePacket(len)).bytes \div 4 - 1
           /\ Byte(o + 8) = 1 /\ Byte(o + 9) = len
           /\ Lies(wire, o + 10, Text(len)) /\ Byte(o + 10 + len) = 0
<1>. PICK p : p = ChunkEnded(CnamePacket(len))
  OBVIOUS
<1>. PICK n : n = CnamePad(len)
  OBVIOUS
<1>. PICK z : z = Zeros(n)
  OBVIOUS
<1>. PICK t : t = Text(len)
  OBVIOUS
<1>1. n \in 1..4
  BY CnamePads
<1>2. z \in Bytes
  BY CnameBytes, Zenon
<1>3. t \in Bytes /\ Len(t) = len
  BY TextBytes
<1>. PICK c : c = <<1>> \o <<len>>
  OBVIOUS
<1>4. /\ ItemBytes(len) = c \o t /\ ItemBytes(len) \in Bytes /\ Len(ItemBytes(len)) = 2 + len
      /\ c \in Bytes /\ Len(c) = 2
  BY ItemTyped, Zenon DEF ItemBytes
<1>5. Sized(p) /\ BodyFields(p) \in Seq(Bytes) /\ Lies(wire, o, BytesOf(p))
      /\ FlattenSeq(BodyFields(p)) = ItemBytes(len) \o z
  BY CnameSized, CnameBytes, Zenon
<1>6. /\ HeadType(o) = p.type /\ HeadLength(o) = p.bytes \div 4 - 1
      /\ Word32(o + 4) = p.ssrc
      /\ Lies(wire, o + 8, FlattenSeq(BodyFields(p)))
  BY <1>5, PacketLies
<1>7. p.type = SDES /\ p.ssrc = OwnSsrc
  BY CnameFacts, Zenon
<1>8. o + 8 \in Nat /\ (o + 8) + 2 = o + 10 /\ (o + 8) + (2 + len) = o + 10 + len
  OBVIOUS
<1>. PICK f \in Bytes : f = ItemBytes(len)
  BY <1>4
<1>9. Lies(wire, o + 8, f) /\ Lies(wire, o + 10 + len, z)
  <2>1. Lies(wire, o + 8, f \o z) /\ Len(f) = 2 + len
    BY <1>4, <1>5, <1>6, Zenon
  <2>2. Lies(wire, o + 8, f) /\ Lies(wire, (o + 8) + (2 + len), z)
    BY <1>2, <1>8, <2>1, LiesSplit
  <2>. QED
    BY <1>8, <2>2, Zenon
<1>10. Lies(wire, o + 8, c) /\ Lies(wire, o + 10, t)
  <2>1. Lies(wire, o + 8, c \o t)
    BY <1>4, <1>9, Zenon
  <2>2. Lies(wire, o + 8, c) /\ Lies(wire, (o + 8) + 2, t)
    BY <1>3, <1>4, <1>8, <2>1, LiesSplit
  <2>. QED
    BY <1>8, <2>2, Zenon
<1>11. Byte(o + 8) = 1 /\ Byte(o + 9) = len
  <2>1. c[1] = 1 /\ c[2] = len
    OBVIOUS
  <2>2. 1 \in 1..2 /\ 2 \in 1..2 /\ (o + 8) + 2 = (o + 9) + 1
    OBVIOUS
  <2>. QED
    BY <1>4, <1>10, <2>1, <2>2, Zenon DEF Lies, Byte
<1>12. Byte(o + 10 + len) = 0
  <2>1. Len(z) = n /\ z[1] = 0 /\ 1 \in 1..n
    BY <1>1 DEF Zeros
  <2>. QED
    BY <1>9, <2>1, Zenon DEF Lies, Byte
<1>. QED
  BY <1>6, <1>7, <1>10, <1>11, <1>12, Zenon

-----------------------------------------------------------------------------
(* The bytes of an APP                                                     *)

NameFields == [k \in 1..4 |-> <<AppName[k]>>]
PadBytes(n) == [k \in 1..n |-> n]
PadFields(n) == IF n = 0 THEN <<>> ELSE <<PadBytes(n)>>

\* What stands where the type of a head would: in the fixed part of the data
\* and in the headers.
IsFront(s) ==
    Len(s) = 16 /\ s[2] = 0 /\ s[6] = 255 /\ s[10] = 1 /\ s[14] = 9

LEMMA FrontAndText ==
    ASSUME NEW front \in Bytes, IsFront(front), NEW n \in Nat
    PROVE  /\ front \o Text(n) \in Bytes /\ Len(front \o Text(n)) = 16 + n
           /\ \A j \in 1..(16 + n) : j % 4 = 2 => (front \o Text(n))[j] \notin {SDES, APP}
<1>. PICK text : text = Text(n)
  OBVIOUS
<1>1. text \in Bytes /\ Len(text) = n
  BY TextBytes
<1>. PICK d : d = front \o text
  OBVIOUS
<1>2. /\ d \in Bytes /\ Len(d) = Len(front) + Len(text)
      /\ \A i \in 1..Len(front) : d[i] = front[i]
      /\ \A i \in 1..Len(text) : d[Len(front) + i] = text[i]
  <2>1. /\ front \o text \in Bytes /\ Len(front \o text) = Len(front) + Len(text)
        /\ \A i \in 1..Len(front) : (front \o text)[i] = front[i]
        /\ \A i \in 1..Len(text) : (front \o text)[Len(front) + i] = text[i]
    BY <1>1, BytesJoined
  <2>. QED
    BY <2>1, Zenon
<1>3. /\ Len(d) = 16 + n
      /\ \A i \in 1..16 : d[i] = front[i]
      /\ \A i \in 1..n : d[16 + i] = text[i]
  <2>1. Len(front) = 16
    BY Zenon DEF IsFront
  <2>. PICK L : L = Len(front)
    OBVIOUS
  <2>. PICK t : t = Len(text)
    OBVIOUS
  <2>2. /\ Len(d) = L + t
        /\ \A i \in 1..L : d[i] = front[i]
        /\ \A i \in 1..t : d[L + i] = text[i]
    BY <1>2, Zenon
  <2>3. L = 16 /\ t = n
    BY <1>1, <2>1, Zenon
  <2>4. Len(d) = 16 + n
    BY <2>2, <2>3, Zenon
  <2>5. ASSUME NEW i \in 1..16 PROVE d[i] = front[i]
    <3>1. i \in 1..L
      BY <2>3, Zenon
    <3>. QED
      BY <2>2, <3>1, Zenon
  <2>6. ASSUME NEW i \in 1..n PROVE d[16 + i] = text[i]
    <3>1. i \in 1..t
      BY <2>3, Zenon
    <3>2. d[L + i] = text[i]
      BY <2>2, <3>1, Zenon
    <3>. QED
      BY <2>3, <3>2, Zenon
  <2>. QED
    BY <2>4, <2>5, <2>6, Zenon
<1>4. ASSUME NEW j \in 1..(16 + n), j % 4 = 2 PROVE d[j] \notin {SDES, APP}
  <2>1. CASE j <= 16
    <3>1. j = 2 \/ j = 6 \/ j = 10 \/ j = 14
      <4>1. PICK q : q = j \div 4
        OBVIOUS
      <4>2. q \in Nat /\ j = 4 * q + 2
        BY <1>4, <4>1
      <4>3. q \in 0..3
        BY <2>1, <4>2
      <4>. QED
        BY <4>2, <4>3
    <3>3. 2 \in 1..16 /\ 6 \in 1..16 /\ 10 \in 1..16 /\ 14 \in 1..16
      OBVIOUS
    <3>2. d[2] = 0 /\ d[6] = 255 /\ d[10] = 1 /\ d[14] = 9
      <4>1. d[2] = front[2] /\ d[6] = front[6] /\ d[10] = front[10] /\ d[14] = front[14]
        BY <1>3, <3>3, Zenon
      <4>2. front[2] = 0 /\ front[6] = 255 /\ front[10] = 1 /\ front[14] = 9
        BY Zenon DEF IsFront
      <4>. QED
        BY <4>1, <4>2, Zenon
    <3>4. 0 \notin {SDES, APP} /\ 255 \notin {SDES, APP}
          /\ 1 \notin {SDES, APP} /\ 9 \notin {SDES, APP}
      BY DEF SDES, APP
    <3>5. CASE j = 2
      BY <3>2, <3>4, <3>5, Zenon
    <3>6. CASE j = 6
      BY <3>2, <3>4, <3>6, Zenon
    <3>7. CASE j = 10
      BY <3>2, <3>4, <3>7, Zenon
    <3>8. CASE j = 14
      BY <3>2, <3>4, <3>8, Zenon
    <3>. QED
      BY <3>1, <3>5, <3>6, <3>7, <3>8, Zenon
  <2>2. CASE ~(j <= 16)
    <3>1. PICK i \in 1..n : j = 16 + i
      <4>1. j - 16 \in 1..n /\ j = 16 + (j - 16)
        BY <2>2
      <4>. QED
        BY <4>1
    <3>2. d[j] = text[i]
      BY <1>3, <3>1
    <3>3. text[i] = 97 + (i % 26)
      BY DEF Text
    <3>4. i % 26 \in 0..25
      OBVIOUS
    <3>. QED
      BY <3>2, <3>3, <3>4 DEF SDES, APP
  <2>. QED
    BY <2>1, <2>2
<1>. QED
  BY <1>2, <1>3, <1>4, Zenon

LEMMA DataLength ==
    ASSUME NEW len \in AppLens, NEW ts \in Stamps
    PROVE  /\ AppData(len, ts) \in Bytes /\ Len(AppData(len, ts)) = len
           /\ \A j \in 1..len : j % 4 = 2 => AppData(len, ts)[j] \notin {SDES, APP}
<1>1. len \in Nat /\ len >= 16
  BY Inputs
<1>. PICK n \in Nat : len = 16 + n /\ len - 16 = n
  <2>1. len - 16 \in Nat /\ len = 16 + (len - 16)
    BY <1>1
  <2>. QED
    BY <2>1
<1>2. \E front \in Bytes : AppData(len, ts) = front \o Text(n) /\ IsFront(front)
  <2>. PICK front : front = <<0, 0, ts - (ts % 16), ts % 16, 255, 255, 255, 255,
                              224, 1, 0, 30, 0, 9, 1, 0>>
    OBVIOUS
  <2>1. ts \in Nat /\ ts <= 255
    BY Inputs
  <2>2. ts - (ts % 16) \in 0..255 /\ ts % 16 \in 0..255
    BY <2>1
  <2>3. front \in Bytes /\ Len(front) = 16
    BY <2>2 DEF Bytes
  <2>4. front[2] = 0 /\ front[6] = 255 /\ front[10] = 1 /\ front[14] = 9
    OBVIOUS
  <2>5. AppData(len, ts) = front \o Text(n)
    BY Zenon DEF AppData
  <2>. QED
    BY <2>3, <2>4, <2>5, ZenonT(60) DEF IsFront
<1>3. PICK front \in Bytes : AppData(len, ts) = front \o Text(n) /\ IsFront(front)
  BY <1>2
<1>4. /\ front \o Text(n) \in Bytes /\ Len(front \o Text(n)) = 16 + n
      /\ \A j \in 1..(16 + n) : j % 4 = 2 => (front \o Text(n))[j] \notin {SDES, APP}
  BY <1>3, FrontAndText
<1>. QED
  BY <1>3, <1>4, Zenon

LEMMA NameBytes ==
    /\ NameFields \in Seq(Bytes)
    /\ FlattenSeq(NameFields) \in Bytes /\ Len(FlattenSeq(NameFields)) = 4
<1>1. \A k \in 1..4 : AppName[k] \in 0..255
  BY DEF AppName
<1>2. \A k \in 1..4 : <<AppName[k]>> \in Bytes /\ Len(<<AppName[k]>>) = 1
  BY <1>1, ByteTyped
<1>3. NameFields \in Seq(Bytes) /\ Len(NameFields) = 4
      /\ \A k \in 1..Len(NameFields) : Len(NameFields[k]) = 1
  BY <1>2 DEF NameFields
<1>4. Evenly(FlattenSeq(NameFields), NameFields, 1)
  BY <1>3, EvenBytes
<1>5. Len(FlattenSeq(NameFields)) = 1 * 4
  BY <1>3, <1>4, Zenon DEF Evenly
<1>6. FlattenSeq(NameFields) \in Bytes
  BY <1>3, FlattenTyped DEF Bytes
<1>. QED
  BY <1>3, <1>5, <1>6

LEMMA PadTyped ==
    ASSUME NEW n \in 0..3
    PROVE  /\ PadFields(n) \in Seq(Bytes) /\ FlattenSeq(PadFields(n)) = PadBytes(n)
           /\ PadBytes(n) \in Bytes /\ Len(PadBytes(n)) = n
           /\ \A k \in 1..n : PadBytes(n)[k] = n
<1>. PICK z : z = PadBytes(n)
  OBVIOUS
<1>1. z = [k \in 1..n |-> n] /\ n \in 0..255 /\ n \in Nat
  BY DEF PadBytes
<1>2. z \in Bytes /\ Len(z) = n /\ \A k \in 1..n : z[k] = n
  BY <1>1 DEF Bytes
<1>3. PadFields(n) \in Seq(Bytes) /\ FlattenSeq(PadFields(n)) = z
  <2>1. CASE n = 0
    <3>1. PadFields(n) = <<>> /\ <<>> \in Seq(Bytes)
      BY <2>1 DEF PadFields
    <3>2. z = <<>>
      BY <1>1, <2>1
    <3>. QED
      BY <3>1, <3>2, FlattenEmpty, Zenon
  <2>2. CASE n # 0
    <3>1. PadFields(n) = <<z>>
      BY <2>2, Zenon DEF PadFields
    <3>2. <<z>> \in Seq(Bytes) /\ Len(<<z>>) = 1 /\ <<z>>[1] = z
      BY <1>2
    <3>3. FlattenSeq(<<z>>) = z
      BY <3>2, FlattenOne DEF Bytes
    <3>. QED
      BY <3>1, <3>2, <3>3, Zenon
  <2>. QED
    BY <2>1, <2>2
<1>. QED
  BY <1>2, <1>3, Zenon

LEMMA AppPads ==
    ASSUME NEW len \in AppLens
    PROVE  /\ PadOf(len) \in 0..3 /\ (12 + len + PadOf(len)) % 4 = 0
           /\ (PadOf(len) = 0 <=> len % 4 = 0)
           /\ (PadOf(len) # 0 => 4 - (len % 4) = PadOf(len))
           /\ 12 + len + PadOf(len) \in Nat
           /\ IsHalf((12 + len + PadOf(len)) \div 4 - 1)
<1>1. len \in Nat /\ len >= 16 /\ len <= 196621
  BY Inputs, SMT
<1>2. /\ PadOf(len) \in 0..3 /\ (12 + len + PadOf(len)) % 4 = 0
      /\ (PadOf(len) = 0 <=> len % 4 = 0)
      /\ (PadOf(len) # 0 => 4 - (len % 4) = PadOf(len))
  BY <1>1, SMT DEF PadOf
<1>3. 12 + len + PadOf(len) \in Nat /\ IsHalf((12 + len + PadOf(len)) \div 4 - 1)
  <2>1. \A n \in 0..3 : /\ 12 + len + n \in Nat /\ (12 + len + n) \div 4 - 1 \in Nat
                        /\ (12 + len + n) \div 4 - 1 <= 49158
    BY <1>1, SMT
  <2>2. \A n \in 0..3 : IsHalf((12 + len + n) \div 4 - 1)
    BY <2>1, SMT DEF IsHalf
  <2>. QED
    BY <1>2, <2>1, <2>2, SMT
<1>. QED
  BY <1>2, <1>3, SMT

LEMMA AppFacts ==
    ASSUME NEW len \in AppLens, NEW ts \in Stamps
    PROVE  /\ AppPacket(len, ts) \in Packets
           /\ AppPacket(len, ts).type = APP
           /\ AppPacket(len, ts).padding = PaddingFlag(PadOf(len))
           /\ AppPacket(len, ts).bytes = 12 + len + PadOf(len)
           /\ AppPacket(len, ts).ssrc = OwnSsrc
           /\ AppPacket(len, ts).body = AppData(len, ts)
<1>. PICK d : d = AppData(len, ts)
  OBVIOUS
<1>. PICK n \in 0..3 : n = PadOf(len)
  BY AppPads
<1>. PICK z \in Nat : z = 12 + len + PadOf(len)
  BY AppPads
<1>. PICK o \in Nat : o = OwnSsrc
  BY SMT DEF OwnSsrc
<1>. PICK g \in {0, 1} : g = PaddingFlag(n)
  BY DEF PaddingFlag
<1>1. d \in BodiesOf(APP)
  BY DataLength DEF BodiesOf, Bytes, APP, SDES, SR, RR
<1>2. AppPacket(len, ts) = Packet(APP, g, z, o, d)
  BY Zenon DEF AppPacket
<1>3. Packet(APP, g, z, o, d) \in Packets
  BY <1>1, PacketTyped
<1>4. /\ Packet(APP, g, z, o, d).type = APP /\ Packet(APP, g, z, o, d).padding = g
      /\ Packet(APP, g, z, o, d).bytes = z /\ Packet(APP, g, z, o, d).ssrc = o
      /\ Packet(APP, g, z, o, d).body = d
  BY DEF Packet
<1>. QED
  BY <1>2, <1>3, <1>4, Zenon

LEMMA AppSized ==
    ASSUME NEW len \in AppLens, NEW ts \in Stamps
    PROVE  /\ Sized(AppPacket(len, ts))
           /\ BodyFields(AppPacket(len, ts))
                  = (NameFields \o <<AppData(len, ts)>>) \o PadFields(PadOf(len))
<1>. PICK p : p = AppPacket(len, ts)
  OBVIOUS
<1>. PICK n : n = PadOf(len)
  OBVIOUS
<1>. PICK d : d = AppData(len, ts)
  OBVIOUS
<1>1. /\ p.type = APP /\ p.padding = PaddingFlag(n) /\ p.bytes = 12 + len + n
      /\ p.ssrc = OwnSsrc /\ p.body = d
  BY AppFacts, Zenon
<1>2. /\ n \in 0..3 /\ (n = 0 <=> len % 4 = 0) /\ (n # 0 => 4 - (len % 4) = n)
      /\ p.bytes \in Nat /\ p.bytes % 4 = 0 /\ IsHalf(p.bytes \div 4 - 1)
  BY <1>1, AppPads, Zenon
<1>3. p.type \notin {SR, RR} /\ p.type # SDES
  BY <1>1 DEF SR, RR, SDES, APP
<1>4. CountOf(p) = 0
  BY <1>3, Zenon DEF CountOf
<1>5. IsWord(p.ssrc)
  BY <1>1, SMT DEF IsWord, OwnSsrc
<1>6. p.padding \in {0, 1} /\ (p.padding = 1 <=> n # 0)
  BY <1>1 DEF PaddingFlag
<1>7. 0 \in 0..31
  OBVIOUS
<1>8. Sized(p)
  BY <1>1, <1>2, <1>4, <1>5, <1>6, <1>7, Zenon DEF Sized
<1>9. Len(d) = len
  BY DataLength, Zenon
<1>10. (IF p.padding = 1
        THEN <<[k \in 1..(4 - (Len(p.body) % 4)) |-> 4 - (Len(p.body) % 4)]>> ELSE <<>>)
           = PadFields(n)
  <2>1. CASE n = 0
    BY <1>6, <2>1 DEF PadFields
  <2>2. CASE n # 0
    <3>1. 4 - (Len(p.body) % 4) = n
      BY <1>1, <1>2, <1>9, <2>2, Zenon
    <3>. QED
      BY <1>6, <2>2, <3>1, Zenon DEF PadFields, PadBytes
  <2>. QED
    BY <2>1, <2>2
<1>11. [k \in 1..NAME_BYTE |-> <<AppName[k]>>] = NameFields
  BY Zenon DEF NameFields, NAME_BYTE
<1>12. BodyFields(p) = (NameFields \o <<d>>) \o PadFields(n)
  BY <1>1, <1>3, <1>10, <1>11, Zenon DEF BodyFields
<1>. QED
  BY <1>8, <1>12, Zenon

LEMMA AppBytes ==
    ASSUME NEW len \in AppLens, NEW ts \in Stamps
    PROVE  /\ BodyFields(AppPacket(len, ts)) \in Seq(Bytes)
           /\ FlattenSeq(BodyFields(AppPacket(len, ts)))
                  = (FlattenSeq(NameFields) \o AppData(len, ts)) \o PadBytes(PadOf(len))
           /\ FlattenSeq(NameFields) \o AppData(len, ts) \in Bytes
           /\ Len(FlattenSeq(NameFields) \o AppData(len, ts)) = 4 + len
           /\ PacketFields(AppPacket(len, ts)) \in Seq(Bytes)
           /\ BytesOf(AppPacket(len, ts)) \in Bytes
           /\ Len(BytesOf(AppPacket(len, ts))) = AppPacket(len, ts).bytes
<1>. PICK p : p = AppPacket(len, ts)
  OBVIOUS
<1>. PICK n : n = PadOf(len)
  OBVIOUS
<1>. PICK d : d = AppData(len, ts)
  OBVIOUS
<1>. PICK z : z = PadBytes(n)
  OBVIOUS
<1>1. d \in Bytes /\ Len(d) = len /\ len \in Nat
  BY DataLength, Inputs
<1>2. n \in 0..3
  BY AppPads
<1>. PICK N \in Seq(Bytes) : N = NameFields
  BY NameBytes
<1>. PICK P \in Seq(Bytes) : P = PadFields(n)
  BY <1>2, PadTyped
<1>3. FlattenSeq(P) = z /\ z \in Bytes /\ Len(z) = n
  BY <1>2, PadTyped
<1>. PICK f \in Bytes : f = FlattenSeq(N) /\ Len(f) = 4
  BY NameBytes
<1>. PICK D \in Seq(Bytes) : D = <<d>> /\ FlattenSeq(D) = d
  <2>1. <<d>> \in Seq(Bytes) /\ Len(<<d>>) = 1 /\ <<d>>[1] = d
    BY <1>1
  <2>2. FlattenSeq(<<d>>) = d
    BY <2>1, FlattenOne DEF Bytes
  <2>. QED
    BY <2>1, <2>2
<1>4. N \o D \in Seq(Bytes) /\ FlattenSeq(N \o D) = FlattenSeq(N) \o FlattenSeq(D)
  BY FieldsConcat, ZenonT(60)
<1>. PICK ND \in Seq(Bytes) : ND = N \o D
  BY <1>4
<1>5. ND \o P \in Seq(Bytes) /\ FlattenSeq(ND \o P) = FlattenSeq(ND) \o FlattenSeq(P)
  BY FieldsConcat, ZenonT(60)
<1>6. FlattenSeq(ND) = f \o d
  BY <1>4, Zenon
<1>7. BodyFields(p) = ND \o P /\ Sized(p)
  BY AppSized, Zenon
<1>8. BodyFields(p) \in Seq(Bytes) /\ FlattenSeq(BodyFields(p)) = (f \o d) \o z
  BY <1>3, <1>5, <1>6, <1>7, Zenon
<1>9. f \o d \in Bytes /\ Len(f \o d) = 4 + len
  <2>1. f \o d \in Bytes /\ Len(f \o d) = Len(f) + Len(d)
    BY <1>1, BytesJoined
  <2>. QED
    BY <1>1, <2>1, Zenon
<1>. PICK g \in Bytes : g = f \o d /\ Len(g) = 4 + len
  BY <1>9
<1>10. Len(g \o z) = (4 + len) + n
  <2>1. Len(g \o z) = Len(g) + Len(z)
    BY <1>3, BytesJoined
  <2>. QED
    BY <1>3, <2>1, Zenon
<1>11. /\ PacketFields(p) \in Seq(Bytes) /\ BytesOf(p) \in Bytes
       /\ Len(BytesOf(p)) = 8 + Len(FlattenSeq(BodyFields(p)))
  BY <1>7, <1>8, PacketFlat
<1>12. p.bytes = 8 + ((4 + len) + n)
  <2>1. p.bytes = 12 + len + n
    BY AppFacts, Zenon
  <2>. QED
    BY <1>1, <1>2, <2>1
<1>. QED
  BY <1>8, <1>9, <1>10, <1>11, <1>12, Zenon

\* Where an APP lies its data are found, and the count of the padding at its end.
LEMMA AppLies ==
    ASSUME NEW len \in AppLens, NEW ts \in Stamps, NEW o \in Nat,
           Lies(wire, o, BytesOf(AppPacket(len, ts)))
    PROVE  /\ HeadType(o) = APP /\ HeadPadding(o) = PaddingFlag(PadOf(len))
           /\ HeadLength(o) = AppPacket(len, ts).bytes \div 4 - 1
           /\ Word32(o + 4) = OwnSsrc
           /\ Lies(wire, o + 12, AppData(len, ts))
           /\ PadOf(len) # 0 => Byte(o + 12 + len + PadOf(len) - 1) = PadOf(len)
<1>. PICK p : p = AppPacket(len, ts)
  OBVIOUS
<1>. PICK n \in 0..3 : n = PadOf(len)
  BY AppPads
<1>. PICK d : d = AppData(len, ts)
  OBVIOUS
<1>. PICK z : z = PadBytes(n)
  OBVIOUS
<1>1. d \in Bytes /\ len \in Nat
  BY DataLength, Inputs
<1>2. z \in Bytes /\ Len(z) = n /\ \A k \in 1..n : z[k] = n
  BY PadTyped
<1>. PICK f \in Bytes : f = FlattenSeq(NameFields) /\ Len(f) = 4
  BY NameBytes
<1>3. /\ Sized(p) /\ BodyFields(p) \in Seq(Bytes) /\ Lies(wire, o, BytesOf(p))
      /\ FlattenSeq(BodyFields(p)) = (f \o d) \o z
      /\ f \o d \in Bytes /\ Len(f \o d) = 4 + len
  BY AppSized, AppBytes, Zenon
<1>4. /\ HeadType(o) = p.type /\ HeadPadding(o) = p.padding
      /\ HeadLength(o) = p.bytes \div 4 - 1
      /\ Word32(o + 4) = p.ssrc
      /\ Lies(wire, o + 8, FlattenSeq(BodyFields(p)))
  BY <1>3, PacketLies
<1>5. p.type = APP /\ p.ssrc = OwnSsrc /\ p.padding = PaddingFlag(n)
  BY AppFacts, Zenon
<1>. PICK g \in Bytes : g = f \o d /\ Len(g) = 4 + len
  BY <1>3
<1>6. o + 8 \in Nat /\ (o + 8) + (4 + len) = o + 12 + len /\ (o + 8) + 4 = o + 12
  BY <1>1
<1>7. Lies(wire, o + 8, g) /\ Lies(wire, o + 12 + len, z)
  <2>1. Lies(wire, o + 8, g \o z)
    BY <1>3, <1>4, Zenon
  <2>2. Lies(wire, o + 8, g) /\ Lies(wire, (o + 8) + (4 + len), z)
    BY <1>2, <1>6, <2>1, LiesSplit, ZenonT(60)
  <2>. QED
    BY <1>6, <2>2, Zenon
<1>8. Lies(wire, o + 12, d)
  <2>1. Lies(wire, o + 8, f \o d)
    BY <1>7, Zenon
  <2>2. Lies(wire, (o + 8) + 4, d)
    BY <1>1, <1>6, <2>1, LiesSplit
  <2>. QED
    BY <1>6, <2>2, Zenon
<1>9. ASSUME n # 0 PROVE Byte(o + 12 + len + n - 1) = n
  <2>1. n \in 1..n /\ (o + 12 + len + n - 1) + 1 = (o + 12 + len) + n
    BY <1>1, <1>9
  <2>3. z[n] = n /\ n \in 1..Len(z)
    BY <1>2, <2>1, Zenon
  <2>4. wire[(o + 12 + len) + n] = z[n]
    BY <1>7, <2>3, Zenon DEF Lies
  <2>2. wire[(o + 12 + len) + n] = n
    BY <2>3, <2>4, Zenon
  <2>. QED
    BY <2>1, <2>2, Zenon DEF Byte
<1>. QED
  BY <1>4, <1>5, <1>8, <1>9, Zenon

-----------------------------------------------------------------------------
(* Packing the compound                                                    *)

Good(p) ==
    /\ Sized(p) /\ BodyFields(p) \in Seq(Bytes) /\ PacketFields(p) \in Seq(Bytes)
    /\ BytesOf(p) \in Bytes /\ Len(BytesOf(p)) = p.bytes

LEMMA PacketGood ==
    ASSUME NEW p, IsReport(p) \/ IsCname(p) \/ IsApp(p)
    PROVE  Good(p)
<1>1. CASE IsReport(p)
  <2>1. PICK type \in {SR, RR}, n \in 0..MAX_REPORTS : p = ReportPacket(type, n)
    BY <1>1, Zenon DEF IsReport
  <2>2. n \in 0..31
    BY PacketAssumption
  <2>3. Good(ReportPacket(type, n))
    BY <2>2, ReportSized, ReportBytes, Zenon DEF Good
  <2>. QED
    BY <2>1, <2>3, Zenon
<1>2. CASE IsCname(p)
  <2>1. PICK len \in 1..255 : p = ChunkEnded(CnamePacket(len))
    BY <1>2, Zenon DEF IsCname
  <2>2. Good(ChunkEnded(CnamePacket(len)))
    BY CnameSized, CnameBytes, Zenon DEF Good
  <2>. QED
    BY <2>1, <2>2, Zenon
<1>3. CASE IsApp(p)
  <2>1. PICK len \in AppLens, ts \in Stamps : p = AppPacket(len, ts)
    BY <1>3, Zenon DEF IsApp
  <2>2. Good(AppPacket(len, ts))
    BY AppSized, AppBytes, Zenon DEF Good
  <2>. QED
    BY <2>1, <2>2, Zenon
<1>. QED
  BY <1>1, <1>2, <1>3

\* Offset, of any compound.
OffsetIn(hs, i) == SumBytes(SubSeq(hs, 1, i - 1))

LEMMA PrefixOf ==
    ASSUME NEW hs \in Seq(Packets), NEW k \in 0..Len(hs)
    PROVE  /\ SubSeq(hs, 1, k) \in Seq(Packets) /\ Len(SubSeq(hs, 1, k)) = k
           /\ \A j \in 1..k : SubSeq(hs, 1, k)[j] = hs[j]
  OBVIOUS

LEMMA WholePrefix ==
    ASSUME NEW hs \in Seq(Packets)
    PROVE  SubSeq(hs, 1, Len(hs)) = hs
  OBVIOUS

LEMMA OffsetsAre ==
    ASSUME NEW hs \in Seq(Packets), Len(hs) \in 1..3
    PROVE  /\ OffsetIn(hs, 1) = 0
           /\ OffsetIn(hs, 2) = hs[1].bytes
           /\ Len(hs) >= 2 => OffsetIn(hs, 3) = hs[1].bytes + hs[2].bytes
           /\ Len(hs) >= 3 => OffsetIn(hs, 4) = hs[1].bytes + hs[2].bytes + hs[3].bytes
           /\ SumBytes(hs) = OffsetIn(hs, Len(hs) + 1)
<1>. PICK n \in 1..3 : n = Len(hs)
  OBVIOUS
<1>1. ASSUME NEW k \in 0..n
      PROVE  /\ k = 0 => OffsetIn(hs, k + 1) = 0
             /\ k = 1 => OffsetIn(hs, k + 1) = hs[1].bytes
             /\ k = 2 => OffsetIn(hs, k + 1) = hs[1].bytes + hs[2].bytes
             /\ k = 3 => OffsetIn(hs, k + 1) = hs[1].bytes + hs[2].bytes + hs[3].bytes
  <2>. PICK s : s = SubSeq(hs, 1, k)
    OBVIOUS
  <2>1. s \in Seq(Packets) /\ Len(s) = k /\ \A j \in 1..k : s[j] = hs[j]
    BY PrefixOf
  <2>2. /\ k = 0 => SumBytes(s) = 0
        /\ k = 1 => SumBytes(s) = s[1].bytes
        /\ k = 2 => SumBytes(s) = s[1].bytes + s[2].bytes
        /\ k = 3 => SumBytes(s) = s[1].bytes + s[2].bytes + s[3].bytes
    <3>1. Len(s) <= 3
      BY <2>1
    <3>2. /\ Len(s) = 0 => SumBytes(s) = 0
          /\ Len(s) = 1 => SumBytes(s) = s[1].bytes
          /\ Len(s) = 2 => SumBytes(s) = s[1].bytes + s[2].bytes
          /\ Len(s) = 3 => SumBytes(s) = s[1].bytes + s[2].bytes + s[3].bytes
      BY <2>1, <3>1, BytesOfThree, Zenon
    <3>. QED
      BY <2>1, <3>2, Zenon
  <2>3. OffsetIn(hs, k + 1) = SumBytes(s)
    <3>1. (k + 1) - 1 = k
      OBVIOUS
    <3>. QED
      BY <3>1, Zenon DEF OffsetIn
  <2>. QED
    BY <2>1, <2>2, <2>3
<1>2. SumBytes(hs) = OffsetIn(hs, n + 1)
  <2>1. (n + 1) - 1 = n
    OBVIOUS
  <2>2. SubSeq(hs, 1, n) = hs
    BY WholePrefix, Zenon
  <2>. QED
    BY <2>1, <2>2, Zenon DEF OffsetIn
<1>3. OffsetIn(hs, 1) = 0
  <2>1. 0 \in 0..n /\ 0 + 1 = 1
    OBVIOUS
  <2>. QED
    BY <1>1, <2>1, Zenon
<1>4. OffsetIn(hs, 2) = hs[1].bytes
  <2>1. 1 \in 0..n /\ 1 + 1 = 2
    OBVIOUS
  <2>. QED
    BY <1>1, <2>1, Zenon
<1>5. ASSUME n >= 2 PROVE OffsetIn(hs, 3) = hs[1].bytes + hs[2].bytes
  <2>1. 2 \in 0..n /\ 2 + 1 = 3
    BY <1>5
  <2>. QED
    BY <1>1, <2>1, Zenon
<1>6. ASSUME n >= 3 PROVE OffsetIn(hs, 4) = hs[1].bytes + hs[2].bytes + hs[3].bytes
  <2>1. 3 \in 0..n /\ 3 + 1 = 4
    BY <1>6
  <2>. QED
    BY <1>1, <2>1, Zenon
<1>. QED
  BY <1>2, <1>3, <1>4, <1>5, <1>6, Zenon

\* From each packet to the next.
LEMMA OffsetGrows ==
    ASSUME NEW hs \in Seq(Packets), Len(hs) \in 1..3, NEW i \in 1..Len(hs)
    PROVE  /\ OffsetIn(hs, i) \in Nat /\ OffsetIn(hs, i + 1) \in Nat
           /\ OffsetIn(hs, i + 1) = OffsetIn(hs, i) + hs[i].bytes
           /\ OffsetIn(hs, i + 1) <= OffsetIn(hs, Len(hs) + 1)
           /\ OffsetIn(hs, Len(hs) + 1) \in Nat
<1>1. \A j \in 1..Len(hs) : hs[j].bytes \in Nat
  BY TypeOfPacket
<1>2. /\ OffsetIn(hs, 1) = 0
      /\ OffsetIn(hs, 2) = hs[1].bytes
      /\ Len(hs) >= 2 => OffsetIn(hs, 3) = hs[1].bytes + hs[2].bytes
      /\ Len(hs) >= 3 => OffsetIn(hs, 4) = hs[1].bytes + hs[2].bytes + hs[3].bytes
  BY OffsetsAre
<1>3. i = 1 \/ i = 2 \/ i = 3
  <2>1. PICK n \in 1..3 : n = Len(hs)
    OBVIOUS
  <2>2. i \in 1..n
    BY <2>1
  <2>. QED
    BY <2>2
<1>4. CASE Len(hs) = 1
  BY <1>1, <1>2, <1>4
<1>5. CASE Len(hs) = 2
  BY <1>1, <1>2, <1>5, SMTT(60)
<1>6. CASE Len(hs) = 3
  BY <1>1, <1>2, <1>6, SMTT(60)
<1>. QED
  BY <1>4, <1>5, <1>6

\* The bytes of a list of lists of fields.
LEMMA FlatThree ==
    ASSUME NEW s \in Seq(Seq(Bytes)), Len(s) \in 1..3
    PROVE  /\ FlattenSeq(s) \in Seq(Bytes)
           /\ Len(s) = 1 => FlattenSeq(FlattenSeq(s)) = FlattenSeq(s[1])
           /\ Len(s) = 2 => FlattenSeq(FlattenSeq(s)) = FlattenSeq(s[1]) \o FlattenSeq(s[2])
           /\ Len(s) = 3 => FlattenSeq(FlattenSeq(s))
                                = (FlattenSeq(s[1]) \o FlattenSeq(s[2])) \o FlattenSeq(s[3])
<1>1. FlattenSeq(s) \in Seq(Bytes)
  BY FlattenTyped
<1>2. ASSUME Len(s) = 1 PROVE FlattenSeq(FlattenSeq(s)) = FlattenSeq(s[1])
  <2>1. FlattenSeq(s) = s[1]
    BY <1>2, FlattenOne
  <2>. QED
    BY <2>1, Zenon
<1>3. ASSUME Len(s) = 2
      PROVE  FlattenSeq(FlattenSeq(s)) = FlattenSeq(s[1]) \o FlattenSeq(s[2])
  <2>1. FlattenSeq(s) = s[1] \o s[2]
    BY <1>3, FlattenTwo
  <2>2. s[1] \in Seq(Bytes) /\ s[2] \in Seq(Bytes)
    <3>1. 1 \in 1..Len(s) /\ 2 \in 1..Len(s)
      BY <1>3
    <3>. QED
      BY <3>1, ElementOfSeq, Zenon
  <2>3. FlattenSeq(s[1] \o s[2]) = FlattenSeq(s[1]) \o FlattenSeq(s[2])
    BY <2>2, FieldsConcat, Zenon
  <2>. QED
    BY <2>1, <2>3, Zenon
<1>4. ASSUME Len(s) = 3
      PROVE  FlattenSeq(FlattenSeq(s)) = (FlattenSeq(s[1]) \o FlattenSeq(s[2])) \o FlattenSeq(s[3])
  <2>1. FlattenSeq(s) = (s[1] \o s[2]) \o s[3]
    BY <1>4, FlattenThree
  <2>2. s[1] \in Seq(Bytes) /\ s[2] \in Seq(Bytes) /\ s[3] \in Seq(Bytes)
    <3>1. 1 \in 1..Len(s) /\ 2 \in 1..Len(s) /\ 3 \in 1..Len(s)
      BY <1>4
    <3>. QED
      BY <3>1, ElementOfSeq, Zenon
  <2>3. /\ FlattenSeq(s[1] \o s[2]) = FlattenSeq(s[1]) \o FlattenSeq(s[2])
        /\ s[1] \o s[2] \in Seq(Bytes)
    BY <2>2, FieldsConcat, Zenon
  <2>4. FlattenSeq((s[1] \o s[2]) \o s[3]) = FlattenSeq(s[1] \o s[2]) \o FlattenSeq(s[3])
    BY <2>2, <2>3, FieldsConcat, Zenon
  <2>. QED
    BY <2>1, <2>3, <2>4, Zenon
<1>. QED
  BY <1>1, <1>2, <1>3, <1>4, Zenon

FieldsOf(hs) == [i \in DOMAIN hs |-> PacketFields(hs[i])]
FlatOf(hs) == FlattenSeq(FlattenSeq([i \in DOMAIN hs |-> PacketFields(hs[i])]))

\* The m + n bytes c begin with a and go on with b.
Divides(c, a, b, m, n) ==
    /\ c \in Bytes /\ Len(c) = m + n
    /\ \A w : \A o \in Nat : Lies(w, o, c) => Lies(w, o, a) /\ Lies(w, o + m, b)

LEMMA JoinedLies ==
    ASSUME NEW a \in Bytes, NEW b \in Bytes, NEW m, Len(a) = m, NEW n, Len(b) = n
    PROVE  Divides(a \o b, a, b, m, n)
<1>1. a \o b \in Bytes /\ Len(a \o b) = Len(a) + Len(b)
  <2>1. a \in Bytes /\ b \in Bytes
    OBVIOUS
  <2>. QED
    BY <2>1, BytesJoined, Zenon
<1>2. ASSUME NEW w, NEW o \in Nat, Lies(w, o, a \o b)
      PROVE  Lies(w, o, a) /\ Lies(w, o + m, b)
  <2>1. Lies(w, o, a) /\ Lies(w, o + Len(a), b)
    BY <1>2, LiesJoined, Zenon
  <2>. QED
    BY <2>1, Zenon
<1>3. Len(a \o b) = m + n
  BY <1>1, Zenon
<1>. QED
  BY <1>1, <1>2, <1>3, Zenon DEF Divides

\* The packets of a compound, each of them good, one after the other.
LEMMA FlatLies ==
    ASSUME NEW hs \in Seq(Packets), Len(hs) \in 1..3, \A i \in 1..Len(hs) : Good(hs[i])
    PROVE  /\ FlattenSeq(FieldsOf(hs)) \in Seq(Bytes)
           /\ FlatOf(hs) \in Bytes
           /\ Len(FlatOf(hs)) = OffsetIn(hs, Len(hs) + 1)
           /\ \A w : Lies(w, 0, FlatOf(hs)) =>
                 \A i \in 1..Len(hs) : Lies(w, OffsetIn(hs, i), BytesOf(hs[i]))
<1>. PICK s : s = FieldsOf(hs)
  OBVIOUS
<1>. PICK n \in 1..3 : n = Len(hs)
  OBVIOUS
<1>1. /\ s \in Seq(Seq(Bytes)) /\ Len(s) = n
      /\ \A i \in 1..n : s[i] = PacketFields(hs[i])
  <2>1. \A i \in 1..n : PacketFields(hs[i]) \in Seq(Bytes)
    BY Zenon DEF Good
  <2>2. DOMAIN hs = 1..n
    OBVIOUS
  <2>3. s = [i \in 1..n |-> PacketFields(hs[i])]
    BY <2>2, Zenon DEF FieldsOf
  <2>. QED
    BY <2>1, <2>3
<1>. PICK f : f = FlatOf(hs)
  OBVIOUS
<1>2. f = FlattenSeq(FlattenSeq(s)) /\ FlattenSeq(s) \in Seq(Bytes)
  <2>1. FlattenSeq(s) \in Seq(Bytes)
    BY <1>1, FlattenTyped
  <2>. QED
    BY <2>1, Zenon DEF FlatOf, FieldsOf
<1>3. \A i \in 1..n : /\ FlattenSeq(s[i]) = BytesOf(hs[i]) /\ BytesOf(hs[i]) \in Bytes
                      /\ Len(BytesOf(hs[i])) = hs[i].bytes /\ hs[i].bytes \in Nat
  BY <1>1, Zenon DEF Good, Sized, BytesOf
<1>4. /\ OffsetIn(hs, 1) = 0
      /\ OffsetIn(hs, 2) = hs[1].bytes
      /\ n >= 2 => OffsetIn(hs, 3) = hs[1].bytes + hs[2].bytes
      /\ n >= 3 => OffsetIn(hs, 4) = hs[1].bytes + hs[2].bytes + hs[3].bytes
  BY OffsetsAre, Zenon
<1>5. /\ n = 1 => f = FlattenSeq(s[1])
      /\ n = 2 => f = FlattenSeq(s[1]) \o FlattenSeq(s[2])
      /\ n = 3 => f = (FlattenSeq(s[1]) \o FlattenSeq(s[2])) \o FlattenSeq(s[3])
  <2>1. Len(s) \in 1..3
    BY <1>1
  <2>. QED
    BY <1>1, <1>2, <2>1, FlatThree, Zenon
<1>6. CASE n = 1
  <2>1. 1 \in 1..n /\ 1 + 1 = 2 /\ \A i \in 1..n : i = 1
    BY <1>6
  <2>2. f = BytesOf(hs[1])
    BY <1>3, <1>5, <1>6, <2>1, Zenon
  <2>3. f \in Bytes /\ Len(f) = OffsetIn(hs, n + 1)
    BY <1>3, <1>4, <1>6, <2>1, <2>2, Zenon
  <2>4. ASSUME NEW w, Lies(w, 0, f), NEW i \in 1..n
        PROVE  Lies(w, OffsetIn(hs, i), BytesOf(hs[i]))
    BY <1>4, <2>1, <2>2, <2>4, Zenon
  <2>. QED
    BY <1>2, <2>3, <2>4, Zenon
<1>7. CASE n = 2
  <2>1. 1 \in 1..n /\ 2 \in 1..n /\ 2 + 1 = 3 /\ n >= 2 /\ 0 \in Nat
        /\ \A i \in 1..n : i = 1 \/ i = 2
    BY <1>7
  <2>. PICK a \in Bytes : a = BytesOf(hs[1])
    BY <1>3, <2>1, Zenon
  <2>. PICK b \in Bytes : b = BytesOf(hs[2])
    BY <1>3, <2>1, Zenon
  <2>. PICK k \in Nat : k = hs[1].bytes
    BY <1>3, <2>1, Zenon
  <2>. PICK l \in Nat : l = hs[2].bytes
    BY <1>3, <2>1, Zenon
  <2>2. f = a \o b /\ Len(a) = k /\ Len(b) = l
    BY <1>3, <1>5, <1>7, <2>1, Zenon
  <2>3. /\ a \o b \in Bytes /\ Len(a \o b) = k + l
        /\ \A w : \A o \in Nat : Lies(w, o, a \o b) => Lies(w, o, a) /\ Lies(w, o + k, b)
    <3>1. Divides(a \o b, a, b, k, l)
      BY <2>2, JoinedLies
    <3>. QED
      BY <3>1, Zenon DEF Divides
  <2>4. f \in Bytes /\ Len(f) = OffsetIn(hs, n + 1)
    BY <1>4, <1>7, <2>1, <2>2, <2>3, Zenon
  <2>5. ASSUME NEW w, Lies(w, 0, f), NEW i \in 1..n
        PROVE  Lies(w, OffsetIn(hs, i), BytesOf(hs[i]))
    <3>1. Lies(w, 0, a) /\ Lies(w, 0 + k, b)
      BY <2>1, <2>2, <2>3, <2>5, Zenon
    <3>2. 0 + k = k
      OBVIOUS
    <3>3. OffsetIn(hs, 1) = 0 /\ OffsetIn(hs, 2) = k
      BY <1>4, Zenon
    <3>4. CASE i = 1
      BY <3>1, <3>3, <3>4, Zenon
    <3>5. CASE i = 2
      BY <3>1, <3>2, <3>3, <3>5, Zenon
    <3>. QED
      BY <2>1, <3>4, <3>5, Zenon
  <2>. QED
    BY <1>2, <2>4, <2>5, Zenon
<1>8. CASE n = 3
  <2>1. /\ 1 \in 1..n /\ 2 \in 1..n /\ 3 \in 1..n /\ 3 + 1 = 4 /\ n >= 2 /\ n >= 3 /\ 0 \in Nat
        /\ \A i \in 1..n : i = 1 \/ i = 2 \/ i = 3
    BY <1>8
  <2>. PICK a \in Bytes : a = BytesOf(hs[1])
    BY <1>3, <2>1, Zenon
  <2>. PICK b \in Bytes : b = BytesOf(hs[2])
    BY <1>3, <2>1, Zenon
  <2>. PICK c \in Bytes : c = BytesOf(hs[3])
    BY <1>3, <2>1, Zenon
  <2>. PICK k \in Nat : k = hs[1].bytes
    BY <1>3, <2>1, Zenon
  <2>. PICK l \in Nat : l = hs[2].bytes
    BY <1>3, <2>1, Zenon
  <2>. PICK m \in Nat : m = hs[3].bytes
    BY <1>3, <2>1, Zenon
  <2>2. f = (a \o b) \o c /\ Len(a) = k /\ Len(b) = l /\ Len(c) = m
    BY <1>3, <1>5, <1>8, <2>1, Zenon
  <2>3. /\ a \o b \in Bytes /\ Len(a \o b) = k + l
        /\ \A w : \A o \in Nat : Lies(w, o, a \o b) => Lies(w, o, a) /\ Lies(w, o + k, b)
    <3>1. Divides(a \o b, a, b, k, l)
      BY <2>2, JoinedLies
    <3>. QED
      BY <3>1, Zenon DEF Divides
  <2>. PICK ab \in Bytes : ab = a \o b
    BY <2>3, Zenon
  <2>. PICK kl \in Nat : kl = k + l
    OBVIOUS
  <2>4. /\ ab \o c \in Bytes /\ Len(ab \o c) = kl + m
        /\ \A w : \A o \in Nat : Lies(w, o, ab \o c) => Lies(w, o, ab) /\ Lies(w, o + kl, c)
    <3>1. Len(ab) = kl
      BY <2>3, Zenon
    <3>2. Divides(ab \o c, ab, c, kl, m)
      BY <2>2, <3>1, JoinedLies
    <3>. QED
      BY <3>2, Zenon DEF Divides
  <2>5. f \in Bytes /\ Len(f) = OffsetIn(hs, n + 1)
    BY <1>4, <1>8, <2>1, <2>2, <2>4, Zenon
  <2>6. ASSUME NEW w, Lies(w, 0, f), NEW i \in 1..n
        PROVE  Lies(w, OffsetIn(hs, i), BytesOf(hs[i]))
    <3>1. Lies(w, 0, ab) /\ Lies(w, 0 + kl, c)
      BY <2>1, <2>2, <2>4, <2>6, Zenon
    <3>6. Lies(w, 0, a) /\ Lies(w, 0 + k, b)
      BY <2>1, <2>3, <3>1, Zenon
    <3>2. 0 + k = k /\ 0 + kl = kl
      OBVIOUS
    <3>3. OffsetIn(hs, 1) = 0 /\ OffsetIn(hs, 2) = k /\ OffsetIn(hs, 3) = kl
      BY <1>4, <2>1, Zenon
    <3>4. CASE i = 1
      BY <3>6, <3>3, <3>4, Zenon
    <3>5. CASE i = 2
      BY <3>6, <3>2, <3>3, <3>5, Zenon
    <3>7. CASE i = 3
      BY <3>1, <3>2, <3>3, <3>7, Zenon
    <3>. QED
      BY <2>1, <3>4, <3>5, <3>7, Zenon
  <2>. QED
    BY <1>2, <2>5, <2>6, Zenon
<1>9. n = 1 \/ n = 2 \/ n = 3
  OBVIOUS
<1>. QED
  BY <1>6, <1>7, <1>8, <1>9, Zenon

LEMMA CompoundGood ==
    ASSUME NEW hs \in Seq(Packets), IsCompound(hs)
    PROVE  Len(hs) \in 1..3 /\ \A i \in 1..Len(hs) : Good(hs[i])
<1>1. Len(hs) \in 1..3
  BY Zenon DEF IsCompound
<1>2. ASSUME NEW i \in 1..Len(hs) PROVE Good(hs[i])
  <2>. PICK n \in 1..3 : n = Len(hs)
    BY <1>1
  <2>1. i = 1 \/ (i = 2 /\ n = 2) \/ (i = 2 /\ n = 3) \/ (i = 3 /\ n = 3)
    <3>1. i \in 1..n
      BY <1>2, Zenon
    <3>. QED
      BY <3>1
  <2>2. IsReport(hs[i]) \/ IsCname(hs[i]) \/ IsApp(hs[i])
    BY <2>1, Zenon DEF IsCompound
  <2>. QED
    BY <2>2, PacketGood
<1>. QED
  BY <1>1, <1>2

\* The buffer w of b bytes holds the packets hs, each where its offset says.
SentAs(w, hs, b) ==
    /\ w \in Bytes /\ Len(w) = b /\ Len(w) = OffsetIn(hs, Len(hs) + 1)
    /\ \A i \in 1..Len(hs) : Lies(w, OffsetIn(hs, i), BytesOf(hs[i]))

LEMMA Packing ==
    ASSUME NEW hs \in Seq(Packets), IsCompound(hs)
    PROVE  /\ SumBytes(hs) \in Nat /\ SumBytes(hs) % 4 = 0
           /\ AddFields(FlattenSeq(FieldsOf(hs)), SumBytes(hs)) = FlatOf(hs)
           /\ SentAs(FlatOf(hs), hs, SumBytes(hs))
<1>1. Len(hs) \in 1..3 /\ \A i \in 1..Len(hs) : Good(hs[i])
  BY CompoundGood
<1>2. /\ FlattenSeq(FieldsOf(hs)) \in Seq(Bytes)
      /\ FlatOf(hs) \in Bytes
      /\ Len(FlatOf(hs)) = OffsetIn(hs, Len(hs) + 1)
      /\ \A w : Lies(w, 0, FlatOf(hs)) =>
            \A i \in 1..Len(hs) : Lies(w, OffsetIn(hs, i), BytesOf(hs[i]))
  BY <1>1, FlatLies, Zenon
<1>3. SumBytes(hs) = OffsetIn(hs, Len(hs) + 1)
  BY <1>1, OffsetsAre, Zenon
<1>. PICK n \in 1..3 : n = Len(hs)
  BY <1>1
<1>4. SumBytes(hs) \in Nat /\ SumBytes(hs) % 4 = 0
  <2>1. \A i \in 1..n : hs[i].bytes \in Nat /\ hs[i].bytes % 4 = 0
    BY <1>1, Zenon DEF Good, Sized
  <2>2. /\ n = 1 => SumBytes(hs) = hs[1].bytes
        /\ n = 2 => SumBytes(hs) = hs[1].bytes + hs[2].bytes
        /\ n = 3 => SumBytes(hs) = hs[1].bytes + hs[2].bytes + hs[3].bytes
    <3>1. Len(hs) <= 3
      BY <1>1
    <3>. QED
      BY <3>1, BytesOfThree, Zenon
  <2>3. CASE n = 1
    BY <2>1, <2>2, <2>3
  <2>4. CASE n = 2
    BY <2>1, <2>2, <2>4
  <2>5. CASE n = 3
    <3>1. \A a, b \in Nat : a % 4 = 0 /\ b % 4 = 0 => a + b \in Nat /\ (a + b) % 4 = 0
      OBVIOUS
    <3>2. 1 \in 1..n /\ 2 \in 1..n /\ 3 \in 1..n
      BY <2>5
    <3>3. hs[1].bytes + hs[2].bytes \in Nat /\ (hs[1].bytes + hs[2].bytes) % 4 = 0
      BY <2>1, <3>1, <3>2, Zenon
    <3>4. /\ (hs[1].bytes + hs[2].bytes) + hs[3].bytes \in Nat
          /\ ((hs[1].bytes + hs[2].bytes) + hs[3].bytes) % 4 = 0
      BY <2>1, <3>1, <3>2, <3>3, Zenon
    <3>. QED
      BY <2>2, <2>5, <3>4, Zenon
  <2>. QED
    BY <2>3, <2>4, <2>5
<1>. PICK f : f = FlatOf(hs)
  OBVIOUS
<1>. PICK t : t = FlattenSeq(FieldsOf(hs))
  OBVIOUS
<1>. PICK z : z = SumBytes(hs)
  OBVIOUS
<1>5. FlattenSeq(t) = f
  BY Zenon DEF FlatOf, FieldsOf
<1>6. AddFields(t, z) = f
  <2>1. t \in Seq(Bytes) /\ z \in Nat
    BY <1>2, <1>4, Zenon
  <2>2. Len(FlattenSeq(t)) = z /\ z <= z
    BY <1>2, <1>3, <1>4, <1>5
  <2>3. Len(FlattenSeq(t)) <= z
    BY <2>2, Zenon
  <2>4. AddFields(t, z) = FlattenSeq(t)
    BY <2>1, <2>3, NoneRefused
  <2>. QED
    BY <1>5, <2>4, Zenon
<1>7. Lies(f, 0, f)
  <2>1. Len(f) \in Nat
    BY <1>2, LenNat
  <2>2. \A k \in 1..Len(f) : 0 + k = k
    BY <2>1
  <2>. QED
    BY <2>2, Zenon DEF Lies
<1>8. SentAs(f, hs, z)
  BY <1>2, <1>3, <1>7, Zenon DEF SentAs
<1>. QED
  BY <1>4, <1>6, <1>8, Zenon

\* Before and after rtcp_pack.
PackInv ==
    /\ pc \in {"new", "info", "cname", "end", "reports", "pack"} => wire = <<>>
    /\ pc \in {"sent", "scan", "item", "read"} => SentAs(wire, heads, bytes)
    /\ pc = "sent" => wire = FlatOf(heads)
    /\ bytes \in Nat /\ guests \in GuestCounts
    /\ pc \in {"new", "info", "cname", "end", "reports", "pack", "sent", "scan", "item", "read"}

LEMMA PackSent ==
    ASSUME BuiltInv, ShapeInv, PackInv, Pack
    PROVE  PackInv'
<1>1. pc = "pack" /\ pc' = "sent" /\ heads' = heads /\ guests' = guests
  BY DEF Pack, Reading
<1>2. heads \in Seq(Packets) /\ IsCompound(heads)
  BY <1>1 DEF BuiltInv, ShapeInv
<1>3. /\ SumBytes(heads) \in Nat /\ SumBytes(heads) % 4 = 0
      /\ AddFields(FlattenSeq(FieldsOf(heads)), SumBytes(heads)) = FlatOf(heads)
      /\ SentAs(FlatOf(heads), heads, SumBytes(heads))
  BY <1>2, Packing
<1>4. CompoundLength = SumBytes(heads)
  BY <1>3, Zenon DEF CompoundLength, SumBytes
<1>5. bytes' = SumBytes(heads)
  BY <1>4, Zenon DEF Pack
<1>6. wire' = FlatOf(heads)
  <2>1. wire' = AddFields(FlattenSeq(FieldsOf(heads)), CompoundLength)
    BY Zenon DEF Pack, FieldsOf
  <2>. QED
    BY <1>3, <1>4, <2>1, Zenon
<1>7. SentAs(wire', heads', bytes') /\ wire' = FlatOf(heads') /\ bytes' \in Nat
  BY <1>1, <1>3, <1>5, <1>6, Zenon
<1>. QED
  BY <1>1, <1>7 DEF PackInv

LEMMA InitPacked == Init => PackInv
  BY DEF Init, PackInv

LEMMA StepPacked == PackInv /\ BuiltInv /\ ShapeInv /\ [Next]_vars => PackInv'
<1> SUFFICES ASSUME PackInv, BuiltInv, ShapeInv, [Next]_vars
             PROVE  PackInv'
  OBVIOUS
<1>1. CASE ReceiverReportNew \/ SenderReportNew
  BY <1>1 DEF ReceiverReportNew, SenderReportNew, Reading, PackInv,
              HEAD_BYTE, SSRC_BYTE, SENDERINFO_BYTE
<1>2. CASE \/ SetSenderInfo \/ NoCname \/ EndSdes \/ AddReport \/ NoApp
           \/ \E len \in CnameLens : AddSdes(len)
           \/ \E len \in AppLens, ts \in Stamps : NewApp(len, ts)
  <2>1. /\ bytes' = bytes /\ wire' = wire /\ guests' = guests
        /\ pc \in {"new", "info", "cname", "end", "reports", "pack"}
        /\ pc' \in {"new", "info", "cname", "end", "reports", "pack"}
    BY <1>2 DEF SetSenderInfo, NoCname, EndSdes, AddReport, NoApp, AddSdes, NewApp, Reading
  <2>. QED
    BY <2>1 DEF PackInv
<1>3. CASE Pack
  BY <1>3, PackSent
<1>4. CASE Read
  <2>1. /\ bytes' = bytes /\ wire' = wire /\ guests' = guests /\ heads' = heads
        /\ pc \in {"sent", "scan", "item", "read"}
        /\ pc' \in {"scan", "item", "read"}
    BY <1>4 DEF Read, UnpackFirst, ScanSdes, SdesItem, SdesEnd, ScanApp, ScanUnknown, ScanOver
  <2>. QED
    BY <2>1 DEF PackInv
<1>5. CASE Done
  BY <1>5 DEF Done, PackInv
<1>6. CASE UNCHANGED vars
  BY <1>6 DEF vars, PackInv
<1> QED
  BY <1>1, <1>2, <1>3, <1>4, <1>5, <1>6 DEF Next, Build

LEMMA OffsetIs ==
    \A i : Offset(i) = OffsetIn(heads, i)
  BY Zenon DEF Offset, OffsetIn, SumBytes

\* What the head of a good packet says.
LEMMA HeadLeads ==
    ASSUME NEW p, Good(p), NEW o \in Nat, Lies(wire, o, BytesOf(p))
    PROVE  HeadType(o) = p.type /\ 4 * (HeadLength(o) + 1) = p.bytes
<1>1. HeadType(o) = p.type /\ HeadLength(o) = p.bytes \div 4 - 1
  BY PacketLies DEF Good
<1>2. p.bytes \in Nat /\ p.bytes % 4 = 0
  BY Zenon DEF Good, Sized
<1>3. 4 * ((p.bytes \div 4 - 1) + 1) = p.bytes
  BY <1>2
<1>. QED
  BY <1>1, <1>3, Zenon

LEMMA PackedInv ==
    ASSUME BuiltInv, ShapeInv, PackInv
    PROVE  PackedWhole
<1>. SUFFICES ASSUME pc = "sent"
              PROVE  /\ wire = FlatOf(heads)
                     /\ Len(wire) = bytes
                     /\ Len(wire) = Offset(Len(heads) + 1)
                     /\ \A i \in DOMAIN heads :
                           /\ HeadType(Offset(i)) = heads[i].type
                           /\ Offset(i) + 4 * (HeadLength(Offset(i)) + 1) = Offset(i + 1)
  BY Zenon DEF PackedWhole, FlatOf
<1>1. heads \in Seq(Packets) /\ IsCompound(heads)
  BY DEF BuiltInv, ShapeInv
<1>2. SentAs(wire, heads, bytes) /\ wire = FlatOf(heads)
  BY DEF PackInv
<1>3. Len(heads) \in 1..3 /\ \A i \in 1..Len(heads) : Good(heads[i])
  BY <1>1, CompoundGood
<1>4. Len(wire) = bytes /\ Len(wire) = Offset(Len(heads) + 1)
  BY <1>2, OffsetIs, Zenon DEF SentAs
<1>5. ASSUME NEW i \in DOMAIN heads
      PROVE  /\ HeadType(Offset(i)) = heads[i].type
             /\ Offset(i) + 4 * (HeadLength(Offset(i)) + 1) = Offset(i + 1)
  <2>1. i \in 1..Len(heads)
    BY <1>1
  <2>2. /\ OffsetIn(heads, i) \in Nat
        /\ OffsetIn(heads, i + 1) = OffsetIn(heads, i) + heads[i].bytes
    BY <1>1, <1>3, <2>1, OffsetGrows
  <2>. PICK o \in Nat : o = OffsetIn(heads, i)
    BY <2>2
  <2>. PICK p : p = heads[i]
    OBVIOUS
  <2>3. Good(p) /\ Lies(wire, o, BytesOf(p))
    BY <1>2, <1>3, <2>1, Zenon DEF SentAs
  <2>4. HeadType(o) = p.type /\ 4 * (HeadLength(o) + 1) = p.bytes
    BY <2>3, HeadLeads
  <2>. QED
    BY <2>2, <2>4, OffsetIs, Zenon
<1>. QED
  BY <1>2, <1>4, <1>5, Zenon

\* What rtcp_pack writes fills the buffer rtcp_length asked for, no field having
\* been refused, and the lengths in the heads lead from packet to packet.
THEOREM PackedAsCounted == Spec => []PackedWhole
<1>1. Init => BuiltInv /\ ShapeInv /\ PackInv
  BY InitBuilt, InitShaped, InitPacked
<1>2. BuiltInv /\ ShapeInv /\ PackInv /\ [Next]_vars => (BuiltInv /\ ShapeInv /\ PackInv)'
  BY StepBuilt, StepShaped, StepPacked
<1>3. BuiltInv /\ ShapeInv /\ PackInv => PackedWhole
  BY PackedInv
<1> QED
  BY <1>1, <1>2, <1>3, PTL DEF Spec

-----------------------------------------------------------------------------
(* Where the reader is                                                     *)

LEMMA TypesOfKinds ==
    ASSUME NEW p
    PROVE  /\ IsReport(p) => p.type \in {SR, RR}
           /\ IsOpen(p) \/ IsCname(p) => p.type = SDES
           /\ IsApp(p) => p.type = APP
<1>1. ASSUME IsReport(p) PROVE p.type \in {SR, RR}
  <2>1. PICK type \in {SR, RR}, n \in 0..MAX_REPORTS : p = ReportPacket(type, n)
    BY <1>1, Zenon DEF IsReport
  <2>2. n \in Nat
    BY PacketAssumption
  <2>3. ReportPacket(type, n).type = type
    BY <2>2, ReportFacts
  <2>. QED
    BY <2>1, <2>3, Zenon
<1>2. ASSUME IsOpen(p) PROVE p.type = SDES
  <2>1. PICK len \in 1..255 : p = CnamePacket(len)
    BY <1>2, Zenon DEF IsOpen
  <2>. QED
    BY <2>1, CnameTyped, Zenon
<1>3. ASSUME IsCname(p) PROVE p.type = SDES
  <2>1. PICK len \in 1..255 : p = ChunkEnded(CnamePacket(len))
    BY <1>3, Zenon DEF IsCname
  <2>. QED
    BY <2>1, CnameFacts, Zenon
<1>4. ASSUME IsApp(p) PROVE p.type = APP
  <2>1. PICK len \in AppLens, ts \in Stamps : p = AppPacket(len, ts)
    BY <1>4, Zenon DEF IsApp
  <2>. QED
    BY <2>1, AppFacts, Zenon
<1>. QED
  BY <1>1, <1>2, <1>3, <1>4, Zenon

\* After the first packet there is the cname, and the APP comes last.
LEMMA CompoundRest ==
    ASSUME NEW hs, IsCompound(hs), NEW i \in 2..Len(hs)
    PROVE  \/ IsCname(hs[i]) /\ hs[i].type = SDES
           \/ IsApp(hs[i]) /\ hs[i].type = APP /\ i = Len(hs)
<1>. PICK n \in 1..3 : n = Len(hs)
  BY Zenon DEF IsCompound
<1>1. (i = 2 /\ n = 2) \/ (i = 2 /\ n = 3) \/ (i = 3 /\ n = 3)
  <2>1. i \in 2..n
    BY Zenon
  <2>. QED
    BY <2>1
<1>2. IsCname(hs[i]) \/ (IsApp(hs[i]) /\ i = n)
  <2>1. CASE i = 2 /\ n = 2
    BY <2>1, Zenon DEF IsCompound
  <2>2. CASE i = 2 /\ n = 3
    BY <2>2, Zenon DEF IsCompound
  <2>3. CASE i = 3 /\ n = 3
    BY <2>3, Zenon DEF IsCompound
  <2>. QED
    BY <1>1, <2>1, <2>2, <2>3, Zenon
<1>. QED
  BY <1>2, TypesOfKinds, Zenon

LEMMA OwnNat == OwnSsrc \in Nat
  BY SMT DEF OwnSsrc

LEMMA RestBodies == BodiesOf(SDES) = Seq(Item) /\ BodiesOf(APP) = Bytes
  BY DEF BodiesOf, APP, SDES, SR, RR, Bytes

\* The i-th packet of the compound in the buffer, at o.
Located(i, o) ==
    /\ o = OffsetIn(heads, i) /\ o \in Nat /\ o % 4 = 0
    /\ Lies(wire, o, BytesOf(heads[i]))
    /\ heads[i].bytes \in Nat /\ heads[i].bytes >= 8
    /\ HeadType(o) = heads[i].type /\ 4 * (HeadLength(o) + 1) = heads[i].bytes
    /\ OffsetIn(heads, i + 1) = o + heads[i].bytes
    /\ o + heads[i].bytes <= Len(wire)
    /\ i = Len(heads) => o + heads[i].bytes = Len(wire)

Held ==
    /\ heads \in Seq(Packets) /\ IsCompound(heads)
    /\ SentAs(wire, heads, bytes)
    /\ wire \in Bytes /\ Len(wire) \in Nat
    /\ Len(heads) \in 1..3

LEMMA HeldThen ==
    ASSUME BuiltInv, ShapeInv, PackInv, pc \in {"sent", "scan", "item", "read"}
    PROVE  Held
<1>1. heads \in Seq(Packets) /\ IsCompound(heads) /\ SentAs(wire, heads, bytes)
  BY DEF BuiltInv, ShapeInv, PackInv
<1>2. wire \in Bytes /\ Len(heads) \in 1..3
  BY <1>1, Zenon DEF SentAs, IsCompound
<1>3. Len(wire) \in Nat
  BY <1>2, LenNat
<1>. QED
  BY <1>1, <1>2, <1>3 DEF Held

LEMMA PacketLong ==
    ASSUME NEW p, Good(p)
    PROVE  p.bytes \in Nat /\ p.bytes >= 8 /\ p.bytes % 4 = 0
<1>1. /\ FlattenSeq(BodyFields(p)) \in Bytes
      /\ Len(BytesOf(p)) = 8 + Len(FlattenSeq(BodyFields(p)))
  BY PacketFlat DEF Good
<1>. PICK n \in Nat : n = Len(FlattenSeq(BodyFields(p)))
  BY <1>1, LenNat
<1>2. p.bytes = 8 + n /\ p.bytes % 4 = 0
  BY <1>1, Zenon DEF Good, Sized
<1>. QED
  BY <1>2

LEMMA LocatedAt ==
    ASSUME Held, NEW i \in 1..Len(heads)
    PROVE  Located(i, OffsetIn(heads, i))
<1>1. /\ heads \in Seq(Packets) /\ IsCompound(heads) /\ SentAs(wire, heads, bytes)
      /\ Len(heads) \in 1..3
  BY Zenon DEF Held
<1>2. \A j \in 1..Len(heads) : Good(heads[j])
  BY <1>1, CompoundGood
<1>3. /\ OffsetIn(heads, i) \in Nat
      /\ OffsetIn(heads, i + 1) = OffsetIn(heads, i) + heads[i].bytes
      /\ OffsetIn(heads, i + 1) <= OffsetIn(heads, Len(heads) + 1)
  BY <1>1, OffsetGrows
<1>. PICK o \in Nat : o = OffsetIn(heads, i)
  BY <1>3
<1>. PICK p : p = heads[i]
  OBVIOUS
<1>4. Good(p) /\ Lies(wire, o, BytesOf(p))
  BY <1>1, <1>2, Zenon DEF SentAs
<1>5. HeadType(o) = p.type /\ 4 * (HeadLength(o) + 1) = p.bytes
  BY <1>4, HeadLeads
<1>6. p.bytes \in Nat /\ p.bytes >= 8
  BY <1>4, PacketLong
<1>7. o + p.bytes <= Len(wire) /\ (i = Len(heads) => o + p.bytes = Len(wire))
  BY <1>1, <1>3, Zenon DEF SentAs
<1>8. o % 4 = 0
  <2>1. \A j \in 1..Len(heads) : heads[j].bytes \in Nat /\ heads[j].bytes % 4 = 0
    BY <1>2, PacketLong
  <2>. PICK n \in 1..3 : n = Len(heads)
    BY <1>1
  <2>2. /\ OffsetIn(heads, 1) = 0
        /\ OffsetIn(heads, 2) = heads[1].bytes
        /\ n >= 2 => OffsetIn(heads, 3) = heads[1].bytes + heads[2].bytes
    BY <1>1, OffsetsAre, Zenon
  <2>3. i = 1 \/ i = 2 \/ (i = 3 /\ n >= 2)
    <3>1. i \in 1..n
      BY Zenon
    <3>. QED
      BY <3>1
  <2>4. CASE i = 1
    BY <2>2, <2>4
  <2>5. CASE i = 2
    <3>1. 1 \in 1..n
      OBVIOUS
    <3>. QED
      BY <2>1, <2>2, <2>5, <3>1, Zenon
  <2>6. CASE i = 3 /\ n >= 2
    <3>1. 1 \in 1..n /\ 2 \in 1..n
      BY <2>6
    <3>2. o = heads[1].bytes + heads[2].bytes
      BY <2>2, <2>6, Zenon
    <3>3. \A a, b \in Nat : a % 4 = 0 /\ b % 4 = 0 => (a + b) % 4 = 0
      OBVIOUS
    <3>. QED
      BY <2>1, <3>1, <3>2, <3>3, Zenon
  <2>. QED
    BY <2>3, <2>4, <2>5, <2>6
<1>. QED
  BY <1>3, <1>4, <1>5, <1>6, <1>7, <1>8, Zenon DEF Located

Idle ==
    rheads = <<>> /\ pos = 0 /\ chunk = [start |-> 0, ssrc |-> 0, items |-> <<>>]

\* r is the report packet p as it is read.
ReportRead(r, p) ==
    /\ r \in Packets /\ r.type = p.type /\ r.ssrc = p.ssrc /\ r.info = p.info
    /\ r.body = [i \in DOMAIN p.body |-> Kept(p.body[i])]

\* r is the cname or the APP p as it is read.
OtherRead(r, p) ==
    r \in Packets /\ r.type = p.type /\ r.ssrc = p.ssrc /\ r.body = p.body

\* The packets rs that are read are the first ones of the compound hs.
SoFar(rs, hs) ==
    /\ rs \in Seq(Packets) /\ Len(rs) \in 1..Len(hs)
    /\ ReportRead(rs[1], hs[1])
    /\ \A i \in 2..Len(rs) : OtherRead(rs[i], hs[i])

\* The data of a last APP without padding are scanned for heads, word by word.
InData(hs, at) ==
    /\ hs[Len(hs)].type = APP /\ hs[Len(hs)].padding = 0
    /\ \E m \in Nat : at = OffsetIn(hs, Len(hs)) + 12 + 4 * m

\* At a packet not read yet, at the end, or in the data of the last one.
ScanAt(rs, hs, at, size) ==
    IF Len(rs) = Len(hs) THEN at = size \/ InData(hs, at)
    ELSE at = OffsetIn(hs, Len(rs) + 1)

\* In the next packet, which is the cname: before its item or after it.
ItemAt(k, hs, at, chk) ==
    /\ k <= Len(hs) /\ hs[k].type = SDES
    /\ \/ /\ at = OffsetIn(hs, k) + 8
          /\ chk = [start |-> OffsetIn(hs, k) + 4, ssrc |-> hs[k].ssrc, items |-> <<>>]
       \/ /\ at = OffsetIn(hs, k) + 10 + Len(hs[k].body[1].value)
          /\ chk = [start |-> OffsetIn(hs, k) + 4, ssrc |-> hs[k].ssrc, items |-> hs[k].body]

ReadInv ==
    /\ pc \in {"new", "info", "cname", "end", "reports", "pack", "sent"} => Idle
    /\ pc \in {"scan", "item", "read"} => SoFar(rheads, heads)
    /\ pc = "scan" => ScanAt(rheads, heads, pos, Len(wire))
    /\ pc = "item" => ItemAt(Len(rheads) + 1, heads, pos, chunk)
    /\ pc = "read" => Len(rheads) = Len(heads)
    /\ pos \in Nat
    /\ chunk \in [start : Nat, ssrc : Nat, items : Seq(Item)]

LEMMA InitRead == Init => ReadInv
<1>. SUFFICES ASSUME Init PROVE ReadInv
  OBVIOUS
<1>1. [start |-> 0, ssrc |-> 0, items |-> <<>>] \in [start : Nat, ssrc : Nat, items : Seq(Item)]
  OBVIOUS
<1>. QED
  BY <1>1 DEF Init, ReadInv, Idle

-----------------------------------------------------------------------------
(* The first packet                                                        *)

LEMMA KeptTyped ==
    ASSUME NEW i \in 1..31
    PROVE  Kept(ReportOf(i)) \in Report
<1>1. i \in Nat
  OBVIOUS
<1>2. ReportOf(i) \in Report
  BY <1>1, ReportTyped
<1>. PICK r \in Report : r = ReportOf(i)
  BY <1>2
<1>3. /\ r.src \in Nat /\ r.rest \in Seq(Nat) /\ r.frac % 16 \in Nat
      /\ r.lost % 4096 \in Nat
  BY SMT DEF Report
<1>. PICK f \in Nat : f = r.frac % 16
  BY <1>3
<1>. PICK l \in Nat : l = r.lost % 4096
  BY <1>3
<1>4. [src |-> r.src, frac |-> f, lost |-> l, rest |-> r.rest] \in Report
  BY <1>3 DEF Report
<1>5. Kept(ReportOf(i)) = [src |-> ReportOf(i).src, frac |-> ReportOf(i).frac % 16,
                           lost |-> ReportOf(i).lost % 4096, rest |-> ReportOf(i).rest]
  BY KeptFields, SMT
<1>6. Kept(ReportOf(i)) = [src |-> r.src, frac |-> f, lost |-> l, rest |-> r.rest]
  <2>1. r.frac = ReportOf(i).frac /\ r.lost = ReportOf(i).lost
        /\ r.src = ReportOf(i).src /\ r.rest = ReportOf(i).rest
    BY Zenon
  <2>. QED
    BY <1>5, <2>1, SMT
<1>. QED
  BY <1>4, <1>6, SMT

LEMMA FirstIn == \A m \in 1..3 : 1 \in 1..m
  OBVIOUS

LEMMA SeqItself ==
    ASSUME NEW X, NEW s \in Seq(X)
    PROVE  s = [k \in 1..Len(s) |-> s[k]]
  OBVIOUS

\* A packet with another info.
WithInfo(p, info) == [p EXCEPT !.info = info]

LEMMA InfoOther ==
    ASSUME NEW t, NEW g, NEW y, NEW o, NEW b, NEW f
    PROVE  WithInfo(Packet(t, g, y, o, b), f)
               = [type |-> t, padding |-> g, bytes |-> y, ssrc |-> o,
                  info |-> f, body |-> b, padlen |-> 0]
<1>1. Packet(t, g, y, o, b) = [type |-> t, padding |-> g, bytes |-> y, ssrc |-> o,
                               info |-> <<>>, body |-> b, padlen |-> 0]
  BY Zenon DEF Packet
<1>2. [[type |-> t, padding |-> g, bytes |-> y, ssrc |-> o,
        info |-> <<>>, body |-> b, padlen |-> 0] EXCEPT !.info = f]
          = [type |-> t, padding |-> g, bytes |-> y, ssrc |-> o,
             info |-> f, body |-> b, padlen |-> 0]
  OBVIOUS
<1>. QED
  BY <1>1, <1>2, Zenon DEF WithInfo

\* What a packet of reports may be.
LEMMA ReportsTyped ==
    ASSUME NEW t \in {SR, RR}, NEW g \in {0, 1}, NEW y \in Nat, NEW o \in Nat,
           NEW f \in Seq(Nat), NEW b \in Seq(Report)
    PROVE  [type |-> t, padding |-> g, bytes |-> y, ssrc |-> o,
            info |-> f, body |-> b, padlen |-> 0] \in Packets
<1>1. BodiesOf(t) = Seq(Report)
  BY DEF BodiesOf
<1>2. [type |-> t, padding |-> g, bytes |-> y, ssrc |-> o,
       info |-> f, body |-> b, padlen |-> 0] \in PacketsOf(t)
  BY <1>1 DEF PacketsOf
<1>. QED
  BY <1>2 DEF Packets

LEMMA FirstRead ==
    ASSUME Held, ReadInv, UnpackFirst
    PROVE  ReadInv'
<1>1. heads \in Seq(Packets) /\ IsCompound(heads) /\ Len(heads) \in 1..3
  BY Zenon DEF Held
<1>2. PICK type \in {SR, RR}, n \in 0..MAX_REPORTS : heads[1] = ReportPacket(type, n)
  BY <1>1, Zenon DEF IsCompound, IsReport
<1>3. n \in 0..31 /\ n \in Nat
  BY PacketAssumption
<1>. PICK p : p = ReportPacket(type, n)
  OBVIOUS
<1>. PICK L \in {0, 5} : /\ L = Len(InfoOf(type)) /\ L = IF type = SR THEN 5 ELSE 0
  <2>1. Len(InfoOf(SR)) = 5 /\ Len(InfoOf(RR)) = 0 /\ SR # RR
    BY InfoLength DEF SR, RR
  <2>. QED
    BY <2>1
<1>4. Located(1, 0) /\ OffsetIn(heads, 1) = 0
  <2>1. OffsetIn(heads, 1) = 0
    BY <1>1, OffsetsAre
  <2>2. 1 \in 1..Len(heads)
    BY <1>1, FirstIn, Zenon
  <2>3. Located(1, OffsetIn(heads, 1))
    BY <2>2, LocatedAt
  <2>. QED
    BY <2>1, <2>3, Zenon
<1>5. /\ p.type = type /\ p.bytes = 8 + 4 * L + 24 * n /\ p.ssrc = OwnSsrc
      /\ p.info = InfoOf(type) /\ p.body = [i \in 1..n |-> ReportOf(i)]
  BY <1>3, ReportFacts, ZenonT(60)
<1>6. /\ Lies(wire, 0, BytesOf(p)) /\ 4 * (HeadLength(0) + 1) = p.bytes
      /\ OffsetIn(heads, 2) = 0 + p.bytes /\ p.bytes \in Nat
      /\ 1 = Len(heads) => 0 + p.bytes = Len(wire)
  <2>1. 1 + 1 = 2
    OBVIOUS
  <2>. QED
    BY <1>2, <1>4, <2>1, Zenon DEF Located
<1>7. /\ HeadType(0) = type /\ HeadPadding(0) = IF type = SR THEN 1 ELSE 0
      /\ HeadCount(0) = n /\ HeadLength(0) = p.bytes \div 4 - 1
      /\ Word32(0 + 4) = OwnSsrc
      /\ \A k \in 1..L : Word32(0 + 4 + 4 * k) = InfoOf(type)[k]
      /\ \A i \in 1..n : ReadReport((0 + 8 + 4 * L) + 24 * (i - 1)) = Kept(ReportOf(i))
  <2>1. 0 \in Nat
    OBVIOUS
  <2>2. Lies(wire, 0, BytesOf(ReportPacket(type, n)))
    BY <1>6, Zenon
  <2>3. ReportThere(type, n, 0)
    BY <1>3, <2>1, <2>2, ReportLies
  <2>. QED
    BY <2>3, Zenon DEF ReportThere
<1>. PICK g \in {0, 1} : g = HeadPadding(0)
  BY <1>7
<1>. PICK h \in Nat : h = HeadLength(0) /\ 4 * (h + 1) = 8 + 4 * L + 24 * n
  <2>1. \A l \in {0, 5} : (8 + 4 * l + 24 * n) \div 4 - 1 \in Nat
    BY <1>3
  <2>2. (8 + 4 * L + 24 * n) \div 4 - 1 \in Nat
    BY <2>1
  <2>. QED
    BY <1>5, <1>6, <1>7, <2>2, Zenon
<1>. PICK body : body = [i \in 1..n |-> Kept(ReportOf(i))]
  OBVIOUS
<1>. PICK size \in Nat : size = 4 * h + 24 * n
  BY <1>3
<1>8. rheads' = <<[Packet(HeadType(0), HeadPadding(0), 4 * HeadLength(0) + 24 * HeadCount(0),
                          Word32(4),
                          [i \in 1..HeadCount(0) |->
                              ReadReport((4 + 4 + 4 * (IF HeadType(0) = SR THEN 5 ELSE 0))
                                             + 24 * (i - 1))])
                   EXCEPT !.info = [k \in 1..(IF HeadType(0) = SR THEN 5 ELSE 0) |->
                                       Word32(4 + 4 * k)]]>>
  BY Zenon DEF UnpackFirst, HEAD_BYTE, SSRC_BYTE, REPORT_BYTE
<1>9. Word32(4) = OwnSsrc
  <2>1. 0 + 4 = 4
    OBVIOUS
  <2>. QED
    BY <1>7, <2>1, Zenon
<1>10. [i \in 1..n |-> ReadReport((4 + 4 + 4 * L) + 24 * (i - 1))] = body
  <2>1. 0 + 8 + 4 * L = 4 + 4 + 4 * L
    OBVIOUS
  <2>2. \A i \in 1..n : ReadReport((4 + 4 + 4 * L) + 24 * (i - 1)) = Kept(ReportOf(i))
    BY <1>7, <2>1, Zenon
  <2>. QED
    BY <2>2, Zenon
<1>11. [k \in 1..L |-> Word32(4 + 4 * k)] = InfoOf(type)
  <2>1. 0 + 4 = 4
    OBVIOUS
  <2>2. \A k \in 1..L : Word32(4 + 4 * k) = InfoOf(type)[k]
    BY <1>7, <2>1, Zenon
  <2>3. InfoOf(type) \in Seq(Nat)
    BY DEF InfoOf, SenderInfo
  <2>. PICK f \in Seq(Nat) : f = InfoOf(type) /\ Len(f) = L
    BY <2>3
  <2>4. f = [k \in 1..L |-> f[k]]
    <3>1. f = [k \in 1..Len(f) |-> f[k]]
      BY SeqItself
    <3>. QED
      BY <3>1, Zenon
  <2>5. [k \in 1..L |-> Word32(4 + 4 * k)] = [k \in 1..L |-> f[k]]
    BY <2>2, Zenon
  <2>. QED
    BY <2>4, <2>5, Zenon
<1>. PICK f : f = InfoOf(type)
  OBVIOUS
<1>. PICK r : r = [type |-> type, padding |-> g, bytes |-> size, ssrc |-> OwnSsrc,
                   info |-> f, body |-> body, padlen |-> 0]
  OBVIOUS
<1>12. rheads' = <<r>>
  <2>1. rheads' = <<WithInfo(Packet(type, g, size, OwnSsrc, body), f)>>
    BY <1>7, <1>8, <1>9, <1>10, <1>11, Zenon DEF WithInfo
  <2>2. WithInfo(Packet(type, g, size, OwnSsrc, body), f) = r
    BY InfoOther
  <2>. QED
    BY <2>1, <2>2, Zenon
<1>13. r \in Packets
  <2>1. OwnSsrc \in Nat /\ f \in Seq(Nat)
    BY DEF OwnSsrc, InfoOf, SenderInfo
  <2>2. \A i \in 1..n : Kept(ReportOf(i)) \in Report
    <3>1. \A i \in 1..n : i \in 1..31
      BY <1>3
    <3>. QED
      BY <3>1, KeptTyped
  <2>3. body \in Seq(Report)
    BY <1>3, <2>2
  <2>. QED
    BY <2>1, <2>3, ReportsTyped
<1>14. /\ r.type = p.type /\ r.ssrc = p.ssrc /\ r.info = p.info
       /\ r.body = [i \in DOMAIN p.body |-> Kept(p.body[i])]
  <2>1. r.type = type /\ r.ssrc = OwnSsrc /\ r.info = f /\ r.body = body
    OBVIOUS
  <2>. PICK b : b = [i \in 1..n |-> ReportOf(i)]
    OBVIOUS
  <2>2. DOMAIN b = 1..n /\ \A i \in 1..n : b[i] = ReportOf(i)
    OBVIOUS
  <2>3. [i \in DOMAIN b |-> Kept(b[i])] = body
    BY <2>2, Zenon
  <2>. QED
    BY <1>5, <2>1, <2>3, Zenon
<1>15. ReportRead(r, heads[1])
  BY <1>2, <1>13, <1>14, Zenon DEF ReportRead
<1>16. SoFar(<<r>>, heads)
  <2>1. <<r>> \in Seq(Packets) /\ Len(<<r>>) = 1 /\ <<r>>[1] = r /\ 2..1 = {}
    BY <1>13
  <2>2. 1 \in 1..Len(heads)
    BY <1>1, FirstIn, Zenon
  <2>. QED
    BY <1>15, <2>1, <2>2, Zenon DEF SoFar
<1>17. pos' = p.bytes
  <2>1. pos' = IF (4 + 4 + 4 * (IF HeadType(0) = SR THEN 5 ELSE 0)) + 24 * HeadCount(0)
                      < 4 * (HeadLength(0) + 1)
               THEN 4 * (HeadLength(0) + 1)
               ELSE (4 + 4 + 4 * (IF HeadType(0) = SR THEN 5 ELSE 0)) + 24 * HeadCount(0)
    BY Zenon DEF UnpackFirst, HEAD_BYTE, SSRC_BYTE, REPORT_BYTE
  <2>2. pos' = IF (4 + 4 + 4 * L) + 24 * n < 4 * (h + 1)
               THEN 4 * (h + 1) ELSE (4 + 4 + 4 * L) + 24 * n
    BY <1>7, <2>1, Zenon
  <2>3. (4 + 4 + 4 * L) + 24 * n = 8 + 4 * L + 24 * n
    BY <1>3
  <2>. QED
    BY <1>5, <2>2, <2>3, Zenon
<1>18. ScanAt(<<r>>, heads, pos', Len(wire))
  <2>1. Len(<<r>>) = 1 /\ 1 + 1 = 2 /\ 0 + p.bytes = p.bytes
    BY <1>6
  <2>. QED
    BY <1>6, <1>17, <2>1, Zenon DEF ScanAt
<1>19. /\ pc' = "scan" /\ pc = "sent" /\ heads' = heads /\ wire' = wire /\ chunk' = chunk
  BY DEF UnpackFirst
<1>20. pos' \in Nat /\ chunk' \in [start : Nat, ssrc : Nat, items : Seq(Item)]
  BY <1>6, <1>17, <1>19, Zenon DEF ReadInv
<1>21. SoFar(rheads', heads') /\ ScanAt(rheads', heads', pos', Len(wire'))
  BY <1>12, <1>16, <1>18, <1>19, Zenon
<1>. QED
  BY <1>19, <1>20, <1>21 DEF ReadInv

-----------------------------------------------------------------------------
(* The rest of the packets                                                 *)

LEMMA ByteRead ==
    ASSUME Held, NEW a \in Nat, a < Len(wire)
    PROVE  Byte(a) \in 0..255
<1>1. wire \in Bytes /\ a + 1 \in 1..Len(wire)
  BY DEF Held
<1>2. wire[a + 1] \in 0..255
  BY <1>1, ElementOfSeq, Zenon DEF Bytes
<1>. QED
  BY <1>2, Zenon DEF Byte

LEMMA HalfNat == \A x, y \in 0..255 : HalfOf(x, y) \in Nat
  BY SMT DEF HalfOf

\* In the data of an APP no head of a known type is found.
LEMMA DataUnknown ==
    ASSUME Held, NEW at \in Nat, InData(heads, at), at + 4 <= Len(wire)
    PROVE  HeadType(at) \notin {SDES, APP} /\ HeadLength(at) \in Nat
<1>1. /\ heads \in Seq(Packets) /\ IsCompound(heads) /\ Len(heads) \in 1..3
      /\ Len(wire) \in Nat
  BY Zenon DEF Held
<1>. PICK n \in 1..3 : n = Len(heads)
  BY <1>1
<1>. PICK p : p = heads[n]
  OBVIOUS
<1>2. p.type = APP /\ p.padding = 0 /\ \E m \in Nat : at = OffsetIn(heads, n) + 12 + 4 * m
  BY Zenon DEF InData
<1>3. n # 1
  <2>1. heads[1].type \in {SR, RR}
    BY <1>1, TypesOfKinds, Zenon DEF IsCompound
  <2>2. APP \notin {SR, RR}
    BY DEF APP, SR, RR
  <2>. QED
    BY <1>2, <2>1, <2>2, Zenon
<1>4. IsApp(p)
  <2>1. n \in 2..Len(heads)
    <3>1. n \in 2..n
      BY <1>3
    <3>. QED
      BY <3>1, Zenon
  <2>2. (IsCname(p) /\ p.type = SDES) \/ IsApp(p)
    BY <1>1, <2>1, CompoundRest, Zenon
  <2>3. SDES # APP
    BY DEF SDES, APP
  <2>. QED
    BY <1>2, <2>2, <2>3, Zenon
<1>5. PICK len \in AppLens, ts \in Stamps : p = AppPacket(len, ts)
  BY <1>4, Zenon DEF IsApp
<1>6. PadOf(len) = 0 /\ p.bytes = 12 + len + PadOf(len)
  <2>1. p.padding = PaddingFlag(PadOf(len)) /\ p.bytes = 12 + len + PadOf(len)
    BY <1>5, AppFacts, Zenon
  <2>2. PaddingFlag(PadOf(len)) = 0
    BY <1>2, <2>1, Zenon
  <2>3. PadOf(len) = 0
    BY <2>2 DEF PaddingFlag
  <2>. QED
    BY <2>1, <2>3, Zenon
<1>7. Located(n, OffsetIn(heads, n))
  <2>1. n \in 1..Len(heads)
    <3>1. n \in 1..n
      OBVIOUS
    <3>. QED
      BY <3>1, Zenon
  <2>. QED
    BY <2>1, LocatedAt
<1>. PICK o \in Nat : o = OffsetIn(heads, n)
  BY <1>7, Zenon DEF Located
<1>8. o + p.bytes = Len(wire) /\ Lies(wire, o, BytesOf(p))
  BY <1>7, Zenon DEF Located
<1>. PICK m \in Nat : at = o + 12 + 4 * m
  BY <1>2, Zenon
<1>9. len \in Nat
  BY Inputs
<1>10. 4 * m + 4 <= len
  <2>1. p.bytes = 12 + len
    <3>1. p.bytes = 12 + len + 0
      BY <1>6, Zenon
    <3>. QED
      BY <1>9, <3>1
  <2>2. o + (12 + len) = Len(wire)
    BY <1>8, <2>1, Zenon
  <2>. QED
    BY <1>9, <2>2, SMTT(60)
<1>11. Lies(wire, o + 12, AppData(len, ts))
  <2>1. Lies(wire, o, BytesOf(AppPacket(len, ts)))
    BY <1>5, <1>8, Zenon
  <2>. QED
    BY <2>1, AppLies
<1>. PICK j \in Nat : j = 4 * m + 2
  OBVIOUS
<1>12. j \in 1..len /\ j % 4 = 2 /\ (o + 12) + j = (at + 1) + 1
  BY <1>9, <1>10, SMTT(60)
<1>. PICK d : d = AppData(len, ts)
  OBVIOUS
<1>13. Len(d) = len /\ d[j] \notin {SDES, APP}
  BY <1>12, DataLength, Zenon
<1>14. wire[(o + 12) + j] = d[j]
  BY <1>11, <1>12, <1>13, Zenon DEF Lies
<1>15. HeadType(at) = d[j]
  BY <1>12, <1>14, Zenon DEF HeadType, Byte
<1>16. HeadLength(at) \in Nat
  <2>1. at + 2 \in Nat /\ (at + 2) + 1 \in Nat /\ at + 2 < Len(wire) /\ (at + 2) + 1 < Len(wire)
    <3>. PICK l \in Nat : l = Len(wire)
      BY <1>1
    <3>1. at + 4 <= l
      BY Zenon
    <3>3. \A x, y \in Nat : x + 4 <= y =>
             x + 2 \in Nat /\ (x + 2) + 1 \in Nat /\ x + 2 < y /\ (x + 2) + 1 < y
      OBVIOUS
    <3>2. at + 2 \in Nat /\ (at + 2) + 1 \in Nat /\ at + 2 < l /\ (at + 2) + 1 < l
      BY <3>1, <3>3, Zenon
    <3>. QED
      BY <3>2, Zenon
  <2>2. Byte(at + 2) \in 0..255 /\ Byte((at + 2) + 1) \in 0..255
    BY <2>1, ByteRead
  <2>3. HalfOf(Byte(at + 2), Byte((at + 2) + 1)) \in Nat
    BY <2>2, HalfNat, Zenon
  <2>. QED
    BY <2>3, Zenon DEF HeadLength, Word16, HalfOf
<1>. QED
  BY <1>13, <1>15, <1>16, Zenon

\* The reader is at the i-th packet.
AtPacket(i) == i = Len(rheads) + 1 /\ i \in 2..Len(heads) /\ Located(i, pos)

LEMMA ScanKinds ==
    ASSUME Held, ReadInv, pc = "scan"
    PROVE  \/ Len(rheads) = Len(heads) /\ (pos = Len(wire) \/ InData(heads, pos))
           \/ AtPacket(Len(rheads) + 1)
<1>1. /\ SoFar(rheads, heads) /\ ScanAt(rheads, heads, pos, Len(wire))
      /\ pos \in Nat
  BY Zenon DEF ReadInv
<1>2. CASE Len(rheads) = Len(heads)
  BY <1>1, <1>2, Zenon DEF ScanAt
<1>3. CASE Len(rheads) # Len(heads)
  <2>1. pos = OffsetIn(heads, Len(rheads) + 1)
    BY <1>1, <1>3, Zenon DEF ScanAt
  <2>2. Len(rheads) \in 1..Len(heads) /\ Len(heads) \in 1..3
    BY <1>1, Zenon DEF SoFar, Held
  <2>. PICK n \in 1..3 : n = Len(heads)
    BY <2>2
  <2>. PICK k \in 1..n : k = Len(rheads)
    BY <2>2
  <2>3. k + 1 \in 2..n /\ k + 1 \in 1..n
    BY <1>3
  <2>4. Len(rheads) + 1 \in 2..Len(heads) /\ Len(rheads) + 1 \in 1..Len(heads)
    BY <2>3, Zenon
  <2>5. Located(Len(rheads) + 1, OffsetIn(heads, Len(rheads) + 1))
    BY <2>4, LocatedAt
  <2>. QED
    BY <2>1, <2>4, <2>5, Zenon DEF AtPacket
<1>. QED
  BY <1>2, <1>3

\* Where the loop of rtcp_unpack goes on, it is at a packet or in the data.
LEMMA ScanGoesOn ==
    ASSUME Held, ReadInv, pc = "scan", MoreToScan, HeadThere
    PROVE  \/ /\ Len(rheads) = Len(heads) /\ InData(heads, pos)
              /\ HeadType(pos) \notin {SDES, APP} /\ HeadLength(pos) \in Nat
           \/ AtPacket(Len(rheads) + 1)
<1>1. pos \in Nat /\ Len(wire) \in Nat
  BY Zenon DEF ReadInv, Held
<1>2. pos # Len(wire) /\ pos + 4 <= Len(wire)
  BY <1>1 DEF MoreToScan, HeadThere, HEAD_BYTE
<1>3. InData(heads, pos) => HeadType(pos) \notin {SDES, APP} /\ HeadLength(pos) \in Nat
  BY <1>1, <1>2, DataUnknown
<1>. QED
  BY <1>2, <1>3, ScanKinds, Zenon

LEMMA OverRead ==
    ASSUME Held, ReadInv, ScanOver
    PROVE  ReadInv'
<1>1. /\ pc = "scan" /\ (~MoreToScan \/ ~HeadThere)
      /\ pc' = "read" /\ heads' = heads /\ wire' = wire /\ rheads' = rheads
      /\ pos' = pos /\ chunk' = chunk
  BY DEF ScanOver
<1>2. pos \in Nat /\ Len(wire) \in Nat
  BY Zenon DEF ReadInv, Held
<1>3. ~AtPacket(Len(rheads) + 1)
  <2>. SUFFICES ASSUME NEW i, AtPacket(i) PROVE FALSE
    OBVIOUS
  <2>1. heads[i].bytes \in Nat /\ heads[i].bytes >= 8 /\ pos + heads[i].bytes <= Len(wire)
    BY Zenon DEF AtPacket, Located
  <2>2. Len(wire) - pos > 4 /\ pos + 4 <= Len(wire)
    BY <1>2, <2>1
  <2>. QED
    BY <1>1, <2>2, Zenon DEF MoreToScan, HeadThere, HEAD_BYTE
<1>4. Len(rheads) = Len(heads)
  BY <1>1, <1>3, ScanKinds, Zenon
<1>5. SoFar(rheads', heads') /\ Len(rheads') = Len(heads')
  BY <1>1, <1>4, Zenon DEF ReadInv
<1>. QED
  BY <1>1, <1>5 DEF ReadInv

LEMMA UnknownRead ==
    ASSUME Held, ReadInv, ScanUnknown
    PROVE  ReadInv'
<1>1. /\ pc = "scan" /\ MoreToScan /\ HeadThere /\ HeadType(pos) \notin {SDES, APP}
      /\ pos' = pos + 4 * (HeadLength(pos) + 1)
      /\ pc' = pc /\ heads' = heads /\ wire' = wire /\ rheads' = rheads /\ chunk' = chunk
  BY DEF ScanUnknown, UnknownOver
<1>2. pos \in Nat /\ IsCompound(heads)
  BY Zenon DEF ReadInv, Held
<1>3. ~AtPacket(Len(rheads) + 1)
  <2>. SUFFICES ASSUME NEW i, AtPacket(i) PROVE FALSE
    OBVIOUS
  <2>1. i \in 2..Len(heads) /\ HeadType(pos) = heads[i].type
    BY Zenon DEF AtPacket, Located
  <2>2. heads[i].type \in {SDES, APP}
    BY <1>2, <2>1, CompoundRest, Zenon
  <2>. QED
    BY <1>1, <2>1, <2>2, Zenon
<1>4. Len(rheads) = Len(heads) /\ InData(heads, pos) /\ HeadLength(pos) \in Nat
  BY <1>1, <1>3, ScanGoesOn, Zenon
<1>. PICK b : b = OffsetIn(heads, Len(heads)) + 12
  OBVIOUS
<1>5. b \in Nat
  <2>1. Len(heads) \in 1..Len(heads)
    <3>1. Len(heads) \in 1..3 /\ \A n \in 1..3 : n \in 1..n
      BY DEF Held
    <3>. QED
      BY <3>1, Zenon
  <2>2. Located(Len(heads), OffsetIn(heads, Len(heads)))
    BY <2>1, LocatedAt
  <2>3. OffsetIn(heads, Len(heads)) \in Nat
    BY <2>2, Zenon DEF Located
  <2>4. \A x \in Nat : x + 12 \in Nat
    OBVIOUS
  <2>. QED
    BY <2>3, <2>4, Zenon
<1>6. PICK m \in Nat : pos = b + 4 * m
  BY <1>4, Zenon DEF InData
<1>. PICK h \in Nat : h = HeadLength(pos)
  BY <1>4
<1>7. pos' = b + 4 * (m + h + 1) /\ m + h + 1 \in Nat /\ pos' \in Nat
  <2>1. pos' = (b + 4 * m) + 4 * (h + 1)
    BY <1>1, <1>6, Zenon
  <2>2. \A x, y, z \in Nat : /\ (x + 4 * y) + 4 * (z + 1) = x + 4 * (y + z + 1)
                            /\ y + z + 1 \in Nat /\ x + 4 * (y + z + 1) \in Nat
    OBVIOUS
  <2>3. /\ (b + 4 * m) + 4 * (h + 1) = b + 4 * (m + h + 1)
        /\ m + h + 1 \in Nat /\ b + 4 * (m + h + 1) \in Nat
    BY <1>5, <2>2, Zenon
  <2>. QED
    BY <2>1, <2>3, Zenon
<1>8. InData(heads, pos')
  <2>1. \E q \in Nat : pos' = b + 4 * q
    BY <1>7, Zenon
  <2>. QED
    BY <1>4, <2>1, Zenon DEF InData
<1>9. SoFar(rheads', heads') /\ ScanAt(rheads', heads', pos', Len(wire'))
  <2>1. SoFar(rheads, heads) /\ ScanAt(rheads, heads, pos', Len(wire))
    BY <1>1, <1>4, <1>8, Zenon DEF ScanAt, ReadInv
  <2>. QED
    BY <1>1, <2>1, Zenon
<1>. QED
  BY <1>1, <1>7, <1>9 DEF ReadInv

LEMMA SdesRead ==
    ASSUME Held, ReadInv, ScanSdes
    PROVE  ReadInv'
<1>1. /\ pc = "scan" /\ MoreToScan /\ HeadThere /\ HeadType(pos) = SDES
      /\ chunk' = [start |-> pos + 4, ssrc |-> Word32(pos + 4), items |-> <<>>]
      /\ pos' = pos + 4 + 4
      /\ pc' = "item" /\ heads' = heads /\ wire' = wire /\ rheads' = rheads
  BY DEF ScanSdes, HEAD_BYTE, SSRC_BYTE
<1>2. pos \in Nat /\ IsCompound(heads)
  BY Zenon DEF ReadInv, Held
<1>3. AtPacket(Len(rheads) + 1)
  BY <1>1, ScanGoesOn, Zenon
<1>. PICK i : i = Len(rheads) + 1
  OBVIOUS
<1>. PICK p : p = heads[i]
  OBVIOUS
<1>4. /\ i \in 2..Len(heads) /\ p.type = SDES /\ pos = OffsetIn(heads, i)
      /\ Lies(wire, pos, BytesOf(p))
  BY <1>1, <1>3, Zenon DEF AtPacket, Located
<1>5. IsCname(p)
  <2>1. SDES # APP
    BY DEF SDES, APP
  <2>. QED
    BY <1>2, <1>4, <2>1, CompoundRest, Zenon
<1>6. Word32(pos + 4) = OwnSsrc /\ p.ssrc = OwnSsrc
  <2>1. PICK len \in 1..255 : p = ChunkEnded(CnamePacket(len))
    BY <1>5, Zenon DEF IsCname
  <2>2. Lies(wire, pos, BytesOf(ChunkEnded(CnamePacket(len))))
    BY <1>4, <2>1, Zenon
  <2>3. Word32(pos + 4) = OwnSsrc
    BY <1>2, <2>2, CnameLies
  <2>4. p.ssrc = OwnSsrc
    BY <2>1, CnameFacts, Zenon
  <2>. QED
    BY <2>3, <2>4
<1>7. pos' = OffsetIn(heads, i) + 8 /\ pos' \in Nat
  <2>1. pos + 4 + 4 = pos + 8 /\ pos + 8 \in Nat
    BY <1>2
  <2>. QED
    BY <1>1, <1>4, <2>1, Zenon
<1>8. chunk' = [start |-> OffsetIn(heads, i) + 4, ssrc |-> p.ssrc, items |-> <<>>]
  BY <1>1, <1>4, <1>6, Zenon
<1>9. i <= Len(heads)
  <2>1. Len(heads) \in 1..3
    BY Zenon DEF Held
  <2>. QED
    BY <1>4, <2>1
<1>10. ItemAt(i, heads, pos', chunk')
  BY <1>4, <1>7, <1>8, <1>9, Zenon DEF ItemAt
<1>11. chunk' \in [start : Nat, ssrc : Nat, items : Seq(Item)]
  <2>1. OwnSsrc \in Nat /\ pos + 4 \in Nat /\ <<>> \in Seq(Item)
    BY <1>2 DEF OwnSsrc
  <2>2. chunk' = [start |-> pos + 4, ssrc |-> OwnSsrc, items |-> <<>>]
    BY <1>1, <1>6, Zenon
  <2>. QED
    BY <2>1, <2>2
<1>12. ItemAt(Len(rheads') + 1, heads', pos', chunk') /\ SoFar(rheads', heads')
  BY <1>1, <1>10, Zenon DEF ReadInv
<1>. QED
  BY <1>1, <1>7, <1>11, <1>12 DEF ReadInv

-----------------------------------------------------------------------------
(* The cname                                                               *)

\* One more packet read.
LEMMA SoFarGrows ==
    ASSUME NEW rs, NEW hs \in Seq(Packets), Len(hs) \in 1..3, SoFar(rs, hs), NEW i, i = Len(rs) + 1,
           i <= Len(hs), NEW r, OtherRead(r, hs[i])
    PROVE  SoFar(Append(rs, r), hs) /\ Len(Append(rs, r)) = i
<1>1. rs \in Seq(Packets) /\ Len(rs) \in 1..Len(hs) /\ ReportRead(rs[1], hs[1])
  BY Zenon DEF SoFar
<1>2. r \in Packets
  BY Zenon DEF OtherRead
<1>. PICK n \in 1..3 : n = Len(hs)
  OBVIOUS
<1>. PICK k \in 1..n : k = Len(rs)
  BY <1>1
<1>. PICK q : q = Append(rs, r)
  OBVIOUS
<1>3. /\ q \in Seq(Packets) /\ Len(q) = Len(rs) + 1 /\ q[Len(rs) + 1] = r
      /\ \A j \in 1..Len(rs) : q[j] = rs[j]
  <2>1. /\ Append(rs, r) \in Seq(Packets) /\ Len(Append(rs, r)) = Len(rs) + 1
        /\ Append(rs, r)[Len(rs) + 1] = r
        /\ \A j \in 1..Len(rs) : Append(rs, r)[j] = rs[j]
    BY <1>1, <1>2, AppendProperties
  <2>. QED
    BY <2>1, Zenon
<1>4. i = k + 1 /\ i \in 1..n /\ 1 \in 1..k
  <2>1. i = k + 1 /\ i <= n
    BY Zenon
  <2>. QED
    BY <2>1
<1>5. q[1] = rs[1] /\ q[i] = r /\ Len(q) = i
  BY <1>3, <1>4, Zenon
<1>6. ASSUME NEW j \in 2..i PROVE OtherRead(q[j], hs[j])
  <2>1. CASE j = i
    BY <1>5, <2>1, Zenon
  <2>2. CASE j # i
    <3>1. j \in 2..k /\ j \in 1..k
      BY <1>4, <2>2
    <3>2. q[j] = rs[j] /\ OtherRead(rs[j], hs[j])
      BY <1>3, <3>1, Zenon DEF SoFar
    <3>. QED
      BY <3>2, Zenon
  <2>. QED
    BY <2>1, <2>2
<1>. QED
  BY <1>1, <1>3, <1>4, <1>5, <1>6, Zenon DEF SoFar

\* After a packet read the reader is at the next one or at the end.
LEMMA ScanAfter ==
    ASSUME Held, NEW rs, NEW i, Len(rs) = i, NEW at, at = OffsetIn(heads, i + 1)
    PROVE  ScanAt(rs, heads, at, Len(wire))
<1>1. Len(wire) = OffsetIn(heads, Len(heads) + 1)
  BY Zenon DEF Held, SentAs
<1>. QED
  BY <1>1, Zenon DEF ScanAt

LEMMA SeqOfFun ==
    ASSUME NEW X, NEW n \in Nat, NEW f \in [1..n -> X]
    PROVE  f \in Seq(X)
  OBVIOUS

LEMMA LiesSub ==
    ASSUME NEW w \in Bytes, NEW o \in Nat, NEW s \in Bytes, NEW n \in Nat, Len(s) = n,
           Lies(w, o, s), o + n <= Len(w)
    PROVE  SubSeq(w, o + 1, o + n) = s
<1>. PICK l \in Nat : l = Len(w)
  BY LenNat
<1>. PICK q : q = SubSeq(w, o + 1, o + n)
  OBVIOUS
<1>1. q \in Bytes /\ Len(q) = n /\ \A k \in 1..n : q[k] = w[o + k]
  <2>1. o + n <= l
    BY Zenon
  <2>2. q = [k \in 1..n |-> w[o + k]]
    BY <2>1
  <2>3. \A k \in 1..n : o + k \in 1..l
    BY <2>1
  <2>4. \A k \in 1..n : w[o + k] \in 0..255
    <3>1. \A k \in 1..n : o + k \in 1..Len(w)
      BY <2>3, Zenon
    <3>. QED
      BY <3>1, ElementOfSeq, Zenon DEF Bytes
  <2>5. Len(q) = n /\ \A k \in 1..n : q[k] = w[o + k]
    BY <2>2
  <2>6. [k \in 1..n |-> w[o + k]] \in Seq(0..255)
    <3>1. [k \in 1..n |-> w[o + k]] \in [1..n -> 0..255]
      BY <2>4
    <3>. QED
      BY <3>1, SeqOfFun
  <2>. QED
    BY <2>2, <2>5, <2>6, Zenon DEF Bytes
<1>2. \A k \in 1..n : s[k] = w[o + k]
  BY Zenon DEF Lies
<1>3. q \in Seq(0..255) /\ s \in Seq(0..255) /\ Len(q) = Len(s)
      /\ \A k \in 1..Len(q) : q[k] = s[k]
  BY <1>1, <1>2, Zenon DEF Bytes
<1>4. q = s
  BY <1>3, EqualSeqs
<1>. QED
  BY <1>4, Zenon

\* The reader is in the packet of a cname of len bytes, at o.
CnameHere(i, o, len) ==
    /\ i = Len(rheads) + 1 /\ i \in 2..Len(heads) /\ i <= Len(heads)
    /\ o = OffsetIn(heads, i) /\ o \in Nat /\ o % 4 = 0 /\ len \in 1..255
    /\ heads[i].type = SDES /\ heads[i].ssrc = OwnSsrc
    /\ heads[i].body = <<[id |-> CNAME, value |-> Text(len)]>>
    /\ heads[i].body \in Seq(Item)
    /\ Byte(o + 8) = 1 /\ Byte(o + 9) = len /\ Byte(o + 10 + len) = 0
    /\ Lies(wire, o + 10, Text(len))
    /\ o + 10 + len < Len(wire)
    /\ OffsetIn(heads, i + 1) = o + (10 + len + CnamePad(len))
    /\ \/ /\ pos = o + 8
          /\ chunk = [start |-> o + 4, ssrc |-> OwnSsrc, items |-> <<>>]
       \/ /\ pos = o + 10 + len
          /\ chunk = [start |-> o + 4, ssrc |-> OwnSsrc, items |-> heads[i].body]

LEMMA ItemHere ==
    ASSUME Held, ReadInv, pc = "item"
    PROVE  \E o \in Nat, len \in 1..255 : CnameHere(Len(rheads) + 1, o, len)
<1>1. SoFar(rheads, heads) /\ ItemAt(Len(rheads) + 1, heads, pos, chunk)
  BY Zenon DEF ReadInv
<1>2. /\ heads \in Seq(Packets) /\ IsCompound(heads) /\ Len(heads) \in 1..3
      /\ Len(wire) \in Nat
  BY Zenon DEF Held
<1>. PICK n \in 1..3 : n = Len(heads)
  BY <1>2
<1>. PICK i : i = Len(rheads) + 1
  OBVIOUS
<1>3. i \in 2..Len(heads) /\ i \in 1..Len(heads) /\ i <= Len(heads)
  <2>1. Len(rheads) \in 1..Len(heads) /\ i <= Len(heads)
    BY <1>1, Zenon DEF SoFar, ItemAt
  <2>. PICK k \in 1..n : k = Len(rheads)
    BY <2>1
  <2>2. i = k + 1 /\ i <= n
    BY <2>1, Zenon
  <2>3. i \in 2..n /\ i \in 1..n
    BY <2>2
  <2>. QED
    BY <2>1, <2>3, Zenon
<1>. PICK p : p = heads[i]
  OBVIOUS
<1>4. p.type = SDES /\ p \in Packets
  <2>1. p \in Packets
    BY <1>2, <1>3, ElementOfSeq, Zenon
  <2>. QED
    BY <1>1, <2>1, Zenon DEF ItemAt
<1>5. IsCname(p)
  <2>1. SDES # APP
    BY DEF SDES, APP
  <2>. QED
    BY <1>2, <1>3, <1>4, <2>1, CompoundRest, Zenon
<1>6. PICK len \in 1..255 : p = ChunkEnded(CnamePacket(len))
  BY <1>5, Zenon DEF IsCname
<1>7. Located(i, OffsetIn(heads, i))
  BY <1>3, LocatedAt
<1>. PICK o \in Nat : o = OffsetIn(heads, i)
  BY <1>7, Zenon DEF Located
<1>8. /\ Lies(wire, o, BytesOf(p)) /\ o % 4 = 0 /\ o + p.bytes <= Len(wire)
      /\ OffsetIn(heads, i + 1) = o + p.bytes
  BY <1>7, Zenon DEF Located
<1>9. /\ p.bytes = 10 + len + CnamePad(len) /\ p.ssrc = OwnSsrc
      /\ p.body = <<[id |-> CNAME, value |-> Text(len)]>>
  BY <1>6, CnameFacts, ZenonT(60)
<1>10. /\ Byte(o + 8) = 1 /\ Byte(o + 9) = len
       /\ Lies(wire, o + 10, Text(len)) /\ Byte(o + 10 + len) = 0
  <2>1. Lies(wire, o, BytesOf(ChunkEnded(CnamePacket(len))))
    BY <1>6, <1>8, Zenon
  <2>. QED
    BY <2>1, CnameLies
<1>11. o + 10 + len < Len(wire)
  <2>. PICK c \in 1..4 : c = CnamePad(len)
    BY CnamePads
  <2>. PICK l \in Nat : l = Len(wire)
    BY <1>2
  <2>1. o + (10 + len + c) <= l
    BY <1>8, <1>9, Zenon
  <2>2. o + 10 + len < l
    BY <2>1, SMTT(60)
  <2>. QED
    BY <2>2, Zenon
<1>12. p.body \in Seq(Item)
  <2>1. p \in PacketsOf(p.type)
    BY <1>4, TypeOfPacket
  <2>2. BodiesOf(SDES) = Seq(Item)
    BY DEF BodiesOf, SDES, SR, RR
  <2>3. p.body \in BodiesOf(p.type)
    BY <2>1 DEF PacketsOf
  <2>. QED
    BY <1>4, <2>2, <2>3, Zenon
<1>13. Len(p.body[1].value) = len
  <2>. PICK t : t = Text(len)
    OBVIOUS
  <2>1. <<[id |-> CNAME, value |-> t]>>[1].value = t
    OBVIOUS
  <2>2. Len(t) = len
    BY TextBytes
  <2>. QED
    BY <1>9, <2>1, <2>2, Zenon
<1>14. \/ pos = o + 8 /\ chunk = [start |-> o + 4, ssrc |-> OwnSsrc, items |-> <<>>]
       \/ pos = o + 10 + len /\ chunk = [start |-> o + 4, ssrc |-> OwnSsrc, items |-> p.body]
  BY <1>1, <1>9, <1>13, Zenon DEF ItemAt
<1>15. CnameHere(i, o, len)
  BY <1>3, <1>4, <1>8, <1>9, <1>10, <1>11, <1>12, <1>14, Zenon DEF CnameHere
<1>. QED
  BY <1>15, Zenon

LEMMA ItemRead ==
    ASSUME Held, ReadInv, SdesItem
    PROVE  ReadInv'
<1>1. /\ pc = "item" /\ (pos < Len(wire) => Byte(pos) # 0)
      /\ heads' = heads /\ wire' = wire /\ rheads' = rheads
  BY DEF SdesItem, END
<1>2. PICK o \in Nat, len \in 1..255 : CnameHere(Len(rheads) + 1, o, len)
  BY <1>1, ItemHere, Zenon
<1>. PICK i : i = Len(rheads) + 1
  OBVIOUS
<1>. PICK p : p = heads[i]
  OBVIOUS
<1>3. /\ o = OffsetIn(heads, i) /\ o \in Nat /\ len \in 1..255
      /\ p.type = SDES /\ p.ssrc = OwnSsrc /\ i <= Len(heads)
      /\ p.body = <<[id |-> CNAME, value |-> Text(len)]>> /\ p.body \in Seq(Item)
      /\ Byte(o + 8) = 1 /\ Byte(o + 9) = len /\ Byte(o + 10 + len) = 0
      /\ Lies(wire, o + 10, Text(len))
      /\ o + 10 + len < Len(wire)
  BY <1>2, Zenon DEF CnameHere
<1>4. pos = o + 8 /\ chunk = [start |-> o + 4, ssrc |-> OwnSsrc, items |-> <<>>]
  <2>1. pos # o + 10 + len
    BY <1>1, <1>3, Zenon
  <2>. QED
    BY <1>2, <2>1, Zenon DEF CnameHere
<1>5. /\ pos + 1 = o + 9 /\ pos + 2 = o + 10 /\ pos + 2 + len = o + 10 + len
      /\ pos + 2 <= Len(wire) /\ pos + 2 + len <= Len(wire)
  <2>. PICK l \in Nat : l = Len(wire)
    BY Zenon DEF Held
  <2>1. o + 10 + len < l
    BY <1>3, Zenon
  <2>2. /\ (o + 8) + 1 = o + 9 /\ (o + 8) + 2 = o + 10 /\ (o + 8) + 2 + len = o + 10 + len
        /\ (o + 8) + 2 <= l /\ (o + 8) + 2 + len <= l
    BY <2>1
  <2>. QED
    BY <1>4, <2>2, Zenon
<1>6. /\ chunk' = [chunk EXCEPT !.items = Append(@,
                      [id |-> Byte(pos),
                       value |-> SubSeq(wire, pos + 2 + 1, pos + 2 + Byte(pos + 1))])]
      /\ pos' = pos + 2 + Byte(pos + 1) /\ pc' = pc
  <2>1. pos + 2 <= Len(wire) /\ pos + 2 + Byte(pos + 1) <= Len(wire)
    BY <1>3, <1>5, Zenon
  <2>. QED
    BY <2>1, Zenon DEF SdesItem, ITEM_BYTE
<1>7. SubSeq(wire, o + 10 + 1, o + 10 + len) = Text(len)
  <2>1. o + 10 \in Nat /\ len \in Nat
    OBVIOUS
  <2>2. wire \in Bytes
    BY Zenon DEF Held
  <2>3. Text(len) \in Bytes /\ Len(Text(len)) = len
    BY <2>1, TextBytes
  <2>4. o + 10 + len <= Len(wire)
    BY <1>5, Zenon
  <2>. PICK t \in Bytes : t = Text(len)
    BY <2>3
  <2>. PICK u \in Nat : u = o + 10
    BY <2>1
  <2>5. Lies(wire, u, t) /\ u + len <= Len(wire) /\ Len(t) = len
    BY <1>3, <2>3, <2>4, Zenon
  <2>6. SubSeq(wire, u + 1, u + len) = t
    BY <2>1, <2>2, <2>5, LiesSub
  <2>. QED
    BY <2>6, Zenon
<1>. PICK text : text = Text(len)
  OBVIOUS
<1>. PICK it : it = [id |-> CNAME, value |-> text]
  OBVIOUS
<1>8. [id |-> Byte(pos), value |-> SubSeq(wire, pos + 2 + 1, pos + 2 + Byte(pos + 1))] = it
  <2>1. Byte(pos) = 1 /\ CNAME = 1
    BY <1>3, <1>4, Zenon DEF CNAME
  <2>2. SubSeq(wire, pos + 2 + 1, pos + 2 + Byte(pos + 1)) = text
    BY <1>3, <1>5, <1>7, Zenon
  <2>. QED
    BY <2>1, <2>2, Zenon
<1>9. chunk' = [start |-> o + 4, ssrc |-> OwnSsrc, items |-> p.body]
  <2>1. chunk' = [chunk EXCEPT !.items = Append(@, it)]
    BY <1>6, <1>8, Zenon
  <2>2. [[start |-> o + 4, ssrc |-> OwnSsrc, items |-> <<>>] EXCEPT !.items = Append(@, it)]
            = [start |-> o + 4, ssrc |-> OwnSsrc, items |-> <<it>>]
    OBVIOUS
  <2>. QED
    BY <1>3, <1>4, <2>1, <2>2, Zenon
<1>10. pos' = o + 10 + len /\ pos' \in Nat
  <2>1. o + 10 + len \in Nat
    OBVIOUS
  <2>. QED
    BY <1>3, <1>5, <1>6, <2>1, Zenon
<1>11. Len(p.body[1].value) = len
  <2>1. <<[id |-> CNAME, value |-> text]>>[1].value = text
    OBVIOUS
  <2>3. len \in Nat
    OBVIOUS
  <2>2. Len(text) = len
    BY <2>3, TextBytes
  <2>. QED
    BY <1>3, <2>1, <2>2, Zenon
<1>12. ItemAt(i, heads, pos', chunk')
  BY <1>3, <1>9, <1>10, <1>11, Zenon DEF ItemAt
<1>13. chunk' \in [start : Nat, ssrc : Nat, items : Seq(Item)]
  <2>1. OwnSsrc \in Nat /\ o + 4 \in Nat
    BY <1>3, SMTT(60) DEF OwnSsrc
  <2>. PICK b \in Seq(Item) : b = p.body
    BY <1>3
  <2>2. [start |-> o + 4, ssrc |-> OwnSsrc, items |-> b]
            \in [start : Nat, ssrc : Nat, items : Seq(Item)]
    BY <2>1
  <2>. QED
    BY <1>9, <2>2, Zenon
<1>14. ItemAt(Len(rheads') + 1, heads', pos', chunk') /\ SoFar(rheads', heads')
  BY <1>1, <1>12, Zenon DEF ReadInv
<1>. QED
  BY <1>1, <1>6, <1>10, <1>13, <1>14 DEF ReadInv

\* The END and what is left of its word, of a chunk whose start is a word's.
LEMMA EndOver ==
    ASSUME NEW o \in Nat, o % 4 = 0, NEW len \in 1..255,
           NEW after, after = o + 10 + len + 1,
           NEW pad, pad = 4 - ((after - (o + 4)) % 4)
    PROVE  /\ pad \in 1..4 /\ 4 + pad + after - (o + 4) \in Nat
           /\ ChunkOver(after, pad) = o + (10 + len + CnamePad(len))
<1>1. after - (o + 4) = 7 + len /\ after \in Nat
  OBVIOUS
<1>2. pad = 4 - ((7 + len) % 4)
  BY <1>1
<1>3. pad \in 1..4 /\ 4 + pad + after - (o + 4) \in Nat
  BY <1>1, <1>2
<1>. PICK q \in Nat : o = 4 * q
  <2>1. o = 4 * (o \div 4) /\ o \div 4 \in Nat
    OBVIOUS
  <2>. QED
    BY <2>1
<1>4. after % 4 = (11 + len) % 4
  OBVIOUS
<1>5. CnamePad(len) = 4 - ((10 + len) % 4)
  BY DEF CnamePad
<1>6. ChunkOver(after, pad) = IF after % 4 # 0 THEN after + pad ELSE after
  BY DEF ChunkOver
<1>. PICK r \in 0..3 : r = len % 4
  OBVIOUS
<1>. PICK k \in Nat : len = 4 * k + r
  <2>1. len = 4 * (len \div 4) + (len % 4) /\ len \div 4 \in Nat
    OBVIOUS
  <2>. QED
    BY <2>1
<1>7. CASE r = 0
  <2>1. (7 + len) % 4 = 3 /\ (11 + len) % 4 = 3 /\ (10 + len) % 4 = 2
    BY <1>7
  <2>. QED
    BY <1>2, <1>3, <1>4, <1>5, <1>6, <2>1
<1>8. CASE r = 1
  <2>1. (7 + len) % 4 = 0 /\ (11 + len) % 4 = 0 /\ (10 + len) % 4 = 3
    BY <1>8
  <2>. QED
    BY <1>2, <1>3, <1>4, <1>5, <1>6, <2>1
<1>9. CASE r = 2
  <2>1. (7 + len) % 4 = 1 /\ (11 + len) % 4 = 1 /\ (10 + len) % 4 = 0
    BY <1>9
  <2>. QED
    BY <1>2, <1>3, <1>4, <1>5, <1>6, <2>1
<1>10. CASE r = 3
  <2>1. (7 + len) % 4 = 2 /\ (11 + len) % 4 = 2 /\ (10 + len) % 4 = 1
    BY <1>10
  <2>. QED
    BY <1>2, <1>3, <1>4, <1>5, <1>6, <2>1
<1>11. r = 0 \/ r = 1 \/ r = 2 \/ r = 3
  OBVIOUS
<1>. QED
  BY <1>7, <1>8, <1>9, <1>10, <1>11

LEMMA EndRead ==
    ASSUME Held, ReadInv, SdesEnd
    PROVE  ReadInv'
<1>1. /\ pc = "item" /\ Byte(pos) = 0
      /\ pc' = "scan" /\ heads' = heads /\ wire' = wire /\ chunk' = chunk
  BY DEF SdesEnd, END
<1>0. /\ pos' = ChunkOver(pos + 1, 4 - (((pos + 1) - chunk.start) % 4))
      /\ rheads' = Append(rheads, Packet(SDES, 0,
                      (4 + (4 - (((pos + 1) - chunk.start) % 4))) + ((pos + 1) - chunk.start),
                      chunk.ssrc, chunk.items))
  <2>1. pos' = ChunkOver(pos + 1, 4 - (((pos + 1) - chunk.start) % 4))
    BY Zenon DEF SdesEnd
  <2>2. rheads' = Append(rheads, Packet(SDES, 0,
                      (HEAD_BYTE + (4 - (((pos + 1) - chunk.start) % 4)))
                          + ((pos + 1) - chunk.start),
                      chunk.ssrc, chunk.items))
    BY Zenon DEF SdesEnd
  <2>. QED
    BY <2>1, <2>2, Zenon DEF HEAD_BYTE
<1>2. PICK o \in Nat, len \in 1..255 : CnameHere(Len(rheads) + 1, o, len)
  BY <1>1, ItemHere, Zenon
<1>. PICK i : i = Len(rheads) + 1
  OBVIOUS
<1>. PICK p : p = heads[i]
  OBVIOUS
<1>3. /\ o \in Nat /\ o % 4 = 0 /\ len \in 1..255 /\ i <= Len(heads)
      /\ p.type = SDES /\ p.ssrc = OwnSsrc /\ p.body \in Seq(Item) /\ Byte(o + 8) = 1
      /\ OffsetIn(heads, i + 1) = o + (10 + len + CnamePad(len))
  BY <1>2, Zenon DEF CnameHere
<1>4. pos = o + 10 + len /\ chunk = [start |-> o + 4, ssrc |-> OwnSsrc, items |-> p.body]
  <2>1. 0 # 1
    OBVIOUS
  <2>2. pos # o + 8
    BY <1>1, <1>3, <2>1, Zenon
  <2>. QED
    BY <1>2, <2>2, Zenon DEF CnameHere
<1>. PICK body \in Seq(Item) : body = p.body
  BY <1>3
<1>. PICK after : after = o + 10 + len + 1
  OBVIOUS
<1>. PICK pad : pad = 4 - ((after - (o + 4)) % 4)
  OBVIOUS
<1>5. chunk.start = o + 4 /\ chunk.ssrc = OwnSsrc /\ chunk.items = body
  BY <1>4
<1>6. /\ pos' = ChunkOver(after, pad)
      /\ rheads' = Append(rheads, Packet(SDES, 0, 4 + pad + after - (o + 4), OwnSsrc, body))
  <2>2. pos + 1 = after
    BY <1>4, Zenon
  <2>. QED
    BY <1>5, <1>0, <2>2, Zenon
<1>7. /\ pad \in 1..4 /\ 4 + pad + after - (o + 4) \in Nat
      /\ ChunkOver(after, pad) = o + (10 + len + CnamePad(len))
  BY <1>3, EndOver
<1>. PICK z \in Nat : z = 4 + pad + after - (o + 4)
  BY <1>7
<1>. PICK r : r = Packet(SDES, 0, z, OwnSsrc, body)
  OBVIOUS
<1>8. OtherRead(r, p)
  <2>1. body \in BodiesOf(SDES) /\ OwnSsrc \in Nat
    BY DEF BodiesOf, SDES, SR, RR, OwnSsrc
  <2>2. r \in Packets
    BY <2>1, PacketTyped
  <2>3. r.type = SDES /\ r.ssrc = OwnSsrc /\ r.body = body
    BY DEF Packet
  <2>. QED
    BY <1>3, <2>2, <2>3, Zenon DEF OtherRead
<1>9. SoFar(rheads, heads) /\ heads \in Seq(Packets) /\ Len(heads) \in 1..3
  BY <1>1, Zenon DEF ReadInv, Held
<1>10. SoFar(Append(rheads, r), heads) /\ Len(Append(rheads, r)) = i
  BY <1>3, <1>8, <1>9, SoFarGrows
<1>11. pos' = OffsetIn(heads, i + 1) /\ rheads' = Append(rheads, r)
  BY <1>3, <1>6, <1>7, Zenon
<1>12. ScanAt(Append(rheads, r), heads, pos', Len(wire))
  BY <1>10, <1>11, ScanAfter
<1>13. pos' \in Nat /\ chunk' \in [start : Nat, ssrc : Nat, items : Seq(Item)]
  <2>. PICK c \in 1..4 : c = CnamePad(len)
    BY <1>3, CnamePads
  <2>2. \A x \in Nat : \A y \in 1..255 : \A v \in 1..4 : x + (10 + y + v) \in Nat
    OBVIOUS
  <2>1. o + (10 + len + c) \in Nat
    BY <2>2, Zenon
  <2>. QED
    BY <1>1, <1>3, <1>11, <2>1, Zenon DEF ReadInv
<1>14. SoFar(rheads', heads') /\ ScanAt(rheads', heads', pos', Len(wire'))
  BY <1>1, <1>10, <1>11, <1>12, Zenon
<1>. QED
  BY <1>1, <1>13, <1>14 DEF ReadInv

-----------------------------------------------------------------------------
(* The APP                                                                 *)

\* The last byte of an APP at o with x bytes of data and n of padding.
LastAt(o, x, n) ==
    /\ (o + 12) + ((x + n) - 1) = o + 12 + x + n - 1
    /\ ~((o + 12) + ((x + n) - 1) >= o + (12 + x + n))
    /\ (o + 12 + x + n - 1) + 1 = o + (12 + x + n)

LEMMA AppLast ==
    ASSUME NEW o \in Nat, NEW x \in Nat, NEW n \in 0..3
    PROVE  LastAt(o, x, n)
<1>1. (o + 12) + ((x + n) - 1) = o + 12 + x + n - 1
  OBVIOUS
<1>2. (o + 12 + x + n - 1) + 1 = o + (12 + x + n)
  OBVIOUS
<1>3. ~((o + 12) + ((x + n) - 1) >= o + (12 + x + n))
  OBVIOUS
<1>. QED
  BY <1>1, <1>2, <1>3, Zenon DEF LastAt

\* The data t of an APP at o, and what its reader cuts out.
AppThere(w, o, x, n, t) ==
    Len(t) = x /\ Lies(w, o + 12, t) /\ Len(w) = o + (12 + x + n)

CutOut(w, o, x) == SubSeq(w, (o + 12) + 1, (o + 12) + x)

LEMMA AppCut ==
    ASSUME NEW w \in Bytes, NEW o \in Nat, NEW x \in Nat, NEW n \in 0..3, NEW t \in Bytes,
           AppThere(w, o, x, n, t)
    PROVE  CutOut(w, o, x) = t
<1>1. o + 12 \in Nat
  OBVIOUS
<1>2. (o + 12) + x <= o + (12 + x + n)
  OBVIOUS
<1>. PICK u \in Nat : u = o + 12
  BY <1>1
<1>3. Lies(w, u, t) /\ u + x <= Len(w) /\ Len(t) = x
  BY <1>2, Zenon DEF AppThere
<1>4. SubSeq(w, u + 1, u + x) = t
  BY <1>3, LiesSub
<1>. QED
  BY <1>4, Zenon DEF CutOut

LEMMA AppRead ==
    ASSUME Held, ReadInv, ScanApp
    PROVE  ReadInv'
<1> DEFINE data == pos + HEAD_BYTE + SSRC_BYTE + NAME_BYTE
           padding == HeadPadding(pos)
           dlen == 4 * HeadLength(pos) - 8
           last == Skipped(data, dlen - 1)
           npad == IF padding = 1 THEN Byte(last) ELSE 0
           kept == dlen - npad
           bad == padding = 1 /\ npad \notin 1..3
<1>1. /\ pos' = IF bad THEN Skipped(last + 1, dlen)
                ELSE IF padding = 1 THEN last + 1 ELSE Skipped(data, dlen)
      /\ rheads' = IF bad
                   THEN rheads
                   ELSE Append(rheads,
                            Packet(APP, IF kept % 4 = 0 THEN 0 ELSE 1,
                                   HEAD_BYTE + SSRC_BYTE + NAME_BYTE + kept
                                       + ((4 - (kept % 4)) % 4),
                                   Word32(pos + HEAD_BYTE), SubSeq(wire, data + 1, data + kept)))
  BY Zenon DEF ScanApp
<1>2. /\ pc = "scan" /\ MoreToScan /\ HeadThere /\ HeadType(pos) = APP
      /\ pc' = pc /\ heads' = heads /\ wire' = wire /\ chunk' = chunk
  BY DEF ScanApp
<1>3. data = pos + 4 + 4 + 4
  BY Zenon DEF HEAD_BYTE, SSRC_BYTE, NAME_BYTE
<1>4. npad = IF padding = 1 THEN Byte(last) ELSE 0
  OBVIOUS
<1>5. /\ dlen = 4 * HeadLength(pos) - 8 /\ kept = dlen - npad
      /\ bad <=> (padding = 1 /\ npad \notin 1..3)
      /\ last = Skipped(data, dlen - 1)
      /\ padding = HeadPadding(pos)
  OBVIOUS
<1>. HIDE DEF data, padding, dlen, last, npad, kept, bad
<1>6. /\ pos \in Nat /\ IsCompound(heads) /\ heads \in Seq(Packets) /\ Len(heads) \in 1..3
      /\ wire \in Bytes /\ Len(wire) \in Nat /\ SoFar(rheads, heads)
  BY <1>2, Zenon DEF ReadInv, Held
<1>. PICK i : i = Len(rheads) + 1
  OBVIOUS
<1>. PICK p : p = heads[i]
  OBVIOUS
<1>7. AtPacket(i)
  BY <1>2, ScanGoesOn, Zenon
<1>8. IsApp(p) /\ i = Len(heads) /\ i \in 2..Len(heads) /\ i <= Len(heads)
  <2>1. i \in 2..Len(heads) /\ p.type = APP
    BY <1>2, <1>7, Zenon DEF AtPacket, Located
  <2>2. SDES # APP
    BY DEF SDES, APP
  <2>3. IsApp(p) /\ i = Len(heads)
    BY <1>6, <2>1, <2>2, CompoundRest, Zenon
  <2>4. i <= Len(heads)
    BY <1>6, <2>3
  <2>. QED
    BY <2>1, <2>3, <2>4, Zenon
<1>9. PICK len \in AppLens, ts \in Stamps : p = AppPacket(len, ts)
  BY <1>8, Zenon DEF IsApp
<1>10. len \in Nat /\ len >= 16
  BY Inputs
<1>. PICK n \in 0..3 : n = PadOf(len)
  BY AppPads
<1>. PICK o \in Nat : o = pos
  BY <1>6
<1>. PICK d : d = AppData(len, ts)
  OBVIOUS
<1>11. /\ p.type = APP /\ p.bytes = 12 + len + n /\ p.ssrc = OwnSsrc /\ p.body = d
       /\ p.padding = PaddingFlag(n)
  BY <1>9, AppFacts, Zenon
<1>12. /\ o = OffsetIn(heads, i) /\ Lies(wire, o, BytesOf(p))
       /\ 4 * (HeadLength(o) + 1) = p.bytes
       /\ o + p.bytes = Len(wire)
  BY <1>7, <1>8, Zenon DEF AtPacket, Located
<1>13. /\ HeadPadding(o) = PaddingFlag(n) /\ HeadLength(o) = p.bytes \div 4 - 1
       /\ Word32(o + 4) = OwnSsrc
       /\ Lies(wire, o + 12, d)
       /\ n # 0 => Byte(o + 12 + len + n - 1) = n
  <2>1. Lies(wire, o, BytesOf(AppPacket(len, ts)))
    BY <1>9, <1>12, Zenon
  <2>2. /\ HeadType(o) = APP /\ HeadPadding(o) = PaddingFlag(PadOf(len))
        /\ HeadLength(o) = AppPacket(len, ts).bytes \div 4 - 1
        /\ Word32(o + 4) = OwnSsrc
        /\ Lies(wire, o + 12, AppData(len, ts))
        /\ PadOf(len) # 0 => Byte(o + 12 + len + PadOf(len) - 1) = PadOf(len)
    BY <2>1, AppLies
  <2>. QED
    BY <1>9, <2>2, Zenon
<1>14. (padding = 1 <=> n # 0) /\ (padding = 0 <=> n = 0) /\ padding = PaddingFlag(n)
  <2>1. padding = PaddingFlag(n)
    BY <1>5, <1>13, Zenon
  <2>. QED
    BY <2>1 DEF PaddingFlag
<1>. PICK h \in Nat : h = HeadLength(o) /\ 4 * (h + 1) = 12 + len + n
  <2>1. \A x \in Nat : \A y \in 0..3 : (12 + x + y) \div 4 - 1 \in Nat
    OBVIOUS
  <2>. QED
    BY <1>10, <1>11, <1>12, <1>13, <2>1, Zenon
<1>15. data = o + 12 /\ dlen = len + n
  <2>1. dlen = 4 * h - 8
    BY <1>5, Zenon
  <2>2. 4 * h - 8 = len + n
    <3>1. \A x, y \in Nat : \A v \in 0..3 : 4 * (y + 1) = 12 + x + v => 4 * y - 8 = x + v
      OBVIOUS
    <3>. QED
      BY <1>10, <3>1, Zenon
  <2>3. o + 4 + 4 + 4 = o + 12
    OBVIOUS
  <2>. QED
    BY <1>3, <2>1, <2>2, <2>3, Zenon
<1>16. last = o + 12 + len + n - 1 /\ last + 1 = Len(wire)
  <2>1. Len(wire) = o + (12 + len + n)
    BY <1>11, <1>12, Zenon
  <2>3. /\ (o + 12) + ((len + n) - 1) = o + 12 + len + n - 1
        /\ ~((o + 12) + ((len + n) - 1) >= o + (12 + len + n))
        /\ (o + 12 + len + n - 1) + 1 = o + (12 + len + n)
    <3>1. LastAt(o, len, n)
      BY <1>10, AppLast
    <3>. QED
      BY <3>1, Zenon DEF LastAt
  <2>4. last = IF data + (dlen - 1) >= Len(wire) THEN data ELSE data + (dlen - 1)
    BY <1>5, Zenon DEF Skipped
  <2>5. last = (o + 12) + ((len + n) - 1)
    BY <1>15, <2>1, <2>3, <2>4, Zenon
  <2>. QED
    BY <2>1, <2>3, <2>5, Zenon
<1>17. npad = n
  <2>1. CASE n = 0
    BY <1>4, <1>14, <2>1, Zenon
  <2>2. CASE n # 0
    BY <1>4, <1>13, <1>14, <1>16, <2>2, Zenon
  <2>. QED
    BY <2>1, <2>2
<1>18. kept = len
  <2>1. (len + n) - n = len
    BY <1>10
  <2>. QED
    BY <1>5, <1>15, <1>17, <2>1, Zenon
<1>19. ~bad
  <2>1. n # 0 => n \in 1..3
    OBVIOUS
  <2>. QED
    BY <1>5, <1>14, <1>17, <2>1, Zenon
<1>20. d \in Bytes /\ Len(d) = len
  BY DataLength
<1>21. SubSeq(wire, data + 1, data + kept) = d
  <2>1. AppThere(wire, o, len, n, d)
    BY <1>11, <1>12, <1>13, <1>20, Zenon DEF AppThere
  <2>2. CutOut(wire, o, len) = d
    BY <1>6, <1>10, <1>20, <2>1, AppCut
  <2>. QED
    BY <1>15, <1>18, <2>2, Zenon DEF CutOut
<1>. PICK g \in {0, 1} : g = IF kept % 4 = 0 THEN 0 ELSE 1
  OBVIOUS
<1>. PICK z \in Nat : z = HEAD_BYTE + SSRC_BYTE + NAME_BYTE + kept + ((4 - (kept % 4)) % 4)
  <2>1. 4 + 4 + 4 + len + ((4 - (len % 4)) % 4) \in Nat
    BY <1>10
  <2>. QED
    BY <1>18, <2>1, Zenon DEF HEAD_BYTE, SSRC_BYTE, NAME_BYTE
<1>. PICK r : r = Packet(APP, g, z, OwnSsrc, d)
  OBVIOUS
<1>22. rheads' = Append(rheads, r)
  <2>1. Word32(pos + HEAD_BYTE) = OwnSsrc
    BY <1>13, Zenon DEF HEAD_BYTE
  <2>. QED
    BY <1>1, <1>19, <1>21, <2>1, Zenon
<1>23. OtherRead(r, p)
  <2>1. d \in BodiesOf(APP) /\ OwnSsrc \in Nat
    BY <1>20, OwnNat, RestBodies, Zenon
  <2>2. r \in Packets
    BY <2>1, PacketTyped
  <2>3. r.type = APP /\ r.ssrc = OwnSsrc /\ r.body = d
    BY SMTT(60) DEF Packet
  <2>. QED
    BY <1>11, <2>2, <2>3, Zenon DEF OtherRead
<1>24. SoFar(Append(rheads, r), heads) /\ Len(Append(rheads, r)) = i
  <2>1. i <= Len(heads) /\ heads \in Seq(Packets) /\ Len(heads) \in 1..3
    BY <1>6, <1>8, Zenon
  <2>2. SoFar(rheads, heads) /\ i = Len(rheads) + 1 /\ OtherRead(r, heads[i])
    BY <1>6, <1>8, <1>23, Zenon
  <2>. QED
    BY <2>1, <2>2, SoFarGrows
<1>25. pos' = Len(wire) \/ InData(heads, pos')
  <2>1. CASE n # 0
    BY <1>1, <1>14, <1>16, <1>19, <2>1, Zenon
  <2>2. CASE n = 0
    <3>1. pos' = Skipped(data, dlen)
      <4>1. padding # 1
        BY <1>14, <2>2, Zenon
      <4>. QED
        BY <1>1, <1>19, <4>1, Zenon
    <3>2. Skipped(data, dlen) = data
      <4>1. Len(wire) = o + (12 + len + n)
        BY <1>11, <1>12, Zenon
      <4>2. \A x, y \in Nat : \A v \in 0..3 : (x + 12) + (y + v) >= x + (12 + y + v)
        OBVIOUS
      <4>3. data + dlen >= Len(wire)
        BY <1>10, <1>15, <4>1, <4>2, Zenon
      <4>. QED
        BY <4>3, Zenon DEF Skipped
    <3>3. pos' = o + 12 + 4 * 0
      <4>1. o + 12 + 4 * 0 = o + 12
        OBVIOUS
      <4>. QED
        BY <1>15, <3>1, <3>2, <4>1, Zenon
    <3>4. \E m \in Nat : pos' = OffsetIn(heads, Len(heads)) + 12 + 4 * m
      <4>1. 0 \in Nat
        OBVIOUS
      <4>. QED
        BY <1>8, <1>12, <3>3, <4>1, Zenon
    <3>5. p.padding = 0
      BY <1>11, <1>14, <2>2, Zenon
    <3>. QED
      BY <1>8, <1>11, <3>4, <3>5, Zenon DEF InData
  <2>. QED
    BY <2>1, <2>2
<1>26. pos' \in Nat
  <2>1. \A x \in Nat : x + 12 \in Nat /\ \A m \in Nat : x + 12 + 4 * m \in Nat
    OBVIOUS
  <2>2. OffsetIn(heads, Len(heads)) = o
    BY <1>8, <1>12, Zenon
  <2>. QED
    BY <1>6, <1>25, <2>1, <2>2, Zenon DEF InData
<1>27. SoFar(rheads', heads') /\ ScanAt(rheads', heads', pos', Len(wire'))
  <2>1. ScanAt(Append(rheads, r), heads, pos', Len(wire))
    BY <1>8, <1>24, <1>25, Zenon DEF ScanAt
  <2>. QED
    BY <1>2, <1>22, <1>24, <2>1, Zenon
<1>28. chunk' \in [start : Nat, ssrc : Nat, items : Seq(Item)]
  BY <1>2, Zenon DEF ReadInv
<1>. QED
  BY <1>2, <1>26, <1>27, <1>28 DEF ReadInv

-----------------------------------------------------------------------------
(* All the steps                                                           *)

LEMMA BuildRead ==
    ASSUME ReadInv, Build
    PROVE  ReadInv'
<1>1. /\ rheads' = rheads /\ pos' = pos /\ chunk' = chunk
      /\ pc \in {"new", "info", "cname", "end", "reports", "pack"}
      /\ pc' \in {"new", "info", "cname", "end", "reports", "pack", "sent"}
  <2>1. CASE ReceiverReportNew \/ SenderReportNew \/ SetSenderInfo
    BY <2>1 DEF ReceiverReportNew, SenderReportNew, SetSenderInfo, Reading
  <2>2. CASE \E len \in CnameLens : AddSdes(len)
    BY <2>2 DEF AddSdes, Reading
  <2>3. CASE NoCname \/ EndSdes \/ AddReport
    BY <2>3 DEF NoCname, EndSdes, AddReport, Reading
  <2>4. CASE \E len \in AppLens, ts \in Stamps : NewApp(len, ts)
    BY <2>4 DEF NewApp, Reading
  <2>5. CASE NoApp \/ Pack
    BY <2>5 DEF NoApp, Pack, Reading
  <2>. QED
    BY <2>1, <2>2, <2>3, <2>4, <2>5 DEF Build
<1>. QED
  BY <1>1 DEF ReadInv, Idle

LEMMA StepRead == ReadInv /\ BuiltInv /\ ShapeInv /\ PackInv /\ [Next]_vars => ReadInv'
<1> SUFFICES ASSUME ReadInv, BuiltInv, ShapeInv, PackInv, [Next]_vars
             PROVE  ReadInv'
  OBVIOUS
<1>1. CASE Build
  BY <1>1, BuildRead
<1>2. CASE Read
  <2>1. pc \in {"sent", "scan", "item", "read"}
    BY <1>2 DEF Read, UnpackFirst, ScanSdes, SdesItem, SdesEnd, ScanApp, ScanUnknown, ScanOver
  <2>2. Held
    BY <2>1, HeldThen
  <2>. QED
    BY <1>2, <2>2, FirstRead, SdesRead, ItemRead, EndRead, AppRead, UnknownRead, OverRead
       DEF Read
<1>3. CASE Done
  <2>1. /\ pc' = "new" /\ rheads' = <<>> /\ pos' = 0
        /\ chunk' = [start |-> 0, ssrc |-> 0, items |-> <<>>]
    BY <1>3 DEF Done
  <2>2. [start |-> 0, ssrc |-> 0, items |-> <<>>] \in [start : Nat, ssrc : Nat, items : Seq(Item)]
    OBVIOUS
  <2>. QED
    BY <2>1, <2>2 DEF ReadInv, Idle
<1>4. CASE UNCHANGED vars
  BY <1>4 DEF vars, ReadInv, Idle
<1> QED
  BY <1>1, <1>2, <1>3, <1>4 DEF Next

-----------------------------------------------------------------------------
(* What the invariants mean                                                *)

\* The packets of hs have their types and are of the kinds of their places.
KindsOK(hs) ==
    \A i \in DOMAIN hs :
        /\ hs[i] \in PacketsOf(hs[i].type)
        /\ hs[i].type \in IF i = 1 THEN {SR, RR} ELSE {SDES, APP}

LEMMA KindsSeq ==
    ASSUME NEW hs \in Seq(Packets),
           1 \in 1..Len(hs) => hs[1].type \in {SR, RR},
           \A i \in 2..Len(hs) : hs[i].type \in {SDES, APP}
    PROVE  KindsOK(hs)
<1>1. ASSUME NEW i \in DOMAIN hs
      PROVE  /\ hs[i] \in PacketsOf(hs[i].type)
             /\ hs[i].type \in IF i = 1 THEN {SR, RR} ELSE {SDES, APP}
  <2>1. i \in 1..Len(hs) /\ (i = 1 \/ i \in 2..Len(hs))
    BY <1>1
  <2>. PICK p : p = hs[i]
    OBVIOUS
  <2>2. p \in Packets
    BY <2>1, ElementOfSeq, Zenon
  <2>3. p \in PacketsOf(p.type)
    BY <2>2, TypeOfPacket
  <2>4. CASE i = 1
    BY <2>1, <2>3, <2>4, Zenon
  <2>5. CASE i # 1
    BY <2>1, <2>3, <2>5, Zenon
  <2>. QED
    BY <2>4, <2>5
<1>. QED
  BY <1>1, Zenon DEF KindsOK

LEMMA HeadsKinds ==
    ASSUME BuiltInv, ShapeInv, PackInv
    PROVE  KindsOK(heads)
<1>1. heads \in Seq(Packets)
  BY DEF BuiltInv
<1>2. 1 \in 1..Len(heads) => heads[1].type \in {SR, RR}
  <2>1. CASE pc = "new"
    <3>1. heads = <<>>
      BY <2>1 DEF BuiltInv
    <3>. QED
      BY <3>1
  <2>2. CASE pc # "new"
    BY <2>2 DEF BuiltInv
  <2>. QED
    BY <2>1, <2>2
<1>3. ASSUME NEW i \in 2..Len(heads) PROVE heads[i].type \in {SDES, APP}
  <2>1. Len(heads) \in Nat /\ Len(heads) >= 2
    BY <1>1
  <2>2. CASE pc \in {"new", "info", "cname"}
    <3>1. Len(heads) \in {0, 1}
      BY <2>2 DEF ShapeInv
    <3>. QED
      BY <2>1, <3>1
  <2>3. CASE pc \in {"end", "reports"}
    <3>1. Len(heads) \in 1..2 /\ (Len(heads) = 2 => IsOpen(heads[2]) \/ IsCname(heads[2]))
      BY <2>3, Zenon DEF ShapeInv
    <3>2. Len(heads) = 2 /\ i = 2
      <4>. PICK n \in 1..2 : n = Len(heads)
        BY <3>1
      <4>1. i \in 2..n
        BY Zenon
      <4>2. n = 2 /\ i = 2
        BY <4>1
      <4>. QED
        BY <4>2, Zenon
    <3>. QED
      BY <3>1, <3>2, TypesOfKinds, Zenon
  <2>4. CASE pc \in {"pack", "sent", "scan", "item", "read"}
    <3>1. IsCompound(heads)
      BY <2>4 DEF ShapeInv
    <3>. QED
      BY <3>1, CompoundRest, Zenon
  <2>. QED
    BY <2>2, <2>3, <2>4 DEF PackInv
<1>. QED
  BY <1>1, <1>2, <1>3, KindsSeq

LEMMA ReadKinds ==
    ASSUME BuiltInv, ShapeInv, PackInv, ReadInv
    PROVE  KindsOK(rheads)
<1>1. CASE pc \in {"new", "info", "cname", "end", "reports", "pack", "sent"}
  <2>1. rheads = <<>>
    BY <1>1 DEF ReadInv, Idle
  <2>. QED
    BY <2>1 DEF KindsOK
<1>2. CASE pc \in {"scan", "item", "read"}
  <2>1. SoFar(rheads, heads)
    BY <1>2 DEF ReadInv
  <2>2. Held
    BY <1>2, HeldThen
  <2>. PICK rs : rs = rheads
    OBVIOUS
  <2>. PICK hs : hs = heads
    OBVIOUS
  <2>3. IsCompound(hs) /\ rs \in Seq(Packets) /\ Len(rs) \in 1..Len(hs) /\ Len(hs) \in 1..3
    BY <2>1, <2>2, Zenon DEF Held, SoFar
  <2>4. rs[1].type \in {SR, RR}
    <3>1. rs[1].type = hs[1].type
      BY <2>1, Zenon DEF SoFar, ReportRead
    <3>2. hs[1].type \in {SR, RR}
      BY <2>3, TypesOfKinds, Zenon DEF IsCompound
    <3>. QED
      BY <3>1, <3>2, Zenon
  <2>5. ASSUME NEW i \in 2..Len(rs) PROVE rs[i].type \in {SDES, APP}
    <3>1. i \in 2..Len(hs)
      BY <2>3
    <3>2. hs[i].type \in {SDES, APP}
      BY <2>3, <3>1, CompoundRest, Zenon
    <3>3. rs[i].type = hs[i].type
      BY <2>1, Zenon DEF SoFar, OtherRead
    <3>. QED
      BY <3>2, <3>3, Zenon
  <2>6. KindsOK(rs)
    BY <2>3, <2>4, <2>5, KindsSeq
  <2>. QED
    BY <2>6, Zenon
<1>. QED
  BY <1>1, <1>2 DEF PackInv

LEMMA TypesInv ==
    ASSUME BuiltInv, ShapeInv, PackInv, ReadInv
    PROVE  TypeOK
<1>1. \A hs \in {heads, rheads} : KindsOK(hs)
  BY HeadsKinds, ReadKinds
<1>2. wire \in Seq(0..255)
  <2>1. CASE pc \in {"new", "info", "cname", "end", "reports", "pack"}
    <3>1. wire = <<>>
      BY <2>1 DEF PackInv
    <3>2. <<>> \in Seq(0..255)
      OBVIOUS
    <3>. QED
      BY <3>1, <3>2, Zenon
  <2>2. CASE pc \in {"sent", "scan", "item", "read"}
    BY <2>2, Zenon DEF PackInv, SentAs, Bytes
  <2>. QED
    BY <2>1, <2>2 DEF PackInv
<1>. QED
  BY <1>1, <1>2, Zenon DEF TypeOK, KindsOK, PackInv, ReadInv

LEMMA ScanInv ==
    ASSUME ReadInv
    PROVE  ScanOnHeads
<1>1. ASSUME pc = "scan", Len(rheads) # Len(heads)
      PROVE  pos = Offset(Len(rheads) + 1)
  <2>1. pos = OffsetIn(heads, Len(rheads) + 1)
    BY <1>1, Zenon DEF ReadInv, ScanAt
  <2>. QED
    BY <2>1, OffsetIs, Zenon
<1>. QED
  BY <1>1, Zenon DEF ScanOnHeads

-----------------------------------------------------------------------------
(* The lookups                                                             *)

\* What SelectInSeq gives, of the places S where the test holds.
FirstOf(S) == IF S # {} THEN Min(S) ELSE 0

Places(hs, type) == {i \in 1..Len(hs) : hs[i].type = type}

\* The lookups find packets of the same places on both sides.
LEMMA SamePlaces ==
    ASSUME NEW rs, NEW hs, SoFar(rs, hs), Len(rs) = Len(hs), Len(hs) \in 1..3,
           NEW type \in {SDES, APP}, hs[1].type \in {SR, RR}
    PROVE  /\ Places(rs, type) = Places(hs, type)
           /\ LET k == FirstOf(Places(hs, type)) IN
              k # 0 => rs[k].ssrc = hs[k].ssrc /\ rs[k].body = hs[k].body
<1>. PICK n \in 1..3 : n = Len(hs)
  OBVIOUS
<1>1. \A i \in 1..n : rs[i].type = hs[i].type
  <2>1. rs[1].type = hs[1].type
    BY Zenon DEF SoFar, ReportRead
  <2>2. \A i \in 2..n : rs[i].type = hs[i].type
    BY Zenon DEF SoFar, OtherRead
  <2>3. \A i \in 1..n : i = 1 \/ i \in 2..n
    OBVIOUS
  <2>. QED
    BY <2>1, <2>2, <2>3, Zenon
<1>2. Places(rs, type) = Places(hs, type)
  <2>1. Places(rs, type) = {i \in 1..n : rs[i].type = type}
    BY Zenon DEF Places
  <2>2. Places(hs, type) = {i \in 1..n : hs[i].type = type}
    BY Zenon DEF Places
  <2>3. {i \in 1..n : rs[i].type = type} = {i \in 1..n : hs[i].type = type}
    BY <1>1, Zenon
  <2>. QED
    BY <2>1, <2>2, <2>3, Zenon
<1>. PICK S : S = Places(hs, type)
  OBVIOUS
<1>3. S = {i \in 1..n : hs[i].type = type}
  BY Zenon DEF Places
<1>4. S \in SUBSET Nat
  BY <1>3
<1>5. ASSUME FirstOf(S) # 0
      PROVE  rs[FirstOf(S)].ssrc = hs[FirstOf(S)].ssrc /\ rs[FirstOf(S)].body = hs[FirstOf(S)].body
  <2>1. S # {} /\ FirstOf(S) = Min(S)
    BY <1>5, Zenon DEF FirstOf
  <2>. PICK k : k = Min(S)
    OBVIOUS
  <2>2. k \in S
    BY <1>4, <2>1, MinIn
  <2>3. k \in 1..n /\ hs[k].type = type
    BY <1>3, <2>2, Zenon
  <2>4. k # 1
    <3>1. type \notin {SR, RR}
      BY DEF SR, RR, SDES, APP
    <3>. QED
      BY <2>3, <3>1, Zenon
  <2>5. k \in 2..n
    BY <2>3, <2>4
  <2>6. OtherRead(rs[k], hs[k])
    BY <2>5, Zenon DEF SoFar
  <2>. QED
    BY <2>1, <2>6, Zenon DEF OtherRead
<1>. QED
  BY <1>2, <1>5, Zenon

LEMMA SdesFound ==
    ASSUME NEW rs, NEW hs, SoFar(rs, hs), Len(rs) = Len(hs), Len(hs) \in 1..3,
           hs[1].type \in {SR, RR}
    PROVE  \A ssrc, id : rtcp_sdes(rs, ssrc, id) = rtcp_sdes(hs, ssrc, id)
<1>. TAKE ssrc, id
<1>. DEFINE Items(b) == {i \in 1..Len(b) : b[i].id = id}
            Found(s, k) == LET j == IF k = 0 \/ s[k].ssrc # ssrc THEN 0 ELSE FirstOf(Items(s[k].body))
                           IN IF j = 0 THEN <<>> ELSE s[k].body[j].value
<1>1. \A s : rtcp_sdes(s, ssrc, id) = Found(s, FirstOf(Places(s, SDES)))
  BY Zenon DEF rtcp_sdes, SelectInSeq, FirstOf, Places
<1>. PICK k : k = FirstOf(Places(hs, SDES))
  OBVIOUS
<1>2. /\ Places(rs, SDES) = Places(hs, SDES)
      /\ k # 0 => rs[k].ssrc = hs[k].ssrc /\ rs[k].body = hs[k].body
  BY SamePlaces, Zenon
<1>3. FirstOf(Places(rs, SDES)) = k
  BY <1>2, Zenon
<1>4. Found(rs, k) = Found(hs, k)
  BY <1>2, Zenon
<1>. HIDE DEF Found
<1>. QED
  BY <1>1, <1>3, <1>4, Zenon

LEMMA AppFound ==
    ASSUME NEW rs, NEW hs, SoFar(rs, hs), Len(rs) = Len(hs), Len(hs) \in 1..3,
           hs[1].type \in {SR, RR}
    PROVE  rtcp_app(rs) = rtcp_app(hs)
<1>. DEFINE Found(s, k) == IF k = 0 THEN <<>> ELSE s[k].body
<1>1. \A s : rtcp_app(s) = Found(s, FirstOf(Places(s, APP)))
  BY Zenon DEF rtcp_app, SelectInSeq, FirstOf, Places
<1>. PICK k : k = FirstOf(Places(hs, APP))
  OBVIOUS
<1>2. /\ Places(rs, APP) = Places(hs, APP)
      /\ k # 0 => rs[k].ssrc = hs[k].ssrc /\ rs[k].body = hs[k].body
  BY SamePlaces, Zenon
<1>3. FirstOf(Places(rs, APP)) = k
  BY <1>2, Zenon
<1>4. Found(rs, k) = Found(hs, k)
  BY <1>2, Zenon
<1>. HIDE DEF Found
<1>. QED
  BY <1>1, <1>3, <1>4, Zenon

LEMMA GuestsApart == \A i, j \in Nat : GuestSsrc(i) = GuestSsrc(j) => i = j
  BY SMT DEF GuestSsrc

LEMMA KeptSource ==
    ASSUME NEW i \in 1..31
    PROVE  Kept(ReportOf(i)).src = ReportOf(i).src
<1>1. Kept(ReportOf(i)) = [src |-> ReportOf(i).src, frac |-> ReportOf(i).frac % 16,
                           lost |-> ReportOf(i).lost % 4096, rest |-> ReportOf(i).rest]
  BY KeptFields, SMT
<1>2. \A a, b, c, d : [src |-> a, frac |-> b, lost |-> c, rest |-> d].src = a
  OBVIOUS
<1>. QED
  BY <1>1, <1>2, SMT

\* The report on a guest is found by its ssrc, which no masking touches.
LEMMA ReportFound ==
    ASSUME NEW rs, NEW hs, SoFar(rs, hs), IsReport(hs[1]), NEW i \in DOMAIN hs[1].body
    PROVE  rtcp_report(rs, GuestSsrc(i)) = <<Kept(ReportOf(i))>>
<1>1. PICK type \in {SR, RR}, n \in 0..MAX_REPORTS : hs[1] = ReportPacket(type, n)
  BY Zenon DEF IsReport
<1>2. n \in 0..31 /\ n \in Nat
  BY PacketAssumption
<1>. PICK sent : sent = [j \in 1..n |-> ReportOf(j)]
  OBVIOUS
<1>3. hs[1].body = sent /\ DOMAIN sent = 1..n /\ \A j \in 1..n : sent[j] = ReportOf(j)
  <2>1. ReportPacket(type, n).body = [j \in 1..n |-> ReportOf(j)]
    BY <1>2, ReportFacts, Zenon
  <2>. QED
    BY <1>1, <2>1, Zenon
<1>. PICK b : b = rs[1].body
  OBVIOUS
<1>4. b = [j \in 1..n |-> Kept(ReportOf(j))]
  <2>1. b = [j \in DOMAIN sent |-> Kept(sent[j])]
    BY <1>3, Zenon DEF SoFar, ReportRead
  <2>. QED
    BY <1>3, <2>1, Zenon
<1>5. i \in 1..n
  BY <1>3, Zenon
<1>6. Len(b) = n /\ b # <<>>
  <2>. DEFINE K(j) == Kept(ReportOf(j))
  <2>1. b = [j \in 1..n |-> K(j)]
    BY <1>4
  <2>. HIDE DEF K
  <2>2. Len(b) = n
    BY <1>2, <2>1
  <2>3. n # 0
    BY <1>2, <1>5
  <2>. QED
    BY <2>2, <2>3
<1>7. ASSUME NEW j \in 1..n PROVE b[j].src = GuestSsrc(j) /\ j \in Nat
  <2>1. j \in 1..31 /\ j \in Nat
    BY <1>2
  <2>2. b[j] = Kept(ReportOf(j))
    BY <1>4, Zenon
  <2>3. Kept(ReportOf(j)).src = ReportOf(j).src
    BY <2>1, KeptSource
  <2>4. ReportOf(j).src = GuestSsrc(j)
    BY <2>1, ReportNumbers
  <2>. QED
    BY <2>1, <2>2, <2>3, <2>4, Zenon
<1>. PICK S : S = {j \in 1..Len(b) : b[j].src = GuestSsrc(i)}
  OBVIOUS
<1>8. S = {i}
  <2>1. \A j \in 1..n : b[j].src = GuestSsrc(i) <=> j = i
    BY <1>5, <1>7, GuestsApart, Zenon
  <2>. QED
    BY <1>5, <1>6, <2>1, Zenon
<1>9. Min(S) = i
  <2>1. {i} \in SUBSET Nat /\ {i} # {}
    BY <1>5, <1>7, Zenon
  <2>2. Min({i}) \in {i}
    BY <2>1, MinIn
  <2>. QED
    BY <1>8, <2>2, Zenon
<1>10. rtcp_report(rs, GuestSsrc(i))
           = IF b = <<>> THEN <<>>
             ELSE <<b[IF FirstOf(S) = 0 THEN Len(b) ELSE FirstOf(S)]>>
  BY Zenon DEF rtcp_report, SelectInSeq, FirstOf
<1>11. FirstOf(S) = i
  BY <1>8, <1>9, Zenon DEF FirstOf
<1>12. i # 0
  BY <1>5
<1>13. b[i] = Kept(ReportOf(i))
  BY <1>4, <1>5, Zenon
<1>. QED
  BY <1>6, <1>10, <1>11, <1>12, <1>13, Zenon

LEMMA LookupInv ==
    ASSUME BuiltInv, ShapeInv, PackInv, ReadInv
    PROVE  ReadAsSent
<1>. SUFFICES ASSUME pc = "read"
              PROVE  /\ rtcp_sender(rheads) = rtcp_sender(heads)
                     /\ rtcp_sender_info(rheads) = rtcp_sender_info(heads)
                     /\ rtcp_sdes(rheads, OwnSsrc, CNAME) = rtcp_sdes(heads, OwnSsrc, CNAME)
                     /\ \A i \in DOMAIN heads[1].body :
                           rtcp_report(rheads, GuestSsrc(i)) = <<Kept(ReportOf(i))>>
                     /\ rtcp_app(rheads) = rtcp_app(heads)
  BY Zenon DEF ReadAsSent
<1>1. SoFar(rheads, heads) /\ Len(rheads) = Len(heads)
  BY DEF ReadInv
<1>2. Held
  BY HeldThen
<1>3. IsCompound(heads) /\ Len(heads) \in 1..3 /\ IsReport(heads[1])
  BY <1>2, Zenon DEF Held, IsCompound
<1>4. heads[1].type \in {SR, RR}
  BY <1>3, TypesOfKinds, Zenon
<1>5. ReportRead(rheads[1], heads[1])
  BY <1>1, Zenon DEF SoFar
<1>6. rtcp_sender(rheads) = rtcp_sender(heads)
  BY <1>5, Zenon DEF ReportRead, rtcp_sender
<1>7. rtcp_sender_info(rheads) = rtcp_sender_info(heads)
  BY <1>5, Zenon DEF ReportRead, rtcp_sender_info
<1>8. rtcp_sdes(rheads, OwnSsrc, CNAME) = rtcp_sdes(heads, OwnSsrc, CNAME)
  <2>1. \A ssrc, id : rtcp_sdes(rheads, ssrc, id) = rtcp_sdes(heads, ssrc, id)
    BY <1>1, <1>3, <1>4, SdesFound, Zenon
  <2>. QED
    BY <2>1, Zenon
<1>9. rtcp_app(rheads) = rtcp_app(heads)
  BY <1>1, <1>3, <1>4, AppFound, Zenon
<1>10. \A i \in DOMAIN heads[1].body : rtcp_report(rheads, GuestSsrc(i)) = <<Kept(ReportOf(i))>>
  BY <1>1, <1>3, ReportFound, Zenon
<1>. QED
  BY <1>6, <1>7, <1>8, <1>9, <1>10, Zenon

-----------------------------------------------------------------------------

\* The invariant of a compound from session_report to rtcp_in.
CompoundInv == BuiltInv /\ ShapeInv /\ PackInv /\ ReadInv

LEMMA CompoundAlways == Spec => []CompoundInv
<1>1. Init => CompoundInv
  BY InitBuilt, InitShaped, InitPacked, InitRead DEF CompoundInv
<1>2. CompoundInv /\ [Next]_vars => CompoundInv'
  BY StepBuilt, StepShaped, StepPacked, StepRead DEF CompoundInv
<1> QED
  BY <1>1, <1>2, PTL DEF Spec

\* Types: both sides have a report first and only the cname and the APP after
\* it, whatever rtcp_unpack met as padding or data on its way.
THEOREM TypeCorrect == Spec => []TypeOK
<1>1. CompoundInv => TypeOK
  BY TypesInv DEF CompoundInv
<1> QED
  BY <1>1, CompoundAlways, PTL

\* rtcp_unpack looks for a head where a packet begins until it has them all:
\* no padding is taken for a head and no head is skipped.
THEOREM ScansOnHeads == Spec => []ScanOnHeads
<1>1. CompoundInv => ScanOnHeads
  BY ScanInv DEF CompoundInv
<1> QED
  BY <1>1, CompoundAlways, PTL

\* What the lookups of rtcp_in find in the compound read is what was put into
\* the compound sent, the reports as far as rtcp_unpack keeps their bits.
THEOREM ReadsAsSent == Spec => []ReadAsSent
<1>1. CompoundInv => ReadAsSent
  BY LookupInv DEF CompoundInv
<1> QED
  BY <1>1, CompoundAlways, PTL

=============================================================================
