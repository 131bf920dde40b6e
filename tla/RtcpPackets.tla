---------------------------- MODULE RtcpPackets ----------------------------
(***************************************************************************)
(* One rtcp compound packet (libxrtp/packet.c), from the session that      *)
(* builds it to the session that reads it.  The sending side follows the   *)
(* calls session_rtcp_to_send, session_report and a profile's rtcp_out     *)
(* make: a sender or receiver report, the cname, one report per guest, at  *)
(* most one APP (the vorbis headers, vrtp_rtcp_out), and rtcp_pack.  The   *)
(* reading side is rtcp_unpack, one packet of the compound at a time, then *)
(* the lookups of rtcp_in.                                                 *)
(*                                                                         *)
(* What goes over the net is a sequence of bytes: the two sides agree on   *)
(* lengths and paddings they compute separately, which is what can go      *)
(* wrong here.  A position of the buffer counts from 0, as in buffer.c.    *)
(***************************************************************************)
EXTENDS Integers, Sequences, SequencesExt

CONSTANTS
    MAX_REPORTS,    \* XRTP_MAX_REPORTS
    MAX_BYTES,      \* XRTP_RTCP_DEFAULTMAXBYTES
    GuestCounts,    \* numbers of guests a report goes through
    CnameLens,      \* lengths of the cname, 0 for none
    AppLens,        \* lengths of the data of an APP
    Stamps          \* last bytes of the timestamp the vorbis data begin with

\* The count of a head has 5 bits, the length of a cname 8.  The data of an APP
\* are 16 bytes and three headers whose lengths have 16 bits (vrtp_rtcp_out), so
\* that the length of the APP fits the 16 bits of its head.
ASSUME PacketAssumption ==
    /\ MAX_REPORTS \in 0..31
    /\ MAX_BYTES \in Nat
    /\ GuestCounts \subseteq Nat
    /\ CnameLens \subseteq 0..255
    /\ AppLens \subseteq {n \in Nat : n >= 16 /\ n <= 16 + 3 * 65535}
    /\ Stamps \subseteq 0..255

SR == 200
RR == 201
SDES == 202
APP == 204

END == 0        \* RTCP_SDES_END
CNAME == 1      \* RTCP_SDES_CNAME

HEAD_BYTE == 4
SSRC_BYTE == 4
SENDERINFO_BYTE == 24
REPORT_BYTE == 24
ITEM_BYTE == 2
NAME_BYTE == 4

VARIABLES
    pc,         \* the next call on the compound, or the place in rtcp_unpack
    guests,     \* the guests session_report meets on its way
    heads,      \* heads[] of the compound sent
    bytes,      \* its bytes, which only the first head and rtcp_pack set
    wire,       \* data of the buffer
    rheads,     \* heads[] of the compound read
    pos,        \* position in the buffer that is read
    chunk       \* chk_start and sdes of rtcp_unpack_sdes

vars == <<pc, guests, heads, bytes, wire, rheads, pos, chunk>>

-----------------------------------------------------------------------------
(* What a session has to say.  Multi-byte values differ in every byte.     *)

OwnSsrc == 16909060                         \* 0x01020304
GuestSsrc(i) == 84281088 + i                \* 0x05060700 + i
SenderInfo == <<1001, 2002, 3003, 4004, 5005>>

\* The report of the i-th guest; its losses exceed 4 and 12 bits for some i.
ReportOf(i) == [src  |-> GuestSsrc(i),
                frac |-> (9 * i) % 256,
                lost |-> 300 * i,
                rest |-> <<65536 + i, i, 77 * i, 131072 * i>>]

Text(len) == [k \in 1..len |-> 97 + (k % 26)]

\* The data of the APP: timestamp, version, flags, signum, three lengths and
\* the headers themselves, whose bytes are never looked at.
AppName == <<86, 79, 82, 66>>
AppData(len, ts) ==
    <<0, 0, ts - (ts % 16), ts % 16, 255, 255, 255, 255, 224, 1, 0, 30, 0, 9, 1, 0>>
        \o Text(len - 16)

-----------------------------------------------------------------------------
(* A packet: `body' are the reports, the items of the one chunk, or the    *)
(* data of the APP; `padlen' is the chunk's, 0 while it is not ended.      *)

Packet(type, padding, size, ssrc, body) ==
    [type |-> type, padding |-> padding, bytes |-> size, ssrc |-> ssrc,
     info |-> <<>>, body |-> body, padlen |-> 0]

\* The count field: reports, chunks, or the subtype of the APP.
CountOf(p) ==
    IF p.type \in {SR, RR} THEN Len(p.body) ELSE IF p.type = SDES THEN 1 ELSE 0

U16(v) == <<v \div 256, v % 256>>
U32(v) == U16(v \div 65536) \o U16(v % 65536)

-----------------------------------------------------------------------------
(* Building                                                                *)

Init ==
    /\ pc = "new"
    /\ guests \in GuestCounts
    /\ heads = <<>>
    /\ bytes = 0
    /\ wire = <<>>
    /\ rheads = <<>>
    /\ pos = 0
    /\ chunk = [start |-> 0, ssrc |-> 0, items |-> <<>>]

Reading == <<guests, rheads, pos, chunk>>

\* rtcp_receiver_report_new
ReceiverReportNew ==
    /\ pc = "new"
    /\ heads' = <<Packet(RR, 0, HEAD_BYTE + SSRC_BYTE, OwnSsrc, <<>>)>>
    /\ bytes' = HEAD_BYTE + SSRC_BYTE
    /\ pc' = "cname"
    /\ UNCHANGED <<wire, Reading>>

\* rtcp_sender_report_new: the head says that there is padding.
SenderReportNew ==
    /\ pc = "new"
    /\ heads' = <<Packet(SR, 1, HEAD_BYTE + SENDERINFO_BYTE, 0, <<>>)>>
    /\ bytes' = HEAD_BYTE + SENDERINFO_BYTE
    /\ pc' = "info"
    /\ UNCHANGED <<wire, Reading>>

\* rtcp_set_sender_info
SetSenderInfo ==
    /\ pc = "info"
    /\ heads' = [heads EXCEPT ![1].ssrc = OwnSsrc, ![1].info = SenderInfo]
    /\ pc' = "cname"
    /\ UNCHANGED <<bytes, wire, Reading>>

\* The test of rtcp_add_sdes for a compound without SDES.
SdesFits(len) == MAX_BYTES - bytes - (HEAD_BYTE + SSRC_BYTE + ITEM_BYTE) >= len

\* rtcp_add_sdes, as session_report calls it: once, for its own cname.  The
\* bytes of the compound do not grow.
AddSdes(len) ==
    /\ pc = "cname"
    /\ len > 0
    /\ heads' = IF SdesFits(len)
                THEN Append(heads, Packet(SDES, 0, HEAD_BYTE + SSRC_BYTE + ITEM_BYTE + len,
                                          OwnSsrc, <<[id |-> CNAME, value |-> Text(len)]>>))
                ELSE heads
    /\ pc' = "end"
    /\ UNCHANGED <<bytes, wire, Reading>>

NoCname ==
    /\ pc = "cname"
    /\ 0 \in CnameLens
    /\ pc' = "reports"
    /\ UNCHANGED <<heads, bytes, wire, Reading>>

\* Mutant of ChunkEnded: the padding is not counted.
ChunkEndedUncounted(p) == [p EXCEPT !.padlen = 4 - (p.bytes % 4)]

ChunkEnded(p) ==
    [p EXCEPT !.padlen = 4 - (p.bytes % 4), !.bytes = @ + 4 - (p.bytes % 4)]

\* rtcp_end_sdes: one byte at least, the END of the chunk.
EndSdes ==
    /\ pc = "end"
    /\ heads' = [i \in DOMAIN heads |->
                    IF heads[i].type = SDES THEN ChunkEnded(heads[i]) ELSE heads[i]]
    /\ pc' = "reports"
    /\ UNCHANGED <<bytes, wire, Reading>>

\* max_report of session_report, and the test of rtcp_add_report, made with
\* bytes that the reports before have not changed: a refused report leaves the
\* compound as it is, and so the ones after it are refused too.
ReportLeft ==
    /\ Len(heads[1].body) < guests
    /\ Len(heads[1].body) < MAX_REPORTS
    /\ bytes + REPORT_BYTE <= MAX_BYTES

\* One round of the loop, with rtcp_add_report.
AddReport ==
    /\ pc = "reports"
    /\ ReportLeft
    /\ heads' = [heads EXCEPT ![1].body = Append(@, ReportOf(Len(@) + 1)),
                              ![1].bytes = @ + REPORT_BYTE]
    /\ UNCHANGED <<pc, bytes, wire, Reading>>

\* Mutant of PaddingFlag: the head counts the padding.
PaddingCount(npad) == npad

PaddingFlag(npad) == IF npad = 0 THEN 0 ELSE 1

\* rtcp_new_app, of which the size of the compound is not asked.
NewApp(len, ts) ==
    LET npad == IF len % 4 = 0 THEN 0 ELSE 4 - (len % 4) IN
    /\ pc = "reports" /\ ~ReportLeft
    /\ heads' = Append(heads, Packet(APP, PaddingFlag(npad),
                                     HEAD_BYTE + SSRC_BYTE + NAME_BYTE + len + npad,
                                     OwnSsrc, AppData(len, ts)))
    /\ pc' = "pack"
    /\ UNCHANGED <<bytes, wire, Reading>>

NoApp ==
    /\ pc = "reports" /\ ~ReportLeft
    /\ pc' = "pack"
    /\ UNCHANGED <<heads, bytes, wire, Reading>>

-----------------------------------------------------------------------------
(* Packing: a list of fields, each added whole to a buffer or refused      *)

\* Mutant of CompoundLength: the bytes kept while the compound was built.
CompoundBytes == bytes

\* rtcp_length, the padding being added when the first head says so.
CompoundLength ==
    LET total == FoldLeft(LAMBDA n, p : n + p.bytes, 0, heads) IN
    IF total % 4 # 0 /\ heads[1].padding = 1 THEN total + 4 - (total % 4) ELSE total

\* rtcp_pack_head: version 2, padding, count and type; the length in words.
HeadFields(p) ==
    <<<<2 * 64 + p.padding * 32 + CountOf(p), p.type>>, U16(p.bytes \div 4 - 1)>>

\* _rtcp_pack_report
ReportFields(r) ==
    <<U32(r.src), <<r.frac, r.lost \div 65536>> \o U16(r.lost % 65536)>>
        \o [k \in 1..4 |-> U32(r.rest[k])]

ItemFields(it) == <<<<it.id>>, <<Len(it.value)>>, it.value>>

BodyFields(p) ==
    CASE p.type \in {SR, RR} ->
            [k \in DOMAIN p.info |-> U32(p.info[k])]
                \o FlattenSeq([i \in DOMAIN p.body |-> ReportFields(p.body[i])])
      [] p.type = SDES ->
            FlattenSeq([i \in DOMAIN p.body |-> ItemFields(p.body[i])])
                \o <<[k \in 1..p.padlen |-> 0]>>
      [] p.type = APP ->
            LET npad == 4 - (Len(p.body) % 4) IN
            [k \in 1..NAME_BYTE |-> <<AppName[k]>>] \o <<p.body>>
                \o (IF p.padding = 1 THEN <<[k \in 1..npad |-> npad]>> ELSE <<>>)

PacketFields(p) == HeadFields(p) \o <<U32(p.ssrc)>> \o BodyFields(p)

\* buffer_add_*, whose answers rtcp_pack does not look at.
AddFields(fields, size) ==
    FoldLeft(LAMBDA b, f : IF Len(b) + Len(f) > size THEN b ELSE b \o f, <<>>, fields)

\* rtcp_pack.  Before the buffer is full its data end where they end.
Pack ==
    /\ pc = "pack"
    /\ bytes' = CompoundLength
    /\ wire' = AddFields(FlattenSeq([i \in DOMAIN heads |-> PacketFields(heads[i])]),
                         CompoundLength)
    /\ pc' = "sent"
    /\ UNCHANGED <<heads, Reading>>

-----------------------------------------------------------------------------
(* Reading                                                                 *)

\* buffer_next_uint8, _uint16, _uint32, at a position the buffer holds.
Byte(p) == wire[p + 1]
Word16(p) == Byte(p) * 256 + Byte(p + 1)
Word32(p) == Word16(p) * 65536 + Word16(p + 2)

\* rtcp_parse_head
HeadPadding(p) == (Byte(p) \div 32) % 2
HeadCount(p) == Byte(p) % 32
HeadType(p) == Byte(p + 1)
HeadLength(p) == Word16(p + 2)

\* Mutant of ReadReport: the fraction is taken for the high bits of the total.
ReadReportTotal(p) ==
    [src  |-> Word32(p),
     frac |-> Byte(p + 5) % 16,
     lost |-> Word16(p + 6) % 4096,
     rest |-> [k \in 1..4 |-> Word32(p + 4 + 4 * k)]]

\* A report as rtcp_unpack keeps it: 0x0f of the fraction, 0x0fff of the total.
ReadReport(p) ==
    [src  |-> Word32(p),
     frac |-> Byte(p + 4) % 16,
     lost |-> Word16(p + 6) % 4096,
     rest |-> [k \in 1..4 |-> Word32(p + 4 + 4 * k)]]

\* The first packet of rtcp_unpack.  A datagram arrives whole, so that the
\* tests for missing bytes are met; an extension would be skipped.
UnpackFirst ==
    /\ pc = "sent"
    /\ LET type == HeadType(0)
           ninfo == IF type = SR THEN 5 ELSE 0
           first == HEAD_BYTE + SSRC_BYTE + 4 * ninfo
           end == first + REPORT_BYTE * HeadCount(0)
           length == HeadLength(0)
       IN /\ rheads' = <<[Packet(type, HeadPadding(0), 4 * length + REPORT_BYTE * HeadCount(0),
                                 Word32(HEAD_BYTE),
                                 [i \in 1..HeadCount(0) |->
                                     ReadReport(first + REPORT_BYTE * (i - 1))])
                         EXCEPT !.info = [k \in 1..ninfo |-> Word32(HEAD_BYTE + 4 * k)]]>>
          /\ pos' = IF end < 4 * (length + 1) THEN 4 * (length + 1) ELSE end
    /\ pc' = "scan"
    /\ UNCHANGED <<guests, heads, bytes, wire, chunk>>

\* The test of the loop: what is left is unsigned, so that a position beyond
\* the end leaves a great deal.
MoreToScan == pos > Len(wire) \/ Len(wire) - pos > 4
HeadThere == pos + HEAD_BYTE <= Len(wire)

\* rtcp_unpack_sdes, up to its first item.  There is one chunk.
ScanSdes ==
    /\ pc = "scan" /\ MoreToScan /\ HeadThere
    /\ HeadType(pos) = SDES
    /\ chunk' = [start |-> pos + HEAD_BYTE, ssrc |-> Word32(pos + HEAD_BYTE), items |-> <<>>]
    /\ pos' = pos + HEAD_BYTE + SSRC_BYTE
    /\ pc' = "item"
    /\ UNCHANGED <<guests, heads, bytes, wire, rheads>>

\* An item, or the end of rtcp_unpack when its bytes are not there.
SdesItem ==
    /\ pc = "item"
    /\ pos < Len(wire) => Byte(pos) # END
    /\ LET there == /\ pos + ITEM_BYTE <= Len(wire)
                    /\ pos + ITEM_BYTE + Byte(pos + 1) <= Len(wire)
       IN IF there
          THEN /\ chunk' = [chunk EXCEPT !.items = Append(@,
                               [id |-> Byte(pos),
                                value |-> SubSeq(wire, pos + ITEM_BYTE + 1,
                                                 pos + ITEM_BYTE + Byte(pos + 1))])]
               /\ pos' = pos + ITEM_BYTE + Byte(pos + 1)
               /\ UNCHANGED pc
          ELSE /\ pc' = "read"
               /\ UNCHANGED <<chunk, pos>>
    /\ UNCHANGED <<guests, heads, bytes, wire, rheads>>

\* Mutant of ChunkOver: the word after an END that filled its own is skipped.
ChunkOverAlways(after, pad) == after + pad

ChunkOver(after, pad) == IF after % 4 # 0 THEN after + pad ELSE after

\* The END: what is left of its word is skipped, unless the END filled it.
SdesEnd ==
    /\ pc = "item"
    /\ pos < Len(wire)
    /\ Byte(pos) = END
    /\ LET after == pos + 1
           pad == 4 - ((after - chunk.start) % 4)
       IN /\ pos' = ChunkOver(after, pad)
          /\ rheads' = Append(rheads, Packet(SDES, 0, HEAD_BYTE + pad + after - chunk.start,
                                             chunk.ssrc, chunk.items))
    /\ pc' = "scan"
    /\ UNCHANGED <<guests, heads, bytes, wire, chunk>>

\* buffer_skip, which does not go to the very end of a full buffer.
Skipped(p, step) == IF p + step >= Len(wire) THEN p ELSE p + step

\* rtcp_unpack_app and rtcp_new_app: the data stay in the buffer.
ScanApp ==
    /\ pc = "scan" /\ MoreToScan /\ HeadThere
    /\ HeadType(pos) = APP
    /\ LET data == pos + HEAD_BYTE + SSRC_BYTE + NAME_BYTE
           padding == HeadPadding(pos)
           dlen == 4 * HeadLength(pos) - 8
           last == Skipped(data, dlen - 1)
           npad == IF padding = 1 THEN Byte(last) ELSE 0
           kept == dlen - npad
           bad == padding = 1 /\ npad \notin 1..3
       IN /\ pos' = IF bad THEN Skipped(last + 1, dlen)
                    ELSE IF padding = 1 THEN last + 1 ELSE Skipped(data, dlen)
          /\ rheads' = IF bad
                       THEN rheads
                       ELSE Append(rheads,
                                Packet(APP, IF kept % 4 = 0 THEN 0 ELSE 1,
                                       HEAD_BYTE + SSRC_BYTE + NAME_BYTE + kept
                                           + ((4 - (kept % 4)) % 4),
                                       Word32(pos + HEAD_BYTE), SubSeq(wire, data + 1, data + kept)))
    /\ UNCHANGED <<pc, guests, heads, bytes, wire, chunk>>

\* Mutant of UnknownOver: the length is taken to count the head.
UnknownOverShort(p) == p + 4 * HeadLength(p)

UnknownOver(p) == p + 4 * (HeadLength(p) + 1)

\* Any other type; a session sends no BYE.
ScanUnknown ==
    /\ pc = "scan" /\ MoreToScan /\ HeadThere
    /\ HeadType(pos) \notin {SDES, APP}
    /\ pos' = UnknownOver(pos)
    /\ UNCHANGED <<pc, guests, heads, bytes, wire, rheads, chunk>>

\* The loop ends, or rtcp_unpack returns XRTP_EFORMAT, which rtcp_in ignores.
ScanOver ==
    /\ pc = "scan"
    /\ ~MoreToScan \/ ~HeadThere
    /\ pc' = "read"
    /\ UNCHANGED <<guests, heads, bytes, wire, rheads, pos, chunk>>

\* rtcp_compound_done on both sides, and the next round.
Done ==
    /\ pc = "read"
    /\ pc' = "new"
    /\ guests' \in GuestCounts
    /\ heads' = <<>> /\ bytes' = 0 /\ wire' = <<>>
    /\ rheads' = <<>> /\ pos' = 0
    /\ chunk' = [start |-> 0, ssrc |-> 0, items |-> <<>>]

Build ==
    \/ ReceiverReportNew \/ SenderReportNew \/ SetSenderInfo
    \/ \E len \in CnameLens : AddSdes(len)
    \/ NoCname \/ EndSdes \/ AddReport
    \/ \E len \in AppLens, ts \in Stamps : NewApp(len, ts)
    \/ NoApp \/ Pack

Read == UnpackFirst \/ ScanSdes \/ SdesItem \/ SdesEnd \/ ScanApp \/ ScanUnknown \/ ScanOver

Next == Build \/ Read \/ Done

Spec == Init /\ [][Next]_vars

\* A call of rtcp_unpack goes on.
FairSpec == Spec /\ WF_vars(Read)

-----------------------------------------------------------------------------
(* The lookups of rtcp_in                                                  *)

rtcp_sender(hs) == hs[1].ssrc
rtcp_sender_info(hs) == hs[1].info

\* The value of the item in the first SDES, <<>> when there is none.
rtcp_sdes(hs, ssrc, id) ==
    LET k == SelectInSeq(hs, LAMBDA p : p.type = SDES)
        j == IF k = 0 \/ hs[k].ssrc # ssrc THEN 0
             ELSE SelectInSeq(hs[k].body, LAMBDA it : it.id = id)
    IN IF j = 0 THEN <<>> ELSE hs[k].body[j].value

\* The report on ssrc; the last one when none is on it; none when there is no
\* report.
rtcp_report(hs, ssrc) ==
    LET reports == hs[1].body
        k == SelectInSeq(reports, LAMBDA r : r.src = ssrc)
    IN IF reports = <<>> THEN <<>> ELSE <<reports[IF k = 0 THEN Len(reports) ELSE k]>>

\* The data of the first APP, <<>> when there is none; names are not told apart.
rtcp_app(hs) ==
    LET k == SelectInSeq(hs, LAMBDA p : p.type = APP)
    IN IF k = 0 THEN <<>> ELSE hs[k].body

-----------------------------------------------------------------------------
(* Properties                                                              *)

Report == [src : Nat, frac : Nat, lost : Nat, rest : Seq(Nat)]
Item == [id : Nat, value : Seq(Nat)]
BodiesOf(type) ==
    IF type \in {SR, RR} THEN Seq(Report) ELSE IF type = SDES THEN Seq(Item) ELSE Seq(0..255)

\* The packets of a type.
PacketsOf(type) ==
    [type : {type}, padding : {0, 1}, bytes : Nat, ssrc : Nat, info : Seq(Nat),
     body : BodiesOf(type), padlen : 0..4]

\* Types; the reader has packets of the same kinds as the sender, and only
\* the first packet has reports.
TypeOK ==
    /\ pc \in {"new", "info", "cname", "end", "reports", "pack", "sent", "scan", "item", "read"}
    /\ \A hs \in {heads, rheads} : \A i \in DOMAIN hs :
          /\ hs[i] \in PacketsOf(hs[i].type)
          /\ hs[i].type \in IF i = 1 THEN {SR, RR} ELSE {SDES, APP}
    /\ guests \in GuestCounts
    /\ bytes \in Nat
    /\ wire \in Seq(0..255)
    /\ pos \in Nat
    /\ chunk \in [start : Nat, ssrc : Nat, items : Seq(Item)]

\* Where the i-th packet begins, by the bytes counted while it was built.
Offset(i) == FoldLeft(LAMBDA n, p : n + p.bytes, 0, SubSeq(heads, 1, i - 1))

\* Every packet of the compound is a whole number of words, which is all that
\* the length in its head can say: the chunk of a SDES because it is ended,
\* an APP because its data are padded.
WholeWords ==
    pc \in {"pack", "sent", "scan", "item", "read"} =>
        \A i \in DOMAIN heads : heads[i].bytes % 4 = 0

\* What rtcp_pack writes fills the buffer it made, no field having been
\* refused, and the lengths in the heads lead from each packet to the next
\* one and from the last to the end: three counts made by different functions
\* (bytes while building, the fields when packing, rtcp_length) agree.
PackedWhole ==
    pc = "sent" =>
        /\ wire = FlattenSeq(FlattenSeq([i \in DOMAIN heads |-> PacketFields(heads[i])]))
        /\ Len(wire) = bytes
        /\ Len(wire) = Offset(Len(heads) + 1)
        /\ \A i \in DOMAIN heads :
              /\ HeadType(Offset(i)) = heads[i].type
              /\ Offset(i) + 4 * (HeadLength(Offset(i)) + 1) = Offset(i + 1)

\* rtcp_unpack looks for a head where a packet begins, until it has all the
\* packets of the compound: no padding is taken for a head and no head skipped.
ScanOnHeads ==
    pc = "scan" =>
        Len(rheads) = Len(heads) \/ pos = Offset(Len(rheads) + 1)

\* A report without the bits rtcp_unpack masks off.
Kept(r) == [r EXCEPT !.frac = @ % 16, !.lost = @ % 4096]

\* The other side finds what was said: the sender and its info, its cname, the
\* report on each guest as far as its losses fit, the data of the APP.
ReadAsSent ==
    pc = "read" =>
        /\ rtcp_sender(rheads) = rtcp_sender(heads)
        /\ rtcp_sender_info(rheads) = rtcp_sender_info(heads)
        /\ rtcp_sdes(rheads, OwnSsrc, CNAME) = rtcp_sdes(heads, OwnSsrc, CNAME)
        /\ \A i \in DOMAIN heads[1].body :
              rtcp_report(rheads, GuestSsrc(i)) = <<Kept(ReportOf(i))>>
        /\ rtcp_app(rheads) = rtcp_app(heads)

\* Reading ends, whatever the data of an APP look like when they are scanned.
ReadingEnds == (pc = "sent") ~> (pc = "read")

=============================================================================
