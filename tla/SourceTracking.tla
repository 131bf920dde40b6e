--------------------------- MODULE SourceTracking ---------------------------
(***************************************************************************)
(* One remote source, the network in front of it and the tracker a session *)
(* keeps of it.  The source numbers its packets 0, 1, 2, ...: the extended *)
(* numbers that never wrap.  The network loses, duplicates and reorders    *)
(* within a window; a source that restarts jumps further than that.        *)
(* The tracker sees only the 16-bit remainder of each number.              *)
(***************************************************************************)
EXTENDS SeqnoTracker

CONSTANTS
    FirstExt,   \* extended numbers the source may begin with
    MaxExt,     \* bound: the last number the source reaches
    MaxGap,     \* the network loses fewer than MaxGap packets in a row
    MaxLag,     \* and delivers a packet at most MaxLag numbers late
    Jumps,      \* how far ahead a restart moves the source; {}: none
    MaxReceived,\* bound: packets accepted since one session_init_seqno
    ReportBound \* bound: packets a report may already have covered when the next is made

ASSUME SourceAssumption ==
    /\ FirstExt \subseteq Nat
    /\ MaxExt \in Nat /\ MaxGap \in Nat /\ MaxLag \in Nat
    /\ Jumps \subseteq Nat
    /\ MaxReceived \in Nat /\ ReportBound \in Nat

\* The count of expected packets stays below the width of the report.
ASSUME WidthAssumption == SEQ_MOD + MAX_DROPOUT * (MaxReceived + 1) < REPORT_MOD

(***************************************************************************)
(* What MAX_DROPOUT and MAX_MISORDER are chosen for: a packet the network  *)
(* delivers within its window is neither a dropout nor too late.           *)
(***************************************************************************)
ASSUME WindowAssumption ==
    /\ MaxGap + MaxLag + 1 < MAX_DROPOUT
    /\ MaxLag < MAX_MISORDER

VARIABLES
    first,     \* extended number of the source's first packet
    top,       \* highest extended number delivered or skipped by a restart
    last,      \* extended number of the packet delivered last
    run,       \* deliveries in a row that carried consecutive numbers
    base_ext,  \* extended number of the packet that set base_seq
    newest,    \* extended number max_seq stands for
    steady     \* the source has not restarted since its base was set

sourceVars == <<first, top, last, run, base_ext, newest, steady>>
vars == <<trackerVars, sourceVars>>

Seq16(n) == n % SEQ_MOD

Init ==
    /\ TrackerInit
    /\ first \in FirstExt
    /\ top = first
    /\ last = first
    /\ run = 0
    /\ base_ext = 0
    /\ newest = 0
    /\ steady = TRUE

\* The packets the network may deliver now: none older than the first one.
Window == {n \in first .. MaxExt : n + MaxLag >= top /\ n <= top + MaxGap}

NetworkDelivers(n) ==
    /\ n \in Window
    /\ top' = IF n > top THEN n ELSE top
    /\ last' = n
    /\ run' = IF run > 0 /\ Seq16(n) = SeqNext(Seq16(last))
                THEN IF run < MIN_SEQUENTIAL THEN run + 1 ELSE run
                ELSE 1
    /\ UNCHANGED first

Rebased(n) == base_ext' = n /\ newest' = n /\ steady' = TRUE

(***************************************************************************)
(* session_update_seqno for a packet of this source, on each outcome.      *)
(***************************************************************************)
SourceValidated(n) == ProbationOver(Seq16(n)) /\ Rebased(n) /\ NetworkDelivers(n)

PacketInOrder(n) ==
    /\ n_rtp_received < MaxReceived
    /\ InOrder(Seq16(n))
    /\ newest' = n
    /\ UNCHANGED <<base_ext, steady>>
    /\ NetworkDelivers(n)

SourceResynced(n) == JumpConfirmed(Seq16(n)) /\ Rebased(n) /\ NetworkDelivers(n)

PacketRefused(n) ==
    /\ Refused(Seq16(n))
    /\ UNCHANGED <<base_ext, newest, steady>>
    /\ NetworkDelivers(n)

SourceRestarts ==
    /\ \E j \in Jumps : top' = top + j
    /\ top' <= MaxExt
    /\ steady' = FALSE
    /\ UNCHANGED <<trackerVars, first, last, run, base_ext, newest>>

Report ==
    /\ probation = 0
    /\ received_prior < ReportBound
    /\ MakeReport
    /\ UNCHANGED sourceVars

Next ==
    \/ \E n \in first .. MaxExt :
          SourceValidated(n) \/ PacketInOrder(n) \/ SourceResynced(n) \/ PacketRefused(n)
    \/ SourceRestarts
    \/ Report

Spec == Init /\ [][Next]_vars

-----------------------------------------------------------------------------
TypeOK ==
    /\ probation \in 0 .. MIN_SEQUENTIAL
    /\ max_seq \in Seqno /\ base_seq \in Seqno
    /\ bad_seq \in Seqno \union {NO_BAD_SEQ}
    /\ cycles \in Nat /\ n_rtp_received \in Nat /\ received_prior \in Nat
    /\ expected_prior \in 0 .. REPORT_MOD - 1
    /\ total_lost \in 0 .. REPORT_MOD - 1

(***************************************************************************)
(* "Sequence number wrapped - count another 64K cycle": cycles counts      *)
(* exactly the wraps of the extended number between the packet that set    *)
(* base_seq and the newest one, whatever the network does within its       *)
(* window: packets late around a wrap never count one twice nor lose one.  *)
(* It holds for every base until the source restarts, those a restart led  *)
(* to included, except packet number 0: InitSeqno then leaves max_seq at   *)
(* SEQ_MOD - 1, and the next packet looks like a wrap.                     *)
(***************************************************************************)
WrapsCounted ==
    probation = 0 /\ steady /\ Seq16(base_ext) # 0 /\ newest >= base_ext
        => cycles = newest \div SEQ_MOD - base_ext \div SEQ_MOD

(***************************************************************************)
(* "Source is not valid until MIN_SEQUENTIAL packets with sequential       *)
(* sequence numbers have been received": the step that ends the probation  *)
(* is the last of that many deliveries in a row, whatever was delivered,   *)
(* lost or repeated before them.                                           *)
(***************************************************************************)
ValidAfterSequentialRun ==
    [][probation > 0 /\ probation' = 0 => run' = MIN_SEQUENTIAL]_vars

(***************************************************************************)
(* The extended number a report carries never goes back while the source   *)
(* keeps its base, through duplicates, late packets and jumps.             *)
(***************************************************************************)
ExseqnoNeverGoesBack ==
    [][probation = 0 /\ base_ext' = base_ext => MaxExseqno' >= MaxExseqno]_vars

(***************************************************************************)
(* The two counters a report subtracts from never fall behind what the     *)
(* report before it recorded, a re-base between the two included: neither  *)
(* interval underflows.                                                    *)
(***************************************************************************)
IntervalsNotNegative ==
    probation = 0 => received_prior <= n_rtp_received /\ expected_prior <= Expected

=============================================================================
