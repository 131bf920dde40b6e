---------------------------- MODULE SeqnoTracker ----------------------------
(***************************************************************************)
(* The sequence-number state a session keeps for one member (struct        *)
(* member_state_s of libxrtp/session.h) and what session_init_seqno,       *)
(* session_update_seqno and session_member_make_report of                  *)
(* libxrtp/session.c do to it.  session_update_seqno is a chain of         *)
(* branches; each branch is an action below, parameterised by the 16-bit   *)
(* number of the packet.  A module that models a caller conjoins Valid(s)  *)
(* or Refused(s), the two values the function returns.                     *)
(***************************************************************************)
EXTENDS Naturals

CONSTANTS
    SEQ_MOD,         \* RTP_SEQ_MOD: 2^16 in the code, small in a run
    MAX_DROPOUT,     \* 3000 in the code
    MAX_MISORDER,    \* 100 in the code
    MIN_SEQUENTIAL,  \* packets in sequence before a source counts
    REPORT_MOD       \* 2^32 in the code: the width of the loss arithmetic

ASSUME SeqAssumption ==
    /\ {SEQ_MOD, MAX_DROPOUT, MAX_MISORDER, MIN_SEQUENTIAL, REPORT_MOD} \subseteq Nat \ {0}
    /\ MIN_SEQUENTIAL > 1
    /\ MAX_DROPOUT + MAX_MISORDER <= SEQ_MOD

VARIABLES
    probation,        \* packets still to come in sequence, 0: the source is valid
    max_seq,          \* uint16: highest number seen
    base_seq,         \* number the count of expected packets starts from
    bad_seq,          \* number that would confirm a jump; SEQ_MOD + 1: none
    cycles,           \* wraps of max_seq
    n_rtp_received,   \* packets accepted since the last session_init_seqno
    received_prior,   \* n_rtp_received_prior of the last report
    expected_prior,   \* n_rtp_expected_prior of the last report
    total_lost,       \* what the last report said was lost in its interval
    in_senders        \* entries of the member in the list session->senders

trackerVars == <<probation, max_seq, base_seq, bad_seq, cycles, n_rtp_received,
                 received_prior, expected_prior, total_lost, in_senders>>

Seqno == 0 .. SEQ_MOD - 1

NO_BAD_SEQ == SEQ_MOD + 1

\* Mutant of SeqNext: the number after the last one is not masked.
SeqNextUnmasked(s) == s + 1

\* uint16 arithmetic: successor, predecessor, and udelta = seq - max_seq.
SeqNext(s) == (s + 1) % SEQ_MOD
SeqPrev(s) == (s + SEQ_MOD - 1) % SEQ_MOD
Udelta(s) == (s + SEQ_MOD - max_seq) % SEQ_MOD

(***************************************************************************)
(* A member is created or reset by memset to zero followed by              *)
(* probation = MIN_SEQUENTIAL.  A reset takes no entry out of a list.      *)
(***************************************************************************)
TrackerInit ==
    /\ probation = MIN_SEQUENTIAL
    /\ max_seq = 0
    /\ base_seq = 0
    /\ bad_seq = 0
    /\ cycles = 0
    /\ n_rtp_received = 0
    /\ received_prior = 0
    /\ expected_prior = 0
    /\ total_lost = 0
    /\ in_senders = 0

TrackerReset ==
    /\ probation' = MIN_SEQUENTIAL
    /\ max_seq' = 0
    /\ base_seq' = 0
    /\ bad_seq' = 0
    /\ cycles' = 0
    /\ n_rtp_received' = 0
    /\ received_prior' = 0
    /\ expected_prior' = 0
    /\ total_lost' = 0
    /\ UNCHANGED in_senders

-----------------------------------------------------------------------------
\* Mutant of InitSeqno: a re-base keeps what the last report subtracted.
InitSeqnoKeepsPriors(s) ==
    /\ base_seq' = s
    /\ max_seq' = SeqPrev(s)
    /\ bad_seq' = NO_BAD_SEQ
    /\ cycles' = 0
    /\ n_rtp_received' = 1
    /\ UNCHANGED <<received_prior, expected_prior, total_lost>>

(***************************************************************************)
(* session_init_seqno leaves max_seq one below s, and counts from zero; the *)
(* caller then adds the packet itself to n_rtp_received.                    *)
(***************************************************************************)
InitSeqno(s) ==
    /\ base_seq' = s
    /\ max_seq' = SeqPrev(s)
    /\ bad_seq' = NO_BAD_SEQ
    /\ cycles' = 0
    /\ n_rtp_received' = 1
    /\ received_prior' = 0
    /\ expected_prior' = 0
    /\ UNCHANGED total_lost

(***************************************************************************)
(* seq == max_seq + 1 is evaluated in int: 0 never follows SEQ_MOD - 1 here. *)
(***************************************************************************)
InSequence(s) == s = max_seq + 1

ProbationStep(s) ==
    /\ probation > 1
    /\ InSequence(s)
    /\ probation' = probation - 1
    /\ max_seq' = s
    /\ UNCHANGED <<base_seq, bad_seq, cycles, n_rtp_received, received_prior,
                   expected_prior, total_lost, in_senders>>

\* Mutant of ProbationRestart: a gap does not start the count again.
ProbationKeepsCount(s) ==
    /\ probation > 0
    /\ ~InSequence(s)
    /\ max_seq' = s
    /\ UNCHANGED <<probation, base_seq, bad_seq, cycles, n_rtp_received, received_prior,
                   expected_prior, total_lost, in_senders>>

ProbationRestart(s) ==
    /\ probation > 0
    /\ ~InSequence(s)
    /\ probation' = MIN_SEQUENTIAL - 1
    /\ max_seq' = s
    /\ UNCHANGED <<base_seq, bad_seq, cycles, n_rtp_received, received_prior,
                   expected_prior, total_lost, in_senders>>

ProbationOver(s) ==
    /\ probation = 1
    /\ InSequence(s)
    /\ probation' = 0
    /\ InitSeqno(s)
    /\ in_senders' = in_senders + 1

\* Mutants of Wraps: a repeated packet is a wrap; no packet is.
WrapsOnRepeat(s) == s <= max_seq
WrapsNever(s) == FALSE

Wraps(s) == s < max_seq

InOrder(s) ==
    /\ probation = 0
    /\ Udelta(s) < MAX_DROPOUT
    /\ cycles' = IF Wraps(s) THEN cycles + 1 ELSE cycles
    /\ max_seq' = s
    /\ n_rtp_received' = n_rtp_received + 1
    /\ UNCHANGED <<probation, base_seq, bad_seq, received_prior, expected_prior, total_lost, in_senders>>

LargeJump(s) ==
    /\ probation = 0
    /\ Udelta(s) >= MAX_DROPOUT
    /\ Udelta(s) <= SEQ_MOD - MAX_MISORDER

JumpConfirmed(s) ==
    /\ LargeJump(s)
    /\ s = bad_seq
    /\ InitSeqno(s)
    /\ UNCHANGED <<probation, in_senders>>

JumpSuspected(s) ==
    /\ LargeJump(s)
    /\ s # bad_seq
    /\ bad_seq' = SeqNext(s)
    /\ UNCHANGED <<probation, max_seq, base_seq, cycles, n_rtp_received, received_prior,
                   expected_prior, total_lost, in_senders>>

Misordered(s) ==
    /\ probation = 0
    /\ Udelta(s) > SEQ_MOD - MAX_MISORDER
    /\ UNCHANGED trackerVars

Valid(s) == ProbationOver(s) \/ InOrder(s) \/ JumpConfirmed(s)

Refused(s) == ProbationStep(s) \/ ProbationRestart(s) \/ JumpSuspected(s) \/ Misordered(s)

-----------------------------------------------------------------------------
MaxExseqno == max_seq + SEQ_MOD * cycles

\* uint32 subtraction
Minus(a, b) == (a + REPORT_MOD - b) % REPORT_MOD

Expected == (MaxExseqno + 1 + REPORT_MOD - base_seq) % REPORT_MOD

(***************************************************************************)
(* session_member_make_report: both prior counters move to the present and *)
(* the difference of the two intervals is the loss, all of it in uint32.   *)
(***************************************************************************)
MakeReport ==
    /\ total_lost' = Minus(Minus(Expected, expected_prior), Minus(n_rtp_received, received_prior))
    /\ expected_prior' = Expected
    /\ received_prior' = n_rtp_received
    /\ UNCHANGED <<probation, max_seq, base_seq, bad_seq, cycles, n_rtp_received, in_senders>>

=============================================================================
