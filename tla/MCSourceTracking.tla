-------------------------- MODULE MCSourceTracking --------------------------
(***************************************************************************)
(* A small instance of SourceTracking.  Numbers wrap at 9 and the source   *)
(* goes as far as 20; the window keeps MaxGap + MaxLag + 1 below           *)
(* MAX_DROPOUT and MaxLag below MAX_MISORDER, as 3000 and 100 are meant to. *)
(***************************************************************************)
EXTENDS SourceTracking

=============================================================================
