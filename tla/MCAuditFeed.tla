----------------------------- MODULE MCAuditFeed -----------------------------
(***************************************************************************)
(* Three events, one of them stored twice, on pages of two.  A second has  *)
(* ten milliseconds, and the numbers 19, 20 and 19.9 stand beside the      *)
(* threshold of 20: 19 as milliseconds is read as seconds, 20 as           *)
(* milliseconds and 19.9 as seconds only just tell.  The instant 25 is     *)
(* 2.5 seconds, which falls short by one millisecond.                      *)
(***************************************************************************)
EXTENDS AuditFeed, TLC

JobSymmetry == Permutations(Jobs)

\* Beyond Precise a cursor comes back a millisecond early.
MCMillisOf(micros) ==
  (micros \div 1000) - (IF micros < Precise * 1000 THEN 0 ELSE 1)
=============================================================================
