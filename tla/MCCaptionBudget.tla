---------------------------- MODULE MCCaptionBudget ----------------------------
(* Two processes, two cameras, a window of two ticks and a replay window of    *)
(* four: the clock range covers a whole replay window and its expiry, and      *)
(* LIMIT * (RETENTION / HOUR) < MAX_RECORDS as 12 * 24 < 300 in the code.      *)
EXTENDS CaptionBudget, TLC

MCTimes == 1..6
MCSymmetry == Permutations(Jobs)
===============================================================================
