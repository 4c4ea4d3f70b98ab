----------------------------- MODULE MCTimeOfDay -----------------------------
(***************************************************************************)
(* Instance of TimeOfDay for TLC: times are set until after the tick at    *)
(* which the microseconds of the tick count no longer fit in a word.       *)
(***************************************************************************)
EXTENDS TimeOfDay

MCTimes == [tv_sec : {0, 1, 4}, tv_usec : 0 .. US - 1]
=============================================================================
