----------------------------- MODULE ByteStream -----------------------------
(***************************************************************************)
(* What one direction of a character device promises: a bounded channel    *)
(* that delivers each character once, in the order it was put in.  The     *)
(* k-th character put in is k.                                             *)
(***************************************************************************)
EXTENDS Naturals, Sequences

CONSTANT Capacity   \* the most characters that can be under way

VARIABLES
  put,      \* how many characters have been put in
  pending,  \* those under way, oldest first
  got       \* those delivered

streamVars == <<put, pending, got>>

Init == put = 0 /\ pending = <<>> /\ got = <<>>

Put ==
  /\ Len(pending) < Capacity
  /\ put' = put + 1
  /\ pending' = Append(pending, put + 1)
  /\ got' = got

Get ==
  /\ pending # <<>>
  /\ got' = Append(got, Head(pending))
  /\ pending' = Tail(pending)
  /\ put' = put

Next == Put \/ Get

Spec == Init /\ [][Next]_streamVars
=============================================================================
