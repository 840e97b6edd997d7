----------------------------- MODULE MCOtpLogin ------------------------------
(* OtpLogin on small instances: one subscriber who types the number in two *)
(* forms, and something that is not a mobile number.                       *)
EXTENDS OtpLogin, TLC

CONSTANT p1

Typed == {[shape |-> s, subscriber |-> p1] : s \in {"local", "country", "other"}}

WorkerSymmetry == Permutations(Workers)
==============================================================================
