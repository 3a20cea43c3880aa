---------------------------- MODULE MCTermination ----------------------------
(* Small instances of Termination for TLC. *)
EXTENDS Termination

CONSTANTS idle, t1, t2, t3

OneUser    == {idle, t1}
TwoUsers   == {idle, t1, t2}
ThreeUsers == {idle, t1, t2, t3}
=============================================================================
