------------------------------- MODULE MCPort -------------------------------
(* A small instance of Port for TLC. *)
EXTENDS Port

CONSTANTS idle, t1, t2

TwoUsers == {idle, t1, t2}
=============================================================================
