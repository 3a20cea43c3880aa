------------------------------ MODULE MCMutex -------------------------------
(* Small instances of Mutex for TLC. *)
EXTENDS Mutex

CONSTANTS idle, t1, t2

OneUser  == {idle, t1}
TwoUsers == {idle, t1, t2}
=============================================================================
