-------------------------------- MODULE MCIpc --------------------------------
(* Small instances of Ipc for TLC. *)
EXTENDS Ipc

CONSTANTS idle, t1, t2

OneUser  == {idle, t1}
TwoUsers == {idle, t1, t2}
=============================================================================
