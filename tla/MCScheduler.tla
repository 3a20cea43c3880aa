----------------------------- MODULE MCScheduler -----------------------------
(* Small instances of Scheduler for TLC. *)
EXTENDS Scheduler, TLC

CONSTANTS idle, t1, t2, t3

TwoUsers   == {idle, t1, t2}
ThreeUsers == {idle, t1, t2, t3}

(* Tasks that may only delay are interchangeable. *)
Interchangeable == Permutations({t1, t2, t3} \cap (Task \ Managers))
=============================================================================
