---------------------------- MODULE MCRelocation ----------------------------
(* Instances of Relocation for TLC.                                        *)
EXTENDS Relocation

CONSTANTS w1, w2, main

OneWorker  == {w1}
TwoWorkers == {w1, w2}
=============================================================================
