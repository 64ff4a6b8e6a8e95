---------------------------- MODULE MCBlockQueue ----------------------------
(* Instance of BlockQueue for TLC.                                         *)
EXTENDS BlockQueue

CONSTANTS t1, t2, t3, t4, x1, x2, x3
=============================================================================
