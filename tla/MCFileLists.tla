---------------------------- MODULE MCFileLists ----------------------------
(* Instances of FileLists for TLC.                                         *)
EXTENDS FileLists

CONSTANTS w1, w2, p1, p2, p3

OneMover  == {w1}
TwoMovers == {w1, w2}

(* Each method; too many and too few files, a disk without a path and one  *)
(* named twice.                                                            *)
AnyConfig ==
  {[option |-> o, files |-> n, method |-> m, paths |-> p] :
     o \in {-1, 0}, n \in {0, 3}, m \in {"ordered", "even", "random"},
     p \in {<<p1>>, <<p1, NoPath, p2, p1>>, <<p1, p2, p3>>}}

ThreeFiles ==
  {[option |-> 3, files |-> 0, method |-> "random", paths |-> <<p1, p2>>]}
=============================================================================
