---------------------------- MODULE MCLifecycle ----------------------------
(* Instances of Lifecycle for TLC.                                         *)
EXTENDS Lifecycle

CONSTANTS d1, d2, a1, a2, f1, f2

TwoDisks    == {d1, d2}
FirstDisk   == {d1}
OneAccess   == {a1}
TwoAccesses == {a1, a2}
TwoFiles    == {f1, f2}
=============================================================================
