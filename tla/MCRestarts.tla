----------------------------- MODULE MCRestarts -----------------------------
(* Instances of Restarts for TLC.                                          *)
EXTENDS Restarts

CONSTANTS d1, d2, p1

(* Two disks in one directory.                                             *)
TwoDisks == {d1, d2}
Siblings == [d \in TwoDisks |-> IF d = d1 THEN <<"test", "disk1">> ELSE <<"test", "disk2">>]

(* Only the current directory is there, or one of the disks' as well.      *)
NoneOrOne == {{<<>>}, {<<>>, <<"test">>, <<"test", "disk2">>}}

Creating == {TwoDisks, {d1}}
=============================================================================
