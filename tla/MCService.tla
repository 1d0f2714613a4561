------------------------------ MODULE MCService ------------------------------
(* Instances of Service for TLC.                                           *)
EXTENDS Service

CONSTANTS s1, s2, s3

ThreeServices == {s1, s2, s3}
=============================================================================
