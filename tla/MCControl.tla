----------------------------- MODULE MCControl -----------------------------
(* Instances of Control for TLC.                                           *)
EXTENDS Control

CONSTANTS c1, c2

TwoClients == {c1, c2}

Opt(n)    == [name |-> n, arg |-> None]
OptN(n, i) == [name |-> n, arg |-> i]

SomeScripts ==
  {<<Opt("quit")>>, <<Opt("restart"), Opt("cmd")>>, <<OptN("left", -1), Opt("status")>>,
   <<Opt("help")>>}
SomeStrays ==
  {<<Plain("other"), Plain("q")>>,
   <<Header, Plain("!"), [code |-> "r", arg |-> 3], [code |-> "r", arg |-> -1]>>}
SomeKeys == {Plain(k) : k \in {"ESC", "p", "P", "R", "r", "S", "K", "o"}}
OtherLine == Plain("other")
SomeSettings ==
  {[left |-> 3, right |-> 3, pause |-> None], [left |-> 1, right |-> -1, pause |-> None]}
=============================================================================
