---------------------------- MODULE MCDatabase ----------------------------
(* An instance of Database for TLC: a file is enough, since its row does   *)
(* not depend on other files; it is moved between two disks by a service.  *)
EXTENDS Database

CONSTANT s1

OneService  == {s1}
AllBackends == {"sqlite3", "mysql", None}
=============================================================================
