-------------------------- MODULE ServiceContract --------------------------
(***************************************************************************)
(* What the service layer of workload promises to its callers              *)
(* (source/service.c), said without its locks, command words or polling.   *)
(* A service is closed, being opened, open or being closed; its handler is *)
(* one call of the caller's function, made in a thread of its own.         *)
(*                                                                         *)
(*   - a handle is handed out only while the handler, which acknowledged,  *)
(*     has not been seen to return;                                        *)
(*   - a service goes back to closed only once its handler has returned    *)
(*     and its thread touches nothing any more, so whatever they use may   *)
(*     be freed by then.                                                   *)
(***************************************************************************)
CONSTANT Services

Phases   == {"closed", "opening", "open", "closing"}
Handlers == {"idle", "called", "acknowledged", "returned"}

VARIABLES
  phase,     \* how the caller sees each service
  handler    \* what each service's handler is doing

vars == <<phase, handler>>

Init ==
  /\ phase   = [s \in Services |-> "closed"]
  /\ handler = [s \in Services |-> "idle"]

(* The caller asks for a service; the thread may not be created.           *)
BeginOpen(s) ==
  /\ phase[s] = "closed"
  /\ phase' = [phase EXCEPT ![s] = "opening"]
  /\ handler' \in {[handler EXCEPT ![s] = h] : h \in {"called", "returned"}}

(* The handler reports that it runs, and later it and its thread are done. *)
Acknowledge(s) ==
  /\ handler[s] = "called"
  /\ handler' = [handler EXCEPT ![s] = "acknowledged"]
  /\ UNCHANGED phase

HandlerReturns(s) ==
  /\ handler[s] \in {"called", "acknowledged"}
  /\ handler' = [handler EXCEPT ![s] = "returned"]
  /\ UNCHANGED phase

(* The caller gets its handle, or learns that there is no service.         *)
Opened(s) ==
  /\ phase[s] = "opening"
  /\ handler[s] = "acknowledged"
  /\ phase' = [phase EXCEPT ![s] = "open"]
  /\ UNCHANGED handler

BeginClose(s) ==
  /\ phase[s] = "open"
  /\ phase' = [phase EXCEPT ![s] = "closing"]
  /\ UNCHANGED handler

(* Back to closed: the open failed, or the close is complete.              *)
Released(s) ==
  /\ phase[s] \in {"opening", "closing"}
  /\ handler[s] = "returned"
  /\ phase'   = [phase EXCEPT ![s] = "closed"]
  /\ handler' = [handler EXCEPT ![s] = "idle"]

Next ==
  \E s \in Services :
    \/ BeginOpen(s)
    \/ Acknowledge(s)
    \/ HandlerReturns(s)
    \/ Opened(s)
    \/ BeginClose(s)
    \/ Released(s)

Spec == Init /\ [][Next]_vars
=============================================================================
