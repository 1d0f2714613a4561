------------------------------- MODULE Service -------------------------------
(***************************************************************************)
(* The service layer: source/service.c.  A service is a heap context       *)
(* (lock, command, status) shared by the caller that opens and closes it   *)
(* and by one detached thread that runs the handler.  Nothing is joined:   *)
(* the two sides meet only through command and status, and the caller      *)
(* frees the context as soon as it polls a status other than start.        *)
(*                                                                         *)
(* Each critical section on m_lock is one action; what the code does       *)
(* between two of them touches no shared word of the context.  The handler *)
(* (access service, disk service) is open: it acknowledges or returns      *)
(* whenever the API lets it.  workload_error_service, which nothing calls, *)
(* is left out, and with it the status error.                              *)
(***************************************************************************)
CONSTANT Services    \* one per open_service call site instance

Commands == {"start", "ack", "stop"}
Statuses == {"ready", "start", "stop"}

VARIABLES
  ctx,       \* is the context of each service allocated?
  command,   \* m_command
  status,    \* m_status
  caller,    \* where the opening and closing thread is
  thread     \* where the detached service thread is

vars == <<ctx, command, status, caller, thread>>

CallerStates == {"idle", "polling", "giving_up", "open", "closing"}
ThreadStates == {"none", "created", "handler", "serving", "returned"}

(* The next step of the thread locks m_lock of the context.                *)
ThreadUsesContext(s) == thread[s] # "none"

Init ==
  /\ ctx     = [s \in Services |-> FALSE]
  /\ command = [s \in Services |-> "start"]
  /\ status  = [s \in Services |-> "ready"]
  /\ caller  = [s \in Services |-> "idle"]
  /\ thread  = [s \in Services |-> "none"]

-----------------------------------------------------------------------------
(* The caller.                                                             *)

(* Context allocated and filled in, thread created or not: without one the *)
(* code goes straight to workload_close_service.  (When malloc fails       *)
(* nothing changes and the caller stays idle.)                             *)
OpenService(s) ==
  /\ caller[s] = "idle"
  /\ ctx'     = [ctx EXCEPT ![s] = TRUE]
  /\ command' = [command EXCEPT ![s] = "start"]
  /\ status'  = [status EXCEPT ![s] = "ready"]
  /\ \/ /\ thread' = [thread EXCEPT ![s] = "created"]
        /\ caller' = [caller EXCEPT ![s] = "polling"]
     \/ /\ caller' = [caller EXCEPT ![s] = "giving_up"]
        /\ UNCHANGED thread

(* Mutant: any status counts as success once the thread has answered.      *)
PollOpened_IgnoresStatus(s) ==
  /\ caller[s] = "polling"
  /\ command[s] = "ack"
  /\ status[s] # "ready"
  /\ caller' = [caller EXCEPT ![s] = "open"]
  /\ UNCHANGED <<ctx, command, status, thread>>

(* One turn of the wait loop: the thread must have written ack; then start *)
(* is success, ready means wait, anything else is an error.                *)
PollOpened(s) ==
  /\ caller[s] = "polling"
  /\ command[s] = "ack"
  /\ status[s] # "ready"
  /\ caller' = [caller EXCEPT ![s] = IF status[s] = "start" THEN "open" ELSE "giving_up"]
  /\ UNCHANGED <<ctx, command, status, thread>>

CloseService(s) ==
  /\ caller[s] = "open"
  /\ caller' = [caller EXCEPT ![s] = "closing"]
  /\ UNCHANGED <<ctx, command, status, thread>>

(* Mutant: the second turn of the close loop frees without waiting.        *)
PollClosed_FreesAtOnce(s) ==
  /\ caller[s] \in {"closing", "giving_up"}
  /\ IF status[s] = "start" /\ command[s] # "stop"
     THEN /\ command' = [command EXCEPT ![s] = "stop"]
          /\ UNCHANGED <<ctx, caller>>
     ELSE /\ ctx'    = [ctx EXCEPT ![s] = FALSE]
          /\ caller' = [caller EXCEPT ![s] = "idle"]
          /\ UNCHANGED command
  /\ UNCHANGED <<status, thread>>

(* One turn of the close loop: a started service is told to stop (again),  *)
(* any other status frees the context.                                     *)
PollClosed(s) ==
  /\ caller[s] \in {"closing", "giving_up"}
  /\ IF status[s] = "start"
     THEN /\ command' = [command EXCEPT ![s] = "stop"]
          /\ UNCHANGED <<ctx, caller>>
     ELSE /\ ctx'    = [ctx EXCEPT ![s] = FALSE]
          /\ caller' = [caller EXCEPT ![s] = "idle"]
          /\ UNCHANGED command
  /\ UNCHANGED <<status, thread>>

-----------------------------------------------------------------------------
(* The service thread.                                                     *)

(* Mutant: the thread runs the handler without writing ack first.          *)
ThreadStarts_NoAck(s) ==
  /\ thread[s] = "created"
  /\ thread' = [thread EXCEPT ![s] = "handler"]
  /\ UNCHANGED <<ctx, command, status, caller>>

ThreadStarts(s) ==
  /\ thread[s] = "created"
  /\ command' = [command EXCEPT ![s] = "ack"]
  /\ thread'  = [thread EXCEPT ![s] = "handler"]
  /\ UNCHANGED <<ctx, status, caller>>

(* Mutant: ack_service stores the command's word in m_status.              *)
AckService_WrongWord(s) ==
  /\ thread[s] = "handler"
  /\ status' = [status EXCEPT ![s] = "ack"]
  /\ thread' = [thread EXCEPT ![s] = "serving"]
  /\ UNCHANGED <<ctx, command, caller>>

(* workload_ack_service, called by the handler.                            *)
AckService(s) ==
  /\ thread[s] = "handler"
  /\ status' = [status EXCEPT ![s] = "start"]
  /\ thread' = [thread EXCEPT ![s] = "serving"]
  /\ UNCHANGED <<ctx, command, caller>>

(* workload_break_service is how a serving handler learns that it should   *)
(* return; it may also return on its own (the program's break flag, a disk *)
(* that cannot be prepared), even before it acknowledged.                  *)
BreakService(s) == command[s] = "stop"

HandlerReturns(s) ==
  /\ thread[s] \in {"handler", "serving"}
  /\ thread' = [thread EXCEPT ![s] = "returned"]
  /\ UNCHANGED <<ctx, command, status, caller>>

(* Mutant: a handler that returns by itself is not marked stopped.         *)
ThreadEnds_OnlyWhenTold(s) ==
  /\ thread[s] = "returned"
  /\ status' = [status EXCEPT ![s] = IF command[s] = "stop" THEN "stop" ELSE @]
  /\ thread' = [thread EXCEPT ![s] = "none"]
  /\ UNCHANGED <<ctx, command, caller>>

(* The thread's last critical section.                                     *)
ThreadEnds(s) ==
  /\ thread[s] = "returned"
  /\ status' = [status EXCEPT ![s] = "stop"]
  /\ thread' = [thread EXCEPT ![s] = "none"]
  /\ UNCHANGED <<ctx, command, caller>>

-----------------------------------------------------------------------------
CallerStep(s) ==
  \/ OpenService(s)
  \/ PollOpened(s)
  \/ CloseService(s)
  \/ PollClosed(s)

ThreadStep(s) ==
  \/ ThreadStarts(s)
  \/ AckService(s)
  \/ HandlerReturns(s)
  \/ ThreadEnds(s)

Next == \E s \in Services : CallerStep(s) \/ ThreadStep(s)

Spec == Init /\ [][Next]_vars

(* Both loops keep polling, the scheduler runs every thread, handlers      *)
(* acknowledge (their first statement) and return once told to stop.       *)
Fairness ==
  \A s \in Services :
    /\ WF_vars(PollOpened(s))
    /\ WF_vars(PollClosed(s))
    /\ WF_vars(ThreadStarts(s))
    /\ WF_vars(AckService(s))
    /\ WF_vars(BreakService(s) /\ HandlerReturns(s))
    /\ WF_vars(ThreadEnds(s))

FairSpec == Spec /\ Fairness

-----------------------------------------------------------------------------
(* Every word of the context has one of the values service.c gives it.     *)
TypeOK ==
  /\ ctx     \in [Services -> BOOLEAN]
  /\ command \in [Services -> Commands]
  /\ status  \in [Services -> Statuses]
  /\ caller  \in [Services -> CallerStates]
  /\ thread  \in [Services -> ThreadStates]

(* The context is freed by the caller's poll (service.c 301-303) without a *)
(* join: as long as the detached thread has a critical section before it,  *)
(* the context it locks must still be there.                               *)
NoUseAfterFree ==
  \A s \in Services : ThreadUsesContext(s) => ctx[s]

(* A handle in the hands of the caller (between a successful open and the  *)
(* end of close) is that of a service whose handler acknowledged: the      *)
(* caller never owns a thread that has still to start.                     *)
HandleMeansAcknowledged ==
  \A s \in Services :
    caller[s] \in {"open", "closing"} => thread[s] \notin {"created", "handler"}

(* open_service has no timeout: whatever the handler does, the wait loop   *)
(* ends with a handle or with none.                                        *)
OpenCompletes ==
  \A s \in Services : caller[s] = "polling" ~> caller[s] \in {"open", "idle"}

(* close_service(-1) waits for ever: the service must reach a status other *)
(* than start, also when the handler returned before being told to stop.   *)
CloseCompletes ==
  \A s \in Services : caller[s] = "closing" ~> caller[s] = "idle"

-----------------------------------------------------------------------------
(* The contract seen through the context: what the caller waits for is its *)
(* phase; a thread that is gone has returned, one whose status is start    *)
(* has acknowledged.                                                       *)
PhaseOf(s) ==
  CASE caller[s] = "idle"                     -> "closed"
    [] caller[s] \in {"polling", "giving_up"} -> "opening"
    [] caller[s] = "open"                     -> "open"
    [] caller[s] = "closing"                  -> "closing"

HandlerOf(s) ==
  IF ~ctx[s] THEN "idle"
  ELSE IF thread[s] = "none" THEN "returned"
  ELSE IF status[s] = "start" THEN "acknowledged" ELSE "called"

ContractPhase   == [s \in Services |-> PhaseOf(s)]
ContractHandler == [s \in Services |-> HandlerOf(s)]

Contract == INSTANCE ServiceContract
              WITH phase <- ContractPhase, handler <- ContractHandler

(* The lock-and-poll protocol of service.c implements the contract its     *)
(* callers rely on: no handle without an acknowledgement, no return from   *)
(* close while the handler can still run.                                  *)
KeepsContract == Contract!Spec
=============================================================================
