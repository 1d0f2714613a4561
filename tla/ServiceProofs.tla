---------------------------- MODULE ServiceProofs ----------------------------
(***************************************************************************)
(* Proofs about Service for any set of services: the types, that no freed  *)
(* context is locked, what a handle means, and that the protocol           *)
(* implements ServiceContract.                                             *)
(***************************************************************************)
EXTENDS Service, TLAPS

(* Where the caller and the thread can be together.  The caller never sees *)
(* the thread's program counter; what it polls is enough because:          *)
(*   - the context exists exactly while the caller is not idle, and the    *)
(*     thread is gone whenever the caller is;                              *)
(*   - a waiting opener faces a thread that moves through its stages with  *)
(*     status ready, then start, then stop;                                *)
(*   - a closing caller faces either a started service or a gone thread.   *)
Waiting(s) ==
  \/ thread[s] \in {"created", "handler"} /\ status[s] = "ready"
  \/ thread[s] = "serving" /\ status[s] = "start"
  \/ thread[s] = "returned" /\ status[s] \in {"ready", "start"}
  \/ thread[s] = "none" /\ status[s] = "stop"

Owned(s) ==
  \/ thread[s] \in {"serving", "returned"} /\ status[s] = "start"
  \/ thread[s] = "none" /\ status[s] = "stop"

InStep(s) ==
  /\ caller[s] = "idle" => ~ctx[s] /\ thread[s] = "none"
  /\ caller[s] # "idle" => ctx[s]
  /\ caller[s] = "polling" => Waiting(s)
  /\ caller[s] = "giving_up" => thread[s] = "none" /\ status[s] \in {"ready", "stop"}
  /\ caller[s] \in {"open", "closing"} => Owned(s)

(* The strengthening that is inductive.                                    *)
IInv == TypeOK /\ \A s \in Services : InStep(s)

-----------------------------------------------------------------------------
(* Every context, command, status, caller and thread keeps its type.       *)
THEOREM TypeCorrect == Spec => []TypeOK
<1>1. Init => TypeOK
  BY DEF Init, TypeOK, Commands, Statuses, CallerStates, ThreadStates
<1>2. TypeOK /\ [Next]_vars => TypeOK'
  <2> SUFFICES ASSUME TypeOK, [Next]_vars PROVE TypeOK'
    OBVIOUS
  <2> USE DEF TypeOK, Commands, Statuses, CallerStates, ThreadStates
  <2>1. ASSUME NEW s \in Services, CallerStep(s) PROVE TypeOK'
    BY <2>1 DEF CallerStep, OpenService, PollOpened, CloseService, PollClosed
  <2>2. ASSUME NEW s \in Services, ThreadStep(s) PROVE TypeOK'
    BY <2>2 DEF ThreadStep, ThreadStarts, AckService, HandlerReturns, ThreadEnds
  <2>3. CASE UNCHANGED vars
    BY <2>3 DEF vars
  <2> QED
    BY <2>1, <2>2, <2>3 DEF Next
<1> QED
  BY <1>1, <1>2, PTL DEF Spec

(* A step of one service leaves the others where they are.                 *)
LEMMA OthersUntouched ==
  ASSUME TypeOK, NEW s \in Services, CallerStep(s) \/ ThreadStep(s),
         NEW r \in Services, r # s, InStep(r)
  PROVE  InStep(r)'
<1>1. /\ ctx'[r] = ctx[r] /\ status'[r] = status[r]
      /\ caller'[r] = caller[r] /\ thread'[r] = thread[r]
  <2>1. CASE CallerStep(s)
    BY <2>1 DEF CallerStep, OpenService, PollOpened, CloseService, PollClosed, TypeOK
  <2>2. CASE ThreadStep(s)
    BY <2>2 DEF ThreadStep, ThreadStarts, AckService, HandlerReturns,
                ThreadEnds, TypeOK
  <2> QED
    BY <2>1, <2>2
<1> QED
  BY <1>1 DEF InStep, Waiting, Owned

(* One step of the caller or of the thread keeps the two in step.          *)
LEMMA StepKeepsInStep ==
  ASSUME TypeOK, NEW s \in Services, InStep(s),
         CallerStep(s) \/ ThreadStep(s)
  PROVE  InStep(s)'
<1> USE DEF TypeOK, InStep, Waiting, Owned, Commands, Statuses, CallerStates, ThreadStates
<1>1. CASE OpenService(s)
  BY <1>1 DEF OpenService
<1>2. CASE PollOpened(s)
  BY <1>2 DEF PollOpened
<1>3. CASE CloseService(s)
  BY <1>3 DEF CloseService
<1>4. CASE PollClosed(s)
  BY <1>4 DEF PollClosed
<1>5. CASE ThreadStarts(s)
  BY <1>5 DEF ThreadStarts
<1>6. CASE AckService(s)
  BY <1>6 DEF AckService
<1>7. CASE HandlerReturns(s)
  BY <1>7 DEF HandlerReturns
<1>8. CASE ThreadEnds(s)
  BY <1>8 DEF ThreadEnds
<1> QED
  BY <1>1, <1>2, <1>3, <1>4, <1>5, <1>6, <1>7, <1>8 DEF CallerStep, ThreadStep

(* Caller and thread stay in step throughout.                              *)
THEOREM Inductive == Spec => []IInv
<1>1. Init => IInv
  BY DEF Init, IInv, InStep, Waiting, Owned, TypeOK,
         Commands, Statuses, CallerStates, ThreadStates
<1>2. IInv /\ TypeOK' /\ [Next]_vars => IInv'
  <2> SUFFICES ASSUME IInv, TypeOK', [Next]_vars, NEW r \in Services
               PROVE  InStep(r)'
    BY DEF IInv
  <2>1. ASSUME NEW s \in Services, CallerStep(s) \/ ThreadStep(s)
        PROVE  InStep(r)'
    <3>1. CASE r = s
      BY <2>1, <3>1, StepKeepsInStep DEF IInv
    <3>2. CASE r # s
      BY <2>1, <3>2, OthersUntouched DEF IInv
    <3> QED
      BY <3>1, <3>2
  <2>2. CASE UNCHANGED vars
    BY <2>2 DEF vars, IInv, InStep, Waiting, Owned
  <2> QED
    BY <2>1, <2>2 DEF Next
<1> QED
  BY <1>1, <1>2, TypeCorrect, PTL DEF Spec

(* No thread ever locks a freed context (service.c 301-303 against         *)
(* 131-133), though the thread is never joined.                            *)
THEOREM ContextOutlivesThread == Spec => []NoUseAfterFree
<1>1. IInv => NoUseAfterFree
  BY DEF IInv, InStep, NoUseAfterFree, ThreadUsesContext
<1> QED
  BY <1>1, Inductive, PTL

(* The caller holds a handle only of a service whose handler acknowledged. *)
THEOREM HandleIsAcknowledged == Spec => []HandleMeansAcknowledged
<1>1. IInv => HandleMeansAcknowledged
  BY DEF IInv, InStep, Owned, HandleMeansAcknowledged
<1> QED
  BY <1>1, Inductive, PTL

-----------------------------------------------------------------------------
(* What the contract sees of a step of service s is what changes at s.     *)
LEMMA SeenAtOneService ==
  ASSUME TypeOK, NEW s \in Services, CallerStep(s) \/ ThreadStep(s)
  PROVE  /\ ContractPhase'   = [ContractPhase EXCEPT ![s] = PhaseOf(s)']
         /\ ContractHandler' = [ContractHandler EXCEPT ![s] = HandlerOf(s)']
<1>1. ASSUME NEW r \in Services, r # s
      PROVE  /\ ctx'[r] = ctx[r] /\ status'[r] = status[r]
             /\ caller'[r] = caller[r] /\ thread'[r] = thread[r]
  <2>1. CASE CallerStep(s)
    BY <1>1, <2>1 DEF CallerStep, OpenService, PollOpened, CloseService, PollClosed, TypeOK
  <2>2. CASE ThreadStep(s)
    BY <1>1, <2>2 DEF ThreadStep, ThreadStarts, AckService, HandlerReturns,
                      ThreadEnds, TypeOK
  <2> QED
    BY <2>1, <2>2
<1>2. ASSUME NEW r \in Services, r # s
      PROVE  PhaseOf(r)' = PhaseOf(r) /\ HandlerOf(r)' = HandlerOf(r)
  BY <1>1, <1>2 DEF PhaseOf, HandlerOf
<1> QED
  BY <1>2 DEF ContractPhase, ContractHandler

(* What one step of service s is to the contract: one of its actions, or   *)
(* nothing its caller can see.                                             *)
LEMMA StepKeepsContract ==
  ASSUME TypeOK, TypeOK', NEW s \in Services, InStep(s), InStep(s)',
         CallerStep(s) \/ ThreadStep(s)
  PROVE  Contract!Next \/ UNCHANGED Contract!vars
<1>0. /\ ContractPhase'   = [ContractPhase EXCEPT ![s] = PhaseOf(s)']
      /\ ContractHandler' = [ContractHandler EXCEPT ![s] = HandlerOf(s)']
      /\ ContractPhase[s] = PhaseOf(s) /\ ContractHandler[s] = HandlerOf(s)
      /\ ContractPhase = [ContractPhase EXCEPT ![s] = PhaseOf(s)]
      /\ ContractHandler = [ContractHandler EXCEPT ![s] = HandlerOf(s)]
  BY SeenAtOneService DEF ContractPhase, ContractHandler
<1> USE DEF PhaseOf, HandlerOf, TypeOK, InStep, Waiting, Owned, Statuses, CallerStates, ThreadStates
<1>1. CASE OpenService(s)
  <2>1. /\ PhaseOf(s) = "closed" /\ PhaseOf(s)' = "opening"
        /\ HandlerOf(s)' \in {"called", "returned"}
    BY <1>1 DEF OpenService
  <2>2. Contract!BeginOpen(s)
    BY <1>0, <2>1 DEF Contract!BeginOpen
  <2> QED
    BY <2>2 DEF Contract!Next
<1>2. CASE PollOpened(s)
  <2>1. CASE status[s] = "start"
    <3>1. /\ PhaseOf(s) = "opening" /\ PhaseOf(s)' = "open"
          /\ HandlerOf(s) = "acknowledged" /\ HandlerOf(s)' = "acknowledged"
      BY <1>2, <2>1 DEF PollOpened
    <3>2. Contract!Opened(s)
      BY <1>0, <3>1 DEF Contract!Opened
    <3> QED
      BY <3>2 DEF Contract!Next
  <2>2. CASE status[s] # "start"
    <3>1. PhaseOf(s)' = PhaseOf(s) /\ HandlerOf(s)' = HandlerOf(s)
      BY <1>2, <2>2 DEF PollOpened
    <3> QED
      BY <1>0, <3>1 DEF Contract!vars
  <2> QED
    BY <2>1, <2>2
<1>3. CASE CloseService(s)
  <2>1. /\ PhaseOf(s) = "open" /\ PhaseOf(s)' = "closing"
        /\ HandlerOf(s)' = HandlerOf(s)
    BY <1>3 DEF CloseService
  <2>2. Contract!BeginClose(s)
    BY <1>0, <2>1 DEF Contract!BeginClose
  <2> QED
    BY <2>2 DEF Contract!Next
<1>4. CASE PollClosed(s)
  <2>1. CASE status[s] = "start"
    <3>1. PhaseOf(s)' = PhaseOf(s) /\ HandlerOf(s)' = HandlerOf(s)
      BY <1>4, <2>1 DEF PollClosed
    <3> QED
      BY <1>0, <3>1 DEF Contract!vars
  <2>2. CASE status[s] # "start"
    <3>1. /\ PhaseOf(s) \in {"opening", "closing"} /\ PhaseOf(s)' = "closed"
          /\ HandlerOf(s) = "returned" /\ HandlerOf(s)' = "idle"
      BY <1>4, <2>2 DEF PollClosed
    <3>2. Contract!Released(s)
      BY <1>0, <3>1 DEF Contract!Released
    <3> QED
      BY <3>2 DEF Contract!Next
  <2> QED
    BY <2>1, <2>2
<1>5. CASE ThreadStarts(s) \/ HandlerReturns(s)
  <2>1. PhaseOf(s)' = PhaseOf(s) /\ HandlerOf(s)' = HandlerOf(s)
    BY <1>5 DEF ThreadStarts, HandlerReturns
  <2> QED
    BY <1>0, <2>1 DEF Contract!vars
<1>6. CASE AckService(s)
  <2>1. /\ HandlerOf(s) = "called" /\ HandlerOf(s)' = "acknowledged"
        /\ PhaseOf(s)' = PhaseOf(s)
    BY <1>6 DEF AckService
  <2>2. Contract!Acknowledge(s)
    BY <1>0, <2>1 DEF Contract!Acknowledge
  <2> QED
    BY <2>2 DEF Contract!Next
<1>7. CASE ThreadEnds(s)
  <2>1. /\ HandlerOf(s) \in {"called", "acknowledged"} /\ HandlerOf(s)' = "returned"
        /\ PhaseOf(s)' = PhaseOf(s)
    BY <1>7 DEF ThreadEnds
  <2>2. Contract!HandlerReturns(s)
    BY <1>0, <2>1 DEF Contract!HandlerReturns
  <2> QED
    BY <2>2 DEF Contract!Next
<1> QED
  BY <1>1, <1>2, <1>3, <1>4, <1>5, <1>6, <1>7 DEF CallerStep, ThreadStep

(* The protocol of service.c implements the contract its callers rely on.  *)
THEOREM ImplementsContract == Spec => KeepsContract
<1>1. Init => Contract!Init
  BY DEF Init, Contract!Init, ContractPhase, ContractHandler, PhaseOf, HandlerOf
<1>2. IInv /\ IInv' /\ [Next]_vars => [Contract!Next]_(Contract!vars)
  <2> SUFFICES ASSUME IInv, IInv', [Next]_vars
               PROVE  Contract!Next \/ UNCHANGED Contract!vars
    OBVIOUS
  <2>1. ASSUME NEW s \in Services, CallerStep(s) \/ ThreadStep(s)
        PROVE  Contract!Next \/ UNCHANGED Contract!vars
    BY <2>1, StepKeepsContract DEF IInv
  <2>2. CASE UNCHANGED vars
    BY <2>2 DEF vars, Contract!vars, ContractPhase, ContractHandler, PhaseOf, HandlerOf
  <2> QED
    BY <2>1, <2>2 DEF Next
<1> QED
  BY <1>1, <1>2, Inductive, PTL DEF Spec, KeepsContract, Contract!Spec
=============================================================================
