--------------------------- MODULE LifecycleProofs ---------------------------
(***************************************************************************)
(* Proofs about Lifecycle, for any disks, access services and files,       *)
(* whatever is requested and fails: types, no run on files that were not   *)
(* written, no directory left, and no use of a freed file in a calm turn.  *)
(***************************************************************************)
EXTENDS Lifecycle, FiniteSetTheorems, TLAPS

(* Who is being told: an access service while they are closed, a disk      *)
(* service while the disks are freed.                                      *)
ToldIsOpen == told # None => svc[told] # "none" /\ MayClose(told)

(* Access services are there in the main loop and until they are closed.   *)
ServedInRun ==
  \A a \in Accesses : /\ svc[a] \in {"none", "serve", "returned"}
                      /\ pc \notin {"run", "close"} => svc[a] = "none"

(* Without a configuration there are no disk services.                     *)
ClosedWithXml ==
  /\ pc \in {"add", "start"} => xml
  /\ ~xml \/ pc \in {"add", "start", "exit"} => \A d \in Disks : svc[d] = "none"

(* They work only while the loader waits for them or they are closed: when *)
(* a load fails.                                                           *)
Resting ==
  \A d \in Disks :
    /\ svc[d] # "serve"
    /\ pc \notin {"wait", "poll", "free_files", "free_disks"} => svc[d] \in {"none", "ready"}
    /\ svc[d] \in {"create", "write"} => cur[d] \in Files

(* The counts, by the services that are ready and those that may still add *)
(* to them.                                                                *)
In(S) == {d \in Disks : svc[d] \in S}

Pending  == In({"path", "next", "create", "write", "done"})
Fallible == In({"path", "next", "create", "write"})

Counted ==
  /\ ready \in Nat /\ errors \in Nat
  /\ ready + Cardinality(Pending) <= Cardinality(Disks)
  /\ errors + Cardinality(Fallible) <= Cardinality(Disks)
  /\ pc \in {"wait", "poll"} => ready = Cardinality(In({"ready"}))

(* A calm turn is not broken before the main loop, no service failed in    *)
(* it, and all are done when their disks are freed.                        *)
CalmTurn ==
  calm =>
    /\ pc \in {"open_xml", "add", "start", "wait", "poll", "loaded", "open"} => ~break /\ ~hup
    /\ pc \in {"wait", "poll"} => errors = 0
    /\ pc \in {"free_files", "free_disks"} =>
         \A d \in Disks : svc[d] \in {"none", "ready", "returned"}

FreedAtEnd ==
  freed # {} => pc \notin {"start", "wait", "poll", "loaded", "open", "run", "close"}

(* Directories the program made are empty, or not there, unless a service  *)
(* is at work in them.                                                     *)
EmptyUnlessOpen ==
  \A d \in Disks \ Existing : svc[d] \in {"none", "path", "returned"} => onDisk[d] = {}

(* Unless there was an error or a break, a file is written to its end, its *)
(* write failed, or it is still to be written.                             *)
Underway(f, d) == \/ f \in todo[d] /\ svc[d] \notin {"done", "ready"}
                  \/ f = cur[d] /\ svc[d] \in {"create", "write"}

Written ==
  /\ pc = "start" => \A f \in Files : \E d \in Disks : f \in todo[d]
  /\ pc \in {"wait", "poll"} /\ errors = 0 /\ ~break =>
       \A f \in Files \ (whole \cup short) : \E d \in Disks : Underway(f, d)
  /\ (pc = "loaded" /\ ~break) \/ pc \in {"open", "run"} => Files \ whole \subseteq short

(* The types of all but the counts, which Counted bounds.                  *)
Types ==
  /\ pc \in {"test", "main", "open_xml", "add", "start", "wait", "poll", "loaded", "open", "run",
             "close", "free_files", "free_disks", "clear", "exit"}
  /\ ending \in BOOLEAN /\ break \in BOOLEAN /\ reload \in BOOLEAN /\ hup \in BOOLEAN
  /\ quit \in BOOLEAN /\ calm \in BOOLEAN /\ xml \in BOOLEAN
  /\ freed \subseteq {Head}
  /\ svc \in [Services -> {"none", "path", "next", "create", "write", "done", "ready", "serve",
                           "returned"}]
  /\ told \in Services \cup {None}
  /\ todo \in [Disks -> SUBSET Files]
  /\ cur \in [Disks -> Files \cup {None}]
  /\ whole \subseteq Files /\ short \subseteq Files
  /\ onDisk \in [Disks -> SUBSET Files]

IInv ==
  /\ Types /\ ToldIsOpen /\ ServedInRun /\ ClosedWithXml /\ Resting /\ Counted
  /\ CalmTurn /\ FreedAtEnd /\ EmptyUnlessOpen /\ Written

-----------------------------------------------------------------------------
LEMMA IInvInit == Init => IInv
<1>. SUFFICES ASSUME Init PROVE IInv
  OBVIOUS
<1>1. Pending = {} /\ Fallible = {}
  BY DEF Init, Pending, Fallible, In, Services
<1>2. Cardinality(Disks) \in Nat
  BY LifecycleAssumption, FS_CardinalityType
<1>3. Counted
  BY <1>1, <1>2, FS_EmptySet DEF Init, Counted
<1>. QED
  BY <1>3, LifecycleAssumption
  DEF Init, IInv, Types, ToldIsOpen, ServedInRun, ClosedWithXml, Resting, CalmTurn, FreedAtEnd,
      EmptyUnlessOpen, Written, Services

-----------------------------------------------------------------------------
(* The counts.                                                             *)

LEMMA InIsFinite ==
  ASSUME NEW S
  PROVE  /\ IsFiniteSet(In(S)) /\ Cardinality(In(S)) \in Nat
         /\ Cardinality(Disks) \in Nat /\ Cardinality(In(S)) <= Cardinality(Disks)
         /\ Cardinality(In(S)) = Cardinality(Disks) => In(S) = Disks
BY LifecycleAssumption, FS_Subset, FS_CardinalityType DEF In

LEMMA CountsStay ==
  ASSUME Counted, ready' = ready, errors' = errors, \A d \in Disks : svc'[d] = svc[d],
         pc' \in {"wait", "poll"} => pc \in {"wait", "poll"}
  PROVE  Counted'
<1>1. Pending' = Pending /\ Fallible' = Fallible /\ In({"ready"})' = In({"ready"})
  BY DEF In, Pending, Fallible
<1>. QED  BY <1>1 DEF Counted

LEMMA CountsOfNone ==
  ASSUME ready' = 0, errors' = 0, pc' \in {"wait", "poll"} => In({"ready"})' = {}
  PROVE  Counted'
<1>1. \A S \in SUBSET Disks : Cardinality(S) \in Nat /\ Cardinality(S) <= Cardinality(Disks)
  BY LifecycleAssumption, FS_Subset, FS_CardinalityType
<1>2. Pending' \in SUBSET Disks /\ Fallible' \in SUBSET Disks
  BY DEF Pending, Fallible, In
<1>3. Cardinality(Pending') <= Cardinality(Disks) /\ Cardinality(Fallible') <= Cardinality(Disks)
      /\ Cardinality(Pending') \in Nat /\ Cardinality(Fallible') \in Nat
  BY <1>1, <1>2
<1>. QED  BY <1>3, FS_EmptySet DEF Counted

(* A step of d's service counts it at most once.                           *)
LEMMA DiskStepCounts ==
  ASSUME IInv, NEW d \in Disks, DiskStep(d)
  PROVE  Counted'
<1>. USE DEF IInv, Types, Services, At, flags, writes
<1>1. /\ Cardinality(Pending) \in Nat /\ Cardinality(Fallible) \in Nat
      /\ Cardinality(In({"ready"})) \in Nat
      /\ IsFiniteSet(Pending) /\ IsFiniteSet(Fallible) /\ IsFiniteSet(In({"ready"}))
  BY InIsFinite DEF Pending, Fallible
<1>2. pc' = pc /\ \E l : svc' = [svc EXCEPT ![d] = l]
  BY DEF DiskStep, CheckPath, NextFile, CreateFile, WriteFile, ReportReady, DiskReturns
<1>3. ASSUME svc[d] \in {"path", "next", "create", "write"},
             svc'[d] \in {"path", "next", "create", "write"}, ready' = ready, errors' = errors
      PROVE  Counted'
  <2>1. Pending' = Pending /\ Fallible' = Fallible /\ In({"ready"})' = In({"ready"})
    BY <1>2, <1>3 DEF Pending, Fallible, In
  <2>. QED  BY <1>2, <1>3, <2>1 DEF Counted
<1>4. ASSUME svc[d] \in {"path", "next", "create", "write"},
             svc'[d] \in {"done", "returned"}, ready' = ready, errors' \in {errors, errors + 1}
      PROVE  Counted'
  <2>1. /\ Pending' = Pending \/ Pending' = Pending \ {d}
        /\ Fallible' = Fallible \ {d} /\ In({"ready"})' = In({"ready"})
        /\ d \in Fallible /\ d \in Pending
    BY <1>2, <1>4 DEF Pending, Fallible, In
  <2>2. Cardinality(Pending') <= Cardinality(Pending) /\ Cardinality(Pending') \in Int
    <3>1. Cardinality(Pending \ {d}) = Cardinality(Pending) - 1
      BY <1>1, <2>1, FS_RemoveElement
    <3>2. Cardinality(Pending') \in {Cardinality(Pending), Cardinality(Pending) - 1}
      BY <2>1, <3>1
    <3>. QED  BY <1>1, <3>2
  <2>3. Cardinality(Fallible') = Cardinality(Fallible) - 1
    BY <1>1, <2>1, FS_RemoveElement
  <2>4. errors' + Cardinality(Fallible') <= errors + Cardinality(Fallible) /\ errors' \in Nat
    BY <1>1, <1>4, <2>3 DEF Counted
  <2>5. ready' + Cardinality(Pending') <= ready + Cardinality(Pending)
    BY <1>1, <1>4, <2>2 DEF Counted
  <2>. QED  BY <1>1, <1>2, <1>4, <2>1, <2>2, <2>3, <2>4, <2>5, InIsFinite DEF Counted
<1>5. CASE ReportReady(d)
  <2>1. /\ Pending' = Pending \ {d} /\ d \in Pending
        /\ Fallible' = Fallible
        /\ In({"ready"})' = In({"ready"}) \cup {d} /\ d \notin In({"ready"})
    BY <1>2, <1>5 DEF Pending, Fallible, In, ReportReady
  <2>2. Cardinality(Pending') = Cardinality(Pending) - 1
    BY <1>1, <2>1, FS_RemoveElement
  <2>3. Cardinality(In({"ready"})') = Cardinality(In({"ready"})) + 1
    BY <1>1, <2>1, FS_AddElement
  <2>. QED  BY <1>1, <1>2, <1>5, <2>1, <2>2, <2>3 DEF Counted, ReportReady
<1>6. CASE DiskReturns(d)
  <2>1. Pending' = Pending /\ Fallible' = Fallible
    BY <1>2, <1>6 DEF Pending, Fallible, In, DiskReturns
  <2>2. pc = "free_disks"
    BY <1>6, LifecycleAssumption DEF DiskReturns, ToldIsOpen, MayClose
  <2>. QED  BY <1>2, <1>6, <2>1, <2>2 DEF Counted, DiskReturns
<1>7. CASE CheckPath(d)
  BY <1>3, <1>4, <1>7 DEF CheckPath
<1>8. CASE NextFile(d)
  BY <1>3, <1>4, <1>8 DEF NextFile
<1>9. CASE CreateFile(d)
  BY <1>3, <1>4, <1>9 DEF CreateFile
<1>10. CASE WriteFile(d)
  BY <1>3, <1>10 DEF WriteFile
<1>. QED  BY <1>5, <1>6, <1>7, <1>8, <1>9, <1>10 DEF DiskStep

LEMMA CountedStep == IInv /\ [Next]_vars => Counted'
<1>. SUFFICES ASSUME IInv, [Next]_vars PROVE Counted'
  OBVIOUS
<1>. USE DEF IInv, Types, Services, flags, writes, Goto, GiveUp, At
<1>1. CASE StartDisks
  <2>1. \A d \in Disks : svc[d] = "none"
    BY <1>1 DEF StartDisks, ClosedWithXml
  <2>2. In({"ready"})' = {}
    BY <1>1, <2>1 DEF StartDisks, In
  <2>. QED  BY <1>1, <2>2, CountsOfNone DEF StartDisks
<1>2. CASE Unloaded
  BY <1>2, CountsOfNone DEF Unloaded
<1>3. CASE \E s \in Services : ServiceClosed(s)
  <2>1. PICK s \in Services : ServiceClosed(s)
    BY <1>3
  <2>2. Pending' = Pending /\ Fallible' = Fallible /\ In({"ready"})' = In({"ready"})
    BY <2>1 DEF ServiceClosed, Pending, Fallible, In
  <2>. QED  BY <2>1, <2>2 DEF ServiceClosed, Counted
<1>4. CASE \E d \in Disks : DiskStep(d)
  BY <1>4, DiskStepCounts
<1>5. CASE OpenAccesses \/ \E a \in Accesses : AccessReturns(a)
  <2>1. \A d \in Disks : svc'[d] = svc[d]
    BY <1>5, LifecycleAssumption DEF OpenAccesses, AccessReturns
  <2>. QED  BY <1>5, <2>1, CountsStay DEF OpenAccesses, AccessReturns
<1>6. CASE TestReload \/ EnterMain \/ OpenXml \/ AddAndAssign \/ WaitBreak \/ WaitCounts
  BY <1>6, CountsStay DEF TestReload, EnterMain, OpenXml, AddAndAssign, WaitBreak, WaitCounts
<1>7. CASE CheckLoaded \/ LeaveRun \/ AccessesClosed \/ FreeFiles \/ ClearBreak
           \/ \E s \in Services : TellService(s)
  BY <1>7, CountsStay DEF CheckLoaded, LeaveRun, AccessesClosed, FreeFiles, ClearBreak, TellService
<1>8. CASE Request \/ HangUpBreaks \/ Exited \/ UNCHANGED vars
  BY <1>8, CountsStay
  DEF Request, Terminate, HangUp, Quit, Restart, HangUpBreaks, Exited, vars
<1>. QED
  BY <1>1, <1>2, <1>3, <1>4, <1>5, <1>6, <1>7, <1>8 DEF Next, MainStep

-----------------------------------------------------------------------------
(* All the rest: what holds at each place.                                 *)

Rest ==
  /\ Types /\ ToldIsOpen /\ ServedInRun /\ ClosedWithXml /\ Resting
  /\ CalmTurn /\ FreedAtEnd /\ EmptyUnlessOpen /\ Written

LEMMA AllReady ==
  ASSUME IInv, WaitCounts, pc' = "loaded"
  PROVE  \A d \in Disks : svc[d] = "ready"
<1>1. pc = "poll" /\ ready >= Cardinality(Disks)
  BY DEF WaitCounts, Goto, GiveUp
<1>2. ready = Cardinality(In({"ready"}))
  BY <1>1 DEF IInv, Counted
<1>3. Cardinality(In({"ready"})) <= Cardinality(Disks) /\ Cardinality(In({"ready"})) \in Nat
      /\ Cardinality(Disks) \in Nat
  BY InIsFinite
<1>4. In({"ready"}) = Disks
  BY <1>1, <1>2, <1>3, InIsFinite
<1>. QED  BY <1>4 DEF In

LEMMA MainStepRest == IInv /\ MainStep => Rest'
<1>. SUFFICES ASSUME IInv, MainStep PROVE Rest'
  OBVIOUS
<1>. USE LifecycleAssumption
     DEF IInv, Rest, Types, ToldIsOpen, ServedInRun, ClosedWithXml, Resting, CalmTurn, FreedAtEnd,
         EmptyUnlessOpen, Written, Underway, Services, MayClose, flags, writes, Goto, GiveUp
<1>1. CASE TestReload
  BY <1>1 DEF TestReload
<1>2. CASE EnterMain
  BY <1>2 DEF EnterMain
<1>3. CASE OpenXml
  BY <1>3 DEF OpenXml
<1>4. CASE StartDisks
  BY <1>4 DEF StartDisks
<1>5. CASE WaitBreak
  BY <1>5 DEF WaitBreak
<1>6. CASE CheckLoaded
  BY <1>6 DEF CheckLoaded
<1>7. CASE OpenAccesses
  BY <1>7 DEF OpenAccesses
<1>8. CASE LeaveRun
  BY <1>8 DEF LeaveRun
<1>9. CASE AccessesClosed
  BY <1>9 DEF AccessesClosed
<1>10. CASE FreeFiles
  BY <1>10 DEF FreeFiles
<1>11. CASE Unloaded
  BY <1>11 DEF Unloaded
<1>12. CASE ClearBreak
  BY <1>12 DEF ClearBreak
<1>13. CASE \E s \in Services : TellService(s)
  BY <1>13 DEF TellService
<1>14. CASE \E s \in Services : ServiceClosed(s)
  BY <1>14 DEF ServiceClosed
<1>15. CASE AddAndAssign
  <2>1. CASE break
    BY <1>15, <2>1 DEF AddAndAssign
  <2>2. CASE ~break
    <3>1. /\ todo' \in [Disks -> SUBSET Files]
          /\ \A f \in Files : \E d \in Disks : f \in todo'[d]
      BY <1>15, <2>2 DEF AddAndAssign
    <3>. QED  BY <1>15, <2>2, <3>1 DEF AddAndAssign
  <2>. QED  BY <2>1, <2>2
<1>16. CASE WaitCounts
  <2>1. CASE pc' = "loaded"
    BY <1>16, <2>1, AllReady DEF WaitCounts
  <2>2. CASE pc' # "loaded"
    <3>1. \/ pc' = "wait" /\ UNCHANGED ending
          \/ pc' = "free_files" /\ ending' = TRUE /\ errors # 0
      BY <1>16, <2>2 DEF WaitCounts, Counted
    <3>. QED  BY <1>16, <3>1 DEF WaitCounts
  <2>. QED  BY <2>1, <2>2
<1>. QED
  BY <1>1, <1>2, <1>3, <1>4, <1>5, <1>6, <1>7, <1>8, <1>9, <1>10, <1>11, <1>12, <1>13, <1>14, <1>15,
     <1>16 DEF MainStep

LEMMA DiskStepRest ==
  ASSUME IInv, NEW d \in Disks, pc # "exit", DiskStep(d)
  PROVE  Rest'
<1>. USE LifecycleAssumption
     DEF IInv, Rest, Types, ToldIsOpen, ServedInRun, ClosedWithXml, Resting, CalmTurn, FreedAtEnd,
         EmptyUnlessOpen, Written, Underway, Services, MayClose, flags, writes, At
<1>1. CASE NextFile(d)
  BY <1>1 DEF NextFile
<1>2. CASE WriteFile(d)
  BY <1>2 DEF WriteFile
<1>3. CASE ReportReady(d)
  BY <1>3 DEF ReportReady
<1>4. CASE DiskReturns(d)
  BY <1>4 DEF DiskReturns
<1>5. CASE CheckPath(d)
  <2>1. CASE svc' = [svc EXCEPT ![d] = "next"]
    BY <1>5, <2>1 DEF CheckPath
  <2>2. CASE svc' = [svc EXCEPT ![d] = "returned"]
    <3>1. errors' = errors + 1
      BY <1>5, <2>2 DEF CheckPath
    <3>2. errors' # 0
      BY <3>1 DEF Counted
    <3>3. calm' = FALSE
      BY <1>5, <2>2 DEF CheckPath
    <3>4. (Types /\ ToldIsOpen /\ ServedInRun /\ ClosedWithXml /\ Resting)'
      <4>1. Types' /\ ToldIsOpen'
        BY <1>5, <2>2, <3>2, <3>3 DEF CheckPath
      <4>2. ServedInRun' /\ ClosedWithXml' /\ Resting'
        BY <1>5, <2>2, <3>2, <3>3 DEF CheckPath
      <4>. QED  BY <4>1, <4>2
    <3>5. (CalmTurn /\ FreedAtEnd /\ EmptyUnlessOpen)'
      BY <1>5, <2>2, <3>2, <3>3 DEF CheckPath
    <3>6. Written'
      BY <1>5, <2>2, <3>2, <3>3 DEF CheckPath
    <3>. QED  BY <3>4, <3>5, <3>6
  <2>. QED  BY <1>5, <2>1, <2>2 DEF CheckPath
<1>6. CASE CreateFile(d)
  <2>1. CASE svc' = [svc EXCEPT ![d] = "write"]
    BY <1>6, <2>1 DEF CreateFile
  <2>2. CASE svc' = [svc EXCEPT ![d] = "done"]
    <3>1. /\ svc[d] = "create" /\ errors' = errors + 1
          /\ cur' = [cur EXCEPT ![d] = None] /\ onDisk' = onDisk
      BY <1>6, <2>2 DEF CreateFile
    <3>2. errors' # 0
      BY <3>1 DEF Counted
    <3>3. calm' = FALSE
      BY <1>6, <2>2 DEF CreateFile
    <3>4. UNCHANGED <<pc, ending, break, reload, hup, quit, xml, freed, told, todo, whole, short>>
      BY <1>6 DEF CreateFile
    <3>5. (Types /\ ToldIsOpen /\ ServedInRun /\ ClosedWithXml /\ Resting)'
      <4>1. Types' /\ ToldIsOpen'
        BY <2>2, <3>1, <3>3, <3>4
      <4>2. ServedInRun' /\ ClosedWithXml' /\ Resting'
        BY <2>2, <3>1, <3>4
      <4>. QED  BY <4>1, <4>2
    <3>6. (CalmTurn /\ FreedAtEnd /\ EmptyUnlessOpen)'
      BY <2>2, <3>1, <3>2, <3>3, <3>4
    <3>7. Written'
      BY <2>2, <3>1, <3>2, <3>3, <3>4
    <3>. QED  BY <3>5, <3>6, <3>7
  <2>. QED  BY <1>6, <2>1, <2>2 DEF CreateFile
<1>. QED  BY <1>1, <1>2, <1>3, <1>4, <1>5, <1>6 DEF DiskStep

LEMMA OtherStepRest ==
  ASSUME IInv,
         \/ \E a \in Accesses : AccessReturns(a)
         \/ Request \/ HangUpBreaks \/ Exited \/ UNCHANGED vars
  PROVE  Rest'
<1>. USE LifecycleAssumption
     DEF IInv, Rest, Types, ToldIsOpen, ServedInRun, ClosedWithXml, Resting, CalmTurn, FreedAtEnd,
         EmptyUnlessOpen, Written, Underway, Services, MayClose, flags, writes, At
<1>1. CASE \E a \in Accesses : AccessReturns(a)
  BY <1>1 DEF AccessReturns
<1>2. CASE Terminate
  BY <1>2 DEF Terminate, Expected
<1>3. CASE HangUp
  BY <1>3 DEF HangUp, Expected
<1>4. CASE Quit \/ Restart
  <2>1. CASE Quit
    BY <2>1 DEF Quit, Expected
  <2>2. CASE Restart
    BY <2>2 DEF Restart, Expected
  <2>. QED  BY <1>4, <2>1, <2>2
<1>5. CASE HangUpBreaks
  <2>1. (Types /\ ToldIsOpen /\ ServedInRun /\ ClosedWithXml /\ Resting)'
    <3>1. Types' /\ ToldIsOpen'
      BY <1>5 DEF HangUpBreaks
    <3>2. ServedInRun' /\ ClosedWithXml' /\ Resting'
      BY <1>5 DEF HangUpBreaks
    <3>. QED  BY <3>1, <3>2
  <2>2. (CalmTurn /\ FreedAtEnd /\ EmptyUnlessOpen)'
    BY <1>5 DEF HangUpBreaks
  <2>3. Written'
    BY <1>5 DEF HangUpBreaks
  <2>. QED  BY <2>1, <2>2, <2>3
<1>6. CASE Exited \/ UNCHANGED vars
  BY <1>6 DEF Exited, vars
<1>. QED  BY <1>1, <1>2, <1>3, <1>4, <1>5, <1>6 DEF Request

LEMMA IInvStep == IInv /\ [Next]_vars => IInv'
<1>. SUFFICES ASSUME IInv, [Next]_vars PROVE IInv'
  OBVIOUS
<1>1. Rest'
  BY MainStepRest, DiskStepRest, OtherStepRest DEF Next
<1>. QED  BY <1>1, CountedStep DEF IInv, Rest

-----------------------------------------------------------------------------
LEMMA Invariance == Spec => []IInv
BY IInvInit, IInvStep, PTL DEF Spec

(* Every variable keeps its type; neither count exceeds the number of disk *)
(* services, over restarts and failed loads (workload_config.c 682-720).   *)
THEOREM TypeCorrect == Spec => []TypeOK
<1>1. IInv => TypeOK
  <2>. SUFFICES ASSUME IInv PROVE TypeOK
    OBVIOUS
  <2>1. Cardinality(Pending) \in Nat /\ Cardinality(Fallible) \in Nat /\ Cardinality(Disks) \in Nat
    BY InIsFinite DEF Pending, Fallible
  <2>2. ready \in 0 .. Cardinality(Disks) /\ errors \in 0 .. Cardinality(Disks)
    BY <2>1 DEF IInv, Counted
  <2>. QED  BY <2>2 DEF IInv, Types, TypeOK
<1>. QED  BY <1>1, Invariance, PTL

(* workload_main goes on only when each file of this turn was written to   *)
(* its end (workload.c 988-989), but for those whose own write failed      *)
(* (workload_storage.c 110), whatever else breaks or fails meanwhile.      *)
THEOREM OnlyWrittenFiles == Spec => []RunsOnWrittenFiles
<1>1. IInv => RunsOnWrittenFiles
  BY DEF IInv, Written, RunsOnWrittenFiles
<1>. QED  BY <1>1, Invariance, PTL

(* A directory the program made is gone when it exits (workload_storage.c  *)
(* 140-145).                                                               *)
THEOREM MadeDirsRemoved == Spec => []RemovesMadeDirs
<1>1. IInv => RemovesMadeDirs
  BY DEF IInv, ClosedWithXml, EmptyUnlessOpen, RemovesMadeDirs
<1>. QED  BY <1>1, Invariance, PTL

(* In a calm turn nobody works with a freed file (workload_config.c        *)
(* 798-802).                                                               *)
THEOREM NoFreedFileUsed == Spec => []FilesOutliveUse
<1>1. IInv => FilesOutliveUse
  BY DEF IInv, ServedInRun, Resting, CalmTurn, FreedAtEnd, FilesOutliveUse
<1>. QED  BY <1>1, Invariance, PTL
=============================================================================
