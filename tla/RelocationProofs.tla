-------------------------- MODULE RelocationProofs --------------------------
(***************************************************************************)
(* Proofs about Relocation for any numbers of files, disks and access      *)
(* services: the types, the use of the two locks, and what they protect;   *)
(* and for one service, where the files are between its turns.             *)
(***************************************************************************)
EXTENDS Relocation, TLAPS, FiniteSetTheorems, WellFoundedInduction

(* A nonempty set of natural numbers has a least element.                  *)
LEMMA LeastNumber ==
  ASSUME NEW S \in SUBSET Nat, S # {}
  PROVE  \E n \in S : \A m \in S : n <= m
<1>1. PICK n \in S : \A m \in S : ~(<<m, n>> \in OpToRel(<, Nat))
  BY NatLessThanWellFounded, WFMin, Zenon
<1>2. \A m \in S : ~(m < n)
  BY <1>1 DEF OpToRel
<1> QED
  BY <1>2

(* All files have been assigned at load, so that there is a disk for each  *)
(* rank.                                                                   *)
AllAssigned ==
  /\ nextFileIndex \in [Disks -> 0 .. NFiles]
  /\ nextFileIndex[NDisks] = NFiles

(* The ranking loop of an access finds a disk for each rank (130-139).     *)
LEMMA DiskForEachRank ==
  ASSUME AllAssigned, NEW r \in Files
  PROVE  /\ DiskOfRank(r) \in Disks
         /\ r <= nextFileIndex[DiskOfRank(r)]
         /\ \A e \in 1 .. DiskOfRank(r) - 1 : r > nextFileIndex[e]
<1> DEFINE S == {d \in Disks : r <= nextFileIndex[d]}
<1>1. NDisks \in S /\ S \in SUBSET Nat
  BY RelocationAssumption DEF AllAssigned, Files, Disks
<1>2. PICK d \in S : \A e \in S : d <= e
  BY <1>1, LeastNumber
<1>3. \A e \in 1 .. d - 1 : e \in Disks /\ e \notin S
  BY <1>1, <1>2, RelocationAssumption DEF Disks
<1>4. \A e \in 1 .. d - 1 : r > nextFileIndex[e]
  BY <1>3 DEF AllAssigned, Files
<1> QED
  BY <1>2, <1>4 DEF DiskOfRank

(* Where a file climbs to: over every file with a smaller count, no higher.*)
LEMMA Climbs ==
  ASSUME count \in [Files -> Nat], sorted \in [Files -> Files], index \in [Files -> Files],
         NEW f \in Files, NEW n \in Nat
  PROVE  /\ ClimbsTo(f, n) \in 1 .. index[f]
         /\ \A q \in ClimbsTo(f, n) .. index[f] - 1 : count[sorted[q]] < n
         /\ ClimbsTo(f, n) > 1 => count[sorted[ClimbsTo(f, n) - 1]] >= n
<1> DEFINE S == {r \in 1 .. index[f] : \A q \in r .. index[f] - 1 : count[sorted[q]] < n}
<1>1. index[f] \in 1 .. NFiles /\ NFiles \in Nat
  BY RelocationAssumption DEF Files
<1>2. index[f] \in S /\ S \in SUBSET Nat
  BY <1>1
<1>3. PICK r \in S : \A q \in S : r <= q
  BY <1>2, LeastNumber
<1>4. ASSUME r > 1 PROVE count[sorted[r - 1]] >= n
  <2>1. r - 1 \in 1 .. index[f] /\ r - 1 \notin S
    BY <1>1, <1>3, <1>4
  <2>2. PICK q \in r - 1 .. index[f] - 1 : ~(count[sorted[q]] < n)
    BY <2>1
  <2>3. q = r - 1
    BY <1>1, <1>3, <2>2
  <2>4. r - 1 \in Files
    BY <1>1, <2>1 DEF Files
  <2> QED
    BY <2>2, <2>3, <2>4
<1> QED
  BY <1>3, <1>4 DEF ClimbsTo

-----------------------------------------------------------------------------
(* Who holds which lock: a function of where the thread is.                *)
HoldsFile == {"access", "count", "read", "write", "unlock",
              "p_check", "p_move", "p_link", "p_stamp", "p_clear", "p_next"}

Locked ==
  /\ \A t \in Threads, f \in Files : accessLock[f] = t <=> pc[t] \in HoldsFile /\ at[t] = f
  /\ \A t \in Threads : reassignLock = t <=> pc[t] \in {"read", "write"}

(* Only a file on its way to a disk is on none.                            *)
OnItsWay ==
  /\ \A f \in Files : diskOf[f] = NoDisk => \E t \in Threads : pc[t] = "p_link" /\ at[t] = f
  /\ \A t \in Threads : pc[t] = "p_link" => dest[t] \in Disks

(* The flag of a file is set only where a move has made its path.          *)
CreatedMeansMade ==
  \A f \in created :
    /\ diskOf[f] # NoDisk => <<diskOf[f], f>> \in made
    /\ \A t \in Threads : pc[t] = "p_link" /\ at[t] = f => <<dest[t], f>> \in made

(* The strengthening that is inductive.                                    *)
IInv == /\ TypeOK /\ AllAssigned /\ Locked /\ OnItsWay
        /\ NeverLost /\ CreatedMeansMade /\ RankedByUse

(* Files are numbered from 1.                                              *)
LEMMA FileNumbers == \A n : n \in Files <=> n \in Nat /\ n >= 1 /\ n <= NFiles
  BY RelocationAssumption DEF Files

(* The state a load ends with: types, and each file on a disk.             *)
LEMMA InitTypes == Init => TypeOK /\ AllAssigned
<1> SUFFICES ASSUME Init PROVE TypeOK /\ AllAssigned
  OBVIOUS
<1>1. /\ IsFiniteSet(Files) /\ Cardinality(Files) = NFiles
      /\ NFiles \in Nat /\ 1 \in Files /\ NDisks \in Disks
  BY FS_Interval, RelocationAssumption DEF Files, Disks
<1>2. ASSUME NEW d \in Disks
      PROVE  nextFileIndex[d] \in 0 .. NFiles
  <2>1. {f \in Files : diskOf[f] <= d} \in SUBSET Files
    OBVIOUS
  <2>2. Cardinality({f \in Files : diskOf[f] <= d}) \in 0 .. NFiles
    BY <1>1, <2>1, FS_Subset, FS_CardinalityType
  <2> QED
    BY <2>2 DEF Init
<1>3. {f \in Files : diskOf[f] <= NDisks} = Files
  BY RelocationAssumption DEF Init, Disks
<1>4. AllAssigned
  BY <1>1, <1>2, <1>3 DEF Init, AllAssigned
<1> QED
  BY <1>1, <1>4 DEF Init, TypeOK, AllAssigned, PCs

(* Each step keeps the types, and leaves a file off its disk only while a  *)
(* thread is moving it.                                                    *)
LEMMA StepTypes == TypeOK /\ AllAssigned /\ [Next]_vars => TypeOK' /\ AllAssigned'
<1> SUFFICES ASSUME TypeOK, AllAssigned, [Next]_vars
             PROVE  TypeOK' /\ AllAssigned'
  OBVIOUS
<1>0. nextFileIndex' = nextFileIndex
  BY DEF Next, vars, AccessStep, PassStep, Command, PickFile, StopService, LockFile, AccessFile,
         CountAccess, ReadDisk, WriteTarget, UnlockFile, CheckRelocate, PassLock, PassCheck,
         MoveFile, LinkFile, StampFile, ClearTarget, PassNext, OneshotRelocate, SetRelocate,
         ResetCounts, ZeroDisks, Break, StopMain, Done
<1>1. AllAssigned'
  BY <1>0 DEF AllAssigned
<1>2. 1 \in Files /\ NFiles \in Nat /\ Main \in Threads /\ Workers \subseteq Threads
  BY RelocationAssumption DEF Files, Threads
<1> USE <1>0, <1>2 DEF TypeOK, PCs, Goto, storage, ranking, locals, scan, MainIdle
<1>3. ASSUME NEW t \in Workers, AccessStep(t)
      PROVE  TypeOK'
  <2>1. CASE PickFile(t)
    BY <2>1 DEF PickFile
  <2>2. CASE StopService(t)
    BY <2>2 DEF StopService
  <2>3. CASE LockFile(t)
    BY <2>3 DEF LockFile
  <2>4. CASE AccessFile(t)
    BY <2>4 DEF AccessFile
  <2>5. CASE CountAccess(t)
    <3> DEFINE f == at[t]
               r == ClimbsTo(f, count[f] + 1)
    <3>1. f \in Files /\ count[f] + 1 \in Nat
      OBVIOUS
    <3>2. r \in 1 .. index[f] /\ index[f] \in Files
      BY <3>1, Climbs
    <3>3. r \in Files
      BY <3>2 DEF Files
    <3>4. sorted' \in [Files -> Files]
      <4>1. \A q \in Files : q \in r + 1 .. index[f] => q - 1 \in Files
        BY <3>2, <3>3 DEF Files
      <4> QED
        BY <2>5, <3>1, <4>1 DEF CountAccess
    <3>5. index' \in [Files -> Files]
      <4>1. \A g \in Files : index[g] \in r .. index[f] - 1 => index[g] + 1 \in Files
        BY <3>2, FileNumbers
      <4> QED
        BY <2>5, <3>3, <4>1 DEF CountAccess
    <3>6. count' \in [Files -> Nat]
      BY <2>5, <3>1 DEF CountAccess
    <3> QED
      BY <2>5, <3>4, <3>5, <3>6 DEF CountAccess
  <2>6. CASE ReadDisk(t)
    BY <2>6 DEF ReadDisk
  <2>7. CASE WriteTarget(t)
    <3>1. DiskOfRank(rank) \in Disks
      BY DiskForEachRank
    <3>2. rank < NFiles => rank + 1 \in Files
      BY DEF Files
    <3> QED
      BY <2>7, <3>1, <3>2 DEF WriteTarget
  <2>8. CASE UnlockFile(t)
    BY <2>8 DEF UnlockFile
  <2>9. CASE CheckRelocate(t)
    BY <2>9 DEF CheckRelocate
  <2> QED
    BY <1>3, <2>1, <2>2, <2>3, <2>4, <2>5, <2>6, <2>7, <2>8, <2>9 DEF AccessStep
<1>4. ASSUME NEW t \in Threads, PassStep(t)
      PROVE  TypeOK'
  <2>1. CASE PassLock(t)
    BY <2>1 DEF PassLock
  <2>2. CASE PassCheck(t)
    BY <2>2 DEF PassCheck
  <2>3. CASE MoveFile(t)
    <3>1. CASE UNCHANGED <<storage, dest>>
      BY <2>3, <3>1 DEF MoveFile
    <3>2. CASE ~UNCHANGED <<storage, dest>>
      <4> DEFINE f == at[t]
                 from == diskOf[f]
                 to == targetOf[f]
      <4>1. f \in Files /\ to \in Disks
        BY <2>3, <3>2 DEF MoveFile
      <4>2. copies' \in [Disks -> SUBSET Files]
        BY <2>3, <3>2, <4>1 DEF MoveFile
      <4>3. made' \in SUBSET (Disks \X Files)
        BY <2>3, <3>2, <4>1 DEF MoveFile
      <4>4. created' \in SUBSET Files
        BY <2>3, <3>2, <4>1 DEF MoveFile
      <4> QED
        BY <2>3, <3>2, <4>1, <4>2, <4>3, <4>4 DEF MoveFile
    <3> QED
      BY <3>1, <3>2
  <2>4. CASE LinkFile(t)
    BY <2>4 DEF LinkFile
  <2>5. CASE StampFile(t)
    BY <2>5 DEF StampFile
  <2>6. CASE ClearTarget(t)
    BY <2>6 DEF ClearTarget
  <2>7. CASE PassNext(t)
    <3>1. at[t] \in Files
      BY <1>4
    <3>2. at[t] < NFiles => at[t] + 1 \in Files
      BY <3>1, FileNumbers
    <3> QED
      BY <1>4, <2>7, <3>2 DEF PassNext
  <2> QED
    BY <1>4, <2>1, <2>2, <2>3, <2>4, <2>5, <2>6, <2>7 DEF PassStep
<1>5. ASSUME Command \/ ZeroDisks \/ Break \/ StopMain \/ Done \/ UNCHANGED vars
      PROVE  TypeOK'
  <2>1. CASE OneshotRelocate
    BY <2>1 DEF OneshotRelocate
  <2>2. ASSUME NEW on \in BOOLEAN, SetRelocate(on)
        PROVE  TypeOK'
    BY <2>2 DEF SetRelocate
  <2>3. CASE ResetCounts
    BY <2>3 DEF ResetCounts
  <2>4. CASE ZeroDisks
    BY <2>4 DEF ZeroDisks
  <2>5. CASE Break \/ StopMain
    BY <2>5 DEF Break, StopMain
  <2>6. CASE Done \/ UNCHANGED vars
    BY <2>6 DEF Done, vars
  <2> QED
    BY <1>5, <2>1, <2>2, <2>3, <2>4, <2>5, <2>6 DEF Command
<1> QED
  BY <1>1, <1>3, <1>4, <1>5 DEF Next

(* Each step takes and releases the locks its place in the code says.      *)
LEMMA StepLocks == TypeOK /\ Locked /\ [Next]_vars => Locked'
<1> SUFFICES ASSUME TypeOK, Locked, [Next]_vars
             PROVE  Locked'
  OBVIOUS
<1>1. Free \notin Threads /\ Main \in Threads /\ Workers \subseteq Threads
  BY RelocationAssumption DEF Threads
<1> USE <1>1 DEF TypeOK, Goto, Locked, HoldsFile, storage, ranking, locals, scan, MainIdle
<1>2. ASSUME NEW t \in Workers, AccessStep(t)
      PROVE  Locked'
  <2>1. CASE PickFile(t)
    BY <2>1 DEF PickFile
  <2>2. CASE StopService(t)
    BY <2>2 DEF StopService
  <2>3. CASE LockFile(t)
    BY <2>3 DEF LockFile
  <2>4. CASE AccessFile(t)
    BY <2>4 DEF AccessFile
  <2>5. CASE CountAccess(t)
    BY <2>5 DEF CountAccess
  <2>6. CASE ReadDisk(t)
    BY <2>6 DEF ReadDisk
  <2>7. CASE WriteTarget(t)
    BY <2>7 DEF WriteTarget
  <2>8. CASE UnlockFile(t)
    BY <2>8 DEF UnlockFile
  <2>9. CASE CheckRelocate(t)
    BY <2>9 DEF CheckRelocate
  <2> QED
    BY <1>2, <2>1, <2>2, <2>3, <2>4, <2>5, <2>6, <2>7, <2>8, <2>9 DEF AccessStep
<1>3. ASSUME NEW t \in Threads, PassStep(t)
      PROVE  Locked'
  <2>1. CASE PassLock(t)
    BY <2>1 DEF PassLock
  <2>2. CASE PassCheck(t)
    BY <2>2 DEF PassCheck
  <2>3. CASE MoveFile(t)
    BY <2>3 DEF MoveFile
  <2>4. CASE LinkFile(t)
    BY <2>4 DEF LinkFile
  <2>5. CASE StampFile(t)
    BY <2>5 DEF StampFile
  <2>6. CASE ClearTarget(t)
    BY <2>6 DEF ClearTarget
  <2>7. CASE PassNext(t)
    BY <2>7 DEF PassNext
  <2> QED
    BY <1>3, <2>1, <2>2, <2>3, <2>4, <2>5, <2>6, <2>7 DEF PassStep
<1>4. ASSUME Command \/ ZeroDisks \/ Break \/ StopMain \/ Done \/ UNCHANGED vars
      PROVE  Locked'
  <2>1. CASE OneshotRelocate
    BY <2>1 DEF OneshotRelocate
  <2>2. ASSUME NEW on \in BOOLEAN, SetRelocate(on)
        PROVE  Locked'
    BY <2>2 DEF SetRelocate
  <2>3. CASE ResetCounts \/ Break \/ Done \/ UNCHANGED vars
    BY <2>3 DEF ResetCounts, Break, Done, vars
  <2>4. CASE ZeroDisks \/ StopMain
    BY <2>4 DEF ZeroDisks, StopMain
  <2> QED
    BY <1>4, <2>1, <2>2, <2>3, <2>4 DEF Command
<1> QED
  BY <1>2, <1>3, <1>4 DEF Next

(* Steps that move no file, as far as the disks are concerned.             *)
LEMMA StepElsewhere ==
  ASSUME TypeOK, [Next]_vars,
         \A t \in Threads : ~MoveFile(t) /\ ~LinkFile(t)
  PROVE  /\ UNCHANGED storage
         /\ \A t \in Threads :
              /\ pc'[t] = "p_link" <=> pc[t] = "p_link"
              /\ pc[t] = "p_link" => at'[t] = at[t] /\ dest'[t] = dest[t]
<1>1. Main \in Threads /\ Workers \subseteq Threads
  BY DEF Threads
<1> USE <1>1 DEF TypeOK, Goto, storage, ranking, locals, scan, MainIdle
<1>2. ASSUME NEW t \in Workers, AccessStep(t)
      PROVE  /\ UNCHANGED storage
             /\ \A u \in Threads :
                  /\ pc'[u] = "p_link" <=> pc[u] = "p_link"
                  /\ pc[u] = "p_link" => at'[u] = at[u] /\ dest'[u] = dest[u]
  BY <1>2 DEF AccessStep, PickFile, StopService, LockFile, AccessFile, CountAccess, ReadDisk,
              WriteTarget, UnlockFile, CheckRelocate
<1>3. ASSUME NEW t \in Threads, PassStep(t)
      PROVE  /\ UNCHANGED storage
             /\ \A u \in Threads :
                  /\ pc'[u] = "p_link" <=> pc[u] = "p_link"
                  /\ pc[u] = "p_link" => at'[u] = at[u] /\ dest'[u] = dest[u]
  BY <1>3 DEF PassStep, PassLock, PassCheck, StampFile, ClearTarget, PassNext
<1>4. ASSUME Command \/ ZeroDisks \/ Break \/ StopMain \/ Done \/ UNCHANGED vars
      PROVE  /\ UNCHANGED storage
             /\ \A u \in Threads :
                  /\ pc'[u] = "p_link" <=> pc[u] = "p_link"
                  /\ pc[u] = "p_link" => at'[u] = at[u] /\ dest'[u] = dest[u]
  BY <1>4 DEF Command, OneshotRelocate, SetRelocate, ResetCounts, ZeroDisks, Break, StopMain,
              Done, vars
<1> QED
  BY <1>2, <1>3, <1>4 DEF Next

(* Each step keeps what a move has put at a file's destination there until *)
(* the file is assigned to it.                                             *)
LEMMA StepOnItsWay == TypeOK /\ OnItsWay /\ [Next]_vars => OnItsWay'
<1> SUFFICES ASSUME TypeOK, OnItsWay, [Next]_vars
             PROVE  OnItsWay'
  OBVIOUS
<1>1. NoDisk \notin Disks
  BY RelocationAssumption DEF NoDisk, Disks
<1>2. ASSUME NEW t \in Threads, MoveFile(t)
      PROVE  OnItsWay'
  BY <1>1, <1>2 DEF MoveFile, OnItsWay, TypeOK, Goto, storage, ranking, scan
<1>3. ASSUME NEW t \in Threads, LinkFile(t)
      PROVE  OnItsWay'
  BY <1>1, <1>3 DEF LinkFile, OnItsWay, TypeOK, Goto, ranking, scan
<1>4. CASE \A t \in Threads : ~MoveFile(t) /\ ~LinkFile(t)
  BY <1>4, StepElsewhere DEF OnItsWay, storage
<1> QED
  BY <1>2, <1>3, <1>4

(* Each step leaves a file at its path or at its destination.              *)
LEMMA StepNeverLost ==
  TypeOK /\ Locked /\ OnItsWay /\ NeverLost /\ [Next]_vars => NeverLost'
<1> SUFFICES ASSUME TypeOK, Locked, OnItsWay, NeverLost, [Next]_vars
             PROVE  NeverLost'
  OBVIOUS
<1>2. ASSUME NEW t \in Threads, MoveFile(t)
      PROVE  NeverLost'
  <2>1. CASE UNCHANGED <<storage, dest>>
    BY <1>2, <2>1 DEF MoveFile, NeverLost, TypeOK, Goto, storage
  <2>2. CASE ~UNCHANGED <<storage, dest>>
    <3> DEFINE f == at[t]
               to == targetOf[f]
    <3>1. f \in Files /\ to \in Disks /\ diskOf[f] # to
      BY <1>2, <2>2 DEF MoveFile, TypeOK
    <3>2. \A u \in Threads : u # t /\ pc[u] = "p_link" => at[u] # f
      BY <1>2, <3>1 DEF MoveFile, Locked, HoldsFile
    <3>3. /\ f \in copies'[to]
          /\ \A g \in Files, d \in Disks : g # f => (g \in copies'[d] <=> g \in copies[d])
      BY <1>2, <2>2, <3>1 DEF MoveFile, TypeOK
    <3>4. /\ diskOf' = [diskOf EXCEPT ![f] = NoDisk]
          /\ dest' = [dest EXCEPT ![t] = to]
          /\ pc' = [pc EXCEPT ![t] = "p_link"]
          /\ at' = at
      BY <1>2, <2>2 DEF MoveFile, Goto
    <3>5. \A g \in Files : diskOf'[g] # NoDisk => g \in copies'[diskOf'[g]]
      BY <3>1, <3>3, <3>4 DEF NeverLost, TypeOK
    <3>6. \A u \in Threads : pc'[u] = "p_link" => at'[u] \in copies'[dest'[u]]
      BY <3>1, <3>2, <3>3, <3>4 DEF NeverLost, TypeOK, OnItsWay
    <3> QED
      BY <3>5, <3>6 DEF NeverLost
  <2> QED
    BY <2>1, <2>2
<1>3. ASSUME NEW t \in Threads, LinkFile(t)
      PROVE  NeverLost'
  BY <1>3 DEF LinkFile, NeverLost, TypeOK, Goto, ranking, scan
<1>4. CASE \A t \in Threads : ~MoveFile(t) /\ ~LinkFile(t)
  BY <1>4, StepElsewhere DEF NeverLost, storage
<1> QED
  BY <1>2, <1>3, <1>4

(* A move sets the flag exactly when it makes the path it goes to.         *)
LEMMA StepCreated ==
  TypeOK /\ Locked /\ CreatedMeansMade /\ [Next]_vars => CreatedMeansMade'
<1> SUFFICES ASSUME TypeOK, Locked, CreatedMeansMade, [Next]_vars
             PROVE  CreatedMeansMade'
  OBVIOUS
<1>1. ASSUME NEW t \in Threads, MoveFile(t)
      PROVE  CreatedMeansMade'
  <2>1. CASE UNCHANGED <<storage, dest>>
    BY <1>1, <2>1 DEF MoveFile, CreatedMeansMade, TypeOK, Goto, storage
  <2>2. CASE ~UNCHANGED <<storage, dest>>
    <3> DEFINE f == at[t]
               to == targetOf[f]
    <3>1. f \in Files /\ to \in Disks /\ diskOf[f] # to
      BY <1>1, <2>2 DEF MoveFile, TypeOK
    <3>2. \A u \in Threads : u # t /\ pc[u] = "p_link" => at[u] # f
      BY <1>1, <3>1 DEF MoveFile, Locked, HoldsFile
    <3>3. /\ diskOf' = [diskOf EXCEPT ![f] = NoDisk]
          /\ dest' = [dest EXCEPT ![t] = to]
          /\ pc' = [pc EXCEPT ![t] = "p_link"]
          /\ at' = at
          /\ created' = IF f \in copies[to] THEN created \ {f} ELSE created \cup {f}
          /\ made' = (made \ {<<diskOf[f], f>>}) \cup ({to} \X ({f} \ copies[to]))
      BY <1>1, <2>2 DEF MoveFile, Goto
    <3>4. f \in created' => <<to, f>> \in made'
      BY <3>1, <3>3 DEF TypeOK
    <3>5. \A g \in created' : g # f => g \in created /\ diskOf'[g] = diskOf[g]
      BY <3>1, <3>3 DEF TypeOK
    <3>6. \A g \in Files, d \in Disks : g # f /\ <<d, g>> \in made => <<d, g>> \in made'
      BY <3>3
    <3>7. ASSUME NEW g \in created', diskOf'[g] # NoDisk
          PROVE  <<diskOf'[g], g>> \in made'
      <4>1. g # f
        BY <3>1, <3>3, <3>7 DEF TypeOK
      <4> QED
        BY <3>5, <3>6, <3>7, <4>1 DEF CreatedMeansMade, TypeOK
    <3>8. ASSUME NEW g \in created', NEW u \in Threads, pc'[u] = "p_link", at'[u] = g
          PROVE  <<dest'[u], g>> \in made'
      <4>1. CASE u = t
        BY <3>3, <3>4, <3>8, <4>1 DEF TypeOK
      <4>2. CASE u # t
        <5>1. pc[u] = "p_link" /\ at[u] = g /\ dest'[u] = dest[u] /\ g # f
          BY <3>2, <3>3, <3>8, <4>2 DEF TypeOK
        <5>2. <<dest[u], g>> \in made
          BY <3>5, <5>1 DEF CreatedMeansMade
        <5> QED
          BY <3>3, <5>1, <5>2
      <4> QED
        BY <4>1, <4>2
    <3> QED
      BY <3>7, <3>8 DEF CreatedMeansMade
  <2> QED
    BY <2>1, <2>2
<1>2. ASSUME NEW t \in Threads, LinkFile(t)
      PROVE  CreatedMeansMade'
  BY <1>2 DEF LinkFile, CreatedMeansMade, TypeOK, Goto, ranking, scan
<1>3. CASE \A t \in Threads : ~MoveFile(t) /\ ~LinkFile(t)
  BY <1>3, StepElsewhere DEF CreatedMeansMade, storage
<1> QED
  BY <1>1, <1>2, <1>3

(* One access lets its file climb to where it belongs.                     *)
LEMMA CountKeepsRanks ==
  ASSUME TypeOK, RankedByUse, NEW t \in Threads, CountAccess(t)
  PROVE  RankedByUse'
<1> DEFINE f == at[t]
           n == count[f] + 1
           i == index[f]
           r == ClimbsTo(f, n)
<1>1. /\ f \in Files /\ n \in Nat /\ i \in Files /\ sorted[i] = f
      /\ \A q \in Files : count[sorted[q]] \in Nat /\ sorted[q] \in Files
      /\ \A g \in Files : index[g] \in Files /\ sorted[index[g]] = g
      /\ \A q \in Files : index[sorted[q]] = q
  BY DEF TypeOK, RankedByUse
<1>2. /\ r \in 1 .. i
      /\ \A q \in r .. i - 1 : count[sorted[q]] < n
      /\ r > 1 => count[sorted[r - 1]] >= n
  BY <1>1, Climbs DEF TypeOK
<1>3. /\ r \in Nat /\ r >= 1 /\ r <= i /\ i \in Nat /\ i <= NFiles /\ NFiles \in Nat
      /\ r \in Files
  BY <1>1, <1>2, FileNumbers, RelocationAssumption
<1>4. /\ \A g \in Files : count'[g] = IF g = f THEN n ELSE count[g]
      /\ \A q \in Files : sorted'[q] = IF q = r THEN f
                                     ELSE IF q \in r + 1 .. i THEN sorted[q - 1]
                                     ELSE sorted[q]
      /\ \A g \in Files : index'[g] = IF g = f THEN r
                                    ELSE IF index[g] \in r .. i - 1 THEN index[g] + 1
                                    ELSE index[g]
  BY <1>1 DEF CountAccess, TypeOK
<1> HIDE DEF f, n, i, r
<1>5. ASSUME NEW g \in Files
      PROVE  sorted'[index'[g]] = g
  <2>1. CASE g = f
    BY <1>3, <1>4, <2>1
  <2>2. CASE g # f /\ index[g] \in r .. i - 1
    <3>1. index[g] + 1 \in Files /\ index[g] + 1 \in r + 1 .. i /\ index[g] + 1 # r
      BY <1>1, <1>3, <2>2, FileNumbers
    <3> QED
      BY <1>1, <1>3, <1>4, <2>2, <3>1, FileNumbers
  <2>3. CASE g # f /\ index[g] \notin r .. i - 1
    <3>1. index[g] # i
      BY <1>1, <2>3 DEF i
    <3>2. index[g] # r /\ index[g] \notin r + 1 .. i
      BY <1>1, <1>3, <2>3, <3>1, FileNumbers
    <3> QED
      BY <1>1, <1>4, <2>3, <3>2
  <2> QED
    BY <2>1, <2>2, <2>3
<1>6. ASSUME NEW q \in Files
      PROVE  index'[sorted'[q]] = q
  <2>1. CASE q = r
    BY <1>1, <1>4, <2>1
  <2>2. CASE q \in r + 1 .. i
    <3>1. q - 1 \in Files /\ q - 1 \in r .. i - 1 /\ q # r /\ q - 1 # i
      BY <1>3, <2>2, FileNumbers
    <3>2. sorted'[q] = sorted[q - 1] /\ index[sorted[q - 1]] = q - 1
      BY <1>1, <1>4, <2>2, <3>1
    <3>3. sorted[q - 1] # f
      BY <3>1, <3>2 DEF i
    <3> QED
      BY <1>1, <1>3, <1>4, <3>1, <3>2, <3>3, FileNumbers
  <2>3. CASE q # r /\ q \notin r + 1 .. i
    <3>1. sorted'[q] = sorted[q] /\ index[sorted[q]] = q
      BY <1>1, <1>4, <2>3
    <3>2. q # i /\ q \notin r .. i - 1
      BY <1>3, <2>3, FileNumbers
    <3>3. sorted[q] # f
      BY <3>1, <3>2 DEF i
    <3> QED
      BY <1>1, <1>4, <3>1, <3>2, <3>3
  <2> QED
    BY <2>1, <2>2, <2>3
<1>7. ASSUME NEW q \in Files \ {NFiles}
      PROVE  count'[sorted'[q]] >= count'[sorted'[q + 1]]
  <2>0. /\ q \in Files /\ q + 1 \in Files /\ q \in Nat /\ q >= 1
        /\ \A p \in Files \ {NFiles} : count[sorted[p]] >= count[sorted[p + 1]]
    BY FileNumbers, <1>3 DEF RankedByUse
  <2>a. \A p \in Files : p # i => count'[sorted[p]] = count[sorted[p]]
    BY <1>1, <1>4 DEF i
  <2>b. count'[f] = n /\ count[sorted[i]] < n
    BY <1>1, <1>4 DEF n
  <2>1. CASE q + 1 < r
    <3>1. sorted'[q] = sorted[q] /\ sorted'[q + 1] = sorted[q + 1]
      BY <1>3, <1>4, <2>0, <2>1
    <3> QED
      BY <1>3, <2>0, <2>a, <2>1, <3>1
  <2>2. CASE q + 1 = r
    <3>1. sorted'[q] = sorted[q] /\ sorted'[q + 1] = f /\ q # i /\ q = r - 1
      BY <1>3, <1>4, <2>0, <2>2
    <3> QED
      BY <1>2, <1>3, <2>0, <2>2, <2>a, <2>b, <3>1
  <2>3. CASE q = r /\ r < i
    <3>1. sorted'[q] = f /\ sorted'[q + 1] = sorted[r] /\ r \in r .. i - 1
      BY <1>3, <1>4, <2>0, <2>3
    <3> QED
      BY <1>1, <1>2, <1>3, <2>0, <2>3, <2>a, <2>b, <3>1
  <2>4. CASE q = r /\ r = i
    <3>1. sorted'[q] = f /\ sorted'[q + 1] = sorted[q + 1] /\ q + 1 # i
      BY <1>3, <1>4, <2>0, <2>4
    <3> QED
      BY <1>1, <1>3, <2>0, <2>4, <2>a, <2>b, <3>1
  <2>5. CASE q > r /\ q < i
    <3>1. /\ sorted'[q] = sorted[q - 1] /\ sorted'[q + 1] = sorted[q]
          /\ q - 1 \in Files \ {NFiles} /\ q - 1 # i /\ q # i /\ (q - 1) + 1 = q
      BY <1>3, <1>4, <2>0, <2>5, FileNumbers
    <3> QED
      BY <2>0, <2>a, <3>1
  <2>6. CASE q > r /\ q = i
    <3>1. /\ sorted'[q] = sorted[q - 1] /\ sorted'[q + 1] = sorted[q + 1]
          /\ q - 1 \in Files \ {NFiles} /\ q - 1 # i /\ q + 1 # i /\ (q - 1) + 1 = q
      BY <1>3, <1>4, <2>0, <2>6, FileNumbers
    <3>2. count[sorted[q - 1]] >= count[sorted[q]] /\ count[sorted[q]] >= count[sorted[q + 1]]
      BY <2>0, <3>1
    <3> QED
      BY <1>1, <2>0, <2>a, <3>1, <3>2
  <2>7. CASE q > i
    <3>1. sorted'[q] = sorted[q] /\ sorted'[q + 1] = sorted[q + 1] /\ q # i /\ q + 1 # i
      BY <1>3, <1>4, <2>0, <2>7
    <3> QED
      BY <2>0, <2>a, <3>1
  <2> QED
    BY <1>3, <2>0, <2>1, <2>2, <2>3, <2>4, <2>5, <2>6, <2>7
<1> QED
  BY <1>5, <1>6, <1>7 DEF RankedByUse

(* Only an access that counts and a reset touch the order; both keep it.   *)
LEMMA StepRanked == TypeOK /\ RankedByUse /\ [Next]_vars => RankedByUse'
<1> SUFFICES ASSUME TypeOK, RankedByUse, [Next]_vars
             PROVE  RankedByUse'
  OBVIOUS
<1>1. ASSUME NEW t \in Threads, CountAccess(t)
      PROVE  RankedByUse'
  BY <1>1, CountKeepsRanks
<1>2. CASE ResetCounts
  <2>1. \A q \in Files \ {NFiles} : q + 1 \in Files
    BY FileNumbers, RelocationAssumption
  <2>2. UNCHANGED <<sorted, index>> /\ \A g \in Files : count'[g] = 0
    BY <1>2 DEF ResetCounts
  <2> QED
    BY <2>1, <2>2 DEF RankedByUse, TypeOK
<1>3. CASE UNCHANGED ranking
  BY <1>3 DEF ranking, RankedByUse
<1>4. ASSUME NEW t \in Workers, AccessStep(t), ~CountAccess(t)
      PROVE  UNCHANGED ranking
  BY <1>4 DEF AccessStep, PickFile, StopService, LockFile, AccessFile, ReadDisk,
              WriteTarget, UnlockFile, CheckRelocate
<1>5. ASSUME NEW t \in Threads, PassStep(t)
      PROVE  UNCHANGED ranking
  BY <1>5 DEF PassStep, PassLock, PassCheck, MoveFile, LinkFile, StampFile, ClearTarget, PassNext
<1>6. ASSUME Command \/ ZeroDisks \/ Break \/ StopMain \/ Done \/ UNCHANGED vars, ~ResetCounts
      PROVE  UNCHANGED ranking
  BY <1>6 DEF Command, OneshotRelocate, SetRelocate, ZeroDisks, Break, StopMain, Done, vars,
              ranking
<1> QED
  BY <1>1, <1>2, <1>3, <1>4, <1>5, <1>6 DEF Next, Threads

(* The inductive invariant holds throughout.                               *)
LEMMA Inductive == Spec => []IInv
<1>1. Init => IInv
  <2> SUFFICES ASSUME Init PROVE IInv
    OBVIOUS
  <2>1. NoDisk \notin Disks /\ Free \notin Threads
    BY RelocationAssumption DEF NoDisk, Disks
  <2>2. \A q \in Files \ {NFiles} : q + 1 \in Files
    BY FileNumbers, RelocationAssumption
  <2> QED
    BY <2>1, <2>2, InitTypes DEF IInv, Init, Locked, HoldsFile, OnItsWay, NeverLost,
                              CreatedMeansMade, RankedByUse
<1>2. IInv /\ [Next]_vars => IInv'
  BY StepTypes, StepLocks, StepOnItsWay, StepNeverLost, StepCreated, StepRanked DEF IInv
<1> QED
  BY <1>1, <1>2, PTL DEF Spec

-----------------------------------------------------------------------------
(* Every variable of access and relocation keeps its type; in particular   *)
(* the ranking finds a disk for every rank.                                *)
THEOREM TypeCorrect == Spec => []TypeOK
<1> QED
  BY Inductive, PTL DEF IInv

(* A thread waits for a file's lock with no lock in its hands, and for     *)
(* nothing with m_reassign_lock: no deadlock among any number of threads.  *)
THEOREM LocksOrdered == Spec => []LockOrder
<1>1. IInv => LockOrder
  BY DEF IInv, Locked, HoldsFile, LockOrder
<1> QED
  BY <1>1, Inductive, PTL

(* No pass takes a file away while it is accessed and counted.             *)
THEOREM NoMoveUnderAccess == Spec => []AccessedFileStays
<1>1. IInv => AccessedFileStays
  <2> SUFFICES ASSUME IInv, NEW t \in Threads, pc[t] \in {"count", "read", "write"},
                      diskOf[at[t]] = NoDisk
               PROVE  FALSE
    BY DEF AccessedFileStays
  <2>1. at[t] \in Files
    BY DEF IInv, TypeOK
  <2>2. PICK u \in Threads : pc[u] = "p_link" /\ at[u] = at[t]
    BY <2>1 DEF IInv, OnItsWay
  <2>3. accessLock[at[t]] = t /\ accessLock[at[t]] = u
    BY <2>1, <2>2 DEF IInv, Locked, HoldsFile
  <2> QED
    BY <2>2, <2>3
<1> QED
  BY <1>1, Inductive, PTL

(* Moving files back and forth between disks loses none.                   *)
THEOREM NothingLost == Spec => []NeverLost
<1> QED
  BY Inductive, PTL DEF IInv

(* A step deletes no path but one that a move of this run has made: what   *)
(* else lies on the disks is left alone.                                   *)
THEOREM OnlyMovedDeleted == Spec => DeletesOnlyMoved
<1>1. ASSUME IInv, [Next]_vars, NEW d \in Disks, NEW f \in copies[d] \ copies'[d]
      PROVE  <<d, f>> \in made
  <2>1. TypeOK /\ CreatedMeansMade
    BY <1>1 DEF IInv
  <2>2. PICK t \in Threads : MoveFile(t) \/ LinkFile(t)
    BY <1>1, <2>1, StepElsewhere DEF storage
  <2>3. MoveFile(t)
    BY <2>2 DEF LinkFile
  <2>4. f = at[t] /\ d = diskOf[f] /\ f \in created
    BY <2>1, <2>3 DEF MoveFile, TypeOK, storage
  <2>5. d # NoDisk
    BY RelocationAssumption DEF Disks, NoDisk
  <2> QED
    BY <2>1, <2>4, <2>5 DEF CreatedMeansMade
<1>2. IInv /\ [Next]_vars =>
        [\A d \in Disks : \A f \in copies[d] \ copies'[d] : <<d, f>> \in made]_vars
  BY <1>1
<1> QED
  BY <1>2, Inductive, PTL DEF Spec, DeletesOnlyMoved

(* The files stay ordered by use.                                          *)
THEOREM AlwaysRanked == Spec => []RankedByUse
<1> QED
  BY Inductive, PTL DEF IInv

-----------------------------------------------------------------------------
(* One access service alone, no relocation commands, moves that succeed:   *)
(* what Settled needs (MCRelocation_lost_target shows two services).       *)
OneService ==
  /\ \A t, u \in Workers : t = u
  /\ Commands \subseteq {"!"}
  /\ ~MovesFail

(* Has an access been counted?                                             *)
Counting == \E f \in Files : count[f] > 1

Place(f) == DiskOfRank(index[f])
Aimed(f) == targetOf[f] = IF diskOf[f] = Place(f) THEN NoDisk ELSE Place(f)
There(f) == diskOf[f] = Place(f) /\ targetOf[f] = NoDisk

(* The ranking loop aims each file at its place, rank by rank.             *)
Aiming(t) ==
  /\ pc[t] \in {"read", "write"} => \A q \in Files : q < rank => Aimed(sorted[q])
  /\ pc[t] = "write" => seen = diskOf[sorted[rank]]

(* All files stay aimed until a pass has brought each where it belongs.    *)
Passing(t) ==
  /\ pc[t] \in {"idle", "lock", "access", "count", "unlock", "check"} =>
       \A g \in Files : Aimed(g)
  /\ pc[t] = "idle" /\ relocate => \A g \in Files : There(g)
  /\ pc[t] \in {"p_lock", "p_check", "p_move", "p_link", "p_stamp", "p_clear", "p_next"} =>
       \A g \in Files : /\ g < at[t] => There(g)
                        /\ g > at[t] => Aimed(g)
  /\ pc[t] \in {"p_lock", "p_check", "p_move"} => Aimed(at[t])
  /\ pc[t] = "p_link" => dest[t] = Place(at[t])
  /\ pc[t] \in {"p_stamp", "p_clear"} => diskOf[at[t]] = Place(at[t])
  /\ pc[t] = "p_next" => There(at[t])

Settling ==
  /\ pc[Main] \in {"idle", "done"}
  /\ Counting => Workers # {}
  /\ \A t \in Workers : /\ Aiming(t)
                        /\ pc[t] = "check" => at[t] = 1
                        /\ Counting => Passing(t)

LEMMA InitSettling == Init => Settling
<1>. SUFFICES ASSUME Init PROVE Settling
  OBVIOUS
<1>1. Main \in Threads /\ Workers \subseteq Threads
  BY DEF Threads
<1>2. ~Counting
  BY DEF Init, Counting
<1>. QED  BY <1>1, <1>2 DEF Init, Settling, Aiming

LEMMA FileOrder ==
  \A f, g \in Files :
    /\ f < g + 1 <=> f < g \/ f = g
    /\ f < g => f # g
    /\ f > g => f # g
    /\ f > g + 1 => f > g
    /\ ~(g < NFiles) /\ f # g => f < g
BY RelocationAssumption DEF Files

LEMMA PlaceIsDisk ==
  ASSUME TypeOK, AllAssigned, NEW f \in Files
  PROVE  Place(f) \in Disks /\ Place(f) # NoDisk
<1>1. Place(f) \in Disks
  BY DiskForEachRank DEF TypeOK, Place
<1>. QED  BY <1>1, RelocationAssumption DEF Disks, NoDisk

(* The ranking loop's steps.                                               *)
LEMMA RankingSettles ==
  ASSUME OneService, IInv, Settling, NEW t \in Workers,
         CountAccess(t) \/ ReadDisk(t) \/ WriteTarget(t)
  PROVE  Aiming(t)' /\ pc'[t] # "check" /\ (Counting' => Passing(t)')
<1>. USE DEF IInv, TypeOK, Goto, storage, ranking, locals, scan
<1>1. t \in Threads /\ 1 \in Files /\ NFiles \in Nat
  BY RelocationAssumption DEF Threads, Files
<1>2. CASE CountAccess(t)
  <2>1. pc'[t] = "read" /\ rank' = 1
    BY <1>1, <1>2 DEF CountAccess
  <2>2. \A q \in Files : ~(q < 1)
    BY FileNumbers
  <2>. QED  BY <2>1, <2>2 DEF Aiming, Passing
<1>3. CASE ReadDisk(t)
  <2>1. pc[t] = "read" /\ pc'[t] = "write" /\ seen' = diskOf[sorted[rank]]
    BY <1>1, <1>3 DEF ReadDisk
  <2>2. UNCHANGED <<nextFileIndex, diskOf, targetOf, index, sorted, rank>>
    BY <1>3 DEF ReadDisk
  <2>3. \A f \in Files : Aimed(f)' = Aimed(f)
    BY <2>2 DEF Aimed, Place, DiskOfRank
  <2>. QED  BY <2>1, <2>2, <2>3 DEF Aiming, Passing, Settling
<1>4. CASE WriteTarget(t)
  <2>1. /\ pc[t] = "write" /\ seen = diskOf[sorted[rank]]
        /\ \A q \in Files : q < rank => Aimed(sorted[q])
    BY <1>4 DEF WriteTarget, Settling, Aiming
  <2>2. UNCHANGED <<nextFileIndex, diskOf, index, sorted>>
    BY <1>4 DEF WriteTarget
  <2>3. \A f \in Files : Place(f)' = Place(f)
    BY <2>2 DEF Place, DiskOfRank
  <2>4. index[sorted[rank]] = rank /\ sorted[rank] \in Files /\ rank \in Files
    BY DEF RankedByUse
  <2>5. targetOf' = [targetOf EXCEPT ![sorted[rank]] =
                       IF seen = DiskOfRank(rank) THEN NoDisk ELSE DiskOfRank(rank)]
    BY <1>4 DEF WriteTarget
  <2>6. ASSUME NEW f \in Files, f = sorted[rank] PROVE Aimed(f)'
    <3>1. seen = diskOf[f] /\ Place(f) = DiskOfRank(rank)
      BY <2>1, <2>4, <2>6 DEF Place
    <3>2. targetOf'[f] = IF diskOf[f] = Place(f) THEN NoDisk ELSE Place(f)
      BY <2>5, <2>6, <3>1
    <3>. QED  BY <2>2, <2>3, <3>2 DEF Aimed
  <2>7. ASSUME NEW q \in Files, q < rank PROVE Aimed(sorted[q])'
    <3>1. sorted[q] # sorted[rank]
      BY <2>4, <2>7, FileNumbers DEF RankedByUse
    <3>2. sorted[q] \in Files /\ Aimed(sorted[q])
      BY <2>1, <2>7
    <3>. QED  BY <2>2, <2>3, <2>5, <3>1, <3>2 DEF Aimed
  <2>8. \A q \in Files : q < rank + 1 => Aimed(sorted[q])'
    <3>. SUFFICES ASSUME NEW q \in Files, q < rank + 1 PROVE Aimed(sorted[q])'
      OBVIOUS
    <3>1. CASE q = rank
      <4>1. PICK f \in Files : f = sorted[q]
        OBVIOUS
      <4>2. Aimed(f)' /\ sorted'[q] = f
        BY <2>2, <2>6, <3>1, <4>1
      <4>. QED  BY <4>2
    <3>2. q # rank => q < rank
      BY <2>4, FileOrder
    <3>. QED  BY <2>7, <3>1, <3>2
  <2>9. CASE rank < NFiles
    <3>1. pc'[t] = "read" /\ rank' = rank + 1
      BY <1>1, <1>4, <2>9 DEF WriteTarget
    <3>. QED  BY <2>2, <2>8, <3>1 DEF Aiming, Passing
  <2>10. CASE ~(rank < NFiles)
    <3>1. pc'[t] = "unlock"
      BY <1>1, <1>4, <2>10 DEF WriteTarget
    <3>2. \A q \in Files : q < rank + 1
      BY <1>1, <2>4, <2>10, FileNumbers
    <3>3. \A g \in Files : index[g] \in Files /\ sorted[index[g]] = g
      BY DEF RankedByUse
    <3>4. \A g \in Files : Aimed(g)'
      BY <2>2, <2>8, <3>2, <3>3
    <3>. QED  BY <3>1, <3>4 DEF Aiming, Passing
  <2>. QED  BY <2>9, <2>10
<1>. QED  BY <1>2, <1>3, <1>4

LEMMA AccessSettles ==
  ASSUME OneService, IInv, Settling, NEW t \in Workers, AccessStep(t)
  PROVE  Aiming(t)' /\ (pc'[t] = "check" => at'[t] = 1) /\ (Counting' => Passing(t)')
<1>. USE DEF IInv, TypeOK, Goto, storage, ranking, locals, scan
<1>1. t \in Threads /\ 1 \in Files
  BY RelocationAssumption DEF Threads, Files
<1>2. CASE CountAccess(t) \/ ReadDisk(t) \/ WriteTarget(t)
  BY <1>2, RankingSettles
<1>3. CASE ~(CountAccess(t) \/ ReadDisk(t) \/ WriteTarget(t))
  <2>1. UNCHANGED <<nextFileIndex, diskOf, targetOf, count, sorted, index, relocate>>
    BY <1>3 DEF AccessStep, PickFile, StopService, LockFile, AccessFile, UnlockFile, CheckRelocate
  <2>2. \A f \in Files : /\ Aimed(f)' = Aimed(f) /\ There(f)' = There(f)
                          /\ Place(f)' = Place(f)
    BY <2>1 DEF Aimed, There, Place, DiskOfRank
  <2>3. Counting' = Counting
    BY <2>1 DEF Counting
  <2>4. /\ pc[t] \in {"idle", "lock", "access", "unlock", "check"}
        /\ pc'[t] \in {"done", "lock", "access", "count", "unlock", "check", "p_lock", "idle"}
        /\ pc'[t] = "check" => at'[t] = 1
        /\ pc'[t] = "p_lock" => at'[t] = at[t] /\ pc[t] = "check"
        /\ pc'[t] = "idle" => ~relocate
    BY <1>1, <1>3 DEF AccessStep, PickFile, StopService, LockFile, AccessFile, UnlockFile,
       CheckRelocate
  <2>5. Aiming(t)'
    BY <2>4 DEF Aiming
  <2>6. ASSUME Counting PROVE Passing(t)'
    <3>1. \A g \in Files : Aimed(g)'
      BY <2>2, <2>4, <2>6 DEF Settling, Passing
    <3>2. CASE pc'[t] = "p_lock"
      <4>1. at'[t] = 1
        BY <2>4, <3>2 DEF Settling
      <4>2. \A g \in Files : ~(g < 1)
        BY FileNumbers
      <4>. QED  BY <1>1, <3>1, <3>2, <4>1, <4>2 DEF Passing
    <3>3. CASE pc'[t] # "p_lock"
      BY <2>1, <2>4, <3>1, <3>3 DEF Passing
    <3>. QED  BY <3>2, <3>3
  <2>. QED  BY <2>3, <2>4, <2>5, <2>6
<1>. QED  BY <1>2, <1>3

(* The pass's steps: a file that is aimed elsewhere is moved there.        *)
LEMMA PassSettles ==
  ASSUME OneService, IInv, Settling, NEW t \in Workers, PassStep(t)
  PROVE  Aiming(t)' /\ (pc'[t] = "check" => at'[t] = 1) /\ (Counting' => Passing(t)')
<1>. USE DEF IInv, TypeOK, Goto, storage, ranking, locals, scan
<1>1. t \in Threads /\ NFiles \in Nat
  BY RelocationAssumption DEF Threads
<1>2. pc'[t] \notin {"read", "write", "check"}
  BY <1>1 DEF PassStep, PassLock, PassCheck, MoveFile, LinkFile, StampFile, ClearTarget, PassNext
<1>3. Aiming(t)'
  BY <1>2 DEF Aiming
<1>4. UNCHANGED <<nextFileIndex, count, sorted, index, relocate>>
  BY DEF PassStep, PassLock, PassCheck, MoveFile, LinkFile, StampFile, ClearTarget, PassNext
<1>5. \A f \in Files : Place(f)' = Place(f)
  BY <1>4 DEF Place, DiskOfRank
<1>6. Counting' = Counting
  BY <1>4 DEF Counting
<1>7. ASSUME Counting PROVE Passing(t)'
  <2>. Passing(t)
    BY <1>7 DEF Settling
  <2>1. at[t] \in Files
    BY <1>1
  <2>2. Place(at[t]) \in Disks /\ Place(at[t]) # NoDisk
    BY <2>1, PlaceIsDisk
  <2>3. CASE PassLock(t) \/ PassCheck(t) \/ StampFile(t)
    <3>1. UNCHANGED <<diskOf, targetOf, at>>
      BY <2>3 DEF PassLock, PassCheck, StampFile
    <3>2. \A f \in Files : Aimed(f)' = Aimed(f) /\ There(f)' = There(f)
      BY <1>5, <3>1 DEF Aimed, There
    <3>3. \/ pc[t] = "p_lock" /\ pc'[t] = "p_check"
          \/ pc[t] = "p_check" /\ pc'[t] = "p_move"
          \/ pc[t] = "p_check" /\ pc'[t] = "p_next" /\ targetOf[at[t]] = NoDisk
          \/ pc[t] = "p_stamp" /\ pc'[t] = "p_clear"
      BY <1>1, <2>3 DEF PassLock, PassCheck, StampFile
    <3>4. pc'[t] = "p_next" => There(at[t])
      BY <2>2, <3>3 DEF Passing, Aimed, There
    <3>5. \A g \in Files : (g < at[t] => There(g)) /\ (g > at[t] => Aimed(g))
      BY <3>3 DEF Passing
    <3>6. pc'[t] \in {"p_check", "p_move"} => Aimed(at[t])
      BY <3>3 DEF Passing
    <3>7. pc'[t] = "p_clear" => diskOf[at[t]] = Place(at[t])
      BY <3>3 DEF Passing
    <3>. QED  BY <1>5, <2>1, <3>1, <3>2, <3>3, <3>4, <3>5, <3>6, <3>7 DEF Passing
  <2>4. CASE MoveFile(t)
    <3>1. pc[t] = "p_move" /\ UNCHANGED <<targetOf, at>>
      BY <2>4 DEF MoveFile
    <3>2. Aimed(at[t]) /\ \A g \in Files : (g < at[t] => There(g)) /\ (g > at[t] => Aimed(g))
      BY <3>1 DEF Passing
    <3>3. diskOf[at[t]] # NoDisk
      <4>1. \A u \in Threads : pc[u] # "p_link"
        BY <3>1 DEF OneService, Settling, Threads
      <4>. QED  BY <2>1, <4>1 DEF OnItsWay
    <3>4. at[t] \in copies[diskOf[at[t]]]
      BY <2>1, <3>3 DEF NeverLost
    <3>5. \A g \in Files : g # at[t] => diskOf'[g] = diskOf[g]
      BY <2>4 DEF MoveFile
    <3>6. \A g \in Files : g # at[t] => Aimed(g)' = Aimed(g) /\ There(g)' = There(g)
      BY <1>5, <3>1, <3>5 DEF Aimed, There
    <3>7. \A g \in Files : (g < at[t] => There(g)') /\ (g > at[t] => Aimed(g)')
      BY <2>1, <3>2, <3>6, FileOrder
    <3>8. CASE targetOf[at[t]] \in {NoDisk, diskOf[at[t]]}
      <4>1. pc'[t] = "p_clear" /\ diskOf' = diskOf
        BY <1>1, <2>4, <3>8 DEF MoveFile
      <4>2. diskOf[at[t]] = Place(at[t])
        BY <2>2, <3>2, <3>8 DEF Aimed
      <4>. QED  BY <1>5, <2>1, <3>1, <3>7, <4>1, <4>2 DEF Passing
    <3>9. CASE targetOf[at[t]] \notin {NoDisk, diskOf[at[t]]}
      <4>1. pc'[t] = "p_link" /\ dest'[t] = targetOf[at[t]]
        BY <1>1, <2>4, <3>4, <3>9 DEF MoveFile, OneService
      <4>2. targetOf[at[t]] = Place(at[t])
        BY <3>2, <3>9 DEF Aimed
      <4>. QED  BY <1>5, <2>1, <3>1, <3>7, <4>1, <4>2 DEF Passing
    <3>. QED  BY <3>8, <3>9
  <2>5. CASE LinkFile(t)
    <3>1. /\ pc[t] = "p_link" /\ pc'[t] = "p_stamp" /\ UNCHANGED <<targetOf, at>>
          /\ diskOf' = [diskOf EXCEPT ![at[t]] = dest[t]]
      BY <1>1, <2>5 DEF LinkFile
    <3>2. dest[t] = Place(at[t])
      BY <3>1 DEF Passing
    <3>3. \A g \in Files : g # at[t] => Aimed(g)' = Aimed(g) /\ There(g)' = There(g)
      BY <1>5, <3>1 DEF Aimed, There
    <3>4. \A g \in Files : (g < at[t] => There(g)') /\ (g > at[t] => Aimed(g)')
      BY <2>1, <3>1, <3>3, FileOrder DEF Passing
    <3>5. diskOf'[at[t]] = Place(at[t])
      BY <2>1, <3>1, <3>2
    <3>. QED  BY <1>5, <2>1, <3>1, <3>4, <3>5 DEF Passing
  <2>6. CASE ClearTarget(t)
    <3>1. /\ pc[t] = "p_clear" /\ pc'[t] = "p_next" /\ UNCHANGED <<diskOf, at>>
          /\ targetOf' = [targetOf EXCEPT ![at[t]] = NoDisk]
      BY <1>1, <2>6 DEF ClearTarget
    <3>2. \A g \in Files : g # at[t] => Aimed(g)' = Aimed(g) /\ There(g)' = There(g)
      BY <1>5, <3>1 DEF Aimed, There
    <3>3. \A g \in Files : (g < at[t] => There(g)') /\ (g > at[t] => Aimed(g)')
      BY <2>1, <3>1, <3>2, FileOrder DEF Passing
    <3>4. diskOf'[at[t]] = Place(at[t]) /\ targetOf'[at[t]] = NoDisk
      BY <2>1, <3>1 DEF Passing
    <3>5. ASSUME NEW f \in Files, f = at[t] PROVE There(f)'
      BY <1>5, <3>4, <3>5 DEF There
    <3>. QED  BY <2>1, <3>1, <3>3, <3>5 DEF Passing
  <2>7. CASE PassNext(t)
    <3>1. pc[t] = "p_next" /\ UNCHANGED <<diskOf, targetOf>>
      BY <2>7 DEF PassNext
    <3>2. \A g \in Files : Aimed(g)' = Aimed(g) /\ There(g)' = There(g)
      BY <1>5, <3>1 DEF Aimed, There
    <3>3. There(at[t]) /\ \A g \in Files : (g < at[t] => There(g)) /\ (g > at[t] => Aimed(g))
      BY <3>1 DEF Passing
    <3>4. \A g \in Files : There(g) => Aimed(g)
      BY DEF There, Aimed
    <3>5. CASE at[t] < NFiles
      <4>1. pc'[t] = "p_lock" /\ at'[t] = at[t] + 1
        BY <1>1, <2>7, <3>5 DEF PassNext
      <4>2. \A g \in Files : g < at[t] + 1 => There(g)
        BY <2>1, <3>3, FileOrder
      <4>3. at[t] + 1 \in Files /\ at[t] + 1 > at[t]
        BY <1>1, <2>1, <3>5, FileNumbers
      <4>4. \A g \in Files : g > at[t] + 1 => Aimed(g)
        BY <2>1, <3>3, FileOrder
      <4>5. Aimed(at[t] + 1)
        BY <3>3, <4>3
      <4>. QED  BY <3>2, <4>1, <4>2, <4>3, <4>4, <4>5 DEF Passing
    <3>6. CASE ~(at[t] < NFiles)
      <4>1. pc'[t] = "idle"
        BY <1>1, <2>7, <3>6 DEF PassNext
      <4>2. \A g \in Files : There(g)
        BY <2>1, <3>3, <3>6, FileOrder
      <4>. QED  BY <3>2, <3>4, <4>1, <4>2 DEF Passing
    <3>. QED  BY <3>5, <3>6
  <2>. QED  BY <2>3, <2>4, <2>5, <2>6, <2>7 DEF PassStep
<1>. QED  BY <1>2, <1>3, <1>6, <1>7

LEMMA StepSettling ==
  ASSUME OneService, IInv, Settling, [Next]_vars
  PROVE  Settling'
<1>. USE DEF Goto, storage, ranking, locals, scan
<1>1. Main \notin Workers /\ Workers \subseteq Threads /\ Main \in Threads
  BY RelocationAssumption DEF Threads
<1>2. \A t \in Threads : pc \in [Threads -> PCs]
  BY DEF IInv, TypeOK
<1>3. ASSUME NEW t \in Workers, AccessStep(t) \/ PassStep(t)
      PROVE  Settling'
  <2>1. \A u \in Workers : u = t
    BY DEF OneService
  <2>2. pc'[Main] = pc[Main]
    BY <1>1, <1>2, <1>3 DEF AccessStep, PickFile, StopService, LockFile, AccessFile, CountAccess,
       ReadDisk, WriteTarget, UnlockFile, CheckRelocate, PassStep, PassLock, PassCheck, MoveFile,
       LinkFile, StampFile, ClearTarget, PassNext
  <2>3. Aiming(t)' /\ (pc'[t] = "check" => at'[t] = 1) /\ (Counting' => Passing(t)')
    BY <1>3, AccessSettles, PassSettles
  <2>. QED  BY <2>1, <2>2, <2>3 DEF Settling
<1>4. ASSUME PassStep(Main) PROVE FALSE
  BY <1>4 DEF Settling, PassStep, PassLock, PassCheck, MoveFile, LinkFile, StampFile, ClearTarget,
     PassNext
<1>5. ~OneshotRelocate /\ ~(\E on \in BOOLEAN : SetRelocate(on)) /\ ~ZeroDisks
  BY DEF OneService, OneshotRelocate, SetRelocate, ZeroDisks, Settling
<1>6. CASE ResetCounts
  <2>1. ~Counting'
    BY <1>6 DEF ResetCounts, Counting
  <2>2. UNCHANGED <<nextFileIndex, diskOf, targetOf, sorted, index, pc, at, rank, seen>>
    BY <1>6 DEF ResetCounts
  <2>3. \A t \in Workers : Aiming(t)' = Aiming(t)
    BY <2>2 DEF Aiming, Aimed, Place, DiskOfRank
  <2>. QED  BY <2>1, <2>2, <2>3 DEF Settling
<1>7. CASE Break \/ StopMain \/ Done \/ UNCHANGED vars
  <2>1. /\ UNCHANGED <<nextFileIndex, diskOf, targetOf, count, sorted, index, relocate,
                       at, dest, rank, seen>>
        /\ pc'[Main] \in {pc[Main], "done"}
        /\ \A t \in Workers : pc'[t] = pc[t]
    BY <1>1, <1>2, <1>7 DEF Break, StopMain, Done, vars
  <2>2. Counting' = Counting
    BY <2>1 DEF Counting
  <2>3. \A f \in Files : Aimed(f)' = Aimed(f) /\ There(f)' = There(f) /\ Place(f)' = Place(f)
    BY <2>1 DEF Aimed, There, Place, DiskOfRank
  <2>4. \A t \in Workers : at[t] \in Files
    BY <1>1 DEF IInv, TypeOK
  <2>5. ASSUME NEW t \in Workers PROVE Aiming(t) => Aiming(t)'
    <3>1. \A q \in Files : sorted[q] \in Files
      BY DEF IInv, TypeOK
    <3>. QED  BY <2>1, <2>3, <3>1 DEF Aiming
  <2>6. ASSUME NEW t \in Workers PROVE Passing(t) => Passing(t)'
    BY <2>1, <2>3, <2>4 DEF Passing
  <2>. QED  BY <2>1, <2>2, <2>5, <2>6 DEF Settling
<1>. QED  BY <1>3, <1>4, <1>5, <1>6, <1>7 DEF Next, Command, Threads

(* One access service alone: between its turns every file lies where its   *)
(* use entitles it to be, or has that disk as its target while relocation  *)
(* is off, however often the counts are reset.  The moves must not fail.   *)
THEOREM SettledByOneService ==
  ASSUME OneService
  PROVE  Spec => []Settled
<1>1. IInv /\ Settling => Settled
  <2>. SUFFICES ASSUME IInv, Settling, \A t \in Threads : pc[t] = "idle", Counting
                PROVE  \A f \in Files : \/ diskOf[f] = Place(f)
                                        \/ ~relocate /\ targetOf[f] = Place(f)
    BY DEF Settled, Counting, Place
  <2>1. PICK t \in Workers : pc[t] = "idle" /\ Passing(t)
    BY DEF Settling, Threads
  <2>2. /\ \A g \in Files : Aimed(g)
        /\ relocate => \A g \in Files : There(g)
    BY <2>1 DEF Passing
  <2>. QED  BY <2>2 DEF Aimed, There
<1>. QED  BY <1>1, Inductive, InitSettling, StepSettling, PTL DEF Spec
=============================================================================
