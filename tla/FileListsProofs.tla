--------------------------- MODULE FileListsProofs ---------------------------
(***************************************************************************)
(* What is proved of the files' disks and lists, for any configuration,    *)
(* number of files and number of disks.                                    *)
(*                                                                         *)
(* - Types, with any number of services moving files (Basic).  What it     *)
(*   says of the counts then holds as far as each changes in one step.     *)
(* - Equal shares: the i-th file goes to the disk d for which i - 1 is at  *)
(*   least (d - 1) times files / disks and less than d times that, so that *)
(*   each disk has got what EqualShares says after any number of files.    *)
(* - The lists, with one service (Chained): every file has a height such   *)
(*   that the list of each disk leads from the highest file to the lowest, *)
(*   from each to the next lower one; those that do not lead back are the  *)
(*   one behind a file being unlinked and the former first one of the disk *)
(*   a file comes to.  The walk is then followed with the number of files  *)
(*   of the disk that are higher than the one it has come to.              *)
(***************************************************************************)
EXTENDS FileLists, TLAPS, FiniteSetTheorems, WellFoundedInduction

(* A nonempty set of natural numbers has a least element.                  *)
LEMMA LeastNumber ==
  ASSUME NEW S \in SUBSET Nat, S # {}
  PROVE  \E n \in S : \A m \in S : n <= m
<1>1. PICK n \in S : \A m \in S : ~(<<m, n>> \in OpToRel(<, Nat))
  BY NatLessThanWellFounded, WFMin, Zenon
<1>2. \A m \in S : ~(m < n)
  BY <1>1 DEF OpToRel
<1>. QED  BY <1>2
-----------------------------------------------------------------------------
(* The invariant.                                                          *)

(* What the mover is doing with its file.                                  *)
Off == {"off_next", "off_prev", "off_count", "off"}
On  == {"on_next", "on_prev", "on_head", "on_count", "stamp"}

(* Where the loader is.                                                    *)
Loads ==
  /\ phase = "load" => /\ fileCount = 0 /\ id = 1
                       /\ even = [i \in Files |-> i]
                       /\ \A f \in Files : diskOf[f] = Null
  /\ phase # "load" => fileCount \in Files /\ diskCount \in Disks
  /\ phase = "assign" => id <= fileCount
  /\ phase \in {"index", "run"} => id = fileCount + 1

(* A mover has a file of its own, and a disk to move it to.                *)
MovesOf(t) ==
  /\ pc[t] = "idle" <=> file[t] = Null
  /\ pc[t] # "idle" => /\ phase = "run" /\ file[t] \in 1 .. fileCount /\ to[t] \in 1 .. diskCount
                       /\ \A u \in Movers : file[u] = file[t] => u = t
  /\ pc[t] \in Off => diskOf[file[t]] # Null
  /\ pc[t] \in {"on_next", "on_prev", "on_head"} => diskOf[file[t]] = Null
  /\ pc[t] \in {"on_count", "stamp"} => diskOf[file[t]] = to[t]

Moves == \A t \in Movers : MovesOf(t)

(* The files that wait to be assigned: those in m_file_even that were not  *)
(* drawn, or those from the next one on.                                   *)
Waiting ==
  IF method = "even" THEN {even[r] : r \in 1 .. fileCount - id + 1} ELSE id .. fileCount

(* m_file_even is a permutation of the files.                              *)
Permutes ==
  phase = "assign" => /\ \A r \in 1 .. fileCount : even[r] \in 1 .. fileCount
                      /\ \A q, r \in 1 .. fileCount : even[q] = even[r] => q = r

(* A file is on a disk unless it waits or is on its way to one.            *)
Assigned ==
  /\ \A f \in Files : diskOf[f] \in 0 .. diskCount
  /\ phase = "assign" => \A f \in Files : diskOf[f] # Null <=> f \in 1 .. fileCount \ Waiting
  /\ phase \in {"index", "run"} => \A f \in Files :
       diskOf[f] # Null <=>
         /\ f \in 1 .. fileCount
         /\ \A t \in Movers : file[t] = f => pc[t] \in Off \cup {"on_count", "stamp"}

(* The files counted for disk d: a move counts its file out before it is   *)
(* taken off the disk, and in after it was assigned.                       *)
Counted(d) ==
  {f \in Files : /\ diskOf[f] = d
                 /\ \A t \in Movers : file[t] = f => pc[t] \notin {"off", "on_count"}}

Counts == \A d \in Disks : files[d] = Cardinality(Counted(d))

(* How many files the loader gives to disks 1 to d.                        *)
Least(a, b) == IF a < b THEN a ELSE b
UpTo(d) == (d * fileCount + diskCount - 1) \div diskCount

(* After i - 1 files each disk has what of its share is among them.        *)
EqualShares ==
  phase \in {"assign", "index"} /\ method # "random" =>
    \A d \in 1 .. diskCount : files[d] = Least(id - 1, UpTo(d)) - Least(id - 1, UpTo(d - 1))

-----------------------------------------------------------------------------
(* The files in the list of disk d: a move unlinks its file before it      *)
(* takes it off the disk.                                                  *)
Listed(d) ==
  {f \in Files : /\ diskOf[f] = d
                 /\ \A t \in Movers : file[t] = f => pc[t] \notin {"off_count", "off"}}

(* The list whose first file is first leads from the file with the         *)
(* greatest height to the one with the smallest and misses none.           *)
Chain(own, first, nxt, height) ==
  /\ \A f, g \in own : height[f] = height[g] => f = g
  /\ first = Null => own = {}
  /\ first # Null => first \in own /\ \A g \in own : height[g] <= height[first]
  /\ \A f \in own : nxt[f] = Null => \A g \in own : height[f] <= height[g]
  /\ \A f \in own : nxt[f] # Null =>
       /\ nxt[f] \in own /\ height[nxt[f]] < height[f]
       /\ \A g \in own : height[g] <= height[nxt[f]] \/ height[f] <= height[g]

(* File f leads back to the one that leads to it.                          *)
Returns(own, first, nxt, prv, f) ==
  IF prv[f] = Null THEN first = f ELSE prv[f] \in own /\ nxt[prv[f]] = f

(* The lists, and the heights of all files.                                *)
Leads(height) == \A d \in Disks : Chain(Listed(d), head[d], next, height)
Led == \E height \in [Files -> Int] : Leads(height)

(* File f leads back in the list of its disk.                              *)
Back(f) == Returns(Listed(diskOf[f]), head[diskOf[f]], next, prev, f)

(* All lead back but the file behind one that is being unlinked, and the   *)
(* former first file of the disk a file comes to: these lead back to where *)
(* the mover says.                                                         *)
Between(t, f) ==
  \/ pc[t] = "off_prev" /\ f = next[file[t]]
  \/ pc[t] = "on_head" /\ f = head[to[t]]

LeadsBack ==
  \A d \in Disks : \A f \in Listed(d) :
    Returns(Listed(d), head[d], next, prev, f) \/ \E t \in Movers : Between(t, f)

(* What the mover has found and written so far.                            *)
Links ==
  \A t \in Movers :
    /\ pc[t] \in {"off_next", "off_prev"} => Back(file[t])
    /\ pc[t] = "off_prev" /\ next[file[t]] # Null => prev[next[file[t]]] = prev[file[t]]
    /\ pc[t] \in {"on_prev", "on_head"} => next[file[t]] = head[to[t]] /\ prev[file[t]] = Null
    /\ pc[t] = "on_head" /\ head[to[t]] # Null => prev[head[to[t]]] = file[t]

Chained == Led /\ LeadsBack /\ Links
-----------------------------------------------------------------------------
(* Division, and how many files the loader gives to the first d disks: the *)
(* i-th assignment goes to disk d when it is past those of the disks       *)
(* before, and not past d's own.                                           *)

(* What \div is: the only fact about it that the proofs use.               *)
LEMMA Quotient ==
  ASSUME NEW a \in Int, NEW b \in Nat \ {0}
  PROVE  a \div b \in Int /\ b * (a \div b) <= a /\ a < b * (a \div b) + b
BY Z3

(* Multiples of a positive number are ordered as their factors.            *)
LEMMA Factors ==
  ASSUME NEW b \in Nat \ {0}, NEW x \in Int, NEW y \in Int
  PROVE  /\ b * x < b * y + b => x <= y
         /\ b * x < b * y => x < y
BY Z3

(* What Share and UpTo divide by.                                          *)
SharesAre ==
  /\ fileCount \in Nat \ {0} /\ diskCount \in Nat \ {0}

(* Each file is given to a disk that there is.                             *)
LEMMA ShareIsDisk ==
  ASSUME SharesAre, NEW i \in 1 .. fileCount
  PROVE  Share(i) \in 1 .. diskCount
<1>. DEFINE q == ((i - 1) * diskCount) \div fileCount
<1>1. (i - 1) * diskCount \in Nat /\ (i - 1) * diskCount < fileCount * diskCount
  BY Z3 DEF SharesAre
<1>2. q \in Int /\ fileCount * q <= (i - 1) * diskCount
      /\ (i - 1) * diskCount < fileCount * q + fileCount
  BY <1>1, Quotient DEF SharesAre
<1>3. q < diskCount
  BY <1>1, <1>2, Factors DEF SharesAre
<1>4. 0 <= q
  <2>1. fileCount * 0 < fileCount * q + fileCount
    BY <1>1, <1>2 DEF SharesAre
  <2>. QED  BY <1>2, <2>1, Factors DEF SharesAre
<1>. QED  BY <1>2, <1>3, <1>4 DEF Share, SharesAre

(* The least number of files such that fewer are in the first d disks.     *)
LEMMA UpToIs ==
  ASSUME SharesAre, NEW d \in Int
  PROVE  /\ UpTo(d) \in Int
         /\ d * fileCount <= diskCount * UpTo(d)
         /\ diskCount * UpTo(d) <= d * fileCount + diskCount - 1
<1>1. d * fileCount \in Int
  BY DEF SharesAre
<1>2. d * fileCount + diskCount - 1 \in Int
  BY <1>1 DEF SharesAre
<1>3. UpTo(d) \in Int /\ diskCount * UpTo(d) <= d * fileCount + diskCount - 1
      /\ d * fileCount + diskCount - 1 < diskCount * UpTo(d) + diskCount
  BY <1>2, Quotient DEF UpTo, SharesAre
<1>4. diskCount * UpTo(d) \in Int
  BY <1>3 DEF SharesAre
<1>. QED  BY <1>1, <1>3, <1>4 DEF SharesAre

(* UpTo rounds up.                                                         *)
LEMMA BelowUpTo ==
  ASSUME SharesAre, NEW d \in Int, NEW n \in Int
  PROVE  n < UpTo(d) <=> n * diskCount < d * fileCount
<1>. DEFINE u == UpTo(d)
            p == d * fileCount
<1>1. u \in Int /\ p \in Int /\ p <= diskCount * u /\ diskCount * u <= p + diskCount - 1
  BY UpToIs DEF SharesAre
<1>2. diskCount * n \in Int /\ diskCount * u \in Int /\ n * diskCount = diskCount * n
      /\ diskCount * (n + 1) = diskCount * n + diskCount
  BY <1>1 DEF SharesAre
<1>. HIDE DEF u, p
<1>3. ASSUME n < u PROVE diskCount * n < p
  <2>1. n + 1 <= u
    BY <1>1, <1>3
  <2>2. diskCount * (n + 1) <= diskCount * u
    BY <1>1, <2>1, Z3 DEF SharesAre
  <2>. QED  BY <1>1, <1>2, <2>2 DEF SharesAre
<1>4. ASSUME diskCount * n < p PROVE n < u
  <2>1. diskCount * n < diskCount * u
    BY <1>1, <1>2, <1>4
  <2>. QED  BY <1>1, <2>1, Factors DEF SharesAre
<1>. QED  BY <1>2, <1>3, <1>4 DEF u, p

(* The i-th file is given to disk d just if the shares of the disks before *)
(* d are used up and that of d is not.                                     *)
LEMMA ShareIs ==
  ASSUME SharesAre, NEW i \in 1 .. fileCount, NEW d \in Int
  PROVE  Share(i) = d <=> UpTo(d - 1) <= i - 1 /\ i - 1 < UpTo(d)
<1>. DEFINE q == ((i - 1) * diskCount) \div fileCount
            a == (i - 1) * diskCount
<1>1. a \in Int /\ q \in Int /\ fileCount * q <= a /\ a < fileCount * q + fileCount
  BY Quotient DEF SharesAre
<1>2. /\ fileCount * q \in Int /\ d * fileCount = fileCount * d
      /\ (d - 1) * fileCount = fileCount * d - fileCount
      /\ fileCount * (d - 1) = fileCount * d - fileCount
      /\ fileCount * d \in Int
  BY <1>1 DEF SharesAre
<1>3. /\ i - 1 < UpTo(d) <=> a < fileCount * d
      /\ i - 1 < UpTo(d - 1) <=> a < fileCount * d - fileCount
  BY <1>2, BelowUpTo DEF SharesAre
<1>4. UpTo(d - 1) \in Int
  BY UpToIs
<1>5. Share(i) = q + 1
  BY DEF Share
<1>. HIDE DEF q, a
<1>6. q + 1 = d => a < fileCount * d /\ ~(a < fileCount * d - fileCount)
  <2>. SUFFICES ASSUME q + 1 = d PROVE a < fileCount * d /\ ~(a < fileCount * d - fileCount)
    OBVIOUS
  <2>1. fileCount * d = fileCount * q + fileCount
    BY <1>1, Z3 DEF SharesAre
  <2>. QED  BY <1>1, <1>2, <2>1 DEF SharesAre
<1>7. a < fileCount * d /\ ~(a < fileCount * d - fileCount) => q + 1 = d
  <2>. SUFFICES ASSUME a < fileCount * d, ~(a < fileCount * d - fileCount) PROVE q + 1 = d
    OBVIOUS
  <2>1. fileCount * q < fileCount * d
    BY <1>1, <1>2
  <2>2. q < d
    BY <1>1, <2>1, Factors DEF SharesAre
  <2>3. fileCount * (d - 1) < fileCount * q + fileCount
    BY <1>1, <1>2 DEF SharesAre
  <2>4. d - 1 <= q
    BY <1>1, <2>3, Factors DEF SharesAre
  <2>. QED  BY <1>1, <2>2, <2>4
<1>. QED  BY <1>3, <1>4, <1>5, <1>6, <1>7

(* The shares of two disks differ by one at most.                          *)
LEMMA SharesEqual ==
  ASSUME SharesAre, NEW d \in Int, NEW e \in Int
  PROVE  (UpTo(d) - UpTo(d - 1)) - (UpTo(e) - UpTo(e - 1)) <= 1
<1>. DEFINE s == UpTo(d) - UpTo(d - 1)
            t == UpTo(e) - UpTo(e - 1)
<1>1. s \in Int /\ t \in Int
  BY UpToIs
<1>2. diskCount * s <= fileCount + diskCount - 1
  <2>1. (d - 1) * fileCount <= diskCount * UpTo(d - 1)
        /\ diskCount * UpTo(d) <= d * fileCount + diskCount - 1
    BY UpToIs
  <2>2. diskCount * s = diskCount * UpTo(d) - diskCount * UpTo(d - 1)
        /\ (d - 1) * fileCount = d * fileCount - fileCount
        /\ diskCount * UpTo(d) \in Int /\ diskCount * UpTo(d - 1) \in Int /\ d * fileCount \in Int
    BY UpToIs, Z3 DEF SharesAre
  <2>. QED  BY <2>1, <2>2 DEF SharesAre
<1>3. fileCount - diskCount + 1 <= diskCount * t
  <2>1. e * fileCount <= diskCount * UpTo(e)
        /\ diskCount * UpTo(e - 1) <= (e - 1) * fileCount + diskCount - 1
    BY UpToIs
  <2>2. diskCount * t = diskCount * UpTo(e) - diskCount * UpTo(e - 1)
        /\ (e - 1) * fileCount = e * fileCount - fileCount
        /\ diskCount * UpTo(e) \in Int /\ diskCount * UpTo(e - 1) \in Int /\ e * fileCount \in Int
    BY UpToIs, Z3 DEF SharesAre
  <2>. QED  BY <2>1, <2>2 DEF SharesAre
<1>. HIDE DEF s, t
<1>4. diskCount * s \in Int /\ diskCount * t \in Int
        /\ diskCount * (s - t) = diskCount * s - diskCount * t
  BY <1>1, Z3 DEF SharesAre
<1>5. diskCount * (s - t) < diskCount * 1 + diskCount
  BY <1>2, <1>3, <1>4 DEF SharesAre
<1>6. s - t <= 1
  BY <1>1, <1>5, Factors DEF SharesAre
<1>. QED  BY <1>6 DEF s, t

(* The disks together have all files.                                      *)
LEMMA UpToEnds == ASSUME SharesAre PROVE UpTo(0) = 0 /\ UpTo(diskCount) = fileCount
<1>1. UpTo(0) \in Int /\ UpTo(diskCount) \in Int
  BY UpToIs DEF SharesAre
<1>2. diskCount * UpTo(0) <= diskCount - 1 /\ 0 <= diskCount * UpTo(0)
  BY UpToIs DEF SharesAre
<1>3. diskCount * fileCount <= diskCount * UpTo(diskCount)
      /\ diskCount * UpTo(diskCount) <= diskCount * fileCount + diskCount - 1
  BY UpToIs DEF SharesAre
<1>. QED  BY <1>1, <1>2, <1>3, Factors DEF SharesAre
-----------------------------------------------------------------------------
(* The sums of the counts.                                                 *)

(* The recursion of SumFiles has a solution, and SumFiles is one: the      *)
(* least number of disks for which it had none would be one more than a    *)
(* number for which it has.                                                *)
LEMMA SumsAre ==
  ASSUME files \in [Disks -> Int]
  PROVE  \A d \in 0 .. MaxDisks : SumFiles[d] = IF d = 0 THEN 0 ELSE SumFiles[d - 1] + files[d]
<1>. DEFINE Sums(m, g) == /\ g[0] = 0
                          /\ \A n \in 1 .. m : g[n] = g[n - 1] + files[n]
            S == {m \in 0 .. MaxDisks : ~\E g \in [0 .. m -> Int] : Sums(m, g)}
<1>1. MaxDisks \in Nat /\ \A n : n \in Disks <=> n \in 1 .. MaxDisks
  BY FileListsAssumption DEF Disks
<1>2. S = {}
  <2>. SUFFICES ASSUME S # {} PROVE FALSE
    OBVIOUS
  <2>1. S \in SUBSET Nat
    BY <1>1
  <2>2. PICK m \in S : \A n \in S : m <= n
    BY <2>1, LeastNumber
  <2>3. m # 0
    <3>1. [n \in 0 .. 0 |-> 0] \in [0 .. 0 -> Int] /\ Sums(0, [n \in 0 .. 0 |-> 0])
      OBVIOUS
    <3>. QED  BY <3>1
  <2>4. m \in 1 .. MaxDisks /\ m - 1 \in 0 .. MaxDisks /\ m - 1 \notin S /\ m \in Disks
    <3>1. m \in 0 .. MaxDisks /\ m \in 1 .. MaxDisks /\ m - 1 \in 0 .. MaxDisks /\ m - 1 < m
      BY <1>1, <2>2, <2>3
    <3>2. m - 1 \notin S
      <4>. HIDE DEF S
      <4>. QED  BY <2>2, <3>1
    <3>. QED  BY <1>1, <3>1, <3>2
  <2>5. PICK g \in [0 .. m - 1 -> Int] : Sums(m - 1, g)
    BY <2>4
  <2>. DEFINE h == [n \in 0 .. m |-> IF n = m THEN g[m - 1] + files[m] ELSE g[n]]
  <2>6. h \in [0 .. m -> Int]
    <3>1. g[m - 1] + files[m] \in Int
      BY <2>4, <2>5
    <3>. QED  BY <2>4, <2>5, <3>1
  <2>7. Sums(m, h)
    <3>1. h[0] = 0
      BY <2>4, <2>5
    <3>2. ASSUME NEW n \in 1 .. m PROVE h[n] = h[n - 1] + files[n]
      <4>1. n - 1 \in 0 .. m /\ n - 1 # m /\ h[n - 1] = g[n - 1]
        BY <2>4
      <4>2. CASE n = m
        BY <2>4, <4>1, <4>2
      <4>3. CASE n # m
        <5>1. n \in 1 .. m - 1 /\ h[n] = g[n]
          BY <2>4, <4>3
        <5>. QED  BY <2>5, <4>1, <5>1
      <4>. QED  BY <4>2, <4>3
    <3>. QED  BY <3>1, <3>2
  <2>. QED  BY <2>2, <2>6, <2>7
<1>3. PICK g \in [0 .. MaxDisks -> Int] : Sums(MaxDisks, g)
  <2>1. MaxDisks \in 0 .. MaxDisks
    BY <1>1
  <2>. HIDE DEF Sums
  <2>. QED  BY <1>2, <2>1
<1>4. g = [d \in 0 .. MaxDisks |-> IF d = 0 THEN 0 ELSE g[d - 1] + files[d]]
  BY <1>1, <1>3
<1>5. SumFiles = [d \in 0 .. MaxDisks |-> IF d = 0 THEN 0 ELSE SumFiles[d - 1] + files[d]]
  <2>. HIDE DEF Sums, S
  <2>. QED  BY <1>4 DEF SumFiles
<1>. QED  BY <1>5

(* The files on disks 1 to d.                                              *)
OnFirst(d) == {f \in Files : diskOf[f] \in 1 .. d}

(* The files and the disks are numbers, and Null is none of them.          *)
LEMMA FilesFinite ==
  /\ MaxFiles \in Nat /\ MaxDisks \in Nat /\ 1 \in Disks /\ 1 \in Files
  /\ IsFiniteSet(Files) /\ Cardinality(Files) = MaxFiles
  /\ Null \notin Files /\ Null \notin Disks
<1>1. MaxFiles \in Nat /\ MaxDisks \in Nat /\ MaxDisks >= 1 /\ MaxFiles >= 1
  BY FileListsAssumption
<1>. QED  BY <1>1, FS_Interval DEF Files, Disks, Null

(* Files are counted by numbers up to MaxFiles.                            *)
LEMMA SubsetFinite ==
  ASSUME NEW S \in SUBSET Files
  PROVE  IsFiniteSet(S) /\ Cardinality(S) \in 0 .. MaxFiles
BY FilesFinite, FS_Subset, FS_CardinalityType

(* While each count is right, the sum of the first d is the number of      *)
(* files on the first d disks.                                             *)
LEMMA SumsCount ==
  ASSUME files \in [Disks -> Int],
         \A d \in Disks : files[d] = Cardinality({f \in Files : diskOf[f] = d})
  PROVE  \A d \in 0 .. MaxDisks : SumFiles[d] = Cardinality(OnFirst(d))
<1>. DEFINE S == {d \in 0 .. MaxDisks : SumFiles[d] # Cardinality(OnFirst(d))}
<1>1. S = {}
  <2>. SUFFICES ASSUME S # {} PROVE FALSE
    OBVIOUS
  <2>1. S \in SUBSET Nat
    BY FilesFinite
  <2>2. PICK d \in S : \A e \in S : d <= e
    BY <2>1, LeastNumber
  <2>3. OnFirst(0) = {}
    BY DEF OnFirst
  <2>4. d # 0
    BY <2>2, <2>3, SumsAre, FS_EmptySet
  <2>5. d - 1 \in 0 .. MaxDisks /\ d - 1 \notin S /\ d \in Disks /\ d \in 0 .. MaxDisks
    BY <2>2, <2>4, FilesFinite DEF Disks
  <2>6. SumFiles[d - 1] = Cardinality(OnFirst(d - 1))
    BY <2>5
  <2>. DEFINE own == {f \in Files : diskOf[f] = d}
  <2>7. OnFirst(d) = OnFirst(d - 1) \cup own /\ OnFirst(d - 1) \cap own = {}
    BY <2>5 DEF OnFirst, Disks
  <2>8. IsFiniteSet(OnFirst(d - 1)) /\ IsFiniteSet(own) /\ Cardinality(own) \in Nat
        /\ Cardinality(OnFirst(d - 1)) \in Nat
    BY SubsetFinite DEF OnFirst
  <2>9. Cardinality(OnFirst(d)) = Cardinality(OnFirst(d - 1)) + Cardinality(own)
    <3>1. Cardinality(OnFirst(d)) = Cardinality(OnFirst(d - 1)) + Cardinality(own) - Cardinality({})
      BY <2>7, <2>8, FS_Union
    <3>. HIDE DEF own
    <3>. QED  BY <2>8, <3>1, FS_EmptySet
  <2>10. SumFiles[d] = SumFiles[d - 1] + files[d]
    BY <2>4, <2>5, SumsAre
  <2>. QED  BY <2>2, <2>5, <2>6, <2>9, <2>10
<1>. QED  BY <1>1

-----------------------------------------------------------------------------
(* Types, and which file is counted where, for any number of movers.       *)

Basic == TypeOK /\ Loads /\ Moves /\ Permutes /\ Assigned /\ Counts

(* Nothing is loaded at the start.                                         *)
LEMMA BasicInit == Init => Basic
<1>. SUFFICES ASSUME Init PROVE Basic
  OBVIOUS
<1>1. TypeOK
  <2>1. 0 \in 0 .. MaxFiles /\ 0 \in 0 .. MaxDisks /\ 0 \in Int /\ 1 \in 1 .. 0 + 1
    BY FilesFinite
  <2>2. /\ phase = "load" /\ fileCount = 0 /\ diskCount = 0 /\ method = "random" /\ id = 1
        /\ lock = FALSE /\ row = 1 /\ at = 0
    BY DEF Init, Null
  <2>3. /\ even \in [Files -> Files]
        /\ nextFileIndex \in [Disks -> 0 .. MaxFiles]
        /\ head \in [Disks -> 0 .. MaxFiles] /\ files \in [Disks -> Int]
        /\ next \in [Files -> 0 .. MaxFiles] /\ prev \in [Files -> 0 .. MaxFiles]
        /\ diskOf \in [Files -> 0 .. MaxDisks]
        /\ file \in [Movers -> 0 .. MaxFiles] /\ to \in [Movers -> 0 .. MaxDisks]
    BY <2>1 DEF Init, Null
  <2>4. pc \in [Movers -> {"idle", "off_next", "off_prev", "off_count", "off", "on_next",
                           "on_prev", "on_head", "on_count", "stamp"}]
    BY DEF Init
  <2>. QED  BY <2>1, <2>2, <2>3, <2>4, FilesFinite DEF TypeOK
<1>2. Loads /\ Moves /\ Permutes /\ Assigned
  BY FilesFinite DEF Init, Loads, Moves, MovesOf, Permutes, Assigned, Off, Null
<1>3. ASSUME NEW d \in Disks PROVE files[d] = Cardinality(Counted(d))
  <2>1. Counted(d) = {}
    BY FilesFinite DEF Init, Counted
  <2>. QED  BY <2>1, FS_EmptySet DEF Init
<1>. QED  BY <1>1, <1>2, <1>3 DEF Basic, Counts

(* Any configuration with a usable disk gives a number of files and of     *)
(* disks within the arrays.                                                *)
LEMMA LoadConfigKeeps == Basic /\ LoadConfig => Basic'
<1>. SUFFICES ASSUME Basic, LoadConfig PROVE Basic'
  OBVIOUS
<1>1. PICK c \in Configs :
        diskCount' = DiskCount(c) /\ fileCount' = FileCount(c) /\ method' = c.method
  BY DEF LoadConfig
<1>2. LoadedConfig(c) /\ DefaultFiles \in 1 .. MaxFiles
  BY FileListsAssumption
<1>3. FileCount(c) \in Files
  BY <1>2, FilesFinite DEF FileCount, LoadedConfig, Files
<1>4. DiskCount(c) \in Disks
  BY <1>2 DEF DiskCount, LoadedConfig
<1>5. /\ phase = "load" /\ phase' = "assign" /\ id = 1 /\ even = [i \in Files |-> i]
      /\ \A f \in Files : diskOf[f] = Null
      /\ UNCHANGED <<id, even, nextFileIndex, head, next, prev, files, diskOf, pc, file, to,
                     lock, row, at>>
  BY DEF LoadConfig, Basic, Loads, links, moving, drawing
<1>6. id' = 1
  BY <1>5
<1>7. fileCount' \in Files /\ diskCount' \in Disks /\ method' \in {"ordered", "even", "random"}
  BY <1>1, <1>2, <1>3, <1>4 DEF LoadedConfig
<1>8. TypeOK'
  <2>1. fileCount' \in 0 .. MaxFiles /\ diskCount' \in 0 .. MaxDisks /\ id' \in 1 .. fileCount' + 1
    <3>1. fileCount' \in Int /\ fileCount' >= 1
      BY <1>7, FilesFinite DEF Files
    <3>2. \A n \in Int : n >= 1 => 1 \in 1 .. n + 1
      OBVIOUS
    <3>3. fileCount' \in 0 .. MaxFiles /\ diskCount' \in 0 .. MaxDisks
      BY <1>7, FilesFinite DEF Files, Disks
    <3>4. 1 \in 1 .. fileCount' + 1
      BY <3>1, <3>2
    <3>. QED  BY <1>6, <3>3, <3>4
  <2>. QED  BY <1>5, <1>7, <2>1 DEF Basic, TypeOK
<1>9. Loads'
  BY <1>5, <1>7 DEF Loads, Files
<1>10. Moves'
  BY <1>5 DEF Basic, Moves, MovesOf
<1>11. 1 .. fileCount' \subseteq Files
  BY <1>7, FilesFinite DEF Files
<1>12. Permutes'
  BY <1>5, <1>11 DEF Permutes
<1>13. Assigned'
  <2>1. Waiting' = 1 .. fileCount'
    <3>1. fileCount' \in Nat
      BY <1>7 DEF Files
    <3>2. \A r \in 1 .. fileCount' : even'[r] = r
      BY <1>5, <1>11
    <3>3. fileCount' - id' + 1 = fileCount' /\ id' .. fileCount' = 1 .. fileCount'
      <4>1. \A n \in Nat : n - 1 + 1 = n
        OBVIOUS
      <4>. QED  BY <1>6, <3>1, <4>1
    <3>4. {even'[r] : r \in 1 .. fileCount'} = 1 .. fileCount'
      BY <3>2
    <3>. QED  BY <3>3, <3>4 DEF Waiting
  <2>2. \A f \in Files : diskOf'[f] = Null
    BY <1>5
  <2>. QED  BY <1>5, <1>7, <2>1, <2>2 DEF Assigned, Null, Disks
<1>14. Counts'
  BY <1>5 DEF Basic, Counts, Counted
<1>. QED  BY <1>8, <1>9, <1>10, <1>12, <1>13, <1>14 DEF Basic

(* While the configuration is loaded nobody moves a file.                  *)
LEMMA NobodyMoves ==
  ASSUME Basic, phase # "run"
  PROVE  /\ \A t \in Movers : pc[t] = "idle" /\ file[t] = Null
         /\ \A d : Counted(d) = {f \in Files : diskOf[f] = d}
<1>1. \A t \in Movers : pc[t] = "idle" /\ file[t] = Null
  BY DEF Basic, Moves, MovesOf
<1>. QED  BY <1>1, FilesFinite DEF Counted

(* One file is assigned.                                                   *)
LEMMA AssignToKeeps ==
  ASSUME Basic, phase = "assign", NEW f \in Waiting, NEW d \in 1 .. diskCount, AssignTo(f, d),
         UNCHANGED moving
  PROVE  /\ f \in 1 .. fileCount /\ f \in Files /\ d \in Disks /\ diskOf[f] = Null
         /\ head' \in [Disks -> 0 .. MaxFiles] /\ files' \in [Disks -> Int]
         /\ next' \in [Files -> 0 .. MaxFiles] /\ prev' \in [Files -> 0 .. MaxFiles]
         /\ diskOf' = [diskOf EXCEPT ![f] = d] /\ diskOf' \in [Files -> 0 .. MaxDisks]
         /\ Counts'
<1>. USE DEF Basic, TypeOK
<1>1. fileCount \in Files /\ diskCount \in Disks /\ id \in 1 .. fileCount
  BY DEF Loads, Files
<1>2. f \in 1 .. fileCount
  <2>1. CASE method = "even"
    <3>1. PICK r \in 1 .. fileCount - id + 1 : f = even[r]
      BY <2>1 DEF Waiting
    <3>2. r \in 1 .. fileCount
      BY <1>1 DEF Files
    <3>. QED  BY <3>1, <3>2 DEF Permutes
  <2>2. CASE method # "even"
    BY <1>1, <2>2 DEF Waiting, Files
  <2>. QED  BY <2>1, <2>2
<1>3. f \in Files /\ d \in Disks /\ d # Null /\ f \in 0 .. MaxFiles
  <2>1. f \in Files /\ f \in 0 .. MaxFiles
    BY <1>1, <1>2, FilesFinite DEF Files
  <2>2. d \in Disks /\ d # Null
    BY <1>1, FilesFinite DEF Disks, Null
  <2>. QED  BY <2>1, <2>2
<1>4. diskOf[f] = Null
  BY <1>3 DEF Assigned
<1>5. head' \in [Disks -> 0 .. MaxFiles] /\ files' \in [Disks -> Int]
  BY <1>3 DEF AssignTo
<1>6. next' \in [Files -> 0 .. MaxFiles] /\ prev' \in [Files -> 0 .. MaxFiles]
  BY <1>3, FilesFinite DEF AssignTo, Null
<1>7. diskOf' = [diskOf EXCEPT ![f] = d] /\ diskOf' \in [Files -> 0 .. MaxDisks]
  BY <1>3 DEF AssignTo, Disks
<1>8. ASSUME NEW e \in Disks PROVE files'[e] = Cardinality(Counted(e)')
  <2>1. Counted(e) = {g \in Files : diskOf[g] = e} /\ Counted(e)' = {g \in Files : diskOf'[g] = e}
    BY NobodyMoves, FilesFinite DEF Counted, moving
  <2>2. Counted(e)' = IF e = d THEN Counted(e) \cup {f} ELSE Counted(e)
    BY <1>3, <1>4, <1>7, <2>1, FilesFinite
  <2>3. IsFiniteSet(Counted(e)) /\ (e = d => f \notin Counted(e))
    BY <1>3, <1>4, <2>1, SubsetFinite
  <2>4. files'[e] = IF e = d THEN files[e] + 1 ELSE files[e]
    BY <1>3 DEF AssignTo
  <2>5. CASE e = d
    <3>1. files[e] = Cardinality(Counted(e))
      BY DEF Counts
    <3>2. Counted(e)' = Counted(e) \cup {f} /\ f \notin Counted(e) /\ files'[e] = files[e] + 1
      BY <2>2, <2>3, <2>4, <2>5
    <3>3. Cardinality(Counted(e) \cup {f}) = Cardinality(Counted(e)) + 1
      BY <2>3, <3>2, FS_AddElement
    <3>. QED  BY <3>1, <3>2, <3>3
  <2>6. CASE e # d
    BY <2>2, <2>4, <2>6 DEF Counts
  <2>. QED  BY <2>5, <2>6
<1>. QED  BY <1>2, <1>3, <1>4, <1>5, <1>6, <1>7, <1>8 DEF Counts

(* The file that is drawn waits, and those that are left still do.         *)
LEMMA DrawnFileWaits ==
  ASSUME Basic, AssignFile
  PROVE  \E f \in Waiting, d \in 1 .. diskCount :
           /\ AssignTo(f, d)
           /\ method # "random" => d = Share(id)
           /\ (IF method = "even" THEN {even'[r] : r \in 1 .. fileCount - id}
                ELSE id + 1 .. fileCount)
                = Waiting \ {f}
           /\ even' \in [Files -> Files]
           /\ \A r \in 1 .. fileCount : even'[r] \in 1 .. fileCount
           /\ \A q, r \in 1 .. fileCount : even'[q] = even'[r] => q = r
<1>. USE DEF Basic
<1>1. phase = "assign" /\ fileCount \in Files /\ diskCount \in Disks /\ id \in 1 .. fileCount
  BY DEF AssignFile, Loads, TypeOK, Files
<1>2. SharesAre
  BY <1>1, FilesFinite DEF SharesAre, Files, Disks
<1>3. Share(id) \in 1 .. diskCount
  BY <1>1, <1>2, ShareIsDisk
<1>4. /\ even \in [Files -> Files]
      /\ \A r \in 1 .. fileCount : even[r] \in 1 .. fileCount
      /\ \A q, r \in 1 .. fileCount : even[q] = even[r] => q = r
  BY <1>1 DEF TypeOK, Permutes
<1>5. CASE AssignOrdered \/ AssignRandom
  <2>1. id \in Waiting /\ id + 1 .. fileCount = Waiting \ {id} /\ method # "even"
    BY <1>1, <1>5, FilesFinite DEF AssignOrdered, AssignRandom, Waiting, Files
  <2>2. PICK d \in 1 .. diskCount : AssignTo(id, d) /\ (method # "random" => d = Share(id))
    BY <1>3, <1>5 DEF AssignOrdered, AssignRandom
  <2>3. even' = even
    BY <1>5 DEF AssignOrdered, AssignRandom
  <2>. QED  BY <1>4, <2>1, <2>2, <2>3
<1>6. CASE AssignEven
  <2>. DEFINE last == fileCount - id + 1
  <2>1. PICK r \in 1 .. last : /\ AssignTo(even[r], Share(id))
                               /\ even' = [even EXCEPT ![r] = even[last], ![last] = even[r]]
    BY <1>6 DEF AssignEven
  <2>2. last \in 1 .. fileCount /\ r \in 1 .. fileCount /\ 1 .. fileCount \subseteq Files
        /\ fileCount - id = last - 1 /\ last \in Int /\ 1 .. last \subseteq 1 .. fileCount
    BY <1>1, FilesFinite DEF Files
  <2>3. method = "even" /\ Waiting = {even[q] : q \in 1 .. last}
    BY <1>6 DEF AssignEven, Waiting
  <2>. HIDE DEF last
  <2>4. \A q \in 1 .. fileCount :
          even'[q] = IF q = last THEN even[r] ELSE IF q = r THEN even[last] ELSE even[q]
    BY <1>4, <2>1, <2>2
  <2>5. even' \in [Files -> Files]
    BY <1>4, <2>1, <2>2
  <2>6. /\ \A q \in 1 .. fileCount : even'[q] \in 1 .. fileCount
        /\ \A p, q \in 1 .. fileCount : even'[p] = even'[q] => p = q
    BY <1>4, <2>2, <2>4
  <2>7. {even'[q] : q \in 1 .. last - 1} = {even[q] : q \in 1 .. last} \ {even[r]}
    <3>1. \A q \in 1 .. last - 1 : q \in 1 .. last /\ q # last
      BY <2>2
    <3>2. ASSUME NEW q \in 1 .. last - 1 PROVE even'[q] \in {even[p] : p \in 1 .. last} \ {even[r]}
      <4>1. CASE q = r
        BY <1>4, <2>2, <2>4, <3>1, <4>1
      <4>2. CASE q # r
        BY <1>4, <2>2, <2>4, <3>1, <4>2
      <4>. QED  BY <4>1, <4>2
    <3>3. ASSUME NEW q \in 1 .. last, even[q] # even[r]
          PROVE  \E p \in 1 .. last - 1 : even'[p] = even[q]
      <4>1. CASE q = last
        <5>1. r # last /\ r \in 1 .. last - 1
          BY <2>2, <3>3, <4>1
        <5>. QED  BY <2>2, <2>4, <4>1, <5>1
      <4>2. CASE q # last
        <5>1. q # r /\ q \in 1 .. last - 1
          BY <2>2, <3>3, <4>2
        <5>. QED  BY <2>2, <2>4, <4>2, <5>1
      <4>. QED  BY <4>1, <4>2
    <3>. QED  BY <3>2, <3>3
  <2>8. even[r] \in Waiting
    BY <2>3
  <2>9. {even'[q] : q \in 1 .. fileCount - id} = Waiting \ {even[r]}
    BY <2>2, <2>3, <2>7
  <2>. QED  BY <1>3, <2>1, <2>3, <2>5, <2>6, <2>8, <2>9
<1>. QED  BY <1>5, <1>6 DEF AssignFile

(* A file is assigned: it no longer waits and is counted for its disk.     *)
LEMMA AssignFileKeeps == Basic /\ AssignFile => Basic'
<1>. SUFFICES ASSUME Basic, AssignFile PROVE Basic'
  OBVIOUS
<1>1. PICK f \in Waiting, d \in 1 .. diskCount :
        /\ AssignTo(f, d)
        /\ (IF method = "even" THEN {even'[r] : r \in 1 .. fileCount - id} ELSE id + 1 .. fileCount)
             = Waiting \ {f}
        /\ even' \in [Files -> Files]
        /\ \A r \in 1 .. fileCount : even'[r] \in 1 .. fileCount
        /\ \A q, r \in 1 .. fileCount : even'[q] = even'[r] => q = r
  BY DrawnFileWaits
<1>2. /\ phase = "assign" /\ id <= fileCount /\ id' = id + 1
      /\ phase' = IF id = fileCount THEN "index" ELSE "assign"
      /\ UNCHANGED <<fileCount, diskCount, method, nextFileIndex, pc, file, to, lock, row, at>>
      /\ UNCHANGED moving
  BY DEF AssignFile, moving, drawing
<1>3. fileCount \in Int /\ fileCount \in Files /\ diskCount \in Disks /\ id \in Int /\ id >= 1
  BY <1>2 DEF Basic, TypeOK, Loads, Files
<1>4. /\ f \in 1 .. fileCount /\ f \in Files /\ d \in Disks /\ diskOf[f] = Null
      /\ head' \in [Disks -> 0 .. MaxFiles] /\ files' \in [Disks -> Int]
      /\ next' \in [Files -> 0 .. MaxFiles] /\ prev' \in [Files -> 0 .. MaxFiles]
      /\ diskOf' = [diskOf EXCEPT ![f] = d] /\ diskOf' \in [Files -> 0 .. MaxDisks]
      /\ Counts'
  BY <1>1, <1>2, AssignToKeeps
<1>5. id' \in 1 .. fileCount + 1
  BY <1>2, <1>3
<1>6. TypeOK'
  BY <1>1, <1>2, <1>4, <1>5 DEF Basic, TypeOK
<1>7. Loads'
  BY <1>2, <1>3 DEF Loads
<1>8. \A t \in Movers : pc'[t] = "idle" /\ file'[t] = Null
  BY <1>2, NobodyMoves
<1>9. Moves'
  BY <1>8 DEF Moves, MovesOf, Off
<1>10. Permutes'
  BY <1>1, <1>2 DEF Permutes
<1>11. Assigned'
  <2>1. fileCount - id = fileCount - id' + 1
    BY <1>2, <1>3
  <2>2. Waiting' = Waiting \ {f}
    BY <1>1, <1>2, <2>1 DEF Waiting
  <2>3. id = fileCount => Waiting \ {f} = {}
    BY <1>1, <1>3
  <2>4. \A g \in Files : diskOf[g] \in 0 .. diskCount
          /\ (diskOf[g] # Null <=> g \in 1 .. fileCount \ Waiting)
    BY <1>2 DEF Basic, Assigned
  <2>5. \A g \in Files : diskOf'[g] = IF g = f THEN d ELSE diskOf[g]
    BY <1>4 DEF Basic, TypeOK
  <2>6. d # Null /\ d \in 0 .. diskCount
    BY <1>3, <1>4, FilesFinite DEF Disks
  <2>7. \A g \in Files : diskOf'[g] \in 0 .. diskCount'
                         /\ (diskOf'[g] # Null <=> g \in 1 .. fileCount \ (Waiting \ {f}))
    BY <1>2, <1>4, <2>4, <2>5, <2>6
  <2>8. \A g \in Files, t \in Movers : file'[t] # g
    BY <1>8, FilesFinite
  <2>9. phase' # "assign" => id = fileCount
    BY <1>2
  <2>. QED  BY <1>2, <2>2, <2>3, <2>7, <2>8, <2>9 DEF Assigned
<1>. QED  BY <1>4, <1>6, <1>7, <1>9, <1>10, <1>11 DEF Basic

(* While nobody moves a file, the counts are those of the files on the     *)
(* disks.                                                                  *)
LEMMA CountsLoaded ==
  ASSUME Basic, phase # "run"
  PROVE  /\ \A d \in Disks : files[d] = Cardinality({f \in Files : diskOf[f] = d})
         /\ \A d \in 0 .. MaxDisks : SumFiles[d] = Cardinality(OnFirst(d))
<1>1. \A d \in Disks : files[d] = Cardinality({f \in Files : diskOf[f] = d})
  BY NobodyMoves DEF Basic, Counts
<1>. QED  BY <1>1, SumsCount DEF Basic, TypeOK

(* m_next_file_index is at most the number of files.                       *)
LEMMA SetNextFileIndexKeeps == Basic /\ SetNextFileIndex => Basic'
<1>. SUFFICES ASSUME Basic, SetNextFileIndex PROVE Basic'
  OBVIOUS
<1>1. /\ phase = "index" /\ phase' = "run"
      /\ nextFileIndex' = [d \in Disks |-> IF d <= diskCount THEN SumFiles[d] ELSE 0]
      /\ UNCHANGED <<fileCount, diskCount, method, id, even, head, next, prev, files, diskOf,
                     pc, file, to, lock, row, at>>
  BY DEF SetNextFileIndex, links, moving, drawing
<1>2. \A d \in Disks : SumFiles[d] \in 0 .. MaxFiles
  <2>1. \A d \in Disks : d \in 0 .. MaxDisks /\ OnFirst(d) \in SUBSET Files
    BY FilesFinite DEF Disks, OnFirst
  <2>. QED  BY <1>1, <2>1, CountsLoaded, SubsetFinite
<1>3. nextFileIndex' \in [Disks -> 0 .. MaxFiles]
  BY <1>1, <1>2, FilesFinite
<1>4. TypeOK'
  BY <1>1, <1>3 DEF Basic, TypeOK
<1>5. Loads' /\ Permutes'
  BY <1>1 DEF Basic, Loads, Permutes
<1>6. Moves'
  BY <1>1 DEF Basic, Moves, MovesOf
<1>7. Assigned'
  BY <1>1 DEF Basic, Assigned
<1>8. Counts'
  BY <1>1 DEF Basic, Counts, Counted
<1>. QED  BY <1>4, <1>5, <1>6, <1>7, <1>8 DEF Basic

(* A mover that is on its way has a file and a disk.                       *)
LEMMA Moving ==
  ASSUME Basic, NEW t \in Movers, pc[t] # "idle"
  PROVE  /\ phase = "run"
         /\ file[t] \in 1 .. fileCount /\ file[t] \in Files /\ file[t] # Null
         /\ to[t] \in 1 .. diskCount /\ to[t] \in Disks /\ to[t] # Null
         /\ diskOf[file[t]] \in 0 .. diskCount
         /\ (diskOf[file[t]] # Null => diskOf[file[t]] \in Disks)
         /\ \A u \in Movers : file[u] = file[t] => u = t
<1>1. /\ phase = "run" /\ file[t] \in 1 .. fileCount /\ to[t] \in 1 .. diskCount
      /\ \A u \in Movers : file[u] = file[t] => u = t
  BY DEF Basic, Moves, MovesOf
<1>2. fileCount \in Files /\ diskCount \in Disks
  BY <1>1 DEF Basic, Loads
<1>3. file[t] \in Files /\ to[t] \in Disks
  BY <1>1, <1>2, FilesFinite DEF Files, Disks
<1>4. diskOf[file[t]] \in 0 .. diskCount
  BY <1>3 DEF Basic, Assigned
<1>5. 0 .. diskCount \ {0} \subseteq Disks
  BY <1>2, FilesFinite DEF Disks
<1>. QED  BY <1>1, <1>3, <1>4, <1>5, FilesFinite DEF Null

(* A step that takes mover t to b and its file to disk d.                  *)
StepTo(t, b, d) ==
  /\ pc[t] # "idle" /\ b \in Off \cup On /\ pc' = [pc EXCEPT ![t] = b]
  /\ UNCHANGED <<loading, drawing, file, to>>
  /\ d \in {diskOf[file[t]], Null, to[t]} /\ diskOf' = [diskOf EXCEPT ![file[t]] = d]
  /\ b \in Off => d # Null
  /\ b \in {"on_next", "on_prev", "on_head"} => d = Null
  /\ b \in {"on_count", "stamp"} => d = to[t]
  /\ head' \in [Disks -> 0 .. MaxFiles] /\ files' \in [Disks -> Int]
  /\ next' \in [Files -> 0 .. MaxFiles] /\ prev' \in [Files -> 0 .. MaxFiles]

(* Such a step keeps all but the counts, and counts the file at d or not   *)
(* at all.                                                                 *)
LEMMA StepKeeps ==
  ASSUME Basic, NEW t \in Movers, NEW b, NEW d, StepTo(t, b, d)
  PROVE  /\ TypeOK' /\ Loads' /\ Moves' /\ Permutes' /\ Assigned'
         /\ \A e \in Disks : Counted(e)' =
              (Counted(e) \ {file[t]})
                \cup IF d = e /\ b \notin {"off", "on_count"} THEN {file[t]} ELSE {}
<1>1. /\ phase = "run" /\ file[t] \in 1 .. fileCount /\ file[t] \in Files
      /\ to[t] \in 1 .. diskCount /\ to[t] \in Disks /\ to[t] # Null
      /\ diskOf[file[t]] \in 0 .. diskCount
      /\ \A u \in Movers : file[u] = file[t] => u = t
  BY Moving DEF StepTo
<1>2. /\ b \in Off \cup On /\ pc' = [pc EXCEPT ![t] = b]
      /\ UNCHANGED <<loading, drawing, file, to>>
      /\ d \in {diskOf[file[t]], Null, to[t]} /\ diskOf' = [diskOf EXCEPT ![file[t]] = d]
      /\ b \in Off => d # Null
      /\ b \in {"on_next", "on_prev", "on_head"} => d = Null
      /\ b \in {"on_count", "stamp"} => d = to[t]
      /\ head' \in [Disks -> 0 .. MaxFiles] /\ files' \in [Disks -> Int]
      /\ next' \in [Files -> 0 .. MaxFiles] /\ prev' \in [Files -> 0 .. MaxFiles]
  BY DEF StepTo
<1>3. /\ UNCHANGED <<phase, fileCount, diskCount, method, id, even, nextFileIndex, lock, row, at,
           file, to>>
  BY <1>2 DEF loading, drawing
<1>4. pc \in [Movers -> {"idle"} \cup Off \cup On] /\ diskOf \in [Files -> 0 .. MaxDisks]
  BY DEF Basic, TypeOK, Off, On
<1>5. b # "idle" /\ pc' \in [Movers -> {"idle"} \cup Off \cup On]
      /\ \A u \in Movers : pc'[u] = IF u = t THEN b ELSE pc[u]
  BY <1>2, <1>4 DEF Off, On
<1>6. d \in 0 .. diskCount /\ diskCount \in 0 .. MaxDisks
  <2>1. diskCount \in 0 .. MaxDisks /\ diskCount \in Int
    BY DEF Basic, TypeOK
  <2>. QED  BY <1>2, <1>1, <2>1 DEF Null
<1>7. diskOf' \in [Files -> 0 .. MaxDisks]
        /\ \A g \in Files : diskOf'[g] = IF g = file[t] THEN d ELSE diskOf[g]
  <2>1. d \in 0 .. MaxDisks
    BY <1>6, FilesFinite
  <2>. QED  BY <1>2, <1>4, <2>1
<1>8. TypeOK'
  <2>1. pc' \in [Movers -> {"idle", "off_next", "off_prev", "off_count", "off", "on_next",
                            "on_prev", "on_head", "on_count", "stamp"}]
    BY <1>5 DEF Off, On
  <2>. QED  BY <1>2, <1>3, <1>7, <2>1 DEF Basic, TypeOK
<1>9. Loads' /\ Permutes'
  BY <1>1, <1>3 DEF Basic, Loads, Permutes
<1>10. Moves'
  <2>. SUFFICES ASSUME NEW u \in Movers
       PROVE  MovesOf(u)'
    BY DEF Moves
  <2>1. CASE u = t
    <3>1. file[t] # Null
      BY Moving DEF StepTo
    <3>. QED  BY <1>2, <1>1, <1>3, <1>5, <1>7, <2>1, <3>1 DEF MovesOf
  <2>2. CASE u # t
    <3>1. pc[u] # "idle" => file[u] \in Files /\ file[u] # file[t]
      BY <1>1, <2>2, Moving
    <3>2. diskOf'[file[u]] = diskOf[file[u]] \/ pc[u] = "idle"
      BY <1>7, <3>1
    <3>. QED  BY <1>3, <1>5, <2>2, <3>2 DEF Basic, Moves, MovesOf, Off
  <2>. QED  BY <2>1, <2>2
<1>11. Assigned'
  <2>1. ASSUME NEW g \in Files PROVE diskOf'[g] \in 0 .. diskCount
    BY <1>6, <1>7 DEF Basic, Assigned
  <2>2. ASSUME NEW g \in Files
        PROVE  diskOf'[g] # Null <=> g \in 1 .. fileCount
                 /\ \A u \in Movers : file[u] = g => pc'[u] \in Off \cup {"on_count", "stamp"}
    <3>1. CASE g = file[t]
      <4>1. d # Null <=> b \in Off \cup {"on_count", "stamp"}
        BY <1>2, <1>1 DEF Off, On
      <4>. QED  BY <1>1, <1>5, <1>7, <3>1, <4>1
    <3>2. CASE g # file[t]
      BY <1>1, <1>5, <1>7, <3>2 DEF Basic, Assigned
    <3>. QED  BY <3>1, <3>2
  <2>. QED  BY <1>1, <1>3, <2>1, <2>2 DEF Assigned
<1>12. ASSUME NEW e \in Disks, NEW g \in Files
       PROVE  g \in Counted(e)' <=>
                IF g = file[t] THEN d = e /\ b \notin {"off", "on_count"} ELSE g \in Counted(e)
  <2>1. g \in Counted(e)' <=> /\ diskOf'[g] = e
                              /\ \A u \in Movers : file[u] = g => pc'[u] \notin {"off", "on_count"}
    BY <1>3 DEF Counted
  <2>2. g \in Counted(e) <=> /\ diskOf[g] = e
                             /\ \A u \in Movers : file[u] = g => pc[u] \notin {"off", "on_count"}
    BY DEF Counted
  <2>3. CASE g = file[t]
    BY <1>1, <1>5, <1>7, <2>1, <2>3
  <2>4. CASE g # file[t]
    BY <1>5, <1>7, <2>1, <2>2, <2>4
  <2>. QED  BY <2>3, <2>4
<1>13. ASSUME NEW e \in Disks
       PROVE  Counted(e)' = (Counted(e) \ {file[t]})
                \cup IF d = e /\ b \notin {"off", "on_count"} THEN {file[t]} ELSE {}
  <2>1. Counted(e)' \subseteq Files /\ Counted(e) \subseteq Files
    BY DEF Counted
  <2>. QED  BY <1>1, <1>12, <2>1
<1>. QED  BY <1>8, <1>9, <1>10, <1>11, <1>13

(* Null is stored beside the files.                                        *)
LEMMA OrNull ==
  /\ Null \in 0 .. MaxFiles
  /\ \A f \in Files : f \in 0 .. MaxFiles
BY FilesFinite DEF Files, Null

(* The steps of a move, one by one.  Only CountOut and CountIn change a    *)
(* count.                                                                  *)
LEMMA UnlinkFromNextKeeps == ASSUME Basic, NEW t \in Movers, UnlinkFromNext(t)
  PROVE  Basic' /\ \E d : StepTo(t, "off_prev", d)
<1>1. /\ pc[t] = "off_next" /\ pc' = [pc EXCEPT ![t] = "off_prev"]
      /\ prev' = [g \in Files |-> IF g = next[file[t]] THEN prev[file[t]] ELSE prev[g]]
      /\ UNCHANGED <<loading, drawing, file, to>>
      /\ UNCHANGED <<head, next, files, diskOf>>
  BY DEF UnlinkFromNext, Step
<1>2. file[t] \in Files /\ diskOf[file[t]] # Null
  BY <1>1, Moving DEF Basic, Moves, MovesOf, Off
<1>3. PICK d : d = diskOf[file[t]]
  OBVIOUS
<1>4. diskOf' = [diskOf EXCEPT ![file[t]] = d] /\ d \in {diskOf[file[t]], Null, to[t]}
  BY <1>3, <1>1 DEF Basic, TypeOK
<1>5. prev' \in [Files -> 0 .. MaxFiles]
  BY <1>1, <1>2 DEF Basic, TypeOK
<1>6. head' \in [Disks -> 0 .. MaxFiles] /\ next' \in [Files -> 0 .. MaxFiles]
        /\ files' \in [Disks -> Int]
  BY <1>1 DEF Basic, TypeOK
<1>7. StepTo(t, "off_prev", d)
  BY <1>3, <1>1, <1>2, <1>4, <1>5, <1>6 DEF StepTo, Off, On
<1>8. /\ TypeOK' /\ Loads' /\ Moves' /\ Permutes' /\ Assigned'
      /\ \A e \in Disks : Counted(e)' = (Counted(e) \ {file[t]})
           \cup IF d = e THEN {file[t]} ELSE {}
  BY <1>7, StepKeeps
<1>9. \A e \in Disks : file[t] \in Counted(e) <=> d = e
  BY <1>3, <1>1, <1>2, Moving DEF Counted
<1>10. Counts'
  <2>1. ASSUME NEW e \in Disks PROVE Counted(e)' = Counted(e)
    <3>1. CASE d = e
      BY <1>8, <1>9, <3>1
    <3>2. CASE d # e
      BY <1>8, <1>9, <3>2
    <3>. QED  BY <3>1, <3>2
  <2>. QED  BY <1>1, <2>1 DEF Basic, Counts
<1>. QED  BY <1>8, <1>10, <1>7 DEF Basic

LEMMA UnlinkFromPrevKeeps == ASSUME Basic, NEW t \in Movers, UnlinkFromPrev(t)
  PROVE  Basic' /\ \E d : StepTo(t, "off_count", d)
<1>1. /\ pc[t] = "off_prev" /\ pc' = [pc EXCEPT ![t] = "off_count"]
      /\ IF prev[file[t]] = Null
         THEN head' = [head EXCEPT ![diskOf[file[t]]] = next[file[t]]] /\ UNCHANGED next
         ELSE next' = [next EXCEPT ![prev[file[t]]] = next[file[t]]] /\ UNCHANGED head
      /\ UNCHANGED <<loading, drawing, file, to>>
      /\ UNCHANGED <<prev, files, diskOf>>
  BY DEF UnlinkFromPrev, Step
<1>2. file[t] \in Files /\ diskOf[file[t]] # Null
  BY <1>1, Moving DEF Basic, Moves, MovesOf, Off
<1>3. PICK d : d = diskOf[file[t]]
  OBVIOUS
<1>4. diskOf' = [diskOf EXCEPT ![file[t]] = d] /\ d \in {diskOf[file[t]], Null, to[t]}
  BY <1>3, <1>1 DEF Basic, TypeOK
<1>5. head' \in [Disks -> 0 .. MaxFiles] /\ next' \in [Files -> 0 .. MaxFiles]
  BY <1>1, <1>2 DEF Basic, TypeOK
<1>6. prev' \in [Files -> 0 .. MaxFiles] /\ files' \in [Disks -> Int]
  BY <1>1 DEF Basic, TypeOK
<1>7. StepTo(t, "off_count", d)
  BY <1>3, <1>1, <1>2, <1>4, <1>5, <1>6 DEF StepTo, Off, On
<1>8. /\ TypeOK' /\ Loads' /\ Moves' /\ Permutes' /\ Assigned'
      /\ \A e \in Disks : Counted(e)' = (Counted(e) \ {file[t]})
           \cup IF d = e THEN {file[t]} ELSE {}
  BY <1>7, StepKeeps
<1>9. \A e \in Disks : file[t] \in Counted(e) <=> d = e
  BY <1>3, <1>1, <1>2, Moving DEF Counted
<1>10. Counts'
  <2>1. ASSUME NEW e \in Disks PROVE Counted(e)' = Counted(e)
    <3>1. CASE d = e
      BY <1>8, <1>9, <3>1
    <3>2. CASE d # e
      BY <1>8, <1>9, <3>2
    <3>. QED  BY <3>1, <3>2
  <2>. QED  BY <1>1, <2>1 DEF Basic, Counts
<1>. QED  BY <1>8, <1>10, <1>7 DEF Basic

LEMMA CountOutKeeps == ASSUME Basic, NEW t \in Movers, CountOut(t)
  PROVE  Basic' /\ \E d : StepTo(t, "off", d)
<1>1. /\ pc[t] = "off_count" /\ pc' = [pc EXCEPT ![t] = "off"]
      /\ files' = [files EXCEPT ![diskOf[file[t]]] = @ - 1]
      /\ UNCHANGED <<loading, drawing, file, to>>
      /\ UNCHANGED <<head, next, prev, diskOf>>
  BY DEF CountOut, Step, links
<1>2. file[t] \in Files /\ diskOf[file[t]] # Null /\ diskOf[file[t]] \in Disks
  BY <1>1, Moving DEF Basic, Moves, MovesOf, Off
<1>3. PICK d : d = diskOf[file[t]]
  OBVIOUS
<1>4. diskOf' = [diskOf EXCEPT ![file[t]] = d] /\ d \in {diskOf[file[t]], Null, to[t]}
  BY <1>3, <1>1 DEF Basic, TypeOK
<1>5. files' \in [Disks -> Int]
        /\ \A e \in Disks : files'[e] = IF e = d THEN files[e] - 1 ELSE files[e]
  BY <1>3, <1>1, <1>2 DEF Basic, TypeOK
<1>6. head' \in [Disks -> 0 .. MaxFiles] /\ next' \in [Files -> 0 .. MaxFiles]
        /\ prev' \in [Files -> 0 .. MaxFiles]
  BY <1>1 DEF Basic, TypeOK
<1>7. StepTo(t, "off", d)
  BY <1>3, <1>1, <1>2, <1>4, <1>5, <1>6 DEF StepTo, Off, On
<1>8. /\ TypeOK' /\ Loads' /\ Moves' /\ Permutes' /\ Assigned'
      /\ \A e \in Disks : Counted(e)' = Counted(e) \ {file[t]}
  BY <1>7, StepKeeps
<1>9. \A e \in Disks : file[t] \in Counted(e) <=> d = e
  BY <1>3, <1>1, <1>2, Moving DEF Counted
<1>10. ASSUME NEW e \in Disks PROVE files'[e] = Cardinality(Counted(e)')
  <2>. DEFINE C == Counted(e)
  <2>1. files[e] = Cardinality(C) /\ IsFiniteSet(C) /\ Cardinality(C) \in Int
    <3>1. C \subseteq Files
      BY DEF Counted
    <3>. QED  BY <3>1, SubsetFinite DEF Basic, Counts
  <2>2. Counted(e)' = C \ {file[t]} /\ (file[t] \in C <=> e = d)
    BY <1>8, <1>9
  <2>. HIDE DEF C
  <2>3. Cardinality(C \ {file[t]}) = IF file[t] \in C THEN Cardinality(C) - 1 ELSE Cardinality(C)
    BY <2>1, FS_RemoveElement
  <2>. QED  BY <1>5, <2>1, <2>2, <2>3
<1>. QED  BY <1>8, <1>10, <1>7 DEF Basic, Counts

LEMMA UnassignKeeps == ASSUME Basic, NEW t \in Movers, Unassign(t)
  PROVE  Basic' /\ \E d : StepTo(t, "on_next", d)
<1>1. /\ pc[t] = "off" /\ pc' = [pc EXCEPT ![t] = "on_next"]
      /\ diskOf' = [diskOf EXCEPT ![file[t]] = Null]
      /\ next' = [next EXCEPT ![file[t]] = Null] /\ prev' = [prev EXCEPT ![file[t]] = Null]
      /\ UNCHANGED <<loading, drawing, file, to>>
      /\ UNCHANGED <<head, files>>
  BY DEF Unassign, Step
<1>2. file[t] \in Files
  BY <1>1, Moving
<1>3. next' \in [Files -> 0 .. MaxFiles] /\ prev' \in [Files -> 0 .. MaxFiles]
  BY <1>1, <1>2, OrNull DEF Basic, TypeOK
<1>4. head' \in [Disks -> 0 .. MaxFiles] /\ files' \in [Disks -> Int]
  BY <1>1 DEF Basic, TypeOK
<1>5. StepTo(t, "on_next", Null)
  BY <1>1, <1>2, <1>3, <1>4 DEF StepTo, Off, On
<1>6. /\ TypeOK' /\ Loads' /\ Moves' /\ Permutes' /\ Assigned'
      /\ \A e \in Disks : Counted(e)' = (Counted(e) \ {file[t]})
           \cup IF Null = e THEN {file[t]} ELSE {}
  BY <1>5, StepKeeps
<1>7. \A e \in Disks : Null # e /\ file[t] \notin Counted(e)
  BY <1>1, FilesFinite DEF Counted
<1>8. Counts'
  BY <1>1, <1>6, <1>7 DEF Basic, Counts
<1>. QED  BY <1>6, <1>8, <1>5 DEF Basic

LEMMA LinkToNextKeeps == ASSUME Basic, NEW t \in Movers, LinkToNext(t)
  PROVE  Basic' /\ \E d : StepTo(t, "on_prev", d)
<1>1. /\ pc[t] = "on_next" /\ pc' = [pc EXCEPT ![t] = "on_prev"]
      /\ prev' = [prev EXCEPT ![file[t]] = Null]
      /\ next' = [next EXCEPT ![file[t]] = head[to[t]]]
      /\ UNCHANGED <<loading, drawing, file, to>>
      /\ UNCHANGED <<head, files, diskOf>>
  BY DEF LinkToNext, Step
<1>2. file[t] \in Files /\ to[t] \in Disks /\ diskOf[file[t]] = Null
  BY <1>1, Moving DEF Basic, Moves, MovesOf
<1>3. diskOf' = [diskOf EXCEPT ![file[t]] = Null]
  BY <1>1, <1>2 DEF Basic, TypeOK
<1>4. next' \in [Files -> 0 .. MaxFiles] /\ prev' \in [Files -> 0 .. MaxFiles]
  BY <1>1, <1>2, OrNull DEF Basic, TypeOK
<1>5. head' \in [Disks -> 0 .. MaxFiles] /\ files' \in [Disks -> Int]
  BY <1>1 DEF Basic, TypeOK
<1>6. StepTo(t, "on_prev", Null)
  BY <1>1, <1>2, <1>3, <1>4, <1>5 DEF StepTo, Off, On
<1>7. /\ TypeOK' /\ Loads' /\ Moves' /\ Permutes' /\ Assigned'
      /\ \A e \in Disks : Counted(e)' = (Counted(e) \ {file[t]})
           \cup IF Null = e THEN {file[t]} ELSE {}
  BY <1>6, StepKeeps
<1>8. \A e \in Disks : Null # e /\ file[t] \notin Counted(e)
  BY <1>2, FilesFinite DEF Counted
<1>9. Counts'
  BY <1>1, <1>7, <1>8 DEF Basic, Counts
<1>. QED  BY <1>7, <1>9, <1>6 DEF Basic

LEMMA LinkFromNextKeeps == ASSUME Basic, NEW t \in Movers, LinkFromNext(t)
  PROVE  Basic' /\ \E d : StepTo(t, "on_head", d)
<1>1. /\ pc[t] = "on_prev" /\ pc' = [pc EXCEPT ![t] = "on_head"]
      /\ prev' = [g \in Files |-> IF g = head[to[t]] THEN file[t] ELSE prev[g]]
      /\ UNCHANGED <<loading, drawing, file, to>>
      /\ UNCHANGED <<head, next, files, diskOf>>
  BY DEF LinkFromNext, Step
<1>2. file[t] \in Files /\ to[t] \in Disks /\ diskOf[file[t]] = Null
  BY <1>1, Moving DEF Basic, Moves, MovesOf
<1>3. diskOf' = [diskOf EXCEPT ![file[t]] = Null]
  BY <1>1, <1>2 DEF Basic, TypeOK
<1>4. prev' \in [Files -> 0 .. MaxFiles]
  BY <1>1, <1>2, OrNull DEF Basic, TypeOK
<1>5. head' \in [Disks -> 0 .. MaxFiles] /\ next' \in [Files -> 0 .. MaxFiles]
        /\ files' \in [Disks -> Int]
  BY <1>1 DEF Basic, TypeOK
<1>6. StepTo(t, "on_head", Null)
  BY <1>1, <1>2, <1>3, <1>4, <1>5 DEF StepTo, Off, On
<1>7. /\ TypeOK' /\ Loads' /\ Moves' /\ Permutes' /\ Assigned'
      /\ \A e \in Disks : Counted(e)' = (Counted(e) \ {file[t]})
           \cup IF Null = e THEN {file[t]} ELSE {}
  BY <1>6, StepKeeps
<1>8. \A e \in Disks : Null # e /\ file[t] \notin Counted(e)
  BY <1>2, FilesFinite DEF Counted
<1>9. Counts'
  BY <1>1, <1>7, <1>8 DEF Basic, Counts
<1>. QED  BY <1>7, <1>9, <1>6 DEF Basic

LEMMA LinkHeadKeeps == ASSUME Basic, NEW t \in Movers, LinkHead(t)
  PROVE  Basic' /\ \E d : StepTo(t, "on_count", d)
<1>1. /\ pc[t] = "on_head" /\ pc' = [pc EXCEPT ![t] = "on_count"]
      /\ head' = [head EXCEPT ![to[t]] = file[t]]
      /\ diskOf' = [diskOf EXCEPT ![file[t]] = to[t]]
      /\ UNCHANGED <<loading, drawing, file, to>>
      /\ UNCHANGED <<next, prev, files>>
  BY DEF LinkHead, Step
<1>2. PICK d : d = to[t]
  OBVIOUS
<1>3. file[t] \in Files /\ to[t] \in Disks /\ diskOf[file[t]] = Null
  BY <1>1, Moving DEF Basic, Moves, MovesOf
<1>4. head' \in [Disks -> 0 .. MaxFiles]
  BY <1>1, <1>3, OrNull DEF Basic, TypeOK
<1>5. next' \in [Files -> 0 .. MaxFiles] /\ prev' \in [Files -> 0 .. MaxFiles]
        /\ files' \in [Disks -> Int]
  BY <1>1 DEF Basic, TypeOK
<1>6. StepTo(t, "on_count", d)
  BY <1>2, <1>1, <1>3, <1>4, <1>5 DEF StepTo, Off, On
<1>7. /\ TypeOK' /\ Loads' /\ Moves' /\ Permutes' /\ Assigned'
      /\ \A e \in Disks : Counted(e)' = Counted(e) \ {file[t]}
  BY <1>6, StepKeeps
<1>8. \A e \in Disks : file[t] \notin Counted(e)
  BY <1>3, FilesFinite DEF Counted
<1>9. Counts'
  BY <1>1, <1>7, <1>8 DEF Basic, Counts
<1>. QED  BY <1>7, <1>9, <1>6 DEF Basic

LEMMA CountInKeeps == ASSUME Basic, NEW t \in Movers, CountIn(t)
  PROVE  Basic' /\ \E d : StepTo(t, "stamp", d)
<1>1. /\ pc[t] = "on_count" /\ pc' = [pc EXCEPT ![t] = "stamp"]
      /\ files' = [files EXCEPT ![to[t]] = @ + 1]
      /\ UNCHANGED <<loading, drawing, file, to>>
      /\ UNCHANGED <<head, next, prev, diskOf>>
  BY DEF CountIn, Step, links
<1>2. PICK d : d = to[t]
  OBVIOUS
<1>3. file[t] \in Files /\ to[t] \in Disks /\ diskOf[file[t]] = to[t]
  BY <1>1, Moving DEF Basic, Moves, MovesOf
<1>4. diskOf' = [diskOf EXCEPT ![file[t]] = to[t]]
  BY <1>1, <1>3 DEF Basic, TypeOK
<1>5. files' \in [Disks -> Int]
        /\ \A e \in Disks : files'[e] = IF e = to[t] THEN files[e] + 1 ELSE files[e]
  BY <1>1, <1>3 DEF Basic, TypeOK
<1>6. head' \in [Disks -> 0 .. MaxFiles] /\ next' \in [Files -> 0 .. MaxFiles]
        /\ prev' \in [Files -> 0 .. MaxFiles]
  BY <1>1 DEF Basic, TypeOK
<1>7. StepTo(t, "stamp", d)
  BY <1>2, <1>1, <1>3, <1>4, <1>5, <1>6 DEF StepTo, Off, On
<1>8. /\ TypeOK' /\ Loads' /\ Moves' /\ Permutes' /\ Assigned'
      /\ \A e \in Disks : Counted(e)' = (Counted(e) \ {file[t]})
           \cup IF d = e THEN {file[t]} ELSE {}
  BY <1>7, StepKeeps
<1>9. \A e \in Disks : file[t] \notin Counted(e)
  BY <1>1 DEF Counted
<1>10. ASSUME NEW e \in Disks PROVE files'[e] = Cardinality(Counted(e)')
  <2>. DEFINE C == Counted(e)
  <2>1. files[e] = Cardinality(C) /\ IsFiniteSet(C) /\ Cardinality(C) \in Int
    <3>1. C \subseteq Files
      BY DEF Counted
    <3>. QED  BY <3>1, SubsetFinite DEF Basic, Counts
  <2>2. Counted(e)' = IF e = to[t] THEN C \cup {file[t]} ELSE C
    BY <1>2, <1>8, <1>9
  <2>3. file[t] \notin C
    BY <1>9
  <2>. HIDE DEF C
  <2>4. Cardinality(C \cup {file[t]}) = Cardinality(C) + 1
    BY <2>1, <2>3, FS_AddElement
  <2>. QED  BY <1>5, <2>1, <2>2, <2>4
<1>. QED  BY <1>8, <1>10, <1>7 DEF Basic, Counts

(* A step that starts or ends a move.                                      *)
LEMMA BeginMoveKeeps == ASSUME Basic, NEW t \in Movers, BeginMove(t) PROVE Basic'
<1>1. PICK f \in 1 .. fileCount, d \in 1 .. diskCount :
        /\ \A u \in Movers : file[u] # f
        /\ d # diskOf[f]
        /\ file' = [file EXCEPT ![t] = f] /\ to' = [to EXCEPT ![t] = d]
  BY DEF BeginMove
<1>2. /\ phase = "run" /\ pc[t] = "idle" /\ pc' = [pc EXCEPT ![t] = "off_next"]
      /\ UNCHANGED <<phase, fileCount, diskCount, method, id, even, nextFileIndex, lock, row, at,
                     head, next, prev, files, diskOf>>
  BY DEF BeginMove, Step, loading, links, drawing
<1>3. f \in Files /\ f # Null /\ d \in Disks /\ f \in 0 .. MaxFiles /\ d \in 0 .. MaxDisks
  <2>1. fileCount \in Files /\ diskCount \in Disks
    BY <1>2 DEF Basic, Loads
  <2>. QED  BY <2>1, FilesFinite DEF Files, Disks, Null
<1>4. diskOf[f] # Null
  BY <1>1, <1>2, <1>3 DEF Basic, Assigned
<1>5. \A u \in Movers : /\ pc'[u] = IF u = t THEN "off_next" ELSE pc[u]
                        /\ file'[u] = IF u = t THEN f ELSE file[u]
                        /\ to'[u] = IF u = t THEN d ELSE to[u]
  BY <1>1, <1>2 DEF Basic, TypeOK
<1>6. TypeOK'
  <2>1. file' \in [Movers -> 0 .. MaxFiles] /\ to' \in [Movers -> 0 .. MaxDisks]
    BY <1>1, <1>3 DEF Basic, TypeOK
  <2>2. pc' \in [Movers -> {"idle", "off_next", "off_prev", "off_count", "off", "on_next",
                            "on_prev", "on_head", "on_count", "stamp"}]
    BY <1>2 DEF Basic, TypeOK
  <2>. QED  BY <1>2, <2>1, <2>2 DEF Basic, TypeOK
<1>7. Loads' /\ Permutes'
  BY <1>2 DEF Basic, Loads, Permutes
<1>8. Moves'
  <2>. SUFFICES ASSUME NEW u \in Movers
       PROVE  MovesOf(u)'
    BY DEF Moves
  <2>1. CASE u = t
    BY <1>1, <1>2, <1>3, <1>4, <1>5, <2>1 DEF MovesOf
  <2>2. CASE u # t
    BY <1>1, <1>2, <1>3, <1>5, <2>2 DEF Basic, Moves, MovesOf
  <2>. QED  BY <2>1, <2>2
<1>9. Assigned'
  <2>1. ASSUME NEW g \in Files
        PROVE  diskOf[g] # Null <=> g \in 1 .. fileCount
                 /\ \A u \in Movers : file'[u] = g => pc'[u] \in Off \cup {"on_count", "stamp"}
    <3>1. CASE g = f
      BY <1>1, <1>4, <1>5, <3>1 DEF Off
    <3>2. CASE g # f
      <4>1. file[t] # g
        BY <1>2, FilesFinite DEF Basic, Moves, MovesOf
      <4>. QED  BY <1>2, <1>5, <3>2, <4>1 DEF Basic, Assigned
    <3>. QED  BY <3>1, <3>2
  <2>. QED  BY <1>2, <2>1 DEF Basic, Assigned
<1>10. ASSUME NEW e \in Disks PROVE Counted(e)' = Counted(e)
  <2>1. ASSUME NEW g \in Files
        PROVE  (\A u \in Movers : file'[u] = g => pc'[u] \notin {"off", "on_count"})
                 <=> \A u \in Movers : file[u] = g => pc[u] \notin {"off", "on_count"}
    BY <1>1, <1>2, <1>5
  <2>. QED  BY <1>2, <2>1 DEF Counted
<1>11. Counts'
  BY <1>2, <1>10 DEF Basic, Counts
<1>. QED  BY <1>6, <1>7, <1>8, <1>9, <1>11 DEF Basic

LEMMA EndMoveKeeps == ASSUME Basic, NEW t \in Movers, EndMove(t) PROVE Basic'
<1>1. /\ pc[t] = "stamp" /\ pc' = [pc EXCEPT ![t] = "idle"]
      /\ file' = [file EXCEPT ![t] = Null] /\ to' = [to EXCEPT ![t] = Null]
      /\ UNCHANGED <<phase, fileCount, diskCount, method, id, even, nextFileIndex, lock, row, at,
                     head, next, prev, files, diskOf>>
  BY DEF EndMove, Step, loading, links, drawing
<1>2. /\ phase = "run" /\ file[t] \in Files /\ file[t] # Null
      /\ \A u \in Movers : file[u] = file[t] => u = t
  BY <1>1, Moving
<1>3. \A u \in Movers : /\ pc'[u] = IF u = t THEN "idle" ELSE pc[u]
                        /\ file'[u] = IF u = t THEN Null ELSE file[u]
                        /\ to'[u] = IF u = t THEN Null ELSE to[u]
  BY <1>1 DEF Basic, TypeOK
<1>4. TypeOK'
  <2>1. file' \in [Movers -> 0 .. MaxFiles] /\ to' \in [Movers -> 0 .. MaxDisks]
    BY <1>1, FilesFinite DEF Basic, TypeOK, Null
  <2>2. pc' \in [Movers -> {"idle", "off_next", "off_prev", "off_count", "off", "on_next",
                            "on_prev", "on_head", "on_count", "stamp"}]
    BY <1>1 DEF Basic, TypeOK
  <2>. QED  BY <1>1, <2>1, <2>2 DEF Basic, TypeOK
<1>5. Loads' /\ Permutes'
  BY <1>1 DEF Basic, Loads, Permutes
<1>6. Moves'
  <2>. SUFFICES ASSUME NEW u \in Movers
       PROVE  MovesOf(u)'
    BY DEF Moves
  <2>1. CASE u = t
    BY <1>3, <2>1 DEF MovesOf, Off
  <2>2. CASE u # t
    <3>1. pc[u] # "idle" => file[u] # Null
      BY Moving
    <3>. QED  BY <1>1, <1>3, <2>2, <3>1 DEF Basic, Moves, MovesOf
  <2>. QED  BY <2>1, <2>2
<1>7. Assigned'
  <2>1. ASSUME NEW g \in Files
        PROVE  diskOf[g] # Null <=> g \in 1 .. fileCount
                 /\ \A u \in Movers : file'[u] = g => pc'[u] \in Off \cup {"on_count", "stamp"}
    <3>1. CASE g = file[t]
      BY <1>1, <1>2, <1>3, <3>1, FilesFinite DEF Basic, Assigned
    <3>2. CASE g # file[t]
      BY <1>2, <1>3, <3>2, FilesFinite DEF Basic, Assigned
    <3>. QED  BY <3>1, <3>2
  <2>. QED  BY <1>1, <1>2, <2>1 DEF Basic, Assigned
<1>8. ASSUME NEW e \in Disks PROVE Counted(e)' = Counted(e)
  <2>1. ASSUME NEW g \in Files
        PROVE  (\A u \in Movers : file'[u] = g => pc'[u] \notin {"off", "on_count"})
                 <=> \A u \in Movers : file[u] = g => pc[u] \notin {"off", "on_count"}
    BY <1>1, <1>2, <1>3, FilesFinite
  <2>. QED  BY <1>1, <2>1 DEF Counted
<1>9. Counts'
  BY <1>1, <1>8 DEF Basic, Counts
<1>. QED  BY <1>4, <1>5, <1>6, <1>7, <1>9 DEF Basic

(* Drawing changes nothing but the screen's place.                         *)
LEMMA DrawingKeeps == ASSUME Basic, BeginDraw \/ WalkFile \/ DrawnDisk PROVE Basic'
<1>1. UNCHANGED <<phase, fileCount, diskCount, method, id, even, nextFileIndex, head, next, prev,
                  files, diskOf, pc, file, to>>
  BY DEF BeginDraw, WalkFile, DrawnDisk, loading, links, moving
<1>2. lock' \in BOOLEAN /\ row' \in Disks /\ at' \in 0 .. MaxFiles
  <2>. USE DEF Basic, TypeOK
  <2>1. CASE BeginDraw
    BY <2>1, FilesFinite DEF BeginDraw
  <2>2. CASE WalkFile
    <3>1. at \in Files
      BY <2>2 DEF WalkFile, Files, Null
    <3>. QED  BY <2>2, <3>1 DEF WalkFile
  <2>3. CASE DrawnDisk
    <3>1. CASE row < diskCount
      <4>1. row + 1 \in Disks
        <5>1. row \in 1 .. MaxDisks /\ diskCount \in 0 .. MaxDisks
          BY DEF Disks
        <5>. HIDE DEF Basic, TypeOK
        <5>. QED  BY <3>1, <5>1, FilesFinite DEF Disks
      <4>2. row' = row + 1 /\ at' = head[row + 1] /\ lock' = lock
        BY <2>3, <3>1 DEF DrawnDisk
      <4>. QED  BY <4>1, <4>2
    <3>2. CASE ~(row < diskCount)
      BY <2>3, <3>2, FilesFinite DEF DrawnDisk
    <3>. QED  BY <3>1, <3>2
  <2>. QED  BY <2>1, <2>2, <2>3
<1>3. TypeOK'
  BY <1>1, <1>2 DEF Basic, TypeOK
<1>4. Loads' /\ Permutes'
  BY <1>1 DEF Basic, Loads, Permutes
<1>5. Moves'
  BY <1>1 DEF Basic, Moves, MovesOf
<1>6. Assigned'
  <2>1. Waiting' = Waiting
    BY <1>1 DEF Waiting
  <2>. QED  BY <1>1, <2>1 DEF Basic, Assigned
<1>7. Counts'
  BY <1>1 DEF Basic, Counts, Counted
<1>. QED  BY <1>3, <1>4, <1>5, <1>6, <1>7 DEF Basic

LEMMA BasicNext == Basic /\ [Next]_vars => Basic'
<1>. SUFFICES ASSUME Basic, [Next]_vars PROVE Basic'
  OBVIOUS
<1>1. CASE LoadConfig \/ AssignFile \/ SetNextFileIndex
  BY <1>1, LoadConfigKeeps, AssignFileKeeps, SetNextFileIndexKeeps
<1>2. ASSUME NEW t \in Movers, MoveStep(t) PROVE Basic'
  BY <1>2, BeginMoveKeeps, UnlinkFromNextKeeps, UnlinkFromPrevKeeps, CountOutKeeps, UnassignKeeps,
     LinkToNextKeeps, LinkFromNextKeeps, LinkHeadKeeps, CountInKeeps, EndMoveKeeps DEF MoveStep
<1>3. CASE BeginDraw \/ WalkFile \/ DrawnDisk
  BY <1>3, DrawingKeeps
<1>4. CASE UNCHANGED vars
  <2>1. UNCHANGED <<phase, fileCount, diskCount, method, id, even, nextFileIndex, head, next, prev,
                    files, diskOf, pc, file, to, lock, row, at>>
    BY <1>4 DEF vars
  <2>2. TypeOK' /\ Loads' /\ Permutes'
    BY <2>1 DEF Basic, TypeOK, Loads, Permutes
  <2>3. Moves'
    BY <2>1 DEF Basic, Moves, MovesOf
  <2>4. Assigned'
    <3>1. Waiting' = Waiting
      BY <2>1 DEF Waiting
    <3>. QED  BY <2>1, <3>1 DEF Basic, Assigned
  <2>5. Counts'
    BY <2>1 DEF Basic, Counts, Counted
  <2>. QED  BY <2>2, <2>3, <2>4, <2>5 DEF Basic
<1>. QED  BY <1>1, <1>2, <1>3, <1>4 DEF Next

(* Every variable keeps its type, with any number of movers: no index is   *)
(* out of the arrays, and m_assign_disk of a file that is taken off its    *)
(* disk, or put on one, is a disk.                                         *)
THEOREM TypeCorrect == Spec => []TypeOK
<1>1. Basic => TypeOK
  BY DEF Basic
<1>. QED  BY <1>1, BasicInit, BasicNext, PTL DEF Spec
-----------------------------------------------------------------------------
(* Equal shares.                                                           *)

(* UpTo of a disk is a natural number, in this state as in the next.       *)
LEMMA NaturalQuotient ==
  ASSUME NEW d \in Nat, NEW n \in Nat \ {0}, NEW k \in Nat \ {0}
  PROVE  (d * n + k - 1) \div k \in Nat
<1>. DEFINE a == d * n + k - 1
            q == a \div k
<1>1. d * n \in Nat
  OBVIOUS
<1>2. a \in Nat
  BY <1>1
<1>3. q \in Int /\ k * q <= a /\ a < k * q + k
  BY <1>2, Quotient
<1>. HIDE DEF a, q
<1>4. k * 0 = 0 /\ k * q \in Int
  BY <1>3
<1>5. k * 0 < k * q + k
  BY <1>2, <1>3, <1>4
<1>6. 0 <= q
  BY <1>3, <1>5, Factors
<1>. QED  BY <1>3, <1>6 DEF a, q

(* No disk has less than nothing.                                          *)
LEMMA UpToGrows ==
  ASSUME SharesAre, NEW d \in Int
  PROVE  UpTo(d - 1) <= UpTo(d)
<1>1. UpTo(d) \in Int /\ UpTo(d - 1) \in Int
  BY UpToIs
<1>2. d * fileCount \in Int /\ (d - 1) * fileCount \in Int
        /\ (d - 1) * fileCount = d * fileCount - fileCount
      /\ UpTo(d) * diskCount \in Int
  BY <1>1 DEF SharesAre
<1>. SUFFICES ASSUME UpTo(d) < UpTo(d - 1) PROVE FALSE
  BY <1>1
<1>3. UpTo(d) * diskCount < (d - 1) * fileCount
  BY <1>1, BelowUpTo
<1>4. UpTo(d) * diskCount < d * fileCount
  BY <1>2, <1>3 DEF SharesAre
<1>5. UpTo(d) < UpTo(d)
  BY <1>1, <1>4, BelowUpTo
<1>. QED  BY <1>1, <1>5

(* No disk starts behind the last file.                                    *)
LEMMA UpToFiles ==
  ASSUME SharesAre, NEW d \in 0 .. diskCount
  PROVE  UpTo(d) \in 0 .. fileCount
<1>1. UpTo(d) \in Nat
  BY NaturalQuotient DEF UpTo, SharesAre
<1>2. diskCount * UpTo(d) <= d * fileCount + diskCount - 1
  BY UpToIs
<1>3. d * fileCount <= diskCount * fileCount
  <2>1. (diskCount - d) * fileCount >= 0
    <3>1. diskCount - d \in Nat
      BY DEF SharesAre
    <3>. HIDE DEF SharesAre
    <3>. QED  BY <3>1 DEF SharesAre
  <2>2. (diskCount - d) * fileCount = diskCount * fileCount - d * fileCount
    BY DEF SharesAre
  <2>3. d * fileCount \in Int /\ diskCount * fileCount \in Int
    BY DEF SharesAre
  <2>. QED  BY <2>1, <2>2, <2>3
<1>4. diskCount * UpTo(d) < diskCount * fileCount + diskCount
  <2>1. d * fileCount \in Int /\ diskCount * fileCount \in Int /\ diskCount * UpTo(d) \in Int
    BY <1>1 DEF SharesAre
  <2>. QED  BY <1>2, <1>3, <2>1 DEF SharesAre
<1>5. UpTo(d) <= fileCount
  BY <1>1, <1>4, Factors DEF SharesAre
<1>. QED  BY <1>1, <1>5 DEF SharesAre

(* Nothing is shared at the start.                                         *)
LEMMA SharesInit == Init => EqualShares
BY DEF Init, EqualShares

(* When the configuration is read no disk has a file.                      *)
LEMMA LoadConfigShares == ASSUME Basic, LoadConfig PROVE EqualShares'
<1>1. Basic'
  BY LoadConfigKeeps
<1>2. phase = "load" /\ phase' = "assign" /\ id' = 1 /\ files' = files
  BY DEF LoadConfig, Basic, Loads
<1>3. fileCount' \in Nat \ {0} /\ diskCount' \in Nat \ {0} /\ diskCount' \in Disks
  BY <1>1, <1>2, FilesFinite DEF Basic, Loads, Files, Disks
<1>4. \A d \in Disks : files[d] = 0
  <2>1. \A d \in Disks : Counted(d) = {}
    BY <1>2, FilesFinite DEF Basic, Loads, Counted
  <2>. QED  BY <2>1, FS_EmptySet DEF Basic, Counts
<1>5. ASSUME NEW d \in 1 .. diskCount'
      PROVE  files'[d] = Least(id' - 1, UpTo(d)') - Least(id' - 1, UpTo(d - 1)')
  <2>1. d \in Disks /\ d \in Nat /\ d - 1 \in Nat
    BY <1>3, FilesFinite DEF Disks
  <2>2. UpTo(d)' \in Nat /\ UpTo(d - 1)' \in Nat
    BY <1>3, <2>1, NaturalQuotient DEF UpTo
  <2>3. id' - 1 = 0
    BY <1>2
  <2>. QED  BY <1>2, <1>4, <2>1, <2>2, <2>3 DEF Least
<1>. QED  BY <1>5 DEF EqualShares

(* The share of the disk grows by the file it is given.                    *)
LEMMA ShareGrows ==
  ASSUME SharesAre, NEW i \in 1 .. fileCount, NEW d \in 1 .. diskCount
  PROVE  Least(i, UpTo(d)) - Least(i, UpTo(d - 1)) =
           Least(i - 1, UpTo(d)) - Least(i - 1, UpTo(d - 1)) + IF d = Share(i) THEN 1 ELSE 0
<1>1. d \in Int /\ i \in Int
  BY DEF SharesAre
<1>2. UpTo(d) \in Int /\ UpTo(d - 1) \in Int /\ UpTo(d - 1) <= UpTo(d)
  BY <1>1, UpToIs, UpToGrows
<1>3. Share(i) = d <=> UpTo(d - 1) <= i - 1 /\ i - 1 < UpTo(d)
  BY <1>1, ShareIs
<1>. QED  BY <1>1, <1>2, <1>3 DEF Least

(* A file is assigned by the ordered or the even method.                   *)
LEMMA AssignFileShares == ASSUME Basic, EqualShares, AssignFile PROVE EqualShares'
<1>1. PICK f \in Waiting, d \in 1 .. diskCount :
        AssignTo(f, d) /\ (method # "random" => d = Share(id))
  BY DrawnFileWaits
<1>2. /\ phase = "assign" /\ id <= fileCount /\ id' = id + 1
      /\ UNCHANGED <<fileCount, diskCount, method>>
  BY DEF AssignFile
<1>3. fileCount \in Files /\ diskCount \in Disks /\ id \in Int /\ id \in 1 .. fileCount
  BY <1>2 DEF Basic, TypeOK, Loads, Files
<1>4. SharesAre
  BY <1>3, FilesFinite DEF SharesAre, Files, Disks
<1>5. 1 .. diskCount \subseteq Disks
  BY <1>3, FilesFinite DEF Disks
<1>. SUFFICES ASSUME method # "random", NEW e \in 1 .. diskCount
     PROVE  files'[e] = Least(id' - 1, UpTo(e)') - Least(id' - 1, UpTo(e - 1)')
  BY <1>2 DEF EqualShares
<1>6. id' - 1 = id /\ UpTo(e)' = UpTo(e) /\ UpTo(e - 1)' = UpTo(e - 1)
  BY <1>2, <1>3 DEF UpTo
<1>7. files'[e] = IF e = d THEN files[e] + 1 ELSE files[e]
  BY <1>1, <1>5 DEF AssignTo, Basic, TypeOK
<1>8. files[e] = Least(id - 1, UpTo(e)) - Least(id - 1, UpTo(e - 1))
  BY <1>2 DEF EqualShares
<1>9. Least(id, UpTo(e)) - Least(id, UpTo(e - 1)) =
        Least(id - 1, UpTo(e)) - Least(id - 1, UpTo(e - 1)) + IF e = d THEN 1 ELSE 0
  BY <1>1, <1>3, <1>4, ShareGrows
<1>10. files[e] \in Int
  BY <1>5 DEF Basic, TypeOK
<1>. QED  BY <1>6, <1>7, <1>8, <1>9, <1>10

(* Nothing else assigns files before the services run.                     *)
LEMMA SharesNext == Basic /\ EqualShares /\ [Next]_vars => EqualShares'
<1>. SUFFICES ASSUME Basic, EqualShares, [Next]_vars PROVE EqualShares'
  OBVIOUS
<1>1. CASE LoadConfig
  BY <1>1, LoadConfigShares
<1>2. CASE AssignFile
  BY <1>2, AssignFileShares
<1>3. CASE SetNextFileIndex
  BY <1>3 DEF SetNextFileIndex, EqualShares
<1>4. ASSUME NEW t \in Movers, MoveStep(t) PROVE EqualShares'
  <2>1. phase = "run" /\ phase' = phase
    <3>1. CASE BeginMove(t)
      BY <3>1 DEF BeginMove, loading
    <3>2. CASE ~BeginMove(t)
      <4>1. pc[t] # "idle" /\ phase' = phase
        BY <1>4, <3>2 DEF MoveStep, UnlinkFromNext, UnlinkFromPrev, CountOut, Unassign, LinkToNext,
             LinkFromNext, LinkHead, CountIn, EndMove, Step, loading
      <4>. QED  BY <4>1, Moving
    <3>. QED  BY <3>1, <3>2
  <2>. QED  BY <2>1 DEF EqualShares
<1>5. CASE BeginDraw \/ WalkFile \/ DrawnDisk \/ UNCHANGED vars
  <2>1. UNCHANGED <<phase, fileCount, diskCount, method, id, files>>
    BY <1>5 DEF BeginDraw, WalkFile, DrawnDisk, loading, vars
  <2>. QED  BY <2>1 DEF EqualShares, UpTo
<1>. QED  BY <1>1, <1>2, <1>3, <1>4, <1>5 DEF Next

(* With all files assigned, the shares differ by one at most.              *)
LEMMA SharesSpread == Basic /\ EqualShares => SpreadOverDisks
<1>. SUFFICES ASSUME Basic, EqualShares, phase = "index"
     PROVE  /\ {f \in Files : diskOf[f] \in 1 .. diskCount} = 1 .. fileCount
            /\ SumFiles[diskCount] = fileCount
            /\ method # "random" => \A d, e \in 1 .. diskCount : files[d] - files[e] <= 1
  BY DEF SpreadOverDisks
<1>1. fileCount \in Files /\ diskCount \in Disks /\ id = fileCount + 1
  BY DEF Basic, Loads
<1>2. /\ fileCount \in Nat \ {0} /\ diskCount \in Nat \ {0} /\ diskCount \in 0 .. MaxDisks
      /\ 1 .. fileCount \subseteq Files
  BY <1>1, FilesFinite DEF Files, Disks
<1>3. OnFirst(diskCount) = 1 .. fileCount
  <2>1. \A f \in Files : diskOf[f] \in 0 .. diskCount /\ (diskOf[f] # Null <=> f \in 1 .. fileCount)
    BY NobodyMoves, FilesFinite DEF Basic, Assigned
  <2>2. \A n \in 0 .. diskCount : n \in 1 .. diskCount <=> n # Null
    BY <1>2 DEF Null
  <2>. QED  BY <1>2, <2>1, <2>2 DEF OnFirst
<1>4. SumFiles[diskCount] = fileCount
  <2>1. Cardinality(1 .. fileCount) = fileCount
    <3>1. 1 \in Int /\ fileCount \in Int /\ fileCount - 1 + 1 = fileCount
      BY <1>2
    <3>. QED  BY <1>2, <3>1, FS_Interval
  <2>. QED  BY <1>2, <1>3, <2>1, CountsLoaded
<1>5. ASSUME method # "random", NEW d \in 1 .. diskCount, NEW e \in 1 .. diskCount
      PROVE  files[d] - files[e] <= 1
  <2>1. SharesAre
    BY <1>2 DEF SharesAre
  <2>2. ASSUME NEW g \in 1 .. diskCount PROVE files[g] = UpTo(g) - UpTo(g - 1)
    <3>1. g \in 0 .. diskCount /\ g - 1 \in 0 .. diskCount
      BY <1>2
    <3>2. UpTo(g) \in 0 .. fileCount /\ UpTo(g - 1) \in 0 .. fileCount
      BY <2>1, <3>1, UpToFiles
    <3>3. id - 1 = fileCount
      BY <1>1, <1>2
    <3>4. files[g] = Least(fileCount, UpTo(g)) - Least(fileCount, UpTo(g - 1))
      BY <1>5, <3>3 DEF EqualShares
    <3>5. Least(fileCount, UpTo(g)) = UpTo(g) /\ Least(fileCount, UpTo(g - 1)) = UpTo(g - 1)
      BY <1>2, <3>2 DEF Least
    <3>. QED  BY <3>4, <3>5
  <2>3. d \in Int /\ e \in Int
    BY <1>2
  <2>4. (UpTo(d) - UpTo(d - 1)) - (UpTo(e) - UpTo(e - 1)) <= 1
    BY <2>1, <2>3, SharesEqual
  <2>. QED  BY <2>2, <2>4
<1>. QED  BY <1>3, <1>4, <1>5 DEF OnFirst

(* Whatever the configuration, once it is loaded each file is on one disk, *)
(* the counts add up to the number of files, so that there is a disk for   *)
(* every rank, and the ordered and the even method differ by one file at   *)
(* most.                                                                   *)
THEOREM LoadedFilesSpread == Spec => []SpreadOverDisks
<1>1. Init => Basic /\ EqualShares
  BY BasicInit, SharesInit
<1>2. Basic /\ EqualShares /\ [Next]_vars => (Basic /\ EqualShares)'
  BY BasicNext, SharesNext
<1>. QED  BY <1>1, <1>2, SharesSpread, PTL DEF Spec
-----------------------------------------------------------------------------
(* Lists.                                                                  *)

(* Two files do not lead to the same one, and none leads to itself.        *)
LEMMA OneBefore ==
  ASSUME NEW own \in SUBSET Files, NEW first, NEW nxt, NEW height \in [Files -> Int],
         Chain(own, first, nxt, height), NEW f \in own, NEW g \in own, nxt[f] # Null
  PROVE  nxt[f] # f /\ (nxt[g] = nxt[f] => g = f)
<1>1. nxt[f] \in own /\ height[nxt[f]] < height[f]
      /\ \A e \in own : height[e] <= height[nxt[f]] \/ height[f] <= height[e]
  BY DEF Chain
<1>2. ASSUME nxt[g] = nxt[f] PROVE g = f
  <2>1. height[nxt[f]] < height[g]
        /\ \A e \in own : height[e] <= height[nxt[f]] \/ height[g] <= height[e]
    BY <1>2 DEF Chain
  <2>2. height[f] \in Int /\ height[g] \in Int /\ height[nxt[f]] \in Int
    BY <1>1
  <2>3. height[f] = height[g]
    BY <1>1, <2>1, <2>2
  <2>. QED  BY <2>3 DEF Chain
<1>3. height[f] \in Int
  OBVIOUS
<1>. QED  BY <1>1, <1>2, <1>3

(* A list depends on its own files only.                                   *)
LEMMA ChainSame ==
  ASSUME NEW own \in SUBSET Files, NEW first, NEW nxt, NEW height, Chain(own, first, nxt, height),
         NEW nxt2, NEW height2, \A g \in own : nxt2[g] = nxt[g] /\ height2[g] = height[g]
  PROVE  Chain(own, first, nxt2, height2)
<1>1. \A f, g \in own : height2[f] = height2[g] => f = g
  BY DEF Chain
<1>2. /\ first = Null => own = {}
      /\ first # Null => first \in own /\ \A g \in own : height2[g] <= height2[first]
  BY DEF Chain
<1>3. \A f \in own : nxt2[f] = Null => \A g \in own : height2[f] <= height2[g]
  BY DEF Chain
<1>4. \A f \in own : nxt2[f] # Null =>
        /\ nxt2[f] \in own /\ height2[nxt2[f]] < height2[f]
        /\ \A g \in own : height2[g] <= height2[nxt2[f]] \/ height2[f] <= height2[g]
  BY DEF Chain
<1>. QED  BY <1>1, <1>2, <1>3, <1>4 DEF Chain

(* The way back depends on the list's own files only.                      *)
LEMMA ReturnsSame ==
  ASSUME NEW own \in SUBSET Files, NEW first, NEW nxt, NEW prv, NEW f \in own,
         Returns(own, first, nxt, prv, f), NEW nxt2, NEW prv2,
         \A g \in own : nxt2[g] = nxt[g], prv2[f] = prv[f]
  PROVE  Returns(own, first, nxt2, prv2, f)
BY DEF Returns

(* A file is put before the first one.                                     *)
LEMMA ChainInsert ==
  ASSUME NEW own \in SUBSET Files, NEW first, NEW nxt, NEW height \in [Files -> Int],
         Chain(own, first, nxt, height), NEW f \in Files, f \notin own,
         NEW nxt2, nxt2[f] = first, NEW height2 \in [Files -> Int],
         \A g \in own : nxt2[g] = nxt[g] /\ height2[g] = height[g] /\ height[g] < height2[f]
  PROVE  Chain(own \cup {f}, f, nxt2, height2)
<1>1. Chain(own, first, nxt2, height2)
  BY ChainSame
<1>2. \A g \in own : height2[g] < height2[f]
  OBVIOUS
<1>3. f # Null /\ height2[f] <= height2[f] /\ \A g \in own : height2[g] <= height2[f]
  BY <1>2, FilesFinite
<1>4. \A e, g \in own \cup {f} : height2[e] = height2[g] => e = g
  BY <1>1, <1>2 DEF Chain
<1>5. ASSUME NEW e \in own \cup {f}, nxt2[e] = Null, NEW g \in own \cup {f}
      PROVE  height2[e] <= height2[g]
  <2>1. CASE e = f
    BY <1>1, <1>3, <1>5, <2>1 DEF Chain
  <2>2. CASE e # f
    BY <1>1, <1>3, <1>5, <2>2 DEF Chain
  <2>. QED  BY <2>1, <2>2
<1>6. ASSUME NEW e \in own \cup {f}, nxt2[e] # Null
      PROVE  /\ nxt2[e] \in own \cup {f} /\ height2[nxt2[e]] < height2[e]
             /\ \A g \in own \cup {f} : height2[g] <= height2[nxt2[e]] \/ height2[e] <= height2[g]
  <2>1. CASE e = f
    BY <1>1, <1>2, <1>3, <1>6, <2>1 DEF Chain
  <2>2. CASE e # f
    BY <1>1, <1>3, <1>6, <2>2 DEF Chain
  <2>. QED  BY <2>1, <2>2
<1>. QED  BY <1>3, <1>4, <1>5, <1>6 DEF Chain

(* Then the former first file leads back to it, and the others as before.  *)
LEMMA ReturnsInsert ==
  ASSUME NEW own \in SUBSET Files, NEW first, NEW nxt, NEW prv,
         NEW f \in Files, f \notin own, NEW nxt2, NEW prv2, nxt2[f] = first, prv2[f] = Null,
         \A g \in own : nxt2[g] = nxt[g], NEW g \in own \cup {f}, first \in own => prv2[first] = f,
         g # f /\ g # first => prv2[g] = prv[g] /\ Returns(own, first, nxt, prv, g)
  PROVE  Returns(own \cup {f}, f, nxt2, prv2, g)
<1>1. f # Null
  BY FilesFinite
<1>2. CASE g = f
  BY <1>2 DEF Returns
<1>3. CASE g # f /\ g = first
  BY <1>1, <1>3 DEF Returns
<1>4. CASE g # f /\ g # first
  BY <1>4 DEF Returns
<1>. QED  BY <1>2, <1>3, <1>4

(* A file is taken out: the one before it, or the disk, leads to the next. *)
Unlinked(own, first, nxt, prv, f, first2, nxt2) ==
  IF prv[f] = Null
  THEN first2 = nxt[f] /\ \A g \in own : nxt2[g] = nxt[g]
  ELSE first2 = first /\ \A g \in own : nxt2[g] = IF g = prv[f] THEN nxt[f] ELSE nxt[g]

(* What is left is a list.                                                 *)
LEMMA ChainRemove ==
  ASSUME NEW own \in SUBSET Files, NEW first, NEW nxt, NEW prv, NEW height \in [Files -> Int],
         Chain(own, first, nxt, height), NEW f \in own, Returns(own, first, nxt, prv, f),
         NEW first2, NEW nxt2, Unlinked(own, first, nxt, prv, f, first2, nxt2)
  PROVE  Chain(own \ {f}, first2, nxt2, height)
<1>. DEFINE n == nxt[f]
<1>1. /\ \A e, g \in own : height[e] = height[g] => e = g
      /\ first # Null => first \in own /\ \A g \in own : height[g] <= height[first]
      /\ n = Null => \A g \in own : height[f] <= height[g]
      /\ n # Null => /\ n \in own /\ height[n] < height[f]
                     /\ \A g \in own : height[g] <= height[n] \/ height[f] <= height[g]
      /\ first = Null => own = {}
  BY DEF Chain
<1>2. \A g \in own : height[g] \in Int
  OBVIOUS
<1>3. CASE prv[f] = Null
  <2>1. first = f /\ f # Null /\ first2 = n /\ \A g \in own : nxt2[g] = nxt[g]
    BY <1>3, FilesFinite DEF Returns, Unlinked
  <2>2. \A g \in own : height[g] <= height[f]
    BY <1>1, <2>1
  <2>3. first2 = Null => own \ {f} = {}
    BY <1>1, <1>2, <2>1, <2>2
  <2>4. first2 # Null => first2 \in own \ {f} /\ \A g \in own \ {f} : height[g] <= height[first2]
    <3>. SUFFICES ASSUME n # Null
         PROVE  n \in own /\ n # f /\ \A g \in own \ {f} : height[g] <= height[n]
      BY <2>1
    <3>1. n \in own /\ n # f
      BY <1>1, <1>2
    <3>2. ASSUME NEW g \in own \ {f} PROVE height[g] <= height[n]
      BY <1>1, <1>2, <2>2
    <3>. QED  BY <3>1, <3>2
  <2>5. ASSUME NEW e \in own \ {f}, nxt[e] # Null PROVE nxt[e] # f
    <3>1. height[nxt[e]] < height[e]
      BY <2>5 DEF Chain
    <3>. QED  BY <1>2, <2>2, <3>1
  <2>6. \A e \in own \ {f} : nxt2[e] = Null => \A g \in own \ {f} : height[e] <= height[g]
    BY <2>1 DEF Chain
  <2>7. \A e \in own \ {f} : nxt2[e] # Null =>
          /\ nxt2[e] \in own \ {f} /\ height[nxt2[e]] < height[e]
          /\ \A g \in own \ {f} : height[g] <= height[nxt2[e]] \/ height[e] <= height[g]
    BY <2>1, <2>5 DEF Chain
  <2>. QED  BY <1>1, <2>3, <2>4, <2>6, <2>7 DEF Chain
<1>4. CASE prv[f] # Null
  <2>. DEFINE p == prv[f]
  <2>1. p \in own /\ nxt[p] = f /\ first2 = first /\ f # Null
        /\ \A g \in own : nxt2[g] = IF g = p THEN n ELSE nxt[g]
    BY <1>4, FilesFinite DEF Returns, Unlinked
  <2>2. height[f] < height[p] /\ \A g \in own : height[g] <= height[f] \/ height[p] <= height[g]
    BY <2>1 DEF Chain
  <2>3. first \in own \ {f} /\ \A g \in own \ {f} : height[g] <= height[first]
    BY <1>1, <1>2, <2>1, <2>2
  <2>4. \A e \in own \ {f} : e # p => nxt[e] # f
    BY <2>1, OneBefore
  <2>5. \A g \in own \ {f} : height[g] < height[f] \/ height[p] <= height[g]
    BY <1>1, <1>2, <2>2
  <2>6. n = Null => \A g \in own \ {f} : height[p] <= height[g]
    BY <1>1, <1>2, <2>5
  <2>7. n # Null => /\ n \in own \ {f} /\ height[n] < height[p]
                    /\ \A g \in own \ {f} : height[g] <= height[n] \/ height[p] <= height[g]
    <3>. SUFFICES ASSUME n # Null
         PROVE  /\ n \in own \ {f} /\ height[n] < height[p]
                /\ \A g \in own \ {f} : height[g] <= height[n] \/ height[p] <= height[g]
      OBVIOUS
    <3>1. n \in own /\ height[n] < height[f]
          /\ \A g \in own : height[g] <= height[n] \/ height[f] <= height[g]
      BY <1>1
    <3>2. n # f /\ height[n] < height[p]
      BY <1>2, <2>1, <2>2, <3>1
    <3>3. ASSUME NEW g \in own \ {f} PROVE height[g] <= height[n] \/ height[p] <= height[g]
      <4>. HIDE DEF n, p
      <4>. QED  BY <1>2, <2>5, <3>1
    <3>. QED  BY <3>1, <3>2, <3>3
  <2>8. ASSUME NEW e \in own \ {f}, nxt2[e] = Null, NEW g \in own \ {f}
        PROVE  height[e] <= height[g]
    BY <2>1, <2>6, <2>8 DEF Chain
  <2>9. ASSUME NEW e \in own \ {f}, nxt2[e] # Null
        PROVE  /\ nxt2[e] \in own \ {f} /\ height[nxt2[e]] < height[e]
               /\ \A g \in own \ {f} : height[g] <= height[nxt2[e]] \/ height[e] <= height[g]
    <3>1. CASE e = p
      BY <2>1, <2>7, <2>9, <3>1
    <3>2. CASE e # p
      <4>1. nxt2[e] = nxt[e] /\ nxt[e] # f
        BY <2>1, <2>4, <3>2
      <4>. QED  BY <2>9, <4>1 DEF Chain
    <3>. QED  BY <3>1, <3>2
  <2>10. first2 # Null
    BY <2>1, <2>3, FilesFinite
  <2>. QED  BY <1>1, <2>1, <2>3, <2>8, <2>9, <2>10 DEF Chain
<1>. QED  BY <1>3, <1>4

(* Its files lead back, if the one behind the file that was taken out      *)
(* does.                                                                   *)
LEMMA ReturnsRemove ==
  ASSUME NEW own \in SUBSET Files, NEW first, NEW nxt, NEW prv, NEW height \in [Files -> Int],
         Chain(own, first, nxt, height), NEW f \in own, Returns(own, first, nxt, prv, f),
         NEW first2, NEW nxt2, Unlinked(own, first, nxt, prv, f, first2, nxt2),
         NEW g \in own \ {f}, g # nxt[f] => Returns(own, first, nxt, prv, g),
         nxt[f] # Null => prv[nxt[f]] = prv[f]
  PROVE  Returns(own \ {f}, first2, nxt2, prv, g)
<1>1. f # Null /\ g # Null
  BY FilesFinite
<1>2. prv[f] # Null => prv[f] \in own /\ nxt[prv[f]] = f /\ prv[f] # f
  BY <1>1, OneBefore DEF Returns
<1>3. CASE g = nxt[f]
  BY <1>1, <1>2, <1>3 DEF Returns, Unlinked
<1>4. CASE g # nxt[f]
  <2>1. Returns(own, first, nxt, prv, g)
    BY <1>4
  <2>2. CASE prv[g] = Null
    BY <2>1, <2>2 DEF Returns, Unlinked
  <2>3. CASE prv[g] # Null
    <3>1. prv[g] \in own /\ nxt[prv[g]] = g /\ prv[g] # f
      BY <1>4, <2>1, <2>3 DEF Returns
    <3>2. nxt2[prv[g]] = g
      <4>1. prv[g] # prv[f] \/ prv[f] = Null
        BY <1>2, <3>1
      <4>. QED  BY <2>3, <3>1, <4>1 DEF Unlinked
    <3>. QED  BY <2>3, <3>1, <3>2 DEF Returns
  <2>. QED  BY <2>2, <2>3
<1>. QED  BY <1>3, <1>4

(* A step leaves the lists alone.                                          *)
Kept == \A d \in Disks : /\ Listed(d)' = Listed(d) /\ head'[d] = head[d]
                         /\ \A g \in Listed(d) : next'[g] = next[g]

AllBack == \A d \in Disks : \A f \in Listed(d) : Returns(Listed(d), head[d], next, prev, f)

(* Between two moves, and at most steps of one, all files lead back.       *)
LEMMA AllReturn ==
  ASSUME LeadsBack, \A t \in Movers : pc[t] \notin {"off_prev", "on_head"}
  PROVE  AllBack
BY DEF LeadsBack, Between, AllBack

(* A step that leaves the lists alone leaves them in order.                *)
LEMMA LedKept ==
  ASSUME Led, Kept
  PROVE  Led'
<1>1. PICK height \in [Files -> Int] : \A d \in Disks : Chain(Listed(d), head[d], next, height)
  BY DEF Led, Leads
<1>2. ASSUME NEW d \in Disks PROVE Chain(Listed(d)', head'[d], next', height)
  <2>1. Listed(d) \in SUBSET Files
    BY DEF Listed
  <2>2. Chain(Listed(d), head[d], next', height)
    BY <1>1, <2>1, ChainSame DEF Kept
  <2>. QED  BY <2>2 DEF Kept
<1>. QED  BY <1>2 DEF Led, Leads

(* It leaves alone a file's way back that it does not write.               *)
LEMMA ReturnKept ==
  ASSUME Kept, NEW d \in Disks, NEW f \in Listed(d), prev'[f] = prev[f],
         Returns(Listed(d), head[d], next, prev, f)
  PROVE  Returns(Listed(d)', head'[d], next', prev', f)
<1>1. Listed(d) \in SUBSET Files
  BY DEF Listed
<1>2. Returns(Listed(d), head[d], next', prev', f)
  BY <1>1, ReturnsSame DEF Kept
<1>. QED  BY <1>2 DEF Kept

(* If it writes none, all files lead back as they did.                     *)
LEMMA ChainsKept ==
  ASSUME Led, AllBack, Kept, \A d \in Disks : \A g \in Listed(d) : prev'[g] = prev[g]
  PROVE  Led' /\ AllBack' /\ LeadsBack'
<1>1. ASSUME NEW d \in Disks, NEW f \in Listed(d)'
      PROVE  Returns(Listed(d)', head'[d], next', prev', f)
  <2>1. f \in Listed(d)
    BY DEF Kept
  <2>. QED  BY <2>1, ReturnKept DEF AllBack
<1>. QED  BY <1>1, LedKept DEF AllBack, LeadsBack

(* A file is put on a disk.                                                *)
LEMMA InsertChains ==
  ASSUME Led, NEW f \in Files, NEW d \in Disks, \A e \in Disks : f \notin Listed(e),
         \A e \in Disks : Listed(e)' = Listed(e) \cup IF e = d THEN {f} ELSE {},
         \A e \in Disks : head'[e] = IF e = d THEN f ELSE head[e],
         next'[f] = head[d], prev'[f] = Null, head[d] \in Listed(d) => prev'[head[d]] = f,
         \A e \in Disks : \A g \in Listed(e) :
           /\ next'[g] = next[g]
           /\ g # head[d] => prev'[g] = prev[g] /\ Returns(Listed(e), head[e], next, prev, g)
  PROVE  Led' /\ AllBack' /\ LeadsBack'
<1>1. PICK height \in [Files -> Int] : \A e \in Disks : Chain(Listed(e), head[e], next, height)
  BY DEF Led, Leads
<1>2. \A e \in Disks : Listed(e) \in SUBSET Files /\ \A g \in Listed(e) : diskOf[g] = e
  BY DEF Listed
<1>3. PICK top \in Int : \A g \in Listed(d) : height[g] < top
  <2>1. CASE head[d] = Null
    BY <1>1, <2>1 DEF Chain
  <2>2. CASE head[d] # Null
    <3>1. head[d] \in Listed(d) /\ \A g \in Listed(d) : height[g] <= height[head[d]]
      BY <1>1, <2>2 DEF Chain
    <3>2. height[head[d]] \in Int /\ \A g \in Listed(d) : height[g] \in Int
      BY <1>2, <3>1
    <3>3. \A g \in Listed(d) : height[g] < height[head[d]] + 1
      BY <3>1, <3>2
    <3>. QED  BY <3>2, <3>3
  <2>. QED  BY <2>1, <2>2
<1>. DEFINE height2 == [height EXCEPT ![f] = top]
<1>4. height2 \in [Files -> Int] /\ height2[f] = top
        /\ \A g \in Files \ {f} : height2[g] = height[g]
  BY <1>1, <1>3
<1>. HIDE DEF height2
<1>5. \A e \in Disks : \A g \in Listed(e) : g # f /\ height2[g] = height[g]
  BY <1>2, <1>4
<1>6. ASSUME NEW e \in Disks PROVE Chain(Listed(e)', head'[e], next', height2)
  <2>1. CASE e = d
    <3>1. Chain(Listed(d) \cup {f}, f, next', height2)
      BY <1>1, <1>2, <1>3, <1>4, <1>5, ChainInsert
    <3>. QED  BY <2>1, <3>1
  <2>2. CASE e # d
    <3>1. Chain(Listed(e), head[e], next', height2)
      BY <1>1, <1>2, <1>5, ChainSame
    <3>. QED  BY <2>2, <3>1
  <2>. QED  BY <2>1, <2>2
<1>7. Led'
  BY <1>4, <1>6 DEF Led, Leads
<1>8. ASSUME NEW e \in Disks, NEW g \in Listed(e)'
      PROVE  Returns(Listed(e)', head'[e], next', prev', g)
  <2>1. CASE e = d
    <3>1. g \in Listed(d) \cup {f}
      BY <2>1
    <3>2. g # f /\ g # head[d] => prev'[g] = prev[g] /\ Returns(Listed(d), head[d], next, prev, g)
      BY <3>1
    <3>3. /\ Listed(d) \in SUBSET Files /\ f \notin Listed(d)
          /\ \A x \in Listed(d) : next'[x] = next[x]
      BY <1>2
    <3>4. PICK own \in SUBSET Files : own = Listed(d)
      BY <3>3
    <3>5. Returns(own \cup {f}, f, next', prev', g)
      BY <3>1, <3>2, <3>3, <3>4, ReturnsInsert
    <3>. QED  BY <2>1, <3>4, <3>5
  <2>2. CASE e # d
    <3>1. g \in Listed(e)
      BY <2>2
    <3>2. g # head[d]
      <4>1. head[d] # Null => head[d] \in Listed(d)
        BY <1>1 DEF Chain
      <4>. QED  BY <1>2, <2>2, <3>1, <4>1, FilesFinite
    <3>3. Returns(Listed(e), head[e], next', prev', g)
      BY <1>2, <3>1, <3>2, ReturnsSame
    <3>. QED  BY <2>2, <3>3
  <2>. QED  BY <2>1, <2>2
<1>. QED  BY <1>7, <1>8 DEF AllBack, LeadsBack

(* What a step that takes mover t to b lists.                              *)
LEMMA ListedAfter ==
  ASSUME Basic, NEW t \in Movers, NEW b, NEW d, StepTo(t, b, d)
  PROVE  /\ \A u \in Movers : pc'[u] = IF u = t THEN b ELSE pc[u]
         /\ file' = file /\ to' = to /\ diskOf'[file[t]] = d
         /\ \A g \in Files : g # file[t] => diskOf'[g] = diskOf[g]
         /\ \A e \in Disks : Listed(e)' =
              (Listed(e) \ {file[t]})
                \cup IF d = e /\ b \notin {"off_count", "off"} THEN {file[t]} ELSE {}
<1>1. /\ file[t] \in Files /\ \A u \in Movers : file[u] = file[t] => u = t
  BY Moving DEF StepTo
<1>2. pc' = [pc EXCEPT ![t] = b] /\ file' = file /\ to' = to
        /\ diskOf' = [diskOf EXCEPT ![file[t]] = d]
  BY DEF StepTo
<1>3. \A u \in Movers : pc'[u] = IF u = t THEN b ELSE pc[u]
  BY <1>2 DEF Basic, TypeOK
<1>4. \A g \in Files : diskOf'[g] = IF g = file[t] THEN d ELSE diskOf[g]
  BY <1>2 DEF Basic, TypeOK
<1>5. ASSUME NEW e \in Disks, NEW g \in Files
      PROVE  g \in Listed(e)' <=>
                IF g = file[t] THEN d = e /\ b \notin {"off_count", "off"} ELSE g \in Listed(e)
  <2>1. g \in Listed(e)' <=> /\ diskOf'[g] = e
                             /\ \A u \in Movers : file[u] = g => pc'[u] \notin {"off_count", "off"}
    BY <1>2 DEF Listed
  <2>2. g \in Listed(e) <=> /\ diskOf[g] = e
                            /\ \A u \in Movers : file[u] = g => pc[u] \notin {"off_count", "off"}
    BY DEF Listed
  <2>3. CASE g = file[t]
    BY <1>1, <1>3, <1>4, <2>1, <2>3
  <2>4. CASE g # file[t]
    BY <1>3, <1>4, <2>1, <2>2, <2>4
  <2>. QED  BY <2>3, <2>4
<1>6. ASSUME NEW e \in Disks
      PROVE  Listed(e)' = (Listed(e) \ {file[t]})
                \cup IF d = e /\ b \notin {"off_count", "off"} THEN {file[t]} ELSE {}
  <2>1. Listed(e)' \subseteq Files /\ Listed(e) \subseteq Files
    BY DEF Listed
  <2>. QED  BY <1>1, <1>5, <2>1
<1>. QED  BY <1>1, <1>2, <1>3, <1>4, <1>6

(* A step of one mover that changes no list.                               *)
LEMMA QuietChains ==
  ASSUME Chained, Kept, \A d \in Disks : \A g \in Listed(d) : prev'[g] = prev[g],
         \A t \in Movers : pc[t] \notin {"off_prev", "on_head"},
         \A t \in Movers : pc'[t] \notin {"off_next", "off_prev", "on_prev", "on_head"}
  PROVE  Chained'
<1>1. Led' /\ LeadsBack'
  BY AllReturn, ChainsKept DEF Chained
<1>2. Links'
  BY DEF Links
<1>. QED  BY <1>1, <1>2 DEF Chained

(* The steps of a move, one by one: these touch no list, ...               *)
LEMMA CountOutChains ==
  ASSUME Basic, Chained, NEW t \in Movers, \A u \in Movers : u = t, CountOut(t)
  PROVE  Chained'
<1>1. PICK d : StepTo(t, "off", d)
  BY CountOutKeeps
<1>2. pc[t] = "off_count" /\ UNCHANGED <<head, next, prev>>
  BY DEF CountOut, Step, links
<1>3. \A e \in Disks : file[t] \notin Listed(e)
  BY <1>2 DEF Listed
<1>4. Kept
  BY <1>1, <1>2, <1>3, ListedAfter DEF Kept
<1>5. \A u \in Movers : pc[u] = "off_count" /\ pc'[u] = "off"
  BY <1>1, <1>2, ListedAfter
<1>. QED  BY <1>2, <1>4, <1>5, QuietChains

LEMMA UnassignChains ==
  ASSUME Basic, Chained, NEW t \in Movers, \A u \in Movers : u = t, Unassign(t)
  PROVE  Chained'
<1>1. PICK d : StepTo(t, "on_next", d)
  BY UnassignKeeps
<1>2. /\ pc[t] = "off" /\ head' = head
      /\ next' = [next EXCEPT ![file[t]] = Null] /\ prev' = [prev EXCEPT ![file[t]] = Null]
  BY DEF Unassign, Step
<1>3. \A e \in Disks : file[t] \notin Listed(e)
  BY <1>2 DEF Listed
<1>4. \A e \in Disks : \A g \in Listed(e) : next'[g] = next[g] /\ prev'[g] = prev[g]
  BY <1>2, <1>3 DEF Listed, Basic, TypeOK
<1>5. \A e \in Disks : Listed(e)' = Listed(e)
  <2>1. \A e \in Disks : d # e
    BY <1>1, FilesFinite DEF StepTo
  <2>. QED  BY <1>1, <1>3, <2>1, ListedAfter
<1>6. Kept
  BY <1>2, <1>4, <1>5 DEF Kept
<1>7. \A u \in Movers : pc[u] = "off" /\ pc'[u] = "on_next"
  BY <1>1, <1>2, ListedAfter
<1>. QED  BY <1>4, <1>6, <1>7, QuietChains

LEMMA CountInChains ==
  ASSUME Basic, Chained, NEW t \in Movers, \A u \in Movers : u = t, CountIn(t)
  PROVE  Chained'
<1>1. PICK d : StepTo(t, "stamp", d)
  BY CountInKeeps
<1>2. pc[t] = "on_count" /\ UNCHANGED <<head, next, prev>>
  BY DEF CountIn, Step, links
<1>3. d = to[t] /\ diskOf[file[t]] = to[t] /\ file[t] \in Files
  BY <1>1, <1>2, Moving DEF StepTo, Basic, Moves, MovesOf, On
<1>4. \A e \in Disks : file[t] \in Listed(e) <=> d = e
  BY <1>2, <1>3 DEF Listed
<1>5. \A e \in Disks : Listed(e)' = Listed(e)
  <2>. SUFFICES ASSUME NEW e \in Disks PROVE Listed(e)' = Listed(e)
    OBVIOUS
  <2>1. Listed(e)' = (Listed(e) \ {file[t]}) \cup IF d = e THEN {file[t]} ELSE {}
    BY <1>1, ListedAfter
  <2>. QED  BY <1>4, <2>1
<1>6. Kept
  BY <1>2, <1>5 DEF Kept
<1>7. \A u \in Movers : pc[u] = "on_count" /\ pc'[u] = "stamp"
  BY <1>1, <1>2, ListedAfter
<1>. QED  BY <1>2, <1>6, <1>7, QuietChains

LEMMA EndMoveChains ==
  ASSUME Basic, Chained, NEW t \in Movers, \A u \in Movers : u = t, EndMove(t)
  PROVE  Chained'
<1>1. /\ pc[t] = "stamp" /\ pc' = [pc EXCEPT ![t] = "idle"] /\ file' = [file EXCEPT ![t] = Null]
      /\ UNCHANGED <<head, next, prev, diskOf>>
  BY DEF EndMove, Step, links
<1>2. \A u \in Movers : pc[u] = "stamp" /\ pc'[u] = "idle"
  BY <1>1 DEF Basic, TypeOK
<1>3. \A e \in Disks : Listed(e)' = Listed(e)
  BY <1>1, <1>2 DEF Listed
<1>4. Kept
  BY <1>1, <1>3 DEF Kept
<1>. QED  BY <1>1, <1>2, <1>4, QuietChains

LEMMA BeginMoveChains ==
  ASSUME Basic, Chained, NEW t \in Movers, \A u \in Movers : u = t, BeginMove(t)
  PROVE  Chained'
<1>1. PICK f \in 1 .. fileCount : file' = [file EXCEPT ![t] = f]
  BY DEF BeginMove
<1>2. /\ phase = "run" /\ pc[t] = "idle" /\ pc' = [pc EXCEPT ![t] = "off_next"]
      /\ UNCHANGED <<head, next, prev, diskOf>>
  BY DEF BeginMove, Step, links
<1>3. /\ \A u \in Movers : pc[u] = "idle" /\ file[u] = Null /\ pc'[u] = "off_next"
      /\ file'[t] = f
  BY <1>1, <1>2 DEF Basic, TypeOK, Moves, MovesOf
<1>4. \A e \in Disks : Listed(e)' = Listed(e)
  BY <1>2, <1>3 DEF Listed
<1>5. Kept
  BY <1>2, <1>4 DEF Kept
<1>6. Led' /\ AllBack' /\ LeadsBack'
  BY <1>2, <1>3, <1>5, AllReturn, ChainsKept DEF Chained
<1>7. f \in Files /\ diskOf[f] \in Disks
  <2>1. fileCount \in Files /\ diskCount \in Disks
    BY <1>2 DEF Basic, Loads
  <2>2. f \in Files
    BY <2>1, FilesFinite DEF Files
  <2>3. diskOf[f] \in 0 .. diskCount /\ diskOf[f] # Null
    BY <1>2, <1>3, <2>2, FilesFinite DEF Basic, Assigned
  <2>4. 0 .. diskCount \ {0} \subseteq Disks
    BY <2>1, FilesFinite DEF Disks
  <2>. QED  BY <2>2, <2>3, <2>4 DEF Null
<1>8. f \in Listed(diskOf[f])
  BY <1>3, <1>7 DEF Listed
<1>9. PICK d \in Disks : d = diskOf[f]
  BY <1>7
<1>10. Returns(Listed(d)', head'[d], next', prev', f)
  BY <1>4, <1>6, <1>8, <1>9 DEF AllBack
<1>11. Links'
  <2>1. file'[t] = f /\ diskOf'[f] = d
    BY <1>2, <1>3, <1>9
  <2>2. Back(file[t])'
    BY <1>10, <2>1 DEF Back
  <2>. QED  BY <1>3, <2>2 DEF Links
<1>. QED  BY <1>6, <1>11 DEF Chained

LEMMA LinkToNextChains ==
  ASSUME Basic, Chained, NEW t \in Movers, \A u \in Movers : u = t, LinkToNext(t)
  PROVE  Chained'
<1>1. PICK d : StepTo(t, "on_prev", d)
  BY LinkToNextKeeps
<1>2. /\ pc[t] = "on_next" /\ head' = head
      /\ prev' = [prev EXCEPT ![file[t]] = Null]
      /\ next' = [next EXCEPT ![file[t]] = head[to[t]]]
  BY DEF LinkToNext, Step
<1>3. file[t] \in Files /\ diskOf[file[t]] = Null
  BY <1>2, Moving DEF Basic, Moves, MovesOf
<1>4. \A e \in Disks : file[t] \notin Listed(e)
  BY <1>3, FilesFinite DEF Listed
<1>5. \A e \in Disks : \A g \in Listed(e) : next'[g] = next[g] /\ prev'[g] = prev[g]
  BY <1>2, <1>4 DEF Listed, Basic, TypeOK
<1>6. \A e \in Disks : Listed(e)' = Listed(e)
  <2>1. \A e \in Disks : d # e
    BY <1>1, FilesFinite DEF StepTo
  <2>. QED  BY <1>1, <1>4, <2>1, ListedAfter
<1>7. Kept
  BY <1>2, <1>5, <1>6 DEF Kept
<1>8. \A u \in Movers : pc[u] = "on_next" /\ pc'[u] = "on_prev"
  BY <1>1, <1>2, ListedAfter
<1>9. Led' /\ LeadsBack'
  BY <1>5, <1>7, <1>8, AllReturn, ChainsKept DEF Chained
<1>10. file' = file /\ to' = to /\ next'[file[t]] = head[to[t]] /\ prev'[file[t]] = Null
  BY <1>1, <1>2, <1>3, ListedAfter DEF Basic, TypeOK
<1>11. Links'
  BY <1>2, <1>8, <1>10 DEF Links
<1>. QED  BY <1>9, <1>11 DEF Chained

(* ... this one the way back of the file behind, which until the next step *)
(* leads past the file in front of it, ...                                 *)
LEMMA UnlinkFromNextChains ==
  ASSUME Basic, Chained, NEW t \in Movers, \A u \in Movers : u = t, UnlinkFromNext(t)
  PROVE  Chained'
<1>1. PICK d : StepTo(t, "off_prev", d)
  BY UnlinkFromNextKeeps
<1>2. /\ pc[t] = "off_next" /\ UNCHANGED <<head, next>>
      /\ prev' = [g \in Files |-> IF g = next[file[t]] THEN prev[file[t]] ELSE prev[g]]
  BY DEF UnlinkFromNext, Step
<1>3. PICK f \in Files : f = file[t]
  BY <1>2, Moving
<1>4. d \in Disks /\ d = diskOf[f] /\ diskOf' = diskOf
  <2>1. diskOf[f] # Null /\ diskOf[f] \in Disks
    BY <1>2, <1>3, Moving DEF Basic, Moves, MovesOf, Off
  <2>2. d = diskOf[f]
    BY <1>1, <1>2, <1>3, ListedAfter DEF UnlinkFromNext
  <2>. QED  BY <1>2, <2>1, <2>2 DEF UnlinkFromNext
<1>5. f \in Listed(d)
  BY <1>2, <1>3, <1>4 DEF Listed
<1>6. \A e \in Disks : Listed(e)' = Listed(e)
  <2>. SUFFICES ASSUME NEW e \in Disks PROVE Listed(e)' = Listed(e)
    OBVIOUS
  <2>1. Listed(e)' = (Listed(e) \ {f}) \cup IF d = e THEN {f} ELSE {}
    BY <1>1, <1>3, ListedAfter
  <2>2. f \in Listed(e) => d = e
    BY <1>4 DEF Listed
  <2>. QED  BY <1>5, <2>1, <2>2
<1>7. Kept
  BY <1>2, <1>6 DEF Kept
<1>8. Led'
  BY <1>7, LedKept DEF Chained
<1>9. \A u \in Movers : pc[u] = "off_next" /\ pc'[u] = "off_prev" /\ file'[u] = f
  BY <1>1, <1>2, <1>3, ListedAfter
<1>10. AllBack
  BY <1>9, AllReturn DEF Chained
<1>11. next[f] # f
  <2>1. PICK height \in [Files -> Int] : Chain(Listed(d), head[d], next, height)
    BY <1>4 DEF Chained, Led, Leads
  <2>2. Listed(d) \in SUBSET Files
    BY DEF Listed
  <2>3. CASE next[f] = Null
    BY <2>3, FilesFinite
  <2>4. CASE next[f] # Null
    BY <1>5, <2>1, <2>2, <2>4, OneBefore
  <2>. QED  BY <2>3, <2>4
<1>12. ASSUME NEW e \in Disks, NEW g \in Listed(e), g # next[f]
       PROVE  Returns(Listed(e)', head'[e], next', prev', g)
  <2>1. prev'[g] = prev[g]
    BY <1>2, <1>3, <1>12 DEF Listed
  <2>2. Returns(Listed(e), head[e], next, prev, g)
    BY <1>10 DEF AllBack
  <2>. QED  BY <1>7, <2>1, <2>2, ReturnKept
<1>13. LeadsBack'
  <2>. SUFFICES ASSUME NEW e \in Disks, NEW g \in Listed(e)'
       PROVE  Returns(Listed(e)', head'[e], next', prev', g) \/ \E u \in Movers : Between(u, g)'
    BY DEF LeadsBack
  <2>1. g \in Listed(e)
    BY <1>6
  <2>2. CASE g # next[f]
    BY <1>12, <2>1, <2>2
  <2>3. CASE g = next[f]
    BY <1>2, <1>9, <2>3 DEF Between
  <2>. QED  BY <2>2, <2>3
<1>14. Links'
  <2>1. Back(file[t])'
    <3>1. Returns(Listed(d)', head'[d], next', prev', f)
      BY <1>4, <1>5, <1>11, <1>12
    <3>2. file'[t] = f /\ diskOf'[f] = d
      BY <1>4, <1>9
    <3>. QED  BY <3>1, <3>2 DEF Back
  <2>2. next'[f] # Null => prev'[next'[f]] = prev'[f]
    <3>1. next[f] # Null => next[f] \in Files
      BY <1>3 DEF Basic, TypeOK, Files, Null
    <3>. QED  BY <1>2, <1>3, <1>11, <3>1
  <2>. QED  BY <1>9, <2>1, <2>2 DEF Links
<1>. QED  BY <1>8, <1>13, <1>14 DEF Chained

(* ... this one takes the file out, ...                                    *)
LEMMA UnlinkFromPrevChains ==
  ASSUME Basic, Chained, NEW t \in Movers, \A u \in Movers : u = t, UnlinkFromPrev(t)
  PROVE  Chained'
<1>1. PICK d : StepTo(t, "off_count", d)
  BY UnlinkFromPrevKeeps
<1>2. /\ pc[t] = "off_prev" /\ prev' = prev /\ diskOf' = diskOf
      /\ IF prev[file[t]] = Null
         THEN head' = [head EXCEPT ![diskOf[file[t]]] = next[file[t]]] /\ UNCHANGED next
         ELSE next' = [next EXCEPT ![prev[file[t]]] = next[file[t]]] /\ UNCHANGED head
  BY DEF UnlinkFromPrev, Step
<1>3. PICK f \in Files : f = file[t]
  BY <1>2, Moving
<1>4. d \in Disks /\ d = diskOf[f]
  <2>1. diskOf[f] # Null /\ diskOf[f] \in Disks
    BY <1>2, <1>3, Moving DEF Basic, Moves, MovesOf, Off
  <2>2. d = diskOf[f]
    BY <1>1, <1>2, <1>3, ListedAfter
  <2>. QED  BY <2>1, <2>2
<1>5. f \in Listed(d)
  BY <1>2, <1>3, <1>4 DEF Listed
<1>6. ASSUME NEW e \in Disks
      PROVE  /\ Listed(e)' = IF e = d THEN Listed(d) \ {f} ELSE Listed(e)
             /\ Listed(e) \in SUBSET Files /\ (e # d => f \notin Listed(e))
  <2>1. Listed(e)' = Listed(e) \ {f}
    BY <1>1, <1>3, ListedAfter
  <2>2. Listed(e) \in SUBSET Files /\ (e # d => f \notin Listed(e))
    BY <1>4 DEF Listed
  <2>. QED  BY <2>1, <2>2
<1>7. PICK height \in [Files -> Int] : \A e \in Disks : Chain(Listed(e), head[e], next, height)
  BY DEF Chained, Led, Leads
<1>8. Returns(Listed(d), head[d], next, prev, f)
  BY <1>2, <1>3, <1>4 DEF Chained, Links, Back
<1>9. Unlinked(Listed(d), head[d], next, prev, f, head'[d], next')
  <2>1. Listed(d) \in SUBSET Files
    BY DEF Listed
  <2>2. CASE prev[f] = Null
    BY <1>2, <1>3, <1>4, <2>2 DEF Unlinked, Basic, TypeOK
  <2>3. CASE prev[f] # Null
    BY <1>2, <1>3, <1>4, <2>1, <2>3 DEF Unlinked, Basic, TypeOK
  <2>. QED  BY <2>2, <2>3
<1>10. ASSUME NEW e \in Disks, e # d
       PROVE  head'[e] = head[e] /\ \A g \in Listed(e) : next'[g] = next[g]
  <2>1. Listed(e) \in SUBSET Files /\ \A g \in Listed(e) : diskOf[g] = e
    BY DEF Listed
  <2>2. CASE prev[f] = Null
    BY <1>2, <1>3, <1>4, <1>10, <2>2 DEF Basic, TypeOK
  <2>3. CASE prev[f] # Null
    <3>1. prev[f] \in Listed(d)
      BY <1>8, <2>3 DEF Returns
    <3>2. \A g \in Listed(e) : g # prev[f]
      BY <1>10, <2>1, <3>1 DEF Listed
    <3>. QED  BY <1>2, <1>3, <2>1, <2>3, <3>2 DEF Basic, TypeOK
  <2>. QED  BY <2>2, <2>3
<1>11. ASSUME NEW e \in Disks PROVE Chain(Listed(e)', head'[e], next', height)
  <2>1. CASE e = d
    <3>1. Chain(Listed(d) \ {f}, head'[d], next', height)
      BY <1>4, <1>5, <1>6, <1>7, <1>8, <1>9, ChainRemove
    <3>. QED  BY <1>6, <2>1, <3>1
  <2>2. CASE e # d
    <3>1. Chain(Listed(e), head[e], next', height)
      BY <1>6, <1>7, <1>10, <2>2, ChainSame
    <3>. QED  BY <1>6, <1>10, <2>2, <3>1
  <2>. QED  BY <2>1, <2>2
<1>12. \A u \in Movers : pc[u] = "off_prev" /\ pc'[u] = "off_count" /\ file[u] = f
  BY <1>1, <1>2, <1>3, ListedAfter
<1>13. ASSUME NEW e \in Disks, NEW g \in Listed(e), g # next[f]
       PROVE  Returns(Listed(e), head[e], next, prev, g)
  BY <1>12, <1>13 DEF Chained, LeadsBack, Between
<1>14. ASSUME NEW e \in Disks, NEW g \in Listed(e)'
       PROVE  Returns(Listed(e)', head'[e], next', prev', g)
  <2>1. CASE e = d
    <3>1. g \in Listed(d) \ {f}
      BY <1>6, <2>1
    <3>2. next[f] # Null => prev[next[f]] = prev[f]
      BY <1>2, <1>3 DEF Chained, Links
    <3>3. g # next[f] => Returns(Listed(d), head[d], next, prev, g)
      BY <1>4, <1>13, <3>1
    <3>4. Returns(Listed(d) \ {f}, head'[d], next', prev, g)
      BY <1>4, <1>5, <1>6, <1>7, <1>8, <1>9, <3>1, <3>2, <3>3, ReturnsRemove
    <3>. QED  BY <1>2, <1>6, <2>1, <3>4
  <2>2. CASE e # d
    <3>1. g \in Listed(e)
      BY <1>6, <2>2
    <3>2. g # next[f]
      <4>1. next[f] # Null => next[f] \in Listed(d)
        BY <1>4, <1>5, <1>7 DEF Chain
      <4>. QED  BY <2>2, <3>1, <4>1, FilesFinite DEF Listed
    <3>3. Returns(Listed(e), head[e], next', prev', g)
      BY <1>2, <1>6, <1>10, <1>13, <2>2, <3>1, <3>2, ReturnsSame
    <3>. QED  BY <1>6, <1>10, <2>2, <3>3
  <2>. QED  BY <2>1, <2>2
<1>15. Led' /\ LeadsBack'
  BY <1>7, <1>11, <1>14 DEF Led, Leads, LeadsBack
<1>16. Links'
  BY <1>12 DEF Links
<1>. QED  BY <1>15, <1>16 DEF Chained

(* ... this one sets the way back of the first file of the disk the file   *)
(* comes to before the file is there, ...                                  *)
LEMMA LinkFromNextChains ==
  ASSUME Basic, Chained, NEW t \in Movers, \A u \in Movers : u = t, LinkFromNext(t)
  PROVE  Chained'
<1>1. PICK d : StepTo(t, "on_head", d)
  BY LinkFromNextKeeps
<1>2. /\ pc[t] = "on_prev" /\ UNCHANGED <<head, next>>
      /\ prev' = [g \in Files |-> IF g = head[to[t]] THEN file[t] ELSE prev[g]]
  BY DEF LinkFromNext, Step
<1>3. file[t] \in Files /\ diskOf[file[t]] = Null /\ to[t] \in Disks
  BY <1>2, Moving DEF Basic, Moves, MovesOf
<1>4. \A e \in Disks : file[t] \notin Listed(e)
  BY <1>3, FilesFinite DEF Listed
<1>5. \A e \in Disks : Listed(e)' = Listed(e)
  <2>1. \A e \in Disks : d # e
    BY <1>1, FilesFinite DEF StepTo
  <2>. QED  BY <1>1, <1>4, <2>1, ListedAfter
<1>6. Kept
  BY <1>2, <1>5 DEF Kept
<1>7. \A u \in Movers : pc[u] = "on_prev" /\ pc'[u] = "on_head"
  BY <1>1, <1>2, ListedAfter
<1>8. file' = file /\ to' = to
  BY <1>1, ListedAfter
<1>9. Led'
  BY <1>6, LedKept DEF Chained
<1>10. AllBack
  BY <1>7, AllReturn DEF Chained
<1>11. LeadsBack'
  <2>. SUFFICES ASSUME NEW e \in Disks, NEW g \in Listed(e)'
       PROVE  Returns(Listed(e)', head'[e], next', prev', g) \/ \E u \in Movers : Between(u, g)'
    BY DEF LeadsBack
  <2>1. g \in Listed(e)
    BY <1>5
  <2>2. CASE g # head[to[t]]
    <3>1. prev'[g] = prev[g]
      BY <1>2, <2>1, <2>2 DEF Listed
    <3>2. Returns(Listed(e), head[e], next, prev, g)
      BY <1>10, <2>1 DEF AllBack
    <3>. QED  BY <1>6, <2>1, <3>1, <3>2, ReturnKept
  <2>3. CASE g = head[to[t]]
    BY <1>2, <1>7, <1>8, <2>3 DEF Between
  <2>. QED  BY <2>2, <2>3
<1>12. head[to[t]] # Null => head[to[t]] \in Listed(to[t]) /\ head[to[t]] \in Files
  BY <1>3 DEF Chained, Led, Leads, Chain, Listed
<1>13. next[file[t]] = head[to[t]] /\ prev[file[t]] = Null
  BY <1>2 DEF Chained, Links
<1>14. file[t] # head[to[t]]
  BY <1>3, <1>4, <1>12, FilesFinite
<1>15. Links'
  BY <1>2, <1>3, <1>7, <1>8, <1>12, <1>13, <1>14 DEF Links
<1>. QED  BY <1>9, <1>11, <1>15 DEF Chained

(* ... and this one puts it there.                                         *)
LEMMA LinkHeadChains ==
  ASSUME Basic, Chained, NEW t \in Movers, \A u \in Movers : u = t, LinkHead(t)
  PROVE  Chained'
<1>1. PICK d : StepTo(t, "on_count", d)
  BY LinkHeadKeeps
<1>2. /\ pc[t] = "on_head" /\ UNCHANGED <<next, prev>>
      /\ head' = [head EXCEPT ![to[t]] = file[t]]
  BY DEF LinkHead, Step
<1>3. PICK f \in Files : f = file[t]
  BY <1>2, Moving
<1>4. d \in Disks /\ d = to[t] /\ diskOf[f] = Null
  BY <1>1, <1>2, <1>3, Moving DEF StepTo, Basic, Moves, MovesOf
<1>5. \A e \in Disks : f \notin Listed(e)
  BY <1>4, FilesFinite DEF Listed
<1>6. \A e \in Disks : Listed(e)' = Listed(e) \cup IF e = d THEN {f} ELSE {}
  BY <1>1, <1>3, <1>5, ListedAfter
<1>7. \A e \in Disks : head'[e] = IF e = d THEN f ELSE head[e]
  BY <1>2, <1>3, <1>4 DEF Basic, TypeOK
<1>8. \A u \in Movers : pc[u] = "on_head" /\ pc'[u] = "on_count" /\ to[u] = d
  BY <1>1, <1>2, <1>4, ListedAfter
<1>9. next[f] = head[d] /\ prev[f] = Null /\ (head[d] # Null => prev[head[d]] = f)
  BY <1>2, <1>3, <1>4 DEF Chained, Links
<1>10. head[d] \in Listed(d) => prev[head[d]] = f
  <2>1. Null \notin Listed(d)
    BY FilesFinite DEF Listed
  <2>. QED  BY <1>9, <2>1
<1>11. \A e \in Disks : \A g \in Listed(e) :
         g # head[d] => Returns(Listed(e), head[e], next, prev, g)
  BY <1>8 DEF Chained, LeadsBack, Between
<1>12. Led' /\ LeadsBack'
  BY <1>2, <1>4, <1>5, <1>6, <1>7, <1>9, <1>10, <1>11, InsertChains DEF Chained
<1>13. Links'
  BY <1>8 DEF Links
<1>. QED  BY <1>12, <1>13 DEF Chained

(* The loader puts a file on a disk in one step: it is alone.              *)
LEMMA AssignFileChains == ASSUME Basic, Chained, AssignFile PROVE Chained'
<1>1. PICK f \in Waiting, d \in 1 .. diskCount : AssignTo(f, d)
  BY DrawnFileWaits
<1>2. phase = "assign" /\ UNCHANGED <<pc, file, to>> /\ UNCHANGED moving
  BY DEF AssignFile, moving
<1>3. f \in Files /\ d \in Disks /\ diskOf[f] = Null /\ diskOf' = [diskOf EXCEPT ![f] = d]
  BY <1>1, <1>2, AssignToKeeps
<1>4. \A u \in Movers : pc[u] = "idle" /\ file[u] = Null /\ pc'[u] = "idle" /\ file'[u] = Null
  BY <1>2, NobodyMoves
<1>5. /\ prev' = [g \in Files |-> IF g = f THEN Null ELSE IF g = head[d] THEN f ELSE prev[g]]
      /\ next' = [next EXCEPT ![f] = head[d]]
      /\ head' = [head EXCEPT ![d] = f]
  BY <1>1 DEF AssignTo
<1>6. \A e \in Disks : f \notin Listed(e) /\ Listed(e) \in SUBSET Files
  BY <1>3, FilesFinite DEF Listed
<1>7. \A e \in Disks : Listed(e)' = Listed(e) \cup IF e = d THEN {f} ELSE {}
  <2>. SUFFICES ASSUME NEW e \in Disks
       PROVE  Listed(e)' = Listed(e) \cup IF e = d THEN {f} ELSE {}
    OBVIOUS
  <2>1. Listed(e) = {g \in Files : diskOf[g] = e} /\ Listed(e)' = {g \in Files : diskOf'[g] = e}
    BY <1>4 DEF Listed
  <2>2. \A g \in Files : diskOf'[g] = IF g = f THEN d ELSE diskOf[g]
    BY <1>3 DEF Basic, TypeOK
  <2>3. e # Null
    BY FilesFinite
  <2>. QED  BY <1>3, <2>1, <2>2, <2>3
<1>8. \A e \in Disks : head'[e] = IF e = d THEN f ELSE head[e]
  BY <1>3, <1>5 DEF Basic, TypeOK
<1>9. AllBack
  BY <1>4, AllReturn DEF Chained
<1>10. next'[f] = head[d] /\ prev'[f] = Null
  BY <1>3, <1>5 DEF Basic, TypeOK
<1>11. head[d] \in Listed(d) => prev'[head[d]] = f
  BY <1>3, <1>5, <1>6
<1>12. ASSUME NEW e \in Disks, NEW g \in Listed(e)
       PROVE  /\ next'[g] = next[g]
              /\ g # head[d] => prev'[g] = prev[g] /\ Returns(Listed(e), head[e], next, prev, g)
  <2>1. g \in Files /\ g # f
    BY <1>6
  <2>. QED  BY <1>3, <1>5, <1>9, <2>1 DEF Basic, TypeOK, AllBack
<1>13. Led' /\ LeadsBack'
  BY <1>3, <1>6, <1>7, <1>8, <1>10, <1>11, <1>12, InsertChains DEF Chained
<1>14. Links'
  BY <1>4 DEF Links
<1>. QED  BY <1>13, <1>14 DEF Chained

(* The lists are empty at the start.                                       *)
LEMMA ChainsInit == Init => Chained
<1>. SUFFICES ASSUME Init PROVE Chained
  OBVIOUS
<1>1. \A d \in Disks : Listed(d) = {} /\ head[d] = Null
  BY FilesFinite DEF Init, Listed
<1>2. ASSUME NEW d \in Disks PROVE Chain(Listed(d), head[d], next, [f \in Files |-> 0])
  BY <1>1 DEF Chain
<1>3. [f \in Files |-> 0] \in [Files -> Int]
  OBVIOUS
<1>4. Led
  BY <1>2, <1>3 DEF Led, Leads
<1>5. LeadsBack
  BY <1>1 DEF LeadsBack
<1>6. Links
  BY DEF Init, Links
<1>. QED  BY <1>4, <1>5, <1>6 DEF Chained

(* One mover keeps the lists; the loader and the screen do.                *)
LEMMA ChainsNext ==
  ASSUME \A t, u \in Movers : t = u
  PROVE  Basic /\ Chained /\ [Next]_vars => Chained'
<1>. SUFFICES ASSUME Basic, Chained, [Next]_vars PROVE Chained'
  OBVIOUS
<1>1. CASE AssignFile
  BY <1>1, AssignFileChains
<1>2. ASSUME NEW t \in Movers, MoveStep(t) PROVE Chained'
  <2>1. \A u \in Movers : u = t
    OBVIOUS
  <2>. QED  BY <1>2, <2>1, BeginMoveChains, UnlinkFromNextChains, UnlinkFromPrevChains,
            CountOutChains, UnassignChains, LinkToNextChains, LinkFromNextChains, LinkHeadChains,
            CountInChains, EndMoveChains DEF MoveStep
<1>3. CASE LoadConfig \/ SetNextFileIndex \/ BeginDraw \/ WalkFile \/ DrawnDisk \/ UNCHANGED vars
  <2>1. UNCHANGED <<head, next, prev, diskOf, pc, file, to>>
    BY <1>3 DEF LoadConfig, SetNextFileIndex, BeginDraw, WalkFile, DrawnDisk, vars, links, moving
  <2>2. \A d \in Disks : Listed(d)' = Listed(d)
    BY <2>1 DEF Listed
  <2>3. Kept
    BY <2>1, <2>2 DEF Kept
  <2>4. Led'
    BY <2>3, LedKept DEF Chained
  <2>5. LeadsBack'
    BY <2>1, <2>2 DEF Chained, LeadsBack, Between
  <2>6. Links'
    BY <2>1 DEF Chained, Links, Back, Listed
  <2>. QED  BY <2>4, <2>5, <2>6 DEF Chained
<1>. QED  BY <1>1, <1>2, <1>3 DEF Next

-----------------------------------------------------------------------------
(* The walk along a list.                                                  *)

(* Once a walk that visits the files of the list in the order of their     *)
(* heights has gone n files far, n files are behind it.                    *)
LEMMA WalkedList ==
  ASSUME NEW m \in Nat, m <= MaxFiles, NEW own \in SUBSET (1 .. m), NEW first, NEW nxt,
         NEW height \in [Files -> Int], Chain(own, first, nxt, height), NEW walk,
         \A n \in 0 .. m : walk[n] = IF n = 0 THEN first
                                     ELSE IF walk[n - 1] = Null THEN Null ELSE nxt[walk[n - 1]]
  PROVE  walk[m] = Null /\ {walk[n] : n \in 0 .. m} \ {Null} = own
<1>1. /\ own \subseteq Files /\ \A f \in own : f # Null /\ height[f] \in Int
      /\ IsFiniteSet(own) /\ IsFiniteSet(1 .. m) /\ Cardinality(1 .. m) = m
  <2>1. own \subseteq Files
    BY FilesFinite DEF Files
  <2>2. IsFiniteSet(1 .. m) /\ Cardinality(1 .. m) = m
    <3>1. 1 \in Int /\ m \in Int /\ m - 1 + 1 = m
      OBVIOUS
    <3>2. IsFiniteSet(1 .. m) /\ Cardinality(1 .. m) = IF 1 > m THEN 0 ELSE m - 1 + 1
      BY <3>1, FS_Interval
    <3>. QED  BY <3>1, <3>2
  <2>3. IsFiniteSet(own)
    BY <2>2, FS_Subset
  <2>. QED  BY <2>1, <2>2, <2>3, FilesFinite
<1>. DEFINE Above(f) == {g \in own : height[f] < height[g]}
<1>2. /\ first = Null => own = {}
      /\ first # Null => first \in own /\ Above(first) = {}
  <2>1. /\ first = Null => own = {}
        /\ first # Null => first \in own /\ \A g \in own : height[g] <= height[first]
    BY DEF Chain
  <2>2. ASSUME first \in own, NEW g \in own, height[g] <= height[first]
        PROVE  ~(height[first] < height[g])
    <3>1. height[g] \in Int /\ height[first] \in Int
      BY <1>1, <2>2
    <3>. QED  BY <2>2, <3>1
  <2>. QED  BY <2>1, <2>2
<1>3. ASSUME NEW f \in own, nxt[f] # Null
      PROVE  nxt[f] \in own /\ Above(nxt[f]) = Above(f) \cup {f} /\ f \notin Above(f)
  <2>1. /\ nxt[f] \in own /\ height[nxt[f]] < height[f]
        /\ \A g \in own : height[g] <= height[nxt[f]] \/ height[f] <= height[g]
        /\ \A g \in own : height[g] = height[f] => g = f
    BY <1>3 DEF Chain
  <2>2. f \notin Above(f)
    BY <1>1
  <2>3. ASSUME NEW g \in own PROVE height[nxt[f]] < height[g] <=> height[f] < height[g] \/ g = f
    <3>1. height[g] \in Int /\ height[f] \in Int /\ height[nxt[f]] \in Int
      BY <1>1, <2>1
    <3>2. height[g] <= height[nxt[f]] \/ height[f] <= height[g]
      BY <2>1
    <3>3. height[g] = height[f] => g = f
      BY <2>1
    <3>4. height[nxt[f]] < height[f]
      BY <2>1
    <3>. QED  BY <3>1, <3>2, <3>3, <3>4
  <2>. QED  BY <2>1, <2>2, <2>3
<1>. DEFINE Good(n) == walk[n] # Null => walk[n] \in own /\ Cardinality(Above(walk[n])) = n
            S == {n \in 0 .. m : ~Good(n)}
<1>4. S = {}
  <2>. SUFFICES ASSUME S # {} PROVE FALSE
    OBVIOUS
  <2>1. S \in SUBSET Nat
    OBVIOUS
  <2>2. PICK n \in S : \A k \in S : n <= k
    BY <2>1, LeastNumber
  <2>3. n \in 0 .. m /\ walk[n] # Null
    OBVIOUS
  <2>4. CASE n = 0
    <3>1. Good(0)
      <4>1. walk[0] = first
        BY <2>3, <2>4
      <4>2. walk[0] # Null => walk[0] \in own /\ Above(walk[0]) = {}
        BY <1>2, <4>1
      <4>. HIDE DEF Above
      <4>. QED  BY <4>2, FS_EmptySet
    <3>. QED  BY <2>4, <3>1
  <2>5. CASE n # 0
    <3>1. n - 1 \in 0 .. m /\ n - 1 < n
      BY <2>3, <2>5
    <3>2. Good(n - 1)
      <4>1. n - 1 \notin S
        <5>. HIDE DEF S
        <5>. QED  BY <2>2, <3>1, <2>3
      <4>. QED  BY <3>1, <4>1
    <3>3. walk[n - 1] # Null /\ walk[n] = nxt[walk[n - 1]]
      BY <2>3, <2>5
    <3>4. PICK f \in own : f = walk[n - 1]
      BY <3>2, <3>3
    <3>5. Above(walk[n]) = Above(f) \cup {f} /\ f \notin Above(f) /\ walk[n] \in own
      BY <1>3, <2>3, <3>3, <3>4
    <3>6. IsFiniteSet(Above(f))
      <4>1. Above(f) \subseteq own
        OBVIOUS
      <4>. QED  BY <1>1, <4>1, FS_Subset
    <3>. HIDE DEF Above
    <3>7. Cardinality(Above(f) \cup {f}) = Cardinality(Above(f)) + 1
      BY <3>5, <3>6, FS_AddElement
    <3>8. Cardinality(Above(walk[n])) = n
      BY <2>3, <3>2, <3>3, <3>4, <3>5, <3>7
    <3>. QED  BY <3>5, <3>8
  <2>. QED  BY <2>4, <2>5
<1>5. \A n \in 0 .. m : Good(n)
  BY <1>4
<1>6. walk[m] = Null
  <2>. SUFFICES ASSUME walk[m] # Null PROVE FALSE
    OBVIOUS
  <2>1. m \in 0 .. m
    OBVIOUS
  <2>2. walk[m] \in own /\ Cardinality(Above(walk[m])) = m
    BY <1>5, <2>1
  <2>3. walk[m] \in 1 .. m /\ Above(walk[m]) \subseteq (1 .. m) \ {walk[m]}
    <3>1. ~(height[walk[m]] < height[walk[m]])
      <4>1. height[walk[m]] \in Int
        BY <1>1, <2>2
      <4>. QED  BY <4>1
    <3>. QED  BY <2>2, <3>1
  <2>4. IsFiniteSet((1 .. m) \ {walk[m]}) /\ Cardinality((1 .. m) \ {walk[m]}) = m - 1
    BY <1>1, <2>3, FS_RemoveElement
  <2>. HIDE DEF Above
  <2>5. Cardinality(Above(walk[m])) <= m - 1
    BY <2>3, <2>4, FS_Subset
  <2>. QED  BY <2>2, <2>5
<1>7. ASSUME NEW f \in own PROVE \E n \in 0 .. m : walk[n] = f
  <2>. DEFINE T == {n \in 0 .. m : walk[n] = Null \/ height[walk[n]] <= height[f]}
  <2>1. T \in SUBSET Nat /\ T # {}
    BY <1>6
  <2>2. PICK n \in T : \A k \in T : n <= k
    BY <2>1, LeastNumber
  <2>3. n \in 0 .. m /\ (walk[n] = Null \/ height[walk[n]] <= height[f])
    OBVIOUS
  <2>4. CASE n = 0
    <3>1. walk[n] = first /\ first # Null /\ first \in own
      BY <1>2, <2>3, <2>4
    <3>2. height[first] = height[f]
      BY <1>1, <2>3, <3>1 DEF Chain
    <3>. QED  BY <2>3, <3>1, <3>2 DEF Chain
  <2>5. CASE n # 0
    <3>1. n - 1 \in 0 .. m /\ n - 1 < n
      BY <2>3, <2>5
    <3>2. n - 1 \notin T
      <4>. HIDE DEF T
      <4>. QED  BY <2>2, <2>3, <3>1
    <3>3. walk[n - 1] # Null /\ ~(height[walk[n - 1]] <= height[f])
      BY <3>1, <3>2
    <3>4. PICK g \in own : g = walk[n - 1] /\ walk[n] = nxt[g]
      BY <1>5, <2>3, <2>5, <3>1, <3>3
    <3>5. height[f] < height[g]
      BY <1>1, <3>3, <3>4
    <3>6. nxt[g] # Null
      BY <1>1, <3>5 DEF Chain
    <3>7. nxt[g] \in own /\ (height[f] <= height[nxt[g]] \/ height[g] <= height[f])
      BY <3>6 DEF Chain
    <3>8. height[f] = height[nxt[g]]
      <4>1. height[f] \in Int /\ height[g] \in Int /\ height[nxt[g]] \in Int
        BY <1>1, <3>7
      <4>2. height[nxt[g]] <= height[f]
        BY <2>3, <3>4, <3>6
      <4>3. height[f] <= height[nxt[g]]
        BY <3>5, <3>7, <4>1
      <4>. QED  BY <4>1, <4>2, <4>3
    <3>. QED  BY <2>3, <3>4, <3>7, <3>8 DEF Chain
  <2>. QED  BY <2>4, <2>5
<1>8. \A n \in 0 .. m : walk[n] # Null => walk[n] \in own
  BY <1>5
<1>9. {walk[n] : n \in 0 .. m} \ {Null} \subseteq own
  BY <1>8
<1>10. own \subseteq {walk[n] : n \in 0 .. m} \ {Null}
  BY <1>1, <1>7
<1>. QED  BY <1>6, <1>9, <1>10

(* The recursion of Walked has a solution (see SumsAre), and Walked is     *)
(* one.                                                                    *)
LEMMA WalkedIs ==
  ASSUME TypeOK, NEW d \in Disks
  PROVE  \A n \in 0 .. MaxFiles : Walked(d)[n] =
           IF n = 0 THEN head[d]
           ELSE IF Walked(d)[n - 1] = Null THEN Null ELSE next[Walked(d)[n - 1]]
<1>. DEFINE Walks(m, g) == /\ g[0] = head[d]
                           /\ \A n \in 1 .. m :
                                g[n] = IF g[n - 1] = Null THEN Null ELSE next[g[n - 1]]
            V == 0 .. MaxFiles
            S == {m \in 0 .. MaxFiles : ~\E g \in [0 .. m -> V] : Walks(m, g)}
<1>1. MaxFiles \in Nat /\ head[d] \in V /\ \A v \in V : v # Null => next[v] \in V
  <2>1. \A v \in V : v # Null => v \in Files
    BY FilesFinite DEF Files, Null
  <2>. QED  BY <2>1, FilesFinite DEF TypeOK
<1>. HIDE DEF V
<1>2. S = {}
  <2>. SUFFICES ASSUME S # {} PROVE FALSE
    OBVIOUS
  <2>1. S \in SUBSET Nat
    BY <1>1
  <2>2. PICK m \in S : \A n \in S : m <= n
    BY <2>1, LeastNumber
  <2>3. m # 0
    <3>1. [n \in 0 .. 0 |-> head[d]] \in [0 .. 0 -> V] /\ Walks(0, [n \in 0 .. 0 |-> head[d]])
      BY <1>1
    <3>. QED  BY <3>1
  <2>4. m \in 1 .. MaxFiles /\ m - 1 \in 0 .. MaxFiles /\ m - 1 \notin S
    <3>1. m \in 0 .. MaxFiles /\ m \in 1 .. MaxFiles /\ m - 1 \in 0 .. MaxFiles /\ m - 1 < m
      BY <1>1, <2>2, <2>3
    <3>2. m - 1 \notin S
      <4>. HIDE DEF S
      <4>. QED  BY <2>2, <3>1
    <3>. QED  BY <3>1, <3>2
  <2>5. PICK g \in [0 .. m - 1 -> V] : Walks(m - 1, g)
    BY <2>4
  <2>6. PICK v \in V : v = IF g[m - 1] = Null THEN Null ELSE next[g[m - 1]]
    <3>1. g[m - 1] \in V
      BY <2>4, <2>5
    <3>. QED  BY <1>1, <3>1
  <2>. DEFINE h == [n \in 0 .. m |-> IF n = m THEN v ELSE g[n]]
  <2>7. h \in [0 .. m -> V]
    BY <2>4, <2>5, <2>6
  <2>8. Walks(m, h)
    <3>1. h[0] = head[d]
      BY <2>4, <2>5
    <3>2. ASSUME NEW n \in 1 .. m PROVE h[n] = IF h[n - 1] = Null THEN Null ELSE next[h[n - 1]]
      <4>1. n - 1 \in 0 .. m /\ n - 1 # m /\ h[n - 1] = g[n - 1]
        BY <2>4
      <4>2. CASE n = m
        BY <2>4, <2>6, <4>1, <4>2
      <4>3. CASE n # m
        <5>1. n \in 1 .. m - 1 /\ h[n] = g[n]
          BY <2>4, <4>3
        <5>. QED  BY <2>5, <4>1, <5>1
      <4>. QED  BY <4>2, <4>3
    <3>. QED  BY <3>1, <3>2
  <2>. QED  BY <2>2, <2>7, <2>8
<1>3. PICK g \in [0 .. MaxFiles -> V] : Walks(MaxFiles, g)
  <2>1. MaxFiles \in 0 .. MaxFiles
    BY <1>1
  <2>. HIDE DEF Walks
  <2>. QED  BY <1>2, <2>1
<1>4. g = [n \in 0 .. MaxFiles |->
             IF n = 0 THEN head[d] ELSE IF g[n - 1] = Null THEN Null ELSE next[g[n - 1]]]
  BY <1>1, <1>3
<1>5. Walked(d) = [n \in 0 .. MaxFiles |->
        IF n = 0 THEN head[d] ELSE IF Walked(d)[n - 1] = Null THEN Null ELSE next[Walked(d)[n - 1]]]
  <2>. HIDE DEF Walks, S
  <2>. QED  BY <1>4 DEF Walked
<1>. QED  BY <1>5

(* Between moves the files listed, those counted and those of the disk are *)
(* the same.                                                               *)
LEMMA ChainsMatch == Basic /\ Chained => ListsMatch
<1>. SUFFICES ASSUME Basic, Chained, phase = "run", \A t \in Movers : pc[t] = "idle",
                     NEW d \in 1 .. diskCount
     PROVE  LET own == {f \in Files : diskOf[f] = d} IN
            /\ files[d] = Cardinality(own)
            /\ Walked(d)[fileCount] = Null
            /\ {Walked(d)[n] : n \in 0 .. fileCount} \ {Null} = own
            /\ \A f \in own : IF prev[f] = Null THEN head[d] = f ELSE next[prev[f]] = f
  BY DEF ListsMatch
<1>. DEFINE own == {f \in Files : diskOf[f] = d}
<1>1. fileCount \in Files /\ diskCount \in Disks
  BY DEF Basic, Loads
<1>2. d \in Disks /\ d # Null /\ fileCount \in Nat /\ fileCount <= MaxFiles
        /\ own \subseteq 1 .. fileCount
  <2>1. d \in Disks /\ fileCount \in Nat /\ fileCount <= MaxFiles
    BY <1>1, FilesFinite DEF Files, Disks
  <2>2. \A f \in Files : diskOf[f] # Null => f \in 1 .. fileCount
    BY DEF Basic, Assigned
  <2>. QED  BY <2>1, <2>2, FilesFinite
<1>3. Listed(d) = own /\ Counted(d) = own
  BY DEF Listed, Counted
<1>4. files[d] = Cardinality(own)
  BY <1>2, <1>3 DEF Basic, Counts
<1>5. PICK height \in [Files -> Int] : Chain(own, head[d], next, height)
  BY <1>2, <1>3 DEF Chained, Led, Leads
<1>6. \A n \in 0 .. fileCount : Walked(d)[n] =
        IF n = 0 THEN head[d] ELSE IF Walked(d)[n - 1] = Null THEN Null ELSE next[Walked(d)[n - 1]]
  <2>1. 0 .. fileCount \subseteq 0 .. MaxFiles
    BY <1>2, FilesFinite
  <2>. QED  BY <1>2, <2>1, WalkedIs DEF Basic
<1>7. Walked(d)[fileCount] = Null /\ {Walked(d)[n] : n \in 0 .. fileCount} \ {Null} = own
  <2>. HIDE DEF own
  <2>. QED  BY <1>2, <1>5, <1>6, WalkedList
<1>8. AllBack
  BY AllReturn DEF Chained
<1>9. \A f \in own : IF prev[f] = Null THEN head[d] = f ELSE next[prev[f]] = f
  BY <1>2, <1>3, <1>8 DEF AllBack, Returns
<1>. QED  BY <1>4, <1>7, <1>9

(* Of one mover the list of a disk holds its files and no others, it ends  *)
(* and leads back as well, and m_assign_file_count is their number: what   *)
(* the screen shows is right whenever no move is under way.  With two      *)
(* movers it need not be.                                                  *)
THEOREM ListsMatchOneMover ==
  ASSUME \A t, u \in Movers : t = u
  PROVE  Spec => []ListsMatch
<1>1. Init => Basic /\ Chained
  BY BasicInit, ChainsInit
<1>2. Basic /\ Chained /\ [Next]_vars => (Basic /\ Chained)'
  BY BasicNext, ChainsNext
<1>. QED  BY <1>1, <1>2, ChainsMatch, PTL DEF Spec
=============================================================================
