---------------------------- MODULE ControlProofs ----------------------------
EXTENDS Control, TLAPS

(* Numbers.                                                                *)
LEMMA NoWrap ==
  ASSUME NEW n \in 0 .. 2 * IntMax + 1 PROVE Unsigned(n) = n
  BY ControlAssumption DEF Unsigned

LEMMA UnsignedType ==
  ASSUME NEW n \in Int PROVE Unsigned(n) \in 0 .. 2 * IntMax + 1
  BY ControlAssumption DEF Unsigned

(* A ratio of the configuration is positive, and an int if it is not       *)
(* negative.                                                               *)
LEMMA RatioType ==
  ASSUME NEW n \in Ints
  PROVE  Ratio(n) \in 1 .. 2 * IntMax + 1 /\ (n >= 0 => Ratio(n) <= IntMax)
<1>1. n \in Int /\ n <= IntMax /\ IntMax \in Nat \ {0}
  BY ControlAssumption DEF Ints
<1>2. Unsigned(n) \in 0 .. 2 * IntMax + 1
  BY <1>1, UnsignedType
<1>3. ASSUME n >= 0 PROVE Unsigned(n) = n
  BY <1>1, <1>3, NoWrap
<1> QED
  BY <1>1, <1>2, <1>3 DEF Ratio

LEMMA Quotient ==
  ASSUME NEW m \in Nat \ {0}, NEW d \in Nat \ {0}, m % d = 0 PROVE m \div d \in 1..m
  OBVIOUS

LEMMA LineOfOption ==
  ASSUME NEW o \in Options, o.name # "help" PROVE LineOf(o) \in Lines
  BY ControlAssumption DEF Options, OptionNames, LineOf, CodeOf, Lines, Codes

LEMMA PacketOfScript ==
  ASSUME NEW s \in Scripts, ~NeedsHelp(s)
  PROVE  <<Header>> \o [i \in DOMAIN s |-> LineOf(s[i])] \in Seq(Lines)
<1> DEFINE t == [i \in DOMAIN s |-> LineOf(s[i])]
<1>1. s \in Seq(Options)
  BY ControlAssumption
<1>2. \A i \in DOMAIN s : s[i] \in Options /\ LineOf(s[i]) \in Lines
  BY <1>1, LineOfOption DEF NeedsHelp
<1>3. t \in Seq(Lines)
  BY <1>1, <1>2
<1>4. Header \in Lines
  BY DEF Header, Plain, Lines, Codes
<1> QED
  BY <1>3, <1>4

-----------------------------------------------------------------------------
(* The ratios are positive 32-bit numbers, and ints unless the             *)
(* configuration has a negative one, whatever the commands say.            *)
Words == 1 .. 2 * IntMax + 1

Ratios ==
  /\ left \in Words /\ right \in Words
  /\ ~negative => left <= IntMax /\ right <= IntMax

(* Where a drawing is, in a turn that has loaded its configuration: the    *)
(* range that is left lies within the files.                               *)
Draw ==
  /\ pick # "idle" => pc \notin {"launch", "load", "exit"}
  /\ pick = "right" => sum \in Words /\ (~negative => sum <= IntMax)
  /\ pick = "draw" =>
       /\ sum \in 0 .. 2 * IntMax + 1 /\ (~negative => sum # 0)
       /\ count >= 1 /\ entry + count <= FileCount

Flags ==
  /\ break \in BOOLEAN /\ reload \in BOOLEAN /\ asked \in BOOLEAN
  /\ relocate \in BOOLEAN /\ pause \in BOOLEAN

(* A command keeps the ratios in their range, ...                          *)
LEMMA CommandKeepsRatios ==
  ASSUME Ratios, NEW l \in Lines, Command(l), negative' = negative PROVE Ratios'
<1> USE ControlAssumption DEF Ratios, Words
<1>1. CASE SetLeft(l)
  BY <1>1 DEF SetLeft, Lines, Ints
<1>2. CASE SetRight(l)
  BY <1>2 DEF SetRight, Lines, Ints
<1>3. CASE UNCHANGED <<left, right>>
  BY <1>3
<1> QED
  BY <1>1, <1>2, <1>3 DEF Command, Quit, Restart, Status, OneShot, Reset, Unknown, settings,
     ToggleRelocate, StartRelocate, StopRelocate, TogglePause, Pause, Resume

(* ... the flags in their type, and asks for a reload only as a restart.   *)
LEMMA CommandKeepsFlags ==
  ASSUME Flags, NEW l \in Lines, Command(l)
  PROVE  Flags' /\ (reload' => reload \/ asked') /\ (asked => asked')
<1> USE DEF Flags
<1>1. CASE Quit(l)
  BY <1>1, Zenon DEF Quit
<1>2. CASE Restart(l)
  BY <1>2, Zenon DEF Restart
<1>3. CASE ToggleRelocate(l)
  BY <1>3, Zenon DEF ToggleRelocate
<1>4. CASE StartRelocate(l)
  BY <1>4, Zenon DEF StartRelocate
<1>5. CASE StopRelocate(l)
  BY <1>5, Zenon DEF StopRelocate
<1>6. CASE TogglePause(l)
  BY <1>6, Zenon DEF TogglePause
<1>7. CASE Pause(l)
  BY <1>7, Zenon DEF Pause
<1>8. CASE Resume(l)
  BY <1>8, Zenon DEF Resume
<1>9. CASE UNCHANGED <<break, reload, relocate, pause, asked>>
  BY <1>9, Zenon
<1> QED
  BY <1>1, <1>2, <1>3, <1>4, <1>5, <1>6, <1>7, <1>8, <1>9
     DEF Command, Status, OneShot, Reset, Unknown, SetLeft, SetRight, settings

LEMMA ReplyType == ASSUME NEW l \in Lines PROVE ReplyTo(l) \in Contents \cup {None}
  BY DEF ReplyTo, Contents

InRange == TypeOK /\ Ratios /\ Draw

LEMMA InitInRange == Init => InRange
<1> SUFFICES ASSUME Init PROVE InRange
  OBVIOUS
<1> USE ControlAssumption DEF Init
<1>1. packet \in [Clients -> Seq(Lines)] /\ queue \in Seq(Clients)
  OBVIOUS
<1>2. /\ replies \in [Clients -> SUBSET [line : Nat, content : Contents]]
      /\ answer \in [Clients -> [line : Nat, content : Contents] \cup {None}]
      /\ done \in [Clients -> SUBSET Nat]
  OBVIOUS
<1>3. Flags
  BY Zenon DEF Flags
<1>4. Ratios /\ Draw
  BY DEF Ratios, Draw, Words
<1> QED
  BY <1>1, <1>2, <1>3, <1>4 DEF InRange, TypeOK, Flags, Ratios

LEMMA StepInRange == InRange /\ [Next]_vars => InRange'
<1> SUFFICES ASSUME InRange, [Next]_vars PROVE InRange'
  OBVIOUS
<1> USE ControlAssumption DEF InRange
<1> Flags
  BY DEF TypeOK, Flags
<1>1. ASSUME NEW c \in Clients, Ask(c) PROVE InRange'
  <2>1. PICK s \in Scripts :
          IF NeedsHelp(s)
          THEN /\ client' = [client EXCEPT ![c] = "helped"]
               /\ UNCHANGED <<packet, inFlight>>
          ELSE /\ client' = [client EXCEPT ![c] = "waiting"]
               /\ packet' = [packet EXCEPT ![c] = <<Header>> \o [i \in DOMAIN s |-> LineOf(s[i])]]
               /\ inFlight' = inFlight \cup {c}
    BY <1>1 DEF Ask
  <2>2. packet' \in [Clients -> Seq(Lines)]
    BY <2>1, PacketOfScript DEF TypeOK
  <2>3. client' \in [Clients -> {"new", "helped", "waiting", "gone", "answered", "failed"}]
    BY <2>1 DEF TypeOK
  <2>4. inFlight' \subseteq Clients
    BY <2>1 DEF TypeOK
  <2>5. UNCHANGED <<replies, answer, queue, pc, handling, settings, negative, drawing>>
    BY <1>1 DEF Ask
  <2> QED
    BY <2>2, <2>3, <2>4, <2>5 DEF TypeOK, Ratios, Draw, handling, settings, drawing
<1>2. ASSUME NEW c \in Clients, Stray(c) PROVE InRange'
  BY <1>2 DEF Stray, TypeOK, Ratios, Draw, handling, settings, drawing
<1>3. ASSUME NEW c \in Clients, ReadAnswer(c) \/ GiveUp(c) PROVE InRange'
  <2>1. client' \in [Clients -> {"new", "helped", "waiting", "gone", "answered", "failed"}]
    BY <1>3 DEF ReadAnswer, GiveUp, TypeOK
  <2>2. answer' \in [Clients -> [line : Nat, content : Contents] \cup {None}]
    <3>1. CASE ReadAnswer(c)
      <4>1. PICK r \in replies[c] : answer' = [answer EXCEPT ![c] = r]
        BY <3>1 DEF ReadAnswer
      <4>2. r \in [line : Nat, content : Contents]
        BY DEF TypeOK
      <4> QED
        BY <4>1, <4>2 DEF TypeOK
    <3>2. CASE GiveUp(c)
      BY <3>2 DEF GiveUp, TypeOK
    <3> QED
      BY <1>3, <3>1, <3>2
  <2>3. UNCHANGED <<packet, inFlight, replies, queue, pc, handling, settings, negative, drawing>>
    BY <1>3 DEF ReadAnswer, GiveUp
  <2> QED
    BY <2>1, <2>2, <2>3 DEF TypeOK, Ratios, Draw, handling, settings, drawing
<1>4. ASSUME NEW c \in Clients, Deliver(c) PROVE InRange'
  BY <1>4 DEF Deliver, TypeOK, Ratios, Draw, handling, settings, drawing
<1>5. CASE Launch \/ TestBreak \/ PacketHandled \/ Close
  <2>1. CASE Launch
    BY <2>1 DEF Launch, TypeOK, Ratios, Draw, network, handling, settings, drawing
  <2>2. CASE TestBreak
    BY <2>2 DEF TestBreak, TypeOK, Ratios, Draw, network, handling, settings, drawing
  <2>3. CASE PacketHandled
    BY <2>3 DEF PacketHandled, TypeOK, Ratios, Draw, network, handling, settings, drawing
  <2>4. CASE Close
    BY <2>4 DEF Close, TypeOK, Ratios, Draw, network, handling, settings, drawing
  <2> QED
    BY <1>5, <2>1, <2>2, <2>3, <2>4
<1>6. CASE Load
  <2>0. PICK s \in Settings : \E d \in 1 .. Ratio(s.left) :
          /\ IsGcm(d, Ratio(s.left), Ratio(s.right))
          /\ left' = Ratio(s.left) \div d /\ right' = Ratio(s.right) \div d
          /\ pause' = IF s.pause = None THEN pause ELSE s.pause
          /\ negative' = (s.left < 0 \/ s.right < 0)
    BY <1>6 DEF Load
  <2>1. PICK d \in 1 .. Ratio(s.left) :
          /\ IsGcm(d, Ratio(s.left), Ratio(s.right))
          /\ left' = Ratio(s.left) \div d /\ right' = Ratio(s.right) \div d
          /\ pause' = IF s.pause = None THEN pause ELSE s.pause
          /\ negative' = (s.left < 0 \/ s.right < 0)
    BY <2>0
  <2>2. s.left \in Ints /\ s.right \in Ints /\ s.pause \in BOOLEAN \cup {None}
    OBVIOUS
  <2>3. Ratio(s.left) % d = 0 /\ Ratio(s.right) % d = 0
    BY <2>1 DEF IsGcm
  <2>4. /\ Ratio(s.left) \in Words /\ Ratio(s.right) \in Words
        /\ s.left >= 0 => Ratio(s.left) <= IntMax
        /\ s.right >= 0 => Ratio(s.right) <= IntMax
    BY <2>2, RatioType DEF Words
  <2>5. left' \in 1 .. Ratio(s.left) /\ right' \in 1 .. Ratio(s.right)
    BY <2>1, <2>3, <2>4, Quotient DEF Words
  <2>6. ~negative' => s.left >= 0 /\ s.right >= 0
    <3>1. ~negative' => ~(s.left < 0) /\ ~(s.right < 0)
      BY <2>1, Zenon
    <3> QED
      BY <2>2, <3>1 DEF Ints
  <2>7. Ratios'
    BY <2>4, <2>5, <2>6 DEF Ratios, Words
  <2>8. pause' \in BOOLEAN
    BY <2>1, <2>2 DEF TypeOK
  <2>9. negative' \in BOOLEAN
    BY <2>1, Zenon
  <2>10. left' \in Nat /\ right' \in Nat
    BY <2>7 DEF Ratios, Words
  <2>11. /\ pc = "load" /\ pc' = "test"
         /\ UNCHANGED <<network, handling, break, reload, relocate, asked, drawing>>
    BY <1>6 DEF Load
  <2>12. pick = "idle" /\ Draw'
    BY <2>11 DEF Draw, drawing
  <2>13. TypeOK'
    BY <2>8, <2>9, <2>10, <2>11 DEF TypeOK, network, handling, drawing
  <2> QED
    BY <2>7, <2>12, <2>13
<1>7. CASE Receive
  <2>3. queue # <<>> => Head(queue) \in Clients /\ Tail(queue) \in Seq(Clients)
    BY DEF TypeOK
  <2>1. /\ queue' \in Seq(Clients)
        /\ from' \in Clients \cup {None}
        /\ pc' \in {"key", "line"} /\ (pc' = "line" => from' \in Clients)
        /\ at' = 1
    <3>1. CASE queue = <<>>
      BY <1>7, <3>1 DEF Receive, TypeOK
    <3>2. CASE queue # <<>>
      BY <1>7, <3>2, <2>3 DEF Receive
    <3> QED
      BY <3>1, <3>2
  <2>2. UNCHANGED <<client, packet, inFlight, replies, answer, done, settings, negative, drawing>>
    BY <1>7 DEF Receive
  <2> QED
    BY <2>1, <2>2 DEF TypeOK, Ratios, Draw, settings, drawing
<1>8. CASE CheckHeader
  BY <1>8 DEF CheckHeader, InPacket, TypeOK, Ratios, Draw, network, settings, drawing
<1>9. CASE HandleLine
  <2> DEFINE l == packet[from][at]
  <2>1. from \in Clients /\ at \in Nat /\ l \in Lines
    BY <1>9 DEF HandleLine, InPacket, TypeOK
  <2>2. Flags' /\ Ratios'
    BY <1>9, <2>1, CommandKeepsFlags, CommandKeepsRatios DEF HandleLine
  <2>6. Draw' /\ negative' \in BOOLEAN
    BY <1>9 DEF HandleLine, InPacket, TypeOK, Draw, drawing
  <2>3. resBuffer' \in Contents \cup {None}
    BY <1>9, <2>1, ReplyType DEF HandleLine
  <2>4. replies' \in [Clients -> SUBSET [line : Nat, content : Contents]]
    BY <1>9, <2>1, <2>3 DEF HandleLine, Send, TypeOK
  <2>5. done' \in [Clients -> SUBSET Nat] /\ at' \in Nat
    BY <1>9, <2>1 DEF HandleLine, TypeOK
  <2> QED
    BY <1>9, <2>1, <2>2, <2>4, <2>5, <2>6
       DEF HandleLine, InPacket, Flags, TypeOK, Ratios, Words, drawing
<1>10. CASE ReadKey
  <2>2. UNCHANGED <<network, handling, negative, drawing>> /\ pc = "key" /\ pc' = "test"
    BY <1>10 DEF ReadKey
  <2>1. ASSUME UNCHANGED settings PROVE Flags' /\ Ratios'
    <3>1. UNCHANGED <<break, reload, relocate, pause, left, right, asked, negative>>
      BY <2>1, <2>2 DEF settings
    <3> QED
      BY <3>1, Zenon DEF Flags, Ratios
  <2>3. ASSUME NEW l \in Keys, Command(l) PROVE Flags' /\ Ratios'
    BY <2>2, <2>3, CommandKeepsFlags, CommandKeepsRatios
  <2>4. Flags' /\ Ratios'
    BY <1>10, <2>1, <2>3 DEF ReadKey, settings, Flags, Ratios
  <2>5. Draw' /\ negative' \in BOOLEAN
    BY <2>2 DEF TypeOK, Draw, drawing
  <2> QED
    BY <2>2, <2>4, <2>5 DEF Flags, TypeOK, Ratios, Words, network, handling, drawing
<1>11. CASE LookAtPause \/ ReadLeft \/ UseFile
  <2>1. CASE LookAtPause
    BY <2>1 DEF LookAtPause, Running, TypeOK, Ratios, Draw, network, handling, settings
  <2>2. CASE ReadLeft
    BY <2>2 DEF ReadLeft, Drawn, TypeOK, Ratios, Draw, network, handling, settings
  <2>3. CASE UseFile
    BY <2>3 DEF UseFile, Drawn, TypeOK, Ratios, Draw, network, handling, settings
  <2> QED
    BY <1>11, <2>1, <2>2, <2>3
<1>12. CASE ReadRight
  <2>1. /\ sum' = Unsigned(sum + right) /\ entry' = 0 /\ count' = FileCount
        /\ pick = "right" /\ pick' = "draw"
        /\ UNCHANGED <<network, pc, handling, settings, negative>>
    BY <1>12 DEF ReadRight
  <2>2. /\ sum \in Words /\ right \in Words
        /\ ~negative => sum <= IntMax /\ right <= IntMax
    BY <2>1 DEF Draw, Ratios
  <2>3. sum' \in 0 .. 2 * IntMax + 1
    BY <2>1, <2>2, UnsignedType DEF Words
  <2>4. ASSUME ~negative PROVE sum' # 0
    <3>1. sum + right \in 2 .. 2 * IntMax
      BY <2>2, <2>4 DEF Words
    <3> QED
      BY <2>1, <3>1, NoWrap
  <2>5. Draw'
    BY <2>1, <2>3, <2>4 DEF Draw
  <2> QED
    BY <2>1, <2>3, <2>5 DEF TypeOK, Ratios, network, handling, settings
<1>13. CASE Halve
  <2>1. count \div 2 \in Nat /\ 1 <= count - count \div 2
    BY <1>13 DEF Halve, Divides, TypeOK
  <2>2. entry' \in {entry, entry + count \div 2} /\ count' = count - count \div 2
    BY <1>13 DEF Halve
  <2>3. pick = "draw" /\ UNCHANGED <<network, pc, handling, settings, negative, pick, sum>>
    BY <1>13 DEF Halve, Divides
  <2>4. entry' + count' <= FileCount /\ entry' \in Nat /\ count' \in Nat /\ count' >= 1
    <3>1. entry \in Nat /\ count \in Nat /\ entry + count <= FileCount
      BY <2>3 DEF TypeOK, Draw
    <3>2. FileCount \in Nat
      OBVIOUS
    <3> DEFINE half == count \div 2
    <3>3. half \in Nat /\ 1 <= count - half
      BY <2>1
    <3>4. entry' \in {entry, entry + half} /\ count' = count - half
      BY <2>2
    <3> HIDE DEF half
    <3>5. CASE entry' = entry
      BY <3>1, <3>2, <3>3, <3>4, <3>5
    <3>6. CASE entry' = entry + half
      BY <3>1, <3>2, <3>3, <3>4, <3>6
    <3> QED
      BY <3>4, <3>5, <3>6
  <2>5. Draw'
    BY <2>3, <2>4 DEF Draw
  <2> QED
    BY <2>3, <2>4, <2>5 DEF TypeOK, Ratios, network, handling, settings
<1>14. CASE DivideByZero
  BY <1>14 DEF DivideByZero, TypeOK, Ratios, Draw, network, handling, settings
<1>15. CASE UNCHANGED vars
  BY <1>15 DEF vars, TypeOK, Ratios, Draw, network, handling, settings, drawing
<1> QED
  BY <1>1, <1>2, <1>3, <1>4, <1>5, <1>6, <1>7, <1>8, <1>9, <1>10, <1>11, <1>12, <1>13, <1>14,
     <1>15 DEF Next, Client, MainThread, Access

LEMMA AlwaysInRange == Spec => []InRange
  BY InitInRange, StepInRange, PTL DEF Spec

(* Every variable keeps its type.                                          *)
THEOREM TypeCorrect == Spec => []TypeOK
  BY AlwaysInRange, PTL DEF InRange

(* No drawing divides by zero in a turn whose configuration has no         *)
(* negative ratio, although commands change the ratios meanwhile: they are *)
(* positive ints then, so that their 32-bit sum, the divisor, does not     *)
(* wrap to 0.                                                              *)
THEOREM PositiveRatiosSuffice == Spec => []PositiveRatiosDraw
<1>1. InRange => PositiveRatiosDraw
  BY DEF InRange, Draw, Divides, PositiveRatiosDraw
<1> QED
  BY <1>1, AlwaysInRange, PTL

(* Each drawing that ends does so at the index of a file, even with        *)
(* ratios that wrap: halving, in whichever direction, stays in the range.  *)
THEOREM DrawnIndexInRange == Spec => []DrawsAFile
<1>1. InRange => DrawsAFile
  BY ControlAssumption DEF InRange, TypeOK, Draw, Drawn, DrawsAFile
<1> QED
  BY <1>1, AlwaysInRange, PTL

-----------------------------------------------------------------------------
(* A client that has not sent anything is known to nobody.                 *)
Unknowns ==
  \A c \in Clients : client[c] = "new" =>
    /\ c \notin inFlight /\ from # c
    /\ \A i \in DOMAIN queue : queue[i] # c
    /\ done[c] = {} /\ replies[c] = {}

Tells(c, r) == r.line \in done[c] /\ r.content = ReplyTo(packet[c][r.line])

(* What holds of an answer holds of every reply on its way.                *)
Own ==
  \A c \in Clients :
    /\ \A r \in replies[c] : Tells(c, r)
    /\ client[c] = "answered" => Tells(c, answer[c])

(* Beyond the first line of a packet, the first line is the header.        *)
Guarded ==
  /\ HeaderGuards
  /\ pc = "line" /\ at > 1 => packet[from][1] = Header

Traced == Unknowns /\ Own /\ Guarded

LEMMA InitTraced == Init => Traced
  BY ControlAssumption DEF Init, Traced, Unknowns, Own, Guarded, HeaderGuards

(* Most steps of the main thread and all of the access service.            *)
LEMMA QuietTraced ==
  ASSUME Traced, UNCHANGED <<network, from, done>>,
         pc' = "line" => pc = "line" /\ at' = at
  PROVE  Traced'
<1> USE DEF network, Traced
<1>1. Unknowns'
  BY DEF Unknowns
<1>2. Own'
  BY DEF Own, Tells
<1>3. Guarded'
  BY DEF Guarded, HeaderGuards
<1> QED
  BY <1>1, <1>2, <1>3

(* A packet is chosen by a client that nobody knows yet.                   *)
LEMMA ChoiceTraced ==
  ASSUME InRange, Traced, NEW c \in Clients, client[c] = "new",
         NEW p \in Seq(Lines), NEW next \in {"waiting", "gone"},
         client' = [client EXCEPT ![c] = next],
         packet' = [packet EXCEPT ![c] = p],
         inFlight' = inFlight \cup {c},
         UNCHANGED <<replies, answer, queue, pc, from, at, done>>
  PROVE  Traced'
<1> USE DEF InRange, TypeOK, Traced
<1>1. Unknowns'
  BY DEF Unknowns
<1>2. from # c /\ done[c] = {} /\ replies[c] = {}
  BY DEF Unknowns
<1>3. Own'
  BY <1>2 DEF Own, Tells
<1>4. Guarded'
  BY <1>2 DEF Guarded, HeaderGuards
<1> QED
  BY <1>1, <1>3, <1>4

LEMMA StepTraced == InRange /\ Traced /\ [Next]_vars => Traced'
<1> SUFFICES ASSUME InRange, Traced, [Next]_vars PROVE Traced'
  OBVIOUS
<1>1. ASSUME NEW c \in Clients, Ask(c) PROVE Traced'
  <2>1. PICK s \in Scripts :
          IF NeedsHelp(s)
          THEN /\ client' = [client EXCEPT ![c] = "helped"]
               /\ UNCHANGED <<packet, inFlight>>
          ELSE /\ client' = [client EXCEPT ![c] = "waiting"]
               /\ packet' = [packet EXCEPT ![c] = <<Header>> \o [i \in DOMAIN s |-> LineOf(s[i])]]
               /\ inFlight' = inFlight \cup {c}
    BY <1>1 DEF Ask
  <2>2. /\ client[c] = "new"
        /\ UNCHANGED <<replies, answer, queue, pc, from, at, done>>
    BY <1>1 DEF Ask, handling
  <2>3. CASE NeedsHelp(s)
    BY <2>1, <2>2, <2>3
       DEF InRange, TypeOK, Traced, Unknowns, Own, Tells, Guarded, HeaderGuards
  <2>4. CASE ~NeedsHelp(s)
    BY <2>1, <2>2, <2>4, PacketOfScript, ChoiceTraced
  <2> QED
    BY <2>3, <2>4
<1>2. ASSUME NEW c \in Clients, Stray(c) PROVE Traced'
  <2>1. PICK p \in Strays : packet' = [packet EXCEPT ![c] = p]
    BY <1>2 DEF Stray
  <2>2. p \in Seq(Lines)
    BY ControlAssumption
  <2> QED
    BY <1>2, <2>1, <2>2, ChoiceTraced DEF Stray, handling
<1>3. ASSUME NEW c \in Clients, ReadAnswer(c) PROVE Traced'
  <2>1. PICK r \in replies[c] : answer' = [answer EXCEPT ![c] = r]
    BY <1>3 DEF ReadAnswer
  <2>2. /\ client' = [client EXCEPT ![c] = "answered"]
        /\ UNCHANGED <<packet, inFlight, replies, queue, pc, from, at, done>>
    BY <1>3 DEF ReadAnswer, handling
  <2>3. Own'
    BY <2>1, <2>2 DEF InRange, TypeOK, Traced, Own, Tells
  <2> QED
    BY <2>2, <2>3 DEF InRange, TypeOK, Traced, Unknowns, Guarded, HeaderGuards
<1>4. ASSUME NEW c \in Clients, GiveUp(c) PROVE Traced'
  BY <1>4 DEF GiveUp, InRange, TypeOK, Traced, Unknowns, Own, Tells, Guarded, HeaderGuards, handling
<1>5. ASSUME NEW c \in Clients, Deliver(c) PROVE Traced'
  <2>1. /\ c \in inFlight /\ inFlight' = inFlight \ {c} /\ queue' = Append(queue, c)
        /\ UNCHANGED <<client, packet, replies, answer, pc, from, at, done>>
    BY <1>5 DEF Deliver, handling
  <2>2. Unknowns'
    BY <2>1 DEF InRange, TypeOK, Traced, Unknowns
  <2> QED
    BY <2>1, <2>2 DEF Traced, Own, Tells, Guarded, HeaderGuards
<1>6. CASE Launch \/ Load \/ TestBreak \/ PacketHandled \/ ReadKey \/ Close
  BY <1>6, QuietTraced DEF Launch, Load, TestBreak, PacketHandled, ReadKey, Close, handling
<1>7. CASE Receive
  <2>1. /\ UNCHANGED <<client, packet, inFlight, replies, answer, done>>
        /\ pc' = "line" => at' = 1
    BY <1>7 DEF Receive
  <2>2. \/ from' = None /\ queue' = queue
        \/ queue # <<>> /\ from' = Head(queue) /\ queue' = Tail(queue)
    BY <1>7 DEF Receive
  <2>3. Unknowns'
    <3>1. CASE from' = None /\ queue' = queue
      BY <2>1, <3>1, ControlAssumption DEF Traced, Unknowns
    <3>2. CASE queue # <<>> /\ from' = Head(queue) /\ queue' = Tail(queue)
      <4>1. queue \in Seq(Clients)
        BY DEF InRange, TypeOK
      <4>2. from' = queue[1] /\ 1 \in DOMAIN queue
        BY <3>2, <4>1
      <4>3. \A i \in DOMAIN queue' : i + 1 \in DOMAIN queue /\ queue'[i] = queue[i + 1]
        BY <3>2, <4>1
      <4> QED
        BY <2>1, <4>2, <4>3 DEF Traced, Unknowns
    <3> QED
      BY <2>2, <3>1, <3>2
  <2> QED
    BY <2>1, <2>3 DEF Traced, Own, Tells, Guarded, HeaderGuards
<1>8. CASE CheckHeader
  <2>1. UNCHANGED <<network, from, done>>
    BY <1>8 DEF CheckHeader
  <2>2. pc = "line" /\ (pc' = "line" => packet[from][1] = Header)
    BY <1>8 DEF CheckHeader, InPacket
  <2> QED
    BY <2>1, <2>2 DEF network, Traced, Unknowns, Own, Tells, Guarded, HeaderGuards
<1>9. CASE HandleLine
  <2> DEFINE content == ReplyTo(packet[from][at])
  <2>1. /\ pc = "line" /\ pc' = "line" /\ at > 1 /\ at' = at + 1
        /\ from \in Clients /\ at \in Nat
        /\ done' = [done EXCEPT ![from] = @ \cup {at}]
        /\ UNCHANGED <<client, packet, inFlight, answer, queue, from>>
    BY <1>9 DEF HandleLine, InPacket, InRange, TypeOK
  <2>2. \/ replies' = replies
        \/ replies' = [replies EXCEPT ![from] = @ \cup {[line |-> at, content |-> content]}]
    BY <1>9 DEF HandleLine, Send
  <2>3. Unknowns'
    BY <2>1, <2>2 DEF InRange, TypeOK, Traced, Unknowns
  <2>4. Own'
    BY <2>1, <2>2 DEF InRange, TypeOK, Traced, Own, Tells
  <2>5. Guarded'
    BY <2>1 DEF InRange, TypeOK, Traced, Guarded, HeaderGuards
  <2> QED
    BY <2>3, <2>4, <2>5 DEF Traced
<1>10. CASE Access
  BY <1>10, QuietTraced DEF Access, LookAtPause, ReadLeft, ReadRight, Halve, DivideByZero,
     UseFile, handling
<1>11. CASE UNCHANGED vars
  BY <1>11, QuietTraced DEF vars, handling
<1> QED
  BY <1>1, <1>2, <1>3, <1>4, <1>5, <1>6, <1>7, <1>8, <1>9, <1>10, <1>11
     DEF Next, Client, MainThread

(* An answer is about a line of the client's own packet that has been      *)
(* done, for any number of clients and any packets: the reply buffer is    *)
(* cleared by workload_cmd before each line.                               *)
THEOREM AnswersAreOwn == Spec => []AnswerIsOwn
<1>1. Own => AnswerIsOwn
  BY DEF Own, Tells, AnswerIsOwn
<1> QED
  BY <1>1, InitTraced, StepTraced, AlwaysInRange, PTL DEF Traced, Spec

(* Nothing is done for a packet without the header.                        *)
THEOREM HeaderNeeded == Spec => []HeaderGuards
<1>1. Traced => HeaderGuards
  BY DEF Traced, Guarded
<1> QED
  BY <1>1, InitTraced, StepTraced, AlwaysInRange, PTL DEF Spec

-----------------------------------------------------------------------------
(* Past the launch loop, which clears it, the reload flag is a restart     *)
(* asked for in this turn.                                                 *)
Asked == pc # "launch" /\ reload => asked

LEMMA StepAsked == InRange /\ Asked /\ [Next]_vars => Asked'
<1> SUFFICES ASSUME InRange, Asked, [Next]_vars PROVE Asked'
  OBVIOUS
<1> USE DEF Asked
<1> Flags
  BY DEF InRange, TypeOK, Flags
<1>1. ASSUME NEW c \in Clients, Client(c) PROVE Asked'
  BY <1>1 DEF Client, Ask, Stray, ReadAnswer, GiveUp, Deliver, settings
<1>2. CASE Launch
  BY <1>2 DEF Launch
<1>3. CASE Load \/ TestBreak \/ Receive \/ CheckHeader \/ PacketHandled \/ Close
  BY <1>3 DEF Load, TestBreak, Receive, CheckHeader, InPacket, PacketHandled, Close, settings
<1>4. CASE HandleLine
  <2>1. packet[from][at] \in Lines
    BY <1>4 DEF HandleLine, InPacket, InRange, TypeOK
  <2> QED
    BY <1>4, <2>1, CommandKeepsFlags DEF HandleLine, InPacket
<1>5. CASE ReadKey
  BY <1>5, CommandKeepsFlags, ControlAssumption DEF ReadKey, settings
<1>6. CASE Access \/ UNCHANGED vars
  <2>1. /\ UNCHANGED <<reload, asked>>
        /\ pc # "launch" \/ pc' = pc
    <3>1. CASE DivideByZero
      BY <3>1 DEF DivideByZero, Divides, settings, InRange, Draw
    <3>2. CASE ~DivideByZero
      BY <1>6, <3>2 DEF Access, LookAtPause, ReadLeft, ReadRight, Halve, UseFile, settings, vars
    <3> QED
      BY <3>1, <3>2
  <2> QED
    BY <2>1, Zenon
<1> QED
  BY <1>1, <1>2, <1>3, <1>4, <1>5, <1>6 DEF Next, MainThread

(* Another turn follows only a restart asked for in this one, since        *)
(* workload_main clears the reload flag when it begins.                    *)
THEOREM RestartsAreAsked == Spec => RestartsOnlyIfAsked
<1>1. Init => Asked
  BY DEF Init, Asked
<1>2. Asked => (pc = "close" /\ pc' = "launch" /\ reload => asked)
  BY DEF Asked
<1> QED
  BY <1>1, <1>2, StepAsked, AlwaysInRange, PTL DEF Spec, RestartsOnlyIfAsked
=============================================================================
