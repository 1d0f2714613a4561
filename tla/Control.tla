------------------------------- MODULE Control -------------------------------
(***************************************************************************)
(* Steering a running workload: the control client (workload_control.c),   *)
(* the packets and keys that the main loop handles, each command of        *)
(* workload_cmd, and what two of them change under the feet of the access  *)
(* services, the ratio by which they draw a file (workload.c).             *)
(*                                                                         *)
(* A client sends one datagram, the header and a line per option, and      *)
(* waits 16 seconds for one datagram back.  The program handles a packet   *)
(* line by line and sends a reply for each line that has one.  The socket  *)
(* is opened once and outlives restarts.  A datagram may get lost: it      *)
(* stays in flight for ever, no fairness makes it arrive.                  *)
(*                                                                         *)
(* Abstracted: the text of a reply to what it is the reply of; relocation  *)
(* passes and counts (Relocation), loading (Lifecycle) to a step that ends *)
(* well, a port that is in use to packets that are never delivered.        *)
(***************************************************************************)
EXTENDS Integers, Sequences, FiniteSets

CONSTANTS
  Clients,     \* who sends a packet, control clients and others
  Scripts,     \* options a control client may be called with, in order
  Strays,      \* packets of others
  Keys,        \* what may be read from the terminal at once
  Custom,      \* the line given to -c
  Settings,    \* configurations: left and right ratio, what atoi makes of the option
               \* or the file (0: not given), and pause (None: not given)
  IntMax,      \* INT_MAX
  FileCount,   \* m_file_count
  QueueSize,   \* packets the socket holds
  None         \* no argument, no reply, no sender

Codes == {"q", "ESC", "Q", "?", "r", "o", "p", "S", "K", "P", "R", "!", "l", "workload", "other"}
Ints  == (-IntMax - 1) .. IntMax
Lines == [code : Codes, arg : Ints \cup {None}]   \* arg: None or what atoi makes of it

Plain(c) == [code |-> c, arg |-> None]
Header   == Plain("workload")
Contents == {"quit", "restart", "status", "relocate", "pause", "reset", "left", "right"}

OptionNames == {"quit", "restart", "pause", "resume", "oneshot", "start", "stop", "toggle",
                "status", "left", "right", "reset", "cmd", "help"}
Options == [name : OptionNames, arg : Ints \cup {None}]

Unsigned(n) == n % (2 * (IntMax + 1))

ASSUME ControlAssumption ==
  /\ IntMax \in Nat \ {0} /\ FileCount \in Nat \ {0} /\ QueueSize \in Nat \ {0}
  /\ None \notin Int \cup Clients \cup BOOLEAN
  /\ Custom \in Lines
  /\ Scripts \subseteq Seq(Options)
  /\ Strays \subseteq Seq(Lines) \ {<<>>} /\ Keys \subseteq Lines
  /\ Settings \subseteq [left : Ints, right : Ints, pause : BOOLEAN \cup {None}]

VARIABLES
  client,    \* where each client is
  packet,    \* its packet
  inFlight,  \* clients whose packet is on its way
  replies,   \* replies on their way to each client: line and content
  answer,    \* the reply each client read
  queue,     \* packets in the socket of the program
  pc,        \* where the main thread is
  from, at,  \* sender and line of the packet being handled
  resBuffer, \* s_res_buffer
  done,      \* history: lines of each packet given to workload_cmd
  break, reload, relocate, pause, left, right,
  asked,     \* history: has anyone asked for a restart in this turn?
  negative,  \* history: has this turn's configuration a negative ratio?
  pick,      \* where the access service that draws a file is
  sum, entry, count   \* its s_sum, s_entry, s_count

network  == <<client, packet, inFlight, replies, answer, queue>>
settings == <<break, reload, relocate, pause, left, right, asked>>
handling == <<from, at, resBuffer, done>>
drawing  == <<pick, sum, entry, count>>
vars == <<network, pc, handling, settings, negative, drawing>>

Init ==
  /\ client = [c \in Clients |-> "new"]
  /\ packet = [c \in Clients |-> <<>>]
  /\ inFlight = {}
  /\ replies = [c \in Clients |-> {}]
  /\ answer = [c \in Clients |-> None]
  /\ queue = <<>>
  /\ pc = "launch"
  /\ from = None /\ at = 1
  /\ resBuffer = None
  /\ done = [c \in Clients |-> {}]
  /\ break = FALSE /\ reload = TRUE
  /\ relocate \in BOOLEAN   \* --relocate
  /\ pause = FALSE
  /\ left = 1 /\ right = 1
  /\ asked = FALSE /\ negative = FALSE
  /\ pick = "idle" /\ sum = 0 /\ entry = 0 /\ count = 0

-----------------------------------------------------------------------------
(* The control client.                                                     *)

CodeOf == [quit |-> "q", restart |-> "Q", pause |-> "P", resume |-> "R", oneshot |-> "o",
           start |-> "S", stop |-> "K", toggle |-> "r", status |-> "?", left |-> "l",
           right |-> "r", reset |-> "!"]

LineOf(o) == IF o.name = "cmd" THEN Custom ELSE [code |-> CodeOf[o.name], arg |-> o.arg]

(* No option, or one that getopt does not take (such as --ip=<server ip>,  *)
(* declared without an argument): the help, and success.                   *)
NeedsHelp(s) == s = <<>> \/ \E i \in DOMAIN s : s[i].name = "help"

Ask(c) ==
  /\ client[c] = "new"
  /\ \E s \in Scripts :
       IF NeedsHelp(s)
       THEN /\ client' = [client EXCEPT ![c] = "helped"]
            /\ UNCHANGED <<packet, inFlight>>
       ELSE /\ client' = [client EXCEPT ![c] = "waiting"]
            /\ packet' = [packet EXCEPT ![c] = <<Header>> \o [i \in DOMAIN s |-> LineOf(s[i])]]
            /\ inFlight' = inFlight \cup {c}
  /\ UNCHANGED <<replies, answer, queue, pc, handling, settings, negative, drawing>>

(* Someone else sends a packet and does not wait.                          *)
Stray(c) ==
  /\ client[c] = "new"
  /\ \E p \in Strays : packet' = [packet EXCEPT ![c] = p]
  /\ client' = [client EXCEPT ![c] = "gone"]
  /\ inFlight' = inFlight \cup {c}
  /\ UNCHANGED <<replies, answer, queue, pc, handling, settings, negative, drawing>>

(* The first datagram that comes back is the answer, whatever line it is   *)
(* for; the socket is closed then.                                         *)
ReadAnswer(c) ==
  /\ client[c] = "waiting"
  /\ \E r \in replies[c] : answer' = [answer EXCEPT ![c] = r]
  /\ client' = [client EXCEPT ![c] = "answered"]
  /\ UNCHANGED <<packet, inFlight, replies, queue, pc, handling, settings, negative, drawing>>

GiveUp(c) ==
  /\ client[c] = "waiting"
  /\ client' = [client EXCEPT ![c] = "failed"]
  /\ UNCHANGED <<packet, inFlight, replies, answer, queue, pc, handling, settings, negative,
                 drawing>>

(* A packet reaches the socket, which is open from workload_init to        *)
(* workload_destroy.                                                       *)
Deliver(c) ==
  /\ c \in inFlight
  /\ pc # "exit" /\ Len(queue) < QueueSize
  /\ inFlight' = inFlight \ {c}
  /\ queue' = Append(queue, c)
  /\ UNCHANGED <<client, packet, replies, answer, pc, handling, settings, negative, drawing>>

-----------------------------------------------------------------------------
(* The commands.  Those that lock m_reassign_lock wait for the access      *)
(* service that draws; setting a ratio does not.                           *)

Unlocked == pick \notin {"right", "draw"}

Quit(l) ==
  /\ l \in {Plain("q"), Plain("ESC")}
  /\ break' = TRUE
  /\ UNCHANGED <<reload, relocate, pause, left, right, asked>>

Restart(l) ==
  /\ l = Plain("Q")
  /\ reload' = TRUE /\ break' = TRUE
  /\ asked' = TRUE
  /\ UNCHANGED <<relocate, pause, left, right>>

(* Without a buffer for the reply (a key) status does not even lock.       *)
Status(l) ==
  /\ l = Plain("?")
  /\ Unlocked \/ pc = "key"
  /\ UNCHANGED settings

ToggleRelocate(l) ==
  /\ l = Plain("r") /\ Unlocked
  /\ relocate' = ~relocate
  /\ UNCHANGED <<break, reload, pause, left, right, asked>>

(* A pass over the files, with the relocation mode as it is.               *)
OneShot(l) == l = Plain("o") /\ Unlocked /\ UNCHANGED settings

TogglePause(l) ==
  /\ l = Plain("p")
  /\ pause' = ~pause
  /\ UNCHANGED <<break, reload, relocate, left, right, asked>>

StartRelocate(l) ==
  /\ l = Plain("S") /\ Unlocked
  /\ relocate' = TRUE
  /\ UNCHANGED <<break, reload, pause, left, right, asked>>

StopRelocate(l) ==
  /\ l = Plain("K") /\ Unlocked
  /\ relocate' = FALSE
  /\ UNCHANGED <<break, reload, pause, left, right, asked>>

Pause(l) ==
  /\ l = Plain("P")
  /\ pause' = TRUE
  /\ UNCHANGED <<break, reload, relocate, left, right, asked>>

Resume(l) ==
  /\ l = Plain("R")
  /\ pause' = FALSE
  /\ UNCHANGED <<break, reload, relocate, left, right, asked>>

Reset(l) == l = Plain("!") /\ Unlocked /\ UNCHANGED settings

(* Mutant: what atoi returns is stored as it is.                           *)
SetLeft_Signed(l) ==
  /\ l.code = "l" /\ l.arg # None
  /\ left' = l.arg
  /\ UNCHANGED <<break, reload, relocate, pause, right, asked>>

SetLeft(l) ==
  /\ l.code = "l" /\ l.arg # None
  /\ left' = IF l.arg > 0 THEN l.arg ELSE left
  /\ UNCHANGED <<break, reload, relocate, pause, right, asked>>

(* Mutant: any number is taken, as in the configuration.                   *)
SetRight_Unchecked(l) ==
  /\ l.code = "r" /\ l.arg # None
  /\ right' = Unsigned(l.arg)
  /\ UNCHANGED <<break, reload, relocate, pause, left, asked>>

SetRight(l) ==
  /\ l.code = "r" /\ l.arg # None
  /\ right' = IF l.arg > 0 THEN l.arg ELSE right
  /\ UNCHANGED <<break, reload, relocate, pause, left, asked>>

(* What is the reply to a line, if it has one?                             *)
ReplyTo(l) ==
  IF l.arg # None
  THEN CASE l.code = "l" -> "left" [] l.code = "r" -> "right" [] OTHER -> None
  ELSE CASE l.code \in {"q", "ESC"}           -> "quit"
         [] l.code = "Q"                      -> "restart"
         [] l.code = "?"                      -> "status"
         [] l.code \in {"r", "o", "S", "K"}   -> "relocate"
         [] l.code \in {"p", "P", "R"}        -> "pause"
         [] l.code = "!"                      -> "reset"
         [] OTHER                             -> None

Unknown(l) == ReplyTo(l) = None /\ UNCHANGED settings

Command(l) ==
  \/ Quit(l) \/ Restart(l) \/ Status(l)
  \/ ToggleRelocate(l) \/ OneShot(l) \/ StartRelocate(l) \/ StopRelocate(l)
  \/ TogglePause(l) \/ Pause(l) \/ Resume(l) \/ Reset(l)
  \/ SetLeft(l) \/ SetRight(l) \/ Unknown(l)

-----------------------------------------------------------------------------
(* The main thread.  The launch loop clears break after each turn.         *)

(* Mutant: the reload flag is left as it is.                               *)
Launch_KeepsReload ==
  /\ pc = "launch"
  /\ pc' = IF reload THEN "load" ELSE "exit"
  /\ asked' = IF reload THEN FALSE ELSE asked
  /\ UNCHANGED <<network, handling, break, reload, relocate, pause, left, right, negative, drawing>>

(* Mutant: each turn opens its own socket.                                 *)
Launch_Reopens ==
  /\ pc = "launch"
  /\ pc' = IF reload THEN "load" ELSE "exit"
  /\ reload' = FALSE
  /\ asked' = IF reload THEN FALSE ELSE asked
  /\ queue' = <<>>
  /\ UNCHANGED <<client, packet, inFlight, replies, answer, handling, break, relocate, pause,
                 left, right, negative, drawing>>

Launch ==
  /\ pc = "launch"
  /\ pc' = IF reload THEN "load" ELSE "exit"
  /\ reload' = FALSE
  /\ asked' = IF reload THEN FALSE ELSE asked
  /\ UNCHANGED <<network, handling, break, relocate, pause, left, right, negative, drawing>>

IsGcm(d, m, n) ==
  LET Divides(e) == m % e = 0 /\ n % e = 0
  IN  Divides(d) /\ \A e \in 1..m : Divides(e) => e <= d

(* A ratio is cast to unsigned; only 0 is refused, a negative one becomes  *)
(* a large one.                                                            *)
Ratio(n) == IF Unsigned(n) = 0 THEN 1 ELSE Unsigned(n)

(* The ratio of the configuration is reduced to its lowest terms.          *)
Load ==
  /\ pc = "load"
  /\ \E s \in Settings : \E d \in 1 .. Ratio(s.left) :
       /\ IsGcm(d, Ratio(s.left), Ratio(s.right))
       /\ left' = Ratio(s.left) \div d /\ right' = Ratio(s.right) \div d
       /\ pause' = IF s.pause = None THEN pause ELSE s.pause
       /\ negative' = (s.left < 0 \/ s.right < 0)
  /\ pc' = "test"
  /\ UNCHANGED <<network, handling, break, reload, relocate, asked, drawing>>

TestBreak ==
  /\ pc = "test"
  /\ pc' = IF break THEN "close" ELSE "receive"
  /\ UNCHANGED <<network, handling, settings, negative, drawing>>

(* workload_udp reads packets until none comes for 10 ms.                  *)
Receive ==
  /\ pc = "receive"
  /\ IF queue = <<>>
     THEN /\ pc' = "key"
          /\ from' = None /\ at' = 1 /\ resBuffer' = None
          /\ UNCHANGED queue
     ELSE /\ pc' = "line"
          /\ from' = Head(queue) /\ at' = 1
          /\ queue' = Tail(queue)
          /\ UNCHANGED resBuffer
  /\ UNCHANGED <<client, packet, inFlight, replies, answer, done, settings, negative, drawing>>

InPacket == pc = "line" /\ at <= Len(packet[from])

(* A packet that does not begin with the header is dropped.                *)
CheckHeader ==
  /\ InPacket /\ at = 1
  /\ IF packet[from][1] = Header
     THEN at' = 2 /\ UNCHANGED pc
     ELSE pc' = "receive" /\ UNCHANGED at
  /\ UNCHANGED <<network, from, resBuffer, done, settings, negative, drawing>>

Send(c, i, content) ==
  replies' = IF content = None THEN replies
             ELSE [replies EXCEPT ![c] = @ \cup {[line |-> i, content |-> content]}]

(* Mutant: the buffer is not cleared, so that a line without a reply gets  *)
(* what the last one got.                                                  *)
HandleLine_Stale ==
  /\ InPacket /\ at > 1
  /\ Command(packet[from][at])
  /\ resBuffer' = IF ReplyTo(packet[from][at]) = None THEN resBuffer
                  ELSE ReplyTo(packet[from][at])
  /\ Send(from, at, resBuffer')
  /\ done' = [done EXCEPT ![from] = @ \cup {at}]
  /\ at' = at + 1
  /\ UNCHANGED <<client, packet, inFlight, answer, queue, pc, from, negative, drawing>>

HandleLine ==
  /\ InPacket /\ at > 1
  /\ Command(packet[from][at])
  /\ resBuffer' = ReplyTo(packet[from][at])
  /\ Send(from, at, resBuffer')
  /\ done' = [done EXCEPT ![from] = @ \cup {at}]
  /\ at' = at + 1
  /\ UNCHANGED <<client, packet, inFlight, answer, queue, pc, from, negative, drawing>>

PacketHandled ==
  /\ pc = "line" /\ at > Len(packet[from])
  /\ pc' = "receive"
  /\ UNCHANGED <<network, handling, settings, negative, drawing>>

(* Whatever the terminal has, no reply.                                    *)
ReadKey ==
  /\ pc = "key"
  /\ UNCHANGED settings \/ \E l \in Keys : Command(l)
  /\ pc' = "test"
  /\ UNCHANGED <<network, handling, negative, drawing>>

(* The access services are closed and have ended.                          *)
Close ==
  /\ pc = "close" /\ pick = "idle"
  /\ break' = FALSE
  /\ pc' = "launch"
  /\ UNCHANGED <<network, handling, reload, relocate, pause, left, right, asked, negative, drawing>>

-----------------------------------------------------------------------------
(* An access service draws a file: under m_reassign_lock it reads both     *)
(* ratios into s_sum and halves the range, going to the upper half with    *)
(* right/sum; it reads the right ratio again each time.                    *)

Running == pc \in {"test", "receive", "line", "key"}

LookAtPause ==
  /\ pick = "idle" /\ Running /\ ~break /\ ~pause
  /\ pick' = "left"
  /\ UNCHANGED <<network, pc, handling, settings, negative, sum, entry, count>>

ReadLeft ==
  /\ pick = "left"
  /\ sum' = left
  /\ pick' = "right"
  /\ UNCHANGED <<network, pc, handling, settings, negative, entry, count>>

ReadRight ==
  /\ pick = "right"
  /\ sum' = Unsigned(sum + right)
  /\ entry' = 0 /\ count' = FileCount
  /\ pick' = "draw"
  /\ UNCHANGED <<network, pc, handling, settings, negative>>

(* The next remainder is one of a division by 0: SIGFPE, whose handler     *)
(* exits at once, whatever the other threads do (main.c 27-42).            *)
Divides == pick = "draw" /\ count > 1

DivideByZero ==
  /\ Divides /\ sum = 0
  /\ pc' = "exit"
  /\ pick' = "idle" /\ entry' = 0 /\ count' = 0
  /\ UNCHANGED <<network, handling, settings, negative, sum>>

(* Mutant: the rounding is on the wrong side.                              *)
Halve_RoundsUp ==
  /\ Divides /\ sum # 0
  /\ \E value \in 0 .. sum - 1 :
       entry' = IF value < right THEN entry + (count + 1) \div 2 ELSE entry
  /\ count' = count - count \div 2
  /\ UNCHANGED <<network, pc, handling, settings, negative, pick, sum>>

Halve ==
  /\ Divides /\ sum # 0
  /\ \E value \in 0 .. sum - 1 :
       entry' = IF value < right THEN entry + count \div 2 ELSE entry
  /\ count' = count - count \div 2
  /\ UNCHANGED <<network, pc, handling, settings, negative, pick, sum>>

(* The file is accessed, and the service begins anew.                      *)
Drawn == pick = "draw" /\ count <= 1

UseFile ==
  /\ Drawn
  /\ pick' = "idle" /\ sum' = 0 /\ entry' = 0 /\ count' = 0
  /\ UNCHANGED <<network, pc, handling, settings, negative>>

-----------------------------------------------------------------------------
Client(c) == Ask(c) \/ Stray(c) \/ ReadAnswer(c) \/ GiveUp(c) \/ Deliver(c)

MainThread ==
  \/ Launch \/ Load \/ TestBreak \/ Receive
  \/ CheckHeader \/ HandleLine \/ PacketHandled \/ ReadKey \/ Close

Access == LookAtPause \/ ReadLeft \/ ReadRight \/ Halve \/ DivideByZero \/ UseFile

Next == (\E c \in Clients : Client(c)) \/ MainThread \/ Access

Spec == Init /\ [][Next]_vars

(* Both threads are scheduled, a drawing ends, and the main thread gets    *)
(* m_reassign_lock some time: between two drawings a service does I/O.     *)
FairSpec == Spec /\ SF_vars(MainThread) /\ WF_vars(pick # "idle" /\ Access)

-----------------------------------------------------------------------------
TypeOK ==
  /\ client \in [Clients -> {"new", "helped", "waiting", "gone", "answered", "failed"}]
  /\ packet \in [Clients -> Seq(Lines)]
  /\ inFlight \subseteq Clients
  /\ replies \in [Clients -> SUBSET [line : Nat, content : Contents]]
  /\ answer \in [Clients -> [line : Nat, content : Contents] \cup {None}]
  /\ queue \in Seq(Clients)
  /\ pc \in {"launch", "load", "test", "receive", "line", "key", "close", "exit"}
  /\ from \in Clients \cup {None} /\ at \in Nat
  /\ pc = "line" => from \in Clients
  /\ done \in [Clients -> SUBSET Nat]
  /\ break \in BOOLEAN /\ reload \in BOOLEAN /\ asked \in BOOLEAN
  /\ relocate \in BOOLEAN /\ pause \in BOOLEAN
  /\ left \in Nat /\ right \in Nat /\ negative \in BOOLEAN
  /\ pick \in {"idle", "left", "right", "draw"}
  /\ sum \in Nat /\ entry \in Nat /\ count \in Nat

(* An answer tells its client something about a line of its own packet     *)
(* that has been done, never what another packet or an earlier line did:   *)
(* one reply buffer serves all packets.                                    *)
AnswerIsOwn ==
  \A c \in Clients : client[c] = "answered" =>
    /\ answer[c].line \in done[c]
    /\ answer[c].content = ReplyTo(packet[c][answer[c].line])

(* No line of a packet without the header is ever done.                    *)
HeaderGuards == \A c \in Clients : done[c] # {} => packet[c][1] = Header

(* In a turn whose configuration has no negative ratio no drawing divides  *)
(* by 0: whatever the commands make of the ratios, and between whichever   *)
(* two reads, the sum of two positive ints does not wrap (workload.c       *)
(* 933-936).  With a negative one it may: the parser takes 1 and -1        *)
(* (workload_config.c 226, 240), and DivideByZero follows.                 *)
PositiveRatiosDraw == Divides /\ ~negative => sum # 0

(* What is drawn is an index of m_file_ordered, even if the right ratio    *)
(* changes during the drawing and is then more than the sum.               *)
DrawsAFile == Drawn => entry < FileCount

(* Another turn begins only if it was asked for during this one: a quit    *)
(* after a restart ends the program.                                       *)
RestartsOnlyIfAsked ==
  [][pc = "close" /\ pc' = "launch" /\ reload => asked]_vars

(* A packet that has reached the socket is handled or the program ends,    *)
(* even if a restart is asked for before its turn comes.                   *)
QueuedIsHandled ==
  \A c \in Clients :
    (\E i \in DOMAIN queue : queue[i] = c) ~> (pc = "exit" \/ (pc = "line" /\ from = c))
=============================================================================
