------------------------------ MODULE Lifecycle ------------------------------
(***************************************************************************)
(* The life of the process: the launch loop of main (source/main.c), one   *)
(* workload_main per turn of it (workload.c), loading and unloading the    *)
(* configuration (workload_config.c) and the disk services that write the  *)
(* temporary files while it loads (workload_storage.c).                    *)
(*                                                                         *)
(* Two flags steer it: break ends whatever is going on, reload says that   *)
(* another turn follows.  Signals set them at any moment, in any thread;   *)
(* commands and the duration set them from the main loop.  The files and   *)
(* disks of one turn are freed at its end, while services that use them    *)
(* may still be running.                                                   *)
(*                                                                         *)
(* A service is opened and closed as ServiceContract says.  Left out:      *)
(* failures of workload_init, SIGQUIT and the fatal signals (they exit at  *)
(* once), accesses and relocation, counters, database and view.            *)
(***************************************************************************)
EXTENDS Naturals, FiniteSets

CONSTANTS
  Disks,       \* disk services
  Accesses,    \* access services
  Files, Head, \* temporary files, and the first of them, m_file_head
  Existing,    \* disks whose directory is there before the program runs
  Configs,     \* may looking for a configuration find one (TRUE), none (FALSE)?
  Requests,    \* what may come: TERM, HUP, q, Q, duration
  Failures,    \* what may fail: open (a service), path, file, write
  None         \* no file, no service

Services == Disks \cup Accesses

ASSUME LifecycleAssumption ==
  /\ IsFiniteSet(Disks)
  /\ Disks \cap Accesses = {}
  /\ Head \in Files
  /\ None \notin Files \cup Services
  /\ Existing \subseteq Disks
  /\ Configs \subseteq BOOLEAN
  /\ Requests \subseteq {"TERM", "HUP", "q", "Q", "duration"}
  /\ Failures \subseteq {"open", "path", "file", "write"}

VARIABLES
  pc,       \* where the main thread is
  ending,   \* is unload_config called by workload_destroy?
  break,    \* g_workload_break
  reload,   \* g_workload_reload
  hup,      \* is the SIGHUP handler between its two stores?
  quit,     \* history: has anyone asked the program to end?
  calm,     \* history: since this turn began nothing failed but writes, and
            \* requests came one at a time, in the main loop
  xml,      \* m_xml is not NULL
  freed,    \* files of this turn that have been freed
  svc,      \* where each service is
  told,     \* the service being closed
  todo,     \* m_assign_file: files each disk service has still to write
  cur,      \* s_file of each disk service
  whole,    \* history: files this turn wrote to their end ...
  short,    \* ... and those on which a write of this turn failed
  onDisk,   \* file system: the files in each disk's directory
  ready,    \* m_disk_ready_count
  errors    \* m_disk_error_count

flags  == <<break, reload, hup, quit, calm>>
writes == <<todo, cur, whole, short, onDisk, ready, errors>>
vars == <<pc, ending, break, reload, hup, quit, calm, xml, freed, svc, told, todo, cur, whole,
          short, onDisk, ready, errors>>

Init ==
  /\ pc = "test" /\ ending = FALSE
  /\ break = FALSE /\ reload = TRUE /\ hup = FALSE
  /\ quit = FALSE /\ calm = TRUE
  /\ xml = FALSE
  /\ freed = {}
  /\ svc = [s \in Services |-> "none"]
  /\ told = None
  /\ todo = [d \in Disks |-> {}]
  /\ cur = [d \in Disks |-> None]
  /\ whole = {} /\ short = {}
  /\ onDisk = [d \in Disks |-> {}]
  /\ ready = 0 /\ errors = 0

-----------------------------------------------------------------------------
(* Signals.                                                                *)

(* A request is expected in the main loop, with none before it pending.    *)
Expected == pc = "run" /\ ~break /\ ~hup

(* SIGINT, SIGTERM.                                                        *)
Terminate ==
  /\ "TERM" \in Requests /\ pc # "exit"
  /\ break' = TRUE /\ quit' = TRUE
  /\ calm' = (calm /\ Expected)
  /\ UNCHANGED <<pc, ending, reload, hup, xml, freed, svc, told, writes>>

(* SIGHUP stores reload first, then break; the handler may run in another  *)
(* thread than the main one.                                               *)
HangUp ==
  /\ "HUP" \in Requests /\ pc # "exit" /\ ~hup
  /\ reload' = TRUE /\ hup' = TRUE
  /\ calm' = (calm /\ Expected)
  /\ UNCHANGED <<pc, ending, break, quit, xml, freed, svc, told, writes>>

HangUpBreaks ==
  /\ pc # "exit" /\ hup
  /\ break' = TRUE /\ hup' = FALSE
  /\ UNCHANGED <<pc, ending, reload, quit, calm, xml, freed, svc, told, writes>>

-----------------------------------------------------------------------------
(* main: another turn as long as a reload is asked for.                    *)

Goto(l) == pc' = l

TestReload ==
  /\ pc = "test"
  /\ Goto(IF reload THEN "main" ELSE "free_files")
  /\ ending' = ~reload
  /\ UNCHANGED <<flags, xml, freed, svc, told, writes>>

EnterMain ==
  /\ pc = "main"
  /\ reload' = FALSE
  /\ calm' = ~(break \/ hup)
  /\ Goto("open_xml")
  /\ UNCHANGED <<ending, break, hup, quit, xml, freed, svc, told, writes>>

(* Loading gives up: workload_main returns -1 and main destroys.           *)
GiveUp == Goto("free_files") /\ ending' = TRUE

OpenXml ==
  /\ pc = "open_xml"
  /\ \E found \in Configs :
       IF xml \/ ~found
       THEN GiveUp /\ calm' = (calm /\ found) /\ UNCHANGED xml
       ELSE xml' = TRUE /\ Goto("add") /\ UNCHANGED <<ending, calm>>
  /\ UNCHANGED <<break, reload, hup, quit, freed, svc, told, writes>>

(* Disks and files are added, and each file assigned to a disk; the break  *)
(* flag is looked at before each of them.                                  *)
AddAndAssign ==
  /\ pc = "add"
  /\ \/ break /\ GiveUp /\ UNCHANGED <<freed, todo, whole, short>>
     \/ /\ ~break
        /\ \E home \in [Files -> Disks] :
             todo' = [d \in Disks |-> {f \in Files : home[f] = d}]
        /\ freed' = {} /\ whole' = {} /\ short' = {}
        /\ Goto("start")
        /\ UNCHANGED ending
  /\ UNCHANGED <<flags, xml, svc, told, cur, onDisk, ready, errors>>

(* The disk services are opened, one after the other; nobody checks that   *)
(* they could be.                                                          *)
StartDisks ==
  /\ pc = "start"
  /\ ready' = 0 /\ errors' = 0
  /\ \E S \in SUBSET Disks :
       /\ S = Disks \/ "open" \in Failures
       /\ svc' = [s \in Services |-> IF s \in S THEN "path" ELSE svc[s]]
       /\ calm' = (calm /\ S = Disks)
  /\ Goto("wait")
  /\ UNCHANGED <<ending, break, reload, hup, quit, xml, freed, told, todo, cur, whole,
                 short, onDisk>>

(* Mutant: the loader waits for its disk services without looking at break.*)
WaitBreak_Ignores ==
  /\ pc = "wait"
  /\ Goto("poll")
  /\ UNCHANGED <<ending, flags, xml, freed, svc, told, writes>>

(* Then the loader waits, looking at break and, under the lock, at the two *)
(* counts in turn.                                                         *)
WaitBreak ==
  /\ pc = "wait"
  /\ IF break THEN GiveUp ELSE Goto("poll") /\ UNCHANGED ending
  /\ UNCHANGED <<flags, xml, freed, svc, told, writes>>

(* Mutant: any disk service that is ready will do.                         *)
WaitCounts_Any ==
  /\ pc = "poll"
  /\ \/ errors > 0 /\ GiveUp
     \/ /\ errors = 0
        /\ Goto(IF ready > 0 THEN "loaded" ELSE "wait")
        /\ UNCHANGED ending
  /\ UNCHANGED <<flags, xml, freed, svc, told, writes>>

WaitCounts ==
  /\ pc = "poll"
  /\ \/ errors > 0 /\ GiveUp
     \/ /\ errors = 0
        /\ Goto(IF ready >= Cardinality(Disks) THEN "loaded" ELSE "wait")
        /\ UNCHANGED ending
  /\ UNCHANGED <<flags, xml, freed, svc, told, writes>>

(* Mutant: workload_main does not look at break after loading.             *)
CheckLoaded_IgnoresBreak ==
  /\ pc = "loaded"
  /\ Goto("open")
  /\ UNCHANGED <<ending, flags, xml, freed, svc, told, writes>>

(* Told to break meanwhile, workload_main returns 0 and unloads nothing.   *)
CheckLoaded ==
  /\ pc = "loaded"
  /\ Goto(IF break THEN "clear" ELSE "open")
  /\ UNCHANGED <<ending, flags, xml, freed, svc, told, writes>>

OpenAccesses ==
  /\ pc = "open"
  /\ \E S \in SUBSET Accesses :
       /\ S = Accesses \/ "open" \in Failures
       /\ svc' = [s \in Services |-> IF s \in S THEN "serve" ELSE svc[s]]
  /\ Goto("run")
  /\ UNCHANGED <<ending, flags, xml, freed, told, writes>>

(* The main loop takes q, Q and the end of the duration ...                *)
Quit ==
  /\ Requests \cap {"q", "duration"} # {} /\ pc = "run"
  /\ break' = TRUE /\ quit' = TRUE
  /\ calm' = (calm /\ Expected)
  /\ UNCHANGED <<pc, ending, reload, hup, xml, freed, svc, told, writes>>

Restart ==
  /\ "Q" \in Requests /\ pc = "run"
  /\ reload' = TRUE /\ break' = TRUE
  /\ calm' = (calm /\ Expected)
  /\ UNCHANGED <<pc, ending, hup, quit, xml, freed, svc, told, writes>>

(* ... until it sees break.                                                *)
LeaveRun ==
  /\ pc = "run" /\ break
  /\ Goto("close")
  /\ UNCHANGED <<ending, flags, xml, freed, svc, told, writes>>

-----------------------------------------------------------------------------
(* Closing services: access services before unloading, disk services when  *)
(* their disk is freed.                                                    *)

MayClose(s) == \/ pc = "close" /\ s \in Accesses
               \/ pc = "free_disks" /\ s \in Disks

TellService(s) ==
  /\ MayClose(s) /\ svc[s] # "none"
  /\ told = None
  /\ told' = s
  /\ UNCHANGED <<pc, ending, flags, xml, freed, svc, writes>>

ServiceClosed(s) ==
  /\ told = s /\ svc[s] = "returned"
  /\ svc' = [svc EXCEPT ![s] = "none"]
  /\ told' = None
  /\ UNCHANGED <<pc, ending, flags, xml, freed, writes>>

AccessesClosed ==
  /\ pc = "close" /\ told = None
  /\ \A a \in Accesses : svc[a] = "none"
  /\ Goto("free_files")
  /\ UNCHANGED <<ending, flags, xml, freed, svc, told, writes>>

(* workload_unload_config: the files first.  workload_free_file frees the  *)
(* first file only, taking it off its disk's list; the others leak.        *)
FreeFiles ==
  /\ pc = "free_files"
  /\ freed' = {Head}
  /\ todo' = [d \in Disks |-> todo[d] \ {Head}]
  /\ Goto("free_disks")
  /\ UNCHANGED <<ending, flags, xml, svc, told, cur, whole, short, onDisk, ready, errors>>

(* Mutant: the configuration stays open across a restart.                  *)
Unloaded_KeepsXml ==
  /\ pc = "free_disks"
  /\ \A d \in Disks : svc[d] = "none"
  /\ ready' = 0 /\ errors' = 0
  /\ Goto(IF ending THEN "exit" ELSE "clear")
  /\ UNCHANGED <<ending, flags, xml, freed, svc, told, todo, cur, whole, short, onDisk>>

Unloaded ==
  /\ pc = "free_disks"
  /\ \A d \in Disks : svc[d] = "none"
  /\ ready' = 0 /\ errors' = 0
  /\ xml' = FALSE
  /\ Goto(IF ending THEN "exit" ELSE "clear")
  /\ UNCHANGED <<ending, flags, freed, svc, told, todo, cur, whole, short, onDisk>>

(* The end of a turn: the launch loop clears break, whoever has set it.    *)
ClearBreak ==
  /\ pc = "clear"
  /\ break' = FALSE
  /\ Goto("test")
  /\ UNCHANGED <<ending, reload, hup, quit, calm, xml, freed, svc, told, writes>>

-----------------------------------------------------------------------------
(* The services.                                                           *)

At(s, l) == svc' = [svc EXCEPT ![s] = l]

(* An access service returns when the program breaks or it is told to.     *)
AccessReturns(a) ==
  /\ svc[a] = "serve"
  /\ break \/ told = a
  /\ At(a, "returned")
  /\ UNCHANGED <<pc, ending, flags, xml, freed, told, writes>>

(* Mutant: a directory that is not there goes unreported.                  *)
CheckPath_Silent(d) ==
  /\ svc[d] = "path"
  /\ \/ At(d, "next") /\ UNCHANGED calm
     \/ "path" \in Failures /\ calm' = FALSE /\ At(d, "returned")
  /\ UNCHANGED <<pc, ending, break, reload, hup, quit, xml, freed, told, writes>>

(* A disk service checks or makes its directory.                           *)
CheckPath(d) ==
  /\ svc[d] = "path"
  /\ \/ At(d, "next") /\ UNCHANGED <<errors, calm>>
     \/ /\ "path" \in Failures
        /\ errors' = errors + 1
        /\ calm' = FALSE
        /\ At(d, "returned")
  /\ UNCHANGED <<pc, ending, break, reload, hup, quit, xml, freed, told, todo, cur, whole, short,
                 onDisk, ready>>

(* The next file of the list, until the end or until it is told to stop.   *)
NextFile(d) ==
  /\ svc[d] = "next"
  /\ \/ /\ todo[d] = {} \/ told = d
        /\ cur' = [cur EXCEPT ![d] = None]
        /\ At(d, "done")
        /\ UNCHANGED todo
     \/ /\ told # d
        /\ \E f \in todo[d] :
             /\ cur' = [cur EXCEPT ![d] = f]
             /\ todo' = [todo EXCEPT ![d] = @ \ {f}]
        /\ At(d, "create")
  /\ UNCHANGED <<pc, ending, flags, xml, freed, told, whole, short, onDisk, ready, errors>>

(* Mutant: after a file that cannot be made, the service tries the next.   *)
CreateFile_GoesOn(d) ==
  /\ svc[d] = "create"
  /\ \/ /\ onDisk' = [onDisk EXCEPT ![d] = @ \cup {cur[d]}]
        /\ At(d, "write")
        /\ UNCHANGED <<errors, calm>>
     \/ /\ "file" \in Failures
        /\ errors' = errors + 1
        /\ calm' = FALSE
        /\ At(d, "next")
        /\ UNCHANGED onDisk
  /\ UNCHANGED <<pc, ending, break, reload, hup, quit, xml, freed, told, todo, cur, whole, short,
                 ready>>

(* Create the file, or cut what is there to nothing and write it anew.     *)
CreateFile(d) ==
  /\ svc[d] = "create"
  /\ \/ /\ onDisk' = [onDisk EXCEPT ![d] = @ \cup {cur[d]}]
        /\ At(d, "write")
        /\ UNCHANGED <<cur, errors, calm>>
     \/ /\ "file" \in Failures
        /\ errors' = errors + 1
        /\ calm' = FALSE
        /\ cur' = [cur EXCEPT ![d] = None]
        /\ At(d, "done")
        /\ UNCHANGED onDisk
  /\ UNCHANGED <<pc, ending, break, reload, hup, quit, xml, freed, told, todo, whole, short, ready>>

(* Writing stops short when the program breaks, and when a write fails:    *)
(* that is no error, and the file counts as written.                       *)
WriteFile(d) ==
  /\ svc[d] = "write"
  /\ \/ whole' = whole \cup {cur[d]} /\ UNCHANGED short
     \/ break /\ UNCHANGED <<whole, short>>
     \/ "write" \in Failures /\ short' = short \cup {cur[d]} /\ UNCHANGED whole
  /\ At(d, "next")
  /\ UNCHANGED <<pc, ending, flags, xml, freed, told, todo, cur, onDisk, ready, errors>>

(* Also after an error the service counts itself ready.                    *)
ReportReady(d) ==
  /\ svc[d] = "done"
  /\ ready' = ready + 1
  /\ At(d, "ready")
  /\ UNCHANGED <<pc, ending, flags, xml, freed, told, todo, cur, whole, short, onDisk, errors>>

(* Mutant: the directory is removed only if the program still runs.        *)
DiskReturns_KeepsDir(d) ==
  /\ svc[d] = "ready" /\ told = d
  /\ onDisk' = IF d \in Existing \/ break THEN onDisk ELSE [onDisk EXCEPT ![d] = {}]
  /\ At(d, "returned")
  /\ UNCHANGED <<pc, ending, flags, xml, freed, told, todo, cur, whole, short, ready, errors>>

(* Told to stop, it deletes the directory, with all in it, if it made it.  *)
DiskReturns(d) ==
  /\ svc[d] = "ready" /\ told = d
  /\ onDisk' = IF d \in Existing THEN onDisk ELSE [onDisk EXCEPT ![d] = {}]
  /\ At(d, "returned")
  /\ UNCHANGED <<pc, ending, flags, xml, freed, told, todo, cur, whole, short, ready, errors>>

-----------------------------------------------------------------------------
MainStep ==
  \/ TestReload \/ EnterMain \/ OpenXml \/ AddAndAssign \/ StartDisks
  \/ WaitBreak \/ WaitCounts \/ CheckLoaded \/ OpenAccesses \/ LeaveRun
  \/ \E s \in Services : TellService(s) \/ ServiceClosed(s)
  \/ AccessesClosed \/ FreeFiles \/ Unloaded \/ ClearBreak

DiskStep(d) ==
  \/ CheckPath(d) \/ NextFile(d) \/ CreateFile(d) \/ WriteFile(d)
  \/ ReportReady(d) \/ DiskReturns(d)

Request == Terminate \/ HangUp \/ Quit \/ Restart

Exited == pc = "exit" /\ UNCHANGED vars

Next ==
  \/ MainStep
  \/ \E d \in Disks : pc # "exit" /\ DiskStep(d)
  \/ \E a \in Accesses : pc # "exit" /\ AccessReturns(a)
  \/ HangUpBreaks
  \/ Request
  \/ Exited

Spec == Init /\ [][Next]_vars

(* Every thread keeps being scheduled, a handler finishes, and whoever     *)
(* sends commands pauses long enough for the main loop to see break.       *)
Fairness ==
  /\ WF_vars(MainStep)
  /\ \A d \in Disks : WF_vars(pc # "exit" /\ DiskStep(d))
  /\ \A a \in Accesses : WF_vars(pc # "exit" /\ AccessReturns(a))
  /\ WF_vars(HangUpBreaks)

FairSpec == Spec /\ Fairness

-----------------------------------------------------------------------------
(* Every variable keeps its type.                                          *)
TypeOK ==
  /\ pc \in {"test", "main", "open_xml", "add", "start", "wait", "poll", "loaded", "open", "run",
             "close", "free_files", "free_disks", "clear", "exit"}
  /\ {ending, break, reload, hup, quit, calm, xml} \subseteq BOOLEAN
  /\ freed \subseteq {Head}
  /\ svc \in [Services -> {"none", "path", "next", "create", "write", "done", "ready", "serve",
                           "returned"}]
  /\ told \in Services \cup {None}
  /\ todo \in [Disks -> SUBSET Files]
  /\ cur \in [Disks -> Files \cup {None}]
  /\ whole \subseteq Files /\ short \subseteq Files
  /\ onDisk \in [Disks -> SUBSET Files]
  /\ ready \in 0 .. Cardinality(Disks)
  /\ errors \in 0 .. Cardinality(Disks)

(* The main loop runs on files of this turn: whatever breaks or restarts   *)
(* while the disk services write, and whichever of them fails to make its  *)
(* directory or a file, workload_main only goes on (workload.c 988-989,    *)
(* workload_config.c 695-723) when each file was written to its end.  The  *)
(* exceptions are the files whose own write failed: that break of the loop *)
(* (workload_storage.c 110) is counted as a file written, and such a file  *)
(* stays as long as it got.                                                *)
RunsOnWrittenFiles == pc \in {"open", "run"} => Files \ whole \subseteq short

(* Nobody works with a freed file: unload_config frees the files before it *)
(* closes the disk services (workload_config.c 798-802), so it counts on   *)
(* them being done, and on the access services being closed.  With a break *)
(* in the load or a failing disk service it counts in vain.                *)
FilesOutliveUse ==
  calm => /\ \A d \in Disks : svc[d] \in {"next", "create", "write"} => cur[d] \notin freed
          /\ freed # {} => \A a \in Accesses : svc[a] # "serve"

(* A directory the program made is gone when it exits (workload_storage.c  *)
(* 140-145), after restarts, failed loads and breaks alike.                *)
RemovesMadeDirs == pc = "exit" => \A d \in Disks \ Existing : onDisk[d] = {}

(* Loading ends: the loader does not wait for disk services for ever, once *)
(* all of them are open (it does not look at what open_service returned,   *)
(* workload_config.c 688).                                                 *)
LoadEnds ==
  pc = "wait" /\ (\A d \in Disks : svc[d] # "none") ~> pc \notin {"wait", "poll"}

(* Asked to end (main.c 44-49 "break signal", q, README.md 201 duration),  *)
(* with no reload asked for before or after, the program exits, also from  *)
(* a load that waits for a disk service that could not be opened.          *)
EndsWhenAsked == quit /\ break /\ ~reload ~> pc = "exit" \/ reload

(* Asked to reload (main.c 50-54 "reload signal", Q), it runs again ...    *)
RestartsWhenAsked == reload /\ ~quit ~> pc = "run" /\ ~reload

(* ... if the request comes in the main loop, and what is left of one turn *)
(* does not stand in the way of the next (workload_config.c 757).          *)
RestartsWhenCalm == reload /\ calm /\ ~quit ~> (pc = "run" /\ ~reload) \/ ~calm
=============================================================================
