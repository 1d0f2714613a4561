# workload in TLA+

`workload` loads disks with random file accesses.  It spreads temporary files over the directories
of a configuration (the *disks*), runs a service thread per disk and a number of *access services*
that read and write the files, and, if asked to, keeps moving the most used files to the first disks
while they are being accessed.  It is steered by signals, keys and UDP packets and may be restarted
in place.  This directory holds TLA+ models of it, the TLC runs that check them on small instances,
and proofs for instances of any size.

Line numbers below are those of `source/`.

## Inventory

| component | source | state it keeps | operations | correct when |
|---|---|---|---|---|
| service threads | `service.c` | per service a heap context: lock, command, status | open (polls until started), acknowledge, break, close (polls until stopped) | a handle means that the handler acknowledged; the context outlives its thread; open and close return |
| access services | `workload.c` 928-974, `workload_access.c` | the count of each file, the order by use (`m_file_sorted`, `m_index`), the target disk of each file | pick, lock, access, count, re-sort, compute targets; reset of the counts | an accessed file stays where it is; the order is by use; no deadlock |
| relocation | `workload_relocate.c`, `workload_file.c` 154-331 | disk of each file, the created flag, the files on the disks | one pass over all files; a move | no file is lost, none is deleted that is not the program's; every file gets to the disk its use entitles it to |
| files and disks | `workload_file.c`, `workload_storage.c` | the lists of files and disks, the list of files of each disk | create, assign, free; the disk service that writes the files and removes the directory it made | the files are complete before they are accessed; each list holds its disk's files; what was made is removed; nothing is used after being freed |
| launch loop and signals | `main.c` | the break and reload flags | signal handler, launch loop | asked to end, it exits; asked to reload, it runs again |
| main loop, commands | `workload.c` | relocate, pause, ratios, duration, time | one action per command character; UDP packets; keys | a command takes effect and is answered; break ends it |
| configuration | `workload_config.c` | `m_xml`, `m_cfg`, counts of ready and failed disk services | find, load, assign files to disks, unload | a load ends, and ends well only with every file in place; files are spread as the method says |
| control client | `workload_control.c` | a socket | one packet out, one reply back, 16 s each | a reply means that the command was done |
| launcher | `process.c` | a child process | fork, wait, fork again after a fatal signal | the program is restarted after a crash and only then; never do two of them run |
| database | `db.c`, `workload_db.c` | a row per file and disk, the inserted flags | insert or update under `m_reassign_lock` | a row is inserted once and follows the counts |
| files, directories, sockets | `io.c` | none | poll, read, write, send, receive with limits; recursive mkdir and delete | a directory is deleted only by who made it; what was made is deleted, though services share parents and a crash leaves things behind |
| timer, random, math | `timer.c`, `random.c`, `math.c` | time stamp, seed | time in ms, random bytes, greatest common measure | time never runs back; the measure divides both numbers |
| screen | `workload_view.c`, `vt.c` | screen size | walks the disks' lists under `m_reassign_lock`, draws | the walk ends, although files are re-linked meanwhile |
| log, strings, xml | `log.c`, `string.c`, `xml.c`, `ezxml.c` | log mode | formatting, parsing | output and input only |

How they interact: `main` enters `workload_main` for each turn of its loop; that loads the
configuration, which opens a disk service per disk and waits for them through two counters under
`m_reassign_lock`; then it opens the access services and runs the main loop, which handles time,
screen, UDP and keys.  Main thread and services share the flags (written by signal handlers in any
thread), the files under their `m_access_lock`, and ranks, counts and targets under
`m_reassign_lock`.  Leaving the main loop closes the access services, then unloads: frees the files,
closes the disk services, frees the disks.  With `--launcher` all this happens in a child of a
process that starts another one when it crashes; the two share what `fork` copies and the file
system.

What is hard here, and what the properties aim at: threads that are never joined and meet only in
two words; two locks that cover different fields of one structure; a flag whose meaning is "end",
"restart" or "the load failed" depending on when it comes; a loader that waits for threads that fail
halfway; files moved back and forth over older copies of themselves; lists that are re-linked under
locks that do not protect them; directories made and deleted side by side by services that each know
only of their own. `PROJECT.json` lists each such place under `hazards`.

## Modules

| module | models |
|---|---|
| `ServiceContract` | what a caller of `open_service`/`close_service` may count on, without locks and polling |
| `Service` | `service.c`: every critical section of caller and thread; refines `ServiceContract` (`KeepsContract`) |
| `Relocation` | access services, ranking, passes, moves and relocation commands against each other |
| `FileLists` | the number of files and disks, the three ways to assign files, the lists of the disks, store by store, against the screen |
| `Lifecycle` | launch loop, signals, load, disk services, main loop, close and unload, over restarts |
| `Control` | control clients, datagrams, the packets, keys and commands of the main loop, drawing a file by ratio |
| `Database` | the tables that mirror files and disks, against moves, accesses and count resets |
| `Launcher` | the monitor that forks the program and forks it again, and how a program ends |
| `Directories` | disk services making, filling and deleting their directories on one file system |
| `Restarts` | composes `Launcher` and `Directories`: the program under its launcher, over crashes |
| `ServiceProofs`, `RelocationProofs`, `FileListsProofs`, `LifecycleProofs`, `ControlProofs`, `DatabaseProofs`, `RestartsProofs`, `RestartsTreeProofs` | proofs |
| `MCService`, `MCRelocation`, `MCFileLists`, `MCLifecycle`, `MCControl`, `MCDatabase`, `MCRestarts` | instances for TLC |

**Service.**  `ctx`, `command`, `status` are the heap context and its words; `caller` and `thread`
the program counters of the two sides.  An action is one critical section on `m_lock`: between two
of them the code touches nothing shared.  `PollOpened` and `PollClosed` are one turn of the wait
loops (231-258, 293-318) and free the context where the code does; the thread is detached and the
actions that still lock its context are those with `thread # "none"`.  The handler is open: it
acknowledges or returns; `workload_error_service`, which no handler calls, is left out (close would
take the status it stores for stopped, `service.c` 301, and free the context under the thread).

**Relocation.**  `diskOf`, `targetOf`, `created`, `sorted`, `index`, `count` are `m_assign_disk`,
`m_reassign_disk`, the created flag, `m_file_sorted`, `m_index`, and read plus write count of each
file; `copies` is what lies on the disks and `made` the history of paths that moves created. The
ranking loop after an access (130-144) is two actions per rank, read and write, because it reads
`m_assign_disk` without the file's lock; the pass clears `m_reassign_disk` in an action of its own,
because it does so without `m_reassign_lock`.  A move (`MoveFile`) is one action: it runs under the
file's lock, and only the file's own paths are touched (the disk's list is the matter of
`FileLists`); linking the file to its new disk and stamping it follow as separate actions.  Files
are accessed through their disk (`AccessFile`) while their lock is held.  Random choices of a file,
failing I/O and idle (fake-off) disks are nondeterministic.

**FileLists.**  `head`, `files`, `next`, `prev` are `m_assign_file`, `m_assign_file_count` and the
links of the files.  Loading takes a configuration (what the options and the XML say) to a number of
files and disks (`FileCount`, `DiskCount`), assigns file after file by the method (`AssignOrdered`,
`AssignEven`, `AssignRandom`), and adds up the counts (`SetNextFileIndex`).  A move is one action
per store or branch, from `UnlinkFromNext` to `CountIn`, because the moved file's lock protects none
of the other files and disks it writes; only its time stamps wait for `m_reassign_lock` (`EndMove`),
which the screen holds while it walks (`BeginDraw`, `WalkFile`, `DrawnDisk`).  Why and where files
are moved is the matter of `Relocation`: here any file may be moved anywhere.  A count changes in
one step; that one of two changes made at once can be lost in the code (`workload_file.c` 179, 301)
is left out, as nothing is claimed of the counts of two movers.

**Lifecycle.**  `break`, `reload` are the two flags; SIGHUP's handler writes them in two steps and
may run in another thread.  `pc` walks through `main`, `workload_main`, the load, the main loop and
the unload; `todo`, `cur`, `whole`, `onDisk` are the files each disk service has yet to write,
writes, has written to their end, and the file system.  A service is opened and closed as
`ServiceContract` says: `TellService` and `ServiceClosed` are the begin and the end of
`close_service`, with nothing else of the main thread between them.  A write that fails or comes
back short ends the loop (`workload_storage.c` 110), and the code counts the file as written without
an error: `WriteFile` goes on as after a whole file, and `short` remembers the file, which is then
not in `whole`.  `quit`, `short`, `freed` and `calm` are history:
a turn is calm while nothing failed in it and each request came in the main loop, with none pending
(`Expected`).

**Control.** `client` and `packet` are what each sender does and sends, once; `inFlight`, `queue`
and `replies` the datagrams on their way, in the program's socket, and on their way back. A lost
datagram is one that stays in flight for ever; those in flight arrive in any order. The socket is
opened by `workload_init` and outlives the turns of the launch loop, so `queue` does too. A line is
a code and, if the text has one, the number `atoi` makes of it; a reply is the line and what it
tells (`Contents`), its wording is left out. `Receive`, `CheckHeader`, `HandleLine` and
`PacketHandled` are the loops of `workload_udp`, where `HandleLine` is `workload_cmd` with the reply
sent; `resBuffer` is the static buffer it writes to. Each command is an operator on the flags and
ratios; those that take `m_reassign_lock` wait while a file is drawn (`Unlocked`). `LookAtPause` to
`UseFile` are an access service drawing a file: the two ratios are read one after the other, the
right one again at each halving, while the commands `l` and `r` write them without a lock. Numbers
are those of C: a ratio of the configuration is what `atoi` returns cast to unsigned, where only 0
is refused (`Ratio`), and then reduced (`Load`), the sum wraps (`Unsigned`), and a remainder of a
division by 0 is a SIGFPE, whose handler ends the program (`DivideByZero`). `negative` is history:
whether this turn's configuration has a negative ratio. Loading (`Lifecycle`) and passes and counts
(`Relocation`) are single steps here that end well; the flags `break`, `reload`, `relocate` and
`pause` are the ones those modules have.

**Database.**  `row` are the tables, `inserted` the inserted flags, `reading` says whether a process
started with `--dump-disk` or `--dump-file` reads them.  A call of `workload_update_db`
(`UpdateFile`, `UpdateBoth`) is a list of rows still to be written; `Format` looks at the file or
disk and makes the statement, `Succeed` and `Fail` execute it, and the calls made under one hold of
`m_reassign_lock` are a queue (`calls`).  So a move, which changes a file's disk under the file's
own lock (`Unlink`, `Link`), can come between looking and writing.  `Fail` has the code's two
outcomes: with MySQL the call ends; with SQLite, whose error codes are not -1, it goes on as if the
row were there.  Ranks and targets are left out (`Relocation` has them), the first write of a disk
service is an access, and the disk service's loading is not repeated from `Lifecycle`. MySQL is
compiled in only if asked for (`db.c` 24); the default build has SQLite.

**Launcher, Directories, Restarts.**  `launcher` is where the monitor is, `state` what each child
process is: running, stopped, dead and not yet waited for.  When `fork` fails the monitor returns
into `main` and becomes the program itself (`ForkFails`).  Of what the signal handlers do there are
the break flags, `stop` of the monitor and `break` of the program: a child begins with a copy of the
monitor's.  `tree` is the file system.  A disk service walks up from its directory to the first one
that is there (`StatDir`), makes what is missing on the way down (`MakeDir`), remembers the first it
made (`made`), and in the end deletes that and all that is in it (`ReadDir`, `Remove`), one system
call per action: other services work on the same parents meanwhile.  `origin`, `found` and `calm`
are history: the directories before the first program, those at the begin of the turn, and whether
since then nothing failed and no load was broken off.  `Restarts` conjoins the two modules' actions:
a step of the program needs a process that runs it (`Runnable`), and its death at any step (`Die`)
leaves only `tree`.

## Runs

| run | instance | question |
|---|---|---|
| `service_safe` | 3 services, fair | context, handle, contract, both waits end |
| `relocation_main` | 2 files, 2 disks, 2 access services and the main thread, commands, failing moves, fair | no move under an access; every service ends after break |
| `relocation_settled` | 3 files, 2 disks, 1 access service, count resets, a leftover file | no file lost, none deleted that is not the program's own; order by use; files get where they belong |
| `filelists_lists` | every configuration of up to 3 files and 3 disks, each method, 1 mover and the screen, fair | files are spread evenly; with that one mover, lists and counts match the files and the screen's walk ends |
| `lifecycle_files` | 2 disks (one directory there before), 2 access services, 2 files, every request at any time, failing paths, files, writes, opens, missing configuration, fair | every file run on was written to its end, unless its own write failed; made directories are removed; no use of freed files; loading ends; asked to end, it exits; asked to reload, it runs again |
| `control_main` | 2 senders, 1 access service, 3 files, restarts, packets of 1 to 4 lines, keys, configurations with and without a negative ratio, fair | an answer is about the client's own line; what is queued is handled; a drawing stays in range; without negative ratios it never divides by 0 |
| `database_rows` | 1 file, 2 disks, 1 access service and the main thread, both backends, failing statements, dumps, restarts, fair | rows follow files and disks, the lock is given back |
| `restarts_main` | 2 disks in one directory, there before or not, with `create` or not, a failing mkdir, signals and a crash at any step, a failing fork, fair | one program at a time; nothing deleted that was there before; a run only on what is there; nothing left after a calm turn; a crash leads to another run |
| `relocation_lost_target` | 3 files, 3 disks, 2 access services | **violated**: a target computed during another thread's pass is cleared |
| `relocation_stale_copy` | 2 files, 2 disks | **violated**: the first move of a file is a copy |
| `lifecycle_lost_restart` | SIGHUP at any time | **violated**: during a load it ends the program |
| `filelists_race` | 3 files, 2 disks, 2 movers | **violated**: two moves off one disk at once leave a list that does not hold the disk's files |

The violated properties state what README, header or comments of the repository say; `PROJECT.json`
quotes them under `findings`. Two of them, `Settled` and `ListsMatch`, hold in another run, with a
single service at work: what breaks them is the second. Every property of a passing run has a
mutant: a plausible bug of the mapped code, next to the definition it changes, that breaks it.

More places where text and code differ have no run, as they need no state: without a configuration
`README.md` line 31 promises built-in settings, while `workload_config.c` 779 fails the load; the
client's help shows `--ip=<server ip>` and `--cmd=...` (`workload_control.c` 222-223), which
`getopt` rejects, as both options are declared without an argument (136-137); `README.md` 202 names
`even` as the default method, while the code assigns at random if neither option nor attribute says
otherwise (`workload_config.c` 303-318); `README.md` 199 names 7:1 as the default ratio, while the
code takes 1:1; and the `<name>` of a disk is looked for inside itself (`workload_config.c`
475-476), so that it is always the last part of the path.

*Bounds.* `MaxCount` (2 or 3; 1 in `Database`, where an old count is to differ from a new one)
bounds the accesses counted per file: a tie, an overtaking and an overtaking back fit in it; it
stands in the guards of `AccessFile` and `CountAccess` alone. Two files on two disks are enough for
a move there and back over an older copy, three files for a climb over two ranks, three disks for a
target that changes between two passes. Two services of a kind and the main thread make every pair
of racing actors; services do not interact in `Service`, and three show it. Restarts are not
bounded. In `Lifecycle` two files on two disks give one disk service two files in a row or none. In
`FileLists` three files are the fewest of which one has two neighbours, and three files on two disks
the fewest that are not spread evenly. In `Control`
two senders show one's reply taken for the other's; `QueueSize` 2 holds both their packets; `IntMax`
3 and ratios up to it make the sum reach its top, 1 and -1 wrap it to 0; three files need two
halvings, one of them uneven. In `Database` one file is enough: what a call writes depends on one
file and its disk, and moves of a file exclude each other by its lock. In `Restarts` two disks in
one missing directory race for their parent in every way: who makes it, who finds it made, who
deletes it under the other; one crash (`MaxCrashes`) at any step leaves anything a crash may leave.
One process id suffices for two programs, as the monitor becomes one itself when `fork` fails.

*Fairness.* Weak fairness of each thread's steps: threads are scheduled, and sections under a lock
end. A waiting step is enabled only when the lock is free; no strong fairness of locks is needed in
`ServicesStop`, since the services do not start new turns after break. `SF(StopMain)` in
`Relocation` and weak fairness of the main thread in `Lifecycle` say that whoever sends commands
pauses: the loop of `workload_udp` returns to the main loop only when no packet came for 10 ms. In
`Service` handlers acknowledge (their first statement: `workload.c` 952, `workload_storage.c` 43)
and return when told to. In `Control` the main thread gets `m_reassign_lock` some time although a
service takes it again and again (`SF(MainThread)`: services do I/O between two drawings), and a
drawing that has begun ends. No fairness delivers a datagram or makes a client wait. In `Database` a
dump ends (`WF(DumpEnds)`), and a statement that is retried meets a moment without one
(`SF(Write)`); without that the program waits for its readers, `m_reassign_lock` held. In
`FileLists` the screen's walk goes on. In `Restarts` the monitor is scheduled (`WF` of
`Start` and `Watch`), and a stopped child is continued some time; the steps of the program are
strongly fair, as they are disabled whenever it is stopped. No fairness makes anybody stop, kill or
tell a process.

*Preconditions that matter.* `Settled` holds with one access service and without failing moves: with
two it is the finding `relocation_lost_target`. `ListsMatch` and `DrawingEnds` are claimed for one
mover, and 16 access threads are the default. With two, `ListsMatch` is the finding
`filelists_race`, and what that race leaves breaks `DrawingEnds` later: a disk's `m_assign_file`
names a file that is on another disk, a move in front of it closes the list to a circle, and the
screen walks along it for ever with `m_reassign_lock` held, so that all services wait and neither
break nor the duration is looked at again (`workload.c` 1011-1032). Two files on two disks are
enough, all threads scheduled fairly. The theorems about `Settled` and `ListsMatch` state just that.
`RunsOnWrittenFiles` excepts the files whose own write failed, which the code does not notice.
`FilesOutliveUse` and `RestartsWhenCalm` speak of calm turns: when somebody breaks a load or a disk
service fails, unloading frees the first file while its disk service may still be writing it
(`workload_config.c` 800), and a reload asked for during a load is the finding
`lifecycle_lost_restart`. `LoadEnds` holds when every disk service could be opened: the loader does
not look at what `open_service` returned (688) and waits until break. `EndsWhenAsked` holds while no
reload is asked for: the launch loop clears break whoever set it (`main.c` 119), so that a SIGTERM
next to a SIGHUP is lost. `LeavesTree` speaks of calm turns too: a service that is closed before it
was ready may fill what another one is deleting, and a crash leaves all there is. `CrashRestarts`
holds unless the monitor itself dies, and `ToldMonitorEnds` when it was told while no program ran:
told while it waits, it goes on waiting and only the next child learns of it. `PositiveRatiosDraw`
is about turns whose configuration has no negative ratio: the commands refuse such numbers, the
parser takes them (`workload_config.c` 226, 240) and so do the options (`workload.c` 159, 164), and
with 1 and -1 the first drawing divides by 0. `control_main` loads such a configuration too and
takes that step (`DivideByZero`).

`RowsFollow` and `DiskRowsFollow` leave out rows whose last statement failed (`spoiled`): the code
does not try again before the file's next access.

## Proofs

Checked by TLAPS, for every value of the constants that the modules' assumptions allow
(`RelocationAssumption`: nonempty files and disks, distinct names; `ControlAssumption`: well-formed
scripts and packets, ratios that are ints; `LifecycleAssumption`: finitely many disks;
`RestartsAssumption`: finitely many disks, what was there before is closed under parents, no file
has the path of a directory; `DatabaseAssumption`: numbers of files and disks, names of threads;
`FileListsAssumption`: numbers of files and disks, configurations with a disk).  Two theorems assume
more in their own statement, because without it they are false: `SettledByOneService` and
`ListsMatchOneMover`.

`Service`, for any set of services:
- `TypeCorrect`; `ContextOutlivesThread` (`[]NoUseAfterFree`); `HandleIsAcknowledged` (no run: the
  contract says it);
- `ImplementsContract`: every step is a step of `ServiceContract` or a stutter.

The inductive invariant is `TypeOK /\ \A s : InStep(s)`: for each place of the caller, where the
thread can be and with what status.  It is needed because the caller never sees the thread's place:
that freeing is safe follows only from *status stop comes with the thread's last critical section*.
Services do not interact, so a step is looked at for its own service (`StepKeepsInStep`,
`StepKeepsContract`) and the others stay (`OthersUntouched`).

`Relocation`, for any number of files, disks and threads, failing moves and leftovers included:
- `TypeCorrect`, which needs that the ranking finds a disk for each rank (`DiskForEachRank`): the
  counts at load cover all files;
- `LocksOrdered` (`[]LockOrder`, checked by no run: a thread that waits for a file's lock holds
  none) and `NoMoveUnderAccess` (`[]AccessedFileStays`);
- `NothingLost` (`[]NeverLost`), `OnlyMovedDeleted` (`DeletesOnlyMoved`, an action property) and
  `AlwaysRanked` (`[]RankedByUse`).

The inductive invariant is the conjunction of `TypeOK`, `AllAssigned`, `Locked`, `OnItsWay`,
`NeverLost`, `CreatedMeansMade` and `RankedByUse`. `Locked` says which lock a thread holds at each
place of its code; with it, two threads at moves hold different files.  `OnItsWay` says that only a
file between `MoveFile` and `LinkFile` is on no disk.  `CreatedMeansMade` ties the created flag to
the paths moves have made, so that what the next move deletes is one of them. `RankedByUse` is
inductive by itself over one access (`CountKeepsRanks`): the file climbs over exactly the files with
a smaller count (`Climbs`), and the files it passes go down one place.

- `SettledByOneService` (`[]Settled`) assumes `OneService`: one access service, count resets as the
  only commands, no failing move.

It needs what one turn leaves to the next (`Settling`).  A file is `Aimed` when its target is the
disk of its rank, or none if it is there, and `There` when it is there without a target.  While an
access is ranked, the files of the ranks before the one being looked at are aimed (`Aiming`); during
a pass those before the file it has come to are there and those after it still aimed (`Passing`). A
reset of the counts changes no rank, so it disturbs neither; a second service would.

`FileLists`, for any configuration, any number of files and disks:
- `TypeCorrect`, for any number of movers;
- `LoadedFilesSpread` (`[]SpreadOverDisks`);
- `ListsMatchOneMover` (`[]ListsMatch`), for at most one mover.

`Basic` says where the loader and each mover are, that the files left to draw in the even method are
distinct (`Permutes`), which files are on a disk (`Assigned`), and which are counted there
(`Counts`).  The types need it: that the counts add up to no more than the files keeps the index in
range.  The spread follows from `EqualShares`: after any number of files the first d disks together
have all of them, or d times files / disks rounded up.  The lists need `Chained`: each file has a
height such that a list leads from its highest file down, each file to the next lower (`Led`), which
excludes cycles without following links; each file leads back but for the one neighbour that a move
has between two stores (`LeadsBack`), and the mover knows what it has read and written so far
(`Links`).  From that the walk of the screen is followed file by file (`ChainsMatch`): after n steps
it is at the file with n higher ones.  Sums and walks are recursive functions; where an induction
would be due, the least counterexample is refuted (`LeastNumber`).

`Control`, for any senders, packets, keys, number of files and width of int:
- `TypeCorrect`, `PositiveRatiosSuffice` (`[]PositiveRatiosDraw`) and `DrawnIndexInRange`
  (`[]DrawsAFile`);
- `AnswersAreOwn` (`[]AnswerIsOwn`), `HeaderNeeded` (`[]HeaderGuards`, checked by no run) and
  `RestartsAreAsked` (`RestartsOnlyIfAsked`, an action property).

The inductive invariants are `InRange`, `Traced` and `Asked`.  `InRange` adds to the types that both
ratios are positive 32-bit numbers at all times, and ints in a turn whose configuration has no
negative one (`Ratios`: reducing makes them no larger, and the commands take positive ints only), so
that their unsigned sum does not wrap then (`NoWrap`), and that the range being halved lies within
the files, whatever the ratios are (`Draw`).  `Traced` says that a client that
has not sent anything is known to nobody (`Unknowns`), which is why choosing a packet cannot make an
earlier reply wrong; that every reply on its way, not only the one read, tells of a line done
(`Own`); and that past line one the packet begins with the header (`Guarded`).  `Asked` ties the
reload flag, past the launch loop, to a request of this turn.

`Lifecycle`, for any disks, access services and files, any requests and failures:
- `TypeCorrect`; `OnlyWrittenFiles` (`[]RunsOnWrittenFiles`); `MadeDirsRemoved`
  (`[]RemovesMadeDirs`); `NoFreedFileUsed` (`[]FilesOutliveUse`).

The inductive invariant `IInv` is needed because the loader sees two numbers only. `Counted` says
what they are: `ready` is the number of services that are ready, and those that may still add to
either count are not yet in it (cardinalities; hence the finitely many disks). `Written` says that,
unless there was an error or a break, each file that is neither written nor `short` is still with a
service that is not done (`Underway`): once as many are ready as there are disks, there is none.
`Resting` says that disk services work only while they are waited for or closed, and `CalmTurn` that
in a calm turn all are done by then, so that the free of the first file meets nobody at work on it.
`EmptyUnlessOpen` has a made directory empty, or gone, unless its service is in it.

`Restarts`, for any number of process ids and crashes, any disks and any parents they have in
common:
- `OneProgramOnly` (`[]OneProgram`) and `OnlyMadeDeleted` (`[]KeepsExisting`) in `RestartsProofs`;
- `LoadedOnDirs` (`[]RunsOnDirs`), `TurnLeavesTree` (`[]LeavesTree`) and `TypeCorrect` in
  `RestartsTreeProofs`.

`OnlyChild` says that no process but the monitor's child has a state of its own, and none has when
the monitor forks. `Kept` says that a service deletes at or below the first directory it made, which
was not there before, and nothing below such a one was (`NewBelowNew`).  `Starting` has the argument
of the load: while services start, only those that have failed delete anything, and one of those is
never ready; so as long as nobody failed, what a service found or made is there, and when as many
are ready as there are disks (`AllReady`), nobody failed. `TurnLeavesTree` needs more: that the tree
is closed upward at all times (`ClosedUpward`: a directory is made in one that is there, and one
with children cannot be deleted), that a service on its way down is below the first directory it
made (`MadeOnTheWay`), that in a calm turn the services are closed one by one when all are ready, so
that nobody fills what another one empties (`CalmClose`, `DepthFirst`), and the account of what is
there (`Accounted`): each directory that the turn did not find is below one that a service made and
will delete.

`TypeCorrect` needs that neither count passes the number of disks: each service that has yet to
report, or may yet fail, is still to be counted (`Counted`).

`Database`, for any numbers of files, disks and services:
- `TypeCorrect`; `FileRowsFollow` (`[]RowsFollow`); `DisksRowsFollow` (`[]DiskRowsFollow`).

What the tables say between two writers is not inductive: the invariant says what they say at any
time.  A row is up to date, or is among the rows of the calls still waiting (`FilesFollow`,
`DisksFollow`, `Pending`); the statement being carried out is up to date itself, unless its file was
taken by a move after the row was looked at, and then that move has yet to write it (`StmtCurrent`);
a count is cleared while its own row is still to be written (`Queued`). `Positions` says whose files
are on no disk, and `Fresh` that a load begins with nothing written.

Only model-checked: the liveness properties (`OpenCompletes`, `CloseCompletes`, `ServicesStop`,
`DrawingEnds`, `LoadEnds`, `EndsWhenAsked`, `RestartsWhenCalm`, `QueuedIsHandled`, `WritesEnd`,
`CrashRestarts`, `ToldMonitorEnds`): fairness and `ENABLED` are beyond this prover.  Every safety
property of the passing runs is the statement of a theorem.

## Not modelled

Log, strings, XML: output and parsing without influence on the rest; of the screen, all but its walk
along the disks' lists. `timer.c` and `random.c` are arithmetic and system calls without state that
others see: when a wait ends and what is drawn is chosen by the modules that wait and draw. The
contents and sizes of files, `sendfile` and partial copies: `Relocation` knows whether a path is
there, not what is in it; `Lifecycle` knows which writes failed, not how much they wrote. Modes of
files and directories, and with them the `umask` that each disk service sets to 0 and back. The
counters shown to the user, time stamps, the access interval and pause (they only delay a service).
The fatal signals and SIGQUIT end a process at once (`Launcher`); what else they print is left out.
Datagrams that the network duplicates. Names, paths and numbers of files in the database's rows, and
the lists in which results are collected and printed. A configuration without a usable disk, on
which the code divides by zero (`workload_config.c` 629).

## Plan

Done: the modules above, and proofs of every safety property that the passing runs check.  What
would come next:

1. That `Control`'s relocation commands are those of `Relocation`, and `Directories`' main thread
   that of `Lifecycle`, as refinements.
2. The contents of files (a partial copy, a write that fell short) as a state of each copy in
   `Relocation`.
3. What a lost update of a count can do when several services move files.
