----------------------------- MODULE Lifecycle -----------------------------
(***************************************************************************)
(* The life of a run: bulk_extractor.cpp from the scanner set to its       *)
(* destructor, with the phases of be20_api/scanner_set.cpp, the            *)
(* notification thread of notify_thread.cpp, the benchmark thread, and the *)
(* workers, of which only what they take, scan and write to the report     *)
(* matters here (ThreadPool and ScannerSet have the rest).                 *)
(***************************************************************************)
EXTENDS Startup

CONSTANTS
  Workers,      \* the pool's threads
  Pages,        \* the pages of the image
  Benchmark,    \* whether DEBUG_BENCHMARK is set
  Printing,     \* whether a path may be printed instead of a scan
  DiskMayFill,  \* whether writes may fail
  JoinMayTime   \* whether the wait for the scanners may time out

ASSUME LifeAssumption ==
  /\ IsFiniteSet(Workers) /\ IsFiniteSet(Pages)
  /\ {Benchmark, Printing, DiskMayFill, JoinMayTime} \subseteq BOOLEAN

VARIABLES
  unread,      \* the pages the reader has not read
  queue,       \* work units: <<page>>, or <<page, scanner>>
  at,          \* per worker: the unit it has, and whether it checked it
  disk_errors, \* whether a scanner's write failed
  writer,      \* the report: "none", "live" or "deleted"
  threaded,    \* whether there is a pool: -j 0 has none
  notifier,    \* where the notification thread is
  stopped,     \* notify_thread::phase is BE_PHASE_2
  benchmark,   \* where the benchmark thread is
  faults       \* history: "terminate", an exception left a thread;
               \* "deleted", "benchmark", the report was used after its
               \* deletion, by the benchmark thread; "unready", "printer",
               \* a scanner was run that is not initialised, to print

pool == <<unread, queue, at, disk_errors>>
threads == <<threaded, notifier, stopped, benchmark>>
vars == <<todo, result, startup, phase, told, pool, writer, threads, faults>>

StopNotifier == <<"stop", "notify", "join_notifier">>
Unwind == StopNotifier \o EarlyUnwind
GiveUp == StopNotifier \o <<"cleanup", "delete_writer">> \o Unwind
Program ==
  <<"commands", "recorders", "init2", "lists", "open", "launch", "freeze",
    "read", "join">> \o StopNotifier \o
  <<"shutdown", "recorders_shutdown", "cleanup", "last_report", "delete_writer">>
  \o Unwind

Idle == <<>>
Init ==
  /\ StartupInit(Program)
  /\ unread = Pages
  /\ queue = {}
  /\ at = [w \in Workers |-> Idle]
  /\ disk_errors = FALSE
  /\ writer = "none"
  /\ threaded \in BOOLEAN
  /\ notifier = "none"
  /\ stopped = FALSE
  /\ benchmark = "none"
  /\ faults = {}

-----------------------------------------------------------------------------
(* Main, up to the scan.                                                   *)

(* The image cannot be opened.                                             *)
OpenFails ==
  /\ Doing("open")
  /\ \E status \in {"1", "6", "7"} : Leave(status, EarlyUnwind)
  /\ UNCHANGED <<startup, phase, told, pool, writer, threads, faults>>

(* The path printer enters the scan phase and leaves main with 0.          *)
OpenForPrinting ==
  /\ Doing("open") /\ Printing
  /\ todo' = <<"print">> \o EarlyUnwind
  /\ phase' = "scan"
  /\ UNCHANGED <<result, startup, told, pool, writer, threads, faults>>

(* The path names a scanner, enabled or not, which is then run.            *)
PrintPath(s) ==
  /\ Doing("print")
  /\ Leave("0", EarlyUnwind)
  /\ faults' = faults \union (IF told[s] = <<>> THEN {"printer"} ELSE {})
  /\ UNCHANGED <<startup, phase, told, pool, writer, threads>>

Open ==
  /\ Doing("open")
  /\ writer' = "live"
  /\ Continue
  /\ UNCHANGED <<result, startup, phase, told, pool, threads, faults>>

(* The workers start, and the notification thread, or it does not.         *)
Launch ==
  /\ Doing("launch")
  /\ \/ notifier' \in {"none", "testing"} /\ Continue /\ UNCHANGED result
     \/ Leave("1", Unwind) /\ UNCHANGED notifier
  /\ UNCHANGED <<startup, phase, told, pool, writer, threaded, stopped, benchmark, faults>>

(* phase_scan().                                                           *)
Freeze ==
  /\ Doing("freeze")
  /\ phase' = "scan"
  /\ benchmark' = IF Benchmark THEN "testing" ELSE "none"
  /\ Continue
  /\ UNCHANGED <<result, startup, told, pool, writer, threaded, notifier, stopped, faults>>

-----------------------------------------------------------------------------
(* Phase 1.                                                                *)

Ready(s) == told[s] = <<"init2">>
(* The report is used, and by a scanner that may not be ready.            *)
Using(user, ready) ==
  faults' = faults \union (IF writer = "deleted" THEN {user} ELSE {})
                   \union (IF ready THEN {} ELSE {"unready"})

(* A page is queued, or scanned at once if there are no workers.           *)
ReadPage ==
  /\ Doing("read") /\ unread # {} /\ ~disk_errors
  /\ \E p \in unread :
       /\ unread' = unread \ {p}
       /\ \/ /\ ~threaded
             /\ Using("deleted", \A s \in enabled : Ready(s))
             /\ disk_errors' \in {FALSE, DiskMayFill}
             /\ UNCHANGED queue
          \/ /\ threaded
             /\ queue' = queue \union {<<p>>}
             /\ UNCHANGED <<disk_errors, faults>>
  /\ UNCHANGED <<todo, result, startup, phase, told, at, writer, threads>>

(* Mutant of ReaderThrows: at any page.                                    *)
ReaderThrowsLater ==
  /\ Doing("read")
  /\ Leave("1", Unwind)
  /\ UNCHANGED <<startup, phase, told, pool, writer, threads, faults>>
(* The sampling fraction is refused when phase 1 begins.                   *)
ReaderThrows ==
  /\ Doing("read") /\ unread = Pages
  /\ Leave("1", Unwind)
  /\ UNCHANGED <<startup, phase, told, pool, writer, threads, faults>>

EndOfImage ==
  /\ Doing("read") /\ unread = {}
  /\ Continue
  /\ UNCHANGED <<result, startup, phase, told, pool, writer, threads, faults>>

(* Mutant of StopReading: the workers are left to the destructor.          *)
StopWithoutJoin ==
  /\ Doing("read") /\ disk_errors
  /\ Leave("6", GiveUp)
  /\ UNCHANGED <<startup, phase, told, pool, writer, threads, faults>>
(* A worker's write failed: the reader joins without a deadline.           *)
StopReading ==
  /\ Doing("read") /\ disk_errors
  /\ Leave("6", <<"join_workers">> \o GiveUp)
  /\ UNCHANGED <<startup, phase, told, pool, writer, threads, faults>>

Quiet == queue = {} /\ \A w \in Workers : at[w] = Idle

Join ==
  /\ Doing("join") /\ Quiet
  /\ IF disk_errors THEN Leave("6", GiveUp) ELSE Continue /\ UNCHANGED result
  /\ UNCHANGED <<startup, phase, told, pool, writer, threads, faults>>

(* The deadline passes: the process leaves without a destructor.           *)
TimeOut ==
  /\ Doing("join") /\ JoinMayTime /\ ~Quiet
  /\ Leave("8", <<>>)
  /\ UNCHANGED <<startup, phase, told, pool, writer, threads, faults>>

-----------------------------------------------------------------------------
(* The workers.                                                            *)

Take(w) ==
  /\ todo # <<>> /\ at[w] = Idle
  /\ \E u \in queue : /\ queue' = queue \ {u}
                      /\ at' = [at EXCEPT ![w] = u]
  /\ UNCHANGED <<todo, result, startup, phase, told, unread, disk_errors, writer,
                 threads, faults>>

(* process_sbuf(sbuf): the page is reported and a unit queued per scanner. *)
(* In any other phase it throws, and no worker has a handler.              *)
StartPage(w) ==
  /\ todo # <<>> /\ Len(at[w]) = 1
  /\ IF phase = "scan"
       THEN /\ queue' = queue \union {<<at[w][1], s>> : s \in enabled}
            /\ at' = [at EXCEPT ![w] = Idle]
            /\ Using("deleted", TRUE)
            /\ UNCHANGED <<todo, result>>
       ELSE /\ faults' = faults \union {"terminate"}
            /\ Leave("aborted", <<>>)
            /\ UNCHANGED <<queue, at>>
  /\ UNCHANGED <<startup, phase, told, unread, disk_errors, writer, threads>>

(* process_sbuf(sbuf, scanner): the scanner runs, whatever the phase.      *)
BeginScan(w) ==
  /\ todo # <<>> /\ Len(at[w]) = 2
  /\ at' = [at EXCEPT ![w] = Append(@, "scanning")]
  /\ UNCHANGED <<todo, result, startup, phase, told, unread, queue, disk_errors, writer,
                 threads, faults>>
(* It returns, and the release writes to the report.                       *)
EndScan(w) ==
  /\ todo # <<>> /\ Len(at[w]) = 3
  /\ at' = [at EXCEPT ![w] = Idle]
  /\ disk_errors' \in {disk_errors, disk_errors \/ DiskMayFill}
  /\ Using("deleted", Ready(at[w][2]))
  /\ UNCHANGED <<todo, result, startup, phase, told, unread, queue, writer, threads>>

-----------------------------------------------------------------------------
(* Main, after phase 1.                                                    *)

(* notify_thread::stop() sets the phase without the mutex and notifies;    *)
(* join() waits for the thread.                                            *)
Stop ==
  /\ Doing("stop")
  /\ stopped' = TRUE
  /\ Continue
  /\ UNCHANGED <<result, startup, phase, told, pool, writer, threaded, notifier, benchmark, faults>>
Notify ==
  /\ Doing("notify")
  /\ notifier' = IF notifier = "waiting" THEN "woken" ELSE notifier
  /\ Continue
  /\ UNCHANGED <<result, startup, phase, told, pool, writer, threaded, stopped, benchmark, faults>>
JoinNotifier ==
  /\ Doing("join_notifier") /\ notifier \in {"none", "ended"}
  /\ Continue
  /\ UNCHANGED <<result, startup, phase, told, pool, writer, threads, faults>>

(* Calls the scanners of S one by one: one that has the call does not get  *)
(* it again.                                                               *)
Called(s, what) == \E i \in DOMAIN told[s] : told[s][i] = what
TellEach(S, what) ==
  \E s \in S : ~Called(s, what) /\ Tell(s, what)

(* shutdown(): the phase changes, the enabled scanners are called, then    *)
(* the recorders flush and write histograms.                               *)
Shutdown ==
  /\ Doing("shutdown")
  /\ phase' = "shutdown"
  /\ IF \A s \in enabled : Called(s, "shutdown")
       THEN Continue /\ UNCHANGED told
       ELSE TellEach(enabled, "shutdown") /\ UNCHANGED todo
  /\ UNCHANGED <<result, startup, pool, writer, threads, faults>>
RecordersShutdown ==
  /\ Doing("recorders_shutdown")
  /\ Continue
  /\ UNCHANGED <<result, startup, phase, told, pool, writer, threads, faults>>
(* A write of a scanner or of a recorder fails: main returns 7.            *)
ShutdownFails ==
  /\ Doing("shutdown") \/ Doing("recorders_shutdown")
  /\ DiskMayFill /\ phase = "shutdown"
  /\ Leave("7", Unwind)
  /\ UNCHANGED <<startup, phase, told, pool, writer, threads, faults>>

(* Mutant of Cleanup: without a look at the phase.                         *)
CleanupAlways ==
  /\ Doing("cleanup")
  /\ IF phase = "cleanup" /\ \A s \in Scanners : Called(s, "cleanup")
       THEN phase' = "cleaned" /\ Continue /\ UNCHANGED told
       ELSE /\ phase' = "cleanup"
            /\ \E s \in Scanners : Tell(s, "cleanup")
            /\ UNCHANGED todo
  /\ UNCHANGED <<result, startup, pool, writer, threads, faults>>
(* cleanup(): every scanner that was loaded, once.                         *)
Cleanup ==
  /\ Doing("cleanup")
  /\ IF phase = "cleaned"
       THEN Continue /\ UNCHANGED <<phase, told>>
       ELSE IF phase = "cleanup" /\ \A s \in Scanners : Called(s, "cleanup")
         THEN phase' = "cleaned" /\ Continue /\ UNCHANGED told
         ELSE /\ phase' = "cleanup"
              /\ TellEach(Scanners, "cleanup")
              /\ UNCHANGED todo
  /\ UNCHANGED <<result, startup, pool, writer, threads, faults>>

(* The last words in the report, and its end.                              *)
LastReport ==
  /\ Doing("last_report")
  /\ result' = "0"
  /\ Using("deleted", TRUE)
  /\ Continue
  /\ UNCHANGED <<startup, phase, told, pool, writer, threads>>
DeleteWriter ==
  /\ Doing("delete_writer")
  /\ writer' = "deleted"
  /\ Continue
  /\ UNCHANGED <<result, startup, phase, told, pool, threads, faults>>

(* The destructor of the scanner set, after its cleanup.                   *)
JoinWorkers ==
  /\ Doing("join_workers") /\ Quiet
  /\ Continue
  /\ UNCHANGED <<result, startup, phase, told, pool, writer, threads, faults>>
JoinBenchmark ==
  /\ Doing("join_benchmark") /\ benchmark \in {"none", "ended"}
  /\ Continue
  /\ UNCHANGED <<result, startup, phase, told, pool, writer, threads, faults>>
End ==
  /\ Doing("end")
  /\ todo' = <<>>
  /\ UNCHANGED <<result, startup, phase, told, pool, writer, threads, faults>>

-----------------------------------------------------------------------------
(* The notification thread tests, prints, takes the mutex and waits; the   *)
(* test of the wait's predicate and the wait are two steps for a notify    *)
(* that does not take the mutex.                                           *)
NotifierTests ==
  /\ notifier \in {"testing", "woken"} /\ todo # <<>>
  /\ notifier' = IF stopped THEN "ended"
                 ELSE IF notifier = "testing" THEN "printing" ELSE "testing"
  /\ UNCHANGED <<todo, result, startup, phase, told, pool, writer, threaded, stopped, benchmark, faults>>
NotifierPrints ==
  /\ notifier = "printing" /\ todo # <<>>
  /\ notifier' = IF stopped THEN "testing" ELSE "to_wait"
  /\ UNCHANGED <<todo, result, startup, phase, told, pool, writer, threaded, stopped, benchmark, faults>>
NotifierWaits ==
  /\ notifier = "to_wait" /\ todo # <<>>
  /\ notifier' = "waiting"
  /\ UNCHANGED <<todo, result, startup, phase, told, pool, writer, threaded, stopped, benchmark, faults>>
(* Mutant of NotifierTimes: a wait without a time.                         *)
NotifierNeverTimes == FALSE /\ UNCHANGED vars
NotifierTimes ==
  /\ notifier = "waiting" /\ todo # <<>>
  /\ notifier' = "testing"
  /\ UNCHANGED <<todo, result, startup, phase, told, pool, writer, threaded, stopped, benchmark, faults>>

(* The benchmark thread tests the phase and then writes to the report.     *)
BenchmarkTests ==
  /\ benchmark = "testing" /\ todo # <<>>
  /\ benchmark' = IF phase = "scan" THEN "writing" ELSE "ended"
  /\ UNCHANGED <<todo, result, startup, phase, told, pool, writer, threaded, notifier, stopped, faults>>
BenchmarkWrites ==
  /\ benchmark = "writing" /\ todo # <<>>
  /\ benchmark' = "testing"
  /\ Using("benchmark", TRUE)
  /\ UNCHANGED <<todo, result, startup, phase, told, pool, writer, threaded, notifier, stopped>>

Done == todo = <<>> /\ UNCHANGED vars

Main ==
  \/ StartupNext /\ UNCHANGED <<pool, writer, threads, faults>>
  \/ OpenFails \/ OpenForPrinting \/ Open \/ Launch \/ Freeze
  \/ \E s \in Scanners : PrintPath(s)
  \/ ReadPage \/ ReaderThrows \/ EndOfImage \/ StopReading \/ Join \/ TimeOut
  \/ Stop \/ Notify \/ JoinNotifier \/ Shutdown \/ RecordersShutdown \/ ShutdownFails
  \/ Cleanup \/ LastReport \/ DeleteWriter \/ JoinWorkers \/ JoinBenchmark \/ End
Worker(w) == Take(w) \/ StartPage(w) \/ BeginScan(w) \/ EndScan(w)
Notifier == NotifierTests \/ NotifierPrints \/ NotifierWaits \/ NotifierTimes
BenchmarkThread == BenchmarkTests \/ BenchmarkWrites

Next == Main \/ (\E w \in Workers : Worker(w)) \/ Notifier \/ BenchmarkThread \/ Done

Spec == Init /\ [][Next]_vars
FairSpec == /\ Spec
            /\ WF_vars(Main) /\ WF_vars(Notifier) /\ WF_vars(BenchmarkThread)
            /\ \A w \in Workers : WF_vars(Worker(w))

-----------------------------------------------------------------------------
(* Properties.                                                             *)

Units == {<<p>> : p \in Pages} \union (Pages \X Scanners)
TypeOK ==
  /\ result \in {"running", "0", "1", "5", "6", "7", "8", "aborted"}
  /\ phase \in {"init", "init2", "enabled", "scan", "shutdown", "cleanup", "cleaned"}
  /\ enabled \subseteq Scanners /\ unvisited \subseteq Scanners
  /\ unread \subseteq Pages /\ queue \subseteq Units
  /\ \A w \in Workers : at[w] = Idle \/ at[w] \in Units
                          \/ at[w] \in Pages \X Scanners \X {"scanning"}
  /\ writer \in {"none", "live", "deleted"}
  /\ notifier \in {"none", "testing", "printing", "to_wait", "waiting", "woken", "ended"}

(* While a worker is in a scanner, that scanner was initialised and has    *)
(* not been told to shut down or clean up, however main comes to its end   *)
(* (scanner_set.cpp:103-107, 823-916).                                     *)
ScannersReady ==
  \A w \in Workers : Len(at[w]) = 3 /\ todo # <<>> => Ready(at[w][2])

(* No worker, and not main, uses the report after main deleted it, nor a   *)
(* scanner that is not ready (bulk_extractor.cpp:724, 871); no page is     *)
(* started outside the scan phase, where the exception would leave the     *)
(* worker (scanner_set.cpp:977).                                           *)
NothingGone ==
  TypeOK /\ ScannersReady /\ faults \intersect {"deleted", "unready", "terminate"} = {}

(* However main is left, short of _Exit, every scanner that was loaded is  *)
(* cleaned up exactly once, last; a scanner is told to shut down at most   *)
(* once, after it was initialised, and a run ends with 0 only if all were  *)
(* (scanner_set.cpp:1134-1173).                                            *)
CalledInOrder ==
  /\ \A s \in Scanners : told[s] \in
       {<<>>, <<"init2">>, <<"init2", "shutdown">>, <<"init2", "shutdown", "cleanup">>,
        <<"init2", "cleanup">>, <<"cleanup">>}
  /\ todo = <<>> /\ result \notin {"8", "aborted"} => \A s \in Scanners : Called(s, "cleanup")
  /\ result = "0" /\ writer # "none" => \A s \in enabled : Called(s, "shutdown")

(* The program ends, whatever fails, and although the notification thread  *)
(* may miss the notify of stop(), which does not take its mutex            *)
(* (notify_thread.cpp:164-190).                                            *)
ProgramEnds == <>(todo = <<>>)
=============================================================================
