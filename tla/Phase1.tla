------------------------------- MODULE Phase1 -------------------------------
(***************************************************************************)
(* Phase 1 of bulk_extractor over the runs on one output directory:        *)
(* bulk_extractor.cpp starts or restarts, phase1.cpp reads the pages of    *)
(* the image and hands them to the pool, the workers note every page they  *)
(* start in report.xml and write features, and the run ends, fails, times  *)
(* out or crashes.  The next run reads that report and skips what it names.*)
(*                                                                         *)
(* The pool and the life of the sbufs are what ThreadPool and ScannerSet   *)
(* model; here a page is one work unit that becomes one unit per scanner.  *)
(* Sampling and the options that restrict the range of pages are off.      *)
(***************************************************************************)
EXTENDS Integers, Sequences, FiniteSets, SequencesExt

CONSTANTS
  PageCount,      \* the pages of the image
  Scanners,       \* the enabled scanners
  WholePage,      \* "no scanner": the unit of a page not yet processed
  WorkerCount,    \* get_worker_count()
  MaxRuns,        \* bound: runs on the directory
  MaxCrashes,     \* bound: runs that crash
  MaxDiskErrors,  \* bound: feature writes that fail
  MaxReadErrors   \* bound: pages that cannot be read

Pages == 1..PageCount
Units == [page : Pages, scanner : Scanners \union {WholePage}]
Results == Pages \X Scanners
MainStates == {"off", "opening", "recording", "reading", "scheduling",
               "joining", "failing", "shutdown"}

ASSUME ImageAssumption  == PageCount \in Nat
ASSUME WorkAssumption   == /\ IsFiniteSet(Scanners) /\ WholePage \notin Scanners
                           /\ WorkerCount \in Nat \ {0}
ASSUME FaultAssumption  == /\ MaxRuns \in Nat /\ MaxCrashes \in Nat
                           /\ MaxDiskErrors \in Nat /\ MaxReadErrors \in Nat

VARIABLES
  report,             \* on disk: the pages report.xml says were started;
                      \* no report.xml is no page
  saved,              \* on disk: the results in the feature files
  mainPc,             \* where the main thread is; "off" between two runs
  seen_page_ids,      \* the pages this run skips
  unrecorded,         \* those not yet copied to the new report
  it,                 \* the page iterator
  sha1g,              \* the image is still being hashed
  hash_next,          \* the next page to hash
  work_queue,         \* the pool's queue
  running,            \* the work units the workers hold
  buffered,           \* results in the buffers of the feature files
  disk_write_errors,  \* of this run
  runs,               \* history: runs begun
  exitCode,           \* history: of the last run, -1 if it crashed
  crashes,            \* history: runs that crashed
  forgotten,          \* history: a run ended without a report as complete
                      \* as the one it had found
  hashWritten,        \* history: this run wrote the hash of the image
  started,            \* history: how often each page was started
  interrupted,        \* history: pages a crash found started and unfinished
  readNow,            \* history: the pages this run has read
  unreadable,         \* history: the pages this run could not read
  failed,             \* history: results a scanner could not write
  dropped,            \* history: buffered results the disk did not take
  diskErrors,         \* history: failed writes over all runs
  readErrors          \* history: failed reads over all runs

disk     == <<report, saved>>
reader   == <<seen_page_ids, unrecorded, it, sha1g, hash_next>>
pool     == <<work_queue, running>>
outcome  == <<runs, exitCode, crashes, forgotten, hashWritten>>
readPast == <<readNow, unreadable, readErrors>>
scanPast == <<started, interrupted, failed, dropped, diskErrors>>
vars == <<disk, mainPc, reader, pool, buffered, disk_write_errors, outcome,
          readPast, scanPast>>

Init ==
  /\ report = {}
  /\ saved = {}
  /\ mainPc = "off"
  /\ seen_page_ids = {}
  /\ unrecorded = {}
  /\ it = 1
  /\ sha1g = FALSE
  /\ hash_next = 1
  /\ work_queue = <<>>
  /\ running = {}
  /\ buffered = {}
  /\ disk_write_errors = 0
  /\ runs = 0
  /\ exitCode = 0
  /\ crashes = 0
  /\ forgotten = FALSE
  /\ hashWritten = FALSE
  /\ started = [p \in Pages |-> 0]
  /\ interrupted = {}
  /\ readNow = {}
  /\ unreadable = {}
  /\ failed = {}
  /\ dropped = {}
  /\ diskErrors = 0
  /\ readErrors = 0

InFlight == ToSet(work_queue) \union running
Idle     == work_queue = <<>> /\ running = {}

-----------------------------------------------------------------------------
(* Starting and restarting.                                                *)

(* The report of an earlier run is read and renamed.                       *)
Begin ==
  /\ mainPc = "off"
  /\ runs < MaxRuns
  /\ runs' = runs + 1
  /\ mainPc' = "opening"
  /\ seen_page_ids' = report
  /\ report' = {}
  /\ hashWritten' = FALSE
  /\ readNow' = {} /\ unreadable' = {}
  /\ UNCHANGED <<saved, unrecorded, it, sha1g, hash_next, pool, buffered,
                 disk_write_errors, exitCode, crashes, forgotten, readErrors,
                 scanPast>>

(* What a run that ends before it reads pages has found but not recorded.  *)
Forget == forgotten' = (forgotten \/
            (mainPc \in {"opening", "recording"} /\ seen_page_ids \ report # {}))

(* The image cannot be opened.                                             *)
OpenFails ==
  /\ mainPc = "opening"
  /\ mainPc' = "off"
  /\ exitCode' = 1
  /\ Forget
  /\ UNCHANGED <<disk, reader, pool, buffered, disk_write_errors, runs,
                 crashes, hashWritten, readPast, scanPast>>

(* The image is open: the new report is created, phase1_run begins.        *)
Open ==
  /\ mainPc = "opening"
  /\ mainPc' = "recording"
  /\ report' = {}
  /\ unrecorded' = seen_page_ids
  /\ it' = 1 /\ sha1g' = TRUE /\ hash_next' = 1
  /\ disk_write_errors' = 0
  /\ UNCHANGED <<saved, seen_page_ids, pool, buffered, outcome, readPast, scanPast>>

(* record_work_start_stop_pos0str.                                         *)
RecordSeen ==
  /\ mainPc = "recording"
  /\ \E p \in unrecorded :
       /\ report' = report \union {p}
       /\ unrecorded' = unrecorded \ {p}
  /\ UNCHANGED <<saved, mainPc, seen_page_ids, it, sha1g, hash_next, pool,
                 buffered, disk_write_errors, outcome, readPast, scanPast>>

(* The records are made.  Its mutant does not wait for that.               *)
RecordedEarly ==
  /\ mainPc = "recording"
  /\ mainPc' = "reading"
  /\ UNCHANGED <<disk, reader, pool, buffered, disk_write_errors, outcome,
                 readPast, scanPast>>
AllRecorded ==
  /\ mainPc = "recording"
  /\ unrecorded = {}
  /\ mainPc' = "reading"
  /\ UNCHANGED <<disk, reader, pool, buffered, disk_write_errors, outcome,
                 readPast, scanPast>>

-----------------------------------------------------------------------------
(* read_process_sbufs.                                                     *)

(* Too much in the queue: depth0_sbufs_in_queue > get_worker_count().      *)
(* Mutant: the limit is not looked at.                                     *)
NeverThrottled == FALSE

Throttled == Len(work_queue) + Cardinality(running) > WorkerCount

(* The loop goes on to the page at it.                                     *)
AtPage == /\ mainPc = "reading"
          /\ it <= PageCount
          /\ disk_write_errors = 0
          /\ ~Throttled

(* A worker has failed to write.                                           *)
StopReading ==
  /\ mainPc = "reading"
  /\ it <= PageCount
  /\ disk_write_errors > 0
  /\ mainPc' = "failing"
  /\ UNCHANGED <<disk, reader, pool, buffered, disk_write_errors, outcome,
                 readPast, scanPast>>

(* A page that an earlier run has started.  Mutant: the loop continues     *)
(* without advancing the iterator.                                         *)
SkipStuck == AtPage /\ it \in seen_page_ids /\ UNCHANGED vars
SkipSeen ==
  /\ AtPage
  /\ it \in seen_page_ids
  /\ it' = it + 1
  /\ UNCHANGED <<disk, mainPc, seen_page_ids, unrecorded, sha1g, hash_next,
                 pool, buffered, disk_write_errors, outcome, readPast, scanPast>>

(* get_sbuf gives up or the read throws: the page is left out.             *)
ReadFails ==
  /\ AtPage
  /\ it \notin seen_page_ids
  /\ readErrors < MaxReadErrors
  /\ readErrors' = readErrors + 1
  /\ unreadable' = unreadable \union {it}
  /\ it' = it + 1
  /\ UNCHANGED <<disk, mainPc, seen_page_ids, unrecorded, sha1g, hash_next,
                 pool, buffered, disk_write_errors, outcome, readNow, scanPast>>

(* Mutant of Hash: a gap goes unnoticed.                                   *)
HashOn == UNCHANGED sha1g /\ hash_next' = hash_next + 1

(* The hash goes on, or is given up at a gap.                              *)
Hash ==
  IF sha1g /\ it = hash_next
  THEN hash_next' = hash_next + 1 /\ UNCHANGED sha1g
  ELSE sha1g' = FALSE /\ UNCHANGED hash_next

ReadPage ==
  /\ AtPage
  /\ it \notin seen_page_ids
  /\ Hash
  /\ readNow' = readNow \union {it}
  /\ mainPc' = "scheduling"
  /\ UNCHANGED <<disk, seen_page_ids, unrecorded, it, pool, buffered,
                 disk_write_errors, outcome, unreadable, readErrors, scanPast>>

(* Mutant of Schedule: the page is noted as started when it is queued.     *)
ScheduleRecorded ==
  /\ mainPc = "scheduling"
  /\ Cardinality(running) < WorkerCount
  /\ work_queue' = Append(work_queue, [page |-> it, scanner |-> WholePage])
  /\ report' = report \union {it}
  /\ it' = it + 1
  /\ mainPc' = "reading"
  /\ UNCHANGED <<saved, seen_page_ids, unrecorded, sha1g, hash_next, running,
                 buffered, disk_write_errors, outcome, readPast, scanPast>>

(* schedule_sbuf; push_task comes back when there is a free worker.        *)
Schedule ==
  /\ mainPc = "scheduling"
  /\ Cardinality(running) < WorkerCount
  /\ work_queue' = Append(work_queue, [page |-> it, scanner |-> WholePage])
  /\ it' = it + 1
  /\ mainPc' = "reading"
  /\ UNCHANGED <<disk, seen_page_ids, unrecorded, sha1g, hash_next, running,
                 buffered, disk_write_errors, outcome, readPast, scanPast>>

EndOfImage ==
  /\ mainPc = "reading"
  /\ it > PageCount
  /\ mainPc' = "joining"
  /\ UNCHANGED <<disk, reader, pool, buffered, disk_write_errors, outcome,
                 readPast, scanPast>>

-----------------------------------------------------------------------------
(* The workers.                                                            *)

Take ==
  /\ work_queue # <<>>
  /\ Cardinality(running) < WorkerCount
  /\ running' = running \union {Head(work_queue)}
  /\ work_queue' = Tail(work_queue)
  /\ UNCHANGED <<disk, mainPc, reader, buffered, disk_write_errors, outcome,
                 readPast, scanPast>>

(* Mutant of StartPage: the page is not noted as started.                  *)
StartUnrecorded(p) ==
  LET u == [page |-> p, scanner |-> WholePage] IN
  /\ u \in running
  /\ started' = [started EXCEPT ![p] = @ + 1]
  /\ running' = running \ {u}
  /\ work_queue' = work_queue \o
       SetToSeq({[page |-> p, scanner |-> s] : s \in Scanners})
  /\ UNCHANGED <<disk, mainPc, reader, buffered, disk_write_errors,
                 outcome, readPast, interrupted, failed, dropped, diskErrors>>

(* process_sbuf(page): record_work_start, then a work unit per scanner.    *)
StartPage(p) ==
  LET u == [page |-> p, scanner |-> WholePage] IN
  /\ u \in running
  /\ report' = report \union {p}
  /\ started' = [started EXCEPT ![p] = @ + 1]
  /\ running' = running \ {u}
  /\ work_queue' = work_queue \o
       SetToSeq({[page |-> p, scanner |-> s] : s \in Scanners})
  /\ UNCHANGED <<saved, mainPc, reader, buffered, disk_write_errors,
                 outcome, readPast, interrupted, failed, dropped, diskErrors>>

(* process_sbuf(page, scanner): the features go to the buffer of a file.   *)
Scan(p, s) ==
  LET u == [page |-> p, scanner |-> s] IN
  /\ u \in running
  /\ running' = running \ {u}
  /\ buffered' = buffered \union {<<p, s>>}
  /\ UNCHANGED <<disk, mainPc, reader, work_queue, disk_write_errors, outcome,
                 readPast, scanPast>>

(* Or a write fails: neither these features nor those that were in the     *)
(* same buffer get to the disk.                                            *)
ScanFails(p, s) ==
  LET u == [page |-> p, scanner |-> s] IN
  /\ u \in running
  /\ diskErrors < MaxDiskErrors
  /\ diskErrors' = diskErrors + 1
  /\ disk_write_errors' = disk_write_errors + 1
  /\ running' = running \ {u}
  /\ failed' = failed \union {<<p, s>>}
  /\ \E lost \in SUBSET buffered : /\ dropped' = dropped \union lost
                                  /\ buffered' = buffered \ lost
  /\ UNCHANGED <<disk, mainPc, reader, work_queue, outcome, readPast, started,
                 interrupted>>

(* A full buffer reaches the disk.                                         *)
BufferWritten ==
  /\ \E r \in buffered : /\ saved' = saved \union {r}
                         /\ buffered' = buffered \ {r}
  /\ UNCHANGED <<report, mainPc, reader, pool, disk_write_errors, outcome,
                 readPast, scanPast>>

-----------------------------------------------------------------------------
(* The end of a run.                                                       *)

(* The process ends in an orderly way and the files are flushed, which     *)
(* nobody checks.                                                          *)
Exit(code) ==
  /\ mainPc' = "off"
  /\ exitCode' = code
  /\ buffered' = {}
  /\ \/ /\ saved' = saved \union buffered
        /\ UNCHANGED <<dropped, diskErrors>>
     \/ /\ diskErrors < MaxDiskErrors
        /\ \E lost \in SUBSET buffered :
             /\ saved' = saved \union (buffered \ lost)
             /\ dropped' = dropped \union lost
        /\ diskErrors' = diskErrors + 1
  /\ UNCHANGED <<report, reader, pool, disk_write_errors, runs, crashes,
                 forgotten, hashWritten, readPast, started, interrupted, failed>>

(* The join after a failed write is done: DiskWriteError.                  *)
FailedJoin == mainPc = "failing" /\ Idle /\ Exit(6)

(* Mutant of JoinFindsError: what failed after the last page is forgotten. *)
JoinFindsNothing == FALSE

(* The join at the end is done, and a write had failed.                    *)
JoinFindsError == mainPc = "joining" /\ Idle /\ disk_write_errors > 0

JoinFails == JoinFindsError /\ Exit(6)

(* Otherwise the source is described, with the hash if there is one.       *)
JoinSucceeds ==
  /\ mainPc = "joining" /\ Idle /\ ~JoinFindsError
  /\ mainPc' = "shutdown"
  /\ hashWritten' = sha1g
  /\ UNCHANGED <<disk, reader, pool, buffered, disk_write_errors, runs,
                 exitCode, crashes, forgotten, readPast, scanPast>>

Shutdown == mainPc = "shutdown" /\ Exit(0)

(* What dies with the process, and what a crash leaves unfinished.         *)
Die(code) ==
  /\ mainPc' = "off"
  /\ exitCode' = code
  /\ interrupted' = interrupted \union
       {u.page : u \in {v \in InFlight : v.scanner # WholePage}}
  /\ work_queue' = <<>>
  /\ running' = {}
  /\ buffered' = {}
  /\ Forget
  /\ UNCHANGED <<disk, reader, disk_write_errors, runs, hashWritten, readPast,
                 started, failed, dropped, diskErrors>>

(* The join times out: _Exit(8).                                           *)
JoinTimesOut ==
  mainPc = "joining" /\ ~Idle /\ Die(8) /\ UNCHANGED crashes

(* The process dies, wherever it is.                                       *)
Crash == /\ mainPc # "off"
         /\ crashes < MaxCrashes
         /\ crashes' = crashes + 1
         /\ Die(-1)

-----------------------------------------------------------------------------
Done == mainPc = "off" /\ runs = MaxRuns /\ UNCHANGED vars

MainStep ==
  \/ Begin \/ OpenFails \/ Open \/ RecordSeen \/ AllRecorded
  \/ StopReading \/ SkipSeen \/ ReadFails \/ ReadPage \/ Schedule \/ EndOfImage
  \/ FailedJoin \/ JoinFails \/ JoinSucceeds \/ Shutdown \/ JoinTimesOut

WorkerStep ==
  \/ Take
  \/ \E p \in Pages : StartPage(p)
  \/ \E p \in Pages, s \in Scanners : Scan(p, s) \/ ScanFails(p, s)

Next == MainStep \/ WorkerStep \/ BufferWritten \/ Crash \/ Done

Spec == Init /\ [][Next]_vars

(* The main thread and the workers go on; that scanners return is assumed. *)
FairSpec == Spec /\ WF_vars(MainStep) /\ WF_vars(WorkerStep)

-----------------------------------------------------------------------------
(* Type invariant.                                                         *)
TypeOK ==
  /\ report \subseteq Pages
  /\ saved \subseteq Results
  /\ mainPc \in MainStates
  /\ seen_page_ids \subseteq Pages
  /\ unrecorded \subseteq Pages
  /\ it \in 1..(PageCount + 1)
  /\ sha1g \in BOOLEAN
  /\ hash_next \in 1..(PageCount + 1)
  /\ work_queue \in Seq(Units)
  /\ running \subseteq Units
  /\ buffered \subseteq Results
  /\ disk_write_errors \in 0..MaxDiskErrors
  /\ runs \in 0..MaxRuns
  /\ exitCode \in {-1, 0, 1, 6, 8}
  /\ crashes \in 0..MaxCrashes
  /\ forgotten \in BOOLEAN
  /\ hashWritten \in BOOLEAN
  /\ started \in [Pages -> Nat]
  /\ interrupted \subseteq Pages
  /\ readNow \subseteq Pages
  /\ unreadable \subseteq Pages
  /\ failed \subseteq Results
  /\ dropped \subseteq Results
  /\ diskErrors \in 0..MaxDiskErrors
  /\ readErrors \in 0..MaxReadErrors

(* The reader never holds more of the image in memory than one page per    *)
(* worker and one to hand over, however many work units a page becomes.    *)
LivePages == {u.page : u \in InFlight}
             \union IF mainPc = "scheduling" THEN {it} ELSE {}
ReaderBounded == Cardinality(LivePages) <= WorkerCount + 1

(* Over all runs no page is processed twice: what a run has started its    *)
(* successors skip, unless one of them ended before it had copied the      *)
(* records of the report it found.                                         *)
StartedOnce == ~forgotten => \A p \in Pages : started[p] <= 1

(* From the time a run reads pages its report names every page that was    *)
(* ever started, so that the next run can rely on that report alone; and   *)
(* so it stays when the run has ended, in whichever way.                   *)
ReportComplete ==
  ~forgotten /\ mainPc \notin {"opening", "recording"} =>
    \A p \in Pages : started[p] > 0 => p \in report

(* A run that ends with 0 has left no page out: each one was started, by   *)
(* this run or an earlier one, or could not be read now.                   *)
NoPageLost ==
  mainPc = "off" /\ runs > 0 /\ exitCode = 0 =>
    \A p \in Pages : started[p] > 0 \/ p \in unreadable

(* Exit status 0 of a first run means that no write that failed while      *)
(* scanning has gone unnoticed: the features of all pages that can be read *)
(* are on disk, but for what the last flush could not write.               *)
CleanExitComplete ==
  mainPc = "off" /\ runs = 1 /\ exitCode = 0 =>
    /\ failed = {}
    /\ ((Pages \ unreadable) \X Scanners) \ dropped \subseteq saved

(* If the end of the image was read, a hash that is written covers all of  *)
(* the image: pages left out before it stop the hashing.                   *)
NoHashOverGap ==
  hashWritten /\ PageCount \in readNow => readNow = Pages

(* Every run ends.                                                         *)
RunEnds == mainPc # "off" ~> mainPc = "off"

(* "a resumed run deliberately skips pages that were in progress at the    *)
(* crash" (RELEASE_NOTES.md:98): the features of all other pages are there *)
(* at the end, but for writes that failed.                                 *)
OnlyInterruptedLost ==
  mainPc = "off" /\ runs > 0 /\ exitCode = 0 =>
    ((Pages \ (unreadable \union interrupted)) \X Scanners)
      \ (failed \union dropped) \subseteq saved

(* What the next run may trust: no page is started twice, and the report   *)
(* has every page that was started (phase1.cpp:176-180).                   *)
StartsRecorded == StartedOnce /\ ReportComplete
=============================================================================
