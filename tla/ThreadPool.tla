----------------------------- MODULE ThreadPool -----------------------------
(***************************************************************************)
(* The thread pool of be20_api/threadpool.{h,cpp}: one producer (the main  *)
(* thread), a set of workers, one mutex M, a FIFO queue of work units and  *)
(* two condition variables.                                                *)
(*                                                                         *)
(* M is not a variable.  The code holds M from one wait to the next and    *)
(* never across the processing of a work unit, so every section under M is *)
(* one atomic action, and the few accesses outside M (the decrement of     *)
(* working_workers, the last notify_all of a worker) are actions of their  *)
(* own.  A condition variable is the set of the threads that wait on it:   *)
(* TO_WORKER is the workers at "waiting", TO_MAIN is mainWaits, because    *)
(* the main thread is the only one that ever waits on it.                  *)
(***************************************************************************)
EXTENDS Integers, Sequences, FiniteSets

CONSTANTS Workers,          \* the workers launch_workers creates
          Tasks,            \* the work units that may ever be pushed
          Roots,            \* those the main thread pushes (scanner == nullptr)
          NoTask,           \* "no work unit"
          LaunchMayFail     \* TRUE: creating a thread may throw

ASSUME WorkersAssumption == IsFiniteSet(Workers) /\ Workers # {}
ASSUME TasksAssumption   == Roots \subseteq Tasks /\ NoTask \notin Tasks
ASSUME LaunchAssumption  == LaunchMayFail \in BOOLEAN

VARIABLES
  work_queue,       \* FIFO of work units
  freethreads,      \* atomic counter of the workers that are free
  working_workers,  \* atomic counter of the workers that are working
  mode,             \* 0 = running, 2 = stop the workers
  workers,          \* the registered workers
  pc,               \* where each worker is
  unit,             \* the work unit each worker holds
  mainPc,           \* where the main thread is
  mainWaits,        \* the main thread sleeps on TO_MAIN
  mainUnit,         \* the work unit push_task holds while it waits
  bounded,          \* the join in progress has a deadline
  pushed,           \* history: work units put on the queue so far
  released          \* history: work units processed and released so far

workerVars == <<pc, unit>>
mainVars   == <<mainPc, mainWaits, mainUnit, bounded>>
history    == <<pushed, released>>
vars == <<work_queue, freethreads, working_workers, mode, workers, workerVars,
          mainVars, history>>

WorkerStates == {"none", "launched", "ready", "waiting", "running", "released",
                 "uncounted", "exiting", "erased", "gone"}
MainStates   == {"launching", "produce", "pushWait", "throttleWait", "join",
                 "drain", "drained", "exitWait", "joinThreads", "joined",
                 "timedOut", "unwinding", "destroyed"}

Init == /\ work_queue = <<>>
        /\ freethreads = 0
        /\ working_workers = 0
        /\ mode = 0
        /\ workers = {}
        /\ pc = [w \in Workers |-> "none"]
        /\ unit = [w \in Workers |-> NoTask]
        /\ mainPc = "launching"
        /\ mainWaits = FALSE
        /\ mainUnit = NoTask
        /\ bounded = FALSE
        /\ pushed = {}
        /\ released = {}

-----------------------------------------------------------------------------
(* The condition variables. *)

Waiting == {w \in Workers : pc[w] = "waiting"}

(* TO_MAIN.notify_one() and notify_all(). *)
NotifyMain == mainWaits' = FALSE

(* What TO_WORKER.notify_one() may do to pc: wake one waiting worker, if    *)
(* there is one.                                                           *)
NotifyOneWorker ==
  IF Waiting = {} THEN {pc}
                  ELSE {[pc EXCEPT ![w] = "ready"] : w \in Waiting}

(* TO_WORKER.notify_all(). *)
NotifyAllWorkers ==
  [w \in Workers |-> IF w \in Waiting THEN "ready" ELSE pc[w]]

-----------------------------------------------------------------------------
(* Launching.  launch_workers registers a worker and starts its thread in  *)
(* one section under M.                                                    *)

Launch(w) ==
  /\ mainPc = "launching"
  /\ pc[w] = "none"
  /\ workers' = workers \union {w}
  /\ pc' = [pc EXCEPT ![w] = "launched"]
  /\ mainPc' = IF \A v \in Workers \ {w} : pc[v] # "none"
               THEN "produce" ELSE "launching"
  /\ UNCHANGED <<work_queue, freethreads, working_workers, mode, unit,
                 mainWaits, mainUnit, bounded, history>>

(* std::thread throws: the registration is undone and the exception leaves *)
(* launch_workers before the scanner_set notes that it has threads, so the *)
(* next thing that happens to the pool is its destructor.                  *)
LaunchFails(w) ==
  /\ LaunchMayFail
  /\ mainPc = "launching"
  /\ pc[w] = "none"
  /\ mainPc' = "unwinding"
  /\ UNCHANGED <<work_queue, freethreads, working_workers, mode, workers,
                 workerVars, mainWaits, mainUnit, bounded, history>>

(* ~thread_pool joins every thread that was started. *)
Destroy ==
  /\ mainPc = "unwinding"
  /\ \A w \in Workers : pc[w] \in {"none", "gone"}
  /\ mainPc' = "destroyed"
  /\ UNCHANGED <<work_queue, freethreads, working_workers, mode, workers,
                 workerVars, mainWaits, mainUnit, bounded, history>>

-----------------------------------------------------------------------------
(* worker::run, one action per section.                                    *)

(* The worker counts itself free. *)
Start(w) ==
  /\ pc[w] = "launched"
  /\ freethreads' = freethreads + 1
  /\ pc' = [pc EXCEPT ![w] = "ready"]
  /\ UNCHANGED <<work_queue, working_workers, mode, workers, unit, mainVars,
                 history>>

(* Slip: the worker goes to sleep without looking at the queue.            *)
SleepBlindly(w) ==
  /\ pc[w] = "ready"
  /\ mode # 2
  /\ NotifyMain
  /\ pc' = [pc EXCEPT ![w] = "waiting"]
  /\ UNCHANGED <<work_queue, freethreads, working_workers, mode, workers, unit,
                 mainPc, mainUnit, bounded, history>>

(* No work and no order to stop: wake the main thread and sleep. *)
Sleep(w) ==
  /\ pc[w] = "ready"
  /\ work_queue = <<>>
  /\ mode # 2
  /\ NotifyMain
  /\ pc' = [pc EXCEPT ![w] = "waiting"]
  /\ UNCHANGED <<work_queue, freethreads, working_workers, mode, workers, unit,
                 mainPc, mainUnit, bounded, history>>

(* Slip: wait instead of wait_for.                                         *)
TimeoutNever(w) == FALSE /\ pc[w] = "waiting" /\ UNCHANGED vars

(* The wait is timed: after a second (or spuriously) the worker looks again. *)
Timeout(w) ==
  /\ pc[w] = "waiting"
  /\ pc' = [pc EXCEPT ![w] = "ready"]
  /\ UNCHANGED <<work_queue, freethreads, working_workers, mode, workers, unit,
                 mainVars, history>>

(* Slip: front() without pop().                                            *)
TakeWithoutPop(w) ==
  /\ pc[w] = "ready"
  /\ work_queue # <<>>
  /\ unit' = [unit EXCEPT ![w] = Head(work_queue)]
  /\ freethreads' = freethreads - 1
  /\ working_workers' = working_workers + 1
  /\ pc' = [pc EXCEPT ![w] = "running"]
  /\ UNCHANGED <<work_queue, mode, workers, mainVars, history>>

(* Take the unit at the head of the queue. *)
Take(w) ==
  /\ pc[w] = "ready"
  /\ work_queue # <<>>
  /\ unit' = [unit EXCEPT ![w] = Head(work_queue)]
  /\ work_queue' = Tail(work_queue)
  /\ freethreads' = freethreads - 1
  /\ working_workers' = working_workers + 1
  /\ pc' = [pc EXCEPT ![w] = "running"]
  /\ UNCHANGED <<mode, workers, mainVars, history>>

(* While it processes its unit the worker pushes more: a scanner to run on *)
(* the same sbuf, or a large sbuf a scanner has derived.  push_task does   *)
(* not wait in a worker.                                                   *)
WorkerPush(w, t) ==
  /\ pc[w] = "running"
  /\ t \notin pushed
  /\ work_queue' = Append(work_queue, t)
  /\ pushed' = pushed \union {t}
  /\ pc' \in NotifyOneWorker
  /\ UNCHANGED <<freethreads, working_workers, mode, workers, unit, mainVars,
                 released>>

(* process_sbuf returns and release_sbuf gives the unit back. *)
Release(w) ==
  /\ pc[w] = "running"
  /\ released' = released \union {unit[w]}
  /\ unit' = [unit EXCEPT ![w] = NoTask]
  /\ pc' = [pc EXCEPT ![w] = "released"]
  /\ UNCHANGED <<work_queue, freethreads, working_workers, mode, workers,
                 mainVars, pushed>>

(* working_workers-- is not under M. *)
Uncount(w) ==
  /\ pc[w] = "released"
  /\ working_workers' = working_workers - 1
  /\ pc' = [pc EXCEPT ![w] = "uncounted"]
  /\ UNCHANGED <<work_queue, freethreads, mode, workers, unit, mainVars,
                 history>>

(* Free again: count it and tell the main thread, under M. *)
Free(w) ==
  /\ pc[w] = "uncounted"
  /\ freethreads' = freethreads + 1
  /\ NotifyMain
  /\ pc' = [pc EXCEPT ![w] = "ready"]
  /\ UNCHANGED <<work_queue, working_workers, mode, workers, unit, mainPc,
                 mainUnit, bounded, history>>

(* Told to stop and nothing left to do. *)
Exit(w) ==
  /\ pc[w] = "ready"
  /\ mode = 2
  /\ work_queue = <<>>
  /\ freethreads' = freethreads - 1
  /\ pc' = [pc EXCEPT ![w] = "exiting"]
  /\ UNCHANGED <<work_queue, working_workers, mode, workers, unit, mainVars,
                 history>>

Deregister(w) ==
  /\ pc[w] = "exiting"
  /\ workers' = workers \ {w}
  /\ pc' = [pc EXCEPT ![w] = "erased"]
  /\ UNCHANGED <<work_queue, freethreads, working_workers, mode, unit, mainVars,
                 history>>

(* Slip: no notify after the worker has deregistered.                      *)
AnnounceNothing(w) ==
  /\ pc[w] = "erased"
  /\ pc' = [pc EXCEPT ![w] = "gone"]
  /\ UNCHANGED <<work_queue, freethreads, working_workers, mode, workers, unit,
                 mainVars, history>>

(* The last notify_all comes after M is released; then the thread ends. *)
Announce(w) ==
  /\ pc[w] = "erased"
  /\ NotifyMain
  /\ pc' = [pc EXCEPT ![w] = "gone"]
  /\ UNCHANGED <<work_queue, freethreads, working_workers, mode, workers, unit,
                 mainPc, mainUnit, bounded, history>>

-----------------------------------------------------------------------------
(* The main thread as the producer. *)

(* Slip: no notify after the push.                                         *)
EnqueueSilently(t) == /\ work_queue' = Append(work_queue, t)
                      /\ pushed' = pushed \union {t}
                      /\ pc' = pc

Enqueue(t) == /\ work_queue' = Append(work_queue, t)
              /\ pushed' = pushed \union {t}
              /\ pc' \in NotifyOneWorker

(* push_task(sbuf, nullptr): wait while no worker is free, then enqueue.   *)
MainPush(t) ==
  /\ mainPc = "produce"
  /\ t \in Roots \ pushed
  /\ \/ /\ freethreads # 0
        /\ Enqueue(t)
        /\ UNCHANGED mainVars
     \/ /\ freethreads = 0
        /\ mainPc' = "pushWait"
        /\ mainWaits' = TRUE
        /\ mainUnit' = t
        /\ UNCHANGED <<work_queue, pushed, pc, bounded>>
  /\ UNCHANGED <<freethreads, working_workers, mode, workers, unit, released>>

(* Slip: the unit is lost across the wait, and a null one is queued.       *)
PushRetryNull ==
  /\ mainPc = "pushWait"
  /\ ~mainWaits
  /\ freethreads # 0
  /\ Enqueue(NoTask)
  /\ mainPc' = "produce"
  /\ mainUnit' = NoTask
  /\ UNCHANGED <<mainWaits, freethreads, working_workers, mode, workers, unit,
                 bounded, released>>

(* Woken in push_task: look at freethreads again. *)
PushRetry ==
  /\ mainPc = "pushWait"
  /\ ~mainWaits
  /\ \/ /\ freethreads # 0
        /\ Enqueue(mainUnit)
        /\ mainPc' = "produce"
        /\ mainUnit' = NoTask
        /\ UNCHANGED mainWaits
     \/ /\ freethreads = 0
        /\ mainWaits' = TRUE
        /\ UNCHANGED <<mainPc, mainUnit, work_queue, pushed, pc>>
  /\ UNCHANGED <<freethreads, working_workers, mode, workers, unit, bounded,
                 released>>

(* main_thread_wait sleeps without looking at anything first: its caller   *)
(* has compared two counters before, and without holding M.                *)
MainThreadWait ==
  /\ mainPc = "produce"
  /\ mainPc' = "throttleWait"
  /\ mainWaits' = TRUE
  /\ UNCHANGED <<work_queue, freethreads, working_workers, mode, workers,
                 workerVars, mainUnit, bounded, history>>

MainThreadWake ==
  /\ mainPc = "throttleWait"
  /\ ~mainWaits
  /\ mainPc' = "produce"
  /\ UNCHANGED <<work_queue, freethreads, working_workers, mode, workers,
                 workerVars, mainWaits, mainUnit, bounded, history>>

(* A condition variable may wake its waiter for no reason. *)
SpuriousWake ==
  /\ mainWaits
  /\ mainWaits' = FALSE
  /\ UNCHANGED <<work_queue, freethreads, working_workers, mode, workers,
                 workerVars, mainPc, mainUnit, bounded, history>>

-----------------------------------------------------------------------------
(* join() and join(maximum_wait).  A join that timed out may be repeated.  *)

BeginJoin ==
  /\ mainPc \in {"produce", "timedOut"}
  /\ mainPc' = "join"
  /\ bounded' \in BOOLEAN
  /\ UNCHANGED <<work_queue, freethreads, working_workers, mode, workers,
                 workerVars, mainWaits, mainUnit, history>>

(* "There is work": some unit is queued or some worker is working. *)
WorkRemains == work_queue # <<>> \/ working_workers > 0

(* The head of the waiting loop, on entry and after each wake-up. *)
AtDrainTest == mainPc = "join" \/ (mainPc = "drain" /\ ~mainWaits)

DrainWait ==
  /\ AtDrainTest
  /\ WorkRemains
  /\ pc' \in NotifyOneWorker
  /\ mainPc' = "drain"
  /\ mainWaits' = TRUE
  /\ UNCHANGED <<work_queue, freethreads, working_workers, mode, workers, unit,
                 mainUnit, bounded, history>>

(* mode = 2, wake every worker, and wait for the last to deregister. *)
StopWorkers ==
  /\ mode' = 2
  /\ pc' = NotifyAllWorkers
  /\ mainPc' = IF workers = {} THEN "joinThreads" ELSE "exitWait"
  /\ mainWaits' = (workers # {})

(* join(maximum_wait) keeps M from its last test to mode = 2; join() gives *)
(* it up in between, when wait_for_tasks returns.                          *)
Drained ==
  /\ AtDrainTest
  /\ ~WorkRemains
  /\ \/ /\ bounded
        /\ StopWorkers
     \/ /\ ~bounded
        /\ mainPc' = "drained"
        /\ UNCHANGED <<mode, pc, mainWaits>>
  /\ UNCHANGED <<work_queue, freethreads, working_workers, workers, unit,
                 mainUnit, bounded, history>>

Stop ==
  /\ mainPc = "drained"
  /\ StopWorkers
  /\ UNCHANGED <<work_queue, freethreads, working_workers, workers, unit,
                 mainUnit, bounded, history>>

ExitRecheck ==
  /\ mainPc = "exitWait"
  /\ ~mainWaits
  /\ mainPc' = IF workers = {} THEN "joinThreads" ELSE "exitWait"
  /\ mainWaits' = (workers # {})
  /\ UNCHANGED <<work_queue, freethreads, working_workers, mode, workers,
                 workerVars, mainUnit, bounded, history>>

(* thread->join() for every thread. *)
JoinThreads ==
  /\ mainPc = "joinThreads"
  /\ \A w \in Workers : pc[w] = "gone"
  /\ mainPc' = "joined"
  /\ UNCHANGED <<work_queue, freethreads, working_workers, mode, workers,
                 workerVars, mainWaits, mainUnit, bounded, history>>

(* Slip: only the second wait has a deadline.                              *)
DeadlineAtExitOnly ==
  /\ bounded
  /\ mainPc = "exitWait"
  /\ mainPc' = IF workers = {} THEN "joinThreads" ELSE "timedOut"
  /\ mainWaits' = FALSE
  /\ UNCHANGED <<work_queue, freethreads, working_workers, mode, workers,
                 workerVars, mainUnit, bounded, history>>

(* The deadline passes while join(maximum_wait) is in a wait.  The first   *)
(* wait gives up at once; the second looks at its predicate a last time.   *)
Deadline ==
  /\ bounded
  /\ \/ mainPc = "drain" /\ mainPc' = "timedOut"
     \/ /\ mainPc = "exitWait"
        /\ mainPc' = IF workers = {} THEN "joinThreads" ELSE "timedOut"
  /\ mainWaits' = FALSE
  /\ UNCHANGED <<work_queue, freethreads, working_workers, mode, workers,
                 workerVars, mainUnit, bounded, history>>

(* The end: the pool is joined, or destroyed after a failed launch. *)
Done == mainPc \in {"joined", "destroyed"} /\ UNCHANGED vars

-----------------------------------------------------------------------------
WorkerStep(w) ==
  \/ Start(w) \/ Sleep(w) \/ Timeout(w) \/ Take(w)
  \/ (\E t \in Tasks \ Roots : WorkerPush(w, t))
  \/ Release(w) \/ Uncount(w) \/ Free(w)
  \/ Exit(w) \/ Deregister(w) \/ Announce(w)

MainContinues ==
  \/ PushRetry \/ MainThreadWake \/ DrainWait \/ Drained \/ Stop
  \/ ExitRecheck \/ JoinThreads \/ Destroy

Next ==
  \/ \E w \in Workers : Launch(w) \/ LaunchFails(w) \/ WorkerStep(w)
  \/ \E t \in Roots : MainPush(t)
  \/ MainThreadWait \/ SpuriousWake \/ BeginJoin
  \/ MainContinues \/ Deadline \/ Done

Spec == Init /\ [][Next]_vars

(* The operating system runs every thread that can run and time passes,    *)
(* but a scanner may never return.  Nothing forces the producer to produce *)
(* or to join.                                                             *)
FairSpec == /\ Spec
            /\ \A w \in Workers :
                 /\ WF_vars(Start(w) \/ Sleep(w) \/ Timeout(w) \/ Take(w))
                 /\ WF_vars(Uncount(w) \/ Free(w))
                 /\ WF_vars(Exit(w) \/ Deregister(w) \/ Announce(w))
            /\ WF_vars(MainContinues)
            /\ WF_vars(Deadline)

(* What some of the properties assume besides: every scanner returns.      *)
ScannersReturn == \A w \in Workers : WF_vars(Release(w))

-----------------------------------------------------------------------------
(* What the pool guarantees.                                               *)

(* Type invariant.                                                         *)
TypeOK == /\ work_queue \in Seq(Tasks)
          /\ freethreads \in Int
          /\ working_workers \in Int
          /\ mode \in {0, 2}
          /\ workers \subseteq Workers
          /\ pc \in [Workers -> WorkerStates]
          /\ unit \in [Workers -> Tasks \union {NoTask}]
          /\ mainPc \in MainStates
          /\ mainWaits \in BOOLEAN
          /\ mainUnit \in Tasks \union {NoTask}
          /\ bounded \in BOOLEAN
          /\ pushed \subseteq Tasks
          /\ released \subseteq pushed

FreeWorkers    == {w \in Workers : pc[w] \in {"ready", "waiting"}}
WorkingWorkers == {w \in Workers : pc[w] \in {"running", "released"}}

(* The two counters the main thread decides by never drift from the        *)
(* workers they count, although one of them is decremented outside M:      *)
(* push_task waits on freethreads and the joins on working_workers.        *)
Accounting == /\ freethreads = Cardinality(FreeWorkers)
              /\ working_workers = Cardinality(WorkingWorkers)

Queued == {work_queue[i] : i \in DOMAIN work_queue}
Held   == {unit[w] : w \in {v \in Workers : pc[v] = "running"}}

(* No work unit is lost and none is processed twice: what has been pushed  *)
(* is in exactly one place, once: on the queue, in the hands of one        *)
(* worker, or released.                                                    *)
WorkConserved ==
  /\ pushed = Queued \union Held \union released
  /\ Queued \intersect Held = {}
  /\ (Queued \union Held) \intersect released = {}
  /\ \A i, j \in DOMAIN work_queue : work_queue[i] = work_queue[j] => i = j
  /\ \A v, w \in Workers :
       pc[v] = "running" /\ pc[w] = "running" /\ unit[v] = unit[w] => v = w

(* Once the workers are told to stop nothing is queued, nobody is working  *)
(* who could push more, everything pushed has been released, and no worker *)
(* sleeps through the order: join gives up M between its last test and     *)
(* mode = 2, and a timed join that gave up may be repeated.                *)
StopIsFinal ==
  mode = 2 => /\ work_queue = <<>>
              /\ WorkingWorkers = {}
              /\ pushed = released
              /\ Waiting = {}

(* A worker sleeps on TO_WORKER only while every queued unit has another   *)
(* worker already up for it: push_task's single notify_one loses no        *)
(* wake-up, and the one second timeout is not what gets work done.         *)
NoWorkerSleepsOverWork ==
  Waiting # {} => Len(work_queue) <= Cardinality({w \in Workers : pc[w] = "ready"})

(* The main thread never sleeps on TO_MAIN with nobody left to wake it: in *)
(* push_task it does not wait for a free worker while a worker waits for   *)
(* work, in the joins someone still owes it a notify.                      *)
MainIsHeard ==
  mainWaits =>
    /\ mainPc = "pushWait" => Waiting = {}
    /\ mainPc = "drain" =>
         \/ work_queue # <<>>
         \/ \E w \in Workers : pc[w] \in {"running", "released", "uncounted"}
    /\ mainPc = "exitWait" => workers # {} \/ \E w \in Workers : pc[w] = "erased"

(* The pool implements the abstract pool of WorkPool: in particular join   *)
(* comes back only when everything pushed has been released, and nothing   *)
(* is pushed after it.                                                     *)
Pool == INSTANCE WorkPool WITH pending <- pushed \ released,
                               done    <- released,
                               closed  <- mainPc = "joined"
ImplementsPool == Pool!PoolSpec

(* If the scanners return, every work unit that is pushed is eventually    *)
(* processed and released.                                                 *)
EveryUnitReleased ==
  ScannersReturn => \A t \in Tasks : t \in pushed ~> t \in released

(* If the scanners return, the producer never waits for ever, neither for  *)
(* a free worker nor in main_thread_wait, which it may enter after the     *)
(* last notify it could have heard.                                        *)
ProducerWaitEnds ==
  ScannersReturn =>
    (mainPc \in {"pushWait", "throttleWait"} ~> mainPc = "produce")

JoinStates == {"join", "drain", "drained", "exitWait", "joinThreads"}

(* If the scanners return, a join comes back, with a deadline or without.  *)
JoinReturns ==
  ScannersReturn => (mainPc \in JoinStates ~> mainPc \in {"joined", "timedOut"})

(* A join with a deadline comes back even if a scanner never returns.      *)
BoundedJoinReturns ==
  (mainPc \in JoinStates /\ bounded) ~> mainPc \in {"joined", "timedOut"}

(* No work unit is lost, neither in the queue nor to the order to stop.    *)
NoWorkLost == WorkConserved /\ StopIsFinal

(* Neither a worker nor the main thread misses the notify it sleeps for.   *)
NobodySleepsInVain == NoWorkerSleepsOverWork /\ MainIsHeard

(* Whoever waits comes back: the producer, and every join.                 *)
WaitsEnd == ProducerWaitEnds /\ JoinReturns /\ BoundedJoinReturns
=============================================================================
