-------------------------- MODULE ThreadPoolProofs --------------------------
(***************************************************************************)
(* Proofs about ThreadPool, for every finite set of workers and every set  *)
(* of work units: its counters are exact, it loses no work, its order to   *)
(* stop is final, nobody sleeps in vain, and it implements WorkPool.       *)
(***************************************************************************)
EXTENDS ThreadPool, SequenceTheorems, FiniteSetTheorems, TLAPS

-----------------------------------------------------------------------------
(* Type correctness is inductive together with where the work units are:   *)
(* what a worker runs and what is queued has been pushed, and what         *)
(* push_task holds while it waits is a work unit.                          *)
TypeInv == /\ TypeOK
           /\ Queued \subseteq pushed
           /\ \A w \in Workers : pc[w] = "running" => unit[w] \in pushed
           /\ mainPc = "pushWait" => mainUnit \in Roots

(* What notify_one does to the workers' control states: at most one worker *)
(* moves, from its wait to the head of its loop.                           *)
LEMMA NotifyOneLemma ==
  ASSUME pc \in [Workers -> WorkerStates], NEW p \in NotifyOneWorker
  PROVE  /\ p \in [Workers -> WorkerStates]
         /\ \A w \in Workers : \/ p[w] = pc[w]
                               \/ pc[w] = "waiting" /\ p[w] = "ready"
  BY DEF NotifyOneWorker, Waiting, WorkerStates

LEMMA NotifyAllLemma ==
  ASSUME pc \in [Workers -> WorkerStates]
  PROVE  /\ NotifyAllWorkers \in [Workers -> WorkerStates]
         /\ \A w \in Workers :
              NotifyAllWorkers[w] = IF pc[w] = "waiting" THEN "ready" ELSE pc[w]
  BY DEF NotifyAllWorkers, Waiting, WorkerStates

(* The state after a worker pushes: the same whoever pushes.               *)
LEMMA EnqueueTyped ==
  ASSUME TypeInv, NEW t \in Tasks, work_queue' = Append(work_queue, t),
         pushed' = pushed \union {t}, pc' \in NotifyOneWorker
  PROVE  /\ work_queue' \in Seq(Tasks)
         /\ pc' \in [Workers -> WorkerStates]
         /\ pushed' \subseteq Tasks
         /\ Queued' \subseteq pushed'
         /\ \A w \in Workers : pc'[w] = "running" => pc[w] = "running"
<1>1. work_queue \in Seq(Tasks) /\ pc \in [Workers -> WorkerStates]
      /\ pushed \subseteq Tasks /\ Queued \subseteq pushed
  BY DEF TypeInv, TypeOK
<1>2. /\ work_queue' \in Seq(Tasks)
      /\ \A i \in DOMAIN work_queue' : work_queue'[i] \in Queued \union {t}
  BY <1>1, AppendProperties DEF Queued
<1>3. Queued' \subseteq pushed'
  BY <1>1, <1>2 DEF Queued
<1> QED
  BY <1>1, <1>2, <1>3, NotifyOneLemma

LEMMA TypeInvStep == TypeInv /\ [Next]_vars => TypeInv'
<1> SUFFICES ASSUME TypeInv, [Next]_vars PROVE TypeInv'
  OBVIOUS
<1> USE DEF TypeInv, TypeOK, workerVars, mainVars, history
<1>1. ASSUME NEW w \in Workers, Launch(w) PROVE TypeInv'
  BY <1>1 DEF Launch, WorkerStates, MainStates, Queued
<1>2. ASSUME NEW w \in Workers, LaunchFails(w) PROVE TypeInv'
  BY <1>2 DEF LaunchFails, MainStates, Queued
<1>3. ASSUME NEW w \in Workers, Start(w) PROVE TypeInv'
  BY <1>3 DEF Start, WorkerStates, Queued
<1>4. ASSUME NEW w \in Workers, Sleep(w) PROVE TypeInv'
  BY <1>4 DEF Sleep, NotifyMain, WorkerStates, Queued
<1>5. ASSUME NEW w \in Workers, Timeout(w) PROVE TypeInv'
  BY <1>5 DEF Timeout, WorkerStates, Queued
<1>6. ASSUME NEW w \in Workers, Take(w) PROVE TypeInv'
  <2>1. /\ Head(work_queue) \in Queued
        /\ work_queue' \in Seq(Tasks)
        /\ Queued' \subseteq Queued
    BY <1>6, HeadTailProperties DEF Take, Queued
  <2> QED BY <1>6, <2>1 DEF Take, WorkerStates
<1>7. ASSUME NEW w \in Workers, NEW t \in Tasks \ Roots, WorkerPush(w, t)
      PROVE TypeInv'
  BY <1>7, EnqueueTyped DEF WorkerPush
<1>8. ASSUME NEW w \in Workers, Release(w) PROVE TypeInv'
  BY <1>8 DEF Release, WorkerStates, Queued
<1>9. ASSUME NEW w \in Workers, Uncount(w) PROVE TypeInv'
  BY <1>9 DEF Uncount, WorkerStates, Queued
<1>10. ASSUME NEW w \in Workers, Free(w) PROVE TypeInv'
  <2>1. /\ freethreads' \in Int
        /\ pc' \in [Workers -> WorkerStates]
        /\ \A v \in Workers : pc'[v] = "running" => pc[v] = "running"
    BY <1>10 DEF Free, WorkerStates
  <2> QED BY <1>10, <2>1 DEF Free, NotifyMain, Queued
<1>11. ASSUME NEW w \in Workers, Exit(w) PROVE TypeInv'
  BY <1>11 DEF Exit, WorkerStates, Queued
<1>12. ASSUME NEW w \in Workers, Deregister(w) PROVE TypeInv'
  BY <1>12 DEF Deregister, WorkerStates, Queued
<1>13. ASSUME NEW w \in Workers, Announce(w) PROVE TypeInv'
  BY <1>13 DEF Announce, NotifyMain, WorkerStates, Queued
<1>14. ASSUME NEW t \in Roots, MainPush(t) PROVE TypeInv'
  <2>1. CASE Enqueue(t) /\ UNCHANGED mainVars
    BY <1>14, <2>1, EnqueueTyped, TasksAssumption DEF MainPush, Enqueue
  <2>2. CASE ~(Enqueue(t) /\ UNCHANGED mainVars)
    BY <1>14, <2>2, TasksAssumption DEF MainPush, MainStates, Queued
  <2> QED BY <2>1, <2>2
<1>15. CASE PushRetry
  <2>1. CASE Enqueue(mainUnit)
    BY <1>15, <2>1, EnqueueTyped, TasksAssumption
       DEF PushRetry, Enqueue, MainStates
  <2>2. CASE ~Enqueue(mainUnit)
    BY <1>15, <2>2 DEF PushRetry, Queued
  <2> QED BY <2>1, <2>2
<1>16. CASE MainThreadWait
  BY <1>16 DEF MainThreadWait, MainStates, Queued
<1>17. CASE MainThreadWake
  BY <1>17 DEF MainThreadWake, MainStates, Queued
<1>18. CASE SpuriousWake
  BY <1>18 DEF SpuriousWake, Queued
<1>19. CASE BeginJoin
  BY <1>19 DEF BeginJoin, MainStates, Queued
<1>20. CASE DrainWait
  BY <1>20, NotifyOneLemma DEF DrainWait, MainStates, Queued
<1>21. CASE Drained
  BY <1>21, NotifyAllLemma DEF Drained, StopWorkers, MainStates, Queued
<1>22. CASE Stop
  BY <1>22, NotifyAllLemma DEF Stop, StopWorkers, MainStates, Queued
<1>23. CASE ExitRecheck
  BY <1>23 DEF ExitRecheck, MainStates, Queued
<1>24. CASE JoinThreads
  BY <1>24 DEF JoinThreads, MainStates, Queued
<1>25. CASE Destroy
  BY <1>25 DEF Destroy, MainStates, Queued
<1>26. CASE Deadline
  BY <1>26 DEF Deadline, MainStates, Queued
<1>27. CASE UNCHANGED vars
  BY <1>27 DEF vars, Queued
<1> QED
  BY <1>1, <1>2, <1>3, <1>4, <1>5, <1>6, <1>7, <1>8, <1>9, <1>10, <1>11,
     <1>12, <1>13, <1>14, <1>15, <1>16, <1>17, <1>18, <1>19, <1>20, <1>21,
     <1>22, <1>23, <1>24, <1>25, <1>26, <1>27
     DEF Next, WorkerStep, MainContinues, Done

LEMMA TypeInvInit == Init => TypeInv
<1> SUFFICES ASSUME Init PROVE TypeInv
  OBVIOUS
<1>1. work_queue \in Seq(Tasks) /\ Queued = {}
  <2>1. work_queue = <<>>
    BY DEF Init
  <2> QED BY <2>1 DEF Queued
<1>2. TypeOK
  <2>1. pc \in [Workers -> WorkerStates] /\ unit \in [Workers -> Tasks \union {NoTask}]
    BY DEF Init, WorkerStates
  <2>2. mainPc \in MainStates
    BY DEF Init, MainStates
  <2>3. /\ mainWaits \in BOOLEAN /\ bounded \in BOOLEAN
        /\ mainUnit \in Tasks \union {NoTask}
    BY DEF Init
  <2>4. workers \subseteq Workers /\ pushed \subseteq Tasks /\ released \subseteq pushed
    BY DEF Init
  <2>5. freethreads \in Int /\ working_workers \in Int /\ mode \in {0, 2}
    BY DEF Init
  <2> QED BY <1>1, <2>1, <2>2, <2>3, <2>4, <2>5 DEF TypeOK
<1> QED
  BY <1>1, <1>2 DEF Init, TypeInv

(* Every variable keeps its type, and only what has been pushed is ever    *)
(* released.                                                               *)
THEOREM TypeCorrect == Spec => []TypeOK
<1>1. TypeInv => TypeOK
  BY DEF TypeInv
<1> QED
  BY <1>1, TypeInvInit, TypeInvStep, PTL DEF Spec

-----------------------------------------------------------------------------
(* The counters.  An action either leaves a class of workers as it is or   *)
(* adds or removes the one worker that acts.                               *)

LEMMA CountLemma ==
  ASSUME NEW A \in SUBSET Workers, NEW w
  PROVE  /\ Cardinality(A) \in Nat
         /\ w \notin A => Cardinality(A \union {w}) = Cardinality(A) + 1
         /\ w \in A => Cardinality(A \ {w}) = Cardinality(A) - 1
         /\ Cardinality(A) = 0 <=> A = {}
<1>1. IsFiniteSet(A)
  BY FS_Subset, WorkersAssumption
<1> QED
  BY <1>1, FS_CardinalityType, FS_AddElement, FS_RemoveElement, FS_EmptySet

LEMMA SameClasses ==
  ASSUME Accounting, UNCHANGED <<freethreads, working_workers>>,
         \A w \in Workers : (w \in FreeWorkers') = (w \in FreeWorkers),
         \A w \in Workers : (w \in WorkingWorkers') = (w \in WorkingWorkers)
  PROVE  Accounting'
<1>1. FreeWorkers' = FreeWorkers /\ WorkingWorkers' = WorkingWorkers
  BY DEF FreeWorkers, WorkingWorkers
<1> QED BY <1>1 DEF Accounting

LEMMA AccountingStep == TypeInv /\ Accounting /\ [Next]_vars => Accounting'
<1> SUFFICES ASSUME TypeInv, Accounting, [Next]_vars PROVE Accounting'
  OBVIOUS
<1>0. pc \in [Workers -> WorkerStates]
  BY DEF TypeInv, TypeOK
<1>a. FreeWorkers \in SUBSET Workers /\ WorkingWorkers \in SUBSET Workers
  BY DEF FreeWorkers, WorkingWorkers
<1> USE DEF FreeWorkers, WorkingWorkers
<1>1. ASSUME NEW w \in Workers, Launch(w) PROVE Accounting'
  BY <1>0, <1>1, SameClasses DEF Launch
<1>2. ASSUME NEW w \in Workers, Start(w) PROVE Accounting'
  <2>1. /\ FreeWorkers' = FreeWorkers \union {w} /\ w \notin FreeWorkers
        /\ WorkingWorkers' = WorkingWorkers
    BY <1>0, <1>2 DEF Start
  <2> HIDE DEF FreeWorkers, WorkingWorkers
  <2> QED BY <1>a, <1>2, <2>1, CountLemma DEF Start, Accounting
<1>3. ASSUME NEW w \in Workers, Sleep(w) \/ Timeout(w) PROVE Accounting'
  BY <1>0, <1>3, SameClasses DEF Sleep, Timeout, mainVars, history
<1>4. ASSUME NEW w \in Workers, Take(w) PROVE Accounting'
  <2>1. /\ FreeWorkers' = FreeWorkers \ {w} /\ w \in FreeWorkers
        /\ WorkingWorkers' = WorkingWorkers \union {w} /\ w \notin WorkingWorkers
    BY <1>0, <1>4 DEF Take
  <2> HIDE DEF FreeWorkers, WorkingWorkers
  <2> QED BY <1>a, <1>4, <2>1, CountLemma DEF Take, Accounting
<1>5. ASSUME UNCHANGED <<freethreads, working_workers>>, pc' \in NotifyOneWorker
      PROVE  Accounting'
  BY <1>0, <1>5, NotifyOneLemma, SameClasses
<1>6. ASSUME NEW w \in Workers, Release(w) PROVE Accounting'
  BY <1>0, <1>6, SameClasses DEF Release
<1>7. ASSUME NEW w \in Workers, Uncount(w) PROVE Accounting'
  <2>1. /\ FreeWorkers' = FreeWorkers
        /\ WorkingWorkers' = WorkingWorkers \ {w} /\ w \in WorkingWorkers
    BY <1>0, <1>7 DEF Uncount
  <2> HIDE DEF FreeWorkers, WorkingWorkers
  <2> QED BY <1>a, <1>7, <2>1, CountLemma DEF Uncount, Accounting
<1>8. ASSUME NEW w \in Workers, Free(w) PROVE Accounting'
  <2>1. /\ FreeWorkers' = FreeWorkers \union {w} /\ w \notin FreeWorkers
        /\ WorkingWorkers' = WorkingWorkers
    BY <1>0, <1>8 DEF Free
  <2> HIDE DEF FreeWorkers, WorkingWorkers
  <2> QED BY <1>a, <1>8, <2>1, CountLemma DEF Free, Accounting
<1>9. ASSUME NEW w \in Workers, Exit(w) PROVE Accounting'
  <2>1. /\ FreeWorkers' = FreeWorkers \ {w} /\ w \in FreeWorkers
        /\ WorkingWorkers' = WorkingWorkers
    BY <1>0, <1>9 DEF Exit
  <2> HIDE DEF FreeWorkers, WorkingWorkers
  <2> QED BY <1>a, <1>9, <2>1, CountLemma DEF Exit, Accounting
<1>10. ASSUME NEW w \in Workers, Deregister(w) \/ Announce(w) PROVE Accounting'
  BY <1>0, <1>10, SameClasses DEF Deregister, Announce
<1>11. ASSUME UNCHANGED <<freethreads, working_workers, pc>> PROVE Accounting'
  BY <1>11, SameClasses
<1>12. ASSUME UNCHANGED <<freethreads, working_workers>>, pc' = NotifyAllWorkers
       PROVE  Accounting'
  BY <1>0, <1>12, NotifyAllLemma, SameClasses
<1>13. ASSUME NEW w \in Workers, NEW t \in Tasks, WorkerPush(w, t)
       PROVE  Accounting'
  BY <1>5, <1>13 DEF WorkerPush
<1>14. ASSUME NEW t \in Roots, MainPush(t) PROVE Accounting'
  BY <1>5, <1>11, <1>14 DEF MainPush, Enqueue
<1>15. CASE PushRetry
  BY <1>5, <1>11, <1>15 DEF PushRetry, Enqueue
<1>16. CASE DrainWait
  BY <1>5, <1>16 DEF DrainWait
<1>17. CASE Drained \/ Stop
  BY <1>11, <1>12, <1>17 DEF Drained, Stop, StopWorkers
<1>18. CASE \/ MainThreadWait \/ MainThreadWake \/ SpuriousWake \/ BeginJoin
            \/ ExitRecheck \/ JoinThreads \/ Destroy \/ Deadline
            \/ UNCHANGED vars \/ \E w \in Workers : LaunchFails(w)
  BY <1>11, <1>18 DEF MainThreadWait, MainThreadWake, SpuriousWake, BeginJoin,
     ExitRecheck, JoinThreads, Destroy, Deadline, LaunchFails, vars, workerVars
<1> QED
  BY <1>1, <1>2, <1>3, <1>4, <1>6, <1>7, <1>8, <1>9, <1>10, <1>13, <1>14,
     <1>15, <1>16, <1>17, <1>18 DEF Next, WorkerStep, MainContinues, Done

(* The two counters never drift from the workers they count.               *)
THEOREM CountersExact == Spec => []Accounting
<1>1. Init => Accounting
  <2> SUFFICES ASSUME Init PROVE Accounting
    OBVIOUS
  <2>1. FreeWorkers = {} /\ WorkingWorkers = {}
    BY DEF Init, FreeWorkers, WorkingWorkers
  <2> QED BY <2>1, FS_EmptySet DEF Init, Accounting
<1> QED
  BY <1>1, TypeInvInit, TypeInvStep, AccountingStep, PTL DEF Spec

-----------------------------------------------------------------------------
(* The pool loses no work, and implements WorkPool.                        *)

Running == {w \in Workers : pc[w] = "running"}

(* WorkConserved, with the unit the producer holds across its wait.        *)
WorkInv == /\ WorkConserved
           /\ mainPc = "pushWait" => mainUnit \notin pushed

(* The states from which the main thread cannot produce any more.          *)
AfterStop == {"join", "drain", "drained", "exitWait", "joinThreads", "joined",
              "timedOut"}

(* What makes the order to stop final.  It is already true at "drained",   *)
(* where join() has given up M but not yet set the mode.                   *)
StopInv ==
  /\ mode = 2 \/ mainPc = "drained" => work_queue = <<>> /\ WorkingWorkers = {}
  /\ mode = 2 => Waiting = {} /\ mainPc \in AfterStop
  /\ mainPc \in {"exitWait", "joinThreads", "joined"} => mode = 2

-----------------------------------------------------------------------------
(* Work units stay where they are if the queue, the running workers and    *)
(* their units do.                                                         *)
LEMMA WorkStays ==
  ASSUME WorkConserved, UNCHANGED <<work_queue, pushed, released>>,
         Running' = Running, \A w \in Running : unit'[w] = unit[w]
  PROVE  WorkConserved'
<1>1. Held' = Held /\ Queued' = Queued
  BY DEF Held, Queued, Running
<1> QED BY <1>1 DEF WorkConserved, Running

(* A new unit that is appended to the queue is nowhere else.               *)
LEMMA WorkEnqueued ==
  ASSUME TypeInv, WorkConserved, NEW t \in Tasks, t \notin pushed,
         work_queue' = Append(work_queue, t), pushed' = pushed \union {t},
         pc' \in NotifyOneWorker, UNCHANGED <<unit, released>>
  PROVE  WorkConserved'
<1>1. work_queue \in Seq(Tasks) /\ pc \in [Workers -> WorkerStates]
      /\ released \subseteq pushed
  BY DEF TypeInv, TypeOK
<1>2. Held' = Held
      /\ \A w \in Workers : pc'[w] = "running" <=> pc[w] = "running"
  BY <1>1, NotifyOneLemma DEF Held
<1>3. Queued' = Queued \union {t}
  BY <1>1, AppendProperties DEF Queued
<1>4. t \notin Queued /\ t \notin Held
  BY DEF WorkConserved
<1>5. \A i, j \in DOMAIN work_queue' : work_queue'[i] = work_queue'[j] => i = j
  <2> SUFFICES ASSUME NEW i \in DOMAIN work_queue', NEW j \in DOMAIN work_queue',
                      work_queue'[i] = work_queue'[j]
               PROVE  i = j
    OBVIOUS
  <2>1. DOMAIN work_queue = 1..Len(work_queue) /\ Len(work_queue) \in Nat
    BY <1>1
  <2>2. \A k \in DOMAIN work_queue' : /\ k \in DOMAIN work_queue \/ k = Len(work_queue) + 1
                                      /\ k \in DOMAIN work_queue => work_queue'[k] = work_queue[k]
                                                                    /\ work_queue[k] # t
                                      /\ k = Len(work_queue) + 1 => work_queue'[k] = t
    BY <1>1, <1>4, <2>1, AppendProperties DEF Queued
  <2>3. \A k, l \in DOMAIN work_queue : work_queue[k] = work_queue[l] => k = l
    BY DEF WorkConserved
  <2> QED BY <2>2, <2>3
<1>6. /\ pushed' = Queued' \union Held' \union released'
      /\ Queued' \intersect Held' = {}
      /\ (Queued' \union Held') \intersect released' = {}
  BY <1>1, <1>2, <1>3, <1>4 DEF WorkConserved
<1> QED BY <1>2, <1>5, <1>6 DEF WorkConserved

(* The head of the queue goes to the worker that takes it.                 *)
LEMMA WorkTaken ==
  ASSUME TypeInv, WorkConserved, NEW w \in Workers, Take(w)
  PROVE  WorkConserved'
<1> DEFINE t == Head(work_queue)
<1>1. /\ work_queue \in Seq(Tasks) /\ work_queue # <<>>
      /\ pc \in [Workers -> WorkerStates]
      /\ unit \in [Workers -> Tasks \union {NoTask}]
      /\ pc[w] = "ready" /\ work_queue' = Tail(work_queue)
      /\ pc' = [pc EXCEPT ![w] = "running"]
      /\ unit' = [unit EXCEPT ![w] = t]
      /\ UNCHANGED <<pushed, released>>
  BY DEF Take, TypeInv, TypeOK, history
<1>2. /\ DOMAIN work_queue = 1..Len(work_queue) /\ Len(work_queue) \in Nat
      /\ 1 \in DOMAIN work_queue /\ t = work_queue[1]
      /\ DOMAIN work_queue' = 1..(Len(work_queue) - 1)
      /\ \A i \in 1..(Len(work_queue) - 1) : work_queue'[i] = work_queue[i + 1]
  BY <1>1, HeadTailProperties
<1>3. \A i, j \in DOMAIN work_queue : work_queue[i] = work_queue[j] => i = j
  BY DEF WorkConserved
<1>4. t \in Queued /\ Queued' = Queued \ {t}
  <2>1. ASSUME NEW x \in Queued, x # t PROVE x \in Queued'
    <3>1. PICK i \in DOMAIN work_queue : x = work_queue[i]
      BY DEF Queued
    <3>2. i # 1 /\ i - 1 \in 1..(Len(work_queue) - 1) /\ (i - 1) + 1 = i
      BY <1>2, <2>1, <3>1
    <3>3. x = work_queue'[i - 1]
      BY <1>2, <3>1, <3>2
    <3> QED BY <1>2, <3>2, <3>3 DEF Queued
  <2>2. ASSUME NEW x \in Queued' PROVE x \in Queued /\ x # t
    <3>1. PICK i \in 1..(Len(work_queue) - 1) : x = work_queue[i + 1]
      BY <1>2 DEF Queued
    <3>2. i + 1 \in DOMAIN work_queue /\ i + 1 # 1
      BY <1>2
    <3> QED BY <1>2, <1>3, <3>1, <3>2 DEF Queued
  <2>3. t \in Queued
    BY <1>2 DEF Queued
  <2> HIDE DEF t
  <2> QED BY <2>1, <2>2, <2>3
<1>5. Held' = Held \union {t}
  BY <1>1 DEF Held
<1>6. t \notin Held /\ t \notin released
  BY <1>4 DEF WorkConserved
<1>7. \A i, j \in DOMAIN work_queue' : work_queue'[i] = work_queue'[j] => i = j
  <2> SUFFICES ASSUME NEW i \in 1..(Len(work_queue) - 1),
                      NEW j \in 1..(Len(work_queue) - 1),
                      work_queue'[i] = work_queue'[j]
               PROVE  i = j
    BY <1>2
  <2>1. i + 1 \in DOMAIN work_queue /\ j + 1 \in DOMAIN work_queue
    BY <1>2
  <2>2. i + 1 = j + 1
    BY <1>2, <1>3, <2>1
  <2> QED BY <2>2
<1>8. \A v \in Workers : pc[v] = "running" => unit[v] # t
  BY <1>6 DEF Held
<1>9. ASSUME NEW u \in Workers, NEW v \in Workers, pc'[u] = "running",
             pc'[v] = "running", unit'[u] = unit'[v]
      PROVE  u = v
  <2>1. CASE u # w /\ v # w
    BY <1>1, <1>9, <2>1 DEF WorkConserved
  <2>2. CASE u = w \/ v = w
    BY <1>1, <1>8, <1>9, <2>2
  <2> QED BY <2>1, <2>2
<1> HIDE DEF t
<1>10. /\ pushed' = Queued' \union Held' \union released'
       /\ Queued' \intersect Held' = {}
       /\ (Queued' \union Held') \intersect released' = {}
  BY <1>1, <1>4, <1>5, <1>6 DEF WorkConserved
<1> QED BY <1>7, <1>9, <1>10 DEF WorkConserved

(* A unit that is released is in nobody's hands any more.                  *)
LEMMA WorkReleased ==
  ASSUME TypeInv, WorkConserved, NEW w \in Workers, Release(w)
  PROVE  /\ WorkConserved'
         /\ unit[w] \in pushed \ released
         /\ UNCHANGED <<pushed, mainPc>>
<1>1. /\ pc \in [Workers -> WorkerStates]
      /\ unit \in [Workers -> Tasks \union {NoTask}]
      /\ pc[w] = "running"
      /\ pc' = [pc EXCEPT ![w] = "released"]
      /\ unit' = [unit EXCEPT ![w] = NoTask]
      /\ released' = released \union {unit[w]}
      /\ UNCHANGED <<work_queue, pushed, mainPc>>
  BY DEF Release, TypeInv, TypeOK, mainVars
<1>2. unit[w] \in Held /\ Queued' = Queued
  BY <1>1 DEF Held, Queued
<1>3. \A u, v \in Workers :
        pc[u] = "running" /\ pc[v] = "running" /\ unit[u] = unit[v] => u = v
  BY DEF WorkConserved
<1>4. Held' = Held \ {unit[w]}
  BY <1>1, <1>3 DEF Held
<1>5. \A v \in Workers : pc'[v] = "running" =>
        pc[v] = "running" /\ unit'[v] = unit[v]
  BY <1>1
<1> QED BY <1>1, <1>2, <1>3, <1>4, <1>5 DEF WorkConserved

LEMMA WorkInvStep == TypeInv /\ WorkInv /\ [Next]_vars => WorkInv'
<1> SUFFICES ASSUME TypeInv, WorkInv, [Next]_vars PROVE WorkInv'
  OBVIOUS
<1>0. WorkConserved /\ pc \in [Workers -> WorkerStates]
  BY DEF WorkInv, TypeInv, TypeOK
<1>a. ASSUME UNCHANGED <<mainPc, mainUnit, pushed>> PROVE (mainPc' = "pushWait" => mainUnit' \notin pushed')
  BY <1>a DEF WorkInv
<1>1. ASSUME NEW w \in Workers, Take(w) PROVE WorkInv'
  BY <1>0, <1>1, <1>a, WorkTaken DEF WorkInv, Take, mainVars, history
<1>2. ASSUME NEW w \in Workers, Release(w) PROVE WorkInv'
  BY <1>0, <1>2, <1>a, WorkReleased DEF WorkInv, Release, mainVars
<1>3. ASSUME NEW w \in Workers, NEW t \in Tasks \ Roots, WorkerPush(w, t)
      PROVE  WorkInv'
  <2>1. WorkConserved'
    BY <1>0, <1>3, WorkEnqueued DEF WorkerPush
  <2>2. mainPc' = "pushWait" => mainUnit' \in Roots /\ mainUnit' \notin pushed
    BY <1>3 DEF WorkerPush, mainVars, TypeInv, WorkInv
  <2> QED BY <1>3, <2>1, <2>2 DEF WorkInv, WorkerPush
<1>4. ASSUME NEW t \in Roots, MainPush(t) PROVE WorkInv'
  <2>1. CASE Enqueue(t) /\ UNCHANGED mainVars
    BY <1>0, <1>4, <2>1, WorkEnqueued, TasksAssumption
       DEF MainPush, Enqueue, WorkInv, mainVars
  <2>2. CASE /\ mainPc' = "pushWait" /\ mainUnit' = t
             /\ UNCHANGED <<work_queue, pushed, pc>>
    BY <1>0, <1>4, <2>2, WorkStays DEF MainPush, WorkInv, Running
  <2> QED BY <1>4, <2>1, <2>2 DEF MainPush
<1>5. CASE PushRetry
  <2>1. CASE Enqueue(mainUnit) /\ mainPc' = "produce"
    <3>1. mainUnit \in Tasks /\ mainUnit \notin pushed
      BY <1>5, TasksAssumption DEF PushRetry, WorkInv, TypeInv
    <3> QED BY <1>0, <1>5, <2>1, <3>1, WorkEnqueued DEF PushRetry, Enqueue, WorkInv
  <2>2. CASE UNCHANGED <<mainPc, mainUnit, work_queue, pushed, pc>>
    BY <1>0, <1>5, <1>a, <2>2, WorkStays DEF PushRetry, WorkInv, Running
  <2> QED BY <1>5, <2>1, <2>2 DEF PushRetry
<1>6. ASSUME UNCHANGED <<work_queue, pushed, released, unit>>, Running' = Running,
             mainPc' # "pushWait" \/ UNCHANGED <<mainPc, mainUnit>>
      PROVE  WorkInv'
  BY <1>0, <1>6, WorkStays DEF WorkInv
<1>7. ASSUME NEW w \in Workers, Launch(w) PROVE WorkInv'
  BY <1>0, <1>6, <1>7 DEF Launch, Running, history
<1>8. ASSUME NEW w \in Workers,
             Start(w) \/ Sleep(w) \/ Timeout(w) \/ Uncount(w) \/ Free(w)
             \/ Exit(w) \/ Deregister(w) \/ Announce(w)
      PROVE  WorkInv'
  <2>1. Running' = Running
    BY <1>0, <1>8 DEF Start, Sleep, Timeout, Uncount, Free, Exit, Deregister,
       Announce, Running
  <2> QED BY <1>6, <1>8, <2>1 DEF Start, Sleep, Timeout, Uncount, Free, Exit,
       Deregister, Announce, mainVars, history
<1>9. ASSUME pc' \in NotifyOneWorker \/ pc' = NotifyAllWorkers \/ pc' = pc
      PROVE  Running' = Running
  BY <1>0, <1>9, NotifyOneLemma, NotifyAllLemma DEF Running
<1>10. CASE DrainWait \/ Drained \/ Stop
  BY <1>6, <1>9, <1>10 DEF DrainWait, Drained, Stop, StopWorkers, history
<1>11. CASE \/ MainThreadWait \/ MainThreadWake \/ SpuriousWake \/ BeginJoin
            \/ ExitRecheck \/ JoinThreads \/ Destroy \/ Deadline
            \/ UNCHANGED vars \/ \E w \in Workers : LaunchFails(w)
  BY <1>6, <1>9, <1>11 DEF MainThreadWait, MainThreadWake, SpuriousWake, BeginJoin,
     ExitRecheck, JoinThreads, Destroy, Deadline, LaunchFails, vars, workerVars,
     mainVars, history
<1> QED
  BY <1>1, <1>2, <1>3, <1>4, <1>5, <1>7, <1>8, <1>10, <1>11
     DEF Next, WorkerStep, MainContinues, Done

LEMMA WorkInvInit == Init => WorkInv
<1> SUFFICES ASSUME Init PROVE WorkInv
  OBVIOUS
<1>1. Queued = {} /\ Held = {} /\ DOMAIN work_queue = {}
  BY DEF Init, Queued, Held
<1> QED BY <1>1 DEF Init, WorkInv, WorkConserved

-----------------------------------------------------------------------------
LEMMA StopInvStep ==
  TypeInv /\ Accounting /\ StopInv /\ [Next]_vars => StopInv'
<1> SUFFICES ASSUME TypeInv, Accounting, StopInv, [Next]_vars PROVE StopInv'
  OBVIOUS
<1>0. pc \in [Workers -> WorkerStates] /\ mode \in {0, 2}
  BY DEF TypeInv, TypeOK
<1>a. WorkRemains <=> work_queue # <<>> \/ WorkingWorkers # {}
  <2>1. WorkingWorkers \in SUBSET Workers
    BY DEF WorkingWorkers
  <2>2. /\ Cardinality(WorkingWorkers) \in Nat
        /\ Cardinality(WorkingWorkers) = 0 <=> WorkingWorkers = {}
    BY <2>1, CountLemma
  <2>3. working_workers = Cardinality(WorkingWorkers)
    BY DEF Accounting
  <2> HIDE DEF WorkingWorkers
  <2> QED BY <2>2, <2>3 DEF WorkRemains
(* What the workers do changes neither the mode nor the main thread.       *)
<1>b. ASSUME UNCHANGED <<mode, mainPc>>,
             mode = 2 \/ mainPc = "drained" =>
               /\ work_queue' = <<>>
               /\ WorkingWorkers' \subseteq WorkingWorkers
               /\ mode = 2 => Waiting' \subseteq Waiting
      PROVE  StopInv'
  BY <1>b DEF StopInv
<1>1. ASSUME NEW w \in Workers, WorkerStep(w) PROVE StopInv'
  <2>1. UNCHANGED <<mode, mainPc>>
    BY <1>1 DEF WorkerStep, Start, Sleep, Timeout, Take, WorkerPush, Release,
       Uncount, Free, Exit, Deregister, Announce, mainVars
  <2>2. ASSUME mode = 2 \/ mainPc = "drained"
        PROVE  /\ work_queue' = <<>>
               /\ WorkingWorkers' \subseteq WorkingWorkers
               /\ mode = 2 => Waiting' \subseteq Waiting
    <3>1. work_queue = <<>> /\ WorkingWorkers = {}
      BY <2>2 DEF StopInv
    <3>2. pc[w] \notin {"running", "released"}
      BY <3>1 DEF WorkingWorkers
    <3> QED BY <1>0, <1>1, <3>1, <3>2 DEF WorkerStep, Start, Sleep, Timeout, Take,
          WorkerPush, Release, Uncount, Free, Exit, Deregister, Announce,
          WorkingWorkers, Waiting
  <2> QED BY <1>b, <2>1, <2>2
<1>2. ASSUME mode # 2, UNCHANGED mode,
             mainPc' \notin {"drained", "exitWait", "joinThreads", "joined"}
      PROVE  StopInv'
  BY <1>2 DEF StopInv
<1>3. ASSUME mainPc \notin AfterStop PROVE mode # 2
  BY <1>3 DEF StopInv
<1>4. ASSUME NEW t \in Roots, MainPush(t) PROVE StopInv'
  BY <1>2, <1>3, <1>4 DEF MainPush, mainVars, AfterStop
<1>5. ASSUME NEW w \in Workers, Launch(w) \/ LaunchFails(w) PROVE StopInv'
  BY <1>2, <1>3, <1>5 DEF Launch, LaunchFails, AfterStop
<1>6. CASE PushRetry \/ MainThreadWait \/ MainThreadWake \/ Destroy
  BY <1>2, <1>3, <1>6 DEF PushRetry, MainThreadWait, MainThreadWake, Destroy, AfterStop
<1>7. ASSUME UNCHANGED <<work_queue, mode, pc>>, mainPc' \in AfterStop,
             mainPc' = "drained" => work_queue = <<>> /\ WorkingWorkers = {},
             mainPc' \in {"exitWait", "joinThreads", "joined"} => mode = 2
      PROVE  StopInv'
  BY <1>7 DEF StopInv, WorkingWorkers, Waiting
<1>8. CASE SpuriousWake
  BY <1>8 DEF SpuriousWake, StopInv, WorkingWorkers, Waiting, workerVars
<1>9. CASE BeginJoin \/ ExitRecheck \/ JoinThreads \/ Deadline
  BY <1>7, <1>9 DEF BeginJoin, ExitRecheck, JoinThreads, Deadline, StopInv,
     AfterStop, workerVars
<1>10. CASE DrainWait
  <2>1. mode # 2
    BY <1>10, <1>a DEF DrainWait, StopInv
  <2> QED BY <1>2, <1>10, <2>1 DEF DrainWait
<1>11. ASSUME StopWorkers, UNCHANGED work_queue, work_queue = <<>>, WorkingWorkers = {}
       PROVE  StopInv'
  <2>1. Waiting' = {} /\ WorkingWorkers' = {}
    BY <1>0, <1>11, NotifyAllLemma DEF StopWorkers, Waiting, WorkingWorkers
  <2> QED BY <1>11, <2>1 DEF StopWorkers, StopInv, AfterStop
<1>12. CASE Drained
  BY <1>7, <1>11, <1>12, <1>a DEF Drained, AfterStop
<1>13. CASE Stop
  BY <1>11, <1>13 DEF Stop, StopInv
<1>14. CASE UNCHANGED vars
  BY <1>14 DEF vars, StopInv, WorkingWorkers, Waiting, workerVars, mainVars
<1> QED
  BY <1>1, <1>4, <1>5, <1>6, <1>8, <1>9, <1>10, <1>12, <1>13, <1>14
     DEF Next, MainContinues, Done

LEMMA StopInvInit == Init => StopInv
  BY DEF Init, StopInv

(* At the order to stop everything that was pushed has been released.      *)
LEMMA NothingLeft == WorkInv /\ StopInv => NoWorkLost
<1> SUFFICES ASSUME WorkInv, StopInv PROVE NoWorkLost
  OBVIOUS
<1>1. ASSUME mode = 2 PROVE pushed = released
  <2>1. Queued = {} /\ Held = {}
    BY <1>1 DEF StopInv, Queued, Held, WorkingWorkers
  <2> QED BY <2>1 DEF WorkInv, WorkConserved
<1> QED BY <1>1 DEF NoWorkLost, WorkInv, StopInv, StopIsFinal

LEMMA PoolInvariant == Spec => [](TypeInv /\ Accounting /\ WorkInv /\ StopInv)
<1>1. Spec => []Accounting
  BY CountersExact
<1>2. Spec => []TypeInv
  BY TypeInvInit, TypeInvStep, PTL DEF Spec
<1>3. Spec => []WorkInv
  BY <1>2, WorkInvInit, WorkInvStep, PTL DEF Spec
<1>4. Spec => []StopInv
  BY <1>1, <1>2, StopInvInit, StopInvStep, PTL DEF Spec
<1> QED BY <1>1, <1>2, <1>3, <1>4, PTL

(* No work unit is lost or processed twice, and once the workers are told  *)
(* to stop nothing is queued, running, or will ever be pushed.             *)
THEOREM NoWorkLostHolds == Spec => []NoWorkLost
  BY PoolInvariant, NothingLeft, PTL

-----------------------------------------------------------------------------
(* Every step of the pool is a step of WorkPool or leaves it as it is.     *)
LEMMA PoolStep ==
  TypeInv /\ WorkInv /\ StopInv /\ [Next]_vars => [Pool!PoolNext]_(Pool!poolVars)
<1> SUFFICES ASSUME TypeInv, WorkInv, StopInv, [Next]_vars
             PROVE  [Pool!PoolNext]_(Pool!poolVars)
  OBVIOUS
<1> USE DEF Pool!PoolNext, Pool!poolVars
<1>0. released \subseteq pushed /\ pushed \subseteq Tasks
  BY DEF TypeInv, TypeOK
<1>a. ASSUME UNCHANGED <<pushed, released>>, (mainPc' = "joined") = (mainPc = "joined")
      PROVE  UNCHANGED Pool!poolVars
  BY <1>a
<1>b. ASSUME NEW t \in Tasks, t \notin pushed, pushed' = pushed \union {t},
             UNCHANGED released, mainPc # "joined", mainPc' # "joined"
      PROVE  Pool!Submit(t)
  BY <1>0, <1>b DEF Pool!Submit
<1>1. ASSUME NEW w \in Workers, NEW t \in Tasks \ Roots, WorkerPush(w, t)
      PROVE  Pool!Submit(t)
  <2>1. WorkingWorkers # {}
    BY <1>1 DEF WorkerPush, WorkingWorkers
  <2>2. mainPc # "joined"
    BY <2>1 DEF StopInv
  <2> QED BY <1>1, <1>b, <2>2 DEF WorkerPush, mainVars
<1>2. ASSUME NEW t \in Roots, MainPush(t)
      PROVE  Pool!Submit(t) \/ UNCHANGED Pool!poolVars
  BY <1>2, <1>a, <1>b, TasksAssumption DEF MainPush, Enqueue, mainVars
<1>3. ASSUME PushRetry PROVE Pool!Submit(mainUnit) \/ UNCHANGED Pool!poolVars
  BY <1>3, <1>a, <1>b, TasksAssumption DEF PushRetry, Enqueue, TypeInv, WorkInv
<1>4. ASSUME NEW w \in Workers, Release(w) PROVE Pool!Complete(unit[w])
  <2>1. unit[w] \in pushed \ released /\ UNCHANGED <<pushed, mainPc>>
    BY <1>4, WorkReleased DEF WorkInv
  <2>2. released' = released \union {unit[w]}
    BY <1>4 DEF Release
  <2> QED BY <2>1, <2>2 DEF Pool!Complete
<1>5. ASSUME JoinThreads PROVE Pool!Close
  <2>1. pushed = released
    BY <1>5, NothingLeft DEF JoinThreads, StopInv, NoWorkLost, StopIsFinal
  <2> QED BY <1>5, <2>1 DEF JoinThreads, Pool!Close, history
<1>6. ASSUME NEW w \in Workers,
             \/ Launch(w) \/ LaunchFails(w) \/ Start(w) \/ Sleep(w) \/ Timeout(w)
             \/ Take(w) \/ Uncount(w) \/ Free(w) \/ Exit(w) \/ Deregister(w)
             \/ Announce(w)
      PROVE  UNCHANGED Pool!poolVars
  BY <1>6, <1>a DEF Launch, LaunchFails, Start, Sleep, Timeout, Take, Uncount, Free,
     Exit, Deregister, Announce, mainVars, history
<1>7. ASSUME \/ MainThreadWait \/ MainThreadWake \/ SpuriousWake \/ BeginJoin
             \/ DrainWait \/ Drained \/ Stop \/ ExitRecheck \/ Destroy
             \/ Deadline \/ UNCHANGED vars
      PROVE  UNCHANGED Pool!poolVars
  BY <1>7, <1>a DEF MainThreadWait, MainThreadWake, SpuriousWake, BeginJoin,
     DrainWait, Drained, Stop, StopWorkers, ExitRecheck, Destroy, Deadline, AtDrainTest,
     vars, mainVars, history
<1>8. PushRetry => mainUnit \in Tasks
  BY TasksAssumption DEF PushRetry, TypeInv
<1>9. \A w \in Workers : Release(w) => unit[w] \in Tasks
  BY <1>0, WorkReleased DEF WorkInv
<1> QED
  BY <1>1, <1>2, <1>3, <1>4, <1>5, <1>6, <1>7, <1>8, <1>9, TasksAssumption
     DEF Next, WorkerStep, MainContinues, Done

(* The pool implements WorkPool: each unit is completed once, and the join *)
(* comes back only when nothing is pending and nothing can be pushed.      *)
THEOREM ImplementsPoolHolds == Spec => ImplementsPool
<1>1. Init => Pool!PoolInit
  BY DEF Init, Pool!PoolInit
<1> QED
  BY <1>1, PoolInvariant, PoolStep, PTL DEF Spec, ImplementsPool, Pool!PoolSpec
-----------------------------------------------------------------------------
(* The wake-ups.  Workers that are ready to look at the queue.             *)
ReadyWorkers == {w \in Workers : pc[w] = "ready"}

LEMMA ReadyCount ==
  ASSUME NEW A \in SUBSET Workers, NEW B \in SUBSET Workers
  PROVE  /\ Cardinality(A) \in Nat /\ Cardinality(B) \in Nat
         /\ A \subseteq B => Cardinality(A) <= Cardinality(B)
         /\ \A w : w \in A /\ B = A \ {w} => Cardinality(B) = Cardinality(A) - 1
         /\ \A w : w \notin A /\ B = A \union {w} => Cardinality(B) = Cardinality(A) + 1
<1>1. IsFiniteSet(A) /\ IsFiniteSet(B)
  BY FS_Subset, WorkersAssumption
<1> QED
  BY <1>1, FS_CardinalityType, FS_AddElement, FS_RemoveElement, FS_Subset

(* The wake-up of a push makes up for the unit that is pushed.             *)
LEMMA PushWakes ==
  ASSUME TypeInv, NoWorkerSleepsOverWork, NEW t \in Tasks,
         work_queue' = Append(work_queue, t), pc' \in NotifyOneWorker
  PROVE  NoWorkerSleepsOverWork'
<1>0. /\ pc \in [Workers -> WorkerStates]
      /\ Len(work_queue) \in Nat
      /\ Len(work_queue') = Len(work_queue) + 1
  BY AppendProperties DEF TypeInv, TypeOK
<1> SUFFICES ASSUME Waiting' # {}
             PROVE  Len(work_queue') <= Cardinality(ReadyWorkers')
  BY DEF NoWorkerSleepsOverWork, ReadyWorkers
<1>1. Waiting # {}
  BY <1>0, NotifyOneLemma DEF Waiting
<1>2. PICK w \in Waiting : pc' = [pc EXCEPT ![w] = "ready"]
  BY <1>1 DEF NotifyOneWorker
<1>3. ReadyWorkers' = ReadyWorkers \union {w} /\ w \notin ReadyWorkers
  BY <1>0, <1>2 DEF ReadyWorkers, Waiting
<1>4. ReadyWorkers \in SUBSET Workers /\ ReadyWorkers' \in SUBSET Workers
  BY DEF ReadyWorkers
<1>5. Len(work_queue) <= Cardinality(ReadyWorkers)
  BY <1>1 DEF NoWorkerSleepsOverWork, ReadyWorkers
<1>6. /\ Cardinality(ReadyWorkers) \in Nat
      /\ Cardinality(ReadyWorkers') = Cardinality(ReadyWorkers) + 1
  BY <1>3, <1>4, ReadyCount
<1> QED BY <1>0, <1>5, <1>6

(* Nor does it hurt if the queue stays and nobody ready goes away.         *)
LEMMA ReadyStay ==
  ASSUME TypeInv, NoWorkerSleepsOverWork, UNCHANGED work_queue,
         ReadyWorkers \subseteq ReadyWorkers', Waiting' \subseteq Waiting
  PROVE  NoWorkerSleepsOverWork'
<1>1. ReadyWorkers \in SUBSET Workers /\ ReadyWorkers' \in SUBSET Workers
  BY DEF ReadyWorkers
<1>2. /\ Cardinality(ReadyWorkers) \in Nat /\ Cardinality(ReadyWorkers') \in Nat
      /\ Cardinality(ReadyWorkers) <= Cardinality(ReadyWorkers')
  BY <1>1, ReadyCount
<1>3. Len(work_queue) \in Nat /\ Len(work_queue') = Len(work_queue)
  BY DEF TypeInv, TypeOK
<1>4. Waiting # {} => Len(work_queue) <= Cardinality(ReadyWorkers)
  BY DEF NoWorkerSleepsOverWork, ReadyWorkers
<1>5. Waiting' # {} => Waiting # {}
  OBVIOUS
<1>6. Waiting' # {} => Len(work_queue') <= Cardinality(ReadyWorkers')
  BY <1>2, <1>3, <1>4, <1>5
<1> QED BY <1>6 DEF NoWorkerSleepsOverWork, ReadyWorkers

LEMMA EmptyQueue ==
  ASSUME work_queue' = <<>> PROVE NoWorkerSleepsOverWork'
<1>1. ReadyWorkers' \in SUBSET Workers
  BY DEF ReadyWorkers
<1>2. Cardinality(ReadyWorkers') \in Nat /\ Len(work_queue') = 0
  BY <1>1, ReadyCount
<1> QED BY <1>2 DEF NoWorkerSleepsOverWork, ReadyWorkers

LEMMA NoSleepStep ==
  TypeInv /\ NoWorkerSleepsOverWork /\ [Next]_vars => NoWorkerSleepsOverWork'
<1> SUFFICES ASSUME TypeInv, NoWorkerSleepsOverWork, [Next]_vars
             PROVE  NoWorkerSleepsOverWork'
  OBVIOUS
<1>0. pc \in [Workers -> WorkerStates] /\ work_queue \in Seq(Tasks)
  BY DEF TypeInv, TypeOK
<1>1. ASSUME NEW w \in Workers, Take(w) PROVE NoWorkerSleepsOverWork'
  <2>1. /\ ReadyWorkers' = ReadyWorkers \ {w} /\ w \in ReadyWorkers
        /\ Waiting' = Waiting
    BY <1>0, <1>1 DEF Take, ReadyWorkers, Waiting
  <2>2. ReadyWorkers \in SUBSET Workers /\ ReadyWorkers' \in SUBSET Workers
    BY DEF ReadyWorkers
  <2>3. /\ Cardinality(ReadyWorkers) \in Nat
        /\ Cardinality(ReadyWorkers') = Cardinality(ReadyWorkers) - 1
    BY <2>1, <2>2, ReadyCount
  <2>4. Len(work_queue) \in Nat /\ Len(work_queue') = Len(work_queue) - 1
    BY <1>0, <1>1, HeadTailProperties DEF Take
  <2>5. Waiting # {} => Len(work_queue) <= Cardinality(ReadyWorkers)
    BY DEF NoWorkerSleepsOverWork, ReadyWorkers
  <2>6. Waiting' # {} => Len(work_queue') <= Cardinality(ReadyWorkers')
    BY <2>1, <2>3, <2>4, <2>5
  <2> QED BY <2>6 DEF NoWorkerSleepsOverWork, ReadyWorkers
<1>2. ASSUME NEW w \in Workers, Sleep(w) \/ Exit(w) PROVE NoWorkerSleepsOverWork'
  BY <1>2, EmptyQueue DEF Sleep, Exit
<1>3. ASSUME NEW w \in Workers, NEW t \in Tasks, WorkerPush(w, t)
      PROVE  NoWorkerSleepsOverWork'
  BY <1>3, PushWakes DEF WorkerPush
<1>4. ASSUME NEW w \in Workers,
             \/ Launch(w) \/ Start(w) \/ Timeout(w) \/ Release(w) \/ Uncount(w)
             \/ Free(w) \/ Deregister(w) \/ Announce(w)
      PROVE  NoWorkerSleepsOverWork'
  <2>1. ReadyWorkers \subseteq ReadyWorkers' /\ Waiting' \subseteq Waiting
    BY <1>0, <1>4 DEF Launch, Start, Timeout, Release, Uncount, Free, Deregister,
       Announce, ReadyWorkers, Waiting
  <2> QED BY <1>4, <2>1, ReadyStay DEF Launch, Start, Timeout, Release, Uncount,
       Free, Deregister, Announce
<1>5. ASSUME UNCHANGED work_queue,
             pc' \in NotifyOneWorker \/ pc' = NotifyAllWorkers \/ pc' = pc
      PROVE  NoWorkerSleepsOverWork'
  <2>1. ReadyWorkers \subseteq ReadyWorkers' /\ Waiting' \subseteq Waiting
    BY <1>0, <1>5, NotifyOneLemma, NotifyAllLemma DEF ReadyWorkers, Waiting
  <2> QED BY <1>5, <2>1, ReadyStay
<1>6. ASSUME NEW t \in Roots, MainPush(t) PROVE NoWorkerSleepsOverWork'
  BY <1>5, <1>6, PushWakes, TasksAssumption DEF MainPush, Enqueue
<1>7. CASE PushRetry
  BY <1>5, <1>7, PushWakes, TasksAssumption DEF PushRetry, Enqueue, TypeInv
<1>8. CASE DrainWait \/ Drained \/ Stop
  BY <1>5, <1>8 DEF DrainWait, Drained, Stop, StopWorkers
<1>9. CASE \/ MainThreadWait \/ MainThreadWake \/ SpuriousWake \/ BeginJoin
           \/ ExitRecheck \/ JoinThreads \/ Destroy \/ Deadline
           \/ UNCHANGED vars \/ \E w \in Workers : LaunchFails(w)
  BY <1>5, <1>9 DEF MainThreadWait, MainThreadWake, SpuriousWake, BeginJoin,
     ExitRecheck, JoinThreads, Destroy, Deadline, LaunchFails, vars, workerVars
<1> QED
  BY <1>1, <1>2, <1>3, <1>4, <1>6, <1>7, <1>8, <1>9
     DEF Next, WorkerStep, MainContinues, Done

LEMMA HeardStep ==
  TypeInv /\ Accounting /\ MainIsHeard /\ [Next]_vars => MainIsHeard'
<1> SUFFICES ASSUME TypeInv, Accounting, MainIsHeard, [Next]_vars
             PROVE  MainIsHeard'
  OBVIOUS
<1>0. pc \in [Workers -> WorkerStates]
  BY DEF TypeInv, TypeOK
<1>a. freethreads = 0 => Waiting = {}
  <2>1. FreeWorkers \in SUBSET Workers
    BY DEF FreeWorkers
  <2>2. freethreads = 0 => FreeWorkers = {}
    BY <2>1, CountLemma DEF Accounting
  <2> QED BY <2>2 DEF FreeWorkers, Waiting
<1>b. WorkRemains => \/ work_queue # <<>>
                     \/ \E w \in Workers : pc[w] \in {"running", "released"}
  <2>1. working_workers = Cardinality(WorkingWorkers)
    BY DEF Accounting
  <2>2. working_workers > 0 => WorkingWorkers # {}
    BY <2>1, FS_EmptySet
  <2> QED BY <2>2 DEF WorkRemains, WorkingWorkers
<1>1. ASSUME mainWaits' = FALSE PROVE MainIsHeard'
  BY <1>1 DEF MainIsHeard
<1>2. ASSUME NEW w \in Workers, Sleep(w) \/ Free(w) \/ Announce(w) PROVE MainIsHeard'
  BY <1>1, <1>2 DEF Sleep, Free, Announce, NotifyMain
<1>3. ASSUME NEW w \in Workers,
             \/ Start(w) \/ Timeout(w) \/ Take(w) \/ Release(w) \/ Uncount(w)
             \/ Exit(w) \/ Deregister(w)
      PROVE  MainIsHeard'
  <2>1. UNCHANGED <<mainWaits, mainPc>>
    BY <1>3 DEF Start, Timeout, Take, Release, Uncount, Exit, Deregister, mainVars
  <2>2. Waiting' \subseteq Waiting
    BY <1>0, <1>3 DEF Start, Timeout, Take, Release, Uncount, Exit, Deregister, Waiting
  <2>3. work_queue # <<>> \/ (\E v \in Workers : pc[v] \in {"running", "released", "uncounted"})
        => \/ work_queue' # <<>>
           \/ \E v \in Workers : pc'[v] \in {"running", "released", "uncounted"}
    BY <1>0, <1>3 DEF Start, Timeout, Take, Release, Uncount, Exit, Deregister
  <2>4. workers # {} \/ (\E v \in Workers : pc[v] = "erased")
        => workers' # {} \/ \E v \in Workers : pc'[v] = "erased"
    BY <1>0, <1>3 DEF Start, Timeout, Take, Release, Uncount, Exit, Deregister
  <2> QED BY <2>1, <2>2, <2>3, <2>4 DEF MainIsHeard
<1>4. ASSUME NEW w \in Workers, NEW t \in Tasks, WorkerPush(w, t) PROVE MainIsHeard'
  <2>1. work_queue' # <<>> /\ Waiting' \subseteq Waiting
    BY <1>0, <1>4, NotifyOneLemma, AppendProperties DEF WorkerPush, Waiting, TypeInv, TypeOK
  <2>2. (\E v \in Workers : pc[v] = "erased") => \E v \in Workers : pc'[v] = "erased"
    BY <1>0, <1>4, NotifyOneLemma DEF WorkerPush
  <2> QED BY <1>4, <2>1, <2>2 DEF WorkerPush, MainIsHeard, mainVars
<1>5. ASSUME mainPc' \notin {"pushWait", "drain", "exitWait"} PROVE MainIsHeard'
  BY <1>5 DEF MainIsHeard
<1>6. ASSUME NEW w \in Workers, Launch(w) \/ LaunchFails(w) PROVE MainIsHeard'
  BY <1>5, <1>6 DEF Launch, LaunchFails
<1>7. ASSUME NEW t \in Roots, MainPush(t) PROVE MainIsHeard'
  <2>1. CASE UNCHANGED mainVars
    BY <1>5, <1>7, <2>1 DEF MainPush, mainVars
  <2>2. CASE freethreads = 0 /\ mainPc' = "pushWait" /\ UNCHANGED pc
    BY <1>a, <2>2 DEF MainIsHeard, Waiting
  <2> QED BY <1>7, <2>1, <2>2 DEF MainPush
<1>8. CASE PushRetry
  <2>1. CASE mainPc' = "produce"
    BY <1>5, <2>1
  <2>2. CASE freethreads = 0 /\ UNCHANGED <<mainPc, pc>>
    BY <1>8, <1>a, <2>2 DEF PushRetry, MainIsHeard, Waiting
  <2> QED BY <1>8, <2>1, <2>2 DEF PushRetry
<1>9. CASE DrainWait
  <2>1. \/ work_queue # <<>>
        \/ \E v \in Workers : pc'[v] \in {"running", "released"}
    BY <1>0, <1>9, <1>b, NotifyOneLemma DEF DrainWait
  <2> QED BY <1>9, <2>1 DEF DrainWait, MainIsHeard
<1>10. CASE Drained \/ Stop \/ ExitRecheck
  <2>1. CASE StopWorkers /\ UNCHANGED workers
    BY <2>1 DEF StopWorkers, MainIsHeard
  <2>2. CASE ExitRecheck
    BY <2>2 DEF ExitRecheck, MainIsHeard
  <2>3. CASE mainPc' = "drained"
    BY <1>5, <2>3
  <2> QED BY <1>10, <2>1, <2>2, <2>3 DEF Drained, Stop
<1>11. CASE SpuriousWake \/ Deadline
  BY <1>1, <1>11 DEF SpuriousWake, Deadline
<1>12. CASE MainThreadWait \/ MainThreadWake \/ BeginJoin \/ JoinThreads \/ Destroy
  BY <1>5, <1>12 DEF MainThreadWait, MainThreadWake, BeginJoin, JoinThreads, Destroy
<1>13. CASE UNCHANGED vars
  BY <1>13 DEF vars, workerVars, mainVars, MainIsHeard, Waiting
<1> QED
  BY <1>2, <1>3, <1>4, <1>6, <1>7, <1>8, <1>9, <1>10, <1>11, <1>12, <1>13
     DEF Next, WorkerStep, MainContinues, Done

(* Nobody sleeps over work: neither the workers, for whom each push wakes  *)
(* at most one, nor the main thread, whom the last of those it waits for   *)
(* wakes.                                                                  *)
THEOREM NobodySleepsInVainHolds == Spec => []NobodySleepsInVain
<1>1. Init => NoWorkerSleepsOverWork /\ MainIsHeard
  BY DEF Init, NoWorkerSleepsOverWork, MainIsHeard, Waiting
<1>2. Spec => []NoWorkerSleepsOverWork
  BY <1>1, TypeInvInit, TypeInvStep, NoSleepStep, PTL DEF Spec
<1>3. Spec => []MainIsHeard
  BY <1>1, PoolInvariant, HeardStep, PTL DEF Spec
<1> QED
  BY <1>2, <1>3, PTL DEF NobodySleepsInVain

=============================================================================
