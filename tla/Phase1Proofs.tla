----------------------------- MODULE Phase1Proofs -----------------------------
(***************************************************************************)
(* Proofs about Phase1, for images of any number of pages, any finite set  *)
(* of scanners, any number of workers, and any number of runs, crashes and *)
(* failures: first about single pages, at the end about the work units in  *)
(* flight as a set.                                                        *)
(***************************************************************************)
EXTENDS Phase1, SequenceTheorems, FiniteSetTheorems, TLAPS

-----------------------------------------------------------------------------
(* Queues and their elements.                                              *)

(* A queue of some units is a queue of more.                               *)
LEMMA SeqWeaken ==
  ASSUME NEW S, NEW T, S \subseteq T, NEW q \in Seq(S)
  PROVE  q \in Seq(T)
  OBVIOUS

(* A finite set as a sequence holds nothing but the elements of the set.   *)
LEMMA SetToSeqLemma ==
  ASSUME NEW S, IsFiniteSet(S)
  PROVE  SetToSeq(S) \in Seq(S)
<1>1. PICK f \in Bijection(1..Cardinality(S), S) : TRUE
  BY FS_CardinalityType DEF ExistsBijection
<1>2. f \in [1..Cardinality(S) -> S] /\ IsInjective(f)
  BY <1>1 DEF Bijection, Injection, IsInjective
<1>3. SetToSeq(S) \in [1..Cardinality(S) -> S]
  BY <1>2 DEF SetToSeq
<1> QED
  BY <1>3, FS_CardinalityType

(* A finite set as a sequence holds all elements of the set.               *)
LEMMA SetToSeqRange ==
  ASSUME NEW S, IsFiniteSet(S)
  PROVE  ToSet(SetToSeq(S)) = S
<1> DEFINE n == Cardinality(S)
           q == SetToSeq(S)
<1>1. PICK f \in Bijection(1..n, S) : TRUE
  BY FS_CardinalityType DEF ExistsBijection
<1>2. f \in [1..n -> S] /\ IsInjective(f)
  BY <1>1 DEF Bijection, Injection, IsInjective
<1>3. q \in [1..n -> S] /\ IsInjective(q)
  BY <1>2 DEF SetToSeq
<1>4. n \in Nat /\ IsFiniteSet(1..n) /\ Cardinality(1..n) = n
  BY FS_CardinalityType, FS_Interval
<1> HIDE DEF q, n
<1>5. q \in Injection(1..n, S)
  BY <1>3 DEF Injection, IsInjective
<1>6. q \in Surjection(1..n, S)
  BY <1>4, <1>5, FS_Injection DEF n
<1>7. \A t \in S : \E i \in 1..n : q[i] = t
  BY <1>6 DEF Surjection
<1>8. {q[i] : i \in DOMAIN q} = S
  BY <1>3, <1>7
<1> QED
  BY <1>8 DEF ToSet, q

(* Appending a unit adds it to the units in the queue.                     *)
LEMMA ToSetAppend ==
  ASSUME NEW S, NEW q \in Seq(S), NEW t \in S
  PROVE  ToSet(Append(q, t)) = ToSet(q) \union {t}
<1> DEFINE r == Append(q, t)
           n == Len(q)
<1>1. /\ n \in Nat /\ DOMAIN q = 1..n /\ DOMAIN r = 1..(n + 1)
      /\ \A i \in 1..n : r[i] = q[i]
      /\ r[n + 1] = t
  BY AppendProperties
<1> HIDE DEF r, n
<1>2. 1..(n + 1) = 1..n \union {n + 1}
  BY <1>1
<1>3. {r[i] : i \in DOMAIN r} = {q[i] : i \in DOMAIN q} \union {t}
  BY <1>1, <1>2
<1> QED
  BY <1>3 DEF ToSet, r

(* The head of a queue and the rest are all its units.                     *)
LEMMA ToSetTail ==
  ASSUME NEW S, NEW q \in Seq(S), q # <<>>
  PROVE  ToSet(q) = {Head(q)} \union ToSet(Tail(q))
<1> DEFINE r == Tail(q)
           n == Len(q)
           h == Head(q)
<1>1. /\ n \in Nat /\ DOMAIN q = 1..n /\ DOMAIN r = 1..(n - 1)
      /\ 1 \in 1..n /\ q[1] = h
      /\ \A i \in 1..(n - 1) : r[i] = q[i + 1]
  BY HeadTailProperties
<1> HIDE DEF r, n, h
<1>2. /\ \A i \in 1..(n - 1) : i + 1 \in 1..n
      /\ \A i \in 1..n : i = 1 \/ (i - 1 \in 1..(n - 1) /\ (i - 1) + 1 = i)
  BY <1>1
<1>3. ASSUME NEW i \in 1..n PROVE q[i] \in {h} \union {r[j] : j \in 1..(n - 1)}
  <2>1. CASE i = 1
    BY <1>1, <2>1
  <2>2. CASE i # 1
    <3>1. i - 1 \in 1..(n - 1) /\ q[i] = r[i - 1]
      BY <1>1, <1>2, <2>2
    <3> QED BY <3>1
  <2> QED BY <2>1, <2>2
<1>4. ASSUME NEW j \in 1..(n - 1) PROVE r[j] \in {q[i] : i \in 1..n}
  BY <1>1, <1>2
<1>5. {q[i] : i \in 1..n} = {h} \union {r[j] : j \in 1..(n - 1)}
  BY <1>1, <1>3, <1>4
<1> QED
  BY <1>1, <1>5 DEF ToSet, r, h

(* Two queues together hold the units of both.                             *)
LEMMA ToSetConcat ==
  ASSUME NEW S, NEW q \in Seq(S), NEW r \in Seq(S)
  PROVE  ToSet(q \o r) = ToSet(q) \union ToSet(r)
<1> DEFINE c == q \o r
           n == Len(q)
           m == Len(r)
<1>1. /\ n \in Nat /\ m \in Nat
      /\ DOMAIN q = 1..n /\ DOMAIN r = 1..m /\ DOMAIN c = 1..(n + m)
      /\ \A i \in 1..n : c[i] = q[i]
      /\ \A i \in (n + 1)..(n + m) : c[i] = r[i - n] /\ i - n \in 1..m
  BY ConcatProperties
<1> HIDE DEF c, n, m
<1>2. /\ 1..(n + m) = 1..n \union (n + 1)..(n + m)
      /\ \A i \in 1..m : n + i \in (n + 1)..(n + m) /\ (n + i) - n = i
  BY <1>1
<1>3. ASSUME NEW i \in 1..(n + m)
      PROVE  c[i] \in {q[j] : j \in 1..n} \union {r[j] : j \in 1..m}
  <2>1. CASE i \in 1..n
    BY <1>1, <2>1
  <2>2. CASE i \in (n + 1)..(n + m)
    BY <1>1, <2>2
  <2> QED BY <1>2, <2>1, <2>2
<1>4. \A i \in 1..n : i \in 1..(n + m) /\ q[i] = c[i]
  BY <1>1
<1>5. ASSUME NEW i \in 1..m PROVE n + i \in 1..(n + m) /\ r[i] = c[n + i]
  <2>1. n + i \in (n + 1)..(n + m) /\ (n + i) - n = i
    BY <1>2
  <2>2. c[n + i] = r[(n + i) - n]
    BY <1>1, <2>1
  <2> QED BY <1>1, <2>1, <2>2
<1>6. {c[i] : i \in 1..(n + m)} = {q[j] : j \in 1..n} \union {r[j] : j \in 1..m}
  BY <1>3, <1>4, <1>5
<1> QED
  BY <1>1, <1>6 DEF ToSet, c

(* A queue holds at most as many different units as it is long.            *)
LEMMA ToSetSize ==
  ASSUME NEW S, NEW q \in Seq(S)
  PROVE  IsFiniteSet(ToSet(q)) /\ Cardinality(ToSet(q)) <= Len(q)
<1>1. Len(q) \in Nat /\ DOMAIN q = 1..Len(q)
  OBVIOUS
<1>2. IsFiniteSet(1..Len(q)) /\ Cardinality(1..Len(q)) = Len(q)
  BY <1>1, FS_Interval
<1>3. q \in Surjection(1..Len(q), ToSet(q))
  BY <1>1 DEF Surjection, ToSet
<1> QED
  BY <1>2, <1>3, FS_Surjection

(* The units a page becomes.                                               *)
LEMMA FanOutTyped ==
  ASSUME NEW p \in Pages
  PROVE  SetToSeq({[page |-> p, scanner |-> s] : s \in Scanners})
           \in Seq([page : {p}, scanner : Scanners])
<1> DEFINE S == {[page |-> p, scanner |-> s] : s \in Scanners}
<1>1. IsFiniteSet(S)
  <2> DEFINE f == [s \in Scanners |-> [page |-> p, scanner |-> s]]
  <2>1. f \in Bijection(Scanners, S)
    BY DEF Bijection, Injection, Surjection, IsInjective
  <2> QED BY <2>1, WorkAssumption, FS_Bijection DEF ExistsBijection
<1>2. S \subseteq [page : {p}, scanner : Scanners]
  OBVIOUS
<1> HIDE DEF S
<1>3. SetToSeq(S) \in Seq(S)
  BY <1>1, SetToSeqLemma
<1>4. SetToSeq(S) \in Seq([page : {p}, scanner : Scanners])
  BY <1>2, <1>3, SeqWeaken
<1> QED BY <1>4 DEF S

-----------------------------------------------------------------------------
(* Type correctness.  That no page is scheduled beyond the end of the      *)
(* image needs the place of the main thread: it schedules a page only      *)
(* after it has tested the iterator.  The bound on the errors of a run is  *)
(* that on the errors of all runs.                                         *)
TypeInv == /\ TypeOK
           /\ mainPc = "scheduling" => it <= PageCount
           /\ disk_write_errors <= diskErrors

(* The strengthened type invariant holds at first and is kept by each      *)
(* step.                                                                   *)
LEMMA TypeInvInit == Init => TypeInv
<1> SUFFICES ASSUME Init PROVE TypeInv
  OBVIOUS
<1>1. work_queue \in Seq(Units)
  BY DEF Init
<1>2. /\ report \subseteq Pages /\ saved \subseteq Results
      /\ seen_page_ids \subseteq Pages /\ unrecorded \subseteq Pages
      /\ running \subseteq Units /\ buffered \subseteq Results
      /\ interrupted \subseteq Pages /\ readNow \subseteq Pages
      /\ unreadable \subseteq Pages /\ failed \subseteq Results
      /\ dropped \subseteq Results
  BY DEF Init
<1>3. /\ mainPc \in MainStates /\ sha1g \in BOOLEAN /\ hashWritten \in BOOLEAN
      /\ forgotten \in BOOLEAN /\ started \in [Pages -> Nat]
  BY DEF Init, MainStates
<1>4. /\ it \in 1..(PageCount + 1) /\ hash_next \in 1..(PageCount + 1)
      /\ disk_write_errors \in 0..MaxDiskErrors /\ runs \in 0..MaxRuns
      /\ crashes \in 0..MaxCrashes /\ diskErrors \in 0..MaxDiskErrors
      /\ readErrors \in 0..MaxReadErrors /\ exitCode \in {-1, 0, 1, 6, 8}
  BY ImageAssumption, FaultAssumption DEF Init
<1> QED
  BY <1>1, <1>2, <1>3, <1>4 DEF Init, TypeInv, TypeOK

(* No step leaves the types; StartPage needs FanOutTyped.                  *)
LEMMA TypeInvStep == TypeInv /\ [Next]_vars => TypeInv'
<1> SUFFICES ASSUME TypeInv, [Next]_vars PROVE TypeInv'
  OBVIOUS
<1> USE DEF TypeInv, TypeOK, disk, reader, pool, outcome, readPast, scanPast
<1>1. CASE Begin
  <2>1. /\ seen_page_ids' \subseteq Pages /\ report' \subseteq Pages
        /\ readNow' \subseteq Pages /\ unreadable' \subseteq Pages
    BY <1>1 DEF Begin
  <2>2. runs' \in 0..MaxRuns
    BY <1>1, FaultAssumption DEF Begin
  <2>3. mainPc' = "opening" /\ hashWritten' \in BOOLEAN
    BY <1>1, Zenon DEF Begin
  <2> QED BY <1>1, <2>1, <2>2, <2>3 DEF Begin, MainStates
<1>2. CASE OpenFails
  BY <1>2 DEF OpenFails, Forget, MainStates
<1>3. CASE Open
  BY <1>3, ImageAssumption, FaultAssumption DEF Open, MainStates
<1>4. CASE RecordSeen
  BY <1>4 DEF RecordSeen
<1>5. CASE AllRecorded \/ StopReading \/ EndOfImage
  BY <1>5 DEF AllRecorded, StopReading, EndOfImage, MainStates
<1>6. CASE SkipSeen
  BY <1>6, ImageAssumption DEF SkipSeen, AtPage
<1>7. CASE ReadFails
  BY <1>7, ImageAssumption, FaultAssumption DEF ReadFails, AtPage, Pages
<1>8. CASE ReadPage
  <2>1. it \in Pages
    BY <1>8, ImageAssumption DEF ReadPage, AtPage, Pages
  <2>2. hash_next' \in 1..(PageCount + 1)
    BY <1>8, <2>1, ImageAssumption DEF ReadPage, Hash, Pages
  <2>3. sha1g' \in BOOLEAN
    BY <1>8, Zenon DEF ReadPage, Hash
  <2> QED BY <1>8, <2>1, <2>2, <2>3, ImageAssumption DEF ReadPage, MainStates, Pages
<1>9. CASE Schedule
  <2>1. [page |-> it, scanner |-> WholePage] \in Units
    BY <1>9, ImageAssumption DEF Schedule, Units, Pages
  <2>2. work_queue' \in Seq(Units)
    BY <1>9, <2>1, AppendProperties DEF Schedule
  <2> QED BY <1>9, <2>2, ImageAssumption DEF Schedule, MainStates
<1>10. CASE Take
  BY <1>10, HeadTailProperties DEF Take
<1>11. ASSUME NEW p \in Pages, StartPage(p) PROVE TypeInv'
  <2> DEFINE S == SetToSeq({[page |-> p, scanner |-> s] : s \in Scanners})
  <2>1. S \in Seq(Units)
    <3>1. [page : {p}, scanner : Scanners] \subseteq Units
      BY DEF Units
    <3>2. S \in Seq([page : {p}, scanner : Scanners])
      BY FanOutTyped
    <3> HIDE DEF S
    <3> QED BY <3>1, <3>2, SeqWeaken
  <2>2. work_queue' = work_queue \o S
    BY <1>11 DEF StartPage
  <2> HIDE DEF S
  <2>3. work_queue' \in Seq(Units)
    BY <2>1, <2>2, ConcatProperties
  <2> QED BY <1>11, <2>3 DEF StartPage
<1>12. ASSUME NEW p \in Pages, NEW s \in Scanners, Scan(p, s) PROVE TypeInv'
  BY <1>12 DEF Scan, Results
<1>13. ASSUME NEW p \in Pages, NEW s \in Scanners, ScanFails(p, s) PROVE TypeInv'
  BY <1>13, FaultAssumption DEF ScanFails, Results
<1>14. CASE BufferWritten
  BY <1>14 DEF BufferWritten
<1>15. ASSUME NEW code \in {0, 6}, Exit(code) PROVE TypeInv'
  BY <1>15, FaultAssumption DEF Exit, MainStates
<1>16. CASE FailedJoin \/ JoinFails \/ Shutdown
  BY <1>15, <1>16 DEF FailedJoin, JoinFails, Shutdown
<1>17. CASE JoinSucceeds
  BY <1>17 DEF JoinSucceeds, MainStates
<1>18. ASSUME NEW code \in {8, -1}, Die(code), crashes' \in 0..MaxCrashes
       PROVE  TypeInv'
  <2>1. interrupted' \subseteq Pages
    <3>1. InFlight \subseteq Units
      BY DEF InFlight, ToSet
    <3> QED BY <1>18, <3>1 DEF Die, Units
  <2>2. /\ work_queue' \in Seq(Units) /\ running' \subseteq Units
        /\ buffered' \subseteq Results
    BY <1>18 DEF Die
  <2>3. /\ mainPc' = "off" /\ forgotten' \in BOOLEAN
        /\ exitCode' \in {-1, 0, 1, 6, 8}
    BY <1>18 DEF Die, Forget
  <2> QED BY <1>18, <2>1, <2>2, <2>3 DEF Die, MainStates
<1>19. CASE JoinTimesOut
  BY <1>18, <1>19 DEF JoinTimesOut
<1>20. CASE Crash
  BY <1>18, <1>20, FaultAssumption DEF Crash
<1>21. CASE UNCHANGED vars
  BY <1>21 DEF vars
<1> QED
  BY <1>1, <1>2, <1>3, <1>4, <1>5, <1>6, <1>7, <1>8, <1>9, <1>10, <1>11, <1>12,
     <1>13, <1>14, <1>16, <1>17, <1>19, <1>20, <1>21
     DEF Next, MainStep, WorkerStep, Done

(* Every variable keeps its type: in particular the iterator and the hash  *)
(* never go beyond the image, and only pages of the image are reported.    *)
THEOREM Phase1TypeCorrect == Spec => []TypeOK
<1>1. TypeInv => TypeOK
  BY DEF TypeInv
<1> QED
  BY <1>1, TypeInvInit, TypeInvStep, PTL DEF Spec
-----------------------------------------------------------------------------
(* What is in the pool: a page that waits to be started is there once, the *)
(* reader has gone past it, and outside of the reading nothing is left.    *)
Whole(p) == [page |-> p, scanner |-> WholePage]

Pending(p) == \/ Whole(p) \in running
              \/ \E i \in DOMAIN work_queue : work_queue[i] = Whole(p)

PendingOnce ==
  \A p \in Pages :
    /\ \A i, j \in DOMAIN work_queue :
         work_queue[i] = Whole(p) /\ work_queue[j] = Whole(p) => i = j
    /\ Whole(p) \in running =>
         \A i \in DOMAIN work_queue : work_queue[i] # Whole(p)

PendingBehind == \A p \in Pages : Pending(p) => p < it

PoolAtRest == mainPc \in {"off", "opening", "recording", "shutdown"} => Idle

PoolInv == TypeInv /\ PendingOnce /\ PendingBehind /\ PoolAtRest

(* What the report and the set of pages to skip know of the pages that     *)
(* were started, at each place of the main thread.                         *)
Known(p) ==
  /\ started[p] <= 1
  /\ Pending(p) => started[p] = 0
  /\ started[p] > 0 =>
       /\ mainPc \in {"opening", "recording"} => p \in seen_page_ids
       /\ mainPc = "recording" => p \in report \union unrecorded
       /\ mainPc \notin {"opening", "recording"} => p \in report
       /\ mainPc \notin {"off", "opening", "recording"} =>
            p \in seen_page_ids \/ p < it

StartedKnown == ~forgotten => \A p \in Pages : Known(p)

AboutToSchedule ==
  mainPc = "scheduling" => it \notin seen_page_ids

HistoryInv == AboutToSchedule /\ StartedKnown

(* Nothing the reader has passed is left out, and a report never names a   *)
(* page that no run has started.                                           *)
Covered(p) == \/ started[p] > 0
              \/ p \in unreadable
              \/ Pending(p)

ReportSound ==
  \A p \in Pages :
    p \in report \union seen_page_ids \union unrecorded => started[p] > 0

PassedCovered ==
  /\ mainPc = "recording" => it = 1
  /\ mainPc \in {"reading", "scheduling", "joining", "shutdown"} =>
       \A p \in Pages : p < it => Covered(p)
  /\ mainPc \in {"joining", "shutdown"} => it > PageCount

CoverInv == ReportSound /\ PassedCovered /\ NoPageLost

(* While the image is hashed the pages read are those hashed.              *)
HashInv ==
  /\ mainPc \in {"opening", "recording"} => readNow = {}
  /\ mainPc \notin {"off", "opening"} /\ sha1g => readNow = 1..(hash_next - 1)
  /\ hashWritten => mainPc \in {"shutdown", "off"}
  /\ NoHashOverGap

-----------------------------------------------------------------------------
(* What the steps do to the queue and to the units that are held.          *)

(* The unit of a page to be started tells the page, and is no scanner's.   *)
LEMMA WholeUnit ==
  ASSUME NEW p \in Pages
  PROVE  /\ Whole(p) \in Units
         /\ \A q \in Pages : Whole(p) = Whole(q) => p = q
         /\ \A q, s : s # WholePage => Whole(p) # [page |-> q, scanner |-> s]
  BY DEF Whole, Units

(* Of Schedule: one more page is pending, the one at the iterator.         *)
LEMMA ScheduleEffect ==
  ASSUME PoolInv, Schedule
  PROVE  /\ PendingOnce'
         /\ it \in Pages /\ ~Pending(it)
         /\ \A p \in Pages : Pending(p)' <=> Pending(p) \/ p = it
<1> DEFINE n == Len(work_queue)
<1>1. it \in Pages
  BY ImageAssumption DEF PoolInv, TypeInv, TypeOK, Schedule, Pages
<1>2. ~Pending(it)
  <2>1. ~(it < it)
    BY <1>1, ImageAssumption DEF Pages
  <2> QED BY <1>1, <2>1 DEF PoolInv, PendingBehind
<1>3. /\ work_queue \in Seq(Units) /\ Whole(it) \in Units
      /\ work_queue' = Append(work_queue, Whole(it))
      /\ running' = running /\ it' = it + 1
  BY <1>1, WholeUnit DEF PoolInv, TypeInv, TypeOK, Schedule, Whole, pool
<1>4. /\ n \in Nat
      /\ DOMAIN work_queue = 1..n
      /\ DOMAIN work_queue' = 1..(n + 1)
      /\ \A i \in 1..n : work_queue'[i] = work_queue[i]
      /\ work_queue'[n + 1] = Whole(it)
  BY <1>3, AppendProperties
<1> HIDE DEF n
<1>5. 1..(n + 1) = 1..n \union {n + 1}
  BY <1>4
<1>6. \A p \in Pages : Pending(p)' <=> Pending(p) \/ p = it
  <2> SUFFICES ASSUME NEW p \in Pages PROVE Pending(p)' <=> Pending(p) \/ p = it
    OBVIOUS
  <2>1. Pending(p)' <=> \/ Whole(p) \in running
                       \/ \E i \in DOMAIN work_queue' : work_queue'[i] = Whole(p)
    BY <1>3 DEF Pending, Whole
  <2>2. (\E i \in DOMAIN work_queue' : work_queue'[i] = Whole(p)) <=>
        (\E i \in DOMAIN work_queue : work_queue[i] = Whole(p)) \/ Whole(p) = Whole(it)
    BY <1>4, <1>5
  <2> QED BY <1>1, <2>1, <2>2, WholeUnit DEF Pending
<1>7. PendingOnce'
  <2> SUFFICES ASSUME NEW p \in Pages
               PROVE  /\ \A i, j \in DOMAIN work_queue' :
                           work_queue'[i] = Whole(p) /\ work_queue'[j] = Whole(p) => i = j
                      /\ Whole(p) \in running =>
                           \A i \in DOMAIN work_queue' : work_queue'[i] # Whole(p)
    BY <1>3 DEF PendingOnce, Whole
  <2>1. p = it => /\ Whole(p) \notin running
                  /\ \A i \in 1..n : work_queue[i] # Whole(p)
    BY <1>2, <1>4 DEF Pending
  <2>2. p # it => Whole(p) # Whole(it)
    BY <1>1, WholeUnit
  <2>3. /\ \A i, j \in 1..n :
             work_queue[i] = Whole(p) /\ work_queue[j] = Whole(p) => i = j
        /\ Whole(p) \in running => \A i \in 1..n : work_queue[i] # Whole(p)
    BY <1>4 DEF PoolInv, PendingOnce
  <2> QED BY <1>4, <1>5, <2>1, <2>2, <2>3
<1> QED BY <1>1, <1>2, <1>6, <1>7

(* Of Take: the page whose unit is taken stays pending, now held.          *)
LEMMA TakeEffect ==
  ASSUME PoolInv, Take
  PROVE  PendingOnce' /\ \A p \in Pages : Pending(p)' <=> Pending(p)
<1> DEFINE n == Len(work_queue)
<1>1. /\ work_queue \in Seq(Units) /\ work_queue # <<>>
      /\ work_queue' = Tail(work_queue)
      /\ running' = running \union {Head(work_queue)}
  BY DEF PoolInv, TypeInv, TypeOK, Take
<1>2. /\ n \in Nat
      /\ DOMAIN work_queue = 1..n
      /\ 1 \in 1..n
      /\ running' = running \union {work_queue[1]}
      /\ DOMAIN work_queue' = 1..(n - 1)
      /\ \A i \in 1..(n - 1) : work_queue'[i] = work_queue[i + 1]
  BY <1>1, HeadTailProperties
<1> HIDE DEF n
<1>3. \A i \in 1..n : i # 1 => i - 1 \in 1..(n - 1) /\ (i - 1) + 1 = i
  BY <1>2
<1>4. \A i \in 1..(n - 1) : i + 1 \in 1..n /\ i + 1 # 1
  BY <1>2
<1>5. \A p \in Pages : Pending(p)' <=> Pending(p)
  <2> SUFFICES ASSUME NEW p \in Pages PROVE Pending(p)' <=> Pending(p)
    OBVIOUS
  <2>1. Pending(p)' <=>
          \/ Whole(p) \in running \union {work_queue[1]}
          \/ \E i \in 1..(n - 1) : work_queue[i + 1] = Whole(p)
    BY <1>2 DEF Pending, Whole
  <2>2. (\E i \in 1..n : work_queue[i] = Whole(p)) <=>
          \/ work_queue[1] = Whole(p)
          \/ \E i \in 1..(n - 1) : work_queue[i + 1] = Whole(p)
    BY <1>2, <1>3, <1>4
  <2> QED BY <1>2, <2>1, <2>2 DEF Pending
<1>6. PendingOnce'
  <2> SUFFICES ASSUME NEW p \in Pages
               PROVE  /\ \A i, j \in 1..(n - 1) :
                           work_queue'[i] = Whole(p) /\ work_queue'[j] = Whole(p) => i = j
                      /\ Whole(p) \in running' =>
                           \A i \in 1..(n - 1) : work_queue'[i] # Whole(p)
    BY <1>2 DEF PendingOnce, Whole
  <2>1. /\ \A i, j \in 1..n :
             work_queue[i] = Whole(p) /\ work_queue[j] = Whole(p) => i = j
        /\ Whole(p) \in running => \A i \in 1..n : work_queue[i] # Whole(p)
    BY <1>2 DEF PoolInv, PendingOnce
  <2>2. ASSUME NEW i \in 1..(n - 1), NEW j \in 1..(n - 1),
               work_queue'[i] = Whole(p), work_queue'[j] = Whole(p)
        PROVE  i = j
    <3>1. i + 1 = j + 1
      BY <1>2, <1>4, <2>1, <2>2
    <3> QED BY <3>1
  <2>3. ASSUME Whole(p) \in running', NEW i \in 1..(n - 1)
        PROVE  work_queue'[i] # Whole(p)
    BY <1>2, <1>4, <2>1, <2>3
  <2> QED BY <2>2, <2>3
<1> QED BY <1>5, <1>6

(* Of StartPage: the page is no longer pending, whatever it becomes.       *)
LEMMA StartEffect ==
  ASSUME PoolInv, NEW p \in Pages, StartPage(p)
  PROVE  /\ PendingOnce' /\ Pending(p)
         /\ \A q \in Pages : Pending(q)' <=> Pending(q) /\ q # p
<1> DEFINE n == Len(work_queue)
           S == SetToSeq({[page |-> p, scanner |-> s] : s \in Scanners})
<1>1. /\ work_queue \in Seq(Units)
      /\ Whole(p) \in running
      /\ running' = running \ {Whole(p)}
      /\ work_queue' = work_queue \o S
  BY DEF PoolInv, TypeInv, TypeOK, StartPage, Whole
<1>2. S \in Seq([page : {p}, scanner : Scanners])
  BY FanOutTyped
<1> HIDE DEF S
<1>3. S \in Seq(Units)
  <2>1. [page : {p}, scanner : Scanners] \subseteq Units
    BY DEF Units
  <2> QED BY <1>2, <2>1, SeqWeaken
<1>4. /\ n \in Nat /\ Len(S) \in Nat
      /\ DOMAIN work_queue = 1..n
      /\ DOMAIN work_queue' = 1..(n + Len(S))
      /\ \A i \in 1..n : work_queue'[i] = work_queue[i]
      /\ \A i \in (n + 1)..(n + Len(S)) :
           work_queue'[i] = S[i - n] /\ i - n \in 1..Len(S)
  BY <1>1, <1>3, ConcatProperties
<1>5. \A i \in (n + 1)..(n + Len(S)), q \in Pages : work_queue'[i] # Whole(q)
  <2> SUFFICES ASSUME NEW i \in (n + 1)..(n + Len(S)), NEW q \in Pages
               PROVE  work_queue'[i] # Whole(q)
    OBVIOUS
  <2>1. work_queue'[i] \in [page : {p}, scanner : Scanners]
    <3> DEFINE k == i - n
               T == [page : {p}, scanner : Scanners]
    <3>1. work_queue'[i] = S[k] /\ k \in 1..Len(S)
      BY <1>4
    <3>2. S \in Seq(T)
      BY <1>2
    <3> HIDE DEF k, T
    <3>3. S[k] \in T
      BY <3>1, <3>2
    <3> QED BY <3>1, <3>3 DEF T
  <2>2. work_queue'[i].scanner # WholePage
    BY <2>1, WorkAssumption
  <2> QED BY <2>2 DEF Whole
<1> HIDE DEF n
<1>6. 1..(n + Len(S)) = 1..n \union (n + 1)..(n + Len(S))
  BY <1>4
<1>7. \A i \in 1..n : work_queue[i] # Whole(p)
  BY <1>1, <1>4 DEF PoolInv, PendingOnce
<1>8. ASSUME NEW q \in Pages
      PROVE  \A i \in DOMAIN work_queue' :
               work_queue'[i] = Whole(q) => i \in 1..n /\ work_queue[i] = Whole(q)
  BY <1>4, <1>5, <1>6
<1>9. \A q \in Pages : Pending(q)' <=> Pending(q) /\ q # p
  <2> SUFFICES ASSUME NEW q \in Pages PROVE Pending(q)' <=> Pending(q) /\ q # p
    OBVIOUS
  <2>1. Pending(q)' <=> \/ Whole(q) \in running \ {Whole(p)}
                       \/ \E i \in DOMAIN work_queue' : work_queue'[i] = Whole(q)
    BY <1>1 DEF Pending, Whole
  <2>2. (\E i \in DOMAIN work_queue' : work_queue'[i] = Whole(q)) <=>
        (\E i \in DOMAIN work_queue : work_queue[i] = Whole(q))
    BY <1>4, <1>6, <1>8
  <2>3. Whole(q) = Whole(p) <=> q = p
    BY WholeUnit
  <2> QED BY <1>4, <1>7, <2>1, <2>2, <2>3 DEF Pending
<1>10. PendingOnce'
  <2> SUFFICES ASSUME NEW q \in Pages
               PROVE  /\ \A i, j \in DOMAIN work_queue' :
                           work_queue'[i] = Whole(q) /\ work_queue'[j] = Whole(q) => i = j
                      /\ Whole(q) \in running' =>
                           \A i \in DOMAIN work_queue' : work_queue'[i] # Whole(q)
    BY DEF PendingOnce, Whole
  <2>1. /\ \A i, j \in 1..n :
             work_queue[i] = Whole(q) /\ work_queue[j] = Whole(q) => i = j
        /\ Whole(q) \in running => \A i \in 1..n : work_queue[i] # Whole(q)
    BY <1>4 DEF PoolInv, PendingOnce
  <2> QED BY <1>1, <1>8, <2>1
<1> QED BY <1>1, <1>9, <1>10 DEF Pending

(* Of Scan and ScanFails: nothing, the units they finish are of a scanner. *)
LEMMA ScanEffect ==
  ASSUME PoolInv, NEW p \in Pages, NEW s \in Scanners,
         work_queue' = work_queue,
         running' = running \ {[page |-> p, scanner |-> s]}
  PROVE  PendingOnce' /\ \A q \in Pages : Pending(q)' <=> Pending(q)
<1>1. \A q \in Pages : Whole(q) \in running' <=> Whole(q) \in running
  BY WorkAssumption, WholeUnit
<1>2. \A q \in Pages : Pending(q)' <=> Pending(q)
  BY <1>1 DEF Pending, Whole
<1>3. PendingOnce'
  BY <1>1 DEF PoolInv, PendingOnce, Whole
<1> QED BY <1>2, <1>3

(* Of a step that leaves the pool alone, and of the end of the process.    *)
LEMMA PoolUnchanged ==
  ASSUME PoolInv, UNCHANGED pool
  PROVE  PendingOnce' /\ Idle' = Idle /\ \A q \in Pages : Pending(q)' <=> Pending(q)
  BY DEF PoolInv, PendingOnce, Pending, Whole, Idle, pool

(* With nothing in the pool nothing is pending, before a step and after    *)
(* it.                                                                     *)
LEMMA IdlePool ==
  /\ Idle => PendingOnce /\ \A q \in Pages : ~Pending(q)
  /\ Idle' => PendingOnce' /\ \A q \in Pages : ~Pending(q)'
  BY DEF Idle, PendingOnce, Pending, Whole

-----------------------------------------------------------------------------
(* The state of the pool is an invariant.                                  *)

(* It holds of the empty pool, and every step keeps it.                    *)
LEMMA PoolInvInit == Init => PoolInv
<1> SUFFICES ASSUME Init PROVE PoolInv
  OBVIOUS
<1>1. Idle
  BY DEF Init, Idle
<1>2. PendingOnce /\ \A q \in Pages : ~Pending(q)
  BY <1>1, IdlePool
<1> QED
  BY <1>1, <1>2, TypeInvInit DEF PoolInv, PendingBehind, PoolAtRest

(* The steps that change the pool do so by the lemmas above.               *)
LEMMA PoolInvStep == PoolInv /\ [Next]_vars => PoolInv'
<1> SUFFICES ASSUME PoolInv, [Next]_vars PROVE PoolInv'
  OBVIOUS
<1>1. TypeInv'
  BY TypeInvStep DEF PoolInv
<1>2. /\ PageCount \in Nat /\ it \in 1..(PageCount + 1)
      /\ Pages = 1..PageCount
      /\ \A p \in Pages : Pending(p) => p < it
  BY ImageAssumption DEF PoolInv, PendingBehind, TypeInv, TypeOK, Pages
<1>3. mainPc \in {"off", "opening", "recording", "shutdown"} =>
        Idle /\ \A q \in Pages : ~Pending(q)
  BY IdlePool DEF PoolInv, PoolAtRest
<1> USE DEF disk, reader, pool, outcome, readPast, scanPast, MainStates
(* The steps that leave the pool alone.                                    *)
<1>4. ASSUME UNCHANGED pool, it' = it \/ it' = it + 1,
             mainPc' \in {"off", "opening", "recording", "shutdown"} => Idle
      PROVE  PoolInv'
  <2>1. PendingOnce' /\ Idle' = Idle /\ \A q \in Pages : Pending(q)' <=> Pending(q)
    BY <1>4, PoolUnchanged
  <2>2. PendingBehind'
    BY <1>2, <1>4, <2>1 DEF PendingBehind
  <2>3. PoolAtRest'
    BY <1>4, <2>1 DEF PoolAtRest
  <2> QED BY <1>1, <2>1, <2>2, <2>3 DEF PoolInv
<1>5. CASE Begin \/ OpenFails \/ RecordSeen \/ AllRecorded \/ StopReading
           \/ SkipSeen \/ ReadFails \/ ReadPage \/ EndOfImage
  BY <1>3, <1>4, <1>5
     DEF Begin, OpenFails, RecordSeen, AllRecorded, StopReading,
         SkipSeen, ReadFails, ReadPage, EndOfImage, AtPage
<1>6. CASE FailedJoin \/ JoinFails \/ JoinSucceeds \/ Shutdown
  BY <1>3, <1>4, <1>6
     DEF FailedJoin, JoinFails, JoinFindsError, JoinSucceeds, Shutdown, Exit
<1>7. CASE BufferWritten
  BY <1>4, <1>7 DEF BufferWritten, PoolInv, PoolAtRest
<1>8. CASE UNCHANGED vars
  BY <1>4, <1>8 DEF vars, PoolInv, PoolAtRest
(* The iterator goes back to the start when nothing is pending.            *)
<1>9. CASE Open
  <2>1. Idle /\ UNCHANGED pool
    BY <1>3, <1>9 DEF Open
  <2>2. Idle'
    BY <2>1 DEF Idle
  <2> QED BY <1>1, <2>2, IdlePool DEF PoolInv, PendingBehind, PoolAtRest
<1>10. ASSUME NEW code, Die(code) PROVE PoolInv'
  <2>1. Idle'
    BY <1>10 DEF Die, Idle
  <2> QED BY <1>1, <2>1, IdlePool DEF PoolInv, PendingBehind, PoolAtRest
<1>11. CASE JoinTimesOut \/ Crash
  BY <1>10, <1>11 DEF JoinTimesOut, Crash
<1>12. CASE Schedule
  <2>1. it' = it + 1 /\ mainPc' = "reading"
    BY <1>12 DEF Schedule
  <2>2. PendingBehind'
    BY <1>2, <1>12, <2>1, ScheduleEffect DEF PendingBehind
  <2> QED BY <1>1, <1>12, <2>1, <2>2, ScheduleEffect DEF PoolInv, PoolAtRest
(* The steps of the workers: there are units in the pool.                  *)
<1>13. ASSUME PendingOnce', \A q \in Pages : Pending(q)' => Pending(q),
              ~Idle, it' = it, mainPc' = mainPc
       PROVE  PoolInv'
  BY <1>1, <1>2, <1>13 DEF PoolInv, PendingBehind, PoolAtRest
<1>14. CASE Take
  BY <1>13, <1>14, TakeEffect DEF Take, Idle
<1>15. ASSUME NEW p \in Pages, StartPage(p) PROVE PoolInv'
  BY <1>13, <1>15, StartEffect DEF StartPage, Idle
<1>16. ASSUME NEW p \in Pages, NEW s \in Scanners, Scan(p, s) \/ ScanFails(p, s)
       PROVE  PoolInv'
  <2>1. /\ work_queue' = work_queue
        /\ running' = running \ {[page |-> p, scanner |-> s]}
        /\ ~Idle /\ it' = it /\ mainPc' = mainPc
    BY <1>16 DEF Scan, ScanFails, Idle
  <2>2. PendingOnce' /\ \A q \in Pages : Pending(q)' <=> Pending(q)
    BY <2>1, ScanEffect
  <2> QED BY <1>13, <2>1, <2>2
<1> QED
  BY <1>5, <1>6, <1>7, <1>8, <1>9, <1>11, <1>12, <1>14, <1>15, <1>16
     DEF Next, MainStep, WorkerStep, Done

-----------------------------------------------------------------------------
(* What the runs know of the pages that were started.                      *)

(* Once the records are lost they stay lost; a run that ends while it      *)
(* copies them has lost none only if it has copied them all.               *)
LEMMA ForgottenStep ==
  ASSUME PoolInv, [Next]_vars, ~forgotten'
  PROVE  /\ ~forgotten
         /\ mainPc \in {"opening", "recording"} /\ mainPc' = "off" =>
              seen_page_ids \subseteq report
<1> USE DEF disk, reader, pool, outcome, readPast, scanPast
<1>1. ASSUME Forget
      PROVE  ~forgotten /\ (mainPc \in {"opening", "recording"} =>
                              seen_page_ids \subseteq report)
  <2>1. ~forgotten /\ (mainPc \in {"opening", "recording"} => seen_page_ids \ report = {})
    BY <1>1, Zenon DEF Forget
  <2> QED BY <2>1
<1>2. CASE OpenFails \/ JoinTimesOut \/ Crash
  BY <1>1, <1>2, Zenon DEF OpenFails, JoinTimesOut, Crash, Die
<1>3. ASSUME forgotten' = forgotten, mainPc' = mainPc \/ mainPc' # "off"
             \/ mainPc \notin {"opening", "recording"}
      PROVE  /\ ~forgotten
             /\ mainPc \in {"opening", "recording"} /\ mainPc' = "off" =>
                  seen_page_ids \subseteq report
  <2>1. ~forgotten
    BY <1>3, Zenon
  <2>2. ~(mainPc \in {"opening", "recording"} /\ mainPc' = "off")
    BY <1>3
  <2> QED BY <2>1, <2>2
<1>4. CASE MainStep /\ ~OpenFails /\ ~JoinTimesOut
  BY <1>3, <1>4
     DEF MainStep, Begin, Open, RecordSeen, AllRecorded, StopReading, SkipSeen,
         ReadFails, ReadPage, Schedule, EndOfImage, FailedJoin, JoinFails,
         JoinFindsError, JoinSucceeds, Shutdown, Exit, AtPage
<1>5. CASE WorkerStep \/ BufferWritten \/ UNCHANGED vars
  BY <1>3, <1>5
     DEF WorkerStep, Take, StartPage, Scan, ScanFails, BufferWritten, vars
<1> QED
  BY <1>2, <1>4, <1>5 DEF Next, MainStep, Done

(* Each step keeps what is known of each page.                             *)
LEMMA KnownStep ==
  ASSUME PoolInv, AboutToSchedule, [Next]_vars, ~forgotten',
         \A p \in Pages : Known(p)
  PROVE  \A p \in Pages : Known(p)'
<1> SUFFICES ASSUME NEW p \in Pages PROVE Known(p)'
  OBVIOUS
<1>1. /\ Known(p)
      /\ started \in [Pages -> Nat] /\ started[p] \in Nat
      /\ PageCount \in Nat /\ it \in 1..(PageCount + 1) /\ p \in Nat
      /\ mainPc \in MainStates
      /\ Pending(p) => p < it
  BY ImageAssumption DEF PoolInv, TypeInv, TypeOK, PendingBehind, Pages
<1>2. /\ mainPc \in {"off", "opening", "recording", "shutdown"} =>
           Idle /\ \A q \in Pages : ~Pending(q)
  BY IdlePool DEF PoolInv, PoolAtRest
<1> USE DEF disk, reader, pool, outcome, readPast, scanPast, MainStates
(* The main thread's steps that neither start nor schedule a page.         *)
<1>3. ASSUME UNCHANGED pool, UNCHANGED started PROVE Pending(p)' <=> Pending(p)
  BY <1>3, PoolUnchanged
<1>4. CASE Begin
  BY <1>1, <1>3, <1>4 DEF Begin, Known
<1>5. CASE OpenFails
  BY <1>1, <1>3, <1>5, ForgottenStep DEF OpenFails, Known
<1>6. CASE Open
  BY <1>1, <1>3, <1>6 DEF Open, Known
<1>7. CASE RecordSeen
  BY <1>1, <1>3, <1>7 DEF RecordSeen, Known
<1>8. CASE AllRecorded
  BY <1>1, <1>3, <1>8 DEF AllRecorded, Known
<1>9. CASE StopReading \/ ReadPage \/ EndOfImage
  BY <1>1, <1>3, <1>9 DEF StopReading, ReadPage, EndOfImage, AtPage, Known
<1>10. CASE SkipSeen \/ ReadFails
  BY <1>1, <1>3, <1>10 DEF SkipSeen, ReadFails, AtPage, Known
<1>11. CASE FailedJoin \/ JoinFails \/ JoinSucceeds \/ Shutdown
  BY <1>1, <1>3, <1>11
     DEF FailedJoin, JoinFails, JoinFindsError, JoinSucceeds, Shutdown, Exit, Known
<1>12. CASE BufferWritten \/ UNCHANGED vars
  BY <1>1, <1>3, <1>12 DEF BufferWritten, vars, Known
<1>13. CASE JoinTimesOut \/ Crash
  <2>1. PICK code : Die(code)
    BY <1>13 DEF JoinTimesOut, Crash
  <2>2. ~Pending(p)'
    <3>1. Idle'
      BY <2>1 DEF Die, Idle
    <3> QED BY <3>1, IdlePool
  <2>3. mainPc' = "off" /\ UNCHANGED <<report, seen_page_ids, it, started>>
    BY <2>1 DEF Die
  <2>4. mainPc \in {"opening", "recording"} => seen_page_ids \subseteq report
    BY <2>3, ForgottenStep
  <2> QED BY <1>1, <2>2, <2>3, <2>4 DEF Known
(* A page is scheduled that is not known to have been started.             *)
<1>14. CASE Schedule
  <2>1. /\ Pending(p)' <=> Pending(p) \/ p = it
        /\ it \in Pages
    BY <1>14, ScheduleEffect
  <2>2. /\ mainPc = "scheduling" /\ mainPc' = "reading" /\ it' = it + 1
        /\ UNCHANGED <<report, seen_page_ids, unrecorded, started>>
    BY <1>14 DEF Schedule
  <2>3. it \notin seen_page_ids
    BY <2>2 DEF AboutToSchedule
  <2>4. p = it => started[p] = 0
    BY <1>1, <2>2, <2>3 DEF Known
  <2> QED BY <1>1, <2>1, <2>2, <2>4 DEF Known
<1>15. CASE Take
  <2>1. Pending(p)' <=> Pending(p)
    BY <1>15, TakeEffect
  <2> QED BY <1>1, <1>15, <2>1 DEF Take, Known
<1>16. ASSUME NEW q \in Pages, StartPage(q) PROVE Known(p)'
  <2>1. Pending(q) /\ (Pending(p)' <=> Pending(p) /\ p # q)
    BY <1>16, StartEffect
  <2>2. /\ report' = report \union {q}
        /\ started' = [started EXCEPT ![q] = @ + 1]
        /\ UNCHANGED <<mainPc, seen_page_ids, unrecorded, it>>
    BY <1>16 DEF StartPage
  <2>3. CASE p # q
    BY <1>1, <2>1, <2>2, <2>3 DEF Known
  <2>4. CASE p = q
    <3>1. started[p] = 0 /\ p < it
      BY <1>1, <2>1, <2>4 DEF Known
    <3>2. started'[p] = 1 /\ p \in report'
      BY <1>1, <2>2, <2>4, <3>1
    <3>3. mainPc \notin {"off", "opening", "recording", "shutdown"}
      BY <1>2, <2>1
    <3> QED BY <1>1, <2>1, <2>2, <2>4, <3>1, <3>2, <3>3 DEF Known
  <2> QED BY <2>3, <2>4
<1>17. ASSUME NEW q \in Pages, NEW s \in Scanners, Scan(q, s) \/ ScanFails(q, s)
       PROVE  Known(p)'
  <2>1. /\ work_queue' = work_queue
        /\ running' = running \ {[page |-> q, scanner |-> s]}
        /\ UNCHANGED <<report, mainPc, seen_page_ids, unrecorded, it, started>>
    BY <1>17 DEF Scan, ScanFails
  <2>2. Pending(p)' <=> Pending(p)
    BY <2>1, ScanEffect
  <2> QED BY <1>1, <2>1, <2>2 DEF Known
<1> QED
  BY <1>4, <1>5, <1>6, <1>7, <1>8, <1>9, <1>10, <1>11, <1>12, <1>13, <1>14,
     <1>15, <1>16, <1>17
     DEF Next, MainStep, WorkerStep, Done

(* A page that is about to be scheduled was not skipped: ReadPage tests    *)
(* it.                                                                     *)
LEMMA AboutToScheduleStep ==
  PoolInv /\ AboutToSchedule /\ [Next]_vars => AboutToSchedule'
<1> SUFFICES ASSUME PoolInv, AboutToSchedule, [Next]_vars, mainPc' = "scheduling"
             PROVE  it' \notin seen_page_ids'
  BY DEF AboutToSchedule
<1> USE DEF disk, reader, pool, outcome, readPast, scanPast, AboutToSchedule
<1>1. CASE ReadPage
  BY <1>1 DEF ReadPage
<1>2. CASE MainStep /\ ~ReadPage
  BY <1>2
     DEF MainStep, Begin, OpenFails, Open, RecordSeen, AllRecorded, StopReading,
         SkipSeen, ReadFails, Schedule, EndOfImage, FailedJoin, JoinFails,
         JoinSucceeds, Shutdown, JoinTimesOut, Exit, Die, AtPage
<1>3. CASE WorkerStep \/ BufferWritten \/ UNCHANGED vars
  <2>1. UNCHANGED <<mainPc, it, seen_page_ids>>
    <3>1. CASE Take \/ BufferWritten \/ UNCHANGED vars
      BY <3>1 DEF Take, BufferWritten, vars
    <3>2. ASSUME NEW p \in Pages, StartPage(p)
          PROVE  UNCHANGED <<mainPc, it, seen_page_ids>>
      BY <3>2 DEF StartPage
    <3>3. ASSUME NEW p \in Pages, NEW s \in Scanners, Scan(p, s) \/ ScanFails(p, s)
          PROVE  UNCHANGED <<mainPc, it, seen_page_ids>>
      BY <3>3 DEF Scan, ScanFails
    <3> QED BY <1>3, <3>1, <3>2, <3>3 DEF WorkerStep
  <2> QED BY <2>1
<1>4. CASE Crash
  BY <1>4 DEF Crash, Die
<1> QED
  BY <1>1, <1>2, <1>3, <1>4 DEF Next, Done

(* Nothing is started at first, and the steps keep what is known.          *)
LEMMA HistoryInvInit == Init => HistoryInv
<1> SUFFICES ASSUME Init PROVE HistoryInv
  OBVIOUS
<1>1. \A p \in Pages : started[p] = 0
  BY DEF Init
<1>2. \A p \in Pages : Known(p)
  BY <1>1 DEF Known
<1>3. AboutToSchedule
  BY DEF Init, AboutToSchedule
<1> QED BY <1>2, <1>3 DEF HistoryInv, StartedKnown

(* Together: what the steps keep while no record is lost.                  *)
LEMMA HistoryInvStep == PoolInv /\ HistoryInv /\ [Next]_vars => HistoryInv'
<1> SUFFICES ASSUME PoolInv, HistoryInv, [Next]_vars PROVE HistoryInv'
  OBVIOUS
<1>1. ASSUME ~forgotten' PROVE \A p \in Pages : Known(p)'
  <2>1. ~forgotten
    BY <1>1, ForgottenStep
  <2>2. \A p \in Pages : Known(p)
    BY <2>1, Zenon DEF HistoryInv, StartedKnown
  <2> QED BY <1>1, <2>2, KnownStep DEF HistoryInv
<1>2. StartedKnown'
  BY <1>1, Zenon DEF StartedKnown
<1> QED BY <1>2, AboutToScheduleStep DEF HistoryInv

(* So it holds in every state.                                             *)
LEMMA HistoryInvariant == Spec => [](PoolInv /\ HistoryInv)
<1>1. Init => PoolInv /\ HistoryInv
  BY PoolInvInit, HistoryInvInit
<1>2. PoolInv /\ HistoryInv /\ [Next]_vars => (PoolInv /\ HistoryInv)'
  BY PoolInvStep, HistoryInvStep
<1> QED BY <1>1, <1>2, PTL DEF Spec

(* Over any number of runs, crashes and failures no page is processed      *)
(* twice, unless a run ended before it had copied the records it found:    *)
(* whatever was started is skipped or behind the iterator, and what waits  *)
(* in the pool waits there once and was not started before.                *)
THEOREM StartedOnceHolds == Spec => []StartedOnce
<1>1. HistoryInv => StartedOnce
  BY Zenon DEF HistoryInv, StartedKnown, StartedOnce, Known
<1> QED BY <1>1, HistoryInvariant, PTL

(* The report names every page that was started, at every moment at which  *)
(* a run may die and leave it to the next, once it has copied the records  *)
(* of the report it found.                                                 *)
THEOREM ReportCompleteHolds == Spec => []ReportComplete
<1>1. HistoryInv => ReportComplete
  BY Zenon DEF HistoryInv, StartedKnown, ReportComplete, Known
<1> QED BY <1>1, HistoryInvariant, PTL

-----------------------------------------------------------------------------
(* What the reader has passed is not left out.                             *)

(* Nothing that is covered is uncovered while a run goes on.               *)
LEMMA CoveredStep ==
  ASSUME PoolInv, [Next]_vars, mainPc # "off", mainPc' \notin {"off", "opening"},
         NEW p \in Pages, Covered(p)
  PROVE  Covered(p)'
<1>1. started \in [Pages -> Nat]
  BY DEF PoolInv, TypeInv, TypeOK
<1> USE DEF disk, reader, pool, outcome, readPast, scanPast, Covered
<1>2. ASSUME UNCHANGED pool, UNCHANGED started, unreadable \subseteq unreadable'
      PROVE  Covered(p)'
  <2>1. Pending(p)' <=> Pending(p)
    BY <1>2, PoolUnchanged
  <2> QED BY <1>2, <2>1
<1>3. CASE MainStep /\ ~Schedule
  BY <1>2, <1>3
     DEF MainStep, Begin, OpenFails, Open, RecordSeen, AllRecorded, StopReading,
         SkipSeen, ReadFails, ReadPage, EndOfImage, FailedJoin, JoinFails,
         JoinSucceeds, Shutdown, JoinTimesOut, Exit, Die, AtPage
<1>4. CASE Schedule
  <2>1. Pending(p)' <=> Pending(p) \/ p = it
    BY <1>4, ScheduleEffect
  <2> QED BY <1>4, <2>1 DEF Schedule
<1>5. CASE Take
  <2>1. Pending(p)' <=> Pending(p)
    BY <1>5, TakeEffect
  <2> QED BY <1>5, <2>1 DEF Take
<1>6. ASSUME NEW q \in Pages, StartPage(q) PROVE Covered(p)'
  <2>1. Pending(p)' <=> Pending(p) /\ p # q
    BY <1>6, StartEffect
  <2>2. unreadable' = unreadable /\ started' = [started EXCEPT ![q] = @ + 1]
    BY <1>6 DEF StartPage
  <2>3. /\ p = q => started'[p] > 0
        /\ started[p] > 0 => started'[p] > 0
    BY <1>1, <2>2
  <2> QED BY <2>1, <2>2, <2>3
<1>7. ASSUME NEW q \in Pages, NEW s \in Scanners, Scan(q, s) \/ ScanFails(q, s)
      PROVE  Covered(p)'
  <2>1. /\ work_queue' = work_queue
        /\ running' = running \ {[page |-> q, scanner |-> s]}
        /\ UNCHANGED <<started, unreadable>>
    BY <1>7 DEF Scan, ScanFails
  <2>2. Pending(p)' <=> Pending(p)
    BY <2>1, ScanEffect
  <2> QED BY <2>1, <2>2
<1>8. CASE BufferWritten \/ UNCHANGED vars
  BY <1>2, <1>8 DEF BufferWritten, vars
<1>9. CASE Crash
  BY <1>9 DEF Crash, Die
<1> QED
  BY <1>3, <1>4, <1>5, <1>6, <1>7, <1>8, <1>9 DEF Next, WorkerStep, Done

(* Only StartPage adds to a report what it has not found in an earlier     *)
(* one.                                                                    *)
LEMMA ReportSoundStep == PoolInv /\ ReportSound /\ [Next]_vars => ReportSound'
<1> SUFFICES ASSUME PoolInv, ReportSound, [Next]_vars PROVE ReportSound'
  OBVIOUS
<1>1. started \in [Pages -> Nat]
  BY DEF PoolInv, TypeInv, TypeOK
<1> USE DEF disk, reader, pool, outcome, readPast, scanPast, ReportSound
<1>2. CASE Begin \/ Open \/ RecordSeen
  BY <1>2 DEF Begin, Open, RecordSeen
<1>3. ASSUME UNCHANGED <<report, seen_page_ids, unrecorded, started>>
      PROVE  ReportSound'
  BY <1>3
<1>4. CASE MainStep /\ ~(Begin \/ Open \/ RecordSeen)
  BY <1>3, <1>4
     DEF MainStep, OpenFails, AllRecorded, StopReading, SkipSeen, ReadFails,
         ReadPage, Schedule, EndOfImage, FailedJoin, JoinFails, JoinFindsError,
         JoinSucceeds, Shutdown, JoinTimesOut, Exit, Die, AtPage
<1>5. ASSUME NEW p \in Pages, StartPage(p) PROVE ReportSound'
  <2>1. /\ report' = report \union {p}
        /\ started' = [started EXCEPT ![p] = @ + 1]
        /\ UNCHANGED <<seen_page_ids, unrecorded>>
    BY <1>5 DEF StartPage
  <2>2. \A q \in Pages : (q = p \/ started[q] > 0) => started'[q] > 0
    BY <1>1, <2>1
  <2> QED BY <2>1, <2>2
<1>6. ASSUME NEW p \in Pages, NEW s \in Scanners, Scan(p, s) \/ ScanFails(p, s)
      PROVE  ReportSound'
  BY <1>3, <1>6 DEF Scan, ScanFails
<1>7. CASE Take \/ BufferWritten \/ Crash \/ UNCHANGED vars
  BY <1>3, <1>7 DEF Take, BufferWritten, Crash, Die, vars
<1> QED
  BY <1>2, <1>4, <1>5, <1>6, <1>7 DEF Next, MainStep, WorkerStep, Done

(* At first nothing is passed; a page that is passed is covered.           *)
LEMMA CoverInvInit == Init => CoverInv
  BY DEF Init, CoverInv, ReportSound, PassedCovered, NoPageLost

(* The reader passes a page only with a reason; the pool ends empty.       *)
LEMMA CoverInvStep == PoolInv /\ CoverInv /\ [Next]_vars => CoverInv'
<1> SUFFICES ASSUME PoolInv, CoverInv, [Next]_vars PROVE PassedCovered' /\ NoPageLost'
  BY ReportSoundStep DEF CoverInv
<1>1. /\ PageCount \in Nat /\ it \in 1..(PageCount + 1)
      /\ Pages = 1..PageCount
      /\ ReportSound /\ PassedCovered /\ NoPageLost
      /\ mainPc \in {"off", "opening", "recording", "shutdown"} =>
           Idle /\ \A q \in Pages : ~Pending(q)
  BY ImageAssumption, IdlePool
     DEF CoverInv, PoolInv, PoolAtRest, TypeInv, TypeOK, Pages
<1> USE DEF disk, reader, pool, outcome, readPast, scanPast
(* In the run, the iterator where it was.                                  *)
<1>2. ASSUME mainPc \in {"reading", "scheduling", "joining", "shutdown"}
             \/ mainPc' \notin {"reading", "scheduling", "joining", "shutdown"},
             mainPc # "off", mainPc' \notin {"off", "opening", "recording"}, it' = it,
             mainPc' \in {"joining", "shutdown"} => it > PageCount
      PROVE  PassedCovered' /\ NoPageLost'
  BY <1>1, <1>2, CoveredStep DEF PassedCovered, NoPageLost
<1>3. CASE StopReading \/ ReadPage \/ EndOfImage \/ JoinSucceeds
  BY <1>1, <1>2, <1>3
     DEF StopReading, ReadPage, EndOfImage, JoinSucceeds, AtPage, PassedCovered
<1>4. CASE RecordSeen
  BY <1>1, <1>4 DEF RecordSeen, PassedCovered, NoPageLost
<1>5. CASE Open
  BY <1>5 DEF Open, PassedCovered, NoPageLost
<1>6. CASE Begin
  BY <1>6 DEF Begin, PassedCovered, NoPageLost
(* At the start of the image nothing has been passed.                      *)
<1>7. CASE AllRecorded
  <2>1. mainPc = "recording" /\ mainPc' = "reading" /\ it' = 1
    BY <1>1, <1>7 DEF AllRecorded, PassedCovered
  <2> QED BY <1>1, <2>1 DEF PassedCovered, NoPageLost
(* One page further, which is skipped, unreadable or scheduled.            *)
<1>8. ASSUME mainPc \in {"reading", "scheduling"}, mainPc' = "reading",
             it' = it + 1, \A p \in Pages : p = it => Covered(p)'
      PROVE  PassedCovered' /\ NoPageLost'
  <2>1. ASSUME NEW p \in Pages, p < it' PROVE Covered(p)'
    <3>1. p = it \/ p < it
      BY <1>1, <1>8, <2>1
    <3> QED BY <1>1, <1>8, <3>1, CoveredStep DEF PassedCovered
  <2> QED BY <1>8, <2>1 DEF PassedCovered, NoPageLost
<1>9. CASE SkipSeen
  <2>1. mainPc = "reading" /\ mainPc' = "reading" /\ it' = it + 1
        /\ it \in seen_page_ids
    BY <1>9 DEF SkipSeen, AtPage
  <2>2. \A p \in Pages : p = it => Covered(p)
    BY <1>1, <2>1 DEF ReportSound, Covered
  <2> QED BY <1>8, <2>1, <2>2, CoveredStep
<1>10. CASE ReadFails
  <2>1. mainPc = "reading" /\ mainPc' = "reading" /\ it' = it + 1
        /\ it \in unreadable'
    BY <1>10 DEF ReadFails, AtPage
  <2> QED BY <1>8, <2>1 DEF Covered
<1>11. CASE Schedule
  <2>1. mainPc = "scheduling" /\ mainPc' = "reading" /\ it' = it + 1
    BY <1>11 DEF Schedule
  <2> QED BY <1>8, <1>11, <2>1, ScheduleEffect DEF Covered
(* Only the end of the shutdown gives 0, when the whole image is passed    *)
(* and nothing is pending.                                                 *)
<1>12. CASE Shutdown
  <2>1. /\ mainPc = "shutdown" /\ mainPc' = "off"
        /\ UNCHANGED <<it, started, unreadable>>
    BY <1>12 DEF Shutdown, Exit
  <2>2. \A p \in Pages : started[p] > 0 \/ p \in unreadable
    BY <1>1, <2>1 DEF PassedCovered, Covered
  <2> QED BY <2>1, <2>2 DEF PassedCovered, NoPageLost
<1>13. ASSUME mainPc' = "off", exitCode' # 0 PROVE PassedCovered' /\ NoPageLost'
  BY <1>13 DEF PassedCovered, NoPageLost
<1>14. CASE OpenFails \/ FailedJoin \/ JoinFails \/ JoinTimesOut \/ Crash
  BY <1>13, <1>14
     DEF OpenFails, FailedJoin, JoinFails, JoinTimesOut, Crash, Exit, Die
(* The workers, and steps that change none of this.                        *)
<1>15. ASSUME UNCHANGED <<mainPc, it>>, ~Idle
       PROVE  PassedCovered' /\ NoPageLost'
  BY <1>1, <1>15, CoveredStep DEF PassedCovered, NoPageLost
<1>16. CASE Take
  BY <1>15, <1>16 DEF Take, Idle
<1>17. ASSUME NEW p \in Pages, StartPage(p) PROVE PassedCovered' /\ NoPageLost'
  BY <1>15, <1>17 DEF StartPage, Idle
<1>18. ASSUME NEW p \in Pages, NEW s \in Scanners, Scan(p, s) \/ ScanFails(p, s)
       PROVE  PassedCovered' /\ NoPageLost'
  BY <1>15, <1>18 DEF Scan, ScanFails, Idle
<1>19. CASE BufferWritten \/ UNCHANGED vars
  <2>1. UNCHANGED <<mainPc, it, pool, started, unreadable, runs, exitCode>>
    BY <1>19 DEF BufferWritten, vars
  <2>2. \A p \in Pages : Covered(p) => Covered(p)'
    BY <2>1, PoolUnchanged DEF Covered
  <2> QED BY <1>1, <2>1, <2>2 DEF PassedCovered, NoPageLost
<1> QED
  BY <1>3, <1>4, <1>5, <1>6, <1>7, <1>9, <1>10, <1>11, <1>12, <1>14, <1>16,
     <1>17, <1>18, <1>19
     DEF Next, MainStep, WorkerStep, Done

(* A run that ends with 0 has left out no page: what the reader passed was *)
(* known to be started, could not be read, or was put into the pool, and   *)
(* the pool is empty when the run ends.                                    *)
THEOREM NoPageLostHolds == Spec => []NoPageLost
<1>1. Init => PoolInv /\ CoverInv
  BY PoolInvInit, CoverInvInit
<1>2. PoolInv /\ CoverInv /\ [Next]_vars => (PoolInv /\ CoverInv)'
  BY PoolInvStep, CoverInvStep
<1>3. CoverInv => NoPageLost
  BY DEF CoverInv
<1> QED BY <1>1, <1>2, <1>3, PTL DEF Spec

-----------------------------------------------------------------------------
(* What is hashed.                                                         *)

(* What is hashed begins with the run and grows with what is read.         *)
LEMMA HashInvInit == Init => HashInv
  BY ImageAssumption DEF Init, HashInv, NoHashOverGap, Pages

(* ReadPage reads the page that is hashed next, or hashing stops.          *)
LEMMA HashInvStep == TypeInv /\ HashInv /\ [Next]_vars => HashInv'
<1> SUFFICES ASSUME TypeInv, HashInv, [Next]_vars PROVE HashInv'
  OBVIOUS
<1>1. /\ PageCount \in Nat /\ hash_next \in 1..(PageCount + 1)
      /\ it \in 1..(PageCount + 1) /\ readNow \subseteq Pages
      /\ Pages = 1..PageCount
  BY ImageAssumption DEF TypeInv, TypeOK, Pages
<1> USE DEF disk, reader, pool, outcome, readPast, scanPast
<1>2. CASE Begin
  <2>1. mainPc' = "opening" /\ readNow' = {} /\ ~hashWritten'
    BY <1>2, Zenon DEF Begin
  <2> QED BY <2>1 DEF HashInv, NoHashOverGap
<1>3. CASE Open
  <2>1. mainPc = "opening" /\ mainPc' = "recording" /\ hash_next' = 1
        /\ UNCHANGED <<readNow, hashWritten>>
    BY <1>3 DEF Open
  <2>2. readNow = {} /\ ~hashWritten
    BY <2>1 DEF HashInv
  <2>3. readNow' = {} /\ ~hashWritten'
    BY <2>1, <2>2, Zenon
  <2> QED BY <2>1, <2>3 DEF HashInv, NoHashOverGap
<1>4. CASE ReadPage
  <2>1. /\ mainPc = "reading" /\ mainPc' = "scheduling"
        /\ readNow' = readNow \union {it}
        /\ hashWritten' = hashWritten
    BY <1>4 DEF ReadPage, AtPage
  <2>2. ~hashWritten'
    <3>1. ~hashWritten
      BY <2>1 DEF HashInv
    <3> QED BY <2>1, <3>1, Zenon
  <2>3. ASSUME sha1g' PROVE readNow' = 1..(hash_next' - 1)
    <3>1. sha1g /\ it = hash_next /\ hash_next' = hash_next + 1
      BY <1>4, <2>3, Zenon DEF ReadPage, Hash
    <3>2. readNow = 1..(hash_next - 1)
      BY <2>1, <3>1 DEF HashInv
    <3> QED BY <1>1, <2>1, <3>1, <3>2
  <2> QED BY <2>1, <2>2, <2>3 DEF HashInv, NoHashOverGap
<1>5. CASE JoinSucceeds
  <2>1. /\ mainPc = "joining" /\ mainPc' = "shutdown"
        /\ hashWritten' = sha1g
        /\ UNCHANGED <<readNow, sha1g, hash_next>>
    BY <1>5 DEF JoinSucceeds
  <2>2. sha1g => readNow = 1..(hash_next - 1)
    BY <2>1 DEF HashInv
  <2>3. readNow = 1..(hash_next - 1) /\ PageCount \in readNow => readNow = Pages
    BY <1>1
  <2>4. NoHashOverGap'
    BY <2>1, <2>2, <2>3, Zenon DEF NoHashOverGap, Pages
  <2>5. sha1g' => readNow' = 1..(hash_next' - 1)
    BY <2>1, <2>2, Zenon
  <2> QED BY <2>1, <2>4, <2>5 DEF HashInv
(* Every other step of a run keeps what is read and hashed.                *)
<1>6. ASSUME UNCHANGED <<readNow, sha1g, hash_next, hashWritten>>,
             \/ mainPc' = mainPc
             \/ mainPc' = "off"
             \/ mainPc \notin {"off", "opening", "shutdown"}
                /\ mainPc' \notin {"off", "opening", "recording"}
      PROVE  HashInv'
  BY <1>6 DEF HashInv, NoHashOverGap, Pages
<1>7. CASE OpenFails \/ RecordSeen \/ AllRecorded \/ StopReading \/ SkipSeen
           \/ ReadFails \/ Schedule \/ EndOfImage
  BY <1>6, <1>7
     DEF OpenFails, RecordSeen, AllRecorded, StopReading, SkipSeen, ReadFails,
         Schedule, EndOfImage, AtPage
<1>8. CASE FailedJoin \/ JoinFails \/ Shutdown \/ JoinTimesOut \/ Crash
  BY <1>6, <1>8
     DEF FailedJoin, JoinFails, JoinFindsError, Shutdown, JoinTimesOut, Crash,
         Exit, Die
<1>9. CASE Take \/ BufferWritten \/ UNCHANGED vars
  BY <1>6, <1>9 DEF Take, BufferWritten, vars
<1>10. ASSUME NEW p \in Pages, StartPage(p) PROVE HashInv'
  BY <1>6, <1>10 DEF StartPage
<1>11. ASSUME NEW p \in Pages, NEW s \in Scanners, Scan(p, s) \/ ScanFails(p, s)
       PROVE  HashInv'
  BY <1>6, <1>11 DEF Scan, ScanFails
<1> QED
  BY <1>2, <1>3, <1>4, <1>5, <1>7, <1>8, <1>9, <1>10, <1>11
     DEF Next, MainStep, WorkerStep, Done

(* A hash that is written covers the image if the last page was read: the  *)
(* pages read are those hashed, from the first on, or hashing has stopped. *)
THEOREM NoHashOverGapHolds == Spec => []NoHashOverGap
<1>1. Init => TypeInv /\ HashInv
  BY TypeInvInit, HashInvInit
<1>2. TypeInv /\ HashInv /\ [Next]_vars => (TypeInv /\ HashInv)'
  BY TypeInvStep, HashInvStep
<1>3. HashInv => NoHashOverGap
  BY DEF HashInv
<1> QED BY <1>1, <1>2, <1>3, PTL DEF Spec

(* Over any number of runs the report is complete and no page is started   *)
(* twice.                                                                  *)
THEOREM StartsRecordedHolds == Spec => []StartsRecorded
<1>1. HistoryInv => StartedOnce /\ ReportComplete
  BY Zenon DEF HistoryInv, StartedKnown, StartedOnce, ReportComplete, Known
<1>2. HistoryInv => StartsRecorded
  BY <1>1 DEF StartsRecorded
<1> QED
  BY <1>2, HistoryInvariant, PTL

-----------------------------------------------------------------------------
(* What Phase1 has in flight: the work units in the queue and with the     *)
(* workers, as a set.  From what the steps do to that set follow that the  *)
(* reader is bounded, and that a first run that ends with 0 has the        *)
(* results of every page.                                                  *)

UnitsOf(p) == {[page |-> p, scanner |-> s] : s \in Scanners}

(* A page becomes finitely many units.                                     *)
LEMMA UnitsOfFinite ==
  ASSUME NEW p \in Pages
  PROVE  IsFiniteSet(UnitsOf(p))
<1> DEFINE f == [s \in Scanners |-> [page |-> p, scanner |-> s]]
<1>1. f \in Surjection(Scanners, UnitsOf(p))
  BY DEF Surjection, UnitsOf
<1> HIDE DEF f
<1> QED BY <1>1, WorkAssumption, FS_Surjection

-----------------------------------------------------------------------------
(* What the steps do to the units in flight.                               *)

(* Schedule adds the unit of the page at the iterator.                     *)
LEMMA ScheduleFlight ==
  ASSUME TypeInv, Schedule
  PROVE  it \in Pages /\ InFlight' = InFlight \union {Whole(it)}
<1>1. it \in Pages
  BY ImageAssumption DEF TypeInv, TypeOK, Schedule, Pages
<1>2. /\ work_queue \in Seq(Units) /\ Whole(it) \in Units
      /\ work_queue' = Append(work_queue, Whole(it))
      /\ running' = running
  BY <1>1, WholeUnit DEF TypeInv, TypeOK, Schedule, Whole
<1>3. ToSet(work_queue') = ToSet(work_queue) \union {Whole(it)}
  BY <1>2, ToSetAppend
<1> QED BY <1>1, <1>2, <1>3 DEF InFlight

(* Take moves a unit from the queue to a worker.                           *)
LEMMA TakeFlight ==
  ASSUME TypeInv, Take
  PROVE  InFlight' = InFlight
<1>1. /\ work_queue \in Seq(Units) /\ work_queue # <<>>
      /\ work_queue' = Tail(work_queue)
      /\ running' = running \union {Head(work_queue)}
  BY DEF TypeInv, TypeOK, Take
<1>2. ToSet(work_queue) = {Head(work_queue)} \union ToSet(work_queue')
  BY <1>1, ToSetTail
<1> QED BY <1>1, <1>2 DEF InFlight

(* StartPage puts the units of the page in the place of the page.          *)
LEMMA StartFlight ==
  ASSUME TypeInv, NEW p \in Pages, StartPage(p)
  PROVE  /\ Whole(p) \in InFlight
         /\ InFlight' \subseteq InFlight \union UnitsOf(p)
         /\ InFlight \ {Whole(p)} \subseteq InFlight'
         /\ UnitsOf(p) \subseteq InFlight'
<1> DEFINE S == SetToSeq(UnitsOf(p))
<1>1. /\ work_queue \in Seq(Units)
      /\ Whole(p) \in running
      /\ running' = running \ {Whole(p)}
      /\ work_queue' = work_queue \o S
  BY DEF TypeInv, TypeOK, StartPage, Whole, UnitsOf
<1>2. S \in Seq(UnitsOf(p)) /\ ToSet(S) = UnitsOf(p)
  BY UnitsOfFinite, SetToSeqLemma, SetToSeqRange
<1>3. UnitsOf(p) \subseteq Units
  BY DEF UnitsOf, Units
<1> HIDE DEF S
<1>4. S \in Seq(Units)
  BY <1>2, <1>3, SeqWeaken
<1>5. ToSet(work_queue') = ToSet(work_queue) \union UnitsOf(p)
  BY <1>1, <1>2, <1>4, ToSetConcat
<1> QED BY <1>1, <1>5 DEF InFlight

(* Scan and ScanFails may end the unit they were about, and no other.      *)
LEMMA ScanFlight ==
  ASSUME NEW p \in Pages, NEW s \in Scanners, Scan(p, s) \/ ScanFails(p, s)
  PROVE  /\ InFlight' \subseteq InFlight
         /\ InFlight \ {[page |-> p, scanner |-> s]} \subseteq InFlight'
  BY DEF Scan, ScanFails, InFlight

(* What leaves the pool alone leaves the flight alone.                     *)
LEMMA FlightUnchanged == UNCHANGED pool => InFlight' = InFlight /\ Idle' = Idle
  BY DEF pool, InFlight, Idle

(* The pool is idle when nothing is in flight.                             *)
LEMMA IdleFlight ==
  ASSUME TypeInv
  PROVE  Idle <=> InFlight = {}
<1>1. work_queue \in Seq(Units)
  BY DEF TypeInv, TypeOK
<1>2. work_queue # <<>> => ToSet(work_queue) # {}
  BY <1>1, ToSetTail
<1>3. work_queue = <<>> => ToSet(work_queue) = {}
  BY DEF ToSet
<1> QED BY <1>2, <1>3 DEF Idle, InFlight

-----------------------------------------------------------------------------
(* The first run.                                                          *)

(* Where the result of a scanner on a page is: to come, or made and not    *)
(* forgotten.                                                              *)
Accounted(p, s) ==
  \/ Whole(p) \in InFlight
  \/ [page |-> p, scanner |-> s] \in InFlight
  \/ <<p, s>> \in buffered \union saved \union dropped \union failed

(* A first run skips nothing.  Whatever the reader has passed could not be *)
(* read or is accounted for, and a write that failed is known until the    *)
(* run ends.                                                               *)
FirstRun ==
  /\ runs = 0 => mainPc = "off" /\ report = {} /\ failed = {}
  /\ runs = 1 =>
       /\ seen_page_ids = {}
       /\ mainPc = "opening" => failed = {}
       /\ mainPc # "off" => failed = {} \/ disk_write_errors > 0
       /\ mainPc = "shutdown" => disk_write_errors = 0
       /\ mainPc \in {"reading", "scheduling", "joining", "shutdown"} =>
            \A p \in Pages, s \in Scanners :
              p < it => p \in unreadable \/ Accounted(p, s)

CompleteInv == FirstRun /\ CleanExitComplete

(* What is accounted for stays so unless the process dies: a unit that     *)
(* ends leaves a result, and a buffer is written or known to be dropped.   *)
LEMMA AccountedStep ==
  ASSUME TypeInv, [Next]_vars, ~JoinTimesOut, ~Crash,
         NEW p \in Pages, NEW s \in Scanners, Accounted(p, s)
  PROVE  Accounted(p, s)'
<1> DEFINE u == [page |-> p, scanner |-> s]
           Results_ == buffered \union saved \union dropped \union failed
<1> USE DEF disk, reader, outcome, readPast, scanPast
<1>1. ASSUME InFlight \subseteq InFlight', Results_ \subseteq Results_'
      PROVE  Accounted(p, s)'
  BY <1>1 DEF Accounted, Whole
<1>2. CASE Schedule
  BY <1>1, <1>2, ScheduleFlight DEF Schedule
<1>3. CASE Take
  BY <1>1, <1>3, TakeFlight DEF Take
<1>4. ASSUME NEW q \in Pages, StartPage(q) PROVE Accounted(p, s)'
  <2>1. Results_' = Results_
    BY <1>4 DEF StartPage
  <2>2. CASE Whole(p) \in InFlight /\ p = q
    <3>1. u \in InFlight'
      BY <1>4, <2>2, StartFlight DEF UnitsOf
    <3> QED BY <3>1 DEF Accounted
  <2>3. CASE Whole(p) \in InFlight /\ p # q
    <3>1. Whole(p) \in InFlight'
      BY <1>4, <2>3, StartFlight, WholeUnit
    <3> QED BY <3>1 DEF Accounted, Whole
  <2>4. CASE u \in InFlight
    <3>1. u # Whole(q)
      BY WorkAssumption, WholeUnit
    <3>2. u \in InFlight'
      BY <1>4, <2>4, <3>1, StartFlight
    <3> QED BY <3>2 DEF Accounted
  <2> QED BY <2>1, <2>2, <2>3, <2>4 DEF Accounted
<1>5. ASSUME NEW q \in Pages, NEW r \in Scanners, Scan(q, r) \/ ScanFails(q, r)
      PROVE  Accounted(p, s)'
  <2> DEFINE v == [page |-> q, scanner |-> r]
  <2>1. Results_ \union {<<q, r>>} \subseteq Results_'
    BY <1>5 DEF Scan, ScanFails
  <2>2. InFlight \ {v} \subseteq InFlight'
    BY <1>5, ScanFlight
  <2>3. CASE Whole(p) \in InFlight
    <3>1. Whole(p) # v
      BY WorkAssumption, WholeUnit
    <3>2. Whole(p) \in InFlight'
      BY <2>2, <2>3, <3>1
    <3> QED BY <3>2 DEF Accounted, Whole
  <2>4. CASE u \in InFlight
    <3>1. u = v => p = q /\ s = r
      OBVIOUS
    <3> QED BY <2>1, <2>2, <2>4, <3>1 DEF Accounted
  <2> QED BY <2>1, <2>3, <2>4 DEF Accounted
<1>6. CASE BufferWritten
  <2>1. InFlight' = InFlight
    BY <1>6, FlightUnchanged DEF BufferWritten
  <2>2. Results_ \subseteq Results_'
    BY <1>6 DEF BufferWritten
  <2> QED BY <1>1, <2>1, <2>2
<1>7. CASE FailedJoin \/ JoinFails \/ Shutdown
  <2>1. PICK code : Exit(code)
    BY <1>7 DEF FailedJoin, JoinFails, Shutdown
  <2>2. InFlight' = InFlight
    BY <2>1, FlightUnchanged DEF Exit
  <2>3. Results_ \subseteq Results_'
    BY <2>1 DEF Exit
  <2> QED BY <1>1, <2>2, <2>3
<1>8. CASE UNCHANGED vars
  BY <1>1, <1>8, FlightUnchanged DEF vars
<1>9. CASE Begin \/ OpenFails \/ Open \/ RecordSeen \/ AllRecorded \/ StopReading
           \/ SkipSeen \/ ReadFails \/ ReadPage \/ EndOfImage \/ JoinSucceeds
  <2>1. UNCHANGED <<pool, buffered, saved, dropped, failed>>
    BY <1>9 DEF Begin, OpenFails, Open, RecordSeen, AllRecorded, StopReading,
                SkipSeen, ReadFails, ReadPage, EndOfImage, JoinSucceeds
  <2> QED BY <1>1, <2>1, FlightUnchanged
<1> QED
  BY <1>2, <1>3, <1>4, <1>5, <1>6, <1>7, <1>8, <1>9
     DEF Next, MainStep, WorkerStep, Done

(* Before the first run nothing has been promised.                         *)
LEMMA CompleteInvInit == Init => CompleteInv
  BY DEF Init, CompleteInv, FirstRun, CleanExitComplete

(* The pages a run could not read are only added to while it goes on.      *)
LEMMA UnreadableStep ==
  ASSUME [Next]_vars, ~Begin
  PROVE  unreadable \subseteq unreadable' /\ runs' = runs
<1> USE DEF disk, reader, outcome, readPast, scanPast
<1>1. CASE OpenFails \/ Open \/ RecordSeen \/ AllRecorded \/ StopReading \/ SkipSeen
           \/ ReadFails \/ ReadPage \/ Schedule \/ EndOfImage \/ JoinSucceeds
  BY <1>1 DEF OpenFails, Open, RecordSeen, AllRecorded, StopReading, SkipSeen,
              ReadFails, ReadPage, Schedule, EndOfImage, JoinSucceeds
<1>2. CASE FailedJoin \/ JoinFails \/ Shutdown \/ JoinTimesOut \/ Crash
  BY <1>2 DEF FailedJoin, JoinFails, Shutdown, JoinTimesOut, Crash, Exit, Die
<1>3. CASE Take \/ BufferWritten \/ UNCHANGED vars
  BY <1>3 DEF Take, BufferWritten, vars
<1>4. ASSUME NEW p \in Pages, StartPage(p)
      PROVE  unreadable \subseteq unreadable' /\ runs' = runs
  BY <1>4 DEF StartPage
<1>5. ASSUME NEW p \in Pages, NEW s \in Scanners, Scan(p, s) \/ ScanFails(p, s)
      PROVE  unreadable \subseteq unreadable' /\ runs' = runs
  BY <1>5 DEF Scan, ScanFails
<1> QED
  BY <1>1, <1>2, <1>3, <1>4, <1>5 DEF Next, MainStep, WorkerStep, Done

(* The reader passes a page of a first run only if it cannot be read or    *)
(* when it is in flight; at the end nothing is in flight.                  *)
LEMMA CompleteInvStep ==
  PoolInv /\ CoverInv /\ CompleteInv /\ [Next]_vars => CompleteInv'
<1> SUFFICES ASSUME PoolInv, CoverInv, CompleteInv, [Next]_vars
             PROVE  FirstRun' /\ CleanExitComplete'
  BY DEF CompleteInv
<1> USE DEF disk, reader, pool, outcome, readPast, scanPast
<1>0. /\ PageCount \in Nat /\ it \in 1..(PageCount + 1) /\ Pages = 1..PageCount
      /\ TypeInv /\ runs \in Nat /\ mainPc \in MainStates
      /\ disk_write_errors \in Nat /\ diskErrors \in Nat
      /\ mainPc = "recording" => it = 1
      /\ mainPc \in {"joining", "shutdown"} => it > PageCount
      /\ mainPc \in {"off", "opening", "recording", "shutdown"} => Idle
      /\ FirstRun /\ CleanExitComplete
  BY ImageAssumption, FaultAssumption
     DEF PoolInv, PoolAtRest, CoverInv, PassedCovered, CompleteInv, TypeInv, TypeOK, Pages
<1>1. CASE Begin
  <2>1. /\ runs' = runs + 1 /\ mainPc' = "opening"
        /\ seen_page_ids' = report /\ failed' = failed
    BY <1>1 DEF Begin
  <2>2. runs' = 1 => runs = 0 /\ seen_page_ids' = {} /\ failed' = {}
    BY <1>0, <2>1 DEF FirstRun
  <2> QED BY <1>0, <2>1, <2>2 DEF FirstRun, CleanExitComplete
(* Before the first run and after it.                                      *)
<1>2. CASE ~Begin /\ runs # 1
  <2>1. runs' = runs
    BY <1>2, UnreadableStep
  <2>2. runs = 0 => UNCHANGED <<mainPc, report, failed>>
    <3> SUFFICES ASSUME mainPc = "off", Idle PROVE UNCHANGED <<mainPc, report, failed>>
      BY <1>0 DEF FirstRun
    <3>1. CASE BufferWritten \/ UNCHANGED vars
      BY <3>1 DEF BufferWritten, vars
    <3>2. ~WorkerStep
      BY DEF WorkerStep, Take, StartPage, Scan, ScanFails, Idle
    <3>3. ~(MainStep /\ ~Begin) /\ ~Crash
      BY DEF MainStep, OpenFails, Open, RecordSeen, AllRecorded, StopReading, SkipSeen,
             ReadFails, ReadPage, Schedule, EndOfImage, FailedJoin, JoinFails,
             JoinFindsError, JoinSucceeds, Shutdown, JoinTimesOut, AtPage, Crash
    <3> QED BY <1>2, <3>1, <3>2, <3>3 DEF Next, Done
  <2> QED BY <1>0, <1>2, <2>1, <2>2 DEF FirstRun, CleanExitComplete
(* During the first run, with the iterator where it was.                   *)
<1>3. ASSUME runs = 1, runs' = runs, ~JoinTimesOut, ~Crash, ~Begin,
             UNCHANGED <<seen_page_ids, it>>, mainPc' \notin {"off", "opening"},
             failed' = {} \/ disk_write_errors' > 0,
             mainPc' = "shutdown" => disk_write_errors' = 0,
             \/ mainPc \in {"reading", "scheduling", "joining", "shutdown"}
             \/ mainPc' \notin {"reading", "scheduling", "joining", "shutdown"}
             \/ it = 1
      PROVE  FirstRun' /\ CleanExitComplete'
  <2>1. ASSUME mainPc' \in {"reading", "scheduling", "joining", "shutdown"},
               NEW p \in Pages, NEW s \in Scanners, p < it'
        PROVE  p \in unreadable' \/ Accounted(p, s)'
    <3>1. p < it /\ it # 1
      BY <1>0, <1>3, <2>1
    <3>2. p \in unreadable \/ Accounted(p, s)
      BY <1>0, <1>3, <2>1, <3>1 DEF FirstRun
    <3> QED BY <1>0, <1>3, <3>2, AccountedStep, UnreadableStep
  <2> QED BY <1>0, <1>3, <2>1 DEF FirstRun, CleanExitComplete
<1>4. CASE runs = 1 /\ (RecordSeen \/ AllRecorded \/ StopReading \/ ReadPage
                         \/ EndOfImage \/ JoinSucceeds)
  <2>1. UNCHANGED <<runs, seen_page_ids, it, failed, disk_write_errors>>
    BY <1>4 DEF RecordSeen, AllRecorded, StopReading, ReadPage, EndOfImage, JoinSucceeds
  <2>2. mainPc # "off" /\ mainPc' \notin {"off", "opening"}
    BY <1>4 DEF RecordSeen, AllRecorded, StopReading, ReadPage, EndOfImage, JoinSucceeds, AtPage
  <2>3. mainPc' = "shutdown" => disk_write_errors' = 0
    BY <1>0, <1>4, <2>1
       DEF RecordSeen, AllRecorded, StopReading, ReadPage, EndOfImage, JoinSucceeds,
           JoinFindsError
  <2>4. \/ mainPc \in {"reading", "scheduling", "joining", "shutdown"}
        \/ mainPc' \notin {"reading", "scheduling", "joining", "shutdown"}
        \/ it = 1
    BY <1>0, <1>4
       DEF RecordSeen, AllRecorded, StopReading, ReadPage, EndOfImage, JoinSucceeds, AtPage
  <2>5. ~JoinTimesOut /\ ~Crash /\ ~Begin
    BY <2>2 DEF JoinTimesOut, Crash, Begin, Die
  <2>6. failed' = {} \/ disk_write_errors' > 0
    BY <1>0, <1>4, <2>1, <2>2 DEF FirstRun
  <2> QED BY <1>3, <1>4, <2>1, <2>2, <2>3, <2>4, <2>5, <2>6
<1>5. CASE runs = 1 /\ Open
  <2>1. /\ mainPc = "opening" /\ mainPc' = "recording" /\ UNCHANGED <<runs, seen_page_ids, failed>>
    BY <1>5 DEF Open
  <2> QED BY <1>0, <1>5, <2>1 DEF FirstRun, CleanExitComplete
(* The workers.                                                            *)
<1>6. CASE runs = 1 /\ WorkerStep
  <2>1. /\ UNCHANGED <<runs, seen_page_ids, it, mainPc>> /\ ~Idle
        /\ \/ UNCHANGED <<failed, disk_write_errors>>
           \/ disk_write_errors' = disk_write_errors + 1
    <3>1. CASE Take
      BY <3>1 DEF Take, Idle
    <3>2. ASSUME NEW p \in Pages, StartPage(p)
          PROVE  /\ UNCHANGED <<runs, seen_page_ids, it, mainPc>> /\ ~Idle
                 /\ UNCHANGED <<failed, disk_write_errors>>
      BY <3>2 DEF StartPage, Idle
    <3>3. ASSUME NEW p \in Pages, NEW s \in Scanners, Scan(p, s) \/ ScanFails(p, s)
          PROVE  /\ UNCHANGED <<runs, seen_page_ids, it, mainPc>> /\ ~Idle
                 /\ \/ UNCHANGED <<failed, disk_write_errors>>
                    \/ disk_write_errors' = disk_write_errors + 1
      BY <3>3 DEF Scan, ScanFails, Idle
    <3> QED BY <1>6, <3>1, <3>2, <3>3 DEF WorkerStep
  <2>2. mainPc \notin {"off", "opening", "recording", "shutdown"}
    BY <1>0, <2>1
  <2>3. ~JoinTimesOut /\ ~Crash /\ ~Begin
    BY <2>1, <2>2 DEF JoinTimesOut, Crash, Begin, Die
  <2>4. failed' = {} \/ disk_write_errors' > 0
    BY <1>0, <1>6, <2>1, <2>2 DEF FirstRun
  <2> QED BY <1>3, <1>6, <2>1, <2>2, <2>3, <2>4
(* One page further: a first run has none to skip.                         *)
<1>7. CASE runs = 1 /\ SkipSeen
  BY <1>0, <1>7 DEF SkipSeen, FirstRun
<1>8. CASE runs = 1 /\ (ReadFails \/ Schedule)
  <2>1. /\ UNCHANGED <<runs, seen_page_ids, failed, disk_write_errors>>
        /\ it' = it + 1 /\ mainPc' = "reading"
        /\ mainPc \in {"reading", "scheduling"}
    BY <1>8 DEF ReadFails, Schedule, AtPage
  <2>2. ASSUME NEW p \in Pages, NEW s \in Scanners, p < it'
        PROVE  p \in unreadable' \/ Accounted(p, s)'
    <3>1. CASE p = it /\ ReadFails
      BY <3>1 DEF ReadFails
    <3>2. CASE p = it /\ Schedule
      <4>1. Whole(p) \in InFlight'
        BY <1>0, <3>2, ScheduleFlight
      <4> QED BY <4>1 DEF Accounted, Whole
    <3>3. CASE p # it
      <4>1. p \in unreadable \/ Accounted(p, s)
        BY <1>0, <1>8, <2>1, <2>2, <3>3 DEF FirstRun
      <4>2. ~JoinTimesOut /\ ~Crash /\ ~Begin
        BY <2>1 DEF JoinTimesOut, Crash, Begin, Die
      <4> QED BY <1>0, <4>1, <4>2, AccountedStep, UnreadableStep
    <3> QED BY <1>8, <3>1, <3>2, <3>3
  <2> QED BY <1>0, <1>8, <2>1, <2>2 DEF FirstRun, CleanExitComplete
(* The end of the run.                                                     *)
<1>9. CASE runs = 1 /\ Shutdown
  <2>1. /\ mainPc = "shutdown" /\ mainPc' = "off"
        /\ UNCHANGED <<runs, seen_page_ids, unreadable, failed>>
        /\ buffered \union saved \union dropped \subseteq saved' \union dropped'
    BY <1>9 DEF Shutdown, Exit
  <2>2. failed = {}
    BY <1>0, <1>9, <2>1 DEF FirstRun
  <2>3. InFlight = {}
    BY <1>0, <2>1, IdleFlight
  <2>4. \A p \in Pages, s \in Scanners :
          p \in unreadable \/ <<p, s>> \in buffered \union saved \union dropped
    <3> SUFFICES ASSUME NEW p \in Pages, NEW s \in Scanners, p \notin unreadable
                 PROVE  <<p, s>> \in buffered \union saved \union dropped
      OBVIOUS
    <3>1. p < it
      BY <1>0, <2>1
    <3>2. Accounted(p, s)
      BY <1>0, <1>9, <2>1, <3>1 DEF FirstRun
    <3> QED BY <2>2, <2>3, <3>2 DEF Accounted
  <2>5. ((Pages \ unreadable') \X Scanners) \ dropped' \subseteq saved'
    BY <2>1, <2>4
  <2>6. failed' = {}
    BY <2>1, <2>2
  <2> QED BY <1>0, <1>9, <2>1, <2>5, <2>6 DEF FirstRun, CleanExitComplete
<1>10. CASE runs = 1 /\ (OpenFails \/ FailedJoin \/ JoinFails \/ JoinTimesOut \/ Crash)
  <2>1. mainPc' = "off" /\ exitCode' # 0 /\ UNCHANGED <<runs, seen_page_ids>>
    BY <1>10 DEF OpenFails, FailedJoin, JoinFails, JoinTimesOut, Crash, Exit, Die
  <2> QED BY <1>0, <1>10, <2>1 DEF FirstRun, CleanExitComplete
<1>11. CASE runs = 1 /\ (BufferWritten \/ UNCHANGED vars)
  <2>1. /\ UNCHANGED <<runs, exitCode, seen_page_ids, it, mainPc, failed, unreadable,
                       dropped, disk_write_errors, exitCode>>
        /\ saved \subseteq saved'
    BY <1>11 DEF BufferWritten, vars
  <2>2. CleanExitComplete'
    BY <1>0, <2>1 DEF CleanExitComplete
  <2>3. CASE mainPc \in {"off", "opening"}
    BY <1>0, <1>11, <2>1, <2>2, <2>3 DEF FirstRun
  <2>4. CASE mainPc \notin {"off", "opening"}
    <3>1. ~JoinTimesOut /\ ~Crash /\ ~Begin
      BY <2>1, <2>4 DEF JoinTimesOut, Crash, Begin, Die
    <3>2. failed' = {} \/ disk_write_errors' > 0
      BY <1>0, <1>11, <2>1, <2>4 DEF FirstRun
    <3>3. mainPc' = "shutdown" => disk_write_errors' = 0
      BY <1>0, <1>11, <2>1 DEF FirstRun
    <3>4. CASE mainPc \in {"reading", "scheduling", "joining", "shutdown"}
      BY <1>3, <1>11, <2>1, <2>4, <3>1, <3>2, <3>3, <3>4
    <3>5. CASE mainPc \notin {"reading", "scheduling", "joining", "shutdown"}
      BY <1>3, <1>11, <2>1, <2>4, <3>1, <3>2, <3>3, <3>5
    <3> QED BY <3>4, <3>5
  <2> QED BY <2>3, <2>4
<1> QED
  BY <1>1, <1>2, <1>4, <1>5, <1>6, <1>7, <1>8, <1>9, <1>10, <1>11
     DEF Next, MainStep, Done

(* A first run that ends with 0 has written the features of every page     *)
(* that can be read, but for what the last flush could not write: what the *)
(* reader passes is in flight until there is a result, and a result is not *)
(* lost without an error that is seen.                                     *)
THEOREM CleanExitCompleteHolds == Spec => []CleanExitComplete
<1> DEFINE Inv == PoolInv /\ CoverInv /\ CompleteInv
<1>1. Init => Inv
  BY PoolInvInit, CoverInvInit, CompleteInvInit
<1>2. Inv /\ [Next]_vars => Inv'
  BY PoolInvStep, CoverInvStep, CompleteInvStep
<1>3. Inv => CleanExitComplete
  BY DEF CompleteInv
<1> QED BY <1>1, <1>2, <1>3, PTL DEF Spec

-----------------------------------------------------------------------------
(* The pages in memory.                                                    *)

PagesOf(U) == {u.page : u \in U}

(* A set of units is about at most as many pages as it has units.          *)
LEMMA PagesOfSize ==
  ASSUME NEW U, IsFiniteSet(U)
  PROVE  /\ IsFiniteSet(PagesOf(U))
         /\ Cardinality(PagesOf(U)) \in Nat
         /\ Cardinality(PagesOf(U)) <= Cardinality(U)
<1> DEFINE f == [u \in U |-> u.page]
<1>1. f \in Surjection(U, PagesOf(U))
  BY DEF Surjection, PagesOf
<1> HIDE DEF f
<1> QED BY <1>1, FS_Surjection, FS_CardinalityType

(* Part of a finite set is finite and not larger.                          *)
LEMMA FewerPages ==
  ASSUME NEW S, NEW T, IsFiniteSet(T), S \subseteq T
  PROVE  /\ IsFiniteSet(S)
         /\ Cardinality(S) \in Nat /\ Cardinality(T) \in Nat
         /\ Cardinality(S) <= Cardinality(T)
  BY FS_Subset, FS_CardinalityType

(* There is room for one page more while a page that was read waits to be  *)
(* scheduled.                                                              *)
RoomInv ==
  /\ IsFiniteSet(running)
  /\ IsFiniteSet(PagesOf(InFlight))
  /\ Cardinality(PagesOf(InFlight)) <= WorkerCount + 1
  /\ mainPc = "scheduling" => Cardinality(PagesOf(InFlight)) <= WorkerCount

(* When the reader is not held up there are no more pages in flight than   *)
(* workers: the test is about units, and each page has at least one.       *)
LEMMA NotThrottled ==
  ASSUME TypeInv, RoomInv, ~Throttled
  PROVE  Cardinality(PagesOf(InFlight)) <= WorkerCount
<1>1. /\ work_queue \in Seq(Units) /\ Len(work_queue) \in Nat
      /\ IsFiniteSet(running) /\ Cardinality(running) \in Nat
      /\ WorkerCount \in Nat
  BY WorkAssumption, FS_CardinalityType DEF TypeInv, TypeOK, RoomInv
<1>2. /\ IsFiniteSet(ToSet(work_queue))
      /\ Cardinality(ToSet(work_queue)) \in Nat
      /\ Cardinality(ToSet(work_queue)) <= Len(work_queue)
  BY <1>1, ToSetSize, FS_CardinalityType
<1>3. /\ IsFiniteSet(InFlight)
      /\ Cardinality(InFlight) =
           Cardinality(ToSet(work_queue)) + Cardinality(running)
             - Cardinality(ToSet(work_queue) \cap running)
  BY <1>1, <1>2, FS_Union DEF InFlight
<1>4. Cardinality(ToSet(work_queue) \cap running) \in Nat
  BY <1>1, FS_Intersection, FS_CardinalityType
<1>5. Len(work_queue) + Cardinality(running) <= WorkerCount
  BY <1>1 DEF Throttled
<1>6. /\ Cardinality(InFlight) \in Nat
      /\ Cardinality(PagesOf(InFlight)) \in Nat
      /\ Cardinality(PagesOf(InFlight)) <= Cardinality(InFlight)
  BY <1>3, PagesOfSize, FS_CardinalityType
<1> QED BY <1>1, <1>2, <1>3, <1>4, <1>5, <1>6

(* At first nothing is in flight.                                          *)
LEMMA RoomInvInit == Init => RoomInv
<1> SUFFICES ASSUME Init PROVE RoomInv
  OBVIOUS
<1>1. ToSet(work_queue) = {} /\ running = {} /\ mainPc = "off"
  BY DEF Init, ToSet
<1>2. PagesOf(InFlight) = {}
  BY <1>1 DEF PagesOf, InFlight
<1> QED BY <1>1, <1>2, FS_EmptySet, WorkAssumption DEF RoomInv

(* Only Schedule adds a page, and there was room for it; a page that       *)
(* becomes a unit per scanner stays one page.                              *)
LEMMA RoomInvStep == TypeInv /\ RoomInv /\ [Next]_vars => RoomInv'
<1> SUFFICES ASSUME TypeInv, RoomInv, [Next]_vars PROVE RoomInv'
  OBVIOUS
<1> USE DEF disk, reader, outcome, readPast, scanPast
<1>0. WorkerCount \in Nat /\ Cardinality(PagesOf(InFlight)) \in Nat
  BY WorkAssumption, FS_CardinalityType DEF RoomInv
(* No new page, and none waits that did not wait before.                   *)
<1>1. ASSUME IsFiniteSet(running'), PagesOf(InFlight)' \subseteq PagesOf(InFlight),
             mainPc' = "scheduling" => mainPc = "scheduling" \/ ~Throttled
      PROVE  RoomInv'
  <2>1. /\ IsFiniteSet(PagesOf(InFlight)')
        /\ Cardinality(PagesOf(InFlight)') \in Nat
        /\ Cardinality(PagesOf(InFlight)') <= Cardinality(PagesOf(InFlight))
    BY <1>1, FewerPages DEF RoomInv
  <2>2. mainPc' = "scheduling" => Cardinality(PagesOf(InFlight)) <= WorkerCount
    BY <1>1, NotThrottled DEF RoomInv
  <2>3. Cardinality(PagesOf(InFlight)) <= WorkerCount + 1
    BY DEF RoomInv
  <2> QED BY <1>0, <1>1, <2>1, <2>2, <2>3 DEF RoomInv
<1>2. ASSUME UNCHANGED pool,
             mainPc' = "scheduling" => mainPc = "scheduling" \/ ~Throttled
      PROVE  RoomInv'
  <2>1. PagesOf(InFlight)' = PagesOf(InFlight) /\ running' = running
    BY <1>2, FlightUnchanged DEF PagesOf, pool
  <2> QED BY <1>1, <1>2, <2>1 DEF RoomInv
<1>3. CASE Begin \/ OpenFails \/ Open \/ RecordSeen \/ AllRecorded \/ StopReading
           \/ SkipSeen \/ ReadFails \/ ReadPage \/ EndOfImage
  BY <1>2, <1>3
     DEF Begin, OpenFails, Open, RecordSeen, AllRecorded, StopReading, SkipSeen,
         ReadFails, ReadPage, EndOfImage, AtPage
<1>4. CASE FailedJoin \/ JoinFails \/ JoinSucceeds \/ Shutdown
  BY <1>2, <1>4 DEF FailedJoin, JoinFails, JoinSucceeds, Shutdown, Exit
<1>5. CASE BufferWritten \/ UNCHANGED vars
  BY <1>2, <1>5 DEF BufferWritten, vars
<1>6. CASE JoinTimesOut \/ Crash
  <2>1. work_queue' = <<>> /\ running' = {} /\ mainPc' = "off"
    BY <1>6 DEF JoinTimesOut, Crash, Die
  <2>2. InFlight' = {}
    BY <2>1 DEF InFlight, ToSet
  <2>3. PagesOf(InFlight)' = {}
    BY <2>2 DEF PagesOf
  <2> QED BY <1>1, <2>1, <2>3, FS_EmptySet
<1>7. CASE Schedule
  <2>1. /\ mainPc = "scheduling" /\ mainPc' = "reading" /\ running' = running
        /\ it' = it + 1
    BY <1>7 DEF Schedule
  <2>2. InFlight' = InFlight \union {Whole(it)}
    BY <1>7, ScheduleFlight
  <2>3. PagesOf(InFlight)' = PagesOf(InFlight) \union {it}
    <3>1. PagesOf(InFlight)' = {u.page : u \in InFlight \union {Whole(it)}}
      BY <2>2 DEF PagesOf
    <3>2. Whole(it).page = it
      BY DEF Whole
    <3>3. \A F, v : {u.page : u \in F \union {v}} = {u.page : u \in F} \union {v.page}
      OBVIOUS
    <3> QED BY <3>1, <3>2, <3>3 DEF PagesOf
  <2>4. /\ IsFiniteSet(PagesOf(InFlight)')
        /\ Cardinality(PagesOf(InFlight)') <= Cardinality(PagesOf(InFlight)) + 1
    <3>1. IsFiniteSet(PagesOf(InFlight))
      BY DEF RoomInv
    <3>2. /\ IsFiniteSet(PagesOf(InFlight) \union {it})
          /\ Cardinality(PagesOf(InFlight) \union {it}) =
               IF it \in PagesOf(InFlight) THEN Cardinality(PagesOf(InFlight))
               ELSE Cardinality(PagesOf(InFlight)) + 1
      BY <3>1, FS_AddElement
    <3> QED BY <1>0, <2>3, <3>2
  <2>5. Cardinality(PagesOf(InFlight)') \in Nat
    BY <2>4, FS_CardinalityType
  <2> QED BY <1>0, <2>1, <2>4, <2>5 DEF RoomInv
<1>8. CASE Take
  <2>1. PagesOf(InFlight)' = PagesOf(InFlight)
    BY <1>8, TakeFlight DEF PagesOf
  <2>2. IsFiniteSet(running')
    BY <1>8, FS_AddElement DEF Take, RoomInv
  <2> QED BY <1>1, <1>8, <2>1, <2>2 DEF Take
<1>9. ASSUME NEW p \in Pages, StartPage(p) PROVE RoomInv'
  <2>1. Whole(p) \in InFlight /\ InFlight' \subseteq InFlight \union UnitsOf(p)
    BY <1>9, StartFlight
  <2>2. Whole(p).page = p /\ \A u \in UnitsOf(p) : u.page = p
    BY DEF Whole, UnitsOf
  <2>3. PagesOf(InFlight)' \subseteq PagesOf(InFlight)
    BY <2>1, <2>2 DEF PagesOf
  <2>4. IsFiniteSet(running')
    BY <1>9, FS_RemoveElement DEF StartPage, RoomInv
  <2> QED BY <1>1, <1>9, <2>3, <2>4 DEF StartPage
<1>10. ASSUME NEW p \in Pages, NEW s \in Scanners, Scan(p, s) \/ ScanFails(p, s)
       PROVE  RoomInv'
  <2>1. InFlight' \subseteq InFlight
    BY <1>10, ScanFlight
  <2>2. PagesOf(InFlight)' \subseteq PagesOf(InFlight)
    BY <2>1 DEF PagesOf
  <2>3. IsFiniteSet(running')
    BY <1>10, FS_RemoveElement DEF Scan, ScanFails, RoomInv
  <2> QED BY <1>1, <1>10, <2>2, <2>3 DEF Scan, ScanFails
<1> QED
  BY <1>3, <1>4, <1>5, <1>6, <1>7, <1>8, <1>9, <1>10
     DEF Next, MainStep, WorkerStep, Done

(* However many work units a page becomes, the reader has no more pages of *)
(* the image in memory than one per worker and the one it hands over.      *)
THEOREM ReaderBoundedHolds == Spec => []ReaderBounded
<1>1. Init => TypeInv /\ RoomInv
  BY TypeInvInit, RoomInvInit
<1>2. TypeInv /\ RoomInv /\ [Next]_vars => (TypeInv /\ RoomInv)'
  BY TypeInvStep, RoomInvStep
<1>3. RoomInv => ReaderBounded
  <2> SUFFICES ASSUME RoomInv PROVE Cardinality(LivePages) <= WorkerCount + 1
    BY DEF ReaderBounded
  <2>1. WorkerCount \in Nat /\ Cardinality(PagesOf(InFlight)) \in Nat
    BY WorkAssumption, FS_CardinalityType DEF RoomInv
  <2>2. CASE mainPc = "scheduling"
    <3>1. LivePages = PagesOf(InFlight) \union {it}
      BY <2>2 DEF LivePages, PagesOf
    <3>2. Cardinality(LivePages) =
            IF it \in PagesOf(InFlight) THEN Cardinality(PagesOf(InFlight))
            ELSE Cardinality(PagesOf(InFlight)) + 1
      BY <3>1, FS_AddElement DEF RoomInv
    <3> QED BY <2>1, <2>2, <3>2 DEF RoomInv
  <2>3. CASE mainPc # "scheduling"
    BY <2>3 DEF LivePages, PagesOf, RoomInv
  <2> QED BY <2>2, <2>3
<1> QED BY <1>1, <1>2, <1>3, PTL DEF Spec

=============================================================================
