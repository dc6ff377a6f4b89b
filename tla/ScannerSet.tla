----------------------------- MODULE ScannerSet -----------------------------
(***************************************************************************)
(* The life of sbufs in be20_api/scanner_set.cpp and be20_api/sbuf.cpp:    *)
(* reference counts, children, the fan-out of an sbuf to the scanners, the *)
(* recursion of the scanners, and the deletion of what nobody holds.       *)
(*                                                                         *)
(* Every thread runs a stack of calls.  A thread's step ends where it      *)
(* touches a counter another thread may touch.  The pool is reduced to its *)
(* queue: what ThreadPool shows about wake-ups and counters is not modelled*)
(* again.  Data is reduced to what the code decides on: which sbuf is made *)
(* from which and by which scanner, whether it shares its parent's memory, *)
(* whether it is small, how deep it is and what its content hashes to.     *)
(***************************************************************************)
EXTENDS Integers, Sequences, FiniteSets, Functions

CONSTANTS
  Workers,          \* the threads of the pool
  Main,             \* the main thread
  Scanners,         \* the enabled scanners
  OptIn,            \* those that asked to see duplicates (scan_seen_before)
  NoScanner,        \* "all the scanners" in a work unit
  Pages,            \* the sbufs the main thread reads from the image
  Derived,          \* the sbufs the scanners may make
  Maker,            \* the sbuf a derived sbuf is made from
  By,               \* and the scanner that makes it
  Kind,             \* "malloc": has memory of its own, recursed into
                    \* "slice":  shares its parent's memory, recursed into
                    \* "local":  shares its parent's memory, deleted by its maker
  Parent,           \* for a slice or local: the sbuf whose memory it shares
  Small,            \* the derived sbufs below SAME_THREAD_SBUF_SIZE
  Depth,            \* pos0.depth()
  MaxDepth,         \* max_depth
  Content,          \* what an sbuf hashes to
  Legacy,           \* dedupe_mode is LEGACY
  Modes,            \* whether workers are launched: TRUE, FALSE or either
  SameThread,       \* debug_scanners_same_thread
  MaxDiskErrors     \* bound: how many disk writes may fail

Sbufs   == Pages \union Derived
Threads == Workers \union {Main}
Shares(s) == s \in Derived /\ Kind[s] \in {"slice", "local"}

ASSUME ThreadsAssumption == /\ IsFiniteSet(Workers) /\ Main \notin Workers
                            /\ Workers # {} /\ Modes \subseteq BOOLEAN
                            /\ SameThread \in BOOLEAN
ASSUME ScannersAssumption == /\ IsFiniteSet(Scanners) /\ NoScanner \notin Scanners
                             /\ OptIn \subseteq Scanners
ASSUME SbufsAssumption ==
  /\ IsFiniteSet(Pages) /\ IsFiniteSet(Derived) /\ Pages \intersect Derived = {}
  /\ Maker \in [Derived -> Sbufs] /\ By \in [Derived -> Scanners]
  /\ Kind \in [Derived -> {"malloc", "slice", "local"}]
  /\ Parent \in [Derived -> Sbufs]
  /\ Small \subseteq Derived
  /\ Depth \in [Sbufs -> Nat] /\ \A p \in Pages : Depth[p] = 0
  /\ Content \in [Sbufs -> Sbufs]
(* A slice shares the memory of the sbuf it is cut from, as do the         *)
(* constructors', or that of the highest parent, as slice's and new_slice's.*)
ASSUME MemoryAssumption ==
  \A d \in Derived : Shares(d) =>
    \A S \in SUBSET Sbufs :
      Maker[d] \in S /\ (\A e \in S \intersect Derived : Shares(e) => Parent[e] \in S)
        => Parent[d] \in S
ASSUME ModeAssumption == /\ Legacy \in BOOLEAN
                         /\ MaxDepth \in Nat \ {0} /\ MaxDiskErrors \in Nat

VARIABLES
  threading,              \* the workers were launched
  life,                   \* "unborn", "alive" or "deleted", per sbuf
  reference_count,        \* atomic, per sbuf
  children,               \* atomic, per sbuf
  sbufs_in_queue,         \* atomic: retains not yet released
  depth0_sbufs_in_queue,  \* the same for the pages only
  work_queue,             \* the pool's queue of work units
  stack,                  \* the calls each thread is in
  previously_processed,   \* the contents process_sbuf has met
  seen_before,            \* per sbuf: marked a duplicate
  disk_write_errors,      \* counted by scanners whose write failed
  fault,                  \* why the process died, or "none"
  calls,                  \* history: how often a scanner was called on an sbuf
  abandoned               \* history: the sbufs an exception left unreleased

counters == <<sbufs_in_queue, depth0_sbufs_in_queue>>
dedupe   == <<previously_processed, seen_before>>
vars == <<threading, life, reference_count, children, counters, work_queue, stack,
          dedupe, disk_write_errors, fault, calls, abandoned>>

Unit(s, sc) == [sbuf |-> s, scanner |-> sc]

(* A call: "schedule" is the reader's schedule_sbuf(s), "process" is       *)
(* process_sbuf(s) at its start, "each" its loop over the scanners in      *)
(* todo, "scan" is process_sbuf(s, scanner), "release" is  *)
(* release_sbuf(s), "local" a scanner's use of a local slice, and "del" and*)
(* "unref" are the two decrements of the parent in ~sbuf_t.                *)
Call(fn, s, sc, todo) == [fn |-> fn, sbuf |-> s, scanner |-> sc, todo |-> todo]
Process(s)  == Call("process", s, NoScanner, {})
Scan(s, sc) == Call("scan", s, sc, {})

Top(th) == stack[th][Len(stack[th])]
Below(th) == SubSeq(stack[th], 1, Len(stack[th]) - 1)
(* The call th is in; a dead process is in none.                           *)
In(th, fn) == fault = "none" /\ stack[th] # <<>> /\ Top(th).fn = fn

(* Enter a call from the top one, replace the top one, return from it.     *)
Enter(th, call)  == stack' = [stack EXCEPT ![th] = Append(@, call)]
Become(th, call) == stack' = [stack EXCEPT ![th] = Append(Below(th), call)]
Return(th)       == stack' = [stack EXCEPT ![th] = Below(th)]
BecomeRelease(th) == Become(th, Call("release", Top(th).sbuf, NoScanner, {}))

Init ==
  /\ threading \in Modes
  /\ life = [s \in Sbufs |-> "unborn"]
  /\ reference_count = [s \in Sbufs |-> 0]
  /\ children = [s \in Sbufs |-> 0]
  /\ sbufs_in_queue = 0
  /\ depth0_sbufs_in_queue = 0
  /\ work_queue = <<>>
  /\ stack = [th \in Threads |-> <<>>]
  /\ previously_processed = {}
  /\ seen_before = {}
  /\ disk_write_errors = 0
  /\ fault = "none"
  /\ calls = [s \in Sbufs |-> [sc \in Scanners |-> 0]]
  /\ abandoned = <<>>

(* Mutants of UpdateQueueStats: nothing is counted down, or the pages'     *)
(* counter follows every sbuf.                                             *)
StatsUpOnly(s, dir) ==
  /\ sbufs_in_queue' = sbufs_in_queue + IF dir > 0 THEN dir ELSE 0
  /\ depth0_sbufs_in_queue' =
       depth0_sbufs_in_queue + IF Depth[s] = 0 /\ dir > 0 THEN dir ELSE 0
StatsAtAnyDepth(s, dir) ==
  /\ sbufs_in_queue' = sbufs_in_queue + dir
  /\ depth0_sbufs_in_queue' = depth0_sbufs_in_queue + dir

(* update_queue_stats.                                                     *)
UpdateQueueStats(s, dir) ==
  /\ sbufs_in_queue' = sbufs_in_queue + dir
  /\ depth0_sbufs_in_queue' =
       depth0_sbufs_in_queue + IF Depth[s] = 0 THEN dir ELSE 0

(* Scanners that run in the thread that schedules them.                    *)
Inline == ~threading \/ SameThread
(* schedule_sbuf processes these at once, in the calling thread.           *)
RunsInSameThread(s) == \/ Inline
                       \/ Depth[s] > 0 /\ s \in Small
                       \/ Shares(s)

-----------------------------------------------------------------------------
(* The main thread reads the image, page by page.                          *)

WorkerCount == IF threading THEN Cardinality(Workers) ELSE 1
Throttled   == depth0_sbufs_in_queue > WorkerCount

(* Unless too much is in the queue it reads a page ...                     *)
ReadPage(p) ==
  /\ fault = "none"
  /\ stack[Main] = <<>>
  /\ ~Throttled
  /\ life[p] = "unborn"
  /\ life' = [life EXCEPT ![p] = "alive"]
  /\ Enter(Main, Call("schedule", p, NoScanner, {}))
  /\ UNCHANGED <<threading, reference_count, children, counters, work_queue,
                 dedupe, disk_write_errors, fault, calls, abandoned>>

(* ... and calls schedule_sbuf with it.                                    *)
SchedulePage ==
  /\ In(Main, "schedule")
  /\ LET p == Top(Main).sbuf IN
       /\ reference_count' = [reference_count EXCEPT ![p] = @ + 1]
       /\ UpdateQueueStats(p, 1)
       /\ IF RunsInSameThread(p)
          THEN Become(Main, Process(p)) /\ UNCHANGED work_queue
          ELSE Return(Main) /\ work_queue' = Append(work_queue, Unit(p, NoScanner))
  /\ UNCHANGED <<threading, life, children, dedupe, disk_write_errors, fault,
                 calls, abandoned>>

(* A worker takes a work unit.                                             *)
Take(w) ==
  /\ fault = "none"
  /\ threading
  /\ stack[w] = <<>>
  /\ work_queue # <<>>
  /\ LET u == Head(work_queue) IN
       Enter(w, IF u.scanner = NoScanner THEN Process(u.sbuf)
                                         ELSE Scan(u.sbuf, u.scanner))
  /\ work_queue' = Tail(work_queue)
  /\ UNCHANGED <<threading, life, reference_count, children, counters,
                 dedupe, disk_write_errors, fault, calls, abandoned>>

-----------------------------------------------------------------------------
(* process_sbuf(s).                                                        *)

TooDeep(s) == Depth[s] >= MaxDepth
Asserted(s) == children[s] = 0 /\ reference_count[s] > 0

(* Too deep: an alert is written and the scanners do not run.              *)
ProcessTooDeep(th) ==
  /\ In(th, "process")
  /\ Asserted(Top(th).sbuf)
  /\ TooDeep(Top(th).sbuf)
  /\ BecomeRelease(th)
  /\ UNCHANGED <<threading, life, reference_count, children, counters,
                 work_queue, dedupe, disk_write_errors, fault, calls,
                 abandoned>>

(* A DiskWriteError leaves the call on top.  The scanner whose recursion   *)
(* led there catches it and counts it; the calls in between release        *)
(* nothing.  Without such a scanner it ends the process, unless the main   *)
(* thread processes its page itself and goes on with the next one.         *)
Catchers(th) == {i \in 1..(Len(stack[th]) - 1) : stack[th][i].fn = "scanning"}

Unwind(th, i, calls_left) ==
  /\ stack' = [stack EXCEPT ![th] = calls_left]
  /\ abandoned' = abandoned \o [j \in 1..(Len(stack[th]) - i) |-> stack[th][i + j].sbuf]
  /\ UNCHANGED fault

Throw(th) ==
  /\ disk_write_errors < MaxDiskErrors
  /\ IF Catchers(th) # {}
     THEN /\ \E i \in Catchers(th) :
               /\ \A j \in Catchers(th) : j <= i
               /\ Unwind(th, i, Append(SubSeq(stack[th], 1, i - 1),
                                       Call("release", stack[th][i].sbuf, NoScanner, {})))
          /\ disk_write_errors' = disk_write_errors + 1
     ELSE /\ IF th = Main
             THEN Unwind(th, 0, <<>>)
             ELSE fault' = "uncaught" /\ UNCHANGED <<stack, abandoned>>
          /\ UNCHANGED disk_write_errors
  /\ UNCHANGED <<threading, life, reference_count, children, counters,
                 work_queue, dedupe, calls>>

(* The alert of a too deep sbuf cannot be written.                         *)
ProcessAlertFails(th) ==
  /\ In(th, "process")
  /\ Asserted(Top(th).sbuf)
  /\ TooDeep(Top(th).sbuf)
  /\ Throw(th)

(* Mutant of Recall: only the count is taken.                              *)
RecallNothing(s) == UNCHANGED previously_processed

(* previously_processed_count: count and insert in one section.            *)
Recall(s) == previously_processed' = previously_processed \union {Content[s]}
Seen(s)   == Content[s] \in previously_processed

(* The assertions; then a duplicate that no scanner wants is not scanned   *)
(* at all, and everything else goes to the loop over the scanners.         *)
ProcessBegin(th) ==
  /\ In(th, "process")
  /\ Asserted(Top(th).sbuf) => ~TooDeep(Top(th).sbuf)
  /\ IF ~Asserted(Top(th).sbuf)
     THEN fault' = "assert" /\ UNCHANGED <<dedupe, stack>>
     ELSE LET s == Top(th).sbuf
              duplicate == Legacy /\ Seen(s)
          IN /\ Recall(s)
             /\ seen_before' = seen_before \union IF duplicate THEN {s} ELSE {}
             /\ IF duplicate /\ OptIn = {}
                THEN BecomeRelease(th)
                ELSE Become(th, Call("each", s, NoScanner, Scanners))
             /\ UNCHANGED fault
  /\ UNCHANGED <<threading, life, reference_count, children, counters,
                 work_queue, disk_write_errors, calls, abandoned>>

(* Mutant of EachScanner: the work units are queued without a retain.      *)
EachUnretained(th) ==
  /\ In(th, "each")
  /\ \E sc \in Top(th).todo :
       LET s == Top(th).sbuf
           rest == Call("each", s, NoScanner, Top(th).todo \ {sc})
       IN work_queue' = Append(work_queue, Unit(s, sc)) /\ Become(th, rest)
  /\ UNCHANGED <<threading, life, reference_count, children, counters,
                 dedupe, disk_write_errors, fault, calls, abandoned>>

(* One turn of the loop: retain, then run the scanner or queue it.         *)
EachScanner(th) ==
  /\ In(th, "each")
  /\ \E sc \in Top(th).todo :
       LET s == Top(th).sbuf
           rest == Call("each", s, NoScanner, Top(th).todo \ {sc})
       IN /\ reference_count' = [reference_count EXCEPT ![s] = @ + 1]
          /\ UpdateQueueStats(s, 1)
          /\ IF Inline
             THEN /\ stack' = [stack EXCEPT ![th] =
                                 Below(th) \o <<rest, Scan(s, sc)>>]
                  /\ UNCHANGED work_queue
             ELSE /\ work_queue' = Append(work_queue, Unit(s, sc))
                  /\ Become(th, rest)
  /\ UNCHANGED <<threading, life, children, dedupe, disk_write_errors, fault,
                 calls, abandoned>>

(* The loop is done.                                                       *)
EachDone(th) ==
  /\ In(th, "each")
  /\ Top(th).todo = {}
  /\ BecomeRelease(th)
  /\ UNCHANGED <<threading, life, reference_count, children, counters,
                 work_queue, dedupe, disk_write_errors, fault, calls,
                 abandoned>>

-----------------------------------------------------------------------------
(* process_sbuf(s, scanner).                                               *)

(* Mutant of ScanBypassed: an early return past the release.               *)
BypassKept(th) ==
  /\ In(th, "scan")
  /\ Top(th).sbuf \in seen_before /\ Top(th).scanner \notin OptIn
  /\ Return(th)
  /\ UNCHANGED <<threading, life, reference_count, children, counters,
                 work_queue, dedupe, disk_write_errors, fault, calls,
                 abandoned>>

(* A scanner that does not want duplicates is not called on one.           *)
ScanBypassed(th) ==
  /\ In(th, "scan")
  /\ Top(th).sbuf \in seen_before /\ Top(th).scanner \notin OptIn
  /\ BecomeRelease(th)
  /\ UNCHANGED <<threading, life, reference_count, children, counters,
                 work_queue, dedupe, disk_write_errors, fault, calls,
                 abandoned>>

(* The scanner is called; todo is then what it may still make.             *)
MadeBy(s, sc) == {d \in Derived : Maker[d] = s /\ By[d] = sc}

ScanBegin(th) ==
  /\ In(th, "scan")
  /\ Top(th).sbuf \notin seen_before \/ Top(th).scanner \in OptIn
  /\ LET s == Top(th).sbuf
         sc == Top(th).scanner
     IN /\ calls' = [calls EXCEPT ![s][sc] = @ + 1]
        /\ Become(th, Call("scanning", s, sc, MadeBy(s, sc)))
  /\ UNCHANGED <<threading, life, reference_count, children, counters,
                 work_queue, dedupe, disk_write_errors, fault, abandoned>>

(* Mutant of AddRef: a child does not hold its parent.                     *)
AddNoRef(d, cnt) == cnt

(* The two increments of add_child.                                        *)
AddChild(d, cnt) == IF Shares(d) THEN [cnt EXCEPT ![Parent[d]] = @ + 1] ELSE cnt
AddRef(d, cnt)   == IF Shares(d) THEN [cnt EXCEPT ![Parent[d]] = @ + 1] ELSE cnt

(* The scanner makes an sbuf.  A local slice it uses and deletes; another  *)
(* sbuf goes through recurse() to schedule_sbuf.                           *)
ScanMakes(th) ==
  /\ In(th, "scanning")
  /\ \E d \in Top(th).todo :
       LET rest == [Top(th) EXCEPT !.todo = @ \ {d}] IN
       /\ life[d] = "unborn"
       /\ life' = [life EXCEPT ![d] = "alive"]
       /\ children' = AddChild(d, children)
       /\ IF Kind[d] = "local"
          THEN /\ reference_count' = AddRef(d, reference_count)
               /\ stack' = [stack EXCEPT ![th] = Below(th) \o
                              <<rest, Call("local", d, NoScanner, {})>>]
               /\ UNCHANGED <<counters, work_queue>>
          ELSE /\ reference_count' =
                    [AddRef(d, reference_count) EXCEPT ![d] = @ + 1]
               /\ UpdateQueueStats(d, 1)
               /\ IF RunsInSameThread(d)
                  THEN /\ stack' = [stack EXCEPT ![th] =
                                      Below(th) \o <<rest, Process(d)>>]
                       /\ UNCHANGED work_queue
                  ELSE /\ work_queue' = Append(work_queue, Unit(d, NoScanner))
                       /\ Become(th, rest)
  /\ UNCHANGED <<threading, dedupe, disk_write_errors, fault, calls,
                 abandoned>>

(* The scanner returns, or throws what is caught: a DiskWriteError is      *)
(* counted, anything else is written to the alerts.                        *)
ScanEnds(th) ==
  /\ In(th, "scanning")
  /\ BecomeRelease(th)
  /\ \/ UNCHANGED disk_write_errors
     \/ /\ disk_write_errors < MaxDiskErrors
        /\ disk_write_errors' = disk_write_errors + 1
  /\ UNCHANGED <<threading, life, reference_count, children, counters,
                 work_queue, dedupe, fault, calls, abandoned>>

(* It throws something else and that alert cannot be written: the handler  *)
(* itself throws.                                                          *)
ScanAlertFails(th) ==
  /\ In(th, "scanning")
  /\ Throw(th)

-----------------------------------------------------------------------------
(* release_sbuf and ~sbuf_t.                                               *)

(* What delete does first: a child left behind terminates the process, a   *)
(* slice leaves its parent, anything else is gone.                         *)
Destroy(th, s) ==
  IF children[s] # 0
  THEN fault' = "children" /\ UNCHANGED <<life, stack>>
  ELSE /\ UNCHANGED fault
       /\ IF Shares(s)
          THEN Become(th, Call("del", s, NoScanner, {})) /\ UNCHANGED life
          ELSE Return(th) /\ life' = [life EXCEPT ![s] = "deleted"]
(* Mutant of Release: the post-decrement's value is compared.              *)
ReleaseTooLate(th) ==
  /\ In(th, "release")
  /\ LET s == Top(th).sbuf IN
       /\ UpdateQueueStats(s, -1)
       /\ reference_count' = [reference_count EXCEPT ![s] = @ - 1]
       /\ IF reference_count[s] = 0
          THEN Destroy(th, s)
          ELSE Return(th) /\ UNCHANGED <<life, fault>>
  /\ UNCHANGED <<threading, children, work_queue, dedupe, disk_write_errors,
                 calls, abandoned>>

(* release_sbuf(s).                                                        *)

Release(th) ==
  /\ In(th, "release")
  /\ LET s == Top(th).sbuf IN
       /\ UpdateQueueStats(s, -1)
       /\ reference_count' = [reference_count EXCEPT ![s] = @ - 1]
       /\ IF reference_count[s] = 1
          THEN Destroy(th, s)
          ELSE Return(th) /\ UNCHANGED <<life, fault>>
  /\ UNCHANGED <<threading, children, work_queue, dedupe, disk_write_errors,
                 calls, abandoned>>

(* A local slice goes out of scope.                                        *)
LocalEnds(th) ==
  /\ In(th, "local")
  /\ Destroy(th, Top(th).sbuf)
  /\ UNCHANGED <<threading, reference_count, children, counters, work_queue,
                 dedupe, disk_write_errors, calls, abandoned>>

(* del_child: two atomic decrements, and no look at what is left.  Its     *)
(* assertion children >= 0 is about an unsigned number and always holds.   *)
DelChild(th) ==
  /\ In(th, "del")
  /\ LET p == Parent[Top(th).sbuf] IN children' = [children EXCEPT ![p] = @ - 1]
  /\ Become(th, [Top(th) EXCEPT !.fn = "unref"])
  /\ UNCHANGED <<threading, life, reference_count, counters, work_queue,
                 dedupe, disk_write_errors, fault, calls, abandoned>>

(* The second decrement.                                                   *)
UnrefParent(th) ==
  /\ In(th, "unref")
  /\ LET s == Top(th).sbuf IN
       /\ reference_count' = [reference_count EXCEPT ![Parent[s]] = @ - 1]
       /\ life' = [life EXCEPT ![s] = "deleted"]
  /\ Return(th)
  /\ UNCHANGED <<threading, children, counters, work_queue, dedupe,
                 disk_write_errors, fault, calls, abandoned>>

-----------------------------------------------------------------------------
ThreadStep(th) ==
  \/ ProcessTooDeep(th) \/ ProcessAlertFails(th)
  \/ ProcessBegin(th) \/ EachScanner(th) \/ EachDone(th)
  \/ ScanBypassed(th) \/ ScanBegin(th) \/ ScanMakes(th) \/ ScanEnds(th)
  \/ ScanAlertFails(th)
  \/ Release(th) \/ LocalEnds(th) \/ DelChild(th) \/ UnrefParent(th)

Quiet == work_queue = <<>> /\ \A th \in Threads : stack[th] = <<>>

(* The main thread may stop reading pages; a dead process does nothing.    *)
Done == (Quiet \/ fault # "none") /\ UNCHANGED vars

Next ==
  \/ \E p \in Pages : ReadPage(p)
  \/ SchedulePage
  \/ \E w \in Workers : Take(w)
  \/ \E th \in Threads : ThreadStep(th)
  \/ Done

Spec == Init /\ [][Next]_vars

(* Every thread that has something to do goes on.                          *)
FairSpec == /\ Spec
            /\ \A w \in Workers : WF_vars(Take(w) \/ ThreadStep(w))
            /\ WF_vars(SchedulePage \/ ThreadStep(Main))

-----------------------------------------------------------------------------
(* What the reference counts are for.                                      *)

(* Type invariant.                                                         *)
CallType == [fn : {"schedule", "process", "each", "scan", "scanning", "release", "local",
                   "del", "unref"},
             sbuf : Sbufs, scanner : Scanners \union {NoScanner},
             todo : SUBSET (Scanners \union Derived)]
TypeOK ==
  /\ threading \in BOOLEAN
  /\ life \in [Sbufs -> {"unborn", "alive", "deleted"}]
  /\ reference_count \in [Sbufs -> Nat]
  /\ children \in [Sbufs -> Nat]
  /\ sbufs_in_queue \in Nat
  /\ depth0_sbufs_in_queue \in Nat
  /\ work_queue \in Seq([sbuf : Sbufs, scanner : Scanners \union {NoScanner}])
  /\ stack \in [Threads -> Seq(CallType)]
  /\ previously_processed \subseteq Sbufs
  /\ seen_before \subseteq Sbufs
  /\ disk_write_errors \in 0..MaxDiskErrors
  /\ fault \in {"none", "children", "assert", "uncaught"}
  /\ calls \in [Sbufs -> [Scanners -> Nat]]
  /\ abandoned \in Seq(Sbufs)

(* The places that hold an sbuf by a retain_sbuf they will release.        *)
RetainingCalls == {"process", "each", "scan", "scanning", "release"}
Frames == UNION {{th} \X DOMAIN stack[th] : th \in Threads}
Frame(f) == stack[f[1]][f[2]]
Retains(S) ==
  Cardinality({i \in DOMAIN work_queue : work_queue[i].sbuf \in S})
  + Cardinality({f \in Frames : Frame(f).sbuf \in S /\ Frame(f).fn \in RetainingCalls})
  + Cardinality({i \in DOMAIN abandoned : abandoned[i] \in S})

Slices(s) == {d \in Derived : Shares(d) /\ Parent[d] = s /\ life[d] = "alive"}
Leaving   == {Frame(f).sbuf : f \in {g \in Frames : Frame(g).fn = "unref"}}

(* The counts are exact at every moment, although add_child, del_child,    *)
(* retain and release run in any number of threads: reference_count is the *)
(* work units and calls that retain the sbuf plus the slices of it, and    *)
(* children is the slices of it.                                           *)
ReferencesExact ==
  \A s \in Sbufs :
    life[s] = "alive" =>
      /\ reference_count[s] = Retains({s}) + Cardinality(Slices(s))
      /\ children[s] = Cardinality(Slices(s) \ Leaving)

(* Nothing that a call or a queued work unit will touch has been deleted,  *)
(* nor has the sbuf whose memory a slice shares; the process does not die  *)
(* of an sbuf deleted before its slices, nor of an assertion of            *)
(* process_sbuf.                                                           *)
NoUseAfterFree ==
  /\ fault \notin {"children", "assert"}
  /\ \A f \in Frames : life[Frame(f).sbuf] = "alive"
  /\ \A i \in DOMAIN work_queue : life[work_queue[i].sbuf] = "alive"
  /\ \A d \in Derived :
       Shares(d) /\ life[d] = "alive" => life[Parent[d]] = "alive"

(* The statistics the producer is throttled by count exactly the retains   *)
(* that have not been released.                                            *)
StatsExact ==
  /\ sbufs_in_queue = Retains(Sbufs)
  /\ depth0_sbufs_in_queue = Retains({s \in Sbufs : Depth[s] = 0})

(* Every retain is counted once: by the sbuf, and by the statistics.       *)
CountsExact == TypeOK /\ ReferencesExact /\ StatsExact

(* No thread uses memory that was freed, and the counts by which sbufs are *)
(* freed are those of their uses, in the middle of every call              *)
(* (scanner_set.cpp:748-776, sbuf.cpp:150-240).                            *)
MemorySafe == NoUseAfterFree /\ CountsExact

Processed(s) == life[s] = "deleted" /\ ~TooDeep(s)
                /\ (s \in Derived => Kind[s] # "local")

(* When an sbuf is gone every enabled scanner has been called on it, and   *)
(* once; in LEGACY mode a duplicate reaches only the scanners that opted   *)
(* in, and never is a content bypassed that was not scanned before.        *)
ScannedOnce ==
  /\ \A s \in Sbufs, sc \in Scanners : calls[s][sc] <= 1
  /\ \A s \in Sbufs, sc \in Scanners :
       Processed(s) => (calls[s][sc] = 1 <=> s \notin seen_before \/ sc \in OptIn)
  /\ \A sc \in Scanners \ OptIn : \A r, s \in Sbufs :
       Legacy /\ calls[r][sc] > 0 /\ calls[s][sc] > 0 /\ Content[r] = Content[s]
         => r = s
  /\ \A s \in seen_before : \E r \in Sbufs \ seen_before :
       Content[r] = Content[s] /\ life[r] # "unborn"

(* When nothing is queued and no thread is in a call, every sbuf has been  *)
(* deleted ("sbufs unaccounted", which "should be 0") but for those that a *)
(* failed write has left unreleased, with no workers as well as with them. *)
NoLeak ==
  Quiet /\ fault = "none" =>
    \A s \in Sbufs : life[s] = "alive" => s \in Range(abandoned)

(* The only sbufs that may otherwise be left behind are those of which     *)
(* slices were recursed into, which may have outlived all that was queued  *)
(* of them.  Without workers that takes a failed write, which leaves a     *)
(* slice unreleased.                                                       *)
OnlySlicedLeak ==
  Quiet /\ fault = "none" =>
    \A s \in Sbufs : life[s] = "alive" /\ s \notin Range(abandoned) =>
      /\ threading \/ abandoned # <<>>
      /\ \E d \in Derived : Kind[d] = "slice" /\ life[d] # "unborn" /\ Parent[d] = s

(* Every page that is scheduled is in the end deleted, unless the process  *)
(* dies.                                                                   *)
PagesFreed ==
  \A p \in Pages : life[p] = "alive" ~> (life[p] = "deleted" \/ fault # "none")

(* The reader is never held up for good by the limit on what is queued.    *)
ThrottleEnds == Throttled ~> (~Throttled \/ fault # "none")

(* Whatever write fails in a worker, the pages are freed and the reader    *)
(* goes on.                                                                *)
PagesMoveOn == PagesFreed /\ ThrottleEnds
=============================================================================
