# bulk_extractor: a TLA+ verification project

bulk_extractor reads a disk image page by page, runs some 45 scanners on every
page and on everything the scanners decompress or decode out of it, and writes
the features they find (addresses, numbers, names, carved files) to feature
files and their histograms in an output directory. It does so with one reading
thread and a pool of workers, keeps a report (`report.xml`) of what it has
done, and can be started again on the same directory after a crash.

These modules model the concurrent and the fault-tolerant core of that program,
from the command line to the carved files, and those of its filters and scanners
whose rules about page borders, contexts, automata and bytes are easy to get
wrong.
They are written from the sources under `src/src/` and `src/src/be20_api/`;
`PROJECT.json` maps each definition to the lines it stands for.

Contents: [inventory](#1-inventory) · [modules](#2-modules-and-how-they-correspond-to-the-code) ·
[runs](#3-runs) · [fairness](#4-fairness) · [proofs](#5-proofs) ·
[findings](#6-findings) · [not modelled](#7-what-is-left-out) · [further work](#8-further-work)

## 1. Inventory

### Components that carry the program's own logic

| Component | State | Operations | Hard behaviour | What makes it correct |
|---|---|---|---|---|
| **Thread pool** `be20_api/threadpool.{h,cpp}` | `work_queue`, `freethreads`, `working_workers`, `mode`, `workers`, mutex `M`, condition variables `TO_MAIN`, `TO_WORKER` | `launch_workers`, `push_task` (two forms), `main_thread_wait`, `join` (two forms), `~thread_pool`, `worker::run` | lost wake-ups, a counter decremented outside the mutex, a mutex released between test and order, deadlines, a thread that cannot be created | each work unit processed exactly once; counters exact; nobody sleeps with nobody to wake him; join returns only when nothing is left and then always |
| **sbuf life cycle and scanner fan-out** `be20_api/scanner_set.cpp`, `sbuf.cpp`, `scanner_params.cpp` | per sbuf `reference_count`, `children`; `sbufs_in_queue`, `depth0_sbufs_in_queue`; `previously_processed`; `disk_write_errors` | `schedule_sbuf`, `process_sbuf(sbuf)`, `process_sbuf(sbuf, scanner)`, `retain_sbuf`, `release_sbuf`, `recurse`, `slice`, `add_child`/`del_child` | the thread that drops the last reference deletes; slices share memory of their parent; recursion in the same thread or through the queue; exceptions out of handlers | counts exact, no use after deletion, nothing leaked, every scanner once per sbuf, duplicates only where wanted |
| **Phase 1 and restart** `phase1.cpp`, `bulk_extractor_restarter.h`, order of calls in `bulk_extractor.cpp` | iterator, `seen_page_ids`, `sha1g`, `hash_next`; on disk `report.xml` and the feature files | `restart`, `read_process_sbufs`, `get_sbuf`, `dfxml_write_source`, `phase1_run`, `_Exit` on a timeout | crash between any two steps, failed reads and writes, report flushed at once and features not, restart of a restart | no page lost or processed twice over all runs, exit status and hash honest, memory bounded |
| **Image readers** `image_process.{h,cpp}`, the sampler and the ranges of `phase1.cpp` | the iterator (`raw_offset`, `page_number`, `file_number`, `eof`), the list of files | `begin`, `end`, `operator++`, `seek_block`, `sbuf_alloc`, `pread`, `get_sbuf` for raw, split, EWF images and directories | reads across files, short reads, the last page, a block past the last, wrap-around past the end | pages partition the image; every byte is read once; sampling bounded; the reader ends |
| **Forensic path and margins** `pos0.h`, `feature_recorder::write_buf` | none | the margin test | off by one at the edges of pages | each feature is written for exactly one page |
| **Scanner set: start-up and phases** `be20_api/scanner_set.{h,cpp}`, `feature_recorder_set.cpp` | `current_phase`, enabled scanners, commands, the map of recorders | `apply_scanner_commands`, `create_feature_recorder`, stop and alert lists, `phase_scan`, `shutdown`, `cleanup`, destructor, benchmark thread | scanners are visited in the order of pointers; the destructor cleans up before it joins; calls in the wrong phase throw | result independent of the order; no scanner runs before it is initialised or after it is told to end; each call once, in order |
| **Main program** `bulk_extractor.cpp` | exit status, the objects main owns | the order of everything above, each return and each handler | a failure at any step unwinds through destructors that join threads | nothing used after it is gone; the program ends |
| **Notification thread** `notify_thread.cpp` | `phase`, condition variable | `start`, `notifier`, `stop`, `join` | `stop` changes the phase without the mutex | ends although it may miss the notify |
| **Feature recorders** `be20_api/feature_recorder*.cpp` | a stream per recorder, histograms, mutexes | `write`, `write0`, `flush`, `shutdown`, opening of an existing file | buffers reach the disk in parts, write failures, incomplete last line of an earlier run | every accepted feature is one whole line, once; none is lost again; stop and alert lists keep their promise |
| **Histograms** `atomic_unicode_histogram.cpp`, `atomic_map.h` | map of counts | `add`, `makeReport` | counted in another step than written | sums equal the lines written |
| **Carving** `feature_recorder::carve`, `atomic_set.h` | `carve_cache`, `carved_file_count`, the files | `carve` with its carve and dedupe modes | two workers with the same object, the cache told before the file exists, a write that fails at any step | one file per content, a named file is whole, an object said to be cached has an original |
| **Stop and alert lists** `word_and_context_list.{h,cpp}` | `fcmap`, `context_set`, `patterns` | `readfile`, `add_fc`, `check_feature_context` | a duplicate test on contexts alone, contexts cut by windows and buffers | what is listed is stopped, in its contexts and nowhere else |
| **Word list** `scan_wordlist.{h,cpp}` | the word at hand; `seen_wordlist`, the numbered files | `process_sbuf` per page, `shutdown` | words over page borders; memory that runs out in pass 2 | every word once, at its place; pass 2 loses none |
| **JSON scanner** `scan_json.cpp` | the automaton's state and stack, two loops over one index | `check_char`, the search of a buffer | an inner loop that moves the outer one, a table of 30 states | what is written is JSON, and what is JSON is written |
| **Card numbers** `scan_ccns2.cpp` | none | `valid_ccn` and its tests | short numbers, moved pointers, limits | misreadings are caught, a verdict depends on the number alone |
| **Escaping** `unicode_escape.cpp` | the index into the string | `validateOrEscapeUTF8` | borders of code points, a loop without an increment | the file determines the bytes; one line of UTF-8; it ends |

### How they interact

```
 main thread                                       workers
 -----------                                       -------
 restarter.restart()  --reads and renames-->  report.xml
 Phase1::read_process_sbufs
   |  image_process: next page, seek, pread
   |  depth0_sbufs_in_queue > workers ? main_thread_wait (TO_MAIN)
   |  get_sbuf, sha1
   +- scanner_set::schedule_sbuf --retain, push_task-->  work_queue
                                                          |
                             worker::run --pop--> process_sbuf(sbuf)
                                   record_work_start --> report.xml (flushed)
                                   per scanner: retain, push_task --> work_queue
                             worker::run --pop--> process_sbuf(sbuf, scanner)
                                   scanner --recurse--> schedule_sbuf
                                   scanner --write--> feature recorder (buffered)
                                   release_sbuf: last one deletes, slices leave
                                                  their parent
 phase1_run: join(max wait) <--TO_MAIN-- workers
 dfxml_write_source, shutdown (histograms, streams), exit status
```

The pool's counters and condition variables couple the reader to the workers;
the atomics `reference_count` and `children` couple threads that hold the same
sbuf; `depth0_sbufs_in_queue` couples the life of sbufs to the reader's pace;
the report couples one run to the next.

### Other parts

Path printer (interactive, sequential; how it enters and leaves main is in
`Lifecycle`), SQL recorder (off by default), the other scanners (parsers:
functions from bytes to features; what they do to sbufs is in `ScannerSet`, how
they are called in `Lifecycle`), decompression and pattern search (wrappers),
packet output, logging, the report writer (a library: what is used of it, that
each record is flushed, is in `Phase1`), vendored code (rar, tsk3, spdlog,
cxxopts, utfcpp, catch, thread-pool), Python and Java tools. Their status and
the reasons are in `PROJECT.json`, and so are the hazards, each at its line.

## 2. Modules, and how they correspond to the code

| Module | Models | Extended or used by |
|---|---|---|
| `WorkPool` | what the pool promises: tasks are handed over and completed once, join only when none is pending | `ThreadPool` (refinement) |
| `ThreadPool` | `threadpool.cpp`, `scanner_set::join` | its own run, `ThreadPoolProofs` |
| `ScannerSet` | life of sbufs, fan-out, deduplication, exceptions | `MCScannerSet` (trees of sbufs), `ScannerSetProofs` |
| `Phase1` | runs on one output directory | its own runs, `Phase1Proofs` |
| `Pages` | image readers, the loop over the iterator, margins | `MCPages`, `PagesProofs` |
| `Startup` | commands, recorders, initialisation | `Lifecycle` |
| `Lifecycle` | main from the scanner set to its destructor, with workers, notification and benchmark thread | `MCLifecycle`, `LifecycleProofs` |
| `FeatureRecorder` | feature files over several runs, histogram in memory | `MCFeatureRecorder`, `FeatureRecorderProofs` |
| `Carver` | `feature_recorder::carve` by several workers | `MCCarver`, `RecordProofs` |
| `StopList` | reading of a stop list and its question | `Filters`, `FilterProofs` |
| `Wordlist` | `scan_wordlist`, both passes, over overlapping pages | `Filters`, `FilterProofs` |
| `JsonScanner` | `scan_json` and `json_checker` | `JsonGrammar`: JSON by its grammar and the properties; `MCFilters` |
| `CardNumbers` | `valid_ccn`, its tests, misread numbers | `Filters`, `FilterProofs` |
| `UnicodeEscape` | `validateOrEscapeUTF8` | `Escaping`, `RecordProofs` |
| `Escaping`, `Filters` | the last five but `JsonScanner` side by side, one per behaviour | `MCFilters`, which adds `JsonScanner`; `RecordProofs`, `FilterProofs` |
| `ThreadPoolProofs`, `ScannerSetProofs`, `Phase1Proofs`, `PagesProofs`, `LifecycleProofs`, `FeatureRecorderProofs`, `RecordProofs`, `FilterProofs` | theorems, section 5 | |

**ThreadPool.** The code holds `M` from one wait to the next and never while a
work unit is processed. So each section under `M` is one action and `M` is not
a variable; what happens outside it is an action of its own: `working_workers--`
(`Uncount`) and the last `notify_all` of a worker (`Announce`). A condition
variable is the set of those that wait on it (workers at `"waiting"`,
`mainWaits`); a notify removes from the set, `Timeout` and `SpuriousWake` are
the wake-ups without one. `push_task` from the reader (`MainPush`, `PushRetry`)
waits for a free worker, from a worker (`WorkerPush`) it does not. `join()`
gives up `M` between its last test and `mode = 2` (`Drained`, `Stop`),
`join(maximum_wait)` does not, may give up in either wait (`Deadline`) and be
repeated. A failed `std::thread` leads to the destructor (`LaunchFails`,
`Destroy`). `pushed` and `released` are history.

**ScannerSet.** Each thread runs a stack of calls, because `recurse` nests
`schedule_sbuf`, `process_sbuf` and `release_sbuf` in one thread when the sbuf
is small, is a slice, or no workers run (`RunsInSameThread`, `Inline`). A step
ends where a counter another thread may touch is touched: retain and release,
the two decrements of `del_child` (`DelChild`, `UnrefParent`). `ReadPage` tests
the limit and reads, `SchedulePage` retains and pushes or processes. Which sbuf
is made from which, by which scanner, how deep, small or not, with what content,
and whether it shares its parent's memory are constants: all the code decides
on. A slice of a slice shares, and counts on, the sbuf at the top
(`highest_parent`). Exceptions: a scanner's `DiskWriteError` is counted, others
are written to the alerts, and that write may fail in turn: `Throw` unwinds the
stack to the nearest scanner call that recursed, or past the calls that would
have released; in a worker there is no handler left (`fault = "uncaught"`), in
the main thread the reader has one. `threading` is fixed when the program
starts; a run chooses the `Modes` it covers.

**Phase1.** One variable per thing that survives a run (`report`, `saved`) and
per thing that does not. `Begin` reads and renames the report (before the image
is opened), `Open` creates the new one, `RecordSeen` copies the old records one
by one. The reader's loop is one action per way through it: stop after a failed
write, skip a page already seen, fail to read, or read, hash and schedule. A
page is one work unit until `StartPage`, which notes it in the report and
queues a unit per scanner. A scanner's features go to a buffer (`Scan`), which
reaches the disk at any time (`BufferWritten`), at the end (`Exit`), or never
(`Die`, `ScanFails`). The pool itself is not modelled again: a worker takes when
fewer than `WorkerCount` run, and `push_task` waits for one to be free.

**Pages.** One page is `Seek`, one of the ways past it (`StopAtScanEnd`, `Skip`,
`AllocFails`, `Miss`), or `Alloc`, reads until the buffer is full, and
`Schedule`. `pread` of a split image reads one file and calls itself for the
rest: each of those reads is a step (`ReadFile`) that may come short or fail. A
byte of the image is its position, so that `BytesRight` says the page has the
right bytes. `Crash` is the use of a page that does not exist: an EWF image
returns none where a raw one throws, `EndOfImage` if the file has become shorter
and `malloc_buf` if the sampler asks for a page at the end (`NoBuffer`), and a
directory has no file at `Found`. `page_number` is there because the code tests it, and no action changes
it (finding 3). `Writes` is the test of `write_buf`.

**Startup and Lifecycle.** Main's program is a list `todo` of steps. A step that
ends takes itself off the list, an exception or a return replaces the rest by
the destructors that run (`Leave`, `EarlyUnwind`, `Unwind`, `GiveUp`); `_Exit`
and a terminated process leave nothing (`<<>>`). `Startup` has the steps that
choose scanners and create recorders, `Lifecycle` those from opening the image
to the destructor of the scanner set, with its three kinds of threads. The
workers are reduced to what matters here: they take a unit, check the phase
(`StartPage`), are inside a scanner (`BeginScan`, `EndScan`) and use the report.
The notification thread's test, print, test under the mutex and wait are
separate steps, since `stop()` takes no mutex.

**FeatureRecorder.** A file is a sequence of cells; each cell of a line carries
the number of the write it belongs to, so a line that is torn, mixed or doubled
shows. `write0` puts the banner and the line into the stream, which passes any
prefix of what it holds to the disk; if the disk is full the fail bit stays.
`Reopened` is the constructor's walk back from the end of an existing file to
its last line end, with the cut of the position to `int` (modulo `IntRange`).

**Carver.** Each call of `carve` is a thread's walk through cache, number, line,
open, write and close. An object is its hash, the name its file gets, and the
kind of its path. Data larger than the stream's buffer goes to the file in
`Write`, smaller data in `Close`, where a failure sets a bit nobody asks for.

**StopList.** The state is what `readfile` builds, one action per kind of line;
a probe is a question in a state, not a step, because the list does not change
during the scan. Lines are made the way `write_buf` makes features and contexts,
from texts and windows, so that the contexts of a line and of a probe are cut at
the same ends. A regular expression is the set of features it finds.

**Wordlist.** Pass 1 is a fold over the bytes of a page and its margin
(`Words`), whose lines then reach the feature file in any interleaving of the
pages (`Write`). A backslash is quoted there (`Quoted`), which makes the word in
the file longer than the one that was measured. Pass 2 is a step per line;
`InsertFails` is `bad_alloc`. The counter of bytes that nothing increments is the
constant `outfilesize`.

**JsonScanner.** A character stands for its class; the table is a set of entries
per state, where the negative numbers of the code have names. `SkipTo` is
`pos = i; break` and the increment of the outer loop. `EnoughCommas` is
the test that decides between writing an object and only skipping it. `MinCommas`
and `stacksize` are 2 and 256 in the code; the run has the code's 2 and a stack of
4, which short texts reach.

**CardNumbers.** `Matches` is what the lexer hands over. One step is one call of
`valid_ccn`; a number that is accepted may then be misread (`Misprint`, `Swap`).
The uninitialised rest of `int4`'s array is a choice (`Fishy` gives a set of
outcomes).

**UnicodeEscape.** One step is one way through the loop. A way that neither moves
nor leaves is no step, so that a loop without end shows as a state without one.

**Escaping, Filters, MCFilters.** The last five share no state in the program, and one
run has them side by side: a behaviour is one of one filter, chosen at the beginning
(`filter`), and the variables of the others have no value. So the states add up
and do not multiply. `Escaping` is the escaping as one of them, `Filters` has it and
the other three about which there are proofs, `MCFilters` adds the JSON scanner,
whose reference the prover cannot read. The escaping is apart because its
theorems stand with those about `Carver`.

Each module holds next to some definitions a variant of it with a plausible bug
("Slip", "Mutant of"): the specification does not use them. `PROJECT.json`
pairs each with the property that must fail if it takes the definition's place,
which shows that the property can fail.

## 3. Runs

| Run | Instance and why it is enough | What it shows |
|---|---|---|
| `pool` | 3 workers, 2 units of the reader, 1 of a worker, creation may fail; no symmetry, because of the liveness properties. Three workers are needed for one to work, one to be notified and one to sleep | `NoWorkLost`, `NobodySleepsInVain`, `ImplementsPool`: the pool implements `WorkPool`; `EveryUnitReleased`, `WaitsEnd`: units are processed, the reader's waits end, joins return if scanners do, and with a deadline in any case |
| `sbuf_threads` | 2 workers, or none; page and duplicate page; a large sbuf (goes through the queue), a slice recursed into, a too deep slice of that, a local slice; 2 scanners. Two workers suffice for any two steps on one sbuf to interleave | `MemorySafe`, `ScannedOnce`, `OnlySlicedLeak` |
| `sbuf_failures` | 2 workers, one page, a small duplicate, a large and a too deep sbuf, one scanner that wants duplicates, one failing write anywhere | `NoLeak` and `PagesMoveOn`: pages are freed, the reader is released |
| `sbuf_alert_hang` | the first instance with failing writes and no workers; a violation | finding 1 |
| `restart` | 3 pages, 2 scanners, 1 worker, 2 runs; one crash, one failed write, one failed read; the image may be missing. With one worker two pages can be live, so three are more than the limit allows; gaps can be first, in the middle and last | `ReaderBounded`, `StartsRecorded`, `NoPageLost`, `CleanExitComplete`, `NoHashOverGap`, `RunEnds` |
| `restart_buffers` | the same without failures; a violation | finding 2 |
| `pages` | 8 images: raw in one file and in three, with an empty file among them, an empty one, EWF with and without a partial last block, directories with and without files; 8 choices of page size, margin, range and sampling, among them a margin longer than a page, a start past the end, a page size of 1. Reads fail and come up short anywhere | `BytesRight`, `PagesRight`, `EveryByteRead`, `FeaturesOnce`, `ReaderEnds` |
| `page_start` | the same, without failing reads; a violation | finding 3 |
| `feature_files` | 2 writers, 4 features (short, long, on the alert list, on the stop list), 2 writes, 3 runs, crashes anywhere, a disk that may fill: two lines meet in one buffer and a third run reopens what a second one has repaired. The deadlock check is off, since the system stops when runs and writes are used up | `FilesWellFormed`, `RecordsAgree`, `LinesKept` |
| `lifecycle` | 3 scanners that share recorders, one of them not part of `all`; 6 command lines; 2 workers or none; 2 pages; every failure | `StartupRight`, `NothingGone`, `CalledInOrder`, `ProgramEnds` |
| `carving` | 2 workers, 4 objects, two with the same data, two with the same name and bucket, large and small; all nine pairs of modes; every write may fail | `NamedFilesWhole`, `CacheRight`, `ModesKeepPromises` |
| `filters`: word list | every image of 6 characters in or out of words, and some with brackets, backslashes and duplicates; 5 choices of page size, margin, limits of words and `strings`; pages are scanned in any interleaving, memory may run out once | `WordsFound`, `WordsSorted` |
| `filters`: stop list | every list of 3 lines from 5 texts, features of 1 and 2 characters, windows 1 and 2, 2 patterns: a feature before, behind and next to its like, in the middle and at both ends. A third line can only add an entry or be dropped, as a second can | `LinesAreStopped`, `BareLinesStop`, `ContextDecides` |
| `filters`: JSON | texts of 4 or 5 characters over brackets, commas and digits, over objects, numbers and escapes, alone, behind the beginning of an object that has a comma or none, and before its rest or another object: so objects with none to three commas and more, of which 2 are asked for, stand inside, behind and in strings of each other. Samples with literals, nesting up to and past a stack of 4. Pages with and without a margin | `JsonFound`, `FiltersEnd` |
| `filters`: cards | some 400 numbers of 15 to 19 digits around the borders of the tests, in groups or not, 9 pairs of windows, every misprint of each accepted one | `MisreadingCaught` |
| `filters`: escapes | all strings of 3 bytes over 14 that border on the ranges of UTF-8, four-byte sequences, and the 6 combinations of flags recorders use. A step looks at 4 bytes at most | `FeaturesFit`, `FiltersEnd` |

What the less obvious properties say:

- `NobodySleepsInVain` is `NoWorkerSleepsOverWork`, for each queued unit a
  worker is already up, so the single `notify_one` of `push_task` loses nothing
  and the one-second timeout of the workers' wait is not what gets work done;
  and `MainIsHeard`, when the main thread sleeps somebody still owes it a
  notify. The latter does not speak of `main_thread_wait`, where the notify may
  come before the wait; there only the workers' timeout helps
  (`ProducerWaitEnds` in `WaitsEnd`, and its variant without the timeout fails).
- `NoWorkLost` is `WorkConserved`, what was pushed is in exactly one place or
  released, and `StopIsFinal`: the gap in `join()` between the last test and
  `mode = 2` is harmless, because nobody is left who could push.
- `MemorySafe` is `NoUseAfterFree` and `CountsExact`: at every moment `reference_count` is the number of calls
  and queued units that retain the sbuf plus that of its slices, `children`
  the number of its slices, although both are changed in separate steps, and the
  statistics the reader is throttled by agree with what is queued.
- `OnlySlicedLeak` and `NoLeak`: when all is quiet nothing is left. The first
  excepts sbufs whose slices were recursed into (section 6), without workers
  only after a failed write; the second excepts nothing but what a failed write
  has left unreleased.
- `StartsRecorded`, which is `StartedOnce` and `ReportComplete`, excepts runs that ended before they had
  copied the old records (history variable `forgotten`, section 6).
- `NoPageLost`: exit status 0 means every page was started, now or earlier, or
  could not be read now.
- `FeaturesOnce`: a feature up to one byte longer than the margin is written
  for exactly one page, wherever it lies; a longer one may be cut.
- `PagesRight` is `PagesDisjoint` and `SamplingBounded`: the sampler may draw the block behind the last one, and
  that makes it read no page twice and no more pages than asked for; `Crash`
  happens in no other cases than those it names.
- `FilesWellFormed` holds although a crash leaves half a line: the half line has
  no end, and the next run writes over it. Its variants that append behind it or
  begin at 0 fail.
- `RecordsAgree`: after an orderly end the files have what was accepted
  (`SavedAtEnd`), unless the stream failed. Its histogram counts the lines of
  this run only: what a restarted run finds in the file is in none.
- `StartupRight`: the last option that speaks of a scanner decides, and whether
  two scanners that share a recorder or a histogram start up does not depend on
  the order of pointers in a map.
- `NothingGone` contains `ScannersReady`, no scanner is entered before it is
  initialised or after it was told to end. It does not speak of the benchmark thread (section 6).
- `CacheRight` is `OneFilePerHash` and `CachedHasOriginal`: an object reported as cached whose original was lost to
  an exception is the only kind without a file.
- `ModesKeepPromises`: without the cache the feature file is a function of the
  input; with it no content is lost.
- `WordsFound`: `AllWordsWritten` needs a margin that holds the longest word, as
  `FeaturesOnce` does; and a character behind the word (section 6).
  `TwiceOnlyAtPageStart` allows a word that begins where a page does: the page
  before reads it in its margin if it has not just left a word, and so does a
  word whose end the border cuts, whose rest the next page takes for a word.
- `WordsSorted`: by `WordsKept` the words of the numbered files are those of the feature file, but
  for one word per failure. `SegmentsSorted` promises nothing about duplicates
  between files written before and after a failure.
- `ContextDecides`: for a feature that is once and not last in its context. It
  claims the text behind the feature only between equal windows (section 6).
- `JsonFound`: an object is written if it has at least two commas, wherever in it
  they are but in strings; an object with fewer is not written, and what is inside
  it is not either, because it is skipped as a whole too (`NothingInside`). Its
  variants that skip the test, ask for more than two, count only some commas, or
  skip only what they write, fail. `NothingMissed` speaks of the objects the
  scanner comes to (`Reached`): those no bracket that opens no object draws the
  automaton over. Left out are the two oddities of its numbers (`NumbersPlain`).
- `FeaturesFit`: by `EscapesReversible` the file determines the bytes in the
  image, by `FitForALine` it is UTF-8 without tabs and line ends.
- `MisreadingCaught` follows from the checksum only: the other tests reject more.

Every bound is a CONSTANT with `Max` in its name or a set given by the cfg.
The deadlock check is off in `feature_files` and `filters`, whose systems stop
when their input is used up; elsewhere the states in which a system may stop have an action `Done` or
`Ended`.

## 4. Fairness

- `ThreadPool!FairSpec`: weak fairness per worker and group of sections (the
  operating system runs a thread that can run; the wait has a timeout), of the
  main thread where it is inside a call, and of the deadline. It does not
  assume that scanners return. `EveryUnitReleased`, and of `WaitsEnd` the parts
  `ProducerWaitEnds` and `JoinReturns`, add that themselves (`ScannersReturn`),
  `BoundedJoinReturns` does without. Nothing makes the reader produce or join.
- `ScannerSet!FairSpec`: each thread that is in a call or, being a worker, finds
  a unit goes on. Scanners are finite: they make at most the sbufs of the tree.
- `Phase1!FairSpec`: the main thread and the workers go on. Failures, crashes
  and the writing of buffers are never forced.
- `Lifecycle!FairSpec`: the main thread, the notification thread, the benchmark
  thread and each worker go on. For the notification thread that includes the
  timeout of its wait (`NotifierTimes`), without which `ProgramEnds` fails: that
  timeout is all there is against the missed notify.
- `Pages!FairSpec`: the one thread goes on.
- `MCFilters!MCSpec` (like `JsonScanner!FairSpec` and `UnicodeEscape!FairSpec`): the
  loops over a buffer and a string go on, being plain sequential code.
- `FeatureRecorder`, `Carver` and the other filters are checked for safety only.

Weak fairness is enough everywhere: mutexes are not modelled as contended
variables, and no action is disabled and enabled again by another thread while
it waits, except the reader's limit, which only the reader's own pushes raise.

## 5. Proofs

`ThreadPoolProofs`, for every finite non-empty set of workers and every set of
work units (assumptions `WorkersAssumption`, `TasksAssumption`):

- `TypeCorrect`: `Spec => []TypeOK`. `TypeOK` is not inductive, since
  `released \subseteq pushed` needs to know where units come from. `TypeInv` adds
  that what is queued and what a running worker holds has been pushed, and that
  a waiting `push_task` holds one of the reader's units.
- `CountersExact`: `Spec => []Accounting`. `freethreads` and `working_workers`
  are the cardinalities of the sets of workers they count. Each step moves at
  most one worker, except `notify_all`, which moves workers inside the set of
  free ones; `CountLemma` states how a cardinality changes when one worker joins
  or leaves a set, and there is one step per action.

The sections are proved step by step from the library's facts on sequences and
lemmas on `notify_one` and `notify_all`.

Every safety property of `pool` is proved there:

- `NoWorkLostHolds`: `WorkInv` adds to `WorkConserved` that the unit a waiting
  `push_task` holds has not been pushed. `StopInv` says where the main thread
  can be once `mode = 2`, and that already at `"drained"`, where `join()` has
  given up `M` and not yet set the mode, the queue is empty and nobody works.
- `ImplementsPoolHolds`: the initial states of `ThreadPool` are initial states
  of `WorkPool`, and under these invariants each of its steps is a step of
  `WorkPool` or a stutter (`PoolStep`).
- `NobodySleepsInVainHolds`: `NoSleepStep` compares the length of the queue with
  the number of workers that are up, action by action; `HeardStep` follows who
  owes the main thread its notify.

`Phase1Proofs`, for images of any number of pages, any finite set of scanners
(none is `WholePage`), any positive number of workers, and any bounds on runs,
crashes and failures (`ImageAssumption`, `WorkAssumption`, `FaultAssumption`):

- `Phase1TypeCorrect`: `Spec => []TypeOK`. `TypeInv` adds that a page is
  scheduled only inside the image and that the errors of a run are among those
  of all runs.
- `StartedOnceHolds`, `ReportCompleteHolds`: the two promises of the restart.
  Neither is inductive. `PoolInv` says what is in the pool: a page that waits to
  be started is there once, the iterator has gone past it, and outside of the
  reading the pool is empty; one lemma per kind of step (`ScheduleEffect`,
  `TakeEffect`, `StartEffect`, `ScanEffect`) says what the step does to what is
  pending. `HistoryInv` says, for each place of the main thread, where the
  record of a started page is: in the report, still in `unrecorded`, or only in
  `seen_page_ids`; and that what is pending was not started before. A run that
  ends while the records are being copied breaks this, which is what the
  history variable `forgotten` is for. `StartsRecordedHolds` is both.
- `NoPageLostHolds`: what the iterator has passed was started, could not be read
  or is pending, and the pool is empty at the end.
- `NoHashOverGapHolds`: while hashing goes on, the pages read are exactly those
  hashed.

The second half of the module takes the work units in the queue and with the
workers as one set, with a lemma per kind of step on what it does to that set:

- `CleanExitCompleteHolds`: `FirstRun` says that in a first run what the reader
  has passed could not be read, is in flight, or has a result: buffered, saved,
  dropped or failed; and that a failed write is known (`disk_write_errors`)
  until the run ends. `AccountedStep` keeps the former through every step but a
  death, and at the shutdown the pool is empty (`PoolInv`).
- `ReaderBoundedHolds`: the throttle counts units, the property pages. `RoomInv`
  says that there is room for one page more while a page waits to be scheduled,
  since each page in flight has a unit (`NotThrottled`) and only `Schedule` adds
  a page.

With it every safety property of `restart` is proved. TLC has checked these
inductive invariants (`PoolInv`, `HistoryInv`, `CoverInv`, `HashInv`,
`CompleteInv`, `RoomInv`) on the instance of `restart`, the first four also on
one with two workers and three runs.

`ScannerSetProofs`, for any finite sets of workers, scanners, pages and derived
sbufs, whatever is made from what by which scanner, however deep it nests, with
any contents, bound on depth and number of failed writes (`ThreadsAssumption`,
`ScannersAssumption`, `SbufsAssumption`, `ModeAssumption`). `MemoryAssumption`
says whose memory a slice may share: the parent of a slice lies in every set of
sbufs that has its maker and is closed under parents, that is, it is its maker or
above it. The code has no other: the constructors are given the sbuf at hand, and
`slice` and `new_slice` its `highest_parent`.

- `MemorySafeHolds`: `MemInv` makes the counts inductive. `AllRight` says of
  each call on a stack and each queued unit what its kind implies (its sbuf is
  alive; one that is still to be processed has met no scanner; one that leaves
  its parent has no slices), `Waiting` that only the loop over the scanners and
  a scanner's call can lie below another call, `Sole` that a call which begins
  or ends the life of an sbuf is the only one on it anywhere. `SharesRight`
  and `Unborn` tie the slices to the scanner calls they come from. The counts
  are cardinalities of positions in stacks, in the queue and among what was
  abandoned, and lemmas on positions (`CountBoth`, `QueuedMore`, `LostMore`, ...)
  say what a push, a pop, a queued unit and an exception that cuts a stack do to
  them. That `~sbuf_t` never meets a child left behind follows from the
  count of a last release: it is 1, so no slice is left to count.
- `OnlySlicedLeakHolds`, `NoLeakHolds`: `LeakInv` adds `Kept`, that what is
  alive is on a stack, queued, abandoned or excused, and `Ordered`, that a local
  slice lies right above the call of the scanner that made it and that, without
  workers, a slice is used inside a call on its parent, the queue stays empty and
  nobody else works. `NoLeakHolds` supposes that no scanner recurses into a slice,
  as `sbuf_failures` does.
- `ScannedOnceHolds`: `OnceInv` adds `Alone`, that at most one call or unit
  leads to a given scanner's call on a given sbuf; `CalledRight`, that a scanner
  is still awaited there, was called once, or is passed over for good;
  `LeftRight`, that what an exception abandoned is never deleted; and
  `DedupeRight`, that of each content `process_sbuf` has met exactly one sbuf is
  not marked as a duplicate. `Has` and `Single` (some, and at most one, call or
  unit of a kind) flow from a step's top call to what it pushes or queues, by one
  lemma per shape of step (`BecomeFlows`, `TwoFlows`, `SendFlows`, ...).

With it every safety property of the `sbuf` runs is proved.

`PagesProofs`, for images of any kind, length and number of files, any page
size, margin and range, with reads that fail (`ImagesAssumption`,
`OptionsAssumption`):

- `PagesTypeCorrect`: `Spec => []TypeOK`; above all no count of bytes is
  negative, since `Alloc` is reached only before the end of the image.
- `BytesRightHolds`: `BufferInv` says that while a page is read its buffer holds
  consecutive bytes from the page's offset, and what is still wanted lies in
  the image.
- `PagesDisjointHolds`: `Spec => [](~Sampling => PagesDisjoint)`. `OrderInv`
  puts every page of an image below the iterator's offset, every page of a
  directory below its file number.
- `PagesRightHolds`: the same with sampling, its bound, and the cases in which
  the reader runs into a page that does not exist. `SampleInv` counts pages read,
  pages missed and blocks still to be read against the quota, and keeps the
  blocks apart by multiples of the page size; `CrashInv` says that without
  sampling a page is begun before the end of the image only.
- `EveryByteReadHolds`: `CoverInv` says that every byte from `scan_start` up to
  the iterator is in a page or in one that could not be read; `CoverAdvance`
  carries it over the increment of the iterator.
- `FeaturesOnceHolds`: some page has the first byte of the feature (`CoverInv`),
  only one does (`OrderInv`), and its buffer reaches far enough: `MarginInv` says
  the buffer of a page holds its margin or the rest of the image.

`RecordProofs` is about what is written of one object. First the file that is
carved, for any finite set of objects, any hashes, names and number of workers
(`CarverAssumption`):

- `OneFilePerHashHolds`: `ClaimInv` says a worker that got past the cache with
  an object owns its hash: no other worker does, and no named line has it.
- `CachedHasOriginalHolds`: `FreshInv` says an object is in one place: not yet
  found, with one worker, in the feature file or lost. `OriginInv` gives each
  hash in the cache an object that is named, at work or thrown.
- `CacheRightHolds`: both.
- `NamedFilesWholeHolds`: `WholeInv` follows the file from the line that names
  it through open, write and close.
- `ModesKeepPromisesHold`: `LineInv` says that an accepted object that was found
  is at work, lost or in the feature file, and without the cache with the bucket
  and name it has in any order of the workers; `CountInv` bounds the numbers of
  files by the objects past that step.

Then the text of a feature, for strings of bytes of any length and every
combination of flags (`EscapingAssumption`). `EscapingRight` is about `UnicodeEscape`
by itself, `FeaturesFitHolds` about it as one of the filters:

- `FeaturesFitHolds`: `EscapeRight` says at the head of the loop that what is
  written so far can be cut into UTF-8 characters without a control character
  (`Fits`), and that each byte read so far has its place in it, as itself or as
  an escape (`Reads`: a function from the bytes of the input to their places in
  the output). Both are kept when a piece is added at the end (`CutsGrow`,
  `ReadsCopy`, `ReadsEscape`); `SequenceIs` shows that the tests the code makes on
  a decoded number let only well-formed sequences through, and `OctalDigits`
  that three octal digits give the byte back. `CutIsUtf8` and `ReadsBack` go from a
  cut to the recursive `IsUtf8` and from places to the recursive `Unescaped`.

`FilterProofs` is about what decides which features are reported. First the stop
list, for texts over any alphabet and of any length, any windows,
regular expressions and number of lines (`TextsAssumption`, `SizesAssumption`):

- `ListInvariant`: what is read leaves its entry. `LinesEntered` says that a line
  with a context has its entry or shares the context with another line,
  `ContextsEntered` that each context in `context_set` but the empty one came
  with an entry, which is what the next line with it relies on; `BareEntered`
  that lines without a context always have theirs.
- `LinesAreStoppedHolds`, `BareLinesStopHolds`: from this and two facts about the
  comparison, that a string is aligned with itself and nothing with everything.
  `ExtractedTyped` says an entry is made of the feature and of parts of the
  context, for which the first occurrence must exist (`Smallest`).
- `ContextDecidesHolds`: for a feature that is once in its context and not at its
  ends the entry holds the text around it (`WindowExtracted`), and two texts read
  backwards and aligned agree as far as both windows reach (`AlignedBefore`).

Then the word list, for images, pages, margins, lengths of words and numbers of
failures of any size (`FiltersAssumption`). `WordlistRight` is about `Wordlist` by itself,
the others about it as one of the filters (`WordsInvariant`):

- `WordsFoundHolds`: `ScanRight` says what the scanner of a page knows after `n`
  characters: where the word it is in began, that nothing but words (or the rest
  of one from the start of the page) was written, in the order of the page, and
  when it has stopped; `WordKnown` that a given word of the page is ahead, at hand or
  written. `ScanSteps` and `WordStays` take one character, `WordsScanned` all of a
  page. `FlatInv` follows the lines into the file: each line of the file is one
  word of one page and no two lines are the same one (`Origins`), whatever the
  order of the pages. `AllAreWritten` finds the page in which a word begins and
  room for the rest in the margin; `OverlapAtPageStart` shows that two pages
  write about one place only where one of them begins.
- `WordsSortedHolds`: `SortsOn`, `SortsEither` and `SortsNotBoth` make
  `WordlistSorter` a strict total order, so that every finite set of words has a
  sequence in this order (`OrderExists`), which is what iterating `std::set`
  gives. `SortInv` says that each word of the feature file is in a written file,
  in memory, unread, or one of the lost, of which there are no more than
  failures; that each file is in order; and that there is at most one before the
  first failure.

And the card numbers, of any length and digits (`FiltersAssumption`), by themselves
(`CardsRight`) and as one of the filters:

- `MisreadingCaughtHolds`: `OneChanged` says that if one digit changes the
  checksum changes by the difference of what the digits count for. The table
  `doubled` is a permutation (`DoubledIs`), so a misprint never changes it by a
  multiple of ten (`MisprintCaught`), an exchange only for 0 and 9 (`SwapCaught`).
  `CardRight` keeps the accepted original at hand. `GroupedIsRejected` is needed
  too: a number in groups never passes `extract_digits_and_test`, so what is
  accepted is tested by the digits that were read.

`LifecycleProofs`, for any scanners, recorders, command lines, workers and pages
(the assumptions of `Startup` and `LifeAssumption`; `CommandLinesAssumption` only
types the names of the options):

- `LifeHolds`: `LifeInv` numbers the places of main. The list of steps still to
  be done is, at each of 31 places, a definite one (`Rest`): 24 of the program, 5
  on the way out after a full disk, one in the path printer, and the end. A step,
  a return and an exception each lead from a place to a place (`Advances`,
  `Leaves`), and `PlaceInv` says for each place what the phase, the report, the
  recorders, the commands, the calls each scanner was told of and the workers are.
- `NothingGoneHolds`, `CalledInOrderHolds`, `StartupRightHolds` follow from
  `PlaceInv`, the last with the argument that the last command about a scanner
  decides (`CommandsInv`) and that if recorders disagree, two scanners disagree
  whatever the order of visits (`TwoDisagree`).

`FeatureRecorderProofs`, for any finite set of writers, any features and lists,
lines of any length, buffers of any size, any number of runs, crashes anywhere
and a disk that fills up (`WritersAssumption`, `FeaturesAssumption`,
`BoundsAssumption`):

- `CountsHold`, `HistogramExactHolds`: `CountsRight` counts, for each feature, the
  writers that stand between its line and its count: the histogram and these
  writers together are the accepted lines of the feature file, and the alerts
  lead by the writers between the alert and the line.
- `FilesHold`: `FilesRight` says of each file what a crash at this moment would
  leave and what a flush would (`FileRight`). The file up to the stream's position
  with what the stream still holds (`Streamed`) is `Formatted`: banner lines, then
  whole lines of this recorder, no write twice. No line ends behind the position.
  Both are needed: a restart puts the position behind the last line end and the
  torn line stays in the file until it is written over. `Drained` says that
  whichever part of the stream reaches the disk `Streamed` is the same,
  `SentRight` that a write keeps it formatted, `FormattedCut` and `ReopenRight`
  that a crash and a restart leave a formatted part of it. `SavedInv` has each
  accepted line of the run in `Streamed`, `Settled` that at the end the stream
  is empty or has failed.
- `FilesWellFormedHolds`, `RecordsAgreeHolds`, `LinesKeptHolds` follow. `FilesHold`
  and these three suppose `[]FilesFit`: every file is shorter than `IntRange`,
  which is 2^32 bytes in the code. With longer ones they are false: a restart
  writes over lines (section 6). The histogram needs no such premise.

With it every safety property of `feature_files` is proved.

Where a model has a recursive function (`Words`, `Unescaped`, `IsUtf8`, `digits`,
`Checksum`), the proofs show that it exists and go along its domain with two
lemmas, `IntervalInduction` (what holds at 0 and goes from `n - 1` to `n` holds up to
a bound) and `Recursion` (so a function that is defined from one value to the next
exists). They are stated for sets instead of predicates and proved from the
well-foundedness of `<`, because the library's induction theorems have an operator
as parameter.

Model-checked only: liveness (`EveryUnitReleased`, `WaitsEnd`, `PagesMoveOn`,
`RunEnds`, `ProgramEnds`, `ReaderEnds`, `FiltersEnd`), which is out of this prover's
reach; and `JsonFound`, whose reference is the grammar of JSON, an operator that
is recursive through nested texts (`RECURSIVE` in `JsonGrammar`), which the prover
does not read.

## 6. Findings

Each is a run that must fail, and quotes what the code's documents say
(`PROJECT.json`).

1. `sbuf_alert_hang`: the handlers around a scanner write an alert, and that
   write may throw. With workers nothing catches it; without, the page is never
   released and the reader waits for ever.
2. `restart_buffers`: a page is reported at once, its features are buffered: a
   crash or timeout loses features of finished pages, and the next run skips
   them. In the same way the pages of a run that ended with a full disk are
   skipped by the restart its message recommends.
3. `page_start`: `-z PAGE` reads nothing, since no iterator counts pages.

Seen while modelling, where no document says otherwise or the project has no run
for it. The models do what the code does in each case:

- If a thread cannot be created after others were, the pool's destructor joins
  workers nobody has told to stop (`threadpool.cpp:40`; `LaunchFails`,
  `Destroy`).
- `del_child` drops what may be the last reference of the parent and deletes
  nothing (`sbuf.cpp:216`): a page outlived by a slice that a scanner recursed
  into is leaked, which is what `OnlySlicedLeak` excepts. Bundled scanners do
  not do that, a plug-in may. Without workers a slice is done before its parent,
  unless a failed write abandons it: the proof found that case, which the
  instance of `sbuf_threads`, without failures, does not reach.
- The report is renamed before the image is opened
  (`bulk_extractor_restarter.h:99`): if the image is missing the next run knows
  nothing and starts the page that crashed (`forgotten`).
- Nobody looks at a stream after its last flush (`feature_recorder_file.cpp:172`,
  `bulk_extractor.cpp:776-779`): features may be missing with status 0, which is
  what `SavedAtEnd` and `dropped` except.
- A gap at the end of the image, or skipping every page, is not noticed, and the
  hash of a prefix is reported as that of the image (`phase1.cpp:259`); hence
  the premise of `NoHashOverGap`.
- `carve` asks `bad()` after `close()`, which sets only the fail bit, so a small
  carved file that could not be written goes unnoticed
  (`feature_recorder.cpp:393`; `CloseFails`, `unnoticed`). After a failed write
  the hash stays in the cache, and later objects with it are called cached.
- Carved files of different paths may have the same name: with `-R` or the
  bucket of a hash one is written over the other (`feature_recorder.cpp:358-364`;
  `Alone`).
- The histograms of a restarted run count that run only.
- The constructor of a recorder cuts the file position to `int` before it
  compares it with 0 (`feature_recorder_file.cpp:108`). With `IntRange = 4` TLC
  finds that a restart writes over complete lines.
- The benchmark thread tests the phase and then writes to a report that main may
  have deleted (`scanner_set.cpp:283-297`, `bulk_extractor.cpp:724, 871`).
- The handlers around a scanner flush the alerts without the mutex other workers
  write under (`scanner_set.cpp:940, 950, 959`).
- The path printer runs the scanners a path names, also those that were not
  initialised (`path_printer.cpp:163`; fault `"printer"`).
- A word at the very end of an image or buffer is not written
  (`scan_wordlist.cpp:88`), although the worked examples speak of all words
  (`BEWorkedExamples.tex:477`); nothing counts the bytes of a file of pass 2, so
  the limit of 100 MB never applies (`scan_wordlist.cpp:10, 191`).
- Stop lists: the text behind a feature is compared from its end, so that a list
  made with another context window does not stop what it lists
  (`word_and_context_list.cpp:85`; `announce_1.2.txt:17`). A feature at the end
  of its context is listed as if it had none (`word_and_context_list.h:47`). Of
  two features with one context only the first is listed
  (`word_and_context_list.cpp:15-21`).
- JSON: an object that begins with the last byte of a page is found in no page
  (`scan_json.cpp:460`); two commas are enough where the comment says more than
  two (`:470-471`), and the tests side with the code: the list they expect has
  two (`test_be1.cpp:70`, `test_be2.cpp:541`); a zero with an exponent is rejected (`:193`).
- Card numbers: one with separators is always rejected, since its first digit is
  looked for behind its last one (`scan_ccns2.cpp:50`); the limit on repeated
  digits is one lower than stated (`:121, 140`); the verdict on a number of 15
  digits depends on memory that was never written (`:155`; `Fishy`).
- Escaping: every character of four bytes is escaped, since the limit has two
  zeros too many in hexadecimal (`unicode_escape.cpp:158`); with a combination of
  flags no recorder uses the conversion does not end (`:167`).
- `pos0_t::shift` drops the last digit of a number (`pos0.h:134`). An offset
  past the end of a directory reads past the list of its files.

## 7. What is left out

- `Phase1` leaves sampling and ranges to `Pages`, `Pages` leaves threads and the
  hash to `Phase1` and `ThreadPool`. The retries of `get_sbuf` after `bad_alloc`
  are one outcome, the page unread.
- The conditions that keep a scanner from an sbuf besides duplication (size,
  depth, n-gram buffers, distinct characters, `recurse_always`) are functions of
  the sbuf: with them a scanner does not run on it, which shortens the list of
  scanners.
- `process_sbuf`'s recording of a hash and statistics of time: no control
  depends on them.
- Memory order: the shared counters are sequentially consistent atomics (only
  the statistics of waiting time are relaxed).
- `ScannerSet` treats an unsigned counter as a number: the properties show that
  it never goes below zero, so the width does not matter.
- `ScannerSet` takes every sbuf as non-empty; `process_sbuf` returns at once from an
  empty one, and the caller releases it.
- `FeatureRecorder`: what a stream that has failed still writes when it is
  closed; patterns, normalisation and context of histograms; quoting of
  features; the alerts, whose recorder is flushed while it is written to.
- `Carver`: time stamps, `carve_records`, the making of directories.
- `Lifecycle`: what a scanner does in its calls, the text that is printed, the
  other options of the command line.
- `Wordlist`: a file of pass 2 that cannot be opened; other quoting than that of
  the backslash, since words have printable characters only.
- `StopList`: comments, empty lines, the matching of regular expressions.
- `CardNumbers`: the lexer beyond `Matches`, track 2 data, the test for social
  network identifiers (`is_fbid`), the other filters of `scan_ccns2.cpp`.
- `UnicodeEscape`: UTF-16.
- The other parsers. Most of the repository is not the program's control:
  vendored libraries (catch, cxxopts, rar, spdlog, utfcpp, tsk3) and some 45
  scanners, lexers and decoders that turn bytes into features without shared
  state. What a scanner can do to the rest, make sbufs, write, carve, throw and be slow, is
  modelled; which bytes make it do so is a choice. Modelling the formats byte by
  byte would restate their code and check nothing against it. So the modules
  cover the control core and a small share of all lines.
- Everything listed `not_modelled` in `PROJECT.json`.

## 8. Further work

1. The composition of `FeatureRecorder` and `Phase1`: features of a page and the
   page's record in one crash model.
2. A proof of `JsonFound`: the grammar as the least of the sets closed under its
   rules, instead of an operator that calls itself, and an invariant that relates
   the automaton's stack to the open brackets.
3. More filters: telephone numbers, vehicle identification, Base58 addresses; and
   the packet writer, which several scanners share.
