--------------------------- MODULE FeatureRecorder ---------------------------
(***************************************************************************)
(* Feature files: be20_api/feature_recorder.cpp and                        *)
(* feature_recorder_file.cpp.  Writer threads send features through the    *)
(* stop list, the alert list, the locked stream and the histogram; the     *)
(* process may crash, run out of disk or end in order, and a later run     *)
(* reopens the files behind their last complete line.                      *)
(*                                                                         *)
(* A file is a sequence of cells.  A cell is the end of a line, a banner   *)
(* cell or the number of the write it belongs to, so that every line tells *)
(* which write it came from.  A stream holds back any part of what it was  *)
(* given: how much reaches the disk with each write is a choice.           *)
(***************************************************************************)
EXTENDS Integers, Sequences, FiniteSets, FiniteSetsExt

CONSTANTS
  Writers,     \* the threads that run scanners
  Features,    \* what they may find
  StopList,    \* the features on the stop list
  AlertList,   \* the features on the alert list
  Length,      \* how many cells the line of a feature has before its end
  IntRange,    \* 2^32 in the code: int(ios.tellg()) is taken modulo this
  MaxWrites,   \* bound: how often write() is called, over all runs
  MaxRuns,     \* bound: how often the program is started
  DiskMayFill  \* whether writes to the disk may fail

ASSUME WritersAssumption  == IsFiniteSet(Writers)
ASSUME FeaturesAssumption == /\ StopList \subseteq Features
                             /\ AlertList \subseteq Features
                             /\ Length \in [Features -> Nat \ {0}]
ASSUME BoundsAssumption   == /\ IntRange \in Nat \ {0} /\ MaxWrites \in Nat
                             /\ MaxRuns \in Nat \ {0} /\ DiskMayFill \in BOOLEAN

(* The recorder of the scanner, its _stopped recorder and the recorder of  *)
(* the alert list.                                                         *)
Recorders == {"feature", "stopped", "alert_list"}

VARIABLES
  run,          \* how many runs were started
  phase,        \* "scan", "flushed", "ended", "gave up" or "halted"
  disk,         \* per recorder: the cells of its file
  buffer,       \* per recorder: the cells its stream has not written yet
  put,          \* per recorder: where in the file they will go
  fail,         \* per recorder: the stream's fail bit
  at,           \* per writer: where in write() it is, and with which feature
  histogram,    \* the histogram in memory: a count per feature
  report,       \* the histogram file of the last run that wrote one
  disk_errors,  \* whether a writer met a DiskWriteError
  writes,       \* history: how often write() was called
  lines,        \* history: the recorder, feature and run of every line
  accepted      \* history: the lines of this run whose write0 returned

streams == <<disk, buffer, put, fail>>
history == <<lines, accepted>>
vars == <<run, phase, streams, at, histogram, report, disk_errors, writes, history>>

End    == 0
Comment == -1
(* banner_stamp writes several lines; two stand for them.                  *)
Banner == <<Comment, End, Comment, End>>
Line(w, f) == [i \in 1..Length[f] |-> w] \o <<End>>

Idle == [step |-> "idle"]
Step(s, f) == [step |-> s, feature |-> f]
Nothing == [f \in Features |-> 0]

Init ==
  /\ run = 1
  /\ phase = "scan"
  /\ disk = [r \in Recorders |-> <<>>]
  /\ buffer = [r \in Recorders |-> <<>>]
  /\ put = [r \in Recorders |-> 0]
  /\ fail = [r \in Recorders |-> FALSE]
  /\ at = [t \in Writers |-> Idle]
  /\ histogram = Nothing
  /\ report = Nothing
  /\ disk_errors = FALSE
  /\ writes = 0
  /\ lines = <<>>
  /\ accepted = {}

-----------------------------------------------------------------------------
(* Scanners run while pages are read and until the workers are joined.     *)
Running == phase \in {"scan", "gave up"}

(* write(): a feature on the stop list goes to the _stopped recorder and   *)
(* nowhere else, one on the alert list to that list's recorder first.      *)
Write(t, f) ==
  /\ Running /\ at[t] = Idle /\ writes < MaxWrites
  /\ writes' = writes + 1
  /\ at' = [at EXCEPT ![t] = Step(IF f \in StopList THEN "stopped"
                                  ELSE IF f \in AlertList THEN "alert_list"
                                  ELSE "feature", f)]
  /\ UNCHANGED <<run, phase, streams, histogram, report, disk_errors, history>>

(* Mutant of After: what the stop list dropped is counted all the same.    *)
CountStopped(r, f) == CASE r = "stopped"    -> Step("histogram", f)
                        [] r = "alert_list" -> Step("feature", f)
                        [] r = "feature"    -> Step("histogram", f)
(* What write() does once write0 of recorder r returned.                   *)
After(r, f) == CASE r = "stopped"    -> Idle
                 [] r = "alert_list" -> Step("feature", f)
                 [] r = "feature"    -> Step("histogram", f)

(* The file with the cells out written over it at offset p.                *)
Overwrite(file, p, out) ==
  [i \in 1..Max({Len(file), p + Len(out)}) |->
     IF i > p /\ i <= p + Len(out) THEN out[i - p] ELSE file[i]]

(* Under Mios: a banner if the stream is at the beginning of the file, and *)
(* the line.                                                               *)
Pending(r, f) ==
  buffer[r] \o (IF put[r] + Len(buffer[r]) = 0 THEN Banner ELSE <<>>)
            \o Line(Len(lines) + 1, f)

(* The stream passes the first k cells of out to the disk.                 *)
Drain(r, out, k) ==
  /\ disk' = [disk EXCEPT ![r] = Overwrite(@, put[r], SubSeq(out, 1, k))]
  /\ put' = [put EXCEPT ![r] = @ + k]
  /\ buffer' = [buffer EXCEPT ![r] = SubSeq(out, k + 1, Len(out))]

NewLine(r, f) == lines' = Append(lines, [recorder |-> r, feature |-> f, run |-> run])

(* write0(): the line goes to the stream.                                  *)
Write0(t, r) ==
  /\ Running /\ at[t].step = r /\ ~fail[r]
  /\ LET f == at[t].feature IN
       /\ \E k \in 0..Len(Pending(r, f)) : Drain(r, Pending(r, f), k)
       /\ NewLine(r, f)
       /\ accepted' = accepted \union {Len(lines) + 1}
       /\ at' = [at EXCEPT ![t] = After(r, f)]
  /\ UNCHANGED <<run, phase, fail, histogram, report, disk_errors, writes>>

(* write0() when the disk is full: part of the line may have been written, *)
(* the fail bit is never cleared, and write() ends in a DiskWriteError.    *)
Write0Fails(t, r) ==
  /\ Running /\ at[t].step = r /\ (fail[r] \/ DiskMayFill)
  /\ IF fail[r]
       THEN UNCHANGED <<streams, lines>>
       ELSE LET f == at[t].feature IN
              /\ \E k \in 0..(Len(Pending(r, f)) - 1) : Drain(r, Pending(r, f), k)
              /\ fail' = [fail EXCEPT ![r] = TRUE]
              /\ NewLine(r, f)
  /\ at' = [at EXCEPT ![t] = Idle]
  /\ disk_errors' = TRUE
  /\ UNCHANGED <<run, phase, histogram, report, writes, accepted>>

(* histograms_incremental_add_feature_context().                           *)
Count(t) ==
  /\ Running /\ at[t].step = "histogram"
  /\ histogram' = [histogram EXCEPT ![at[t].feature] = @ + 1]
  /\ at' = [at EXCEPT ![t] = Idle]
  /\ UNCHANGED <<run, phase, streams, report, disk_errors, writes, history>>

-----------------------------------------------------------------------------
(* A stream hands over all it holds, or part of it if the disk is full.    *)
FlushedTo(r, k) == Overwrite(disk[r], put[r], SubSeq(buffer[r], 1, k))
MayWrite(r) == IF fail[r] THEN {0}
               ELSE IF DiskMayFill THEN 0..Len(buffer[r]) ELSE {Len(buffer[r])}
(* Mutant of FlushAll: the streams keep what they hold.                    *)
FlushNothing == UNCHANGED streams
FlushAll ==
  \E k \in [Recorders -> 0..Max({Len(buffer[r]) : r \in Recorders})] :
    /\ \A r \in Recorders : k[r] \in MayWrite(r)
    /\ disk' = [r \in Recorders |-> FlushedTo(r, k[r])]
    /\ put' = [r \in Recorders |-> put[r] + k[r]]
    /\ fail' = [r \in Recorders |-> fail[r] \/ k[r] < Len(buffer[r])]
    /\ buffer' = [r \in Recorders |-> SubSeq(buffer[r], k[r] + 1, Len(buffer[r]))]

AllIdle == \A t \in Writers : at[t] = Idle

(* scanner_set::shutdown() once the workers are joined and no write has    *)
(* failed: every recorder is flushed, and nobody asks whether that worked. *)
Shutdown ==
  /\ phase = "scan" /\ AllIdle /\ ~disk_errors
  /\ FlushAll
  /\ phase' = "flushed"
  /\ UNCHANGED <<run, at, histogram, report, disk_errors, writes, history>>

(* histograms_generate(): the histogram goes from memory to a new file.    *)
Histograms ==
  /\ phase = "flushed"
  /\ report' = histogram
  /\ histogram' = Nothing
  /\ phase' = "ended"
  /\ UNCHANGED <<run, streams, at, disk_errors, writes, history>>

(* A failed write ends phase 1.  The workers finish the calls they are in, *)
(* no histogram is written, and the files are closed with their recorders. *)
GiveUp ==
  /\ phase = "scan" /\ disk_errors
  /\ phase' = "gave up"
  /\ UNCHANGED <<run, streams, at, histogram, report, disk_errors, writes, history>>
Close ==
  /\ phase = "gave up" /\ AllIdle
  /\ FlushAll
  /\ phase' = "halted"
  /\ UNCHANGED <<run, at, histogram, report, disk_errors, writes, history>>

Crash ==
  /\ phase \notin {"ended", "halted"}
  /\ phase' = "halted"
  /\ UNCHANGED <<run, streams, at, histogram, report, disk_errors, writes, history>>

-----------------------------------------------------------------------------
(* Mutants of Reopened: behind the incomplete line, or at the beginning.   *)
ReopenedAtEnd(file) == Len(file)
ReopenedAtStart(file) == 0

(* The constructor of a recorder whose file exists steps back from the end *)
(* of the file to the beginning or behind a line end.  The position it     *)
(* compares with 0 was cut to an int.                                      *)
Stops(file) == {p \in 0..Len(file) : p % IntRange = 0 \/ file[p] = End}
Reopened(file) == LET p == Max(Stops(file)) IN IF p % IntRange = 0 THEN 0 ELSE p

Restart ==
  /\ phase \in {"ended", "halted"} /\ run < MaxRuns
  /\ run' = run + 1
  /\ phase' = "scan"
  /\ put' = [r \in Recorders |-> Reopened(disk[r])]
  /\ buffer' = [r \in Recorders |-> <<>>]
  /\ fail' = [r \in Recorders |-> FALSE]
  /\ at' = [t \in Writers |-> Idle]
  /\ histogram' = Nothing
  /\ disk_errors' = FALSE
  /\ accepted' = {}
  /\ UNCHANGED <<disk, report, writes, lines>>

Next ==
  \/ \E t \in Writers :
       \/ \E f \in Features : Write(t, f)
       \/ \E r \in Recorders : Write0(t, r) \/ Write0Fails(t, r)
       \/ Count(t)
  \/ Shutdown \/ Histograms \/ GiveUp \/ Close \/ Crash \/ Restart

Spec == Init /\ [][Next]_vars

-----------------------------------------------------------------------------
(* Properties.                                                             *)

TypeOK ==
  /\ run \in 1..MaxRuns /\ writes \in 0..MaxWrites
  /\ phase \in {"scan", "flushed", "ended", "gave up", "halted"}
  /\ \A r \in Recorders : /\ put[r] \in 0..Len(disk[r])
                          /\ fail[r] \in BOOLEAN
                          /\ \A i \in DOMAIN disk[r] : disk[r][i] \in -1..Len(lines)
  /\ histogram \in [Features -> 0..MaxWrites]
  /\ accepted \subseteq 1..Len(lines)

(* The lines of a file, as the places (b, e) of their cells: b follows the *)
(* beginning or an end of line, e is the next end of line.                 *)
Ends(file) == {i \in DOMAIN file : file[i] = End}
Begin(file, e) == 1 + Max({0} \union {i \in Ends(file) : i < e})
IsLineOf(file, e, w) ==
  SubSeq(file, Begin(file, e), e) = Line(w, lines[w].feature)
IsComment(file, e) == SubSeq(file, Begin(file, e), e) = <<Comment, End>>
Holds(file, w) == Cardinality({e \in Ends(file) : IsLineOf(file, e, w)})
Written == DOMAIN lines

(* Whatever crashes, fills the disk and is restarted, every complete line  *)
(* of a feature file is a banner line or one line some write sent to that  *)
(* recorder, whole, and no line is there twice                             *)
(* (feature_recorder_file.cpp:96-119, 205-216).                            *)
LinesWhole ==
  \A r \in Recorders :
    /\ \A e \in Ends(disk[r]) :
         IsComment(disk[r], e) \/ \E w \in Written : /\ lines[w].recorder = r
                                                     /\ IsLineOf(disk[r], e, w)
    /\ \A w \in Written : Holds(disk[r], w) <= 1

(* Banner lines come before every feature line, also in a file that was    *)
(* closed in the middle of its banner (feature_recorder_file.cpp:208).     *)
BannerFirst ==
  \A r \in Recorders : \A e, g \in Ends(disk[r]) :
    e < g /\ IsComment(disk[r], g) => IsComment(disk[r], e)

(* A complete line is never lost again: not by a crash, not by the run     *)
(* that reopens the file (feature_recorder_file.cpp:101-119).              *)
LinesKept ==
  [][\A r \in Recorders, w \in Written :
       Holds(disk[r], w) > 0 => Holds(disk'[r], w) > 0]_vars

(* After an orderly end every line of this run is in its file, if the      *)
(* stream did not fail (feature_recorder_file.cpp:172).                    *)
SavedAtEnd ==
  phase \in {"flushed", "ended"} =>
    \A w \in accepted : LET r == lines[w].recorder IN
      fail[r] \/ Holds(disk[r], w) = 1

(* The histogram of a run that ends in order counts exactly the lines this *)
(* run sent to the feature file (feature_recorder.cpp:183-196).            *)
HistogramExact ==
  phase = "ended" =>
    \A f \in Features : report[f] =
      Cardinality({w \in accepted : /\ lines[w].recorder = "feature"
                                    /\ lines[w].feature = f})

(* No feature on the alert list is in the feature file of this run without *)
(* its line on the way to the alert list's file: each of them was recorded *)
(* there first (feature_recorder.cpp:174-183).                             *)
AlertedFirst ==
  \A f \in AlertList : LET Of(r) == {w \in accepted : /\ lines[w].recorder = r
                                                      /\ lines[w].feature = f}
                       IN Cardinality(Of("feature")) <= Cardinality(Of("alert_list"))

(* A feature file is what its readers expect: banner lines, then whole     *)
(* lines, none twice.                                                      *)
FilesWellFormed == TypeOK /\ LinesWhole /\ BannerFirst

(* The files and the histogram of a run tell the same of each feature, and *)
(* after an orderly end the files have all that was accepted.              *)
RecordsAgree == HistogramExact /\ AlertedFirst /\ SavedAtEnd
=============================================================================
