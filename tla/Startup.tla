------------------------------ MODULE Startup ------------------------------
(***************************************************************************)
(* How a scanner set gets ready: be20_api/scanner_set.cpp                  *)
(* (apply_scanner_commands) with the recorders of                          *)
(* feature_recorder_set.cpp, and the options of bulk_extractor.cpp that    *)
(* become commands.  The database of scanners is a map from pointers: the  *)
(* order in which scanners are visited is a choice.                        *)
(*                                                                         *)
(* Main's program is the list todo of the steps before it: a step that     *)
(* ends is taken off, an exception puts the destructors in their place.    *)
(***************************************************************************)
EXTENDS Integers, Sequences, FiniteSets, FiniteSetsExt

CONSTANTS
  Scanners,     \* the scanners that were loaded
  Default,      \* those enabled by default
  NoAll,        \* those that "all" does not mean
  CommandLines, \* the command lines that are tried: records of the lists
                \* of names given to -x, -E and -e
  Defs,         \* per scanner: the recorders it asks for
  Histograms,   \* per scanner: the recorders its histograms are about
  StopList,     \* whether there are words on the stop list
  AlertList     \* whether there are words on the alert list

All == "all"

(* A recorder has a name, and flags that keep it from the stop list and    *)
(* from the alert list.  The name of its _stopped recorder is longer.      *)
Recorder(name, no_stop, no_alert) ==
  [name |-> name, no_stoplist |-> no_stop, no_alertlist |-> no_alert]
DUPLICATES == Recorder(<<"duplicates">>, TRUE, TRUE)
ALERT_RECORDER == Recorder(<<"alerts">>, TRUE, FALSE)
ALERT_LIST_RECORDER == Recorder(<<"ALERTS_found">>, TRUE, TRUE)
StoppedName(name) == Append(name, "stopped")

ASSUME ScannersAssumption == /\ IsFiniteSet(Scanners) /\ All \notin Scanners
                             /\ Default \subseteq Scanners /\ NoAll \subseteq Scanners
ASSUME CommandLinesAssumption ==
  \A line \in CommandLines :
    line.disable \in Seq(STRING) /\ line.exclusive \in STRING /\ line.enable \in Seq(STRING)
ASSUME ListsAssumption == StopList \in BOOLEAN /\ AlertList \in BOOLEAN

VARIABLES
  todo,       \* the steps of main still to be done
  result,     \* the exit status, or "running"
  given,      \* history: the commands of the command line
  commands,   \* those not yet applied
  enabled,    \* enabled_scanners
  unvisited,  \* the scanners whose recorders have not been created
  recorders,  \* the recorders there are
  phase,      \* current_phase
  told        \* per scanner: the calls it got, other than those to scan

startup == <<given, commands, enabled, unvisited, recorders>>

Doing(step) == todo # <<>> /\ Head(todo) = step
Continue == todo' = Tail(todo)

(* What is destroyed when an exception or a return leaves main before the  *)
(* notification thread is declared.                                        *)
EarlyUnwind == <<"cleanup", "join_workers", "join_benchmark", "end">>
Leave(status, unwind) == result' = status /\ todo' = unwind

Command(name, on) == [name |-> name, on |-> on]
(* What the options become, in this order whatever theirs is.              *)
Commands(line) ==
  [i \in DOMAIN line.disable |-> Command(line.disable[i], FALSE)]
    \o (IF line.exclusive = "" THEN <<>>
        ELSE <<Command(All, FALSE), Command(line.exclusive, TRUE)>>)
    \o [i \in DOMAIN line.enable |-> Command(line.enable[i], TRUE)]

StartupInit(program) ==
  /\ todo = program
  /\ result = "running"
  /\ \E line \in CommandLines : given = Commands(line)
  /\ commands = given
  /\ enabled = Default
  /\ unvisited = Scanners
  /\ recorders = {DUPLICATES}
  /\ phase = "init"
  /\ told = [s \in Scanners |-> <<>>]

-----------------------------------------------------------------------------
Named(name) == IF name = All THEN Scanners \ NoAll ELSE {name}

Applied(c) == IF c.on THEN enabled \union Named(c.name) ELSE enabled \ Named(c.name)

ApplyCommand ==
  /\ Doing("commands") /\ commands # <<>>
  /\ Head(commands).name \in Scanners \union {All}
  /\ enabled' = Applied(Head(commands))
  /\ commands' = Tail(commands)
  /\ UNCHANGED <<todo, result, given, unvisited, recorders, phase, told>>
(* get_scanner_by_name throws, and main returns 5.                         *)
NoSuchScanner ==
  /\ Doing("commands") /\ commands # <<>>
  /\ Head(commands).name \notin Scanners \union {All}
  /\ Leave("5", EarlyUnwind)
  /\ UNCHANGED <<startup, phase, told>>
CommandsApplied ==
  /\ Doing("commands") /\ commands = <<>>
  /\ recorders' = recorders \union {ALERT_RECORDER}
  /\ Continue
  /\ UNCHANGED <<result, given, commands, enabled, unvisited, phase, told>>

(* create_feature_recorder accepts a recorder that exists if its           *)
(* definition is the same.                                                 *)
Consistent(R) == \A q, r \in R : q.name = r.name => q = r
Names(R) == {r.name : r \in R}

Visitable(s) ==
  s \in enabled => /\ Consistent(recorders \union Defs[s])
                   /\ Histograms[s] \subseteq Names(recorders \union Defs[s])
CreateRecorders(s) ==
  /\ Doing("recorders") /\ s \in unvisited /\ Visitable(s)
  /\ recorders' = IF s \in enabled THEN recorders \union Defs[s] ELSE recorders
  /\ unvisited' = unvisited \ {s}
  /\ UNCHANGED <<todo, result, given, commands, enabled, phase, told>>
(* Another definition of the same name, or a histogram of no recorder:     *)
(* the exception leaves main.                                              *)
CreateFails(s) ==
  /\ Doing("recorders") /\ s \in unvisited /\ ~Visitable(s)
  /\ Leave("1", EarlyUnwind)
  /\ UNCHANGED <<startup, phase, told>>
RecordersCreated ==
  /\ Doing("recorders") /\ unvisited = {}
  /\ phase' = "init2"
  /\ Continue
  /\ UNCHANGED <<result, startup, told>>

Tell(s, what) == told' = [told EXCEPT ![s] = Append(@, what)]
InitScanner(s) ==
  /\ Doing("init2") /\ s \in enabled /\ told[s] = <<>>
  /\ Tell(s, "init2")
  /\ UNCHANGED <<todo, result, startup, phase>>
(* A scanner may refuse its configuration: scan_net does.                  *)
InitRefused(s) ==
  /\ Doing("init2") /\ s \in enabled /\ told[s] = <<>>
  /\ Tell(s, "init2")
  /\ Leave("1", EarlyUnwind)
  /\ UNCHANGED <<startup, phase>>
AllInitialised ==
  /\ Doing("init2") /\ \A s \in enabled : told[s] # <<>>
  /\ Continue
  /\ UNCHANGED <<result, startup, phase, told>>

AlertLists == IF AlertList THEN {ALERT_LIST_RECORDER} ELSE {}
(* Mutant of StopLists: not for a recorder that stays off the alert list.  *)
StopListsOfAlerted(R) ==
  IF StopList THEN {Recorder(StoppedName(r.name), TRUE, TRUE) :
                      r \in {q \in R : ~q.no_stoplist /\ ~q.no_alertlist}}
  ELSE {}
StopLists(R) ==
  IF StopList THEN {Recorder(StoppedName(r.name), TRUE, TRUE) :
                      r \in {q \in R : ~q.no_stoplist}}
  ELSE {}
(* create_alert_list_recorder, create_stop_list_recorders: the last        *)
(* recorders before PHASE_ENABLED.                                         *)
CreateLists ==
  /\ Doing("lists")
  /\ LET R == recorders \union AlertLists \union StopLists(recorders \union AlertLists) IN
       IF Consistent(R)
         THEN /\ recorders' = R
              /\ phase' = "enabled"
              /\ Continue
              /\ UNCHANGED result
         ELSE /\ Leave("1", EarlyUnwind)
              /\ UNCHANGED <<recorders, phase>>
  /\ UNCHANGED <<given, commands, enabled, unvisited, told>>

StartupNext ==
  \/ ApplyCommand \/ NoSuchScanner \/ CommandsApplied
  \/ \E s \in Scanners : \/ CreateRecorders(s) \/ CreateFails(s)
                         \/ InitScanner(s) \/ InitRefused(s)
  \/ RecordersCreated \/ AllInitialised \/ CreateLists

-----------------------------------------------------------------------------
(* A scanner is enabled if the last command that means it says so, or by   *)
(* default (scanner_set.cpp:541-566, bulk_extractor.cpp:315-330).          *)
EnabledAsLastCommand ==
  commands = <<>> =>
    \A s \in Scanners :
      LET about == {i \in DOMAIN given : s \in Named(given[i].name)} IN
        s \in enabled <=> IF about = {} THEN s \in Default ELSE given[Max(about)].on

(* When scanning begins, every recorder that write() will look up is       *)
(* there, and whether start-up got so far did not depend on the order of   *)
(* the scanners' pointers (scanner_set.cpp:578-601,                        *)
(* feature_recorder.cpp:166-180).                                          *)
RecordersComplete ==
  phase \in {"scan", "shutdown"} =>
    /\ Consistent(recorders)
    /\ \A s \in enabled : Defs[s] \subseteq recorders
    /\ \A r \in recorders :
         /\ StopList /\ ~r.no_stoplist => StoppedName(r.name) \in Names(recorders)
         /\ AlertList /\ ~r.no_alertlist => ALERT_LIST_RECORDER \in recorders

FirstRecorders == {DUPLICATES, ALERT_RECORDER}

(* Start-up fails over recorders only if two enabled scanners want         *)
(* different ones of the same name, or one another than the set begins     *)
(* with, whoever was visited first, or if a scanner makes a histogram of a *)
(* recorder it does not ask for itself (feature_recorder_set.cpp:176-185). *)
FailsForAReason ==
  Doing("recorders") =>
    \A s \in unvisited : Visitable(s) \/
      \E q, r \in enabled :
        ~Consistent(FirstRecorders \union Defs[q] \union Defs[r])
          \/ ~(Histograms[s] \subseteq Names(Defs[s]))

(* What is enabled, which recorders there are and whether start-up fails   *)
(* depend on the command line and the scanners, not on any order in which  *)
(* the code visits them.                                                   *)
StartupRight == EnabledAsLastCommand /\ RecordersComplete /\ FailsForAReason
=============================================================================
