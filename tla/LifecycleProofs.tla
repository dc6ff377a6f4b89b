-------------------------- MODULE LifecycleProofs --------------------------
(***************************************************************************)
(* Proofs about a run from start to end: main's place in its program, and  *)
(* with it the phase, the calls each scanner got, the report, and whether  *)
(* any worker is still busy.                                               *)
(***************************************************************************)
EXTENDS Lifecycle, SequenceTheorems, TLAPS

-----------------------------------------------------------------------------
(* The places of main.  Up to 24 steps of Program are left; places 25 to   *)
(* 29 are those of GiveUp, behind a wait for the workers, which goes over  *)
(* into Program at its cleanup, and 30 is the path printer's.              *)

StepAt ==
  <<"end", "join_benchmark", "join_workers", "cleanup", "join_notifier", "notify", "stop",
    "delete_writer", "last_report", "cleanup", "recorders_shutdown", "shutdown",
    "join_notifier", "notify", "stop", "join", "read", "freeze", "launch", "open",
    "lists", "init2", "recorders", "commands",
    "cleanup", "join_notifier", "notify", "stop", "join_workers", "print">>
Steps == {StepAt[i] : i \in 1..30}
Places == 0..30
GivingUp == 25..29

Length(n) == IF n = 30 THEN 5 ELSE IF n \in GivingUp THEN n - 16 ELSE n
(* The place i-1 steps after n.                                            *)
Ahead(n, i) ==
  IF n = 30 THEN IF i = 1 THEN 30 ELSE 6 - i
  ELSE IF n \in GivingUp THEN IF i <= n - 24 THEN n + 1 - i ELSE n - 15 - i
  ELSE n + 1 - i
Rest(n) == [i \in 1..Length(n) |-> StepAt[Ahead(n, i)]]
After(n) == IF n = 30 THEN 4 ELSE IF n = 25 THEN 8 ELSE n - 1

-----------------------------------------------------------------------------
(* The inductive invariant: what holds at each place.                      *)

Sequences ==
  {<<>>, <<"init2">>, <<"init2", "shutdown">>, <<"init2", "shutdown", "cleanup">>,
   <<"init2", "cleanup">>, <<"cleanup">>}

Busy == 16..17 \union {29}
EnabledUnits == {<<p>> : p \in Pages} \union (Pages \X enabled)
WorkInv(n) ==
  /\ unread \subseteq Pages /\ queue \subseteq EnabledUnits
  /\ DOMAIN at = Workers
  /\ \A w \in Workers : at[w] = Idle \/ at[w] \in EnabledUnits
                          \/ at[w] \in Pages \X enabled \X {"scanning"}
  /\ unread = Pages => Quiet
  /\ n \notin Busy \union {0} => Quiet

ReportInv(n) ==
  /\ writer \in {"none", "live", "deleted"}
  /\ n \in 20..24 \union {30} => writer = "none"
  /\ n \in 8..19 \union GivingUp => writer = "live"
  /\ result \in {"running", "0", "1", "5", "6", "7", "8", "aborted"}
  /\ n \in 9..24 \union {30} => result = "running"
  /\ n \in GivingUp => result = "6"

PhaseInv(n) ==
  /\ phase \in {"init", "init2", "enabled", "scan", "shutdown", "cleanup", "cleaned"}
  /\ n \in 23..24 => phase = "init"
  /\ n \in 21..22 => phase = "init2"
  /\ n \in 18..20 => phase = "enabled"
  /\ n \in 13..17 \union 26..30 => phase = "scan"
  /\ n = 12 => phase \in {"scan", "shutdown"}
  /\ n = 11 => phase = "shutdown"
  /\ n = 10 => phase \in {"shutdown", "cleanup"}
  /\ n = 25 => phase \in {"scan", "cleanup"}
  /\ n \in 1..3 \union 8..9 => phase = "cleaned"
  /\ n = 0 => phase = "cleaned" \/ result \in {"8", "aborted"}

CallsInv(n) ==
  /\ told \in [Scanners -> Sequences]
  /\ phase = "cleaned" => \A s \in Scanners : Called(s, "cleanup")
  /\ phase \notin {"cleanup", "cleaned"} => \A s \in Scanners : ~Called(s, "cleanup")
  /\ n \in 23..24 => \A s \in Scanners : told[s] = <<>>
  /\ n = 22 => \A s \in Scanners : told[s] \in {<<>>, <<"init2">>}
  /\ n \in 13..21 \union 26..30 => \A s \in enabled : Ready(s)
  /\ n = 12 => \A s \in enabled : told[s] \in {<<"init2">>, <<"init2", "shutdown">>}
  /\ n \in 9..11 \/ (result = "0" /\ writer # "none") => \A s \in enabled : Called(s, "shutdown")

FaultsInv == faults \intersect {"deleted", "unready", "terminate"} = {}

(* What the commands applied so far made of the default.                   *)
EnabledBy(k) ==
  \A s \in Scanners :
    LET about == {i \in 1..k : s \in Named(given[i].name)} IN
      s \in enabled <=> IF about = {} THEN s \in Default ELSE given[Max(about)].on
AnyCommand == [name : STRING \union {All}, on : BOOLEAN]
CommandsInv ==
  /\ given \in Seq(AnyCommand)
  /\ enabled \subseteq Scanners
  /\ \E k \in 0..Len(given) : commands = SubSeq(given, k + 1, Len(given)) /\ EnabledBy(k)

Wanted(S) == UNION {Defs[s] : s \in S}
RecordersInv(n) ==
  /\ unvisited \subseteq Scanners
  /\ n = 24 => recorders = {DUPLICATES} /\ unvisited = Scanners
  /\ n = 23 => recorders = FirstRecorders \union Wanted(enabled \ unvisited)
  /\ n \in 21..22 => Wanted(enabled) \subseteq recorders
  /\ phase \in {"enabled", "scan", "shutdown"} =>
       /\ Consistent(recorders)
       /\ \A s \in enabled : Defs[s] \subseteq recorders
       /\ \A r \in recorders :
            /\ StopList /\ ~r.no_stoplist => StoppedName(r.name) \in Names(recorders)
            /\ AlertList /\ ~r.no_alertlist => ALERT_LIST_RECORDER \in recorders

PlaceInv(n) == /\ WorkInv(n) /\ ReportInv(n) /\ PhaseInv(n) /\ CallsInv(n) /\ FaultsInv
               /\ CommandsInv /\ RecordersInv(n)
               /\ notifier \in {"none", "testing", "printing", "to_wait", "waiting",
                                "woken", "ended"}
LifeInv == \E n \in Places : todo = Rest(n) /\ PlaceInv(n)

-----------------------------------------------------------------------------
(* Where each step is, and what is left there.                             *)

(* Each step of main is done at these places only.                         *)
LEMMA Where ==
  ASSUME NEW n \in 1..30, NEW step, step = StepAt[n]
  PROVE  /\ step = "commands" => n = 24
         /\ step = "recorders" => n = 23
         /\ step = "init2" => n = 22
         /\ step = "lists" => n = 21
         /\ step = "open" => n = 20
         /\ step = "launch" => n = 19
         /\ step = "freeze" => n = 18
         /\ step = "read" => n = 17
         /\ step = "join" => n = 16
         /\ step = "stop" => n \in {7, 15, 28}
         /\ step = "notify" => n \in {6, 14, 27}
         /\ step = "join_notifier" => n \in {5, 13, 26}
         /\ step = "shutdown" => n = 12
         /\ step = "recorders_shutdown" => n = 11
         /\ step = "cleanup" => n \in {4, 10, 25}
         /\ step = "last_report" => n = 9
         /\ step = "delete_writer" => n = 8
         /\ step = "join_workers" => n \in {3, 29}
         /\ step = "join_benchmark" => n = 2
         /\ step = "end" => n = 1
         /\ step = "print" => n = 30
BY DEF StepAt

LEMMA RestTyped ==
  ASSUME NEW n \in Places
  PROVE  /\ Rest(n) \in Seq(Steps) /\ Len(Rest(n)) = Length(n) /\ Length(n) \in Nat
         /\ \A i \in 1..Length(n) : Ahead(n, i) \in 1..30 /\ Rest(n)[i] = StepAt[Ahead(n, i)]
<1>1. Length(n) \in Nat
  BY DEF Places, Length, GivingUp
<1>2. \A i \in 1..Length(n) : Ahead(n, i) \in 1..30
  BY DEF Places, Length, GivingUp, Ahead
<1>3. \A i \in 1..Length(n) : StepAt[Ahead(n, i)] \in Steps
  BY <1>2 DEF Steps
<1>4. Rest(n) \in Seq(Steps)
  BY <1>1, <1>3 DEF Rest
<1>5. Len(Rest(n)) = Length(n)
  BY <1>1, <1>4 DEF Rest
<1>6. \A i \in 1..Length(n) : Rest(n)[i] = StepAt[Ahead(n, i)]
  BY <1>1 DEF Rest
<1>7. QED
  BY <1>1, <1>2, <1>4, <1>5, <1>6

LEMMA RestAfter ==
  ASSUME NEW n \in Places
  PROVE  /\ Rest(n) = <<>> <=> n = 0
         /\ n # 0 => /\ Head(Rest(n)) = StepAt[n] /\ Tail(Rest(n)) = Rest(After(n))
                     /\ After(n) \in Places
<1>1. /\ Rest(n) \in Seq(Steps) /\ Len(Rest(n)) = Length(n) /\ Length(n) \in Nat
      /\ \A i \in 1..Length(n) : Rest(n)[i] = StepAt[Ahead(n, i)]
  BY RestTyped
<1>2. Length(n) = 0 <=> n = 0
  BY DEF Places, Length, GivingUp
<1>3. Rest(n) = <<>> <=> n = 0
  BY <1>1, <1>2
<1>4. ASSUME n # 0
      PROVE  /\ Head(Rest(n)) = StepAt[n] /\ Tail(Rest(n)) = Rest(After(n))
             /\ After(n) \in Places
  <2>1. n \in 1..30 /\ After(n) \in Places
    BY <1>4 DEF Places, After
  <2>2. Ahead(n, 1) = n
    BY <2>1 DEF Ahead, GivingUp
  <2>3. Length(After(n)) = Length(n) - 1
    BY <2>1 DEF Length, After, GivingUp
  <2>4. \A i \in 1..(Length(n) - 1) : Ahead(n, i + 1) = Ahead(After(n), i)
    BY <2>1 DEF Length, After, GivingUp, Ahead
  <2>5. /\ Rest(After(n)) \in Seq(Steps) /\ Len(Rest(After(n))) = Length(n) - 1
        /\ \A i \in 1..(Length(n) - 1) : Rest(After(n))[i] = StepAt[Ahead(After(n), i)]
    BY <2>1, <2>3, RestTyped
  <2>6. /\ Tail(Rest(n)) \in Seq(Steps) /\ Len(Tail(Rest(n))) = Length(n) - 1
        /\ \A i \in 1..(Length(n) - 1) : Tail(Rest(n))[i] = Rest(n)[i + 1]
    BY <1>1, <1>2, <1>4, <1>3, HeadTailProperties
  <2>7. \A i \in 1..(Length(n) - 1) : Tail(Rest(n))[i] = Rest(After(n))[i]
    BY <1>1, <2>4, <2>5, <2>6
  <2>8. Tail(Rest(n)) = Rest(After(n))
    BY <2>5, <2>6, <2>7, SeqEqual
  <2>9. Head(Rest(n)) = StepAt[n]
    BY <1>1, <1>2, <1>4, <2>2
  <2>10. QED
    BY <2>1, <2>8, <2>9
<1>5. QED
  BY <1>3, <1>4

LEMMA RestConcat ==
  ASSUME NEW n \in Places, NEW m \in Places, NEW s \in Seq(Steps),
         Length(n) = Len(s) + Length(m),
         \A i \in 1..Len(s) : s[i] = StepAt[Ahead(n, i)],
         \A i \in 1..Length(m) : Ahead(n, Len(s) + i) = Ahead(m, i)
  PROVE  s \o Rest(m) = Rest(n)
<1> DEFINE k == Len(s)
<1>1. /\ Rest(m) \in Seq(Steps) /\ Len(Rest(m)) = Length(m) /\ Length(m) \in Nat
      /\ \A i \in 1..Length(m) : Rest(m)[i] = StepAt[Ahead(m, i)]
  BY RestTyped
<1>2. /\ Rest(n) \in Seq(Steps) /\ Len(Rest(n)) = Length(n)
      /\ \A i \in 1..Length(n) : Rest(n)[i] = StepAt[Ahead(n, i)]
  BY RestTyped
<1>3. /\ s \o Rest(m) \in Seq(Steps) /\ Len(s \o Rest(m)) = k + Length(m) /\ k \in Nat
      /\ \A i \in 1..(k + Length(m)) :
           (s \o Rest(m))[i] = IF i <= k THEN s[i] ELSE Rest(m)[i - k]
  BY <1>1, ConcatProperties
<1>4. ASSUME NEW i \in 1..(k + Length(m))
      PROVE  (s \o Rest(m))[i] = Rest(n)[i]
  <2>1. CASE i <= k
    BY <1>2, <1>3, <2>1
  <2>2. CASE ~(i <= k)
    <3>1. i - k \in 1..Length(m) /\ k + (i - k) = i
      BY <1>1, <1>3, <2>2
    <3>2. Ahead(n, i) = Ahead(m, i - k)
      BY <3>1
    <3>3. QED
      BY <1>1, <1>2, <1>3, <2>2, <3>1, <3>2
  <2>3. QED
    BY <2>1, <2>2
<1>5. QED
  BY <1>2, <1>3, <1>4, SeqEqual

(* What the destructors, and a reader that gives up, have before them; and *)
(* main when it begins.                                                    *)
LEMMA StepsAhead ==
  ASSUME NEW n \in Places, NEW m \in Places, NEW s \in Seq(Steps),
         m <= n, n <= 24, Len(s) = n - m,
         \A i \in 1..Len(s) : s[i] = StepAt[n + 1 - i]
  PROVE  s \o Rest(m) = Rest(n)
<1>1. \A i \in 1..Len(s) : Ahead(n, i) = n + 1 - i
  BY DEF Places, Ahead, GivingUp
<1>2. \A i \in 1..Length(m) : Ahead(n, Len(s) + i) = Ahead(m, i)
  BY DEF Places, Ahead, GivingUp, Length
<1>3. Length(n) = Len(s) + Length(m)
  BY DEF Places, GivingUp, Length
<1>4. QED
  BY <1>1, <1>2, <1>3, RestConcat

LEMMA ThreeConcatenated ==
  ASSUME NEW s \in Seq(Steps), NEW l \in Seq(Steps), NEW r \in Seq(Steps)
  PROVE  (s \o l) \o r = s \o (l \o r)
BY SMT

LEMMA Unwinds == EarlyUnwind = Rest(4) /\ Unwind = Rest(7)
<1>1. \A i \in 1..30 : StepAt[i] \in Steps
  BY DEF Steps
<1>2. EarlyUnwind = Rest(4)
  <2>1. /\ StepAt[4] = "cleanup" /\ StepAt[3] = "join_workers"
        /\ StepAt[2] = "join_benchmark" /\ StepAt[1] = "end"
    BY DEF StepAt
  <2>2. EarlyUnwind \in Seq(Steps) /\ Len(EarlyUnwind) = 4
    BY <1>1, <2>1 DEF EarlyUnwind
  <2>3. \A i \in 1..4 : EarlyUnwind[i] = StepAt[5 - i]
    BY <2>1 DEF EarlyUnwind
  <2>4. /\ Rest(4) \in Seq(Steps) /\ Len(Rest(4)) = 4
        /\ \A i \in 1..4 : Rest(4)[i] = StepAt[5 - i]
    BY RestTyped DEF Places, Length, GivingUp, Ahead
  <2>5. QED
    BY <2>2, <2>3, <2>4, SeqEqual
<1>3. StopNotifier \o Rest(4) = Rest(7)
  <2>1. StepAt[7] = "stop" /\ StepAt[6] = "notify" /\ StepAt[5] = "join_notifier"
    BY DEF StepAt
  <2>2. StopNotifier \in Seq(Steps) /\ Len(StopNotifier) = 7 - 4
    BY <1>1, <2>1 DEF StopNotifier
  <2>3. \A i \in 1..Len(StopNotifier) : StopNotifier[i] = StepAt[7 + 1 - i]
    BY <2>1 DEF StopNotifier
  <2>4. 7 \in Places /\ 4 \in Places /\ 4 <= 7 /\ 7 <= 24
    BY DEF Places
  <2>5. QED
    BY <2>2, <2>3, <2>4, StepsAhead, Zenon
<1>4. QED
  BY <1>2, <1>3 DEF Unwind

LEMMA ProgramIsRest == Program = Rest(24)
<1>1. \A i \in 1..30 : StepAt[i] \in Steps
  BY DEF Steps
<1> DEFINE first == <<"commands", "recorders", "init2", "lists", "open", "launch", "freeze",
                      "read", "join">>
           last == <<"shutdown", "recorders_shutdown", "cleanup", "last_report",
                     "delete_writer">>
<1>2. last \in Seq(Steps) /\ Len(last) = 12 - 7
      /\ \A i \in 1..Len(last) : last[i] = StepAt[12 + 1 - i]
  <2>1. /\ StepAt[12] = "shutdown" /\ StepAt[11] = "recorders_shutdown"
        /\ StepAt[10] = "cleanup" /\ StepAt[9] = "last_report" /\ StepAt[8] = "delete_writer"
    BY DEF StepAt
  <2>2. last \in Seq(Steps) /\ Len(last) = 5
    BY <1>1, <2>1
  <2>3. \A i \in 1..5 : last[i] = StepAt[13 - i]
    BY <2>1
  <2>4. QED
    BY <2>2, <2>3
<1>3. StopNotifier \in Seq(Steps) /\ Len(StopNotifier) = 15 - 12
      /\ \A i \in 1..Len(StopNotifier) : StopNotifier[i] = StepAt[15 + 1 - i]
  <2>1. StepAt[15] = "stop" /\ StepAt[14] = "notify" /\ StepAt[13] = "join_notifier"
    BY DEF StepAt
  <2>2. QED
    BY <1>1, <2>1 DEF StopNotifier
<1>4. first \in Seq(Steps) /\ Len(first) = 24 - 15
      /\ \A i \in 1..Len(first) : first[i] = StepAt[24 + 1 - i]
  <2>1. /\ StepAt[24] = "commands" /\ StepAt[23] = "recorders" /\ StepAt[22] = "init2"
        /\ StepAt[21] = "lists" /\ StepAt[20] = "open" /\ StepAt[19] = "launch"
        /\ StepAt[18] = "freeze" /\ StepAt[17] = "read" /\ StepAt[16] = "join"
    BY DEF StepAt
  <2>2. first \in Seq(Steps) /\ Len(first) = 9
    BY <1>1, <2>1
  <2>3. \A i \in 1..9 : first[i] = StepAt[25 - i]
    BY <2>1
  <2>4. QED
    BY <2>2, <2>3
<1>5. /\ 7 \in Places /\ 12 \in Places /\ 15 \in Places /\ 24 \in Places
      /\ 7 <= 12 /\ 12 <= 24 /\ 12 <= 15 /\ 15 <= 24 /\ 24 <= 24
  BY DEF Places
<1>6. /\ first \in Seq(Steps) /\ StopNotifier \in Seq(Steps) /\ last \in Seq(Steps)
      /\ Rest(7) \in Seq(Steps)
  BY <1>2, <1>3, <1>4, RestTyped DEF Places
<1> HIDE DEF first, last
<1>7. last \o Rest(7) = Rest(12)
  BY <1>2, <1>5, StepsAhead, Zenon
<1>8. StopNotifier \o Rest(12) = Rest(15)
  BY <1>3, <1>5, StepsAhead, Zenon
<1>9. first \o Rest(15) = Rest(24)
  BY <1>4, <1>5, StepsAhead, Zenon
<1>10. (StopNotifier \o last) \o Rest(7) = StopNotifier \o (last \o Rest(7))
  BY <1>6, ThreeConcatenated, Zenon
<1>11. StopNotifier \o last \in Seq(Steps)
  BY <1>6
<1>12. (first \o StopNotifier) \o last = first \o (StopNotifier \o last)
  BY <1>6, ThreeConcatenated, Zenon
<1>13. (first \o (StopNotifier \o last)) \o Rest(7) = first \o ((StopNotifier \o last) \o Rest(7))
  BY <1>6, <1>11, ThreeConcatenated, Zenon
<1>14. ((first \o StopNotifier) \o last) \o Rest(7) = Rest(24)
  BY <1>7, <1>8, <1>9, <1>10, <1>12, <1>13, Zenon
<1>15. QED
  BY <1>14, Unwinds, Zenon DEF Program, first, last

LEMMA GiveUpIsRest == GiveUp = Rest(28) /\ <<"join_workers">> \o GiveUp = Rest(29)
<1>1. \A i \in 1..30 : StepAt[i] \in Steps
  BY DEF Steps
<1>2. /\ StepAt[29] = "join_workers" /\ StepAt[28] = "stop" /\ StepAt[27] = "notify"
      /\ StepAt[26] = "join_notifier" /\ StepAt[25] = "cleanup" /\ StepAt[8] = "delete_writer"
  BY DEF StepAt
<1>3. 7 \in Places /\ 25 \in Places /\ 28 \in Places /\ 29 \in Places
  BY DEF Places
<1> DEFINE middle == <<"cleanup", "delete_writer">>
           wait == <<"join_workers">>
<1>4. middle \in Seq(Steps) /\ middle \o Rest(7) = Rest(25)
  <2>1. /\ middle \in Seq(Steps) /\ Len(middle) = 2
        /\ middle[1] = StepAt[25] /\ middle[2] = StepAt[8]
    BY <1>1, <1>2
  <2> HIDE DEF middle
  <2>2. Length(25) = 9 /\ Length(7) = 7 /\ Ahead(25, 1) = 25 /\ Ahead(25, 2) = 8
    BY DEF Length, Ahead, GivingUp
  <2>3. \A i \in 1..7 : Ahead(25, 2 + i) = Ahead(7, i)
    BY DEF Ahead, GivingUp
  <2>4. \A i \in 1..Len(middle) : middle[i] = StepAt[Ahead(25, i)]
    BY <2>1, <2>2
  <2>5. /\ Length(25) = Len(middle) + Length(7)
        /\ \A i \in 1..Length(7) : Ahead(25, Len(middle) + i) = Ahead(7, i)
    BY <2>1, <2>2, <2>3
  <2>6. QED
    BY <1>3, <2>1, <2>4, <2>5, RestConcat, Zenon
<1>5. StopNotifier \in Seq(Steps) /\ StopNotifier \o Rest(25) = Rest(28)
  <2>1. /\ StopNotifier \in Seq(Steps) /\ Len(StopNotifier) = 3
        /\ StopNotifier[1] = StepAt[28] /\ StopNotifier[2] = StepAt[27]
        /\ StopNotifier[3] = StepAt[26]
    BY <1>1, <1>2 DEF StopNotifier
  <2>2. /\ Length(28) = 12 /\ Length(25) = 9
        /\ Ahead(28, 1) = 28 /\ Ahead(28, 2) = 27 /\ Ahead(28, 3) = 26
    BY DEF Length, Ahead, GivingUp
  <2>3. \A i \in 1..9 : Ahead(28, 3 + i) = Ahead(25, i)
    BY DEF Ahead, GivingUp
  <2>4. \A i \in 1..Len(StopNotifier) : StopNotifier[i] = StepAt[Ahead(28, i)]
    BY <2>1, <2>2
  <2>5. /\ Length(28) = Len(StopNotifier) + Length(25)
        /\ \A i \in 1..Length(25) : Ahead(28, Len(StopNotifier) + i) = Ahead(25, i)
    BY <2>1, <2>2, <2>3
  <2>6. QED
    BY <1>3, <2>1, <2>4, <2>5, RestConcat, Zenon
<1>6. wait \o Rest(28) = Rest(29)
  <2>1. wait \in Seq(Steps) /\ Len(wait) = 1 /\ wait[1] = StepAt[29]
    BY <1>1, <1>2
  <2> HIDE DEF wait
  <2>2. Length(29) = 13 /\ Length(28) = 12 /\ Ahead(29, 1) = 29
    BY DEF Length, Ahead, GivingUp
  <2>3. \A i \in 1..12 : Ahead(29, 1 + i) = Ahead(28, i)
    BY DEF Ahead, GivingUp
  <2>4. \A i \in 1..Len(wait) : wait[i] = StepAt[Ahead(29, i)]
    BY <2>1, <2>2
  <2>5. /\ Length(29) = Len(wait) + Length(28)
        /\ \A i \in 1..Length(28) : Ahead(29, Len(wait) + i) = Ahead(28, i)
    BY <2>1, <2>2, <2>3
  <2>6. QED
    BY <1>3, <2>1, <2>4, <2>5, RestConcat, Zenon
<1>7. Rest(7) \in Seq(Steps)
  BY <1>3, RestTyped
<1> HIDE DEF middle, wait
<1>8. (StopNotifier \o middle) \o Rest(7) = StopNotifier \o (middle \o Rest(7))
  BY <1>4, <1>5, <1>7, ThreeConcatenated, Zenon
<1>9. GiveUp = Rest(28)
  BY <1>4, <1>5, <1>8, Unwinds, Zenon DEF GiveUp, middle
<1>10. QED
  BY <1>6, <1>9, Zenon DEF wait

LEMMA PrintIsRest == <<"print">> \o EarlyUnwind = Rest(30)
<1> DEFINE print == <<"print">>
<1>1. StepAt[30] = "print"
  BY DEF StepAt
<1>2. print \in Seq(Steps) /\ Len(print) = 1 /\ print[1] = StepAt[30]
  BY <1>1 DEF Steps
<1> HIDE DEF print
<1>3. Length(30) = 5 /\ Length(4) = 4 /\ Ahead(30, 1) = 30
  BY DEF Length, Ahead, GivingUp
<1>4. \A i \in 1..4 : Ahead(30, 1 + i) = Ahead(4, i)
  BY DEF Ahead, GivingUp
<1>5. \A i \in 1..Len(print) : print[i] = StepAt[Ahead(30, i)]
  BY <1>2, <1>3
<1>6. /\ Length(30) = Len(print) + Length(4) /\ 30 \in Places /\ 4 \in Places
      /\ \A i \in 1..Length(4) : Ahead(30, Len(print) + i) = Ahead(4, i)
  BY <1>2, <1>3, <1>4 DEF Places
<1>7. print \o Rest(4) = Rest(30)
  BY <1>2, <1>5, <1>6, RestConcat, Zenon
<1>8. QED
  BY <1>7, Unwinds, Zenon DEF print

LEMMA DoingAt ==
  ASSUME NEW n \in Places, todo = Rest(n)
  PROVE  /\ todo # <<>> <=> n # 0
         /\ todo # <<>> => /\ n \in 1..30 /\ Head(todo) = StepAt[n]
                          /\ Tail(todo) = Rest(After(n)) /\ After(n) \in Places
<1>1. /\ Rest(n) = <<>> <=> n = 0
      /\ n # 0 => /\ Head(Rest(n)) = StepAt[n] /\ Tail(Rest(n)) = Rest(After(n))
                  /\ After(n) \in Places
  BY RestAfter
<1>2. n # 0 => n \in 1..30
  BY DEF Places
<1>3. QED
  BY <1>1, <1>2

(* Where main is when it does a step.                                      *)
LEMMA PlaceOf ==
  ASSUME NEW n \in Places, todo = Rest(n)
  PROVE  /\ Doing("commands") => n = 24
         /\ Doing("recorders") => n = 23
         /\ Doing("init2") => n = 22
         /\ Doing("lists") => n = 21
         /\ Doing("open") => n = 20
         /\ Doing("launch") => n = 19
         /\ Doing("freeze") => n = 18
         /\ Doing("read") => n = 17
         /\ Doing("join") => n = 16
         /\ Doing("stop") => n \in {7, 15, 28}
         /\ Doing("notify") => n \in {6, 14, 27}
         /\ Doing("join_notifier") => n \in {5, 13, 26}
         /\ Doing("shutdown") => n = 12
         /\ Doing("recorders_shutdown") => n = 11
         /\ Doing("cleanup") => n \in {4, 10, 25}
         /\ Doing("last_report") => n = 9
         /\ Doing("delete_writer") => n = 8
         /\ Doing("join_workers") => n \in {3, 29}
         /\ Doing("join_benchmark") => n = 2
         /\ Doing("end") => n = 1
         /\ Doing("print") => n = 30
<1>1. todo # <<>> => n \in 1..30 /\ Head(todo) = StepAt[n]
  BY DoingAt
<1> DEFINE step == Head(todo)
<1>2. CASE todo = <<>>
  BY <1>2 DEF Doing
<1>3. CASE todo # <<>>
  <2>1. n \in 1..30 /\ step = StepAt[n]
    BY <1>1, <1>3
  <2> HIDE DEF step
  <2>2. /\ step = "commands" => n = 24
        /\ step = "recorders" => n = 23
        /\ step = "init2" => n = 22
        /\ step = "lists" => n = 21
        /\ step = "open" => n = 20
        /\ step = "launch" => n = 19
        /\ step = "freeze" => n = 18
        /\ step = "read" => n = 17
        /\ step = "join" => n = 16
        /\ step = "stop" => n \in {7, 15, 28}
        /\ step = "notify" => n \in {6, 14, 27}
        /\ step = "join_notifier" => n \in {5, 13, 26}
        /\ step = "shutdown" => n = 12
        /\ step = "recorders_shutdown" => n = 11
        /\ step = "cleanup" => n \in {4, 10, 25}
        /\ step = "last_report" => n = 9
        /\ step = "delete_writer" => n = 8
        /\ step = "join_workers" => n \in {3, 29}
        /\ step = "join_benchmark" => n = 2
        /\ step = "end" => n = 1
        /\ step = "print" => n = 30
    BY <2>1, Where
  <2>3. QED
    BY <2>2 DEF Doing, step
<1>4. QED
  BY <1>2, <1>3

-----------------------------------------------------------------------------
(* The invariant, action by action.                                        *)

(* Which calls a scanner got shows in what it was told.                    *)
LEMMA CallsTold ==
  ASSUME NEW t \in Sequences
  PROVE  /\ (\E i \in DOMAIN t : t[i] = "cleanup") <=>
              t \in {<<"init2", "shutdown", "cleanup">>, <<"init2", "cleanup">>, <<"cleanup">>}
         /\ (\E i \in DOMAIN t : t[i] = "shutdown") <=>
              t \in {<<"init2", "shutdown">>, <<"init2", "shutdown", "cleanup">>}
BY DEF Sequences

LEMMA FunctionsAreSequences ==
  ASSUME NEW S, NEW k \in Nat, NEW f \in [1..k -> S]
  PROVE  f \in Seq(S)
OBVIOUS

LEMMA CommandsTyped ==
  ASSUME NEW line \in CommandLines
  PROVE  Commands(line) \in Seq(AnyCommand)
<1> DEFINE first == [i \in DOMAIN line.disable |-> Command(line.disable[i], FALSE)]
           second == IF line.exclusive = "" THEN <<>>
                     ELSE <<Command(All, FALSE), Command(line.exclusive, TRUE)>>
           third == [i \in DOMAIN line.enable |-> Command(line.enable[i], TRUE)]
<1>1. \A name \in STRING \union {All} :
        /\ [name |-> name, on |-> FALSE] \in AnyCommand
        /\ [name |-> name, on |-> TRUE] \in AnyCommand
  BY DEF AnyCommand
<1>2. /\ line.disable \in Seq(STRING) /\ line.exclusive \in STRING
      /\ line.enable \in Seq(STRING)
  BY CommandLinesAssumption
<1>3. first \in Seq(AnyCommand)
  <2>1. /\ DOMAIN line.disable = 1..Len(line.disable) /\ Len(line.disable) \in Nat
        /\ \A i \in 1..Len(line.disable) : line.disable[i] \in STRING
    BY <1>2
  <2> DEFINE seq == [i \in 1..Len(line.disable) |-> [name |-> line.disable[i], on |-> FALSE]]
  <2>2. seq \in [1..Len(line.disable) -> AnyCommand]
    BY <1>1, <2>1
  <2>3. seq \in Seq(AnyCommand)
    <3> HIDE DEF seq
    <3>1. QED
      BY <2>1, <2>2, FunctionsAreSequences
  <2>4. QED
    BY <2>1, <2>3 DEF Command
<1>4. third \in Seq(AnyCommand)
  <2>1. /\ DOMAIN line.enable = 1..Len(line.enable) /\ Len(line.enable) \in Nat
        /\ \A i \in 1..Len(line.enable) : line.enable[i] \in STRING
    BY <1>2
  <2> DEFINE seq == [i \in 1..Len(line.enable) |-> [name |-> line.enable[i], on |-> TRUE]]
  <2>2. seq \in [1..Len(line.enable) -> AnyCommand]
    BY <1>1, <2>1
  <2>3. seq \in Seq(AnyCommand)
    <3> HIDE DEF seq
    <3>1. QED
      BY <2>1, <2>2, FunctionsAreSequences
  <2>4. QED
    BY <2>1, <2>3 DEF Command
<1>5. second \in Seq(AnyCommand)
  <2> DEFINE none == [name |-> All, on |-> FALSE]
             only == [name |-> line.exclusive, on |-> TRUE]
  <2>1. none \in AnyCommand /\ only \in AnyCommand
    BY <1>1, <1>2
  <2> HIDE DEF none, only
  <2>2. <<none, only>> \in Seq(AnyCommand)
    BY <2>1
  <2>3. <<>> \in Seq(AnyCommand)
    OBVIOUS
  <2>4. QED
    BY <2>2, <2>3, Zenon DEF none, only, Command
<1> HIDE DEF first, second, third
<1>6. first \o second \in Seq(AnyCommand)
  BY <1>3, <1>5
<1>7. (first \o second) \o third \in Seq(AnyCommand)
  BY <1>4, <1>6
<1>8. QED
  BY <1>7, Zenon DEF Commands, first, second, third

LEMMA InitLife == Init => LifeInv
<1> SUFFICES ASSUME Init PROVE todo = Rest(24) /\ PlaceInv(24)
  BY DEF LifeInv, Places
<1> USE DEF Init, StartupInit
<1>1. todo = Rest(24)
  BY ProgramIsRest
<1>2. WorkInv(24)
  BY DEF WorkInv, Quiet, Busy, Idle, EnabledUnits
<1>3. ReportInv(24)
  BY DEF ReportInv, GivingUp
<1>4. PhaseInv(24)
  BY DEF PhaseInv
<1>5. CallsInv(24)
  <2>1. told \in [Scanners -> Sequences]
    BY DEF Sequences
  <2>2. \A s \in Scanners : ~Called(s, "cleanup")
    BY DEF Called
  <2>3. QED
    BY <2>1, <2>2, ScannersAssumption DEF CallsInv
<1>6. FaultsInv
  BY DEF FaultsInv
<1>7. CommandsInv
  <2>1. PICK line \in CommandLines : given = Commands(line)
    OBVIOUS
  <2>2. given \in Seq(AnyCommand)
    BY <2>1, CommandsTyped
  <2>3. SubSeq(given, 1, Len(given)) = given
    BY <2>2, SubSeqFull
  <2>4. EnabledBy(0)
    BY ScannersAssumption DEF EnabledBy
  <2>5. QED
    BY <2>2, <2>3, <2>4, ScannersAssumption DEF CommandsInv
<1>8. RecordersInv(24)
  BY DEF RecordersInv
<1>9. QED
  BY <1>1, <1>2, <1>3, <1>4, <1>5, <1>6, <1>7, <1>8 DEF PlaceInv

(* Main goes on to the next step of its program.                           *)
LEMMA Advances ==
  ASSUME NEW n \in Places, NEW m \in Places, PlaceInv(n),
         UNCHANGED <<result, startup, phase, told, pool, writer, faults>>,
         notifier' \in {"none", "testing", "printing", "to_wait", "waiting", "woken", "ended"},
         \/ m = n
         \/ /\ m = After(n)
            /\ n \in {1, 2, 3, 5, 6, 7, 11, 13, 14, 15, 16, 17, 19, 22, 26, 27, 28, 29}
            /\ n \in {16, 29} => Quiet
            /\ n = 22 => \A s \in enabled : told[s] # <<>>
  PROVE  PlaceInv(m)'
<1>1. /\ WorkInv(n) /\ ReportInv(n) /\ PhaseInv(n) /\ CallsInv(n) /\ FaultsInv
      /\ CommandsInv /\ RecordersInv(n)
  BY DEF PlaceInv
<1>2. /\ UNCHANGED <<result, phase, told, writer, faults>>
      /\ UNCHANGED <<given, commands, enabled, unvisited, recorders>>
      /\ UNCHANGED <<unread, queue, at, disk_errors>>
  BY DEF pool, startup
<1>3. FaultsInv' /\ CommandsInv' /\ Quiet' = Quiet
  BY <1>1, <1>2 DEF FaultsInv, CommandsInv, EnabledBy, Quiet
<1>4. CASE m = n
  <2>1. WorkInv(m)' /\ ReportInv(m)' /\ PhaseInv(m)'
    BY <1>1, <1>2, <1>3, <1>4 DEF WorkInv, EnabledUnits, ReportInv, PhaseInv
  <2>2. CallsInv(m)'
    BY <1>1, <1>2, <1>4 DEF CallsInv, Called, Ready
  <2>3. RecordersInv(m)'
    BY <1>1, <1>2, <1>4 DEF RecordersInv
  <2>4. QED
    BY <1>3, <2>1, <2>2, <2>3 DEF PlaceInv
<1>5. CASE /\ m = After(n)
           /\ n \in {1, 2, 3, 5, 6, 7, 11, 13, 14, 15, 16, 17, 19, 22, 26, 27, 28, 29}
           /\ n \in {16, 29} => Quiet
           /\ n = 22 => \A s \in enabled : told[s] # <<>>
  <2>1. m = n - 1
    BY <1>5 DEF After
  <2>2. m \in Busy \union {0} => n \in Busy \union {1}
    BY <1>5, <2>1 DEF Busy
  <2>3. m \notin Busy \union {0} => Quiet
    BY <1>1, <1>5, <2>1 DEF Busy, WorkInv
  <2>4. WorkInv(m)'
    BY <1>1, <1>2, <1>3, <2>3 DEF WorkInv, EnabledUnits
  <2>5. ReportInv(m)'
    <3>1. /\ m \in 20..24 \union {30} => n \in 20..24 \union {30}
          /\ m \in 8..19 \union GivingUp => n \in 8..19 \union GivingUp
          /\ m \in 9..24 \union {30} => n \in 9..24 \union {30}
          /\ m \in GivingUp => n \in GivingUp
      BY <1>5, <2>1 DEF GivingUp
    <3>2. QED
      BY <1>1, <1>2, <3>1 DEF ReportInv
  <2>6. PhaseInv(m)'
    <3>1. /\ ~(m \in 23..24) /\ m # 11
          /\ m \in 21..22 => n \in 21..22
          /\ m \in 18..20 => n \in 18..20
          /\ m \in 13..17 \union 26..30 => n \in 13..17 \union 26..30
          /\ m = 12 => n \in 13..17 \union 26..30
          /\ m = 10 => n = 11
          /\ m = 25 => n \in 13..17 \union 26..30
          /\ m \in 1..3 \union 8..9 => n \in 1..3 \union 8..9
          /\ m = 0 => n \in 1..3 \union 8..9
      BY <1>5, <2>1
    <3>2. PhaseInv(n) /\ phase' = phase /\ result' = result
      BY <1>1, <1>2
    <3>3. QED
      BY <3>1, <3>2 DEF PhaseInv
  <2>7. CallsInv(m)'
    <3>1. /\ told' \in [Scanners -> Sequences]
          /\ phase' = "cleaned" => \A s \in Scanners : Called(s, "cleanup")'
          /\ phase' \notin {"cleanup", "cleaned"} => \A s \in Scanners : ~Called(s, "cleanup")'
          /\ m \in 23..24 => \A s \in Scanners : told'[s] = <<>>
          /\ m = 22 => \A s \in Scanners : told'[s] \in {<<>>, <<"init2">>}
      BY <1>1, <1>2, <1>5, <2>1 DEF CallsInv, Called
    <3>2. n = 22 => \A s \in enabled : Ready(s)
      BY <1>1, <1>5 DEF CallsInv, CommandsInv, Ready
    <3>3. n \in 13..21 \union 26..30 => \A s \in enabled : Ready(s)
      BY <1>1 DEF CallsInv
    <3>4. m \in 12..21 \union 26..30 => n = 22 \/ n \in 13..21 \union 26..30
      BY <1>5, <2>1
    <3>5. m \in 12..21 \union 26..30 => \A s \in enabled : Ready(s)
      BY <3>2, <3>3, <3>4
    <3>6. m \in 9..11 => n = 11
      BY <1>5, <2>1
    <3>7. m \in 9..11 \/ (result = "0" /\ writer # "none") =>
            \A s \in enabled : Called(s, "shutdown")
      BY <1>1, <3>6 DEF CallsInv
    <3>8. /\ m = 12 => \A s \in enabled' : told'[s] \in {<<"init2">>, <<"init2", "shutdown">>}
          /\ m \in 13..21 \union 26..30 => \A s \in enabled' : Ready(s)'
      <4>1. m = 12 \/ m \in 13..21 \union 26..30 => \A s \in enabled : Ready(s)
        BY <3>5
      <4>2. m = 12 \/ m \in 13..21 \union 26..30 => \A s \in enabled' : told'[s] = <<"init2">>
        BY <1>2, <4>1 DEF Ready
      <4>3. QED
        BY <4>2 DEF Ready
    <3>9. m \in 9..11 \/ (result' = "0" /\ writer' # "none") =>
            \A s \in enabled' : Called(s, "shutdown")'
      BY <1>2, <3>7 DEF Called
    <3>10. QED
      BY <3>1, <3>8, <3>9 DEF CallsInv
  <2>8. RecordersInv(m)'
    BY <1>1, <1>2, <1>5, <2>1 DEF RecordersInv
  <2>9. QED
    BY <1>3, <2>4, <2>5, <2>6, <2>7, <2>8 DEF PlaceInv
<1>6. QED
  BY <1>4, <1>5

(* Main leaves its program for its destructors.                            *)
LEMMA Leaves ==
  ASSUME NEW n \in Places, NEW m \in Places, PlaceInv(n),
         UNCHANGED <<startup, phase, told, pool, writer, faults, notifier>>,
         result' \in {"1", "5", "6", "7", "8"},
         \/ n \in 20..24 /\ m = 4
         \/ n \in {11, 12, 19} /\ m = 7
         \/ n = 17 /\ m = 7 /\ unread = Pages
         \/ n = 17 /\ m = 29 /\ result' = "6"
         \/ n = 16 /\ m = 28 /\ Quiet /\ result' = "6"
         \/ n = 16 /\ m = 0 /\ result' = "8"
  PROVE  PlaceInv(m)'
<1>1. /\ WorkInv(n) /\ ReportInv(n) /\ PhaseInv(n) /\ CallsInv(n) /\ FaultsInv
      /\ CommandsInv /\ RecordersInv(n)
  BY DEF PlaceInv
<1>2. /\ UNCHANGED <<phase, told, writer, faults, notifier>>
      /\ UNCHANGED <<given, commands, enabled, unvisited, recorders>>
      /\ UNCHANGED <<unread, queue, at, disk_errors>>
  BY DEF pool, startup
<1>3. FaultsInv' /\ CommandsInv' /\ Quiet' = Quiet
  BY <1>1, <1>2 DEF FaultsInv, CommandsInv, EnabledBy, Quiet
<1>4. m \notin Busy \union {0} => Quiet
  BY <1>1 DEF Busy, WorkInv
<1>5. WorkInv(m)'
  BY <1>1, <1>2, <1>3, <1>4 DEF WorkInv, EnabledUnits
<1>6. ReportInv(m)'
  BY <1>1, <1>2 DEF ReportInv, GivingUp
<1>7. PhaseInv(m)'
  BY <1>1, <1>2 DEF PhaseInv
<1>8. CallsInv(m)'
  <2>1. m \in {28, 29} => \A s \in enabled : Ready(s)
    BY <1>1 DEF CallsInv
  <2>2. m \notin 8..27 /\ m # 30 /\ result' # "0"
    OBVIOUS
  <2>3. m \in {28, 29} => \A s \in enabled' : Ready(s)'
    BY <1>2, <2>1 DEF Ready
  <2>4. /\ told' \in [Scanners -> Sequences]
        /\ phase' = "cleaned" => \A s \in Scanners : Called(s, "cleanup")'
        /\ phase' \notin {"cleanup", "cleaned"} => \A s \in Scanners : ~Called(s, "cleanup")'
    BY <1>1, <1>2 DEF CallsInv, Called
  <2>5. /\ ~(m \in 23..24) /\ m # 22 /\ m # 12
        /\ m \in 13..21 \union 26..30 => m \in {28, 29}
        /\ ~(m \in 9..11 \/ (result' = "0" /\ writer' # "none"))
    BY <2>2 DEF Places
  <2>6. QED
    BY <2>3, <2>4, <2>5 DEF CallsInv
<1>9. RecordersInv(m)'
  BY <1>1, <1>2 DEF RecordersInv
<1>10. QED
  BY <1>1, <1>2, <1>3, <1>5, <1>6, <1>7, <1>8, <1>9 DEF PlaceInv

LEMMA Reaches ==
  ASSUME NEW m \in Places, todo' = Rest(m), PlaceInv(m)'
  PROVE  LifeInv'
BY DEF LifeInv

(* The steps that only take main further, and what the notification thread *)
(* and the benchmark thread do beside it.                                  *)
LEMMA ContinueInv ==
  ASSUME NEW n \in Places, todo = Rest(n), PlaceInv(n),
         \/ Stop \/ Notify \/ JoinNotifier \/ RecordersShutdown \/ JoinWorkers
         \/ JoinBenchmark \/ End \/ EndOfImage
         \/ /\ AllInitialised
            /\ UNCHANGED <<pool, writer, threads, faults>>
  PROVE  LifeInv'
<1> DEFINE Notifiers == {"none", "testing", "printing", "to_wait", "waiting", "woken", "ended"}
           Rests == UNCHANGED <<result, startup, phase, told, pool, writer, faults>>
<1>1. notifier \in Notifiers
  BY DEF PlaceInv
<1>2. ASSUME NEW step, Doing(step), Continue, Rests, notifier' \in Notifiers,
             n \in {1, 2, 3, 5, 6, 7, 11, 13, 14, 15, 16, 17, 19, 22, 26, 27, 28, 29},
             n \in {16, 29} => Quiet,
             n = 22 => \A s \in enabled : told[s] # <<>>
      PROVE  LifeInv'
  <2>1. todo' = Rest(After(n)) /\ After(n) \in Places
    BY <1>2, DoingAt DEF Continue, Doing
  <2>2. PlaceInv(After(n))'
    BY <1>2, <2>1, Advances
  <2>3. QED
    BY <2>1, <2>2, Reaches
<1>3. CASE Stop
  <2>1. n \in {7, 15, 28}
    BY <1>3, PlaceOf DEF Stop
  <2>2. QED
    BY <1>1, <1>2, <1>3, <2>1 DEF Stop
<1>4. CASE Notify
  <2>1. n \in {6, 14, 27}
    BY <1>4, PlaceOf DEF Notify
  <2>2. notifier' \in Notifiers
    BY <1>1, <1>4 DEF Notify
  <2>3. QED
    BY <1>2, <1>4, <2>1, <2>2 DEF Notify
<1>5. CASE JoinNotifier
  <2>1. n \in {5, 13, 26}
    BY <1>5, PlaceOf DEF JoinNotifier
  <2>2. QED
    BY <1>1, <1>2, <1>5, <2>1 DEF JoinNotifier, threads
<1>6. CASE RecordersShutdown
  <2>1. n = 11
    BY <1>6, PlaceOf DEF RecordersShutdown
  <2>2. QED
    BY <1>1, <1>2, <1>6, <2>1 DEF RecordersShutdown, threads
<1>7. CASE JoinWorkers
  <2>1. n \in {3, 29} /\ Quiet
    BY <1>7, PlaceOf DEF JoinWorkers
  <2>2. QED
    BY <1>1, <1>2, <1>7, <2>1 DEF JoinWorkers, threads
<1>8. CASE JoinBenchmark
  <2>1. n = 2
    BY <1>8, PlaceOf DEF JoinBenchmark
  <2>2. QED
    BY <1>1, <1>2, <1>8, <2>1 DEF JoinBenchmark, threads
<1>9. CASE End
  <2>1. n = 1
    BY <1>9, PlaceOf DEF End
  <2>2. todo' = Rest(0) /\ 0 \in Places
    BY <1>9, RestAfter DEF End, Places
  <2>3. PlaceInv(0)'
    BY <1>1, <1>9, <2>1, <2>2, Advances DEF End, threads, After
  <2>4. QED
    BY <2>2, <2>3, Reaches
<1>10. CASE EndOfImage
  <2>1. n = 17
    BY <1>10, PlaceOf DEF EndOfImage
  <2>2. QED
    BY <1>1, <1>2, <1>10, <2>1 DEF EndOfImage, threads
<1>11. CASE AllInitialised /\ UNCHANGED <<pool, writer, threads, faults>>
  <2>1. n = 22 /\ \A s \in enabled : told[s] # <<>>
    BY <1>11, PlaceOf DEF AllInitialised
  <2>2. QED
    BY <1>1, <1>2, <1>11, <2>1 DEF AllInitialised, threads
<1>12. QED
  BY <1>3, <1>4, <1>5, <1>6, <1>7, <1>8, <1>9, <1>10, <1>11

(* What ends a run early.                                                  *)
LEMMA LeaveInv ==
  ASSUME NEW n \in Places, todo = Rest(n), PlaceInv(n),
         \/ OpenFails \/ Launch \/ ReaderThrows \/ StopReading \/ Join \/ TimeOut
         \/ ShutdownFails
         \/ /\ UNCHANGED <<pool, writer, threads, faults>>
            /\ NoSuchScanner \/ \E s \in Scanners : CreateFails(s)
  PROVE  LifeInv'
<1> DEFINE Rests == UNCHANGED <<startup, phase, told, pool, writer, faults, notifier>>
<1>1. 4 \in Places /\ 7 \in Places /\ 28 \in Places /\ 29 \in Places /\ 0 \in Places
  BY DEF Places
<1>2. CASE OpenFails
  <2>1. n = 20
    BY <1>2, PlaceOf DEF OpenFails
  <2>2. todo' = Rest(4) /\ result' \in {"1", "6", "7"} /\ Rests
    BY <1>2, Unwinds DEF OpenFails, Leave, threads
  <2>3. PlaceInv(4)'
    BY <1>1, <2>1, <2>2, Leaves
  <2>4. QED
    BY <1>1, <2>2, <2>3, Reaches
<1>3. CASE Launch
  <2>1. n = 19
    BY <1>3, PlaceOf DEF Launch
  <2>2. CASE notifier' \in {"none", "testing"} /\ Continue /\ UNCHANGED result
    <3>1. todo' = Rest(After(n)) /\ After(n) \in Places
      BY <1>3, <2>2, DoingAt DEF Launch, Continue, Doing
    <3>2. notifier' \in {"none", "testing", "printing", "to_wait", "waiting", "woken", "ended"}
      BY <2>2
    <3>3. UNCHANGED <<result, startup, phase, told, pool, writer, faults>>
      BY <1>3, <2>2 DEF Launch
    <3>4. /\ n \in {1, 2, 3, 5, 6, 7, 11, 13, 14, 15, 16, 17, 19, 22, 26, 27, 28, 29}
          /\ n \in {16, 29} => Quiet
          /\ n = 22 => \A s \in enabled : told[s] # <<>>
      BY <2>1
    <3>5. PlaceInv(After(n))'
      BY <3>1, <3>2, <3>3, <3>4, Advances
    <3>6. QED
      BY <3>1, <3>5, Reaches
  <2>3. CASE Leave("1", Unwind) /\ UNCHANGED notifier
    <3>1. todo' = Rest(7) /\ result' = "1" /\ Rests
      BY <1>3, <2>3, Unwinds DEF Launch, Leave
    <3>2. PlaceInv(7)'
      BY <1>1, <2>1, <3>1, Leaves
    <3>3. QED
      BY <1>1, <3>1, <3>2, Reaches
  <2>4. QED
    BY <1>3, <2>2, <2>3 DEF Launch
<1>4. CASE ReaderThrows
  <2>1. n = 17 /\ unread = Pages
    BY <1>4, PlaceOf DEF ReaderThrows
  <2>2. todo' = Rest(7) /\ result' = "1" /\ Rests
    BY <1>4, Unwinds DEF ReaderThrows, Leave, threads
  <2>3. PlaceInv(7)'
    BY <1>1, <2>1, <2>2, Leaves
  <2>4. QED
    BY <1>1, <2>2, <2>3, Reaches
<1>5. CASE StopReading
  <2>1. n = 17
    BY <1>5, PlaceOf DEF StopReading
  <2>2. todo' = Rest(29) /\ result' = "6" /\ Rests
    BY <1>5, GiveUpIsRest DEF StopReading, Leave, threads
  <2>3. PlaceInv(29)'
    BY <1>1, <2>1, <2>2, Leaves
  <2>4. QED
    BY <1>1, <2>2, <2>3, Reaches
<1>6. CASE Join
  <2>1. n = 16 /\ Quiet
    BY <1>6, PlaceOf DEF Join
  <2>2. CASE disk_errors
    <3>1. todo' = Rest(28) /\ result' = "6" /\ Rests
      BY <1>6, <2>2, GiveUpIsRest DEF Join, Leave, threads
    <3>2. PlaceInv(28)'
      BY <1>1, <2>1, <3>1, Leaves
    <3>3. QED
      BY <1>1, <3>1, <3>2, Reaches
  <2>3. CASE ~disk_errors
    <3>1. todo' = Rest(After(n)) /\ After(n) \in Places
      BY <1>6, <2>3, DoingAt DEF Join, Continue, Doing
    <3>2. notifier' \in {"none", "testing", "printing", "to_wait", "waiting", "woken", "ended"}
      BY <1>6 DEF Join, threads, PlaceInv
    <3>3. UNCHANGED <<result, startup, phase, told, pool, writer, faults>>
      BY <1>6, <2>3 DEF Join
    <3>4. /\ n \in {1, 2, 3, 5, 6, 7, 11, 13, 14, 15, 16, 17, 19, 22, 26, 27, 28, 29}
          /\ n \in {16, 29} => Quiet
          /\ n = 22 => \A s \in enabled : told[s] # <<>>
      BY <2>1
    <3>5. PlaceInv(After(n))'
      BY <3>1, <3>2, <3>3, <3>4, Advances
    <3>6. QED
      BY <3>1, <3>5, Reaches
  <2>4. QED
    BY <2>2, <2>3
<1>7. CASE TimeOut
  <2>1. n = 16
    BY <1>7, PlaceOf DEF TimeOut
  <2>2. todo' = Rest(0) /\ result' = "8" /\ Rests
    BY <1>1, <1>7, RestAfter DEF TimeOut, Leave, threads
  <2>3. PlaceInv(0)'
    BY <1>1, <2>1, <2>2, Leaves
  <2>4. QED
    BY <1>1, <2>2, <2>3, Reaches
<1>8. CASE ShutdownFails
  <2>1. n \in {11, 12}
    BY <1>8, PlaceOf DEF ShutdownFails
  <2>2. todo' = Rest(7) /\ result' = "7" /\ Rests
    BY <1>8, Unwinds DEF ShutdownFails, Leave, threads
  <2>3. PlaceInv(7)'
    BY <1>1, <2>1, <2>2, Leaves
  <2>4. QED
    BY <1>1, <2>2, <2>3, Reaches
<1>9. ASSUME UNCHANGED <<pool, writer, threads, faults>>,
             NoSuchScanner \/ \E s \in Scanners : CreateFails(s)
      PROVE  LifeInv'
  <2>1. n \in {23, 24}
    BY <1>9, PlaceOf DEF NoSuchScanner, CreateFails
  <2>2. todo' = Rest(4) /\ result' \in {"1", "5"} /\ Rests
    BY <1>9, Unwinds DEF NoSuchScanner, CreateFails, Leave, threads
  <2>3. PlaceInv(4)'
    BY <1>1, <2>1, <2>2, Leaves
  <2>4. QED
    BY <1>1, <2>2, <2>3, Reaches
<1>10. QED
  BY <1>2, <1>3, <1>4, <1>5, <1>6, <1>7, <1>8, <1>9

(* What a step leaves alone.                                               *)
LEMMA KeepsWork ==
  ASSUME NEW n \in Places, NEW m \in Places, PlaceInv(n), UNCHANGED <<pool, enabled>>,
         m \notin Busy \union {0} => Quiet
  PROVE  WorkInv(m)'
<1>1. WorkInv(n)
  BY DEF PlaceInv
<1>2. UNCHANGED <<unread, queue, at, disk_errors>> /\ Quiet' = Quiet
  BY DEF pool, Quiet
<1>3. QED
  BY <1>1, <1>2 DEF WorkInv, EnabledUnits

LEMMA KeepsStartup ==
  ASSUME NEW n \in Places, NEW m \in Places, PlaceInv(n), UNCHANGED startup, m \notin 21..24,
         phase' \in {"enabled", "scan", "shutdown"} => phase \in {"enabled", "scan", "shutdown"}
  PROVE  CommandsInv' /\ RecordersInv(m)'
<1>1. CommandsInv /\ RecordersInv(n)
  BY DEF PlaceInv
<1>2. UNCHANGED <<given, commands, enabled, unvisited, recorders>>
  BY DEF startup
<1>3. CommandsInv'
  BY <1>1, <1>2 DEF CommandsInv, EnabledBy
<1>4. RecordersInv(m)'
  BY <1>1, <1>2 DEF RecordersInv, Places
<1>5. QED
  BY <1>3, <1>4

LEMMA OpenInv ==
  ASSUME NEW n \in Places, todo = Rest(n), PlaceInv(n),
         OpenForPrinting \/ Open \/ Freeze \/ \E s \in Scanners : PrintPath(s)
  PROVE  LifeInv'
<1>1. /\ WorkInv(n) /\ ReportInv(n) /\ PhaseInv(n) /\ CallsInv(n) /\ FaultsInv
      /\ CommandsInv /\ RecordersInv(n)
      /\ notifier \in {"none", "testing", "printing", "to_wait", "waiting", "woken", "ended"}
  BY DEF PlaceInv
<1>2. 30 \in Places /\ 4 \in Places
  BY DEF Places
<1>3. CASE OpenForPrinting
  <2>1. n = 20
    BY <1>3, PlaceOf DEF OpenForPrinting
  <2>2. /\ todo' = Rest(30) /\ phase' = "scan"
        /\ UNCHANGED <<result, told, writer, faults, notifier, startup, pool, enabled>>
    BY <1>3, PrintIsRest DEF OpenForPrinting, threads, startup
  <2>3. WorkInv(30)'
    BY <1>1, <1>2, <2>1, <2>2, KeepsWork DEF WorkInv, Busy
  <2>4. CommandsInv' /\ RecordersInv(30)'
    BY <1>1, <1>2, <2>1, <2>2, KeepsStartup DEF PhaseInv
  <2>5. ReportInv(30)' /\ PhaseInv(30)' /\ FaultsInv'
    BY <1>1, <2>1, <2>2 DEF ReportInv, GivingUp, PhaseInv, FaultsInv
  <2>6. CallsInv(30)'
    BY <1>1, <2>1, <2>2 DEF CallsInv, PhaseInv, Called, Ready, ReportInv
  <2>7. QED
    BY <1>1, <1>2, <2>2, <2>3, <2>4, <2>5, <2>6, Reaches DEF PlaceInv
<1>4. CASE Open
  <2>1. n = 20
    BY <1>4, PlaceOf DEF Open
  <2>2. /\ todo' = Rest(19) /\ 19 \in Places /\ writer' = "live"
        /\ UNCHANGED <<result, told, phase, faults, notifier, startup, pool, enabled>>
    BY <1>4, <2>1, DoingAt DEF Open, Continue, After, Doing, threads, startup
  <2>3. WorkInv(19)'
    BY <1>1, <2>1, <2>2, KeepsWork DEF WorkInv, Busy
  <2>4. CommandsInv' /\ RecordersInv(19)'
    BY <1>1, <2>1, <2>2, KeepsStartup DEF PhaseInv
  <2>5. ReportInv(19)' /\ PhaseInv(19)' /\ FaultsInv'
    BY <1>1, <2>1, <2>2 DEF ReportInv, GivingUp, PhaseInv, FaultsInv
  <2>6. CallsInv(19)'
    BY <1>1, <2>1, <2>2 DEF CallsInv, PhaseInv, Called, Ready, ReportInv
  <2>7. QED
    BY <1>1, <2>2, <2>3, <2>4, <2>5, <2>6, Reaches DEF PlaceInv
<1>5. CASE Freeze
  <2>1. n = 18
    BY <1>5, PlaceOf DEF Freeze
  <2>2. /\ todo' = Rest(17) /\ 17 \in Places /\ phase' = "scan"
        /\ UNCHANGED <<result, told, writer, faults, notifier, startup, pool, enabled>>
    BY <1>5, <2>1, DoingAt DEF Freeze, Continue, After, Doing, threads, startup
  <2>3. WorkInv(17)'
    BY <1>1, <2>1, <2>2, KeepsWork DEF WorkInv, Busy
  <2>4. CommandsInv' /\ RecordersInv(17)'
    BY <1>1, <2>1, <2>2, KeepsStartup DEF PhaseInv
  <2>5. ReportInv(17)' /\ PhaseInv(17)' /\ FaultsInv'
    BY <1>1, <2>1, <2>2 DEF ReportInv, GivingUp, PhaseInv, FaultsInv
  <2>6. CallsInv(17)'
    BY <1>1, <2>1, <2>2 DEF CallsInv, PhaseInv, Called, Ready, ReportInv
  <2>7. QED
    BY <1>1, <2>2, <2>3, <2>4, <2>5, <2>6, Reaches DEF PlaceInv
<1>6. ASSUME NEW s \in Scanners, PrintPath(s)
      PROVE  LifeInv'
  <2>1. n = 30
    BY <1>6, PlaceOf DEF PrintPath
  <2>2. /\ todo' = Rest(4) /\ result' = "0" /\ faults' \subseteq faults \union {"printer"}
        /\ UNCHANGED <<told, phase, writer, notifier, startup, pool, enabled>>
    BY <1>6, Unwinds DEF PrintPath, Leave, threads, startup
  <2>3. WorkInv(4)'
    BY <1>1, <1>2, <2>1, <2>2, KeepsWork DEF WorkInv, Busy
  <2>4. CommandsInv' /\ RecordersInv(4)'
    BY <1>1, <1>2, <2>1, <2>2, KeepsStartup
  <2>5. ReportInv(4)' /\ PhaseInv(4)' /\ FaultsInv'
    BY <1>1, <2>1, <2>2 DEF ReportInv, GivingUp, PhaseInv, FaultsInv
  <2>6. CallsInv(4)'
    BY <1>1, <2>1, <2>2 DEF CallsInv, PhaseInv, Called, Ready, ReportInv
  <2>7. QED
    BY <1>1, <1>2, <2>2, <2>3, <2>4, <2>5, <2>6, Reaches DEF PlaceInv
<1>7. QED
  BY <1>3, <1>4, <1>5, <1>6

(* A step of another thread, or of main that stays where it is.            *)
LEMMA Stays ==
  ASSUME NEW n \in Places, todo = Rest(n), PlaceInv(n),
         UNCHANGED <<todo, result, startup, phase, told, writer>>,
         notifier' \in {"none", "testing", "printing", "to_wait", "waiting", "woken", "ended"},
         WorkInv(n)', FaultsInv'
  PROVE  LifeInv'
<1>1. /\ ReportInv(n) /\ PhaseInv(n) /\ CallsInv(n) /\ CommandsInv /\ RecordersInv(n)
  BY DEF PlaceInv
<1>2. UNCHANGED <<given, commands, enabled, unvisited, recorders>>
  BY DEF startup
<1>3. ReportInv(n)' /\ PhaseInv(n)'
  BY <1>1 DEF ReportInv, PhaseInv
<1>4. CallsInv(n)'
  BY <1>1, <1>2 DEF CallsInv, Called, Ready
<1>5. CommandsInv'
  BY <1>1, <1>2 DEF CommandsInv, EnabledBy
<1>6. RecordersInv(n)'
  BY <1>1, <1>2 DEF RecordersInv
<1>7. QED
  BY <1>3, <1>4, <1>5, <1>6, Reaches DEF PlaceInv

LEMMA ThreadsInv ==
  ASSUME NEW n \in Places, todo = Rest(n), PlaceInv(n),
         Notifier \/ BenchmarkThread \/ UNCHANGED vars
  PROVE  LifeInv'
<1>1. WorkInv(n) /\ FaultsInv
      /\ notifier \in {"none", "testing", "printing", "to_wait", "waiting", "woken", "ended"}
  BY DEF PlaceInv
<1>2. /\ UNCHANGED <<todo, result, startup, phase, told, writer, pool>>
      /\ notifier' \in {"none", "testing", "printing", "to_wait", "waiting", "woken", "ended"}
  <2>1. CASE Notifier
    BY <1>1, <2>1
       DEF Notifier, NotifierTests, NotifierPrints, NotifierWaits, NotifierTimes
  <2>2. CASE BenchmarkThread
    BY <1>1, <2>2 DEF BenchmarkThread, BenchmarkTests, BenchmarkWrites
  <2>3. CASE UNCHANGED vars
    BY <1>1, <2>3 DEF vars, threads
  <2>4. QED
    BY <2>1, <2>2, <2>3
<1>3. FaultsInv'
  <2>1. faults' \subseteq faults \union {"benchmark"}
    BY DEF Notifier, NotifierTests, NotifierPrints, NotifierWaits, NotifierTimes,
           BenchmarkThread, BenchmarkTests, BenchmarkWrites, Using, vars
  <2>2. QED
    BY <1>1, <2>1 DEF FaultsInv
<1>4. WorkInv(n)'
  <2>1. UNCHANGED <<pool, enabled>>
    BY <1>2 DEF startup
  <2>2. n \notin Busy \union {0} => Quiet
    BY <1>1 DEF WorkInv
  <2>3. QED
    BY <2>1, <2>2, KeepsWork
<1>5. QED
  BY <1>2, <1>3, <1>4, Stays

(* While there is work, the scan phase goes on, the report is there and    *)
(* every enabled scanner is ready.                                         *)
LEMMA AtWork ==
  ASSUME NEW n \in Places, PlaceInv(n), n \in Busy
  PROVE  phase = "scan" /\ writer = "live" /\ \A s \in enabled : Ready(s)
BY DEF PlaceInv, PhaseInv, ReportInv, CallsInv, Busy, GivingUp

LEMMA ReadInv ==
  ASSUME NEW n \in Places, todo = Rest(n), PlaceInv(n), ReadPage
  PROVE  LifeInv'
<1>1. n = 17
  BY PlaceOf DEF ReadPage
<1>2. WorkInv(n) /\ FaultsInv
      /\ notifier' \in {"none", "testing", "printing", "to_wait", "waiting", "woken", "ended"}
  BY DEF PlaceInv, ReadPage, threads
<1>3. writer = "live" /\ \A s \in enabled : Ready(s)
  BY <1>1, AtWork DEF Busy
<1>4. PICK p \in unread :
        /\ unread' = unread \ {p}
        /\ \/ Using("deleted", \A s \in enabled : Ready(s)) /\ UNCHANGED queue
           \/ queue' = queue \union {<<p>>} /\ UNCHANGED faults
  BY DEF ReadPage
<1>5. FaultsInv'
  BY <1>2, <1>3, <1>4 DEF FaultsInv, Using
<1>6. WorkInv(n)'
  <2>1. UNCHANGED <<at, enabled>> /\ p \in Pages
    BY <1>2, <1>4 DEF ReadPage, startup, WorkInv
  <2>2. <<p>> \in EnabledUnits
    BY <2>1 DEF EnabledUnits
  <2>3. queue' \subseteq EnabledUnits /\ unread' \subseteq Pages /\ unread' # Pages
    BY <1>2, <1>4, <2>1, <2>2 DEF WorkInv
  <2>4. n \in Busy
    BY <1>1 DEF Busy
  <2>5. QED
    BY <1>2, <2>1, <2>3, <2>4 DEF WorkInv, EnabledUnits
<1>7. QED
  BY <1>2, <1>5, <1>6, Stays DEF ReadPage

LEMMA UnitShape ==
  ASSUME NEW u \in EnabledUnits
  PROVE  \/ \E p \in Pages : u = <<p>> /\ Len(u) = 1
         \/ \E p \in Pages, s \in enabled : u = <<p, s>> /\ Len(u) = 2
BY DEF EnabledUnits

LEMMA HeldShape ==
  ASSUME NEW n \in Places, WorkInv(n), NEW w \in Workers
  PROVE  \/ at[w] = Idle /\ Len(at[w]) = 0
         \/ \E p \in Pages : at[w] = <<p>> /\ Len(at[w]) = 1
         \/ \E p \in Pages, s \in enabled : at[w] = <<p, s>> /\ Len(at[w]) = 2
         \/ \E p \in Pages, s \in enabled : at[w] = <<p, s, "scanning">> /\ Len(at[w]) = 3
<1>1. CASE at[w] = Idle
  BY <1>1 DEF Idle
<1>2. CASE at[w] \in EnabledUnits
  BY <1>2, UnitShape
<1>3. CASE at[w] \in Pages \X enabled \X {"scanning"}
  BY <1>3
<1>4. QED
  BY <1>1, <1>2, <1>3 DEF WorkInv

LEMMA AppendToPair ==
  ASSUME NEW a, NEW b, NEW c
  PROVE  Append(<<a, b>>, c) = <<a, b, c>>
<1> DEFINE S == {a, b, c}
           left == Append(<<a, b>>, c)
           right == <<a, b, c>>
<1>1. <<a, b>> \in Seq(S) /\ c \in S /\ Len(<<a, b>>) = 2
  OBVIOUS
<1>2. left \in Seq(S) /\ Len(left) = 3
  BY <1>1, AppendProperties
<1>3. left[1] = a /\ left[2] = b /\ left[3] = c
  BY <1>1, AppendProperties
<1>4. right \in Seq(S) /\ Len(right) = 3
  OBVIOUS
<1>5. \A i \in 1..3 : left[i] = right[i]
  BY <1>3
<1>6. QED
  BY <1>2, <1>4, <1>5, SeqEqual

LEMMA WorkerInv ==
  ASSUME NEW n \in Places, todo = Rest(n), PlaceInv(n), NEW w \in Workers, Worker(w)
  PROVE  LifeInv'
<1>1. WorkInv(n) /\ FaultsInv
      /\ notifier \in {"none", "testing", "printing", "to_wait", "waiting", "woken", "ended"}
  BY DEF PlaceInv
<1>2. todo # <<>> /\ n # 0
  BY DoingAt DEF Worker, Take, StartPage, BeginScan, EndScan
<1>3. ~Quiet
  <2>1. CASE Take(w)
    BY <2>1 DEF Take, Quiet
  <2>2. CASE StartPage(w) \/ BeginScan(w) \/ EndScan(w)
    <3>1. Len(at[w]) = 1 \/ Len(at[w]) = 2 \/ Len(at[w]) = 3
      BY <2>2, Zenon DEF StartPage, BeginScan, EndScan
    <3>2. at[w] # Idle
      BY <3>1 DEF Idle
    <3>3. QED
      BY <3>2 DEF Quiet
  <2>3. QED
    BY <2>1, <2>2 DEF Worker
<1>4. n \in Busy /\ unread # Pages
  BY <1>1, <1>2, <1>3 DEF WorkInv
<1>5. phase = "scan" /\ writer = "live" /\ \A s \in enabled : Ready(s)
  BY <1>4, AtWork
<1> DEFINE Held == EnabledUnits \union (Pages \X enabled \X {"scanning"}) \union {Idle}
<1>6. ASSUME NEW v \in Held, at' = [at EXCEPT ![w] = v], queue' \subseteq EnabledUnits,
             UNCHANGED <<unread, enabled>>
      PROVE  WorkInv(n)'
  <2>1. \A x \in Workers : at'[x] = Idle \/ at'[x] \in EnabledUnits
                             \/ at'[x] \in Pages \X enabled \X {"scanning"}
    BY <1>1, <1>6 DEF WorkInv
  <2>2. DOMAIN at' = Workers
    BY <1>1, <1>6 DEF WorkInv
  <2>3. EnabledUnits' = EnabledUnits
    BY <1>6 DEF EnabledUnits
  <2>4. QED
    BY <1>1, <1>4, <1>6, <2>1, <2>2, <2>3 DEF WorkInv
<1>7. CASE Take(w)
  <2>1. PICK u \in queue : queue' = queue \ {u} /\ at' = [at EXCEPT ![w] = u]
    BY <1>7 DEF Take
  <2>2. WorkInv(n)'
    BY <1>1, <1>6, <1>7, <2>1 DEF Take, startup, WorkInv
  <2>3. QED
    BY <1>1, <1>7, <2>2, Stays DEF Take, threads, FaultsInv
<1>8. CASE StartPage(w)
  <2>1. PICK p \in Pages : at[w] = <<p>>
    BY <1>1, <1>8, HeldShape DEF StartPage
  <2>2. /\ queue' = queue \union {<<p, s>> : s \in enabled}
        /\ at' = [at EXCEPT ![w] = Idle]
        /\ faults' = faults
        /\ UNCHANGED <<todo, result, startup, phase, told, unread, writer, threads>>
    BY <1>5, <1>8, <2>1 DEF StartPage, Using
  <2>3. queue' \subseteq EnabledUnits
    BY <1>1, <2>2 DEF WorkInv, EnabledUnits
  <2>4. WorkInv(n)'
    BY <1>6, <2>2, <2>3 DEF startup
  <2>5. QED
    BY <1>1, <2>2, <2>4, Stays DEF threads, FaultsInv
<1>9. CASE BeginScan(w)
  <2>1. PICK p \in Pages, s \in enabled : at[w] = <<p, s>>
    BY <1>1, <1>9, HeldShape DEF BeginScan
  <2>2. at' = [at EXCEPT ![w] = <<p, s, "scanning">>]
    <3>1. Append(<<p, s>>, "scanning") = <<p, s, "scanning">>
      BY AppendToPair
    <3>2. at' = [at EXCEPT ![w] = Append(at[w], "scanning")]
      BY <1>9 DEF BeginScan
    <3>3. QED
      BY <2>1, <3>1, <3>2
  <2>3. WorkInv(n)'
    BY <1>1, <1>6, <1>9, <2>2 DEF BeginScan, startup, WorkInv
  <2>4. QED
    BY <1>1, <1>9, <2>3, Stays DEF BeginScan, threads, FaultsInv
<1>10. CASE EndScan(w)
  <2>1. PICK p \in Pages, s \in enabled : at[w] = <<p, s, "scanning">>
    BY <1>1, <1>10, HeldShape DEF EndScan
  <2>2. faults' = faults
    BY <1>5, <1>10, <2>1 DEF EndScan, Using
  <2>3. WorkInv(n)'
    BY <1>1, <1>6, <1>10 DEF EndScan, startup, WorkInv
  <2>4. QED
    BY <1>1, <1>10, <2>2, <2>3, Stays DEF EndScan, threads, FaultsInv
<1>11. QED
  BY <1>7, <1>8, <1>9, <1>10 DEF Worker

LEMMA AppendToShort ==
  ASSUME NEW a, NEW c
  PROVE  Append(<<>>, c) = <<c>> /\ Append(<<a>>, c) = <<a, c>>
<1>1. Append(<<>>, c) = <<c>>
  OBVIOUS
<1> DEFINE S == {a, c}
           left == Append(<<a>>, c)
           right == <<a, c>>
<1>2. <<a>> \in Seq(S) /\ c \in S /\ Len(<<a>>) = 1
  OBVIOUS
<1>3. left \in Seq(S) /\ Len(left) = 2
  BY <1>2, AppendProperties
<1>4. left[1] = a /\ left[2] = c
  BY <1>2, AppendProperties
<1>5. right \in Seq(S) /\ Len(right) = 2
  OBVIOUS
<1>6. \A i \in 1..2 : left[i] = right[i]
  BY <1>4
<1>7. left = right
  BY <1>3, <1>5, <1>6, SeqEqual
<1>8. QED
  BY <1>1, <1>7

(* A scanner that had no cleanup call may get one.                         *)
LEMMA TellCleanup ==
  ASSUME NEW t \in Sequences, ~(\E i \in DOMAIN t : t[i] = "cleanup")
  PROVE  /\ Append(t, "cleanup") \in Sequences
         /\ (\E i \in DOMAIN t : t[i] = "shutdown") =>
              \E i \in DOMAIN Append(t, "cleanup") : Append(t, "cleanup")[i] = "shutdown"
<1>1. t \in {<<>>, <<"init2">>, <<"init2", "shutdown">>}
  BY CallsTold DEF Sequences
<1>2. CASE t = <<>>
  <2>1. Append(t, "cleanup") = <<"cleanup">>
    BY <1>2, AppendToShort
  <2>2. QED
    BY <1>2, <2>1 DEF Sequences
<1>3. CASE t = <<"init2">>
  <2>1. Append(t, "cleanup") = <<"init2", "cleanup">>
    BY <1>3, AppendToShort
  <2>2. QED
    BY <1>3, <2>1 DEF Sequences
<1>4. CASE t = <<"init2", "shutdown">>
  <2>1. Append(t, "cleanup") = <<"init2", "shutdown", "cleanup">>
    BY <1>4, AppendToPair
  <2>2. QED
    BY <2>1 DEF Sequences
<1>5. QED
  BY <1>1, <1>2, <1>3, <1>4

LEMMA ShutdownInv ==
  ASSUME NEW n \in Places, todo = Rest(n), PlaceInv(n), Shutdown
  PROVE  LifeInv'
<1>1. /\ WorkInv(n) /\ ReportInv(n) /\ PhaseInv(n) /\ CallsInv(n) /\ FaultsInv
      /\ CommandsInv /\ RecordersInv(n)
      /\ notifier \in {"none", "testing", "printing", "to_wait", "waiting", "woken", "ended"}
  BY DEF PlaceInv
<1>2. n = 12 /\ 11 \in Places /\ 12 \in Places
  BY PlaceOf DEF Shutdown, Places
<1>3. /\ phase' = "shutdown"
      /\ UNCHANGED <<result, startup, pool, writer, faults, notifier, enabled>>
  BY DEF Shutdown, startup, threads
<1>4. Quiet /\ phase \in {"scan", "shutdown"}
  BY <1>1, <1>2 DEF WorkInv, PhaseInv, Busy
<1>5. FaultsInv'
  BY <1>1, <1>3 DEF FaultsInv
<1>6. enabled \subseteq Scanners
  BY <1>1 DEF CommandsInv
<1>7. CASE \A s \in enabled : Called(s, "shutdown")
  <2>1. todo' = Rest(11) /\ told' = told
    BY <1>2, <1>7, DoingAt DEF Shutdown, Continue, Doing, After
  <2>2. WorkInv(11)' /\ CommandsInv' /\ RecordersInv(11)'
    BY <1>2, <1>3, <1>4, KeepsWork, KeepsStartup
  <2>3. ReportInv(11)' /\ PhaseInv(11)'
    BY <1>1, <1>2, <1>3 DEF ReportInv, PhaseInv, GivingUp
  <2>4. CallsInv(11)'
    BY <1>1, <1>3, <1>4, <1>7, <2>1 DEF CallsInv, Called
  <2>5. QED
    BY <1>1, <1>2, <1>3, <1>5, <2>1, <2>2, <2>3, <2>4, Reaches DEF PlaceInv
<1>8. CASE ~(\A s \in enabled : Called(s, "shutdown"))
  <2>1. PICK s \in enabled :
          /\ ~Called(s, "shutdown")
          /\ told' = [told EXCEPT ![s] = Append(@, "shutdown")]
          /\ todo' = todo
    BY <1>8 DEF Shutdown, TellEach, Tell
  <2>2. told[s] = <<"init2">>
    <3>1. told[s] \in {<<"init2">>, <<"init2", "shutdown">>} /\ told[s] \in Sequences
      BY <1>1, <1>2 DEF CallsInv, Sequences
    <3>2. told[s] # <<"init2", "shutdown">>
      BY <2>1, <3>1, CallsTold DEF Called
    <3>3. QED
      BY <3>1, <3>2
  <2>3. told' = [told EXCEPT ![s] = <<"init2", "shutdown">>]
    BY <2>1, <2>2, AppendToShort
  <2>4. WorkInv(12)' /\ CommandsInv' /\ RecordersInv(12)'
    BY <1>2, <1>3, <1>4, KeepsWork, KeepsStartup
  <2>5. ReportInv(12)' /\ PhaseInv(12)'
    BY <1>1, <1>2, <1>3 DEF ReportInv, PhaseInv, GivingUp
  <2>6. CallsInv(12)'
    <3>1. told' \in [Scanners -> Sequences]
      BY <1>1, <2>3 DEF CallsInv, Sequences
    <3>2. \A q \in Scanners : ~Called(q, "cleanup")
      BY <1>1, <1>4 DEF CallsInv
    <3>3. \A q \in Scanners : told'[q] = told[q] \/ told'[q] = <<"init2", "shutdown">>
      BY <1>1, <2>3 DEF CallsInv
    <3>4. \A q \in Scanners : ~Called(q, "cleanup")'
      BY <3>1, <3>2, <3>3, CallsTold DEF Called
    <3>5. \A q \in enabled : told'[q] \in {<<"init2">>, <<"init2", "shutdown">>}
      BY <1>1, <1>2, <1>6, <3>3 DEF CallsInv
    <3>6. result' # "0"
      BY <1>1, <1>2, <1>3 DEF ReportInv
    <3>7. QED
      BY <1>3, <3>1, <3>4, <3>5, <3>6 DEF CallsInv
  <2>7. QED
    BY <1>1, <1>2, <1>3, <1>5, <2>1, <2>4, <2>5, <2>6, Reaches DEF PlaceInv
<1>9. QED
  BY <1>7, <1>8

LEMMA CleanupInv ==
  ASSUME NEW n \in Places, todo = Rest(n), PlaceInv(n), Cleanup
  PROVE  LifeInv'
<1>1. /\ WorkInv(n) /\ ReportInv(n) /\ PhaseInv(n) /\ CallsInv(n) /\ FaultsInv
      /\ CommandsInv /\ RecordersInv(n)
      /\ notifier \in {"none", "testing", "printing", "to_wait", "waiting", "woken", "ended"}
  BY DEF PlaceInv
<1>2. n \in {4, 10, 25} /\ Quiet
  BY <1>1, PlaceOf DEF Cleanup, WorkInv, Busy
<1>3. UNCHANGED <<result, startup, pool, writer, faults, notifier, enabled>>
  BY DEF Cleanup, startup, threads
<1>4. FaultsInv'
  BY <1>1, <1>3 DEF FaultsInv
<1>5. n \in {10, 25} => phase # "cleaned"
  BY <1>1 DEF PhaseInv
<1>6. CASE /\ Continue /\ told' = told /\ phase' = "cleaned"
           /\ \A s \in Scanners : Called(s, "cleanup")
  <2> DEFINE m == After(n)
  <2>1. todo' = Rest(m) /\ m \in Places
    BY <1>2, <1>6, DoingAt DEF Cleanup, Continue, Doing
  <2>2. m = (IF n = 4 THEN 3 ELSE IF n = 10 THEN 9 ELSE 8)
    BY <1>2 DEF After
  <2> HIDE DEF m
  <2>3. m \in {3, 8, 9} /\ (m = 9 => n = 10) /\ (m = 8 => n = 25)
    BY <1>2, <2>2
  <2>4. WorkInv(m)'
    BY <1>2, <1>3, <2>1, KeepsWork
  <2>5. CommandsInv' /\ RecordersInv(m)'
    BY <1>3, <1>6, <2>1, <2>3, KeepsStartup
  <2>6. ReportInv(m)'
    BY <1>1, <1>3, <2>3 DEF ReportInv, GivingUp
  <2>7. PhaseInv(m)'
    BY <1>6, <2>3 DEF PhaseInv
  <2>8. CallsInv(m)'
    <3>1. \A s \in Scanners : Called(s, "cleanup")'
      BY <1>6 DEF Called
    <3>2. m \in 9..11 \/ (result = "0" /\ writer # "none") =>
            \A s \in enabled : Called(s, "shutdown")
      BY <1>1, <2>3 DEF CallsInv
    <3>3. m \in 9..11 \/ (result' = "0" /\ writer' # "none") =>
            \A s \in enabled' : Called(s, "shutdown")'
      BY <1>3, <1>6, <3>2 DEF Called
    <3>4. told' \in [Scanners -> Sequences]
      BY <1>1, <1>6 DEF CallsInv
    <3>5. QED
      BY <1>6, <2>3, <3>1, <3>3, <3>4 DEF CallsInv
  <2>9. QED
    BY <1>1, <1>3, <1>4, <2>1, <2>4, <2>5, <2>6, <2>7, <2>8, Reaches DEF PlaceInv
<1>7. CASE /\ phase # "cleaned" /\ phase' = "cleanup" /\ todo' = todo
           /\ TellEach(Scanners, "cleanup")
  <2>1. PICK s \in Scanners :
          /\ ~Called(s, "cleanup")
          /\ told' = [told EXCEPT ![s] = Append(told[s], "cleanup")]
    BY <1>7 DEF TellEach, Tell
  <2>2. told \in [Scanners -> Sequences] /\ told[s] \in Sequences
    BY <1>1 DEF CallsInv
  <2>3. /\ Append(told[s], "cleanup") \in Sequences
        /\ Called(s, "shutdown") =>
             \E i \in DOMAIN Append(told[s], "cleanup") :
               Append(told[s], "cleanup")[i] = "shutdown"
    BY <2>1, <2>2, TellCleanup DEF Called
  <2>4. told' \in [Scanners -> Sequences] /\ told'[s] = Append(told[s], "cleanup")
    BY <2>1, <2>2, <2>3
  <2>5. \A q \in Scanners : q # s => told'[q] = told[q]
    BY <2>1, <2>2
  <2>6. \A q \in Scanners : Called(q, "shutdown") => Called(q, "shutdown")'
    BY <2>3, <2>4, <2>5 DEF Called
  <2>7. WorkInv(n)'
    BY <1>2, <1>3, KeepsWork
  <2>8. CommandsInv' /\ RecordersInv(n)'
    BY <1>2, <1>3, <1>7, KeepsStartup
  <2>9. ReportInv(n)' /\ PhaseInv(n)'
    BY <1>1, <1>2, <1>3, <1>7 DEF ReportInv, GivingUp, PhaseInv
  <2>10. CallsInv(n)'
    <3>1. enabled \subseteq Scanners
      BY <1>1 DEF CommandsInv
    <3>2. n \in 9..11 \/ (result' = "0" /\ writer' # "none") =>
            \A q \in enabled' : Called(q, "shutdown")'
      BY <1>1, <1>3, <2>6, <3>1 DEF CallsInv
    <3>3. QED
      BY <1>2, <1>7, <2>4, <3>2 DEF CallsInv
  <2>11. todo' = Rest(n)
    BY <1>7
  <2>12. QED
    BY <1>1, <1>3, <1>4, <2>7, <2>8, <2>9, <2>10, <2>11, Reaches DEF PlaceInv
<1>8. QED
  <2>1. CASE phase = "cleaned"
    BY <1>1, <1>6, <2>1 DEF Cleanup, CallsInv
  <2>2. CASE phase # "cleaned"
    BY <1>6, <1>7, <2>2 DEF Cleanup
  <2>3. QED
    BY <2>1, <2>2

LEMMA ReportEndInv ==
  ASSUME NEW n \in Places, todo = Rest(n), PlaceInv(n), LastReport \/ DeleteWriter
  PROVE  LifeInv'
<1>1. /\ WorkInv(n) /\ ReportInv(n) /\ PhaseInv(n) /\ CallsInv(n) /\ FaultsInv
      /\ CommandsInv /\ RecordersInv(n)
      /\ notifier \in {"none", "testing", "printing", "to_wait", "waiting", "woken", "ended"}
  BY DEF PlaceInv
<1>2. UNCHANGED <<startup, phase, told, pool, notifier, enabled>>
  BY DEF LastReport, DeleteWriter, startup, threads
<1>3. CASE LastReport
  <2>1. n = 9 /\ writer = "live"
    BY <1>1, <1>3, PlaceOf DEF LastReport, ReportInv
  <2>2. /\ todo' = Rest(8) /\ 8 \in Places
        /\ result' = "0" /\ writer' = writer /\ faults' = faults
    BY <1>3, <2>1, DoingAt DEF LastReport, Continue, Doing, After, Using
  <2>3. WorkInv(8)' /\ CommandsInv' /\ RecordersInv(8)'
    BY <1>1, <1>2, <2>1, <2>2, KeepsWork, KeepsStartup DEF WorkInv, Busy
  <2>4. ReportInv(8)' /\ PhaseInv(8)' /\ FaultsInv'
    BY <1>1, <1>2, <2>1, <2>2 DEF ReportInv, PhaseInv, GivingUp, FaultsInv
  <2>5. CallsInv(8)'
    BY <1>1, <1>2, <2>1, <2>2 DEF CallsInv, Called
  <2>6. QED
    BY <1>1, <1>2, <2>2, <2>3, <2>4, <2>5, Reaches DEF PlaceInv
<1>4. CASE DeleteWriter
  <2>1. n = 8 /\ writer = "live"
    BY <1>1, <1>4, PlaceOf DEF DeleteWriter, ReportInv
  <2>2. /\ todo' = Rest(7) /\ 7 \in Places
        /\ result' = result /\ writer' = "deleted" /\ faults' = faults
    BY <1>4, <2>1, DoingAt DEF DeleteWriter, Continue, Doing, After
  <2>3. WorkInv(7)' /\ CommandsInv' /\ RecordersInv(7)'
    BY <1>1, <1>2, <2>1, <2>2, KeepsWork, KeepsStartup DEF WorkInv, Busy
  <2>4. ReportInv(7)' /\ PhaseInv(7)' /\ FaultsInv'
    BY <1>1, <1>2, <2>1, <2>2 DEF ReportInv, PhaseInv, GivingUp, FaultsInv
  <2>5. CallsInv(7)'
    BY <1>1, <1>2, <2>1, <2>2 DEF CallsInv, Called
  <2>6. QED
    BY <1>1, <1>2, <2>2, <2>3, <2>4, <2>5, Reaches DEF PlaceInv
<1>5. QED
  BY <1>3, <1>4

(* The last of some commands is the new one.                               *)
LEMMA LastIsNew ==
  ASSUME NEW k \in Nat, NEW A \in SUBSET (1..k)
  PROVE  Max(A \union {k + 1}) = k + 1
<1> DEFINE P(x) == x \in A \union {k + 1} /\ \A y \in A \union {k + 1} : x >= y
<1>1. P(k + 1)
  OBVIOUS
<1>2. \A x : P(x) => x = k + 1
  OBVIOUS
<1>3. Max(A \union {k + 1}) = CHOOSE x \in A \union {k + 1} : \A y \in A \union {k + 1} : x >= y
  BY DEF Max
<1>4. P(Max(A \union {k + 1}))
  BY <1>1, <1>3
<1>5. QED
  BY <1>2, <1>4

LEMMA RestOfCommands ==
  ASSUME NEW S, NEW seq \in Seq(S), NEW k \in 0..Len(seq), SubSeq(seq, k + 1, Len(seq)) # <<>>
  PROVE  /\ k + 1 \in 1..Len(seq)
         /\ Head(SubSeq(seq, k + 1, Len(seq))) = seq[k + 1]
         /\ Tail(SubSeq(seq, k + 1, Len(seq))) = SubSeq(seq, (k + 1) + 1, Len(seq))
<1> DEFINE n == Len(seq)
           rest == SubSeq(seq, k + 1, n)
           next == SubSeq(seq, (k + 1) + 1, n)
<1>1. n \in Nat /\ k \in Nat
  OBVIOUS
<1>2. k + 1 \in 1..n
  <2>1. CASE k = n
    <3>1. rest = <<>>
      BY <1>1, <2>1, SubSeqProperties
    <3>2. QED
      BY <3>1
  <2>2. QED
    BY <1>1, <2>1
<1>3. /\ rest \in Seq(S) /\ Len(rest) = n - k
      /\ \A i \in 1..(n - k) : rest[i] = seq[k + i]
  BY <1>1, <1>2, SubSeqProperties
<1>4. Head(rest) = seq[k + 1]
  BY <1>1, <1>2, <1>3
<1>5. /\ Tail(rest) \in Seq(S) /\ Len(Tail(rest)) = n - k - 1
      /\ \A i \in 1..(n - k - 1) : Tail(rest)[i] = rest[i + 1]
  BY <1>1, <1>2, <1>3, HeadTailProperties
<1>6. /\ next \in Seq(S) /\ Len(next) = n - k - 1
      /\ \A i \in 1..(n - k - 1) : next[i] = seq[k + 1 + i]
  BY <1>1, <1>2, SubSeqProperties
<1>7. \A i \in 1..(n - k - 1) : Tail(rest)[i] = next[i]
  BY <1>1, <1>3, <1>5, <1>6
<1>8. Tail(rest) = next
  BY <1>5, <1>6, <1>7, SeqEqual
<1>9. QED
  BY <1>2, <1>4, <1>8

(* One more command is applied.                                            *)
LEMMA CommandApplied ==
  ASSUME NEW k \in 0..Len(given), EnabledBy(k), given \in Seq(AnyCommand),
         k + 1 \in 1..Len(given), given' = given,
         enabled' = Applied(given[k + 1])
  PROVE  EnabledBy(k + 1)'
<1> DEFINE Of(s, j) == {i \in 1..j : s \in Named(given[i].name)}
           c == given[k + 1]
<1>1. k \in Nat /\ 1..(k + 1) = 1..k \union {k + 1}
  OBVIOUS
<1>2. ASSUME NEW s \in Scanners
      PROVE  s \in enabled' <=>
               IF Of(s, k + 1) = {} THEN s \in Default ELSE given[Max(Of(s, k + 1))].on
  <2>1. s \in enabled <=> IF Of(s, k) = {} THEN s \in Default ELSE given[Max(Of(s, k))].on
    BY DEF EnabledBy
  <2>2. CASE s \in Named(c.name)
    <3>1. Of(s, k + 1) = Of(s, k) \union {k + 1} /\ Of(s, k) \in SUBSET (1..k)
      BY <1>1, <2>2
    <3>2. Max(Of(s, k + 1)) = k + 1
      BY <1>1, <3>1, LastIsNew
    <3>3. s \in enabled' <=> c.on
      BY <2>2 DEF Applied
    <3>4. QED
      BY <3>1, <3>2, <3>3
  <2>3. CASE s \notin Named(c.name)
    <3>1. Of(s, k + 1) = Of(s, k)
      BY <1>1, <2>3
    <3>2. s \in enabled' <=> s \in enabled
      BY <2>3 DEF Applied
    <3>3. QED
      BY <2>1, <3>1, <3>2
  <2>4. QED
    BY <2>2, <2>3
<1>3. QED
  BY <1>2 DEF EnabledBy, Named

LEMMA ApplyCommandInv ==
  ASSUME NEW n \in Places, todo = Rest(n), PlaceInv(n), ApplyCommand,
         UNCHANGED <<pool, writer, threads, faults>>
  PROVE  LifeInv'
<1>1. /\ WorkInv(n) /\ ReportInv(n) /\ PhaseInv(n) /\ CallsInv(n) /\ FaultsInv
      /\ CommandsInv /\ RecordersInv(n)
      /\ notifier \in {"none", "testing", "printing", "to_wait", "waiting", "woken", "ended"}
  BY DEF PlaceInv
<1>2. n = 24 /\ 24 \in Places
  BY PlaceOf DEF ApplyCommand, Places
<1>3. /\ enabled' = Applied(Head(commands)) /\ commands' = Tail(commands) /\ commands # <<>>
      /\ Head(commands).name \in Scanners \union {All}
      /\ UNCHANGED <<todo, result, given, unvisited, recorders, phase, told>>
      /\ UNCHANGED <<unread, queue, at, disk_errors, writer, notifier, faults>>
  BY DEF ApplyCommand, pool, threads
<1>4. Quiet /\ phase = "init" /\ writer = "none" /\ \A s \in Scanners : told[s] = <<>>
  BY <1>1, <1>2 DEF WorkInv, Busy, PhaseInv, ReportInv, CallsInv
<1>5. enabled' \subseteq Scanners
  BY <1>1, <1>3 DEF CommandsInv, Applied, Named
<1>6. CommandsInv'
  <2>1. PICK k \in 0..Len(given) : commands = SubSeq(given, k + 1, Len(given)) /\ EnabledBy(k)
    BY <1>1 DEF CommandsInv
  <2>2. given \in Seq(AnyCommand)
    BY <1>1 DEF CommandsInv
  <2>3. /\ k + 1 \in 1..Len(given) /\ Head(commands) = given[k + 1]
        /\ Tail(commands) = SubSeq(given, (k + 1) + 1, Len(given))
    BY <1>3, <2>1, <2>2, RestOfCommands
  <2>4. EnabledBy(k + 1)'
    BY <1>3, <2>1, <2>2, <2>3, CommandApplied
  <2>5. commands' = SubSeq(given', (k + 1) + 1, Len(given')) /\ k + 1 \in 0..Len(given')
    BY <1>3, <2>3
  <2>6. QED
    BY <1>3, <1>5, <2>2, <2>4, <2>5 DEF CommandsInv
<1>7. WorkInv(24)'
  BY <1>1, <1>3, <1>4 DEF WorkInv, Quiet
<1>8. ReportInv(24)' /\ PhaseInv(24)' /\ FaultsInv'
  BY <1>1, <1>2, <1>3 DEF ReportInv, PhaseInv, FaultsInv, GivingUp
<1>9. CallsInv(24)'
  BY <1>1, <1>2, <1>3, <1>4 DEF CallsInv, Called
<1>10. RecordersInv(24)'
  BY <1>1, <1>2, <1>3, <1>4 DEF RecordersInv
<1>11. todo' = Rest(24)
  BY <1>2, <1>3
<1>12. QED
  BY <1>1, <1>2, <1>3, <1>6, <1>7, <1>8, <1>9, <1>10, <1>11, Reaches DEF PlaceInv

LEMMA RecordersStep ==
  ASSUME NEW n \in Places, todo = Rest(n), PlaceInv(n),
         UNCHANGED <<pool, writer, threads, faults>>,
         CommandsApplied \/ RecordersCreated \/ \E s \in Scanners : CreateRecorders(s)
  PROVE  LifeInv'
<1>1. /\ WorkInv(n) /\ ReportInv(n) /\ PhaseInv(n) /\ CallsInv(n) /\ FaultsInv
      /\ CommandsInv /\ RecordersInv(n)
      /\ notifier \in {"none", "testing", "printing", "to_wait", "waiting", "woken", "ended"}
  BY DEF PlaceInv
<1>2. n \in 23..24
  <2>1. Doing("commands") \/ Doing("recorders")
    BY Zenon DEF CommandsApplied, RecordersCreated, CreateRecorders
  <2>2. QED
    BY <2>1, PlaceOf
<1>3. /\ UNCHANGED <<result, given, commands, enabled, told>>
      /\ UNCHANGED <<pool, writer, notifier, faults>>
  BY DEF CommandsApplied, RecordersCreated, CreateRecorders, startup, threads
<1>4. /\ Quiet /\ phase = "init" /\ writer = "none" /\ result = "running"
      /\ \A s \in Scanners : told[s] = <<>>
  BY <1>1, <1>2 DEF WorkInv, Busy, PhaseInv, ReportInv, CallsInv
<1>5. FaultsInv' /\ CommandsInv'
  BY <1>1, <1>3 DEF FaultsInv, CommandsInv, EnabledBy
<1>6. enabled \subseteq Scanners /\ unvisited \subseteq Scanners
  BY <1>1 DEF CommandsInv, RecordersInv
<1>7. ASSUME NEW m \in 22..23, todo' = Rest(m), RecordersInv(m)',
             phase' = (IF m = 22 THEN "init2" ELSE "init")
      PROVE  LifeInv'
  <2>1. m \in Places
    BY DEF Places
  <2>2. WorkInv(m)'
    BY <1>2, <1>3, <1>4, <2>1, KeepsWork
  <2>3. ReportInv(m)' /\ PhaseInv(m)'
    BY <1>1, <1>3, <1>4, <1>7 DEF ReportInv, PhaseInv, GivingUp
  <2>4. CallsInv(m)'
    BY <1>1, <1>3, <1>4, <1>7 DEF CallsInv, Called
  <2>5. QED
    BY <1>1, <1>3, <1>5, <1>7, <2>1, <2>2, <2>3, <2>4, Reaches DEF PlaceInv
<1>8. CASE CommandsApplied
  <2>1. n = 24
    BY <1>8, PlaceOf DEF CommandsApplied
  <2>2. todo' = Rest(23)
    BY <1>8, <2>1, DoingAt DEF CommandsApplied, Continue, Doing, After
  <2>3. /\ phase' = "init" /\ unvisited' = Scanners
        /\ recorders' = FirstRecorders
    BY <1>1, <1>4, <1>8, <2>1 DEF CommandsApplied, RecordersInv, FirstRecorders
  <2>4. Wanted(enabled \ Scanners) = {}
    BY <1>6 DEF Wanted
  <2>5. RecordersInv(23)'
    BY <1>3, <2>3, <2>4 DEF RecordersInv, FirstRecorders
  <2>6. QED
    BY <1>7, <2>2, <2>3, <2>5
<1>9. CASE RecordersCreated
  <2>1. n = 23
    BY <1>9, PlaceOf DEF RecordersCreated
  <2>2. todo' = Rest(22)
    BY <1>9, <2>1, DoingAt DEF RecordersCreated, Continue, Doing, After
  <2>3. phase' = "init2" /\ unvisited = {} /\ unvisited' = {} /\ recorders' = recorders
    BY <1>9 DEF RecordersCreated, startup
  <2>4. Wanted(enabled) \subseteq recorders
    <3>1. enabled \ {} = enabled
      OBVIOUS
    <3>2. QED
      BY <1>1, <2>1, <2>3, <3>1 DEF RecordersInv
  <2>5. RecordersInv(22)'
    BY <1>3, <2>3, <2>4 DEF RecordersInv
  <2>6. QED
    BY <1>7, <2>2, <2>3, <2>5
<1>10. ASSUME NEW s \in Scanners, CreateRecorders(s)
       PROVE  LifeInv'
  <2>1. n = 23
    BY <1>10, PlaceOf DEF CreateRecorders
  <2>2. todo' = Rest(23) /\ phase' = "init"
    BY <1>4, <1>10, <2>1 DEF CreateRecorders
  <2>3. recorders = FirstRecorders \union Wanted(enabled \ unvisited)
    BY <1>1, <2>1 DEF RecordersInv
  <2>4. /\ s \in unvisited /\ unvisited' = unvisited \ {s}
        /\ recorders' = IF s \in enabled THEN recorders \union Defs[s] ELSE recorders
    BY <1>10 DEF CreateRecorders
  <2>5. Wanted(enabled \ (unvisited \ {s})) =
          IF s \in enabled THEN Wanted(enabled \ unvisited) \union Defs[s]
          ELSE Wanted(enabled \ unvisited)
    <3>1. CASE s \in enabled
      <4>1. enabled \ (unvisited \ {s}) = (enabled \ unvisited) \union {s}
        BY <3>1
      <4>2. Wanted((enabled \ unvisited) \union {s}) = Wanted(enabled \ unvisited) \union Defs[s]
        BY DEF Wanted
      <4>3. QED
        BY <3>1, <4>1, <4>2
    <3>2. CASE s \notin enabled
      <4>1. enabled \ (unvisited \ {s}) = enabled \ unvisited
        BY <3>2
      <4>2. QED
        BY <3>2, <4>1
    <3>3. QED
      BY <3>1, <3>2
  <2>6. recorders' = FirstRecorders \union Wanted(enabled \ (unvisited \ {s}))
    BY <2>3, <2>4, <2>5
  <2>7. unvisited' \subseteq Scanners
    BY <1>6, <2>4
  <2>8. recorders' = FirstRecorders' \union Wanted(enabled \ unvisited)'
    BY <1>3, <2>4, <2>6 DEF Wanted, FirstRecorders
  <2>9. RecordersInv(23)'
    BY <2>2, <2>7, <2>8 DEF RecordersInv
  <2>10. QED
    BY <1>7, <2>2, <2>9
<1>11. QED
  BY <1>8, <1>9, <1>10

LEMMA InitStep ==
  ASSUME NEW n \in Places, todo = Rest(n), PlaceInv(n),
         UNCHANGED <<pool, writer, threads, faults>>,
         NEW s \in Scanners, InitScanner(s) \/ InitRefused(s)
  PROVE  LifeInv'
<1>1. /\ WorkInv(n) /\ ReportInv(n) /\ PhaseInv(n) /\ CallsInv(n) /\ FaultsInv
      /\ CommandsInv /\ RecordersInv(n)
      /\ notifier \in {"none", "testing", "printing", "to_wait", "waiting", "woken", "ended"}
  BY DEF PlaceInv
<1>2. n = 22 /\ 22 \in Places /\ 4 \in Places
  <2>1. Doing("init2")
    BY Zenon DEF InitScanner, InitRefused
  <2>2. QED
    BY <2>1, PlaceOf DEF Places
<1>3. /\ UNCHANGED <<startup, phase, enabled, pool, writer, notifier, faults>>
      /\ told[s] = <<>> /\ told' = [told EXCEPT ![s] = Append(@, "init2")]
  BY DEF InitScanner, InitRefused, startup, threads, Tell
<1>4. /\ Quiet /\ phase = "init2" /\ writer = "none"
      /\ \A q \in Scanners : told[q] \in {<<>>, <<"init2">>}
  BY <1>1, <1>2 DEF WorkInv, Busy, PhaseInv, ReportInv, CallsInv
<1>5. \A q \in Scanners : told'[q] \in {<<>>, <<"init2">>}
  <2>1. told' = [told EXCEPT ![s] = <<"init2">>]
    BY <1>3, AppendToShort
  <2>2. told \in [Scanners -> Sequences]
    BY <1>1 DEF CallsInv
  <2>3. QED
    BY <1>4, <2>1, <2>2
<1>6. told' \in [Scanners -> Sequences]
  <2>1. told \in [Scanners -> Sequences]
    BY <1>1 DEF CallsInv
  <2>2. DOMAIN told' = Scanners /\ told' = [q \in Scanners |-> told'[q]]
    BY <1>3, <2>1
  <2>3. QED
    BY <1>5, <2>2 DEF Sequences
<1>7. \A q \in Scanners : ~Called(q, "cleanup")'
  <2>1. \A q \in Scanners : told'[q] = <<>> \/ told'[q] = <<"init2">>
    BY <1>5
  <2>2. QED
    BY <1>6, <2>1, CallsTold DEF Called, Sequences
<1>8. FaultsInv' /\ CommandsInv'
  BY <1>1, <1>3 DEF FaultsInv, CommandsInv, EnabledBy, startup
<1>9. \A m \in {4, 22} : WorkInv(m)' /\ PhaseInv(m)' /\ RecordersInv(m)'
  <2>1. \A m \in {4, 22} : WorkInv(m)'
    BY <1>2, <1>3, <1>4, KeepsWork
  <2>2. \A m \in {4, 22} : PhaseInv(m)'
    BY <1>3, <1>4 DEF PhaseInv
  <2>3. \A m \in {4, 22} : RecordersInv(m)'
    BY <1>1, <1>2, <1>3, <1>4 DEF RecordersInv, startup
  <2>4. QED
    BY <2>1, <2>2, <2>3
<1>10. CASE InitScanner(s)
  <2>1. todo' = Rest(22) /\ result' = result
    BY <1>2, <1>10 DEF InitScanner
  <2>2. ReportInv(22)'
    BY <1>1, <1>2, <1>3, <2>1 DEF ReportInv, GivingUp
  <2>3. CallsInv(22)'
    BY <1>3, <1>4, <1>5, <1>6, <1>7 DEF CallsInv
  <2>4. QED
    BY <1>1, <1>2, <1>3, <1>8, <1>9, <2>1, <2>2, <2>3, Reaches DEF PlaceInv
<1>11. CASE InitRefused(s)
  <2>1. todo' = Rest(4) /\ result' = "1"
    BY <1>11, Unwinds DEF InitRefused, Leave
  <2>2. ReportInv(4)'
    BY <1>1, <1>3, <2>1 DEF ReportInv, GivingUp
  <2>3. CallsInv(4)'
    BY <1>3, <1>4, <1>6, <1>7, <2>1 DEF CallsInv
  <2>4. QED
    BY <1>1, <1>2, <1>3, <1>8, <1>9, <2>1, <2>2, <2>3, Reaches DEF PlaceInv
<1>12. QED
  BY <1>10, <1>11

(* The lists' recorders come last, and complete the recorders.             *)
LEMMA ListsInv ==
  ASSUME NEW n \in Places, todo = Rest(n), PlaceInv(n), CreateLists,
         UNCHANGED <<pool, writer, threads, faults>>
  PROVE  LifeInv'
<1>1. /\ WorkInv(n) /\ ReportInv(n) /\ PhaseInv(n) /\ CallsInv(n) /\ FaultsInv
      /\ CommandsInv /\ RecordersInv(n)
      /\ notifier \in {"none", "testing", "printing", "to_wait", "waiting", "woken", "ended"}
  BY DEF PlaceInv
<1>2. n = 21 /\ 20 \in Places /\ 4 \in Places
  BY PlaceOf DEF CreateLists, Places
<1> DEFINE S == recorders \union AlertLists
           R == S \union StopLists(S)
<1>3. UNCHANGED <<given, commands, enabled, unvisited, told, pool, writer, notifier, faults>>
  BY DEF CreateLists, threads
<1>4. Quiet /\ phase = "init2" /\ writer = "none" /\ result = "running"
  BY <1>1, <1>2 DEF WorkInv, Busy, PhaseInv, ReportInv
<1>5. FaultsInv' /\ CommandsInv'
  BY <1>1, <1>3 DEF FaultsInv, CommandsInv, EnabledBy
<1>6. \A m \in {4, 20} : WorkInv(m)'
  BY <1>2, <1>3, <1>4, KeepsWork
<1>7. CASE Consistent(R)
  <2>1. recorders' = R /\ phase' = "enabled" /\ Continue /\ UNCHANGED result
    BY <1>7 DEF CreateLists
  <2>2. todo' = Rest(20)
    BY <1>2, <2>1, DoingAt DEF CreateLists, Continue, Doing, After
  <2>3. \A s \in enabled : Defs[s] \subseteq R
    BY <1>1, <1>2 DEF RecordersInv, Wanted
  <2>4. ASSUME NEW r \in R
        PROVE  /\ StopList /\ ~r.no_stoplist => StoppedName(r.name) \in Names(R)
               /\ AlertList /\ ~r.no_alertlist => ALERT_LIST_RECORDER \in R
    <3>1. ASSUME StopList, ~r.no_stoplist
          PROVE  StoppedName(r.name) \in Names(R)
      <4>1. StopLists(S) = {Recorder(StoppedName(q.name), TRUE, TRUE) :
                              q \in {p \in S : ~p.no_stoplist}}
        BY <3>1, Zenon DEF StopLists
      <4>2. r \in S
        <5>1. ASSUME r \in StopLists(S) PROVE FALSE
          <6>1. PICK q \in S : r = Recorder(StoppedName(q.name), TRUE, TRUE)
            BY <4>1, <5>1, Zenon
          <6>2. r.no_stoplist = TRUE
            BY <6>1 DEF Recorder
          <6>3. QED
            BY <3>1, <6>2
        <5>2. QED
          BY <2>4, <5>1
      <4>3. Recorder(StoppedName(r.name), TRUE, TRUE) \in StopLists(S)
        BY <3>1, <4>1, <4>2, Zenon
      <4>4. Recorder(StoppedName(r.name), TRUE, TRUE).name = StoppedName(r.name)
        BY DEF Recorder
      <4>5. Recorder(StoppedName(r.name), TRUE, TRUE) \in R
        BY <4>3
      <4>6. QED
        BY <4>4, <4>5, Zenon DEF Names
    <3>2. ASSUME AlertList
          PROVE  ALERT_LIST_RECORDER \in R
      BY <3>2 DEF AlertLists
    <3>3. QED
      BY <3>1, <3>2
  <2>5. RecordersInv(20)'
    <3> HIDE DEF R, S
    <3>1. unvisited' \subseteq Scanners /\ enabled' = enabled
      BY <1>1, <1>3 DEF RecordersInv
    <3>2. /\ Consistent(recorders')
          /\ \A s \in enabled' : Defs[s] \subseteq recorders'
          /\ \A r \in recorders' :
               /\ StopList /\ ~r.no_stoplist => StoppedName(r.name) \in Names(recorders')
               /\ AlertList /\ ~r.no_alertlist => ALERT_LIST_RECORDER \in recorders'
      BY <1>7, <2>1, <2>3, <2>4, <3>1, Zenon
    <3>3. QED
      BY <3>1, <3>2 DEF RecordersInv
  <2>6. ReportInv(20)' /\ PhaseInv(20)'
    BY <1>1, <1>3, <1>4, <2>1 DEF ReportInv, PhaseInv, GivingUp
  <2>7. CallsInv(20)'
    BY <1>1, <1>2, <1>3, <1>4, <2>1 DEF CallsInv, Called, Ready
  <2>8. QED
    BY <1>1, <1>2, <1>3, <1>5, <1>6, <2>2, <2>5, <2>6, <2>7, Reaches DEF PlaceInv
<1>8. CASE ~Consistent(R)
  <2>1. result' = "1" /\ todo' = Rest(4) /\ UNCHANGED <<recorders, phase>>
    BY <1>8, Unwinds DEF CreateLists, Leave
  <2>2. RecordersInv(4)' /\ ReportInv(4)' /\ PhaseInv(4)'
    BY <1>1, <1>3, <1>4, <2>1 DEF RecordersInv, ReportInv, PhaseInv, GivingUp
  <2>3. CallsInv(4)'
    BY <1>1, <1>3, <1>4, <2>1 DEF CallsInv, Called
  <2>4. QED
    BY <1>1, <1>2, <1>3, <1>5, <1>6, <2>1, <2>2, <2>3, Reaches DEF PlaceInv
<1>9. QED
  BY <1>7, <1>8

-----------------------------------------------------------------------------
(* Together.                                                               *)

LEMMA StepLife == LifeInv /\ [Next]_vars => LifeInv'
<1> SUFFICES ASSUME LifeInv, [Next]_vars PROVE LifeInv'
  OBVIOUS
<1>1. PICK n \in Places : todo = Rest(n) /\ PlaceInv(n)
  BY DEF LifeInv
<1>2. CASE StartupNext /\ UNCHANGED <<pool, writer, threads, faults>>
  BY <1>1, <1>2, ApplyCommandInv, RecordersStep, InitStep, ListsInv, LeaveInv, ContinueInv
     DEF StartupNext
<1>3. CASE OpenForPrinting \/ Open \/ Freeze \/ \E s \in Scanners : PrintPath(s)
  BY <1>1, <1>3, OpenInv
<1>4. CASE ReadPage
  BY <1>1, <1>4, ReadInv
<1>5. CASE OpenFails \/ Launch \/ ReaderThrows \/ StopReading \/ Join \/ TimeOut
           \/ ShutdownFails
  BY <1>1, <1>5, LeaveInv
<1>6. CASE \/ Stop \/ Notify \/ JoinNotifier \/ RecordersShutdown \/ JoinWorkers
           \/ JoinBenchmark \/ End \/ EndOfImage
  BY <1>1, <1>6, ContinueInv
<1>7. CASE Shutdown \/ Cleanup \/ LastReport \/ DeleteWriter
  BY <1>1, <1>7, ShutdownInv, CleanupInv, ReportEndInv
<1>8. CASE \E w \in Workers : Worker(w)
  BY <1>1, <1>8, WorkerInv
<1>9. CASE Notifier \/ BenchmarkThread \/ UNCHANGED vars
  BY <1>1, <1>9, ThreadsInv
<1>10. QED
  BY <1>2, <1>3, <1>4, <1>5, <1>6, <1>7, <1>8, <1>9 DEF Next, Main, Done

(* Wherever main is in its program, the phase, the calls of the scanners,  *)
(* the report, the recorders and the workers are as that place has them    *)
(* (bulk_extractor.cpp:590-930, scanner_set.cpp:541-1173).                 *)
THEOREM LifeHolds == Spec => []LifeInv
<1>1. Init => LifeInv
  BY InitLife
<1>2. LifeInv /\ [Next]_vars => LifeInv'
  BY StepLife
<1>3. QED
  BY <1>1, <1>2, PTL DEF Spec

-----------------------------------------------------------------------------
(* What the invariant says of a run.                                       *)

LEMMA NothingGoneOf == LifeInv => NothingGone
<1> SUFFICES ASSUME NEW n \in Places, todo = Rest(n), PlaceInv(n) PROVE NothingGone
  BY DEF LifeInv
<1>1. /\ WorkInv(n) /\ ReportInv(n) /\ PhaseInv(n) /\ FaultsInv
      /\ CommandsInv /\ RecordersInv(n)
      /\ notifier \in {"none", "testing", "printing", "to_wait", "waiting", "woken", "ended"}
  BY DEF PlaceInv
<1>2. enabled \subseteq Scanners
  BY <1>1 DEF CommandsInv
<1>3. EnabledUnits \subseteq Units
  BY <1>2 DEF EnabledUnits, Units
<1>4. TypeOK
  <2>1. \A w \in Workers : at[w] = Idle \/ at[w] \in Units
                             \/ at[w] \in Pages \X Scanners \X {"scanning"}
    BY <1>1, <1>2, <1>3 DEF WorkInv
  <2>2. /\ unread \subseteq Pages /\ queue \subseteq Units
        /\ writer \in {"none", "live", "deleted"}
        /\ result \in {"running", "0", "1", "5", "6", "7", "8", "aborted"}
        /\ unvisited \subseteq Scanners
    BY <1>1, <1>3 DEF WorkInv, ReportInv, RecordersInv
  <2>3. phase \in {"init", "init2", "enabled", "scan", "shutdown", "cleanup", "cleaned"}
    BY <1>1 DEF PhaseInv
  <2>4. QED
    BY <1>1, <1>2, <2>1, <2>2, <2>3 DEF TypeOK
<1>5. ScannersReady
  <2> SUFFICES ASSUME NEW w \in Workers, Len(at[w]) = 3, todo # <<>>
               PROVE  Ready(at[w][2])
    BY DEF ScannersReady
  <2>1. PICK p \in Pages, s \in enabled : at[w] = <<p, s, "scanning">>
    BY <1>1, HeldShape
  <2>2. ~Quiet
    BY <2>1 DEF Quiet, Idle
  <2>3. n \in Busy
    BY <1>1, <2>2, DoingAt DEF WorkInv
  <2>4. QED
    BY <2>1, <2>3, AtWork
<1>6. QED
  BY <1>1, <1>4, <1>5 DEF NothingGone, FaultsInv

LEMMA CalledInOrderOf == LifeInv => CalledInOrder
<1> SUFFICES ASSUME NEW n \in Places, todo = Rest(n), PlaceInv(n) PROVE CalledInOrder
  BY DEF LifeInv
<1>1. PhaseInv(n) /\ CallsInv(n)
  BY DEF PlaceInv
<1>2. \A s \in Scanners : told[s] \in Sequences
  BY <1>1 DEF CallsInv
<1>3. ASSUME todo = <<>>, result \notin {"8", "aborted"}
      PROVE  \A s \in Scanners : Called(s, "cleanup")
  <2>1. n = 0
    BY <1>3, DoingAt
  <2>2. phase = "cleaned"
    BY <1>1, <1>3, <2>1 DEF PhaseInv
  <2>3. QED
    BY <1>1, <2>2 DEF CallsInv
<1>4. result = "0" /\ writer # "none" => \A s \in enabled : Called(s, "shutdown")
  BY <1>1 DEF CallsInv
<1>5. QED
  BY <1>2, <1>3, <1>4 DEF CalledInOrder, Sequences

(* Recorders that do not fit together: two of them do not.                 *)
LEMMA TwoDisagree ==
  ASSUME NEW V \in SUBSET enabled, NEW s \in enabled,
         ~Consistent(FirstRecorders \union Wanted(V) \union Defs[s])
  PROVE  \E q, r \in enabled : ~Consistent(FirstRecorders \union Defs[q] \union Defs[r])
<1>1. PICK a, b \in FirstRecorders \union Wanted(V) \union Defs[s] : a.name = b.name /\ a # b
  BY DEF Consistent
<1>2. ASSUME NEW a1 \in FirstRecorders \union Wanted(V) \union Defs[s]
      PROVE  \E q \in enabled : a1 \in FirstRecorders \union Defs[q]
  BY DEF Wanted
<1>3. PICK q \in enabled : a \in FirstRecorders \union Defs[q]
  BY <1>2
<1>4. PICK r \in enabled : b \in FirstRecorders \union Defs[r]
  BY <1>2
<1>5. ~Consistent(FirstRecorders \union Defs[q] \union Defs[r])
  BY <1>1, <1>3, <1>4 DEF Consistent
<1>6. QED
  BY <1>5

LEMMA StartupRightOf == LifeInv => StartupRight
<1> SUFFICES ASSUME NEW n \in Places, todo = Rest(n), PlaceInv(n) PROVE StartupRight
  BY DEF LifeInv
<1>1. CommandsInv /\ RecordersInv(n)
  BY DEF PlaceInv
<1>2. EnabledAsLastCommand
  <2> SUFFICES ASSUME commands = <<>> PROVE EnabledBy(Len(given)) /\ DOMAIN given = 1..Len(given)
    BY DEF EnabledAsLastCommand, EnabledBy
  <2>1. PICK k \in 0..Len(given) : commands = SubSeq(given, k + 1, Len(given)) /\ EnabledBy(k)
    BY <1>1 DEF CommandsInv
  <2>2. given \in Seq(AnyCommand)
    BY <1>1 DEF CommandsInv
  <2>3. ASSUME k # Len(given) PROVE FALSE
    <3>1. k + 1 \in 1..Len(given)
      BY <2>2, <2>3
    <3>2. Len(SubSeq(given, k + 1, Len(given))) = Len(given) - k
      BY <2>2, <3>1, SubSeqProperties
    <3>3. Len(SubSeq(given, k + 1, Len(given))) = 0
      <4>1. Len(<<>>) = 0
        OBVIOUS
      <4>2. SubSeq(given, k + 1, Len(given)) = <<>>
        BY <2>1
      <4>3. QED
        BY <4>1, <4>2, Zenon
    <3>4. Len(given) \in Nat /\ k \in Nat
      BY <2>2
    <3>5. Len(given) - k = 0
      BY <3>2, <3>3, Zenon
    <3>6. QED
      BY <2>3, <3>4, <3>5
  <2>4. QED
    BY <2>1, <2>2, <2>3
<1>3. RecordersComplete
  BY <1>1 DEF RecordersInv, RecordersComplete
<1>4. FailsForAReason
  <2> SUFFICES ASSUME Doing("recorders"), NEW s \in unvisited, ~Visitable(s)
               PROVE  \E q, r \in enabled :
                        ~Consistent(FirstRecorders \union Defs[q] \union Defs[r])
                          \/ ~(Histograms[s] \subseteq Names(Defs[s]))
    BY DEF FailsForAReason
  <2>1. recorders = FirstRecorders \union Wanted(enabled \ unvisited)
    BY <1>1, PlaceOf DEF RecordersInv
  <2>2. /\ s \in enabled
        /\ \/ ~Consistent(recorders \union Defs[s])
           \/ ~(Histograms[s] \subseteq Names(recorders \union Defs[s]))
    BY DEF Visitable
  <2>3. CASE ~Consistent(recorders \union Defs[s])
    <3>1. \E q, r \in enabled : ~Consistent(FirstRecorders \union Defs[q] \union Defs[r])
      BY <2>1, <2>2, <2>3, TwoDisagree
    <3>2. QED
      BY <3>1
  <2>4. CASE ~(Histograms[s] \subseteq Names(recorders \union Defs[s]))
    <3>1. Names(Defs[s]) \subseteq Names(recorders \union Defs[s])
      BY DEF Names
    <3>2. QED
      BY <2>2, <2>4, <3>1
  <2>5. QED
    BY <2>2, <2>3, <2>4
<1>5. QED
  BY <1>2, <1>3, <1>4 DEF StartupRight

(* No worker and not main uses the report after main deleted it, no        *)
(* scanner is run that is not ready, and no page is started outside the    *)
(* scan phase (bulk_extractor.cpp:724, 871, scanner_set.cpp:977).          *)
THEOREM NothingGoneHolds == Spec => []NothingGone
BY LifeHolds, NothingGoneOf, PTL

(* Each scanner that was loaded is initialised, told to shut down and      *)
(* cleaned up in this order and at most once each, and cleaned up however  *)
(* main is left (scanner_set.cpp:1134-1173).                               *)
THEOREM CalledInOrderHolds == Spec => []CalledInOrder
BY LifeHolds, CalledInOrderOf, PTL

(* The scanners enabled are those of the last command about each, the      *)
(* recorders are complete when scanning begins, and start-up fails over    *)
(* recorders for a reason that no order of visiting changes                *)
(* (scanner_set.cpp:541-601, feature_recorder_set.cpp:176-185).            *)
THEOREM StartupRightHolds == Spec => []StartupRight
BY LifeHolds, StartupRightOf, PTL

=============================================================================
