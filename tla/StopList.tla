------------------------------ MODULE StopList ------------------------------
(***************************************************************************)
(* Stop and alert lists: be20_api/word_and_context_list.{cpp,h}.  main     *)
(* reads the file line by line before the scan; during the scan the        *)
(* recorders ask whether a feature in its context is listed.               *)
(*                                                                         *)
(* A string is a sequence of characters, a regular expression the set of   *)
(* the features it matches a part of.  Comments and empty lines, which     *)
(* change nothing, are left out.                                           *)
(***************************************************************************)
EXTENDS Integers, Sequences, FiniteSets, SequencesExt

CONSTANTS
  Texts,      \* what was scanned to make the list, and what is scanned with it
  Lengths,    \* the lengths of features
  Windows,    \* the context windows of the runs
  Patterns,   \* the regular expressions
  MaxLines    \* bound: the lines of the file

ASSUME TextsAssumption == \A text \in Texts : text \in Seq(Nat)
ASSUME SizesAssumption ==
  Lengths \subseteq Nat \ {0} /\ Windows \subseteq Nat /\ MaxLines \in Nat

VARIABLES
  fcmap,       \* the entries: [feature, before, after]
  context_set, \* the contexts that were seen
  patterns,    \* the regular expressions
  read         \* history: the lines that were read

vars == <<fcmap, context_set, patterns, read>>

Greater(m, n) == IF m < n THEN n ELSE m
Smaller(m, n) == IF m < n THEN m ELSE n

-----------------------------------------------------------------------------
(* Features in their context, as write_buf makes them.                     *)

Places ==
  UNION {{p \in [text : {text}, pos : 0..Len(text), length : Lengths] :
            p.pos + p.length <= Len(text)} : text \in Texts}
Feature(p) == SubSeq(p.text, p.pos + 1, p.pos + p.length)
Context(p, window) ==
  SubSeq(p.text, Greater(1, p.pos + 1 - window),
         Smaller(Len(p.text), p.pos + p.length + window))

(* The lines of a stop list: of a feature file with contexts or without,   *)
(* and of a list of words.                                                 *)
FeatureLines ==
  {[kind |-> "context", feature |-> Feature(p), context |-> Context(p, window)] :
     p \in Places, window \in Windows}
BareLines ==
  [kind : {"tab", "word"}, feature : {Feature(p) : p \in Places}, context : {<<>>}]

-----------------------------------------------------------------------------
(* Reading.                                                                *)

(* extract_before_after: the first occurrence, the last possible one       *)
(* excepted; nothing before and after without one.                         *)
Extracted(feature, context) ==
  LET found == {i \in 0..(Len(context) - Len(feature) - 1) :
                  SubSeq(context, i + 1, i + Len(feature)) = feature}
  IN IF found = {} THEN [feature |-> feature, before |-> <<>>, after |-> <<>>]
     ELSE LET i == CHOOSE i \in found : \A j \in found : i <= j IN
       [feature |-> feature, before |-> SubSeq(context, 1, i),
        after |-> SubSeq(context, i + Len(feature) + 1, Len(context))]

Init ==
  /\ fcmap = {}
  /\ context_set = {}
  /\ patterns = {}
  /\ read = {}

(* Mutant of AlreadyPresent: the empty context counts.                     *)
AlreadyPresentEmpty(context) == context \in context_set
AlreadyPresent(context) == context # <<>> /\ context \in context_set

(* Mutant of AddFc: one context for a feature.                             *)
AddFcOnce(feature, context) ==
  IF \E entry \in fcmap : entry.feature = feature THEN UNCHANGED <<fcmap, context_set>>
  ELSE /\ context_set' = context_set \union {context}
       /\ fcmap' = fcmap \union {Extracted(feature, context)}
AddFc(feature, context) ==
  IF AlreadyPresent(context) THEN UNCHANGED <<fcmap, context_set>>
  ELSE /\ context_set' = context_set \union {context}
       /\ fcmap' = fcmap \union {Extracted(feature, context)}

(* A line with one tab or more.                                            *)
ReadFeatureLine(line) ==
  /\ line.kind \in {"context", "tab"}
  /\ AddFc(line.feature, line.context)
  /\ UNCHANGED patterns
ReadWord(line) ==
  /\ line.kind = "word"
  /\ fcmap' = fcmap \union {[feature |-> line.feature, before |-> <<>>, after |-> <<>>]}
  /\ UNCHANGED <<context_set, patterns>>
ReadLine(line) ==
  /\ Cardinality(read) < MaxLines
  /\ read' = read \union {line}
  /\ ReadFeatureLine(line) \/ ReadWord(line)
ReadRegex(pattern) ==
  /\ Cardinality(read) < MaxLines
  /\ read' = read \union {[kind |-> "regex", features |-> pattern]}
  /\ patterns' = patterns \union {pattern}
  /\ UNCHANGED <<fcmap, context_set>>

Next ==
  \/ \E line \in FeatureLines \union BareLines : ReadLine(line)
  \/ \E pattern \in Patterns : ReadRegex(pattern)

Spec == Init /\ [][Next]_vars

-----------------------------------------------------------------------------
(* Asking.                                                                 *)

(* Right-aligned, over the shorter of the two.                             *)
rstrcmp(a, b) == IsSuffix(a, b) \/ IsSuffix(b, a)

(* Mutant of Listed: what follows the feature is not looked at.            *)
ListedBefore(probe) ==
  \E entry \in fcmap :
    entry.feature = probe.feature /\ rstrcmp(entry.before, probe.before)
Listed(probe) ==
  \E entry \in fcmap :
    /\ entry.feature = probe.feature
    /\ rstrcmp(entry.before, probe.before) /\ rstrcmp(entry.after, probe.after)
check(probe) == Listed(probe) \/ \E pattern \in patterns : probe.feature \in pattern
check_feature_context(feature, context) == check(Extracted(feature, context))

Stopped(p, window) == check_feature_context(Feature(p), Context(p, window))

-----------------------------------------------------------------------------
(* Properties.                                                             *)

Kind(kind) == {line \in read : line.kind = kind}
Same(line, other) == other.context = line.context /\ other.feature # line.feature
Bare(feature) ==
  \/ \E line \in Kind("tab") \union Kind("word") : line.feature = feature
  \/ \E line \in Kind("regex") : feature \in line.features
(* The feature occurs once in the context, with something behind it.       *)
Clear(feature, context) ==
  LET at == {i \in 0..(Len(context) - Len(feature)) :
               SubSeq(context, i + 1, i + Len(feature)) = feature}
  IN Cardinality(at) = 1 /\ Len(context) - Len(feature) \notin at
Before(p, n) == SubSeq(p.text, p.pos + 1 - n, p.pos)
After(p, n) == SubSeq(p.text, p.pos + p.length + 1, p.pos + p.length + n)
Inside(p, window) == window <= p.pos /\ p.pos + p.length + window <= Len(p.text)
Judged(p, window) == Inside(p, window) /\ Clear(Feature(p), Context(p, window))

(* A feature in its context that stands in the file is stopped when it is  *)
(* met again with this window, unless another feature with the very same   *)
(* context stands there too.                                               *)
LinesAreStopped ==
  \A line \in Kind("context") :
    \/ check_feature_context(line.feature, line.context)
    \/ \E other \in Kind("context") : Same(line, other)

(* A word, a feature without context or a regular expression stops its     *)
(* features in every context, whatever else is in the file.                *)
BareLinesStop ==
  \A p \in Places, window \in Windows : Bare(Feature(p)) => Stopped(p, window)

(* A feature that is listed with contexts only is stopped only where the   *)
(* text before it is that of a line, over the smaller of the two windows,  *)
(* and, if the windows are the same, the text behind it too.  This is for  *)
(* features clear of the ends of their context that occur once in it.      *)
ContextDecides ==
  \A p \in Places, window \in Windows :
    /\ Judged(p, window) /\ ~Bare(Feature(p)) /\ Stopped(p, window)
    /\ \A line \in Kind("context") :
         line.feature = Feature(p) => \E q \in Places, w \in Windows :
           /\ Judged(q, w) /\ Feature(q) = Feature(p)
           /\ Context(q, w) = line.context
    => \E q \in Places, w \in Windows :
         /\ Feature(q) = Feature(p) /\ Judged(q, w)
         /\ \E line \in Kind("context") :
              line.feature = Feature(p) /\ line.context = Context(q, w)
         /\ LET n == Smaller(w, window) IN
              /\ Before(p, n) = Before(q, n)
              /\ w = window => After(p, w) = After(q, w)

=============================================================================
