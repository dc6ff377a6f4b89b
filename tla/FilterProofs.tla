---------------------------- MODULE FilterProofs ----------------------------
(***************************************************************************)
(* Proofs about what decides which features are reported, on inputs of     *)
(* every kind and length: the stop list (StopList), the words of a         *)
(* wordlist run (Wordlist, as W) and the tests of a card number            *)
(* (CardNumbers, as C), each by itself and as one of Filters.              *)
(***************************************************************************)
EXTENDS Filters, SequenceTheorems, FiniteSetTheorems, WellFoundedInduction, TLAPS

Strings == Seq(Nat)

Plain(feature) == [feature |-> feature, before |-> <<>>, after |-> <<>>]

(* Every line has left its entry, unless its context was there already;    *)
(* what is there has the entry of some line.                               *)
LinesTyped ==
  \A line \in Kind("context") : line.feature \in Strings /\ line.context \in Strings
LinesEntered ==
  \A line \in Kind("context") :
    \/ Extracted(line.feature, line.context) \in fcmap
    \/ \E other \in Kind("context") : Same(line, other)
ContextsEntered ==
  \A context \in context_set :
    context # <<>> =>
      \E line \in Kind("context") :
        line.context = context /\ Extracted(line.feature, context) \in fcmap
BareEntered ==
  /\ \A line \in Kind("tab") \union Kind("word") : Plain(line.feature) \in fcmap
  /\ \A line \in Kind("regex") : line.features \in patterns
EntriesOfLines ==
  /\ \A entry \in fcmap :
       \/ \E line \in Kind("context") : entry = Extracted(line.feature, line.context)
       \/ \E line \in Kind("tab") \union Kind("word") : entry.feature = line.feature
  /\ \A pattern \in patterns : \E line \in Kind("regex") : line.features = pattern
ListInv == /\ LinesTyped /\ LinesEntered /\ ContextsEntered /\ BareEntered
           /\ EntriesOfLines

-----------------------------------------------------------------------------
(* Strings.                                                                *)

LEMMA Reversed ==
  ASSUME NEW s \in Strings
  PROVE  Reverse(s) \in Strings /\ Len(Reverse(s)) = Len(s)
BY DEF Reverse, Strings

LEMMA AlignedWithItself ==
  ASSUME NEW s \in Strings
  PROVE  rstrcmp(s, s)
<1>1. Len(Reverse(s)) \in Nat
  BY Reversed DEF Strings
<1> QED
  BY <1>1 DEF rstrcmp, IsSuffix, IsPrefix

LEMMA Part ==
  ASSUME NEW s \in Strings, NEW m \in Int, NEW n \in Int, 1 <= m, n <= Len(s)
  PROVE  SubSeq(s, m, n) \in Strings /\ (n < m => SubSeq(s, m, n) = <<>>)
<1>1. Len(s) \in Nat /\ \A k \in 1..Len(s) : s[k] \in Nat
  BY DEF Strings
<1>2. \A k \in m..n : s[k] \in Nat
  BY <1>1
<1>3. SubSeq(s, m, n) \in Seq(Nat)
  BY <1>2, SubSeqProperties
<1>4. n < m => SubSeq(s, m, n) = <<>>
  BY SubSeqEmpty
<1> QED
  BY <1>3, <1>4 DEF Strings

LEMMA AlignedWithNothing ==
  ASSUME NEW s \in Strings
  PROVE  rstrcmp(<<>>, s)
<1> DEFINE none == Reverse(<<>>)
           all == Reverse(s)
<1>1. <<>> \in Strings /\ Len(<<>>) = 0
  BY DEF Strings
<1>2. none \in Strings /\ Len(none) = 0 /\ all \in Strings /\ Len(all) = Len(s)
  BY <1>1, Reversed
<1> HIDE DEF none, all
<1>3. Len(all) \in Nat
  BY <1>2 DEF Strings
<1>4. SubSeq(none, 1, 0) = <<>> /\ SubSeq(all, 1, 0) = <<>>
  BY SubSeqEmpty
<1>5. Len(none) <= Len(all) /\ SubSeq(none, 1, Len(none)) = SubSeq(all, 1, Len(none))
  BY <1>2, <1>3, <1>4
<1>6. IsPrefix(none, all)
  BY <1>5 DEF IsPrefix
<1> QED
  BY <1>6 DEF rstrcmp, IsSuffix, none, all

LEMMA PlaceTyped ==
  ASSUME NEW p \in Places
  PROVE  /\ p.text \in Strings /\ p.pos \in Nat /\ p.length \in Nat \ {0}
         /\ p.pos + p.length <= Len(p.text) /\ Len(p.text) \in Nat
<1>1. PICK text \in Texts :
        p \in {q \in [text : {text}, pos : 0..Len(text), length : Lengths] :
                 q.pos + q.length <= Len(text)}
  BY DEF Places
<1>2. p.text = text /\ p.pos \in 0..Len(text) /\ p.length \in Lengths
  BY <1>1
<1>3. p.pos + p.length <= Len(text)
  BY <1>1
<1>4. text \in Strings /\ Lengths \subseteq Nat \ {0}
  BY TextsAssumption, SizesAssumption DEF Strings
<1>5. Len(text) \in Nat
  BY <1>4 DEF Strings
<1>6. p.text \in Strings /\ Len(p.text) \in Nat /\ p.pos + p.length <= Len(p.text)
  BY <1>2, <1>3, <1>4, <1>5
<1>7. p.pos \in Nat
  BY <1>2, <1>5
<1>8. p.length \in Nat \ {0}
  BY <1>2, <1>4
<1> QED
  BY <1>6, <1>7, <1>8

LEMMA FeatureTyped ==
  ASSUME NEW p \in Places
  PROVE  Feature(p) \in Strings
<1> DEFINE first == p.pos + 1
           last == p.pos + p.length
<1>1. p.text \in Strings /\ first \in Int /\ last \in Int /\ 1 <= first /\ last <= Len(p.text)
  BY PlaceTyped
<1> HIDE DEF first, last
<1>2. SubSeq(p.text, first, last) \in Strings
  BY <1>1, Part
<1> QED
  BY <1>2 DEF Feature, first, last

LEMMA ContextTyped ==
  ASSUME NEW p \in Places, NEW window \in Windows
  PROVE  Context(p, window) \in Strings
<1> DEFINE before == p.pos + 1 - window
           behind == p.pos + p.length + window
           first == Greater(1, before)
           last == Smaller(Len(p.text), behind)
<1>1. /\ p.text \in Strings /\ Len(p.text) \in Int
      /\ before \in Int /\ behind \in Int
  BY PlaceTyped, SizesAssumption
<1> HIDE DEF before, behind
<1>2. first \in Int /\ last \in Int /\ 1 <= first /\ last <= Len(p.text)
  BY <1>1 DEF Greater, Smaller
<1> HIDE DEF first, last
<1>3. SubSeq(p.text, first, last) \in Strings
  BY <1>1, <1>2, Part
<1> QED
  BY <1>3 DEF Context, first, last, before, behind

LEMMA Smallest ==
  ASSUME NEW T, T \subseteq Nat, T # {}
  PROVE  \E m \in T : \A n \in T : m <= n
<1> DEFINE less == {pair \in Nat \X Nat : pair[1] < pair[2]}
<1>1. less = OpToRel(<, Nat)
  BY DEF OpToRel
<1>2. IsWellFoundedOn(less, Nat)
  BY <1>1, NatLessThanWellFounded
<1>3. PICK m \in T : \A n \in T : ~ (<<n, m>> \in less)
  <2> HIDE DEF less
  <2> QED
    BY <1>2, WFMin
<1>4. ASSUME NEW n \in T PROVE m <= n
  <2>1. m \in Nat /\ n \in Nat /\ <<n, m>> \notin less
    BY <1>3
  <2>2. ~ (n < m)
    BY <2>1
  <2> QED
    BY <2>1, <2>2
<1> QED
  BY <1>4

(* An entry is made of the feature and of parts of the context.            *)
LEMMA ExtractedTyped ==
  ASSUME NEW feature \in Strings, NEW context \in Strings
  PROVE  /\ Extracted(feature, context).feature = feature
         /\ Extracted(feature, context).before \in Strings
         /\ Extracted(feature, context).after \in Strings
<1> DEFINE found == {i \in 0..(Len(context) - Len(feature) - 1) :
                       SubSeq(context, i + 1, i + Len(feature)) = feature}
           at == CHOOSE i \in found : \A j \in found : i <= j
           before == SubSeq(context, 1, at)
           after == SubSeq(context, at + Len(feature) + 1, Len(context))
<1>1. CASE found = {}
  <2>1. Extracted(feature, context) = Plain(feature)
    BY <1>1 DEF Extracted, Plain
  <2>2. <<>> \in Strings
    BY DEF Strings
  <2> QED
    BY <2>1, <2>2 DEF Plain
<1>2. CASE found # {}
  <2>1. Len(context) \in Nat /\ Len(feature) \in Nat
    BY DEF Strings
  <2>2. found \subseteq 0..(Len(context) - Len(feature) - 1)
    OBVIOUS
  <2>3. Extracted(feature, context) = [feature |-> feature, before |-> before, after |-> after]
    BY <1>2 DEF Extracted
  <2>4. \E i \in found : \A j \in found : i <= j
    <3> HIDE DEF found
    <3>1. found \subseteq Nat
      BY <2>1, <2>2
    <3> QED
      BY <1>2, <3>1, Smallest
  <2>5. at \in found
    <3> HIDE DEF found
    <3> QED
      BY <2>4
  <2> HIDE DEF found, at
  <2>6. at \in Int /\ at <= Len(context) /\ 1 <= at + Len(feature) + 1
    BY <2>1, <2>2, <2>5
  <2>7. before \in Strings
    BY <2>1, <2>6, Part
  <2>8. after \in Strings
    <3> DEFINE first == at + Len(feature) + 1
    <3>1. first \in Int /\ 1 <= first /\ Len(context) \in Int /\ Len(context) <= Len(context)
      BY <2>1, <2>6
    <3> HIDE DEF first
    <3>2. SubSeq(context, first, Len(context)) \in Strings
      BY <3>1, Part
    <3> QED
      BY <3>2 DEF first
  <2> HIDE DEF before, after
  <2> QED
    BY <2>3, <2>7, <2>8
<1> QED
  BY <1>1, <1>2

LEMMA NothingExtracted ==
  ASSUME NEW feature \in Strings
  PROVE  Extracted(feature, <<>>) = Plain(feature)
<1>1. Len(feature) \in Nat /\ Len(<<>>) = 0
  BY DEF Strings
<1>2. 0..(Len(<<>>) - Len(feature) - 1) = {}
  BY <1>1
<1> QED
  BY <1>2 DEF Extracted, Plain

-----------------------------------------------------------------------------
(* The invariant.                                                          *)

LEMMA ListInit == Init => ListInv
BY DEF Init, ListInv, LinesTyped, LinesEntered, ContextsEntered, BareEntered,
       EntriesOfLines, Kind

(* What a line of each kind adds to the lines of that kind.                *)
LEMMA KindGrows ==
  ASSUME NEW line, NEW kind, read' = read \union {line}
  PROVE  Kind(kind)' = IF line.kind = kind THEN Kind(kind) \union {line} ELSE Kind(kind)
BY DEF Kind

LEMMA StepContext ==
  ASSUME ListInv, NEW line \in FeatureLines, ReadLine(line)
  PROVE  ListInv'
<1>1. PICK p \in Places, window \in Windows :
        line = [kind |-> "context", feature |-> Feature(p), context |-> Context(p, window)]
  BY DEF FeatureLines
<1>2. line.kind = "context" /\ line.feature \in Strings /\ line.context \in Strings
  BY <1>1, FeatureTyped, ContextTyped
<1>3. /\ read' = read \union {line} /\ patterns' = patterns
      /\ AddFc(line.feature, line.context)
  BY <1>2 DEF ReadLine, ReadFeatureLine, ReadWord
<1>4. /\ Kind("context")' = Kind("context") \union {line}
      /\ Kind("tab")' = Kind("tab") /\ Kind("word")' = Kind("word")
      /\ Kind("regex")' = Kind("regex")
  BY <1>2, <1>3, KindGrows
<1>5. LinesTyped'
  BY <1>2, <1>4 DEF ListInv, LinesTyped
<1>6. CASE AlreadyPresent(line.context)
  <2>1. fcmap' = fcmap /\ context_set' = context_set
    BY <1>3, <1>6 DEF AddFc
  <2>2. PICK other \in Kind("context") :
          other.context = line.context /\ Extracted(other.feature, line.context) \in fcmap
    BY <1>6 DEF AlreadyPresent, ListInv, ContextsEntered
  <2>3. \/ Extracted(line.feature, line.context) \in fcmap
        \/ Same(line, other)
    BY <2>2 DEF Same
  <2>4. LinesEntered'
    BY <1>4, <2>1, <2>2, <2>3 DEF ListInv, LinesEntered, Same
  <2>5. ContextsEntered'
    BY <1>4, <2>1 DEF ListInv, ContextsEntered
  <2>6. BareEntered' /\ EntriesOfLines'
    BY <1>3, <1>4, <2>1 DEF ListInv, BareEntered, EntriesOfLines
  <2> QED
    BY <1>5, <2>4, <2>5, <2>6 DEF ListInv
<1>7. CASE ~AlreadyPresent(line.context)
  <2>1. /\ fcmap' = fcmap \union {Extracted(line.feature, line.context)}
        /\ context_set' = context_set \union {line.context}
    BY <1>3, <1>7 DEF AddFc
  <2>2. LinesEntered'
    BY <1>4, <2>1 DEF ListInv, LinesEntered, Same
  <2>3. ContextsEntered'
    BY <1>4, <2>1 DEF ListInv, ContextsEntered
  <2>4. BareEntered' /\ EntriesOfLines'
    BY <1>3, <1>4, <2>1 DEF ListInv, BareEntered, EntriesOfLines
  <2> QED
    BY <1>5, <2>2, <2>3, <2>4 DEF ListInv
<1> QED
  BY <1>6, <1>7

LEMMA StepBare ==
  ASSUME ListInv, NEW line \in BareLines, ReadLine(line)
  PROVE  ListInv'
<1>1. line.kind \in {"tab", "word"} /\ line.feature \in Strings /\ line.context = <<>>
  BY FeatureTyped DEF BareLines
<1>2. read' = read \union {line} /\ patterns' = patterns
  BY <1>1 DEF ReadLine, ReadFeatureLine, ReadWord
<1>3. /\ Kind("context")' = Kind("context") /\ Kind("regex")' = Kind("regex")
      /\ Kind("tab")' \union Kind("word")' = Kind("tab") \union Kind("word") \union {line}
  BY <1>1, <1>2, KindGrows
<1>4. /\ fcmap' = fcmap \union {Plain(line.feature)}
      /\ context_set' \subseteq context_set \union {<<>>}
  <2>1. CASE line.kind = "tab"
    <3>1. AddFc(line.feature, line.context)
      BY <2>1 DEF ReadLine, ReadFeatureLine, ReadWord
    <3>2. ~AlreadyPresent(line.context)
      BY <1>1 DEF AlreadyPresent
    <3> QED
      BY <1>1, <3>1, <3>2, NothingExtracted DEF AddFc
  <2>2. CASE line.kind = "word"
    BY <2>2 DEF ReadLine, ReadFeatureLine, ReadWord, Plain
  <2> QED
    BY <1>1, <2>1, <2>2
<1>5. LinesTyped' /\ LinesEntered' /\ ContextsEntered'
  BY <1>3, <1>4 DEF ListInv, LinesTyped, LinesEntered, ContextsEntered, Same
<1>6. BareEntered'
  BY <1>2, <1>3, <1>4 DEF ListInv, BareEntered
<1>7. EntriesOfLines'
  <2>1. Plain(line.feature).feature = line.feature
    BY DEF Plain
  <2> QED
    BY <1>2, <1>3, <1>4, <2>1 DEF ListInv, EntriesOfLines
<1> QED
  BY <1>5, <1>6, <1>7 DEF ListInv

LEMMA StepRegex ==
  ASSUME ListInv, NEW pattern \in Patterns, ReadRegex(pattern)
  PROVE  ListInv'
<1> DEFINE line == [kind |-> "regex", features |-> pattern]
<1>1. /\ read' = read \union {line} /\ patterns' = patterns \union {pattern}
      /\ fcmap' = fcmap /\ context_set' = context_set
  BY DEF ReadRegex
<1>2. line.kind = "regex" /\ line.features = pattern
  OBVIOUS
<1> HIDE DEF line
<1>3. /\ Kind("context")' = Kind("context") /\ Kind("tab")' = Kind("tab")
      /\ Kind("word")' = Kind("word") /\ Kind("regex")' = Kind("regex") \union {line}
  BY <1>1, <1>2, KindGrows
<1> QED
  BY <1>1, <1>2, <1>3
     DEF ListInv, LinesTyped, LinesEntered, ContextsEntered, BareEntered, EntriesOfLines, Same

LEMMA ListStep == ListInv /\ [Next]_vars => ListInv'
<1> SUFFICES ASSUME ListInv, [Next]_vars PROVE ListInv'
  OBVIOUS
<1>1. CASE \E line \in FeatureLines : ReadLine(line)
  BY <1>1, StepContext
<1>2. CASE \E line \in BareLines : ReadLine(line)
  BY <1>2, StepBare
<1>3. CASE \E pattern \in Patterns : ReadRegex(pattern)
  BY <1>3, StepRegex
<1>4. CASE UNCHANGED vars
  BY <1>4 DEF vars, ListInv, LinesTyped, LinesEntered, ContextsEntered, BareEntered,
              EntriesOfLines, Kind, Same
<1> QED
  BY <1>1, <1>2, <1>3, <1>4 DEF Next

(* What is read leaves its entry, whatever the file holds and in whatever  *)
(* order: add_fc, add_regex and readfile.                                  *)
THEOREM ListInvariant == Spec => []ListInv
<1> QED
  BY ListInit, ListStep, PTL DEF Spec

-----------------------------------------------------------------------------
LEMMA LinesStopped == ListInv => LinesAreStopped
<1> SUFFICES ASSUME ListInv, NEW line \in Kind("context"),
                    ~ \E other \in Kind("context") : Same(line, other)
             PROVE  check_feature_context(line.feature, line.context)
  BY DEF LinesAreStopped
<1> DEFINE entry == Extracted(line.feature, line.context)
<1>1. entry \in fcmap
  BY DEF ListInv, LinesEntered
<1>2. entry.before \in Strings /\ entry.after \in Strings
  BY ExtractedTyped DEF ListInv, LinesTyped
<1>3. rstrcmp(entry.before, entry.before) /\ rstrcmp(entry.after, entry.after)
  BY <1>2, AlignedWithItself
<1> QED
  BY <1>1, <1>3 DEF check_feature_context, check, Listed

LEMMA BareStopped == ListInv => BareLinesStop
<1> SUFFICES ASSUME ListInv, NEW p \in Places, NEW window \in Windows, Bare(Feature(p))
             PROVE  Stopped(p, window)
  BY DEF BareLinesStop
<1> DEFINE probe == Extracted(Feature(p), Context(p, window))
<1>1. probe.feature = Feature(p) /\ probe.before \in Strings /\ probe.after \in Strings
  BY FeatureTyped, ContextTyped, ExtractedTyped
<1>2. CASE \E line \in Kind("tab") \union Kind("word") : line.feature = Feature(p)
  <2>1. Plain(Feature(p)) \in fcmap
    BY <1>2 DEF ListInv, BareEntered
  <2>2. rstrcmp(<<>>, probe.before) /\ rstrcmp(<<>>, probe.after)
    BY <1>1, AlignedWithNothing
  <2>3. Listed(probe)
    <3> HIDE DEF probe
    <3> QED
      BY <1>1, <2>1, <2>2 DEF Listed, Plain
  <2> QED
    BY <2>3 DEF Stopped, check_feature_context, check
<1>3. CASE \E line \in Kind("regex") : Feature(p) \in line.features
  BY <1>1, <1>3 DEF ListInv, BareEntered, Stopped, check_feature_context, check
<1> QED
  BY <1>2, <1>3 DEF Bare

-----------------------------------------------------------------------------
(* Two strings that are aligned at the right agree over the shorter one.   *)
LEMMA SuffixAgrees ==
  ASSUME NEW s \in Strings, NEW t \in Strings, IsSuffix(s, t)
  PROVE  Len(s) <= Len(t) /\ \A k \in 0..Len(s) - 1 : s[Len(s) - k] = t[Len(t) - k]
<1> DEFINE rs == Reverse(s)
           rt == Reverse(t)
<1>1. /\ rs \in Strings /\ Len(rs) = Len(s) /\ rt \in Strings /\ Len(rt) = Len(t)
      /\ Len(s) \in Nat /\ Len(t) \in Nat
  BY Reversed DEF Strings
<1>2. /\ \A i \in 1..Len(s) : rs[i] = s[Len(s) - i + 1]
      /\ \A i \in 1..Len(t) : rt[i] = t[Len(t) - i + 1]
  BY <1>1 DEF Reverse
<1> HIDE DEF rs, rt
<1>3. Len(rs) <= Len(rt) /\ SubSeq(rs, 1, Len(rs)) = SubSeq(rt, 1, Len(rs))
  BY Zenon DEF IsSuffix, IsPrefix, rs, rt
<1>4. \A i \in 1..Len(s) : rs[i] = rt[i]
  <2>1. /\ \A i \in 1..Len(s) : SubSeq(rs, 1, Len(s))[i] = rs[i]
        /\ \A i \in 1..Len(s) : SubSeq(rt, 1, Len(s))[i] = rt[i]
    <3>1. /\ \A i \in 1..Len(s) : rs[i] \in Nat
          /\ \A i \in 1..Len(s) : rt[i] \in Nat
      BY <1>1, <1>3 DEF Strings
    <3>2. 1 \in Int /\ Len(s) \in Int /\ \A i \in 1..Len(s) : (1 + i) - 1 = i
      BY <1>1
    <3>3. (Len(s) - 1) + 1 = Len(s)
      BY <1>1
    <3>4. \A i \in 1..Len(s) : SubSeq(rs, 1, Len(s))[i] = rs[i]
      BY <3>1, <3>2, <3>3, SubSeqProperties
    <3>5. \A i \in 1..Len(s) : SubSeq(rt, 1, Len(s))[i] = rt[i]
      BY <3>1, <3>2, <3>3, SubSeqProperties
    <3> QED
      BY <3>4, <3>5
  <2> QED
    BY <1>1, <1>3, <2>1
<1>5. ASSUME NEW k \in 0..Len(s) - 1
      PROVE  s[Len(s) - k] = t[Len(t) - k]
  <2>1. k + 1 \in 1..Len(s) /\ k + 1 \in 1..Len(t)
    BY <1>1, <1>3
  <2>2. Len(s) - (k + 1) + 1 = Len(s) - k /\ Len(t) - (k + 1) + 1 = Len(t) - k
    BY <1>1
  <2> QED
    BY <1>2, <1>4, <2>1, <2>2
<1> QED
  BY <1>1, <1>3, <1>5

AgreeBack(s, t, n) == \A k \in 0..n - 1 : s[Len(s) - k] = t[Len(t) - k]

LEMMA AlignedAgree ==
  ASSUME NEW s \in Strings, NEW t \in Strings, rstrcmp(s, t)
  PROVE  AgreeBack(s, t, Smaller(Len(s), Len(t)))
<1> SUFFICES \A k \in 0..Smaller(Len(s), Len(t)) - 1 : s[Len(s) - k] = t[Len(t) - k]
  BY DEF AgreeBack
<1>1. Len(s) \in Nat /\ Len(t) \in Nat
  BY DEF Strings
<1>2. CASE IsSuffix(s, t)
  <2>1. Len(s) <= Len(t) /\ \A k \in 0..Len(s) - 1 : s[Len(s) - k] = t[Len(t) - k]
    BY <1>2, SuffixAgrees
  <2> QED
    BY <1>1, <2>1 DEF Smaller
<1>3. CASE IsSuffix(t, s)
  <2>1. Len(t) <= Len(s) /\ \A k \in 0..Len(t) - 1 : t[Len(t) - k] = s[Len(s) - k]
    BY <1>3, SuffixAgrees
  <2> QED
    BY <1>1, <2>1 DEF Smaller
<1> QED
  BY <1>2, <1>3 DEF rstrcmp

(* A part of a text, and a part of that part.                              *)
LEMMA PartIs ==
  ASSUME NEW s \in Strings, NEW m \in Int, NEW n \in Int, 1 <= m, m <= n + 1, n <= Len(s)
  PROVE  /\ SubSeq(s, m, n) \in Strings /\ Len(SubSeq(s, m, n)) = n - m + 1
         /\ \A i \in 1..n - m + 1 : SubSeq(s, m, n)[i] = s[m + i - 1]
<1>1. Len(s) \in Nat /\ \A k \in 1..Len(s) : s[k] \in Nat
  BY DEF Strings
<1>2. \A k \in m..n : s[k] \in Nat
  BY <1>1
<1>3. /\ Len(SubSeq(s, m, n)) = (IF m <= n THEN n - m + 1 ELSE 0)
      /\ \A i \in 1..(n - m + 1) : SubSeq(s, m, n)[i] = s[m + i - 1]
  BY <1>2, SubSeqProperties
<1>4. Len(SubSeq(s, m, n)) = n - m + 1
  BY <1>3
<1> QED
  BY <1>3, <1>4, Part

PartRight(s, m, n) ==
  /\ SubSeq(s, m, n) \in Strings /\ Len(SubSeq(s, m, n)) = n - m + 1
  /\ \A i \in 1..n - m + 1 : SubSeq(s, m, n)[i] = s[m + i - 1]

LEMMA PartIsRight ==
  ASSUME NEW s \in Strings, NEW m \in Int, NEW n \in Int, 1 <= m, m <= n + 1, n <= Len(s)
  PROVE  PartRight(s, m, n)
BY PartIs DEF PartRight

LEMMA PartOfPart ==
  ASSUME NEW s \in Strings, NEW m \in Int, NEW n \in Int, 1 <= m, m <= n + 1, n <= Len(s),
         NEW i \in Int, NEW j \in Int, 1 <= i, i <= j + 1, j <= n - m + 1,
         NEW x \in Int, NEW y \in Int, x = m + i - 1, y = m + j - 1
  PROVE  SubSeq(SubSeq(s, m, n), i, j) = SubSeq(s, x, y)
<1> DEFINE t == SubSeq(s, m, n)
           left == SubSeq(t, i, j)
           right == SubSeq(s, x, y)
<1>1. Len(s) \in Nat
  BY DEF Strings
<1>2. t \in Strings /\ Len(t) = n - m + 1 /\ \A k \in 1..n - m + 1 : t[k] = s[m + k - 1]
  BY PartIs
<1> HIDE DEF t
<1>3. left \in Strings /\ Len(left) = j - i + 1 /\ \A k \in 1..j - i + 1 : left[k] = t[i + k - 1]
  BY <1>2, PartIs
<1>4. 1 <= x /\ x <= y + 1 /\ y <= Len(s) /\ y - x + 1 = j - i + 1
  BY <1>1
<1>5. right \in Strings /\ Len(right) = j - i + 1 /\ \A k \in 1..j - i + 1 : right[k] = s[x + k - 1]
  <2>1. /\ right \in Strings /\ Len(right) = y - x + 1
        /\ \A k \in 1..y - x + 1 : right[k] = s[x + k - 1]
    <3>1. PartRight(s, x, y)
      BY <1>4, PartIsRight
    <3> QED
      BY <3>1 DEF PartRight
  <2> QED
    BY <1>4, <2>1, Zenon
<1> HIDE DEF left, right
<1>6. \A k \in 1..j - i + 1 : left[k] = right[k]
  <2> SUFFICES ASSUME NEW k \in 1..j - i + 1 PROVE left[k] = right[k]
    OBVIOUS
  <2>1. i + k - 1 \in 1..n - m + 1 /\ m + (i + k - 1) - 1 = x + k - 1
    OBVIOUS
  <2> QED
    BY <1>2, <1>3, <1>5, <2>1
<1>7. left \in Seq(Nat) /\ right \in Seq(Nat) /\ Len(left) = Len(right)
  BY <1>3, <1>5 DEF Strings
<1>8. \A k \in 1..Len(left) : left[k] = right[k]
  BY <1>3, <1>6
<1> QED
  BY <1>7, <1>8, SeqEqual, Zenon DEF left, right, t

(* The parts of a window: what is before the feature, it, what is behind.  *)
WindowSplit(s, a, l, w) ==
  LET K == SubSeq(s, a + 1 - w, a + l + w) IN
  /\ K \in Strings /\ Len(K) = 2 * w + l
  /\ SubSeq(K, 1, w) = SubSeq(s, a + 1 - w, a)
  /\ SubSeq(K, w + 1, w + l) = SubSeq(s, a + 1, a + l)
  /\ SubSeq(K, w + l + 1, 2 * w + l) = SubSeq(s, a + l + 1, a + l + w)

LEMMA WindowParts ==
  ASSUME NEW s \in Strings, NEW a \in Nat, NEW l \in Nat, NEW w \in Nat,
         w <= a, a + l + w <= Len(s)
  PROVE  WindowSplit(s, a, l, w)
<1> DEFINE m == a + 1 - w
           n == a + l + w
           b == w + 1
           e == w + l
           c == w + l + 1
           k == 2 * w + l
<1>1. Len(s) \in Nat
  BY DEF Strings
<1>2. /\ m \in Int /\ n \in Int /\ 1 <= m /\ m <= n + 1 /\ n <= Len(s)
      /\ n - m + 1 = k /\ b \in Int /\ e \in Int /\ c \in Int /\ k \in Int
      /\ 1 <= b /\ b <= e + 1 /\ e <= k /\ 1 <= c /\ c <= k + 1 /\ w <= k
      /\ m + b - 1 = a + 1 /\ m + e - 1 = a + l /\ m + c - 1 = a + l + 1
      /\ m + k - 1 = n /\ m + 1 - 1 = m /\ m + w - 1 = a
  BY <1>1
<1>3. a + 1 \in Int /\ a + l \in Int /\ a + l + 1 \in Int
  OBVIOUS
<1> HIDE DEF m, n, b, e, c, k
<1>4. SubSeq(s, m, n) \in Strings /\ Len(SubSeq(s, m, n)) = k
  BY <1>2, PartIs
<1>5. SubSeq(SubSeq(s, m, n), 1, w) = SubSeq(s, m, a)
  BY <1>2, PartOfPart
<1>6. SubSeq(SubSeq(s, m, n), b, e) = SubSeq(s, a + 1, a + l)
  BY <1>2, <1>3, PartOfPart
<1>7. SubSeq(SubSeq(s, m, n), c, k) = SubSeq(s, a + l + 1, n)
  BY <1>2, <1>3, PartOfPart
<1> QED
  BY <1>4, <1>5, <1>6, <1>7, Zenon DEF WindowSplit, m, n, b, e, c, k

(* A feature that occurs once in its context, and not at its end, is found *)
(* where it is.                                                            *)
LEMMA ClearFound ==
  ASSUME NEW F \in Strings, NEW K \in Strings, NEW w \in Nat,
         Len(K) = 2 * w + Len(F), SubSeq(K, w + 1, w + Len(F)) = F, Clear(F, K)
  PROVE  Extracted(F, K) =
           [feature |-> F, before |-> SubSeq(K, 1, w), after |-> SubSeq(K, w + Len(F) + 1, Len(K))]
<1> DEFINE last == Len(K) - Len(F)
           Here(i) == SubSeq(K, i + 1, i + Len(F)) = F
           at == {i \in 0..last : Here(i)}
           found == {i \in 0..(last - 1) : Here(i)}
<1>1. Len(F) \in Nat /\ Len(K) \in Nat
  BY DEF Strings
<1>2. last = 2 * w /\ last \in Int /\ w \in 0..last
  BY <1>1
<1>3. Cardinality(at) = 1 /\ last \notin at
  BY DEF Clear
<1>4. Here(w)
  OBVIOUS
<1> HIDE DEF last, Here
<1>5. w \in at
  BY <1>2, <1>4
<1>6. IsFiniteSet(at)
  <2>1. IsFiniteSet(0..last)
    BY <1>2, FS_Interval
  <2> QED
    BY <2>1, FS_Subset
<1>7. at = {w}
  <2> HIDE DEF at
  <2>1. \E x : at = {x}
    BY <1>3, <1>6, FS_Singleton
  <2> QED
    BY <1>5, <2>1
<1>8. found = {w}
  <2>1. \A i : i \in 0..(last - 1) <=> i \in 0..last /\ i # last
    BY <1>2
  <2>2. \A i : i \in found <=> i \in at /\ i # last
    BY <2>1, Zenon
  <2> HIDE DEF found, at
  <2> QED
    BY <1>3, <1>7, <2>2
<1>9. (CHOOSE i \in found : \A j \in found : i <= j) = w
  <2> HIDE DEF found
  <2> QED
    BY <1>8
<1>10. found # {}
  <2> HIDE DEF found
  <2> QED
    BY <1>8
<1> QED
  BY <1>9, <1>10, Zenon DEF Extracted, found, Here, last

(* Well inside its context a feature has an entry with the text before it  *)
(* and behind it.                                                          *)
WindowFound(s, a, l, w) ==
  LET F == SubSeq(s, a + 1, a + l)
      K == SubSeq(s, a + 1 - w, a + l + w)
      before == SubSeq(s, a + 1 - w, a)
      after == SubSeq(s, a + l + 1, a + l + w)
  IN /\ Extracted(F, K) = [feature |-> F, before |-> before, after |-> after]
     /\ before \in Strings /\ Len(before) = w
     /\ after \in Strings /\ Len(after) = w

LEMMA WindowExtracted ==
  ASSUME NEW s \in Strings, NEW a \in Nat, NEW l \in Nat, NEW w \in Nat,
         w <= a, a + l + w <= Len(s),
         Clear(SubSeq(s, a + 1, a + l), SubSeq(s, a + 1 - w, a + l + w))
  PROVE  WindowFound(s, a, l, w)
<1> DEFINE F == SubSeq(s, a + 1, a + l)
           K == SubSeq(s, a + 1 - w, a + l + w)
           before == SubSeq(s, a + 1 - w, a)
           after == SubSeq(s, a + l + 1, a + l + w)
<1>1. Len(s) \in Nat
  BY DEF Strings
<1>2. /\ K \in Strings /\ Len(K) = 2 * w + l
      /\ SubSeq(K, 1, w) = before
      /\ SubSeq(K, w + 1, w + l) = F
      /\ SubSeq(K, w + l + 1, 2 * w + l) = after
  <2>1. WindowSplit(s, a, l, w)
    BY WindowParts
  <2> QED
    BY <2>1, Zenon DEF WindowSplit
<1>3. F \in Strings /\ Len(F) = l
  <2> DEFINE m == a + 1
             n == a + l
  <2>1. m \in Int /\ n \in Int /\ 1 <= m /\ m <= n + 1 /\ n <= Len(s) /\ n - m + 1 = l
    BY <1>1
  <2> HIDE DEF m, n
  <2>2. SubSeq(s, m, n) \in Strings /\ Len(SubSeq(s, m, n)) = l
    BY <2>1, PartIs
  <2> QED
    BY <2>2, Zenon DEF m, n
<1>4. before \in Strings /\ Len(before) = w
  <2> DEFINE m == a + 1 - w
             n == a
  <2>1. m \in Int /\ n \in Int /\ 1 <= m /\ m <= n + 1 /\ n <= Len(s) /\ n - m + 1 = w
    BY <1>1
  <2> HIDE DEF m, n
  <2>2. SubSeq(s, m, n) \in Strings /\ Len(SubSeq(s, m, n)) = w
    BY <2>1, PartIs
  <2> QED
    BY <2>2, Zenon DEF m, n
<1>5. after \in Strings /\ Len(after) = w
  <2> DEFINE m == a + l + 1
             n == a + l + w
  <2>1. m \in Int /\ n \in Int /\ 1 <= m /\ m <= n + 1 /\ n <= Len(s) /\ n - m + 1 = w
    BY <1>1
  <2> HIDE DEF m, n
  <2>2. SubSeq(s, m, n) \in Strings /\ Len(SubSeq(s, m, n)) = w
    BY <2>1, PartIs
  <2> QED
    BY <2>2, Zenon DEF m, n
<1> HIDE DEF F, K, before, after
<1>6. Len(K) = 2 * w + Len(F) /\ SubSeq(K, w + 1, w + Len(F)) = F
  BY <1>2, <1>3, Zenon
<1>7. Extracted(F, K) =
        [feature |-> F, before |-> SubSeq(K, 1, w), after |-> SubSeq(K, w + Len(F) + 1, Len(K))]
  <2>1. Clear(F, K)
    BY DEF F, K
  <2> QED
    BY <1>2, <1>3, <1>6, <2>1, ClearFound
<1> QED
  BY <1>2, <1>3, <1>4, <1>5, <1>7, Zenon DEF WindowFound, F, K, before, after

LEMMA JudgedExtracted ==
  ASSUME NEW p \in Places, NEW w \in Windows, Judged(p, w)
  PROVE  /\ Extracted(Feature(p), Context(p, w)) =
              [feature |-> Feature(p), before |-> Before(p, w), after |-> After(p, w)]
         /\ Before(p, w) \in Strings /\ Len(Before(p, w)) = w
         /\ After(p, w) \in Strings /\ Len(After(p, w)) = w
<1>1. PICK s \in Strings, a \in Nat, l \in Nat, n \in Nat :
        s = p.text /\ a = p.pos /\ l = p.length /\ n = w
  BY PlaceTyped, SizesAssumption
<1>2. n <= a /\ a + l + n <= Len(s) /\ Clear(Feature(p), Context(p, w))
  BY <1>1, Zenon DEF Judged, Inside
<1>3. Len(s) \in Nat
  BY DEF Strings
<1>4. Greater(1, a + 1 - n) = a + 1 - n /\ Smaller(Len(s), a + l + n) = a + l + n
  BY <1>2, <1>3 DEF Greater, Smaller
<1>5. Context(p, w) = SubSeq(s, Greater(1, a + 1 - n), Smaller(Len(s), a + l + n))
  BY <1>1, Zenon DEF Context
<1>6. Context(p, w) = SubSeq(s, a + 1 - n, a + l + n)
  BY <1>4, <1>5, Zenon
<1>7. Feature(p) = SubSeq(s, a + 1, a + l)
  BY <1>1, Zenon DEF Feature
<1>8. Before(p, w) = SubSeq(s, a + 1 - n, a) /\ After(p, w) = SubSeq(s, a + l + 1, a + l + n)
  BY <1>1, Zenon DEF Before, After
<1>9. /\ Extracted(Feature(p), Context(p, w)) =
           [feature |-> Feature(p), before |-> Before(p, w), after |-> After(p, w)]
      /\ Before(p, w) \in Strings /\ Len(Before(p, w)) = n
      /\ After(p, w) \in Strings /\ Len(After(p, w)) = n
  <2>1. Clear(SubSeq(s, a + 1, a + l), SubSeq(s, a + 1 - n, a + l + n))
    BY <1>2, <1>6, <1>7, Zenon
  <2>2. WindowFound(s, a, l, n)
    BY <1>2, <2>1, WindowExtracted
  <2> QED
    BY <1>6, <1>7, <1>8, <2>2, Zenon DEF WindowFound
<1> QED
  BY <1>1, <1>9, Zenon

(* What is before a feature, read backwards.                               *)
BackFrom(s, a, n) ==
  LET b == SubSeq(s, a + 1 - n, a) IN
  b \in Strings /\ Len(b) = n /\ \A k \in 0..n - 1 : b[n - k] = s[a - k]

LEMMA ReadBack ==
  ASSUME NEW s \in Strings, NEW a \in Nat, NEW n \in Nat, n <= a, a <= Len(s)
  PROVE  BackFrom(s, a, n)
<1> DEFINE m == a + 1 - n
<1>1. Len(s) \in Nat
  BY DEF Strings
<1>2. m \in Int /\ 1 <= m /\ m <= a + 1 /\ a - m + 1 = n
  BY <1>1
<1>3. \A k \in 0..n - 1 : n - k \in 1..n /\ m + (n - k) - 1 = a - k
  OBVIOUS
<1> HIDE DEF m
<1>4. PartRight(s, m, a)
  BY <1>2, PartIsRight
<1>5. /\ SubSeq(s, m, a) \in Strings /\ Len(SubSeq(s, m, a)) = n
      /\ \A i \in 1..n : SubSeq(s, m, a)[i] = s[m + i - 1]
  BY <1>2, <1>4 DEF PartRight
<1>6. \A k \in 0..n - 1 : SubSeq(s, m, a)[n - k] = s[a - k]
  BY <1>3, <1>5
<1> QED
  BY <1>5, <1>6, Zenon DEF BackFrom, m

(* Places whose texts before them are aligned have the same text before    *)
(* them, as far as both windows reach.                                     *)
AlignedAt(s, a, m, t, b, n) == rstrcmp(SubSeq(s, a + 1 - m, a), SubSeq(t, b + 1 - n, b))
SameAt(s, a, t, b, k) == SubSeq(s, a + 1 - k, a) = SubSeq(t, b + 1 - k, b)

LEMMA AlignedBefore ==
  ASSUME NEW s \in Strings, NEW a \in Nat, a <= Len(s), NEW m \in Nat, m <= a,
         NEW t \in Strings, NEW b \in Nat, b <= Len(t), NEW n \in Nat, n <= b,
         AlignedAt(s, a, m, t, b, n), NEW k \in Nat, k = Smaller(m, n)
  PROVE  SameAt(s, a, t, b, k)
<1> DEFINE x == SubSeq(s, a + 1 - m, a)
           y == SubSeq(t, b + 1 - n, b)
           u == SubSeq(s, a + 1 - k, a)
           v == SubSeq(t, b + 1 - k, b)
<1>1. k <= m /\ k <= n /\ k <= a /\ k <= b
  BY DEF Smaller
<1>2. BackFrom(s, a, m) /\ BackFrom(t, b, n) /\ BackFrom(s, a, k) /\ BackFrom(t, b, k)
  BY <1>1, ReadBack
<1>3. /\ x \in Strings /\ Len(x) = m /\ \A i \in 0..m - 1 : x[m - i] = s[a - i]
      /\ y \in Strings /\ Len(y) = n /\ \A i \in 0..n - 1 : y[n - i] = t[b - i]
      /\ u \in Strings /\ Len(u) = k /\ \A i \in 0..k - 1 : u[k - i] = s[a - i]
      /\ v \in Strings /\ Len(v) = k /\ \A i \in 0..k - 1 : v[k - i] = t[b - i]
  BY <1>2, Zenon DEF BackFrom
<1>4. rstrcmp(x, y)
  BY DEF AlignedAt
<1> HIDE DEF x, y, u, v
<1>5. \A i \in 0..k - 1 : x[m - i] = y[n - i]
  <2>1. AgreeBack(x, y, Smaller(Len(x), Len(y)))
    BY <1>3, <1>4, AlignedAgree
  <2>2. AgreeBack(x, y, k)
    BY <1>3, <2>1, Zenon
  <2> QED
    BY <1>3, <2>2 DEF AgreeBack
<1>6. ASSUME NEW j \in 1..Len(u) PROVE u[j] = v[j]
  <2>1. k - j \in 0..k - 1 /\ k - j \in 0..m - 1 /\ k - j \in 0..n - 1 /\ k - (k - j) = j
    <3>1. j \in 1..k
      BY <1>3, Zenon
    <3> QED
      BY <1>1, <3>1
  <2>2. u[k - (k - j)] = s[a - (k - j)] /\ v[k - (k - j)] = t[b - (k - j)]
    BY <1>3, <2>1
  <2>3. x[m - (k - j)] = s[a - (k - j)] /\ y[n - (k - j)] = t[b - (k - j)]
    BY <1>3, <2>1
  <2>4. x[m - (k - j)] = y[n - (k - j)]
    BY <1>5, <2>1
  <2> QED
    BY <2>1, <2>2, <2>3, <2>4
<1>7. u \in Seq(Nat) /\ v \in Seq(Nat) /\ Len(u) = Len(v)
  BY <1>3 DEF Strings
<1>8. u = v
  BY <1>6, <1>7, SeqEqual
<1> QED
  BY <1>8, Zenon DEF SameAt, u, v

LEMMA AlignedSame ==
  ASSUME NEW x \in Strings, NEW y \in Strings, Len(x) = Len(y), rstrcmp(x, y)
  PROVE  x = y
<1>1. Len(x) \in Nat /\ Smaller(Len(x), Len(y)) = Len(x)
  BY DEF Strings, Smaller
<1>2. \A k \in 0..Len(x) - 1 : x[Len(x) - k] = y[Len(x) - k]
  <2>1. AgreeBack(x, y, Smaller(Len(x), Len(y)))
    BY AlignedAgree
  <2> QED
    BY <1>1, <2>1 DEF AgreeBack
<1>3. ASSUME NEW j \in 1..Len(x) PROVE x[j] = y[j]
  <2>1. Len(x) - j \in 0..Len(x) - 1 /\ Len(x) - (Len(x) - j) = j
    BY <1>1
  <2> QED
    BY <1>2, <2>1
<1> QED
  BY <1>3, SeqEqual DEF Strings

LEMMA ContextDecided == ListInv => ContextDecides
<1> SUFFICES ASSUME ListInv, NEW p \in Places, NEW window \in Windows,
                    Judged(p, window), ~Bare(Feature(p)), Stopped(p, window),
                    \A line \in Kind("context") :
                      line.feature = Feature(p) => \E q \in Places, w \in Windows :
                        /\ Judged(q, w) /\ Feature(q) = Feature(p)
                        /\ Context(q, w) = line.context
             PROVE  \E q \in Places, w \in Windows :
                      /\ Feature(q) = Feature(p) /\ Judged(q, w)
                      /\ \E line \in Kind("context") :
                           line.feature = Feature(p) /\ line.context = Context(q, w)
                      /\ LET n == Smaller(w, window) IN
                           /\ Before(p, n) = Before(q, n)
                           /\ w = window => After(p, w) = After(q, w)
  BY DEF ContextDecides
<1> DEFINE probe == Extracted(Feature(p), Context(p, window))
<1>1. /\ probe = [feature |-> Feature(p), before |-> Before(p, window), after |-> After(p, window)]
      /\ Before(p, window) \in Strings /\ Len(Before(p, window)) = window
      /\ After(p, window) \in Strings /\ Len(After(p, window)) = window
  BY JudgedExtracted
<1> HIDE DEF probe
<1>2. Listed(probe)
  <2>1. ASSUME NEW pattern \in patterns, probe.feature \in pattern PROVE FALSE
    <3>1. PICK line \in Kind("regex") : line.features = pattern
      BY DEF ListInv, EntriesOfLines
    <3>2. Feature(p) \in line.features
      BY <1>1, <2>1, <3>1
    <3> QED
      BY <3>2 DEF Bare
  <2> QED
    BY <2>1, Zenon DEF Stopped, check_feature_context, check, probe
<1>3. PICK entry \in fcmap :
        /\ entry.feature = probe.feature
        /\ rstrcmp(entry.before, probe.before) /\ rstrcmp(entry.after, probe.after)
  BY <1>2 DEF Listed
<1>4. entry.feature = Feature(p)
  BY <1>1, <1>3
<1>5. ~ \E line \in Kind("tab") \union Kind("word") : entry.feature = line.feature
  BY <1>4, Zenon DEF Bare
<1>6. PICK line \in Kind("context") : entry = Extracted(line.feature, line.context)
  BY <1>5 DEF ListInv, EntriesOfLines
<1>7. line.feature = Feature(p)
  <2>1. line.feature \in Strings /\ line.context \in Strings
    BY DEF ListInv, LinesTyped
  <2> QED
    BY <1>4, <1>6, <2>1, ExtractedTyped
<1>8. PICK q \in Places, w \in Windows :
        Judged(q, w) /\ Feature(q) = Feature(p) /\ Context(q, w) = line.context
  BY <1>7
<1>9. /\ Extracted(Feature(q), Context(q, w)) =
           [feature |-> Feature(q), before |-> Before(q, w), after |-> After(q, w)]
      /\ After(q, w) \in Strings /\ Len(After(q, w)) = w
  BY <1>8, JudgedExtracted
<1>10. entry.before = Before(q, w) /\ entry.after = After(q, w)
  BY <1>6, <1>7, <1>8, <1>9
<1>11. rstrcmp(Before(q, w), Before(p, window)) /\ rstrcmp(After(q, w), After(p, window))
  BY <1>1, <1>3, <1>10
<1>12. Before(p, Smaller(w, window)) = Before(q, Smaller(w, window))
  <2>1. PICK s \in Strings, a \in Nat, m \in Nat, t \in Strings, b \in Nat, n \in Nat :
          s = q.text /\ a = q.pos /\ m = w /\ t = p.text /\ b = p.pos /\ n = window
    BY PlaceTyped, SizesAssumption
  <2>2. m <= a /\ a <= Len(s) /\ n <= b /\ b <= Len(t)
    <3>1. w <= q.pos /\ q.pos <= Len(q.text) /\ window <= p.pos /\ p.pos <= Len(p.text)
      BY <1>8, PlaceTyped DEF Judged, Inside
    <3> QED
      BY <2>1, <3>1, Zenon
  <2>3. AlignedAt(s, a, m, t, b, n)
    BY <1>11, <2>1, Zenon DEF Before, AlignedAt
  <2>4. PICK k \in Nat : k = Smaller(m, n)
    BY DEF Smaller
  <2>5. SameAt(s, a, t, b, k)
    BY <2>2, <2>3, <2>4, AlignedBefore
  <2> QED
    BY <2>1, <2>4, <2>5, Zenon DEF Before, SameAt
<1>13. w = window => After(p, w) = After(q, w)
  <2> SUFFICES ASSUME w = window PROVE After(p, w) = After(q, w)
    OBVIOUS
  <2> QED
    BY <1>1, <1>9, <1>11, AlignedSame
<1> QED
  BY <1>7, <1>8, <1>12, <1>13, Zenon

(* A feature that is listed with contexts only is stopped only where the   *)
(* text around it is that of a line, as far as both windows reach:         *)
(* extract_before_after, rstrcmp and check.                                *)
THEOREM ContextDecidesHolds == Spec => []ContextDecides
<1> QED
  BY ListInvariant, ContextDecided, PTL

(* A feature in its context that stands in the file is stopped when it is  *)
(* met again, unless another one with the very same context stands there:  *)
(* word_and_context_list::add_fc, check_feature_context.                   *)
THEOREM LinesAreStoppedHolds == Spec => []LinesAreStopped
<1> QED
  BY ListInvariant, LinesStopped, PTL

(* What is listed without a context is stopped in every context:           *)
(* word_and_context_list::add_fc, readfile and check.                      *)
THEOREM BareLinesStopHolds == Spec => []BareLinesStop
<1> QED
  BY ListInvariant, BareStopped, PTL

-----------------------------------------------------------------------------
(* Induction and recursion over an interval.                               *)

(* What holds at 0 and goes from n - 1 to n holds everywhere.              *)
LEMMA IntervalInduction ==
  ASSUME NEW n \in Nat, NEW T, 0 \in T, \A k \in 1..n : k - 1 \in T => k \in T
  PROVE  \A k \in 0..n : k \in T
<1> DEFINE less == OpToRel(<, Nat)
           U == {k \in 0..n : k \notin T}
<1>1. SUFFICES ASSUME U # {} PROVE FALSE
  BY <1>1
<1>2. IsWellFoundedOn(less, Nat)
  BY NatLessThanWellFounded
<1>3. U \subseteq Nat
  OBVIOUS
<1> HIDE DEF less
<1>4. PICK k \in U : \A j \in U : <<j, k>> \notin less
  <2> HIDE DEF U
  <2> QED
    BY <1>1, <1>2, <1>3, WFMin
<1>5. k \in 0..n /\ k \notin T
  BY <1>4
<1>6. k # 0
  BY <1>5
<1>7. k - 1 \in 0..n /\ k \in 1..n
  BY <1>5, <1>6
<1>8. k - 1 \notin U
  <2>1. <<k - 1, k>> \in less
    BY <1>7 DEF less, OpToRel
  <2> QED
    BY <1>4, <2>1
<1> QED
  BY <1>5, <1>7, <1>8

(* A function that is defined from one value to the next.                  *)
Steps(g, n, V) == g \in [V \X (1..n) -> V]
Iterated(f, b, g, n, V) ==
  f \in [0..n -> V] /\ f[0] = b /\ \A k \in 1..n : f[k] = g[<<f[k - 1], k>>]

LEMMA Recursion ==
  ASSUME NEW n \in Nat, NEW V, NEW b \in V, NEW g, Steps(g, n, V)
  PROVE  \E f : Iterated(f, b, g, n, V)
<1>0. g \in [V \X (1..n) -> V]
  BY DEF Steps
<1> DEFINE Right(f, m) == f[0] = b /\ \A k \in 1..m : f[k] = g[<<f[k - 1], k>>]
           T == {m \in 0..n : \E f \in [0..m -> V] : Right(f, m)}
<1>1. 0 \in T
  <2>1. [k \in 0..0 |-> b] \in [0..0 -> V] /\ Right([k \in 0..0 |-> b], 0)
    OBVIOUS
  <2> HIDE DEF Right
  <2>2. 0 \in 0..n /\ \E f \in [0..0 -> V] : Right(f, 0)
    BY <2>1
  <2> QED
    BY <2>2
<1>2. ASSUME NEW m \in 1..n, m - 1 \in T PROVE m \in T
  <2>1. PICK f \in [0..(m - 1) -> V] : Right(f, m - 1)
    BY <1>2
  <2> DEFINE h == [k \in 0..m |-> IF k < m THEN f[k] ELSE g[<<f[m - 1], m>>]]
  <2>2. f[m - 1] \in V /\ g[<<f[m - 1], m>>] \in V
    BY <1>0
  <2>3. h \in [0..m -> V]
    BY <2>2
  <2>4. h[0] = b
    BY <2>1
  <2>5. ASSUME NEW k \in 1..m PROVE h[k] = g[<<h[k - 1], k>>]
    <3>1. h[k - 1] = f[k - 1]
      OBVIOUS
    <3>2. CASE k < m
      BY <2>1, <3>1, <3>2
    <3>3. CASE k = m
      <4>1. h[m] = g[<<f[m - 1], m>>]
        OBVIOUS
      <4>2. h[m - 1] = f[m - 1]
        BY <3>1, <3>3
      <4> QED
        BY <3>3, <4>1, <4>2
    <3> QED
      BY <3>2, <3>3
  <2>6. Right(h, m)
    BY <2>4, <2>5
  <2> HIDE DEF h, Right
  <2> QED
    BY <2>3, <2>6
<1> HIDE DEF T
<1>3. n \in T
  BY <1>1, <1>2, IntervalInduction
<1> QED
  BY <1>3 DEF T, Iterated

-----------------------------------------------------------------------------

(* What a sequence of strings is flattened to is a string.                 *)
LEMMA Flattened ==
  ASSUME NEW ss \in Seq(Strings)
  PROVE  W!FlattenSeq(ss) \in Strings
<1>1. CASE Len(ss) = 0
  <2>1. ss = <<>>
    BY <1>1
  <2> QED
    BY <1>1, <2>1 DEF W!FlattenSeq, Strings
<1>2. CASE Len(ss) # 0
  <2> DEFINE n == Len(ss) - 1
             g == [x \in Strings \X (1..n) |-> x[1] \o ss[x[2] + 1]]
             Eq(f) == f = [i \in 1..Len(ss) |-> IF i = 1 THEN ss[i] ELSE f[i - 1] \o ss[i]]
             f1 == CHOOSE f : Eq(f)
  <2>1. Len(ss) \in Nat /\ Len(ss) = n + 1 /\ n \in Nat /\ \A k \in 1..Len(ss) : ss[k] \in Strings
    BY <1>2
  <2>2. ASSUME NEW x \in Strings \X (1..n) PROVE x[1] \o ss[x[2] + 1] \in Strings
    BY <2>1, ConcatProperties DEF Strings
  <2>3. Steps(g, n, Strings)
    BY <2>2 DEF Steps
  <2>4. PICK h \in [0..n -> Strings] : h[0] = ss[1] /\ \A k \in 1..n : h[k] = g[<<h[k - 1], k>>]
    <3> DEFINE b == ss[1]
    <3>1. n \in Nat /\ b \in Strings
      BY <2>1
    <3> HIDE DEF g, n, b
    <3>2. \E h : Iterated(h, b, g, n, Strings)
      BY <2>3, <3>1, Recursion
    <3> QED
      BY <3>2 DEF b, Iterated
  <2> DEFINE f == [i \in 1..Len(ss) |-> h[i - 1]]
  <2>5. Eq(f)
    <3>1. ASSUME NEW i \in 1..Len(ss), i # 1 PROVE f[i] = f[i - 1] \o ss[i]
      <4>1. PICK j \in 1..n : i = j + 1
        BY <2>1, <3>1
      <4>2. h[j] = g[<<h[j - 1], j>>] /\ h[j - 1] \in Strings
        <5>1. j - 1 \in 0..n /\ n \in Nat
          BY <2>1
        <5> HIDE DEF g, n
        <5> QED
          BY <2>4, <5>1
      <4>3. <<h[j - 1], j>> \in Strings \X (1..n)
        BY <4>2
      <4>4. g[<<h[j - 1], j>>] = h[j - 1] \o ss[j + 1]
        BY <4>3
      <4>5. f[i] = h[j] /\ f[i - 1] = h[j - 1]
        BY <2>1, <4>1
      <4> QED
        BY <4>1, <4>2, <4>4, <4>5
    <3>2. f[1] = ss[1]
      BY <2>1, <2>4
    <3>3. ASSUME NEW i \in 1..Len(ss) PROVE f[i] = IF i = 1 THEN ss[i] ELSE f[i - 1] \o ss[i]
      BY <3>1, <3>2
    <3> QED
      BY <3>3
  <2>6. Eq(f1)
    <3> HIDE DEF f, Eq
    <3> QED
      BY <2>5
  <2>7. \A k \in 0..n : k \in {k1 \in 0..n : f1[k1 + 1] \in Strings}
    <3> DEFINE T == {k1 \in 0..n : f1[k1 + 1] \in Strings}
    <3> HIDE DEF f1, f, g
    <3>0. \A i \in 1..Len(ss) : f1[i] = IF i = 1 THEN ss[i] ELSE f1[i - 1] \o ss[i]
      BY <2>6
    <3>1. 0 \in T
      BY <3>0, <2>1
    <3>2. ASSUME NEW k \in 1..n, k - 1 \in T PROVE k \in T
      <4>1. f1[k] \in Strings /\ ss[k + 1] \in Strings /\ k + 1 \in 1..Len(ss) /\ k + 1 # 1
        BY <3>2, <2>1
      <4>2. f1[k + 1] = f1[k] \o ss[k + 1]
        <5>1. PICK i \in 1..Len(ss) : i = k + 1 /\ i # 1 /\ i - 1 = k
          BY <4>1
        <5>2. f1[i] = f1[i - 1] \o ss[i]
          BY <3>0, <5>1
        <5> QED
          BY <5>1, <5>2
      <4>3. f1[k + 1] \in Strings
        BY <4>1, <4>2, ConcatProperties DEF Strings
      <4> QED
        BY <4>3
    <3> HIDE DEF T, n
    <3> QED
      <4>1. \A k \in 0..n : k \in T
        BY <2>1, <3>1, <3>2, IntervalInduction
      <4> QED
        BY <4>1 DEF T
  <2>8. f1[Len(ss)] \in Strings
    <3> HIDE DEF f1
    <3> QED
      BY <2>1, <2>7
  <2>9. W!FlattenSeq(ss) = f1[Len(ss)]
    BY <1>2 DEF W!FlattenSeq
  <2> QED
    BY <2>8, <2>9
<1> QED
  BY <1>1, <1>2

-----------------------------------------------------------------------------
(* The scan of a page, character by character.                             *)

Lines == [pos : Int, word : Strings]
ScanStates == [in_word : BOOLEAN, wordstart : Nat, quit : BOOLEAN, out : Seq(Lines)]
Beginning == [in_word |-> FALSE, wordstart |-> 0, quit |-> FALSE, out |-> <<>>]

(* What is scanned: bytes, with options that make sense.                   *)
WordsGiven ==
  /\ image \in Seq(0..255)
  /\ opts.pagesize \in Nat \ {0} /\ opts.margin \in Nat
  /\ opts.word_min \in Nat /\ opts.word_max \in Nat /\ opts.word_min <= opts.word_max
  /\ opts.strings \in BOOLEAN /\ opts.max_output_file_size \in Nat
PageRight(page) ==
  /\ page.start \in Nat /\ page.pagesize \in Nat /\ page.bufsize \in Nat
  /\ page.start + page.bufsize <= Len(image) /\ page.pagesize <= opts.pagesize

LEMMA QuotedTyped ==
  ASSUME NEW word \in Strings
  PROVE  W!Quoted(word) \in Strings
<1> DEFINE parts == [i \in DOMAIN word |-> IF word[i] = 92 THEN <<92, 49, 51, 52>> ELSE <<word[i]>>]
<1>1. Len(word) \in Nat /\ DOMAIN word = 1..Len(word) /\ \A i \in 1..Len(word) : word[i] \in Nat
  BY DEF Strings
<1>2. <<92, 49, 51, 52>> \in Strings
  BY DEF Strings
<1>3. \A i \in 1..Len(word) : <<word[i]>> \in Strings
  BY <1>1 DEF Strings
<1>4. \A i \in 1..Len(word) : parts[i] \in Strings
  BY <1>1, <1>2, <1>3
<1>5. parts \in [1..Len(word) -> Strings]
  BY <1>1, <1>4
<1>6. parts \in Seq(Strings)
  BY <1>1, <1>5
<1> HIDE DEF parts
<1>7. W!FlattenSeq(parts) \in Strings
  BY <1>6, Flattened
<1> QED
  BY <1>7 DEF W!Quoted, parts

LEMMA LineTyped ==
  ASSUME NEW p \in Int, NEW word \in Strings
  PROVE  W!Line(p, word) \in Lines
BY QuotedTyped DEF W!Line, Lines

LEMMA Elements ==
  ASSUME NEW S, NEW s \in Seq(S)
  PROVE  Len(s) \in Nat /\ DOMAIN s = 1..Len(s) /\ \A k \in 1..Len(s) : s[k] \in S
OBVIOUS

LEMMA BytesAre ==
  ASSUME NEW s \in Seq(0..255)
  PROVE  Len(s) \in Nat /\ \A k \in 1..Len(s) : s[k] \in Nat
<1> DEFINE S == 0..255
<1>1. \A x \in S : x \in Nat
  OBVIOUS
<1>2. s \in Seq(S)
  OBVIOUS
<1> HIDE DEF S
<1> QED
  BY <1>1, <1>2, Elements

(* Text is a string, when it lies in the image.                            *)
LEMMA TextTyped ==
  ASSUME image \in Seq(0..255), NEW p \in Nat, NEW l \in Int, p + l <= Len(image)
  PROVE  /\ W!Text(p, l) \in Strings
         /\ l >= 0 => Len(W!Text(p, l)) = l
         /\ \A k \in 1..l : W!Text(p, l)[k] = image[p + k]
<1>1. Len(image) \in Nat /\ \A k \in 1..Len(image) : image[k] \in Nat
  BY BytesAre
<1>2. \A k \in (p + 1)..(p + l) : image[k] \in Nat
  BY <1>1
<1>m. p + 1 \in Int /\ p + l \in Int
  OBVIOUS
<1>3. SubSeq(image, p + 1, p + l) \in Seq(Nat)
  BY <1>2, <1>m, SubSeqProperties
<1>4. Len(SubSeq(image, p + 1, p + l)) = IF p + 1 <= p + l THEN p + l - (p + 1) + 1 ELSE 0
  BY <1>2, <1>m, SubSeqProperties
<1>5. \A k \in 1..(p + l - (p + 1) + 1) : SubSeq(image, p + 1, p + l)[k] = image[p + 1 + k - 1]
  BY <1>2, <1>m, SubSeqProperties
<1>6. \A k \in 1..l : SubSeq(image, p + 1, p + l)[k] = image[p + k]
  <2>1. p + l - (p + 1) + 1 = l
    OBVIOUS
  <2>2. \A k \in 1..l : p + 1 + k - 1 = p + k
    OBVIOUS
  <2> QED
    BY <1>5, <2>1, <2>2
<1>7. l >= 0 => Len(SubSeq(image, p + 1, p + l)) = l
  BY <1>4
<1> QED
  BY <1>3, <1>6, <1>7 DEF W!Text, Strings

(* A bracketed word without its brackets.                                  *)
LEMMA WithoutBrackets ==
  ASSUME image \in Seq(0..255), NEW p \in Nat, NEW l \in Nat, l > 2, p + l <= Len(image)
  PROVE  Tail(W!Front(W!Text(p, l))) = W!Text(p + 1, l - 2)
<1> DEFINE t == W!Text(p, l)
           f == SubSeq(t, 1, l - 1)
           u == W!Text(p + 1, l - 2)
<1>1. /\ t \in Seq(Nat) /\ Len(t) = l /\ \A k \in 1..l : t[k] = image[p + k]
  BY TextTyped DEF Strings
<1>2. u \in Seq(Nat) /\ Len(u) = l - 2 /\ \A k \in 1..(l - 2) : u[k] = image[p + 1 + k]
  <2>1. p + 1 \in Nat /\ l - 2 \in Int /\ p + 1 + (l - 2) <= Len(image) /\ l - 2 >= 0
    <3>1. Len(image) \in Nat
      BY BytesAre
    <3> QED
      BY <3>1
  <2> QED
    BY <2>1, TextTyped DEF Strings
<1> HIDE DEF t, u
<1>3. f \in Seq(Nat) /\ Len(f) = l - 1 /\ \A k \in 1..(l - 1) : f[k] = t[k]
  <2>1. \A k \in 1..(l - 1) : t[k] \in Nat
    BY <1>1
  <2>2. 1 \in Int /\ l - 1 \in Int /\ (l - 1) - 1 + 1 = l - 1
    OBVIOUS
  <2>3. f \in Seq(Nat) /\ Len(f) = IF 1 <= l - 1 THEN (l - 1) - 1 + 1 ELSE 0
    BY <2>1, <2>2, SubSeqProperties
  <2>4. \A k \in 1..((l - 1) - 1 + 1) : f[k] = t[1 + k - 1]
    BY <2>1, <2>2, SubSeqProperties
  <2>5. \A k \in 1..(l - 1) : f[k] = t[k]
    BY <2>4
  <2> QED
    BY <2>3, <2>5
<1> HIDE DEF f
<1>4. Tail(f) \in Seq(Nat) /\ Len(Tail(f)) = l - 2 /\ \A k \in 1..(l - 2) : Tail(f)[k] = f[k + 1]
  BY <1>3
<1>5. \A k \in 1..(l - 2) : Tail(f)[k] = u[k]
  <2>1. ASSUME NEW k \in 1..(l - 2) PROVE Tail(f)[k] = u[k]
    <3>1. k + 1 \in 1..(l - 1) /\ k + 1 \in 1..l
      OBVIOUS
    <3>2. Tail(f)[k] = f[k + 1] /\ f[k + 1] = t[k + 1] /\ t[k + 1] = image[p + (k + 1)]
      BY <1>1, <1>3, <1>4, <3>1
    <3>3. u[k] = image[p + 1 + k] /\ p + 1 + k = p + (k + 1)
      BY <1>2
    <3> QED
      BY <3>2, <3>3
  <2> QED
    BY <2>1
<1>6. Tail(f) = u
  <2> DEFINE v == Tail(f)
  <2>1. v \in Seq(Nat) /\ Len(v) = Len(u) /\ \A k \in 1..Len(v) : v[k] = u[k]
    BY <1>2, <1>4, <1>5
  <2> HIDE DEF v
  <2>2. v = u
    BY <1>2, <2>1, SeqEqual
  <2> QED
    BY <2>2 DEF v
<1>7. W!Front(t) = f
  BY <1>1 DEF W!Front, f
<1> QED
  BY <1>6, <1>7 DEF t, u

(* What is saved of a word: its line, if it is not too long or too short,  *)
(* and one more if it is bracketed.                                        *)
LEMMA SaveIs ==
  ASSUME WordsGiven, NEW p \in Nat, NEW l \in Nat, l >= 1, p + l <= Len(image)
  PROVE  LET saved == W!Save(p, W!Text(p, l)) IN
         /\ saved \in Seq(Lines) /\ Len(saved) \in 0..2
         /\ Len(saved) >= 1 => saved[1] = W!Line(p, W!Text(p, l))
         /\ Len(saved) = 2 => l > 2 /\ saved[2] = W!Line(p + 1, W!Text(p + 1, l - 2))
         /\ l \in opts.word_min..opts.word_max => Len(saved) >= 1
<1> DEFINE t == W!Text(p, l)
           saved == W!Save(p, t)
           first == W!Line(p, t)
           second == W!Line(p + 1, Tail(W!Front(t)))
<1>1. t \in Strings /\ Len(t) = l
  BY TextTyped DEF WordsGiven
<1>2. first \in Lines
  BY <1>1, LineTyped
<1>3. ASSUME l > 2
      PROVE  second = W!Line(p + 1, W!Text(p + 1, l - 2)) /\ second \in Lines
  <2>1. Tail(W!Front(t)) = W!Text(p + 1, l - 2)
    BY <1>3, WithoutBrackets DEF WordsGiven
  <2>2. Len(image) \in Nat
    BY BytesAre DEF WordsGiven
  <2>3. p + 1 \in Nat /\ l - 2 \in Int /\ p + 1 + (l - 2) <= Len(image)
    BY <1>3, <2>2
  <2>4. W!Text(p + 1, l - 2) \in Strings
    BY <2>3, TextTyped DEF WordsGiven
  <2>5. second = W!Line(p + 1, W!Text(p + 1, l - 2))
    BY <2>1
  <2>6. p + 1 \in Int
    OBVIOUS
  <2>7. W!Line(p + 1, W!Text(p + 1, l - 2)) \in Lines
    BY <2>4, <2>6, LineTyped
  <2> HIDE DEF second
  <2> QED
    BY <2>5, <2>7
<1>4. saved = IF l \notin opts.word_min..opts.word_max THEN <<>>
              ELSE <<first>> \o IF W!Bracketed(t) THEN <<second>> ELSE <<>>
  BY <1>1 DEF W!Save
<1>5. W!Bracketed(t) => l > 2
  BY <1>1 DEF W!Bracketed
<1> HIDE DEF t, first, second, saved
<1>6. CASE l \notin opts.word_min..opts.word_max
  <2>1. saved = <<>>
    BY <1>4, <1>6
  <2> QED
    BY <2>1, <1>6 DEF saved, t
<1>7. CASE l \in opts.word_min..opts.word_max /\ W!Bracketed(t)
  <2>1. saved = <<first>> \o <<second>>
    BY <1>4, <1>7
  <2>2. first \in Lines /\ second \in Lines /\ l > 2
    BY <1>2, <1>3, <1>5, <1>7
  <2>3. <<first>> \in Seq(Lines) /\ <<second>> \in Seq(Lines)
        /\ Len(<<first>>) = 1 /\ Len(<<second>>) = 1
        /\ <<first>>[1] = first /\ <<second>>[1] = second
    BY <2>2
  <2>4. saved \in Seq(Lines) /\ Len(saved) = 2 /\ saved[1] = first /\ saved[2] = second
    BY <2>1, <2>3, ConcatProperties
  <2> QED
    BY <2>2, <2>4, <1>3 DEF saved, t, first
<1>8. CASE l \in opts.word_min..opts.word_max /\ ~W!Bracketed(t)
  <2>1. saved = <<first>> \o <<>>
    BY <1>4, <1>8
  <2>2. saved = <<first>>
    BY <2>1, <1>2
  <2>3. saved \in Seq(Lines) /\ Len(saved) = 1 /\ saved[1] = first
    BY <2>2, <1>2
  <2> QED
    BY <2>3 DEF saved, t, first
<1> QED
  BY <1>6, <1>7, <1>8

(* One character of a page.                                                *)
LEMMA StepIs ==
  ASSUME WordsGiven, NEW page, PageRight(page), NEW s \in ScanStates,
         NEW i \in Nat, i < page.bufsize
  PROVE  LET next == W!Step(s, i, page)
             inside == ~W!Separated(page.start + i)
             saved == W!Save(page.start + s.wordstart,
                             W!Text(page.start + s.wordstart, i - s.wordstart)) IN
         /\ s.quit => next = s
         /\ ~s.quit /\ ~s.in_word =>
              next = [in_word |-> inside, wordstart |-> IF inside THEN i ELSE s.wordstart,
                      quit |-> i > page.pagesize, out |-> s.out]
         /\ ~s.quit /\ s.in_word /\ inside => next = s
         /\ ~s.quit /\ s.in_word /\ ~inside =>
              next = [in_word |-> FALSE, wordstart |-> 0, quit |-> FALSE, out |-> s.out \o saved]
<1> DEFINE isw == W!WordChar(W!Byte(page.start + i))
<1>1. isw <=> ~W!Separated(page.start + i)
  <2>1. Len(image) \in Nat
    BY BytesAre DEF WordsGiven
  <2> QED
    BY <2>1 DEF PageRight, W!Separated, W!Size
<1>2. isw \in BOOLEAN
  BY DEF W!WordChar
<1>3. /\ s = [in_word |-> s.in_word, wordstart |-> s.wordstart, quit |-> s.quit, out |-> s.out]
      /\ s.in_word \in BOOLEAN /\ s.quit \in BOOLEAN
  BY DEF ScanStates
<1> HIDE DEF isw
<1>4. s.quit => W!Step(s, i, page) = s
  BY <1>3 DEF W!Step
<1>5. ~s.quit /\ ~s.in_word =>
        W!Step(s, i, page) = [s EXCEPT !.in_word = isw, !.wordstart = IF isw THEN i ELSE @,
                                       !.quit = i > page.pagesize]
  BY <1>3 DEF W!Step, isw
<1>6. ~s.quit /\ s.in_word /\ isw => W!Step(s, i, page) = s
  BY <1>3 DEF W!Step, isw
<1>7. ~s.quit /\ s.in_word /\ ~isw =>
        W!Step(s, i, page) =
          [s EXCEPT !.in_word = FALSE, !.wordstart = 0,
                    !.out = @ \o W!Save(page.start + s.wordstart,
                                        W!Text(page.start + s.wordstart, i - s.wordstart))]
  BY <1>3 DEF W!Step, isw
<1>8. ~s.quit /\ ~s.in_word =>
        W!Step(s, i, page) = [in_word |-> isw, wordstart |-> IF isw THEN i ELSE s.wordstart,
                              quit |-> i > page.pagesize, out |-> s.out]
  BY <1>3, <1>5
<1>9. ~s.quit /\ s.in_word /\ ~isw =>
        W!Step(s, i, page) =
          [in_word |-> FALSE, wordstart |-> 0, quit |-> FALSE,
           out |-> s.out \o W!Save(page.start + s.wordstart,
                                   W!Text(page.start + s.wordstart, i - s.wordstart))]
  BY <1>3, <1>7
<1> QED
  <2> DEFINE inside == ~W!Separated(page.start + i)
  <2>1. isw = inside
    BY <1>1, <1>2 DEF W!Separated
  <2> HIDE DEF inside
  <2> QED
    BY <1>4, <1>6, <1>8, <1>9, <2>1 DEF inside

(* [a, a + l) is a word of a page, and a line is about it.                 *)
IsWord(page, a, l) ==
  /\ a \in 0..page.pagesize /\ l \in Nat /\ l >= 1 /\ a + l < page.bufsize
  /\ a = 0 \/ W!Separated(page.start + a - 1)
  /\ W!Separated(page.start + a + l)
  /\ \A j \in a..(a + l - 1) : ~W!Separated(page.start + j)
OfWord(line, page, a, l) ==
  \/ line = W!Line(page.start + a, W!Text(page.start + a, l))
  \/ l > 2 /\ line = W!Line(page.start + a + 1, W!Text(page.start + a + 1, l - 2))

(* What the scanner of a page knows after n characters.                    *)
InsideKnown(s, n, page) ==
  /\ s.wordstart \in 0..(n - 1) /\ s.wordstart <= page.pagesize
  /\ s.wordstart = 0 \/ W!Separated(page.start + s.wordstart - 1)
  /\ \A j \in s.wordstart..(n - 1) : ~W!Separated(page.start + j)
OutRight(out, n, page) ==
  \A k \in 1..Len(out) :
    \E a, l \in Nat : IsWord(page, a, l) /\ a + l < n /\ OfWord(out[k], page, a, l)
OutOrdered(out) == \A m, n \in 1..Len(out) : m < n => out[m].pos < out[n].pos
OutBefore(out, p) == \A k \in 1..Len(out) : out[k].pos < p
ScanRight(s, n, page) ==
  /\ s \in ScanStates
  /\ ~s.quit /\ s.in_word => InsideKnown(s, n, page)
                             /\ OutBefore(s.out, page.start + s.wordstart)
  /\ ~s.quit /\ ~s.in_word => (n = 0 \/ W!Separated(page.start + n - 1))
                              /\ OutBefore(s.out, page.start + n)
  /\ OutRight(s.out, n, page)
  /\ OutOrdered(s.out)

LEMMA OutLater ==
  ASSUME NEW page, NEW out, NEW n \in Nat, OutRight(out, n, page), page.bufsize \in Nat, page.pagesize \in Nat
  PROVE  OutRight(out, n + 1, page)
<1>1. ASSUME NEW k \in 1..Len(out)
      PROVE  \E a, l \in Nat : IsWord(page, a, l) /\ a + l < n + 1 /\ OfWord(out[k], page, a, l)
  <2>1. PICK a, l \in Nat : IsWord(page, a, l) /\ a + l < n /\ OfWord(out[k], page, a, l)
    BY DEF OutRight
  <2>2. a + l < n + 1
    BY <2>1
  <2> QED
    BY <2>1, <2>2
<1> QED
  BY <1>1 DEF OutRight

LEMMA LinesHave ==
  ASSUME NEW s \in Seq(Lines)
  PROVE  Len(s) \in Nat /\ \A k \in 1..Len(s) : s[k].pos \in Int /\ s[k].word \in Strings
<1>1. Len(s) \in Nat /\ \A k \in 1..Len(s) : s[k] \in Lines
  BY Elements
<1> QED
  BY <1>1 DEF Lines

LEMMA ScanBegins ==
  ASSUME NEW page
  PROVE  ScanRight(Beginning, 0, page)
<1>1. Beginning \in ScanStates
  <2>1. <<>> \in Seq(Lines)
    OBVIOUS
  <2> QED
    BY <2>1 DEF Beginning, ScanStates
<1>2. ~Beginning.in_word /\ Beginning.out = <<>>
  BY DEF Beginning
<1>3. OutBefore(<<>>, page.start + 0) /\ OutRight(<<>>, 0, page) /\ OutOrdered(<<>>)
  BY DEF OutBefore, OutRight, OutOrdered
<1> QED
  BY <1>1, <1>2, <1>3 DEF ScanRight

(* Lines added at the end, all about one word that begins behind the rest. *)
LEMMA OutGrows ==
  ASSUME NEW page, PageRight(page), NEW out \in Seq(Lines), NEW saved \in Seq(Lines),
         NEW n \in Nat, NEW a \in Nat, NEW l \in Nat, IsWord(page, a, l), a + l = n,
         OutRight(out, n, page), OutOrdered(out), OutBefore(out, page.start + a),
         Len(saved) \in 0..2,
         Len(saved) >= 1 => saved[1] = W!Line(page.start + a, W!Text(page.start + a, l)),
         Len(saved) = 2 => l > 2 /\ saved[2] = W!Line(page.start + a + 1, W!Text(page.start + a + 1, l - 2))
  PROVE  /\ out \o saved \in Seq(Lines)
         /\ OutRight(out \o saved, n + 1, page)
         /\ OutOrdered(out \o saved)
         /\ OutBefore(out \o saved, page.start + (n + 1))
<1> DEFINE all == out \o saved
           first == W!Line(page.start + a, W!Text(page.start + a, l))
           second == W!Line(page.start + a + 1, W!Text(page.start + a + 1, l - 2))
<1>0. page.start \in Nat /\ Len(out) \in Nat
  BY DEF PageRight
<1>1. /\ all \in Seq(Lines) /\ Len(all) = Len(out) + Len(saved)
      /\ \A k \in 1..Len(out) + Len(saved) : all[k] = IF k <= Len(out) THEN out[k] ELSE saved[k - Len(out)]
  BY ConcatProperties
<1>2. first.pos = page.start + a /\ second.pos = page.start + a + 1
  BY DEF W!Line
<1> HIDE DEF all, first, second
<1>3. \A k \in 1..Len(out) : all[k] = out[k]
  BY <1>0, <1>1
<1>4. /\ Len(saved) >= 1 => all[Len(out) + 1] = first
      /\ Len(saved) = 2 => all[Len(out) + 2] = second /\ l > 2
  <2>1. ASSUME NEW i \in 1..Len(saved) PROVE all[Len(out) + i] = saved[i]
    <3>1. Len(saved) \in Nat
      OBVIOUS
    <3>2. PICK k \in 1..Len(out) + Len(saved) : k = Len(out) + i
      BY <1>0, <3>1
    <3>3. ~(k <= Len(out)) /\ k - Len(out) = i
      BY <1>0, <3>1, <3>2
    <3>4. all[k] = saved[i]
      BY <1>1, <3>2, <3>3
    <3> QED
      BY <3>2, <3>4
  <2>2. Len(saved) >= 1 => all[Len(out) + 1] = saved[1]
    BY <2>1
  <2>3. Len(saved) = 2 => all[Len(out) + 2] = saved[2]
    BY <2>1
  <2> QED
    BY <2>2, <2>3 DEF first, second
<1>5. \A k \in 1..Len(all) : k \in 1..Len(out) \/ (k = Len(out) + 1 /\ Len(saved) >= 1) \/ (k = Len(out) + 2 /\ Len(saved) = 2)
  <2>1. Len(all) = Len(out) + Len(saved)
    BY <1>1
  <2> DEFINE x == Len(out)
             y == Len(saved)
             z == Len(all)
  <2>2. x \in Nat /\ y \in 0..2 /\ z = x + y
    BY <2>1, <1>0
  <2> HIDE DEF x, y, z
  <2>3. \A k \in 1..z : k \in 1..x \/ (k = x + 1 /\ y >= 1) \/ (k = x + 2 /\ y = 2)
    BY <2>2
  <2> QED
    BY <2>3 DEF x, y, z
<1>6. OfWord(first, page, a, l) /\ (l > 2 => OfWord(second, page, a, l))
  BY DEF OfWord, first, second
<1>7. OutRight(all, n + 1, page)
  <2>1. ASSUME NEW k \in 1..Len(all)
        PROVE  \E b, m \in Nat : IsWord(page, b, m) /\ b + m < n + 1 /\ OfWord(all[k], page, b, m)
    <3>1. CASE k \in 1..Len(out)
      <4>1. PICK b, m \in Nat : IsWord(page, b, m) /\ b + m < n /\ OfWord(out[k], page, b, m)
        BY <3>1 DEF OutRight
      <4>2. all[k] = out[k]
        BY ONLY <3>1, <1>3
      <4>3. b + m < n + 1
        BY ONLY n \in Nat, b \in Nat, m \in Nat, <4>1
      <4> QED
        BY ONLY b \in Nat, m \in Nat, <4>1, <4>2, <4>3
    <3>2. CASE k = Len(out) + 1 /\ Len(saved) >= 1
      <4>1. all[k] = first
        BY ONLY <3>2, <1>4
      <4> QED
        BY <4>1, <1>0, <1>6
    <3>3. CASE k = Len(out) + 2 /\ Len(saved) = 2
      BY <3>3, <1>4, <1>6
    <3> QED
      BY <3>1, <3>2, <3>3, <1>5
  <2> QED
    BY <2>1 DEF OutRight
<1>8. \A k \in 1..Len(out) : out[k].pos \in Int /\ out[k].pos < page.start + a
  BY LinesHave DEF OutBefore
<1>9. OutBefore(all, page.start + (n + 1))
  <2>1. ASSUME NEW k \in 1..Len(all) PROVE all[k].pos < page.start + (n + 1)
    <3>1. CASE k \in 1..Len(out)
      <4>1. all[k].pos \in Int /\ all[k].pos < page.start + a
        BY <3>1, <1>3, <1>8
      <4>2. page.start + a \in Int /\ page.start + (n + 1) \in Int
            /\ page.start + a <= page.start + (n + 1)
        BY <1>0
      <4>3. ASSUME NEW x \in Int, NEW y \in Int, NEW z \in Int, x < y, y <= z PROVE x < z
        BY ONLY <4>3
      <4> QED
        BY ONLY <4>1, <4>2, <4>3
    <3>2. CASE k = Len(out) + 1 /\ Len(saved) >= 1
      <4>1. all[k] = first
        BY ONLY <3>2, <1>4
      <4>2. page.start + a < page.start + (n + 1)
        BY <1>0
      <4> QED
        BY ONLY <4>1, <4>2, <1>2
    <3>3. CASE k = Len(out) + 2 /\ Len(saved) = 2
      BY <3>3, <1>0, <1>2, <1>4
    <3> QED
      BY <3>1, <3>2, <3>3, <1>5
  <2> QED
    BY <2>1 DEF OutBefore
<1>10. OutOrdered(all)
  <2>1. ASSUME NEW j \in 1..Len(all), NEW k \in 1..Len(all), j < k PROVE all[j].pos < all[k].pos
    <3>1. CASE k \in 1..Len(out)
      <4>1. j \in 1..Len(out)
        BY <3>1, <2>1, <1>0
      <4> QED
        BY <4>1, <3>1, <2>1, <1>3 DEF OutOrdered
    <3>2. CASE k = Len(out) + 1 /\ Len(saved) >= 1
      <4>1. j \in 1..Len(out)
        BY <3>2, <2>1, <1>0
      <4> QED
        BY <4>1, <3>2, <1>2, <1>3, <1>4, <1>8
    <3>3. CASE k = Len(out) + 2 /\ Len(saved) = 2
      <4>1. j \in 1..Len(out) \/ j = Len(out) + 1
        BY <3>3, <2>1, <1>0
      <4>2. CASE j \in 1..Len(out)
        <5>1. all[j].pos \in Int /\ all[j].pos < page.start + a
          BY <4>2, <1>3, <1>8
        <5>2. all[k].pos = page.start + a + 1
          BY <3>3, <1>2, <1>4
        <5> QED
          BY <5>1, <5>2, <1>0
      <4>3. CASE j = Len(out) + 1
        BY <4>3, <3>3, <1>0, <1>2, <1>4
      <4> QED
        BY <4>1, <4>2, <4>3
    <3> QED
      BY <3>1, <3>2, <3>3, <1>5
  <2> QED
    BY <2>1 DEF OutOrdered
<1> QED
  BY <1>1, <1>7, <1>9, <1>10 DEF all

(* One character keeps all that right.                                     *)
LEMMA ScanSteps ==
  ASSUME WordsGiven, NEW page, PageRight(page), NEW s, NEW n \in Nat, n < page.bufsize,
         ScanRight(s, n, page)
  PROVE  ScanRight(W!Step(s, n, page), n + 1, page)
<1> DEFINE next == W!Step(s, n, page)
           inside == ~W!Separated(page.start + n)
           text == W!Text(page.start + s.wordstart, n - s.wordstart)
           saved == W!Save(page.start + s.wordstart, text)
<1>1. /\ s \in ScanStates /\ s.in_word \in BOOLEAN /\ s.quit \in BOOLEAN
      /\ s.wordstart \in Nat /\ s.out \in Seq(Lines)
      /\ page.start \in Nat /\ page.pagesize \in Nat /\ page.bufsize \in Nat
  BY DEF ScanRight, ScanStates, PageRight
<1>2. /\ s.quit => next = s
      /\ ~s.quit /\ ~s.in_word =>
           next = [in_word |-> inside, wordstart |-> IF inside THEN n ELSE s.wordstart,
                   quit |-> n > page.pagesize, out |-> s.out]
      /\ ~s.quit /\ s.in_word /\ inside => next = s
      /\ ~s.quit /\ s.in_word /\ ~inside =>
           next = [in_word |-> FALSE, wordstart |-> 0, quit |-> FALSE, out |-> s.out \o saved]
  BY <1>1, StepIs
<1> HIDE DEF next, saved
<1>3. CASE s.quit
  BY <1>1, <1>2, <1>3, OutLater DEF ScanRight, next
<1>4. CASE ~s.quit /\ ~s.in_word
  <2>1. /\ next.in_word = inside /\ next.wordstart = (IF inside THEN n ELSE s.wordstart)
        /\ next.quit = (n > page.pagesize) /\ next.out = s.out /\ next \in ScanStates
    <3>1. next = [in_word |-> inside, wordstart |-> IF inside THEN n ELSE s.wordstart,
                  quit |-> n > page.pagesize, out |-> s.out]
      BY <1>2, <1>4
    <3>2. inside \in BOOLEAN /\ (IF inside THEN n ELSE s.wordstart) \in Nat /\ (n > page.pagesize) \in BOOLEAN
      BY <1>1
    <3>3. s.out \in Seq(Lines)
      BY <1>1
    <3> HIDE DEF inside
    <3> QED
      BY <3>1, <3>2, <3>3 DEF ScanStates
  <2>2. (n = 0 \/ W!Separated(page.start + n - 1)) /\ OutBefore(s.out, page.start + n)
        /\ OutRight(s.out, n, page) /\ OutOrdered(s.out)
    BY <1>4 DEF ScanRight
  <2>3. OutRight(s.out, n + 1, page)
    BY <1>1, <2>2, OutLater
  <2>4. CASE inside
    <3>1. ~next.quit => InsideKnown(next, n + 1, page)
      <4>1. \A j \in n..(n + 1 - 1) : j = n
        OBVIOUS
      <4> QED
        <5>1. ASSUME ~next.quit PROVE InsideKnown(next, n + 1, page)
          <6>1. next.wordstart = n /\ n <= page.pagesize
            <7>1. next.wordstart = n
              BY <2>1, <2>4
            <7>2. ~(n > page.pagesize)
              BY <2>1, <5>1
            <7> QED
              BY <7>1, <7>2, <1>1
          <6>2. n \in 0..(n + 1 - 1) /\ (n = 0 \/ W!Separated(page.start + n - 1))
            BY <2>2
          <6>3. \A j \in n..(n + 1 - 1) : ~W!Separated(page.start + j)
            BY <4>1, <2>4
          <6> QED
            BY <6>1, <6>2, <6>3 DEF InsideKnown
        <5> QED
          BY <5>1
    <3> QED
      BY <3>1, <2>1, <2>2, <2>3, <2>4 DEF ScanRight, next
  <2>5. CASE ~inside
    <3>1. W!Separated(page.start + (n + 1) - 1)
      <4>1. page.start + (n + 1) - 1 = page.start + n
        BY <1>1
      <4> QED
        BY <4>1, <2>5
    <3>2. OutBefore(s.out, page.start + (n + 1))
      <4>1. \A k \in 1..Len(s.out) : s.out[k].pos \in Int
        BY <1>1, LinesHave
      <4> QED
        BY <4>1, <2>2, <1>1 DEF OutBefore
    <3> QED
      BY <3>1, <3>2, <2>1, <2>2, <2>3, <2>5 DEF ScanRight, next
  <2> QED
    BY <2>4, <2>5
<1>5. CASE ~s.quit /\ s.in_word /\ inside
  <2>1. next = s
    BY <1>2, <1>5
  <2>2. InsideKnown(s, n + 1, page)
    <3>1. InsideKnown(s, n, page)
      BY <1>5 DEF ScanRight
    <3>2. \A j \in s.wordstart..(n + 1 - 1) : j \in s.wordstart..(n - 1) \/ j = n
      BY <1>1
    <3> QED
      BY <3>1, <3>2, <1>1, <1>5 DEF InsideKnown
  <2> QED
    BY <2>1, <2>2, <1>1, <1>5, OutLater DEF ScanRight, next
<1>6. CASE ~s.quit /\ s.in_word /\ ~inside
  <2> DEFINE a == s.wordstart
             l == n - s.wordstart
  <2>1. InsideKnown(s, n, page) /\ OutBefore(s.out, page.start + a)
        /\ OutRight(s.out, n, page) /\ OutOrdered(s.out)
    BY <1>6 DEF ScanRight
  <2>2. a \in Nat /\ l \in Nat /\ l >= 1 /\ a + l = n
    BY <1>1, <2>1 DEF InsideKnown
  <2>3. IsWord(page, a, l)
    <3>1. a + l - 1 = n - 1 /\ page.start + a + l = page.start + n
      BY <2>2, <1>1
    <3>2. a \in 0..page.pagesize /\ a + l < page.bufsize
      BY <2>1, <2>2, <1>1 DEF InsideKnown
    <3>3. a = 0 \/ W!Separated(page.start + a - 1)
      BY <2>1 DEF InsideKnown
    <3>4. \A j \in a..(n - 1) : ~W!Separated(page.start + j)
      BY <2>1 DEF InsideKnown
    <3> HIDE DEF a, l
    <3>5. \A j \in a..(a + l - 1) : ~W!Separated(page.start + j)
      BY <3>1, <3>4
    <3>6. W!Separated(page.start + a + l)
      BY <3>1, <1>6
    <3> QED
      BY <3>2, <3>3, <3>5, <3>6, <2>2 DEF IsWord
  <2>4. /\ saved \in Seq(Lines) /\ Len(saved) \in 0..2
        /\ Len(saved) >= 1 => saved[1] = W!Line(page.start + a, W!Text(page.start + a, l))
        /\ Len(saved) = 2 => l > 2 /\ saved[2] = W!Line(page.start + a + 1, W!Text(page.start + a + 1, l - 2))
    <3> DEFINE p == page.start + a
    <3>1. p \in Nat /\ p + l <= Len(image)
      <4>1. Len(image) \in Nat
        BY BytesAre DEF WordsGiven
      <4>2. page.start + page.bufsize <= Len(image)
        BY DEF PageRight
      <4>3. page.start \in Nat /\ page.bufsize \in Nat
        BY <1>1
      <4>4. ASSUME NEW x \in Nat, NEW y \in Nat, NEW u \in Nat, NEW v \in Nat, NEW z \in Nat,
                   u + v = n, n < y, x + y <= z
            PROVE  x + u \in Nat /\ (x + u) + v <= z
        BY ONLY n \in Nat, <4>4
      <4> HIDE DEF a, l
      <4> QED
        BY ONLY n < page.bufsize, <4>1, <4>2, <4>3, <4>4, <2>2 DEF p
    <3>2. saved = W!Save(p, W!Text(p, l))
      BY DEF saved
    <3> HIDE DEF p, l
    <3>3. /\ saved \in Seq(Lines) /\ Len(saved) \in 0..2
          /\ Len(saved) >= 1 => saved[1] = W!Line(p, W!Text(p, l))
          /\ Len(saved) = 2 => l > 2 /\ saved[2] = W!Line(p + 1, W!Text(p + 1, l - 2))
      BY <3>1, <3>2, <2>2, SaveIs
    <3> QED
      BY <3>3 DEF p
  <2> DEFINE out == s.out
             all == out \o saved
  <2>5. /\ all \in Seq(Lines)
        /\ OutRight(all, n + 1, page)
        /\ OutOrdered(all)
        /\ OutBefore(all, page.start + (n + 1))
    <3>1. out \in Seq(Lines)
      BY <1>1
    <3> HIDE DEF a, l, out
    <3> QED
      BY <3>1, <2>1, <2>2, <2>3, <2>4, OutGrows DEF out
  <2> HIDE DEF all
  <2>6. next = [in_word |-> FALSE, wordstart |-> 0, quit |-> FALSE, out |-> all]
    BY <1>2, <1>6 DEF all
  <2>7. ~next.in_word /\ ~next.quit /\ next.out = all /\ next \in ScanStates
    BY <2>5, <2>6 DEF ScanStates
  <2>8. W!Separated(page.start + (n + 1) - 1)
    <3>1. page.start + (n + 1) - 1 = page.start + n
      BY <1>1
    <3> QED
      BY <3>1, <1>6
  <2> QED
    BY <2>5, <2>7, <2>8 DEF ScanRight, next
<1> QED
  BY <1>1, <1>3, <1>4, <1>5, <1>6

(* The states of the scanner of a page, after each of its characters.      *)
Scanned(f, page) ==
  /\ f[0] = Beginning
  /\ \A k \in 1..page.bufsize : f[k] = W!Step(f[k - 1], k - 1, page)
  /\ \A k \in 0..page.bufsize : ScanRight(f[k], k, page)

LEMMA WordsScanned ==
  ASSUME WordsGiven, NEW page, PageRight(page)
  PROVE  \E f : Scanned(f, page) /\ W!Words(page) = f[page.bufsize].out
<1> DEFINE N == page.bufsize
           after(x) == IF ScanRight(x[1], x[2] - 1, page) THEN W!Step(x[1], x[2] - 1, page) ELSE Beginning
           g == [x \in ScanStates \X (1..N) |-> after(x)]
           Eq(f) == f = [n \in 0..N |->
                           IF n = 0 THEN [in_word |-> FALSE, wordstart |-> 0, quit |-> FALSE, out |-> <<>>]
                           ELSE W!Step(f[n - 1], n - 1, page)]
           f1 == CHOOSE f : Eq(f)
<1>1. N \in Nat
  BY DEF PageRight
<1>2. Beginning \in ScanStates /\ ScanRight(Beginning, 0, page)
  BY ScanBegins DEF ScanRight
<1>3. ASSUME NEW s, NEW k \in 1..N, ScanRight(s, k - 1, page)
      PROVE  ScanRight(W!Step(s, k - 1, page), k, page)
  <2>1. PICK n \in Nat : n = k - 1 /\ n < page.bufsize /\ n + 1 = k
    BY <1>1
  <2>2. ScanRight(W!Step(s, n, page), n + 1, page)
    BY <2>1, <1>3, ScanSteps
  <2> QED
    BY <2>1, <2>2
<1>4. Steps(g, N, ScanStates)
  <2>1. ASSUME NEW x \in ScanStates \X (1..N) PROVE after(x) \in ScanStates
    <3>1. x[2] \in 1..N
      OBVIOUS
    <3>2. CASE ScanRight(x[1], x[2] - 1, page)
      <4>1. ScanRight(W!Step(x[1], x[2] - 1, page), x[2], page)
        BY <3>1, <3>2, <1>3
      <4> QED
        BY <4>1, <3>2 DEF ScanRight
    <3>3. CASE ~ScanRight(x[1], x[2] - 1, page)
      BY <3>3, <1>2
    <3> QED
      BY <3>2, <3>3
  <2> HIDE DEF after
  <2> QED
    BY <2>1 DEF Steps
<1>5. PICK f : Iterated(f, Beginning, g, N, ScanStates)
  <2> HIDE DEF g, N
  <2> QED
    BY <1>1, <1>2, <1>4, Recursion
<1>6. /\ f \in [0..N -> ScanStates] /\ f[0] = Beginning
      /\ \A k \in 1..N : f[k] = g[<<f[k - 1], k>>]
  BY <1>5 DEF Iterated
<1>7. ASSUME NEW k \in 1..N, ScanRight(f[k - 1], k - 1, page)
      PROVE  f[k] = W!Step(f[k - 1], k - 1, page) /\ ScanRight(f[k], k, page)
  <2>1. k - 1 \in 0..N
    BY <1>1
  <2>2. f[k - 1] \in ScanStates
    BY <2>1, <1>6
  <2> DEFINE x == <<f[k - 1], k>>
  <2>3. x \in ScanStates \X (1..N) /\ x[1] = f[k - 1] /\ x[2] = k
    BY <2>2
  <2>4. f[k] = g[x]
    BY <1>6
  <2>5. after(x) = W!Step(f[k - 1], k - 1, page)
    BY <1>7
  <2> HIDE DEF x, after
  <2>6. f[k] = after(x)
    BY <2>3, <2>4
  <2> QED
    BY <2>5, <2>6, <1>3, <1>7
<1>8. \A k \in 0..N : ScanRight(f[k], k, page)
  <2> DEFINE T == {k \in 0..N : ScanRight(f[k], k, page)}
  <2>1. 0 \in T
    BY <1>1, <1>2, <1>6
  <2>2. ASSUME NEW k \in 1..N, k - 1 \in T PROVE k \in T
    BY <2>2, <1>7
  <2> HIDE DEF T, N
  <2>3. \A k \in 0..N : k \in T
    BY <2>1, <2>2, <1>1, IntervalInduction
  <2> QED
    BY <2>3 DEF T
<1>9. \A k \in 1..N : f[k] = W!Step(f[k - 1], k - 1, page)
  <2>1. ASSUME NEW k \in 1..N PROVE f[k] = W!Step(f[k - 1], k - 1, page)
    <3>1. k - 1 \in 0..N
      BY <1>1
    <3> QED
      BY <3>1, <1>7, <1>8
  <2> QED
    BY <2>1
<1>10. Eq(f)
  <2>1. \A n \in 0..N : f[n] = IF n = 0 THEN [in_word |-> FALSE, wordstart |-> 0, quit |-> FALSE, out |-> <<>>]
                               ELSE W!Step(f[n - 1], n - 1, page)
    BY <1>6, <1>9 DEF Beginning
  <2>2. f \in [0..N -> ScanStates]
    BY <1>6
  <2> HIDE DEF N
  <2> QED
    BY <2>1, <2>2
<1>11. Eq(f1)
  <2> HIDE DEF Eq
  <2> QED
    BY <1>10
<1>12. W!Words(page) = f1[N].out
  BY DEF W!Words
<1>13. f1[0] = Beginning /\ \A k \in 1..N : f1[k] = W!Step(f1[k - 1], k - 1, page)
  <2>1. \A n \in 0..N : f1[n] = IF n = 0 THEN [in_word |-> FALSE, wordstart |-> 0, quit |-> FALSE, out |-> <<>>]
                               ELSE W!Step(f1[n - 1], n - 1, page)
    <3> HIDE DEF f1, N
    <3> QED
      BY <1>11
  <2> HIDE DEF f1, N
  <2> QED
    BY <1>1, <2>1 DEF Beginning
<1> HIDE DEF f1
<1>14. \A k \in 0..N : ScanRight(f1[k], k, page)
  <2> DEFINE T == {k \in 0..N : ScanRight(f1[k], k, page)}
  <2>1. 0 \in T
    BY <1>1, <1>2, <1>13
  <2>2. ASSUME NEW k \in 1..N, k - 1 \in T PROVE k \in T
    BY <2>2, <1>3, <1>13
  <2> HIDE DEF T, N
  <2>3. \A k \in 0..N : k \in T
    BY <2>1, <2>2, <1>1, IntervalInduction
  <2> QED
    BY <2>3 DEF T
<1>15. Scanned(f1, page)
  BY <1>13, <1>14 DEF Scanned
<1> QED
  BY <1>12, <1>15

(* What a page gives: lines about its words, in the order of the image.    *)
LEMMA WordsRight ==
  ASSUME WordsGiven, NEW page, PageRight(page)
  PROVE  /\ W!Words(page) \in Seq(Lines)
         /\ OutRight(W!Words(page), page.bufsize, page)
         /\ OutOrdered(W!Words(page))
<1>1. PICK f : Scanned(f, page) /\ W!Words(page) = f[page.bufsize].out
  BY WordsScanned
<1>2. page.bufsize \in 0..page.bufsize
  BY DEF PageRight
<1>3. ScanRight(f[page.bufsize], page.bufsize, page)
  BY <1>1, <1>2 DEF Scanned
<1> QED
  BY <1>1, <1>3 DEF ScanRight, ScanStates

(* No word of a page that is long enough and not too long is left out.     *)
WordKnown(s, k, page, a, l) ==
  /\ k <= a => ~s.quit
  /\ k = a => ~s.in_word
  /\ k \in (a + 1)..(a + l) => ~s.quit /\ s.in_word /\ s.wordstart = a
  /\ k > a + l => \E m \in 1..Len(s.out) :
                    s.out[m] = W!Line(page.start + a, W!Text(page.start + a, l))

LEMMA WordStays ==
  ASSUME WordsGiven, NEW page, PageRight(page), NEW a \in Nat, NEW l \in Nat,
         IsWord(page, a, l), l \in opts.word_min..opts.word_max,
         NEW s, NEW n \in Nat, n < page.bufsize, ScanRight(s, n, page),
         WordKnown(s, n, page, a, l)
  PROVE  WordKnown(W!Step(s, n, page), n + 1, page, a, l)
<1> DEFINE next == W!Step(s, n, page)
           inside == ~W!Separated(page.start + n)
           text == W!Text(page.start + s.wordstart, n - s.wordstart)
           saved == W!Save(page.start + s.wordstart, text)
           line == W!Line(page.start + a, W!Text(page.start + a, l))
<1>1. /\ s \in ScanStates /\ s.in_word \in BOOLEAN /\ s.quit \in BOOLEAN
      /\ s.wordstart \in Nat /\ s.out \in Seq(Lines)
      /\ page.start \in Nat /\ page.pagesize \in Nat /\ page.bufsize \in Nat
  BY DEF ScanRight, ScanStates, PageRight
<1>2. /\ s.quit => next = s
      /\ ~s.quit /\ ~s.in_word =>
           next = [in_word |-> inside, wordstart |-> IF inside THEN n ELSE s.wordstart,
                   quit |-> n > page.pagesize, out |-> s.out]
      /\ ~s.quit /\ s.in_word /\ inside => next = s
      /\ ~s.quit /\ s.in_word /\ ~inside =>
           next = [in_word |-> FALSE, wordstart |-> 0, quit |-> FALSE, out |-> s.out \o saved]
  BY <1>1, StepIs
<1>3. /\ a <= page.pagesize /\ l >= 1 /\ a + l < page.bufsize
      /\ a = 0 \/ W!Separated(page.start + a - 1)
      /\ W!Separated(page.start + a + l)
      /\ \A j \in a..(a + l - 1) : ~W!Separated(page.start + j)
  BY <1>1 DEF IsWord
<1> HIDE DEF next, saved
<1>4. CASE n < a
  <2>1. ~s.quit /\ n <= page.pagesize
    BY <1>1, <1>3, <1>4 DEF WordKnown
  <2>2. ~next.quit
    BY <2>1, <1>1, <1>2
  <2>3. ASSUME n + 1 = a PROVE ~next.in_word
    <3>1. page.start + a - 1 = page.start + n /\ a # 0
      BY <2>3, <1>1
    <3>2. ~inside
      BY <3>1, <1>3
    <3> QED
      BY <3>2, <2>1, <1>1, <1>2
  <2> QED
    BY <2>2, <2>3, <1>4 DEF WordKnown, next
<1>5. CASE n = a
  <2>1. ~s.quit /\ ~s.in_word /\ inside
    BY <1>3, <1>5 DEF WordKnown
  <2>2. next = [in_word |-> inside, wordstart |-> IF inside THEN n ELSE s.wordstart,
                quit |-> n > page.pagesize, out |-> s.out]
    BY <1>2, <2>1
  <2>3. next.in_word = inside /\ next.wordstart = n /\ next.quit = (n > page.pagesize)
    BY <2>1, <2>2
  <2>4. ~(n > page.pagesize)
    BY <1>1, <1>3, <1>5
  <2>5. next.in_word /\ next.wordstart = a /\ ~next.quit
    BY <2>1, <2>3, <2>4, <1>5
  <2>6. n + 1 > a /\ n + 1 <= a + l
    BY <1>3, <1>5
  <2> QED
    BY <2>5, <2>6 DEF WordKnown, next
<1>6. CASE n \in (a + 1)..(a + l - 1)
  <2>1. ~s.quit /\ s.in_word /\ s.wordstart = a
    BY <1>6 DEF WordKnown
  <2>2. inside
    BY <1>3, <1>6
  <2>3. next = s
    BY <2>1, <2>2, <1>2
  <2>4. n + 1 \in (a + 1)..(a + l)
    BY <1>6
  <2> QED
    BY <2>1, <2>3, <2>4 DEF WordKnown, next
<1>7. CASE n = a + l
  <2>1. ~s.quit /\ s.in_word /\ s.wordstart = a
    BY <1>3, <1>7 DEF WordKnown
  <2>2. ~inside
    <3>1. page.start + a + l = page.start + n
      BY <1>1, <1>7
    <3> QED
      BY <3>1, <1>3
  <2>3. next = [in_word |-> FALSE, wordstart |-> 0, quit |-> FALSE, out |-> s.out \o saved]
    BY <2>1, <2>2, <1>2
  <2>4. saved \in Seq(Lines) /\ Len(saved) >= 1 /\ saved[1] = line
    <3> DEFINE p == page.start + a
    <3>1. p \in Nat /\ p + l <= Len(image)
      <4>1. Len(image) \in Nat
        BY BytesAre DEF WordsGiven
      <4>2. page.start + page.bufsize <= Len(image)
        BY DEF PageRight
      <4> QED
        BY <4>1, <4>2, <1>1, <1>3
    <3>2. n - s.wordstart = l
      BY <2>1, <1>7
    <3>3. saved = W!Save(p, W!Text(p, l))
      BY <2>1, <3>2 DEF saved
    <3>4. line = W!Line(p, W!Text(p, l))
      OBVIOUS
    <3> HIDE DEF p, line
    <3> QED
      BY <1>3, <3>1, <3>3, <3>4, SaveIs
  <2> DEFINE all == s.out \o saved
  <2>5. /\ Len(all) = Len(s.out) + Len(saved)
        /\ \A k \in 1..Len(s.out) + Len(saved) :
             all[k] = IF k <= Len(s.out) THEN s.out[k] ELSE saved[k - Len(s.out)]
    BY <1>1, <2>4, ConcatProperties
  <2> HIDE DEF all, line
  <2>6. PICK m : m = Len(s.out) + 1
    OBVIOUS
  <2>7. m \in 1..(Len(s.out) + Len(saved)) /\ ~(m <= Len(s.out)) /\ m - Len(s.out) = 1
    <3>1. Len(s.out) \in Nat /\ Len(saved) \in Nat
      BY <1>1, <2>4
    <3> QED
      BY <2>4, <2>6, <3>1
  <2>8. m \in 1..Len(all) /\ all[m] = line
    BY <2>4, <2>5, <2>7
  <2>9. next.out = all
    BY <2>3 DEF all
  <2> QED
    BY <2>8, <2>9, <1>3, <1>7 DEF WordKnown, next, line
<1>8. CASE n > a + l
  <2>1. PICK m \in 1..Len(s.out) : s.out[m] = line
    BY <1>8 DEF WordKnown
  <2>2. CASE ~(~s.quit /\ s.in_word /\ ~inside)
    <3>1. next.out = s.out
      BY <2>2, <1>1, <1>2
    <3> QED
      BY <2>1, <3>1, <1>3, <1>8 DEF WordKnown, next
  <2>3. CASE ~s.quit /\ s.in_word /\ ~inside
    <3>1. next.out = s.out \o saved
      BY <2>3, <1>2
    <3>2. saved \in Seq(Lines)
      <4> DEFINE p == page.start + s.wordstart
                 k == n - s.wordstart
      <4>1. InsideKnown(s, n, page)
        BY <2>3 DEF ScanRight
      <4>2. p \in Nat /\ k \in Nat /\ k >= 1 /\ p + k <= Len(image)
        <5>1. Len(image) \in Nat
          BY BytesAre DEF WordsGiven
        <5>2. page.start + page.bufsize <= Len(image)
          BY DEF PageRight
        <5>3. s.wordstart <= n - 1
          BY <4>1 DEF InsideKnown
        <5> DEFINE w == s.wordstart
        <5>6. w \in Nat /\ w <= n - 1 /\ page.start \in Nat
          BY <5>3, <1>1
        <5>4. p \in Nat /\ k \in Nat /\ k >= 1
          <6>1. p = page.start + w /\ k = n - w
            OBVIOUS
          <6> HIDE DEF p, k, w
          <6> QED
            BY <6>1, <5>6
        <5>5. p + k = page.start + n
          <6>1. p = page.start + w /\ k = n - w
            OBVIOUS
          <6> HIDE DEF p, k, w
          <6> QED
            BY <6>1, <5>6
        <5>7. page.start + n <= Len(image)
          BY <5>1, <5>2, <5>6, <1>1
        <5> HIDE DEF p, k
        <5> QED
          BY <5>4, <5>5, <5>7
      <4>3. saved = W!Save(p, W!Text(p, k))
        BY DEF saved
      <4> HIDE DEF p, k
      <4> QED
        BY <4>2, <4>3, SaveIs
    <3> DEFINE all == s.out \o saved
    <3>3. Len(all) = Len(s.out) + Len(saved) /\ \A k \in 1..Len(s.out) + Len(saved) :
            all[k] = IF k <= Len(s.out) THEN s.out[k] ELSE saved[k - Len(s.out)]
      BY <1>1, <3>2, ConcatProperties
    <3> HIDE DEF all, line
    <3>4. m \in 1..(Len(s.out) + Len(saved)) /\ m <= Len(s.out)
      <4>1. Len(s.out) \in Nat /\ Len(saved) \in Nat
        BY <1>1, <3>2
      <4> QED
        BY <4>1, <2>1
    <3>5. m \in 1..Len(all) /\ all[m] = line
      BY <2>1, <3>3, <3>4
    <3> QED
      BY <3>1, <3>5, <1>3, <1>8 DEF WordKnown, next, line, all
  <2> QED
    BY <2>2, <2>3
<1> QED
  BY <1>3, <1>4, <1>5, <1>6, <1>7, <1>8

LEMMA WordGiven ==
  ASSUME WordsGiven, NEW page, PageRight(page), NEW a \in Nat, NEW l \in Nat,
         IsWord(page, a, l), l \in opts.word_min..opts.word_max
  PROVE  \E m \in 1..Len(W!Words(page)) :
           W!Words(page)[m] = W!Line(page.start + a, W!Text(page.start + a, l))
<1> DEFINE N == page.bufsize
<1>1. PICK f : Scanned(f, page) /\ W!Words(page) = f[N].out
  BY WordsScanned
<1>2. N \in Nat /\ a + l < N
  BY DEF PageRight, IsWord
<1> DEFINE T == {k \in 0..N : WordKnown(f[k], k, page, a, l)}
<1>3. 0 \in T
  <2>1. f[0] = Beginning
    BY <1>1 DEF Scanned
  <2> QED
    BY <2>1, <1>2 DEF Beginning, WordKnown
<1>4. ASSUME NEW k \in 1..N, k - 1 \in T PROVE k \in T
  <2>1. f[k] = W!Step(f[k - 1], k - 1, page) /\ ScanRight(f[k - 1], k - 1, page)
    BY <1>1, <1>2, <1>4 DEF Scanned
  <2>2. PICK n \in Nat : n = k - 1 /\ n < page.bufsize /\ n + 1 = k
    BY <1>2
  <2>3. ScanRight(f[n], n, page) /\ WordKnown(f[n], n, page, a, l)
    BY <2>1, <2>2, <1>4
  <2>4. WordKnown(W!Step(f[n], n, page), n + 1, page, a, l)
    BY <2>2, <2>3, WordStays
  <2> QED
    BY <2>1, <2>2, <2>4
<1> HIDE DEF T, N
<1>5. \A k \in 0..N : k \in T
  BY <1>2, <1>3, <1>4, IntervalInduction
<1>6. WordKnown(f[N], N, page, a, l)
  BY <1>2, <1>5 DEF T
<1> QED
  BY <1>1, <1>2, <1>6 DEF WordKnown

-----------------------------------------------------------------------------
(* The pages of an image.                                                  *)

LEMMA Multiples ==
  ASSUME NEW P \in Nat \ {0}, NEW j \in Nat, NEW k \in Nat
  PROVE  /\ j * P \in Nat /\ (j * P) % P = 0 /\ j <= j * P
         /\ j < k => j * P + P <= k * P
<1>1. j * P \in Nat /\ j <= j * P
  OBVIOUS
<1>2. (j * P) % P = 0
  OBVIOUS
<1>3. ASSUME j < k PROVE j * P + P <= k * P
  <2>1. PICK d \in Nat : k = j + 1 + d
    BY <1>3
  <2>2. k * P = j * P + P + d * P /\ d * P \in Nat
    BY <2>1
  <2> QED
    BY <1>1, <2>2
<1> QED
  BY <1>1, <1>2, <1>3

LEMMA PageOf ==
  ASSUME NEW P \in Nat \ {0}, NEW p \in Nat
  PROVE  \E k, a \in Nat : p = k * P + a /\ a < P /\ k <= p
<1>1. p = (p \div P) * P + (p % P) /\ p % P \in 0..(P - 1) /\ p \div P \in Nat
  OBVIOUS
<1>2. (p \div P) <= (p \div P) * P
  BY <1>1, Multiples
<1>3. (p \div P) * P \in Nat
  BY <1>1, Multiples
<1> DEFINE k == p \div P
           a == p % P
<1>4. k \in Nat /\ a \in Nat /\ a < P /\ p = k * P + a
  BY <1>1
<1>5. k <= p
  BY <1>2, <1>3, <1>4
<1> HIDE DEF k, a
<1> QED
  BY <1>4, <1>5

LEMMA PagesAre ==
  ASSUME WordsGiven, NEW page \in W!Pages
  PROVE  /\ PageRight(page) /\ page = W!PageAt(page.start)
         /\ \E k \in Nat : page.start = k * opts.pagesize
         /\ page.bufsize <= opts.pagesize + opts.margin
<1>1. PICK k \in 0..Len(image) : k * opts.pagesize < Len(image) /\ page = W!PageAt(k * opts.pagesize)
  BY DEF W!Pages, W!Size
<1>2. Len(image) \in Nat /\ k \in Nat
  BY BytesAre DEF WordsGiven
<1>3. k * opts.pagesize \in Nat /\ opts.pagesize \in Nat /\ opts.margin \in Nat
  BY <1>2, Multiples DEF WordsGiven
<1> DEFINE start == k * opts.pagesize
<1>4. /\ page.start = start
      /\ page.pagesize = W!Smaller(opts.pagesize, Len(image) - start)
      /\ page.bufsize = W!Smaller(opts.pagesize + opts.margin, Len(image) - start)
  BY <1>1 DEF W!PageAt, W!Size
<1> HIDE DEF start
<1>5. start \in Nat /\ start < Len(image)
  BY <1>1, <1>3 DEF start
<1>6. PageRight(page) /\ page.bufsize <= opts.pagesize + opts.margin
  BY <1>2, <1>3, <1>4, <1>5 DEF PageRight, W!Smaller
<1> QED
  BY <1>1, <1>2, <1>4, <1>6 DEF start

LEMMA ApartOrSame ==
  ASSUME WordsGiven, NEW p \in W!Pages, NEW q \in W!Pages
  PROVE  p = q \/ p.start + opts.pagesize <= q.start \/ q.start + opts.pagesize <= p.start
<1>1. PICK j \in Nat : p.start = j * opts.pagesize
  BY PagesAre
<1>2. PICK k \in Nat : q.start = k * opts.pagesize
  BY PagesAre
<1>3. j < k \/ k < j \/ j = k
  OBVIOUS
<1>4. CASE j = k
  <2>1. p.start = q.start
    BY <1>1, <1>2, <1>4
  <2> QED
    BY <2>1, PagesAre
<1>5. opts.pagesize \in Nat \ {0}
  BY DEF WordsGiven
<1> QED
  BY <1>1, <1>2, <1>3, <1>4, <1>5, Multiples

-----------------------------------------------------------------------------
(* The words on their way to the feature file.                             *)

Gone(page) == Len(W!Words(page)) - Len(pending[page])
Pended ==
  /\ DOMAIN pending = W!Pages
  /\ \A page \in W!Pages :
       /\ pending[page] \in Seq(Lines) /\ Len(pending[page]) <= Len(W!Words(page))
       /\ \A i \in 1..Len(pending[page]) : pending[page][i] = W!Words(page)[Gone(page) + i]
(* Each line of the file is a word of a page, and each only once.          *)
Origins(from) ==
  /\ \A n \in 1..Len(flat_wordlist) :
       /\ from[n][1] \in W!Pages /\ from[n][2] \in 1..Gone(from[n][1])
       /\ flat_wordlist[n] = W!Words(from[n][1])[from[n][2]]
  /\ \A m, n \in 1..Len(flat_wordlist) : m # n => from[m] # from[n]
Written ==
  \A page \in W!Pages : \A i \in 1..Gone(page) :
    \E n \in 1..Len(flat_wordlist) : flat_wordlist[n] = W!Words(page)[i]
FlatInv ==
  /\ WordsGiven
  /\ Pended
  /\ flat_wordlist \in Seq(Lines)
  /\ \E from \in [1..Len(flat_wordlist) -> W!Pages \X Nat] : Origins(from)
  /\ Written
  /\ pc # "scan" => \A page \in W!Pages : pending[page] = <<>>

LEMMA FlatInit ==
  ASSUME W!ConstantsRight, W!Init
  PROVE  FlatInv
<1>1. WordsGiven
  BY DEF W!ConstantsRight, W!Init, WordsGiven
<1>2. pending = [page \in W!Pages |-> W!Words(page)] /\ flat_wordlist = <<>> /\ pc = "scan"
  BY DEF W!Init
<1>3. \A page \in W!Pages : W!Words(page) \in Seq(Lines) /\ Len(W!Words(page)) \in Nat
  <2>1. ASSUME NEW page \in W!Pages PROVE W!Words(page) \in Seq(Lines)
    BY <1>1, PagesAre, WordsRight
  <2> QED
    BY <2>1
<1>4. \A page \in W!Pages : pending[page] = W!Words(page) /\ Gone(page) = 0
  BY <1>2, <1>3 DEF Gone
<1>5. Pended
  <2>1. ASSUME NEW page \in W!Pages, NEW i \in 1..Len(pending[page])
        PROVE  pending[page][i] = W!Words(page)[Gone(page) + i]
    BY <1>3, <1>4
  <2> QED
    BY <1>2, <1>3, <1>4, <2>1 DEF Pended
<1>6. Len(flat_wordlist) = 0 /\ flat_wordlist \in Seq(Lines)
  BY <1>2
<1>7. \E from \in [1..Len(flat_wordlist) -> W!Pages \X Nat] : Origins(from)
  <2> DEFINE from == [n \in {} |-> <<>>]
  <2>1. from \in [1..0 -> W!Pages \X Nat]
    OBVIOUS
  <2>2. Origins(from)
    BY <1>6 DEF Origins
  <2> QED
    BY <1>6, <2>1, <2>2
<1>8. Written
  BY <1>4 DEF Written
<1> QED
  BY <1>1, <1>2, <1>5, <1>6, <1>7, <1>8 DEF FlatInv

LEMMA FlatUnchanged ==
  ASSUME FlatInv, UNCHANGED <<image, opts, pending, flat_wordlist>>,
         pc' # "scan" => \A page \in W!Pages : pending[page] = <<>>
  PROVE  FlatInv'
<1>1. W!Pages' = W!Pages /\ \A page : W!Words(page)' = W!Words(page)
  BY DEF W!Pages, W!Words, W!PageAt, W!Size, W!Smaller, W!Step, W!WordChar, W!Byte, W!Save, W!Line,
         W!Text, W!Quoted, W!Bracketed, W!Brackets
<1>2. \A page : Gone(page)' = Gone(page)
  BY <1>1 DEF Gone
<1>3. WordsGiven' /\ Pended' /\ Written' /\ flat_wordlist' \in Seq(Lines)
  BY <1>1, <1>2 DEF FlatInv, WordsGiven, Pended, Written
<1>4. \A from : Origins(from) => Origins(from)'
  BY <1>1, <1>2 DEF Origins
<1>5. \E from \in [1..Len(flat_wordlist') -> W!Pages' \X Nat] : Origins(from)'
  <2>1. PICK from \in [1..Len(flat_wordlist) -> W!Pages \X Nat] : Origins(from)
    BY DEF FlatInv
  <2>2. from \in [1..Len(flat_wordlist') -> W!Pages' \X Nat]
    BY <2>1, <1>1
  <2> QED
    BY <2>1, <2>2, <1>4
<1> QED
  BY <1>1, <1>3, <1>5 DEF FlatInv

LEMMA FlatWrite ==
  ASSUME FlatInv, NEW page \in DOMAIN pending, W!Write(page)
  PROVE  FlatInv'
<1>1. /\ pc = "scan" /\ pending[page] # <<>> /\ pc' = "scan"
      /\ flat_wordlist' = Append(flat_wordlist, Head(pending[page]))
      /\ pending' = [pending EXCEPT ![page] = Tail(@)]
      /\ UNCHANGED <<image, opts>>
  BY DEF W!Write
<1>2. /\ WordsGiven /\ Pended /\ Written /\ flat_wordlist \in Seq(Lines) /\ page \in W!Pages
      /\ Len(flat_wordlist) \in Nat
  BY DEF FlatInv, Pended
<1>3. W!Pages' = W!Pages /\ \A p : W!Words(p)' = W!Words(p)
  BY <1>1 DEF W!Pages, W!Words, W!PageAt, W!Size, W!Smaller, W!Step, W!WordChar, W!Byte, W!Save,
              W!Line, W!Text, W!Quoted, W!Bracketed, W!Brackets
<1> DEFINE k == Gone(page) + 1
           line == Head(pending[page])
           N == Len(flat_wordlist)
<1>4. /\ pending[page] \in Seq(Lines) /\ Len(pending[page]) \in Nat \ {0}
      /\ Len(pending[page]) <= Len(W!Words(page)) /\ Len(W!Words(page)) \in Nat
      /\ \A i \in 1..Len(pending[page]) : pending[page][i] = W!Words(page)[Gone(page) + i]
  <2>1. pending[page] \in Seq(Lines) /\ Len(pending[page]) \in Nat \ {0}
    BY <1>1, <1>2, EmptySeq DEF Pended
  <2>2. W!Words(page) \in Seq(Lines)
    BY <1>2, PagesAre, WordsRight
  <2> QED
    BY <1>2, <2>1, <2>2 DEF Pended
<1>5. k \in 1..Len(W!Words(page)) /\ line = W!Words(page)[k] /\ line \in Lines
  <2>1. k \in 1..Len(W!Words(page))
    BY <1>4 DEF Gone
  <2>2. line = pending[page][1] /\ pending[page][1] = W!Words(page)[Gone(page) + 1]
    BY <1>4
  <2>3. line \in Lines
    BY <1>1, <1>4, HeadTailProperties
  <2> QED
    BY <2>1, <2>2, <2>3
<1>6. /\ \A p \in W!Pages : p # page => pending'[p] = pending[p]
      /\ pending'[page] = Tail(pending[page])
      /\ DOMAIN pending' = W!Pages
  BY <1>1, <1>2 DEF Pended
<1>7. /\ pending'[page] \in Seq(Lines) /\ Len(pending'[page]) = Len(pending[page]) - 1
      /\ \A i \in 1..Len(pending'[page]) : pending'[page][i] = pending[page][i + 1]
  BY <1>1, <1>4, <1>6, HeadTailProperties
<1>8. Gone(page)' = k /\ \A p \in W!Pages : p # page => Gone(p)' = Gone(p)
  <2>1. Gone(page)' = k
    <3>1. Gone(page)' = Len(W!Words(page)) - Len(pending'[page])
      BY <1>3 DEF Gone
    <3>2. Gone(page) = Len(W!Words(page)) - Len(pending[page])
      BY DEF Gone
    <3> QED
      BY <3>1, <3>2, <1>4, <1>7
  <2>2. \A p \in W!Pages : p # page => Gone(p)' = Gone(p)
    BY <1>3, <1>6 DEF Gone
  <2> QED
    BY <2>1, <2>2
<1>9. Pended'
  <2>1. ASSUME NEW p \in W!Pages
        PROVE  /\ pending'[p] \in Seq(Lines) /\ Len(pending'[p]) <= Len(W!Words(p))
               /\ \A i \in 1..Len(pending'[p]) : pending'[p][i] = W!Words(p)[Gone(p)' + i]
    <3>1. CASE p # page
      BY <3>1, <1>2, <1>6, <1>8 DEF Pended
    <3>2. CASE p = page
      <4>1. ASSUME NEW i \in 1..Len(pending'[page])
            PROVE  pending'[page][i] = W!Words(page)[k + i]
        <5>1. i + 1 \in 1..Len(pending[page])
          BY <1>4, <1>7
        <5>2. pending[page][i + 1] = W!Words(page)[Gone(page) + (i + 1)]
          BY <5>1, <1>4
        <5>3. Gone(page) + (i + 1) = k + i
          BY <1>4 DEF Gone
        <5> QED
          BY <5>2, <5>3, <1>7
      <4>2. Len(pending'[page]) <= Len(W!Words(page))
        BY <1>4, <1>7
      <4> HIDE DEF k
      <4> QED
        BY <3>2, <4>1, <4>2, <1>7, <1>8
    <3> QED
      BY <3>1, <3>2
  <2> QED
    BY <2>1, <1>3, <1>6 DEF Pended
<1> HIDE DEF k, line, N
<1>10. /\ flat_wordlist' \in Seq(Lines) /\ Len(flat_wordlist') = N + 1
       /\ \A n \in 1..N : flat_wordlist'[n] = flat_wordlist[n]
       /\ flat_wordlist'[N + 1] = line
  BY <1>1, <1>2, <1>5 DEF line, N
<1>11. N \in Nat /\ k \in Nat /\ \A p \in W!Pages : Gone(p) \in Int
  <2>1. ASSUME NEW p \in W!Pages PROVE Gone(p) \in Int
    <3>1. W!Words(p) \in Seq(Lines)
      BY <1>2, PagesAre, WordsRight
    <3>2. pending[p] \in Seq(Lines)
      BY <1>2 DEF Pended
    <3> QED
      BY <3>1, <3>2 DEF Gone
  <2> QED
    BY <2>1, <1>2, <1>5 DEF N, k
<1>12. k = Gone(page) + 1
  BY DEF k
<1>13. PICK from \in [1..N -> W!Pages \X Nat] : Origins(from)
  BY DEF FlatInv, N
<1>14. PICK from2 \in [1..(N + 1) -> W!Pages \X Nat] :
         (\A n \in 1..N : from2[n] = from[n]) /\ from2[N + 1] = <<page, k>>
  <2> DEFINE f == [n \in 1..(N + 1) |-> IF n = N + 1 THEN <<page, k>> ELSE from[n]]
  <2>1. f \in [1..(N + 1) -> W!Pages \X Nat]
    BY <1>2, <1>11
  <2>2. (\A n \in 1..N : f[n] = from[n]) /\ f[N + 1] = <<page, k>>
    BY <1>11
  <2> HIDE DEF f
  <2> QED
    BY <2>1, <2>2
<1>15. /\ \A n \in 1..N : from2[n] = from[n] /\ from[n] \in W!Pages \X Nat
       /\ from2[N + 1] = <<page, k>>
  BY <1>14
<1>16. /\ \A n \in 1..N :
            /\ from[n][1] \in W!Pages /\ from[n][2] \in 1..Gone(from[n][1])
            /\ flat_wordlist[n] = W!Words(from[n][1])[from[n][2]]
       /\ \A m, n \in 1..N : m # n => from[m] # from[n]
  BY <1>13 DEF Origins, N
<1>17. Origins(from2)'
  <2>1. ASSUME NEW n \in 1..(N + 1)
        PROVE  /\ from2[n][1] \in W!Pages /\ from2[n][2] \in 1..Gone(from2[n][1])'
               /\ flat_wordlist'[n] = W!Words(from2[n][1])[from2[n][2]]
    <3>1. CASE n \in 1..N
      <4>1. Gone(from[n][1])' \in Int /\ Gone(from[n][1]) <= Gone(from[n][1])'
        <5>1. ASSUME NEW p \in W!Pages PROVE Gone(p)' \in Int /\ Gone(p) <= Gone(p)'
          <6>1. Gone(p) \in Int
            BY <1>11
          <6>2. CASE p = page
            BY <6>1, <6>2, <1>8, <1>12
          <6>3. CASE p # page
            BY <6>1, <6>3, <1>8
          <6> QED
            BY <6>2, <6>3
        <5>2. from[n][1] \in W!Pages
          BY <3>1, <1>16
        <5> QED
          BY <5>1, <5>2
      <4>2. from2[n] = from[n] /\ flat_wordlist'[n] = flat_wordlist[n]
        BY <3>1, <1>10, <1>15
      <4>3. from[n][2] \in 1..Gone(from[n][1]) /\ Gone(from[n][1]) \in Int
        BY <3>1, <1>11, <1>16
      <4>4. from[n][2] \in 1..Gone(from[n][1])'
        BY <4>1, <4>3
      <4> QED
        BY <3>1, <4>2, <4>4, <1>16
    <3>2. CASE n = N + 1
      <4>1. from2[n][1] = page /\ from2[n][2] = k
        BY <3>2, <1>15
      <4>2. k \in 1..k
        BY <1>5
      <4> QED
        BY <4>1, <4>2, <3>2, <1>2, <1>5, <1>8, <1>10
    <3> QED
      BY <3>1, <3>2, <1>11
  <2>2. ASSUME NEW m \in 1..(N + 1), NEW n \in 1..(N + 1), m # n PROVE from2[m] # from2[n]
    <3>1. ASSUME NEW j \in 1..N PROVE from2[j] # from2[N + 1]
      <4>1. CASE from[j][1] # page
        BY <4>1, <1>15
      <4>2. CASE from[j][1] = page
        <5>1. from[j][2] \in 1..Gone(page) /\ Gone(page) \in Int
          BY <4>2, <1>2, <1>11, <1>16
        <5>2. from[j][2] # k
          BY <5>1, <1>12
        <5> QED
          BY <5>2, <1>15
      <4> QED
        BY <4>1, <4>2
    <3>2. CASE m \in 1..N /\ n \in 1..N
      BY <3>2, <2>2, <1>15, <1>16
    <3>3. CASE m = N + 1
      <4>1. n \in 1..N
        BY <3>3, <2>2, <1>11
      <4> QED
        BY <4>1, <3>1, <3>3
    <3>4. CASE n = N + 1
      <4>1. m \in 1..N
        BY <3>4, <2>2, <1>11
      <4> QED
        BY <4>1, <3>1, <3>4
    <3> QED
      BY <3>2, <3>3, <3>4, <1>11
  <2> QED
    BY <2>1, <2>2, <1>3, <1>10 DEF Origins
<1>18. Written'
  <2>1. ASSUME NEW p \in W!Pages, NEW i \in 1..Gone(p)'
        PROVE  \E n \in 1..(N + 1) : flat_wordlist'[n] = W!Words(p)[i]
    <3>1. CASE i \in 1..Gone(p)
      <4>1. PICK n \in 1..N : flat_wordlist[n] = W!Words(p)[i]
        BY <3>1, <1>2 DEF Written, N
      <4>2. n \in 1..(N + 1) /\ flat_wordlist'[n] = flat_wordlist[n]
        BY <1>10, <1>11
      <4> QED
        BY <4>1, <4>2
    <3>2. CASE i \notin 1..Gone(p)
      <4>1. p = page /\ i = k
        <5>1. p = page
          BY <3>2, <1>8
        <5>2. i \in 1..k /\ i \notin 1..Gone(page)
          BY <5>1, <3>2, <1>8
        <5> QED
          BY <5>1, <5>2, <1>2, <1>11, <1>12
      <4>2. N + 1 \in 1..(N + 1)
        BY <1>11
      <4> QED
        BY <4>1, <4>2, <1>5, <1>10
    <3> QED
      BY <3>1, <3>2
  <2> QED
    BY <2>1, <1>3, <1>10 DEF Written
<1>19. WordsGiven'
  BY <1>1, <1>2 DEF WordsGiven
<1>20. \E f \in [1..Len(flat_wordlist') -> W!Pages' \X Nat] : Origins(f)'
  BY <1>3, <1>10, <1>14, <1>17
<1> QED
  BY <1>1, <1>9, <1>10, <1>18, <1>19, <1>20 DEF FlatInv

LEMMA FlatNext ==
  ASSUME FlatInv, [W!Next]_W!vars
  PROVE  FlatInv'
<1>1. DOMAIN pending = W!Pages /\ (pc # "scan" => \A page \in W!Pages : pending[page] = <<>>)
  BY DEF FlatInv, Pended
<1>2. ASSUME NEW page \in DOMAIN pending, W!Write(page) PROVE FlatInv'
  BY <1>2, FlatWrite
<1>3. CASE W!Shutdown
  <2>1. UNCHANGED <<image, opts, pending, flat_wordlist>> /\ \A page \in W!Pages : pending[page] = <<>>
    BY <1>1, <1>3 DEF W!Shutdown
  <2> QED
    BY <2>1, FlatUnchanged
<1>4. CASE W!Insert
  <2>1. UNCHANGED <<image, opts, pending, flat_wordlist>> /\ pc = "dedup"
    BY <1>4 DEF W!Insert
  <2> QED
    BY <1>1, <2>1, FlatUnchanged
<1>5. CASE W!InsertFails
  <2>1. UNCHANGED <<image, opts, pending, flat_wordlist>> /\ pc = "dedup"
    BY <1>5 DEF W!InsertFails
  <2> QED
    BY <1>1, <2>1, FlatUnchanged
<1>6. CASE W!Dump
  <2>1. UNCHANGED <<image, opts, pending, flat_wordlist>> /\ pc = "dedup"
    BY <1>6 DEF W!Dump
  <2> QED
    BY <1>1, <2>1, FlatUnchanged
<1>7. CASE UNCHANGED W!vars
  <2>1. UNCHANGED <<image, opts, pending, flat_wordlist, pc>>
    BY <1>7 DEF W!vars
  <2> QED
    BY <1>1, <2>1, FlatUnchanged
<1> QED
  BY <1>2, <1>3, <1>4, <1>5, <1>6, <1>7 DEF W!Next

(* Every word of the image with something behind it begins in a page, and  *)
(* a margin as long as the longest word holds the rest of it.              *)
LEMMA AllAreWritten ==
  ASSUME FlatInv
  PROVE  W!AllWordsWritten
<1> DEFINE P == opts.pagesize
<1>1. WordsGiven /\ P \in Nat \ {0} /\ opts.margin \in Nat /\ opts.word_min \in Nat /\ opts.word_max \in Nat
      /\ Len(image) \in Nat
  BY BytesAre DEF FlatInv, WordsGiven
<1>2. SUFFICES ASSUME pc # "scan", opts.margin >= opts.word_max, NEW w \in W!Legal,
                      w[1] + w[2] < Len(image)
               PROVE  W!Line(w[1], W!Text(w[1], w[2])) \in W!Range(flat_wordlist)
  BY DEF W!AllWordsWritten, W!Size
<1> DEFINE p == w[1]
           l == w[2]
<1>3. /\ p \in Nat /\ l \in opts.word_min..opts.word_max /\ l > 0
      /\ W!Separated(p - 1) /\ W!Separated(p + l)
      /\ \A i \in p..(p + l - 1) : ~W!Separated(i)
  BY <1>1 DEF W!Legal, W!WholeWord, W!Size
<1>4. p + l < Len(image)
  BY <1>2
<1> HIDE DEF p, l, P
<1>5. PICK k, a \in Nat : p = k * P + a /\ a < P /\ k <= p
  BY <1>1, <1>3, PageOf
<1> DEFINE start == k * P
           page == W!PageAt(start)
<1>6. start \in Nat
  BY <1>1, Multiples
<1>7. l \in Nat
  BY <1>1, <1>3
<1> HIDE DEF start
<1>8. p = start + a
  BY <1>5 DEF start
<1>9. page \in W!Pages
  <2>1. k \in 0..Len(image) /\ start < Len(image)
    BY <1>1, <1>3, <1>4, <1>5, <1>6, <1>7, <1>8
  <2> QED
    BY <2>1 DEF W!Pages, W!Size, start, P
<1>10. /\ page.start = start
       /\ page.pagesize = W!Smaller(P, Len(image) - start)
       /\ page.bufsize = W!Smaller(P + opts.margin, Len(image) - start)
  BY DEF W!PageAt, W!Size, P
<1> HIDE DEF page
<1>11. a <= page.pagesize /\ a + l < page.bufsize /\ page.pagesize \in Nat
  <2>1. a < P /\ a < Len(image) - start /\ a + l < Len(image) - start
    BY <1>1, <1>4, <1>5, <1>6, <1>7, <1>8
  <2>2. l <= opts.margin
    BY <1>1, <1>2, <1>3
  <2> QED
    BY <2>1, <2>2, <1>1, <1>6, <1>7, <1>10 DEF W!Smaller
<1>12. IsWord(page, a, l)
  <2>1. page.start + a = p /\ page.start + a - 1 = p - 1 /\ page.start + a + l = p + l
    BY <1>6, <1>7, <1>8, <1>10
  <2>2. ASSUME NEW j \in a..(a + l - 1) PROVE ~W!Separated(page.start + j)
    <3>1. PICK i \in p..(p + l - 1) : i = page.start + j
      BY <1>6, <1>7, <1>8, <1>10
    <3> QED
      BY <3>1, <1>3
  <2>3. a \in 0..page.pagesize
    BY <1>11
  <2>4. l \in Nat /\ l >= 1
    BY <1>3, <1>7
  <2> QED
    BY <2>1, <2>2, <2>3, <2>4, <1>3, <1>11 DEF IsWord
<1>13. PICK m \in 1..Len(W!Words(page)) : W!Words(page)[m] = W!Line(p, W!Text(p, l))
  <2>1. PageRight(page)
    BY <1>1, <1>9, PagesAre
  <2>2. page.start + a = p
    BY <1>8, <1>10
  <2> QED
    BY <2>1, <2>2, <1>1, <1>3, <1>7, <1>12, WordGiven
<1>14. Gone(page) = Len(W!Words(page))
  <2>1. pending[page] = <<>>
    BY <1>2, <1>9 DEF FlatInv
  <2>2. W!Words(page) \in Seq(Lines)
    BY <1>1, <1>9, PagesAre, WordsRight
  <2> QED
    BY <2>1, <2>2 DEF Gone
<1>15. PICK n \in 1..Len(flat_wordlist) : flat_wordlist[n] = W!Words(page)[m]
  BY <1>9, <1>13, <1>14 DEF FlatInv, Written
<1>16. n \in DOMAIN flat_wordlist
  BY DEF FlatInv
<1> QED
  BY <1>13, <1>15, <1>16 DEF W!Range, p, l

LEMMA NothingIsInvented ==
  ASSUME FlatInv
  PROVE  W!NothingInvented
<1>1. WordsGiven /\ Len(image) \in Nat /\ flat_wordlist \in Seq(Lines) /\ opts.pagesize \in Nat \ {0}
  BY BytesAre DEF FlatInv, WordsGiven
<1>2. PICK from \in [1..Len(flat_wordlist) -> W!Pages \X Nat] : Origins(from)
  BY DEF FlatInv
<1>3. ASSUME NEW n \in DOMAIN flat_wordlist
      PROVE  \E length \in 1..Len(image) :
               LET line == flat_wordlist[n] IN
                 /\ line.pos + length <= Len(image)
                 /\ line.word = W!Quoted(W!Text(line.pos, length))
                 /\ W!Cut(line.pos, length) \/ (line.pos > 0 /\ W!Cut(line.pos - 1, length + 2))
  <2> DEFINE line == flat_wordlist[n]
             page == from[n][1]
  <2>1. n \in 1..Len(flat_wordlist)
    BY <1>1
  <2>2. page \in W!Pages /\ from[n][2] \in 1..Gone(page) /\ line = W!Words(page)[from[n][2]]
    BY <1>2, <2>1 DEF Origins
  <2> HIDE DEF page, line
  <2>3. from[n][2] \in 1..Len(W!Words(page)) /\ W!Words(page) \in Seq(Lines)
    <3>1. W!Words(page) \in Seq(Lines)
      BY <1>1, <2>2, PagesAre, WordsRight
    <3>2. pending[page] \in Seq(Lines)
      BY <2>2 DEF FlatInv, Pended
    <3> QED
      BY <2>2, <3>1, <3>2 DEF Gone
  <2>4. PICK a, l \in Nat : IsWord(page, a, l) /\ OfWord(line, page, a, l)
    <3>1. OutRight(W!Words(page), page.bufsize, page)
      BY <1>1, <2>2, PagesAre, WordsRight
    <3> QED
      BY <2>2, <2>3, <3>1 DEF OutRight
  <2>5. PICK k \in Nat : page.start = k * opts.pagesize
    BY <1>1, <2>2, PagesAre
  <2>6. /\ page.start \in Nat /\ page.bufsize \in Nat /\ page.pagesize \in Nat
        /\ page.start + page.bufsize <= Len(image)
    BY <1>1, <2>2, PagesAre DEF PageRight
  <2> DEFINE p == page.start + a
  <2>7. p \in Nat /\ p + l < Len(image) /\ l >= 1
    BY <1>1, <2>4, <2>6 DEF IsWord
  <2>8. W!Cut(p, l)
    <3>1. W!Separated(p - 1) \/ p % opts.pagesize = 0
      <4>1. CASE a = 0
        <5>1. p = k * opts.pagesize
          BY <4>1, <2>5, <2>6
        <5> QED
          BY <5>1, <1>1, Multiples
      <4>2. CASE a # 0
        <5>1. W!Separated(page.start + a - 1)
          <6>1. IsWord(page, a, l)
            BY <2>4
          <6> QED
            BY <4>2, <6>1, Zenon DEF IsWord
        <5>2. page.start + a - 1 = p - 1
          BY <2>6
        <5> HIDE DEF p
        <5> QED
          BY <5>1, <5>2
      <4> QED
        BY <4>1, <4>2
    <3>2. ASSUME NEW i \in p..(p + l - 1) PROVE ~W!Separated(i)
      <4>1. PICK j \in a..(a + l - 1) : page.start + j = i
        <5> DEFINE start == page.start
        <5>1. start \in Nat /\ p = start + a
          BY <2>6
        <5> HIDE DEF start, p
        <5>2. i - start \in a..(a + l - 1) /\ start + (i - start) = i
          BY <5>1
        <5> QED
          BY <5>2 DEF start
      <4> QED
        BY <4>1, <2>4 DEF IsWord
    <3>3. W!Separated(p + l)
      BY <2>4 DEF IsWord
    <3> QED
      BY <3>1, <3>2, <3>3 DEF W!Cut, W!Begins, W!AtPageStart
  <2> HIDE DEF p
  <2>9. CASE line = W!Line(p, W!Text(p, l))
    <3>1. line.pos = p /\ line.word = W!Quoted(W!Text(p, l))
      BY <2>9 DEF W!Line
    <3>2. l \in 1..Len(image) /\ p + l <= Len(image)
      BY <1>1, <2>7
    <3> QED
      BY <3>1, <3>2, <2>8 DEF line
  <2>10. CASE l > 2 /\ line = W!Line(p + 1, W!Text(p + 1, l - 2))
    <3>1. line.pos = p + 1 /\ line.word = W!Quoted(W!Text(p + 1, l - 2))
      BY <2>10 DEF W!Line
    <3> DEFINE length == l - 2
    <3>2. length \in 1..Len(image) /\ p + 1 + length <= Len(image) /\ length + 2 = l /\ p + 1 - 1 = p /\ p + 1 > 0
      BY <1>1, <2>7, <2>10
    <3>3. line.word = W!Quoted(W!Text(p + 1, length))
      BY <3>1
    <3> HIDE DEF length
    <3>4. /\ line.pos + length <= Len(image) /\ line.word = W!Quoted(W!Text(line.pos, length))
          /\ line.pos > 0 /\ W!Cut(line.pos - 1, length + 2)
      <4>0. line.pos = p + 1
        BY <3>1
      <4>1. line.pos + length <= Len(image)
        BY <4>0, <3>2
      <4>2. line.pos - 1 = p /\ line.pos > 0
        BY <4>0, <2>7
      <4>3. W!Cut(line.pos - 1, length + 2)
        BY <4>2, <3>2, <2>8, Zenon
      <4>4. line.word = W!Quoted(W!Text(line.pos, length))
        BY <4>0, <3>3, Zenon
      <4> QED
        BY <4>1, <4>2, <4>3, <4>4, Zenon
    <3> QED
      BY <3>2, <3>4 DEF line
  <2> QED
    BY <2>4, <2>9, <2>10 DEF OfWord, p
<1> QED
  BY <1>3 DEF W!NothingInvented, W!Size

(* Two pages write about the same place only if one of them begins there.  *)
LEMMA OverlapAtPageStart ==
  ASSUME WordsGiven, NEW p \in W!Pages, NEW q \in W!Pages, p.start + opts.pagesize <= q.start,
         NEW line, NEW a \in Nat, NEW l \in Nat, IsWord(p, a, l), OfWord(line, p, a, l),
         NEW b \in Nat, NEW m \in Nat, IsWord(q, b, m), OfWord(line, q, b, m)
  PROVE  W!AtPageStart(line.pos) \/ (W!AtPageStart(line.pos - 1) /\ ~W!Separated(line.pos - 1))
<1>1. /\ p.start \in Nat /\ q.start \in Nat /\ opts.pagesize \in Nat \ {0} /\ p.pagesize \in Nat
      /\ p.pagesize <= opts.pagesize
  BY PagesAre DEF PageRight, WordsGiven
<1>2. q.start % opts.pagesize = 0
  <2>1. PICK k \in Nat : q.start = k * opts.pagesize
    BY PagesAre
  <2> QED
    BY <2>1, <1>1, Multiples
<1>3. a <= p.pagesize /\ l >= 1
  BY <1>1 DEF IsWord
<1>4. line.pos = p.start + a \/ (l > 2 /\ line.pos = p.start + a + 1)
  BY DEF OfWord, W!Line
<1>5. line.pos = q.start + b \/ line.pos = q.start + b + 1
  BY DEF OfWord, W!Line
<1>6. line.pos = q.start \/ (line.pos = q.start + 1 /\ l > 2 /\ q.start = p.start + a)
  BY <1>1, <1>3, <1>4, <1>5
<1>7. CASE line.pos = q.start
  BY <1>2, <1>7 DEF W!AtPageStart
<1>8. CASE line.pos = q.start + 1 /\ l > 2 /\ q.start = p.start + a
  <2>1. line.pos - 1 = q.start
    BY <1>1, <1>8
  <2>2. a \in a..(a + l - 1)
    BY <1>3
  <2>3. ~W!Separated(p.start + a)
    BY <2>2 DEF IsWord
  <2> QED
    BY <2>1, <2>3, <1>2, <1>8 DEF W!AtPageStart
<1> QED
  BY <1>6, <1>7, <1>8

LEMMA TwiceAtPageStart ==
  ASSUME FlatInv
  PROVE  W!TwiceOnlyAtPageStart
<1>1. WordsGiven /\ flat_wordlist \in Seq(Lines)
  BY DEF FlatInv
<1>2. PICK from \in [1..Len(flat_wordlist) -> W!Pages \X Nat] : Origins(from)
  BY DEF FlatInv
<1>3. ASSUME NEW n \in 1..Len(flat_wordlist)
      PROVE  /\ from[n][1] \in W!Pages /\ from[n][2] \in 1..Len(W!Words(from[n][1]))
             /\ flat_wordlist[n] = W!Words(from[n][1])[from[n][2]]
             /\ W!Words(from[n][1]) \in Seq(Lines)
             /\ \E a, l \in Nat : IsWord(from[n][1], a, l) /\ OfWord(flat_wordlist[n], from[n][1], a, l)
  <2> DEFINE page == from[n][1]
             k == from[n][2]
  <2>1. page \in W!Pages /\ k \in 1..Gone(page) /\ flat_wordlist[n] = W!Words(page)[k]
    BY <1>2 DEF Origins
  <2> HIDE DEF page, k
  <2>2. W!Words(page) \in Seq(Lines) /\ OutRight(W!Words(page), page.bufsize, page)
    BY <1>1, <2>1, PagesAre, WordsRight
  <2>3. pending[page] \in Seq(Lines)
    BY <2>1 DEF FlatInv, Pended
  <2>4. k \in 1..Len(W!Words(page))
    BY <2>1, <2>2, <2>3 DEF Gone
  <2>5. \E a, l \in Nat : IsWord(page, a, l) /\ OfWord(flat_wordlist[n], page, a, l)
    BY <2>1, <2>2, <2>4 DEF OutRight
  <2> QED
    BY <2>1, <2>2, <2>4, <2>5 DEF page, k
<1>4. ASSUME NEW m \in 1..Len(flat_wordlist), NEW n \in 1..Len(flat_wordlist), m < n,
             flat_wordlist[m] = flat_wordlist[n]
      PROVE  LET pos == flat_wordlist[m].pos IN
             W!AtPageStart(pos) \/ (W!AtPageStart(pos - 1) /\ ~W!Separated(pos - 1))
  <2> DEFINE p == from[m][1]
             q == from[n][1]
             j == from[m][2]
             k == from[n][2]
             line == flat_wordlist[m]
  <2>1. /\ p \in W!Pages /\ j \in 1..Len(W!Words(p)) /\ line = W!Words(p)[j] /\ W!Words(p) \in Seq(Lines)
        /\ \E a, l \in Nat : IsWord(p, a, l) /\ OfWord(line, p, a, l)
    BY <1>3
  <2>2. /\ q \in W!Pages /\ k \in 1..Len(W!Words(q)) /\ line = W!Words(q)[k]
        /\ \E a, l \in Nat : IsWord(q, a, l) /\ OfWord(line, q, a, l)
    BY <1>3, <1>4
  <2>3. ~(p = q /\ j = k)
    <3>1. from[m] = <<p, j>> /\ from[n] = <<q, k>>
      OBVIOUS
    <3>2. from[m] # from[n]
      <4>1. m # n
        BY <1>4
      <4> QED
        BY <4>1, <1>2 DEF Origins
    <3> QED
      BY <3>1, <3>2
  <2> HIDE DEF p, q, j, k, line
  <2>4. p # q
    <3>1. SUFFICES ASSUME p = q PROVE FALSE
      OBVIOUS
    <3>2. OutOrdered(W!Words(p))
      BY <1>1, <2>1, PagesAre, WordsRight
    <3>3. j < k \/ k < j
      BY <2>1, <2>2, <2>3, <3>1
    <3>4. \A i \in 1..Len(W!Words(p)) : W!Words(p)[i].pos \in Int
      BY <2>1, LinesHave
    <3>5. W!Words(p)[j].pos < W!Words(p)[k].pos \/ W!Words(p)[k].pos < W!Words(p)[j].pos
      BY <2>1, <2>2, <3>1, <3>2, <3>3 DEF OutOrdered
    <3>6. W!Words(p)[j] = W!Words(p)[k] /\ W!Words(p)[j].pos \in Int
      BY <2>1, <2>2, <3>1, <3>4
    <3> QED
      BY <3>5, <3>6
  <2>5. p.start + opts.pagesize <= q.start \/ q.start + opts.pagesize <= p.start
    BY <1>1, <2>1, <2>2, <2>4, ApartOrSame
  <2>6. W!AtPageStart(line.pos) \/ (W!AtPageStart(line.pos - 1) /\ ~W!Separated(line.pos - 1))
    <3>1. PICK a, l \in Nat : IsWord(p, a, l) /\ OfWord(line, p, a, l)
      BY <2>1
    <3>2. PICK b, i \in Nat : IsWord(q, b, i) /\ OfWord(line, q, b, i)
      BY <2>2
    <3>3. CASE p.start + opts.pagesize <= q.start
      BY <3>1, <3>2, <3>3, <1>1, <2>1, <2>2, OverlapAtPageStart
    <3>4. CASE q.start + opts.pagesize <= p.start
      BY <3>1, <3>2, <3>4, <1>1, <2>1, <2>2, OverlapAtPageStart
    <3> QED
      BY <3>3, <3>4, <2>5
  <2> QED
    BY <2>6 DEF line
<1>5. DOMAIN flat_wordlist = 1..Len(flat_wordlist)
  BY <1>1
<1> QED
  BY <1>4, <1>5 DEF W!TwiceOnlyAtPageStart

-----------------------------------------------------------------------------
(* The order of the words of pass 2.                                       *)

Elder(a, b, i) == i \in 1..Len(a) /\ a[i] < b[i] /\ \A j \in 1..(i - 1) : a[j] = b[j]

LEMMA SortsBeforeIs ==
  ASSUME NEW a \in Strings, NEW b \in Strings
  PROVE  W!SortsBefore(a, b) <=> \/ Len(a) < Len(b)
                                 \/ Len(a) = Len(b) /\ \E i \in 1..Len(a) : Elder(a, b, i)
<1>1. DOMAIN a = 1..Len(a)
  BY DEF Strings
<1> QED
  BY <1>1 DEF W!SortsBefore, Elder

LEMMA SortsNotBoth ==
  ASSUME NEW a \in Strings, NEW b \in Strings, W!SortsBefore(a, b)
  PROVE  a # b
<1>1. Len(a) \in Nat /\ \A k \in 1..Len(a) : a[k] \in Nat
  BY Elements DEF Strings
<1> QED
  BY <1>1, SortsBeforeIs DEF Elder

LEMMA SortsOn ==
  ASSUME NEW a \in Strings, NEW b \in Strings, NEW c \in Strings,
         W!SortsBefore(a, b), W!SortsBefore(b, c)
  PROVE  W!SortsBefore(a, c)
<1>1. /\ Len(a) \in Nat /\ \A k \in 1..Len(a) : a[k] \in Nat
      /\ Len(b) \in Nat /\ \A k \in 1..Len(b) : b[k] \in Nat
      /\ Len(c) \in Nat /\ \A k \in 1..Len(c) : c[k] \in Nat
  BY Elements DEF Strings
<1>2. CASE Len(a) < Len(c)
  BY <1>2, SortsBeforeIs
<1>3. CASE ~(Len(a) < Len(c))
  <2>1. Len(a) = Len(b) /\ Len(b) = Len(c)
    BY <1>1, <1>3, SortsBeforeIs
  <2>2. PICK i \in 1..Len(a) : Elder(a, b, i)
    BY <2>1, <1>1, SortsBeforeIs
  <2>3. PICK j \in 1..Len(a) : Elder(b, c, j)
    BY <2>1, <1>1, SortsBeforeIs
  <2>4. CASE i <= j
    <3>1. a[i] \in Nat /\ b[i] \in Nat /\ c[i] \in Nat
      BY <1>1, <2>1
    <3>2. a[i] < c[i]
      <4>1. b[i] = c[i] \/ b[i] < c[i]
        BY <2>3, <2>4 DEF Elder
      <4>2. a[i] < b[i]
        BY <2>2 DEF Elder
      <4> QED
        BY <3>1, <4>1, <4>2
    <3>3. \A k \in 1..(i - 1) : a[k] = c[k]
      BY <2>2, <2>3, <2>4 DEF Elder
    <3>4. Elder(a, c, i)
      BY <3>2, <3>3 DEF Elder
    <3> QED
      BY <2>1, <3>4, SortsBeforeIs
  <2>5. CASE j < i
    <3>1. a[j] = b[j] /\ b[j] < c[j]
      BY <2>2, <2>3, <2>5 DEF Elder
    <3>2. \A k \in 1..(j - 1) : a[k] = c[k]
      BY <2>2, <2>3, <2>5 DEF Elder
    <3>3. Elder(a, c, j)
      BY <3>1, <3>2 DEF Elder
    <3> QED
      BY <2>1, <3>3, SortsBeforeIs
  <2> QED
    BY <2>4, <2>5
<1> QED
  BY <1>2, <1>3

(* What is true of some index is true of a least one.                      *)
LEMMA Least ==
  ASSUME NEW n \in Nat, NEW I, NEW m \in I, I \subseteq 1..n
  PROVE  \E i \in I : \A j \in 1..(i - 1) : j \notin I
<1>1. IsWellFoundedOn(OpToRel(<, Nat), Nat)
  BY NatLessThanWellFounded
<1>2. I \subseteq Nat /\ I # {}
  OBVIOUS
<1>3. PICK i \in I : \A j \in I : <<j, i>> \notin OpToRel(<, Nat)
  BY <1>1, <1>2, WFMin
<1>4. \A j \in 1..(i - 1) : j \notin I
  <2>1. ASSUME NEW j \in 1..(i - 1), j \in I PROVE FALSE
    <3>1. <<j, i>> \in OpToRel(<, Nat)
      BY <1>2 DEF OpToRel
    <3> QED
      BY <2>1, <3>1, <1>3
  <2> QED
    BY <2>1
<1> QED
  BY <1>4

LEMMA SortsEither ==
  ASSUME NEW a \in Strings, NEW b \in Strings, a # b
  PROVE  W!SortsBefore(a, b) \/ W!SortsBefore(b, a)
<1>1. /\ Len(a) \in Nat /\ \A k \in 1..Len(a) : a[k] \in Nat
      /\ Len(b) \in Nat /\ \A k \in 1..Len(b) : b[k] \in Nat
  BY Elements DEF Strings
<1>2. CASE Len(a) # Len(b)
  BY <1>1, <1>2, SortsBeforeIs
<1>3. CASE Len(a) = Len(b)
  <2> DEFINE I == {i \in 1..Len(a) : a[i] # b[i]}
  <2>1. PICK m \in I : TRUE
    BY <1>3, SeqEqual DEF Strings
  <2>2. PICK i \in I : \A j \in 1..(i - 1) : j \notin I
    <3>1. I \subseteq 1..Len(a)
      OBVIOUS
    <3> HIDE DEF I
    <3> QED
      BY <1>1, <3>1, Least
  <2>3. i \in 1..Len(a) /\ a[i] # b[i] /\ \A j \in 1..(i - 1) : a[j] = b[j]
    BY <1>1, <2>2
  <2>4. a[i] < b[i] \/ b[i] < a[i]
    BY <1>1, <1>3, <2>3
  <2>5. Elder(a, b, i) \/ Elder(b, a, i)
    BY <1>3, <2>3, <2>4 DEF Elder
  <2> QED
    BY <1>3, <2>3, <2>5, SortsBeforeIs
<1> QED
  BY <1>2, <1>3

(* The order is the one of the reference: shorter first, then by the first *)
(* character that differs.                                                 *)
LEMMA SortedPrecedes ==
  ASSUME NEW a \in Strings, NEW b \in Strings, W!SortsBefore(a, b)
  PROVE  W!Precedes(a, b)
<1>1. /\ Len(a) \in Nat /\ DOMAIN a = 1..Len(a) /\ \A k \in 1..Len(a) : a[k] \in Nat
      /\ Len(b) \in Nat /\ \A k \in 1..Len(b) : b[k] \in Nat
  BY Elements DEF Strings
<1>2. a # b /\ Len(a) <= Len(b)
  BY <1>1, SortsNotBoth, SortsBeforeIs
<1>3. ASSUME Len(a) = Len(b)
      PROVE  a[W!FirstDifference(a, b)] < b[W!FirstDifference(a, b)]
  <2>1. PICK i \in 1..Len(a) : Elder(a, b, i)
    BY <1>1, <1>3, SortsBeforeIs
  <2> DEFINE Differ(j) == a[j] # b[j] /\ SubSeq(a, 1, j - 1) = SubSeq(b, 1, j - 1)
             d == CHOOSE j \in 1..Len(a) : Differ(j)
  <2>2. ASSUME NEW j \in 1..Len(a)
        PROVE  /\ SubSeq(a, 1, j - 1) \in Strings /\ Len(SubSeq(a, 1, j - 1)) = j - 1
               /\ \A k \in 1..(j - 1) : SubSeq(a, 1, j - 1)[k] = a[k]
               /\ SubSeq(b, 1, j - 1) \in Strings /\ Len(SubSeq(b, 1, j - 1)) = j - 1
               /\ \A k \in 1..(j - 1) : SubSeq(b, 1, j - 1)[k] = b[k]
    <3>1. 1 \in Int /\ j - 1 \in Int /\ (j - 1) - 1 + 1 = j - 1
      OBVIOUS
    <3>2. \A k \in 1..(j - 1) : a[k] \in Nat /\ b[k] \in Nat /\ 1 + k - 1 = k
      BY <1>1, <1>3
    <3>3. /\ SubSeq(a, 1, j - 1) \in Seq(Nat)
          /\ Len(SubSeq(a, 1, j - 1)) = IF 1 <= j - 1 THEN (j - 1) - 1 + 1 ELSE 0
          /\ \A k \in 1..((j - 1) - 1 + 1) : SubSeq(a, 1, j - 1)[k] = a[1 + k - 1]
      BY <3>1, <3>2, SubSeqProperties
    <3>4. /\ SubSeq(b, 1, j - 1) \in Seq(Nat)
          /\ Len(SubSeq(b, 1, j - 1)) = IF 1 <= j - 1 THEN (j - 1) - 1 + 1 ELSE 0
          /\ \A k \in 1..((j - 1) - 1 + 1) : SubSeq(b, 1, j - 1)[k] = b[1 + k - 1]
      BY <3>1, <3>2, SubSeqProperties
    <3> QED
      BY <3>1, <3>2, <3>3, <3>4 DEF Strings
  <2>3. Differ(i)
    <3>1. a[i] # b[i]
      BY <1>1, <1>3, <2>1 DEF Elder
    <3>2. \A k \in 1..(i - 1) : a[k] = b[k]
      BY <2>1 DEF Elder
    <3>3. SubSeq(a, 1, i - 1) = SubSeq(b, 1, i - 1)
      <4> DEFINE u == SubSeq(a, 1, i - 1)
                 v == SubSeq(b, 1, i - 1)
      <4>1. u \in Seq(Nat) /\ v \in Seq(Nat) /\ Len(u) = i - 1 /\ Len(v) = i - 1
        BY <2>2 DEF Strings
      <4>2. \A k \in 1..(i - 1) : u[k] = v[k]
        BY <2>2, <3>2
      <4> HIDE DEF u, v
      <4>3. u = v
        BY <4>1, <4>2, SeqEqual
      <4> QED
        BY <4>3 DEF u, v
    <3> QED
      BY <3>1, <3>3
  <2>4. d \in 1..Len(a) /\ Differ(d)
    <3> HIDE DEF Differ
    <3> QED
      BY <2>3
  <2>5. W!FirstDifference(a, b) = d
    BY <1>1 DEF W!FirstDifference
  <2> HIDE DEF d
  <2>6. ~(d < i)
    BY <2>1, <2>4 DEF Elder
  <2>7. ~(i < d)
    <3>1. SUFFICES ASSUME i < d PROVE FALSE
      OBVIOUS
    <3>2. i \in 1..(d - 1)
      BY <2>4, <3>1
    <3>3. SubSeq(a, 1, d - 1)[i] = a[i] /\ SubSeq(b, 1, d - 1)[i] = b[i]
      BY <2>2, <2>4, <3>2
    <3> QED
      BY <2>3, <2>4, <3>3
  <2>8. d = i
    BY <2>4, <2>6, <2>7
  <2> QED
    BY <2>1, <2>5, <2>8 DEF Elder
<1> QED
  BY <1>2, <1>3 DEF W!Precedes

-----------------------------------------------------------------------------
(* The words of a set in this order.                                       *)

InOrder(s, n) == \A i, j \in 1..n : i < j => W!SortsBefore(s[i], s[j])

LEMMA SetsByCardinality ==
  ASSUME NEW S, IsFiniteSet(S), NEW x \in S
  PROVE  /\ Cardinality(S) \in Nat \ {0} /\ IsFiniteSet(S \ {x})
         /\ Cardinality(S \ {x}) = Cardinality(S) - 1
BY FS_RemoveElement, FS_CardinalityType, FS_EmptySet

LEMMA LastExists ==
  ASSUME NEW S, IsFiniteSet(S), S \subseteq Strings, S # {}
  PROVE  \E m \in S : \A x \in S : x # m => W!SortsBefore(x, m)
<1> DEFINE N == Cardinality(S)
           Has(Q) == \E m \in Q : \A x \in Q : x # m => W!SortsBefore(x, m)
           T == {k \in 0..N : \A Q \in SUBSET S : IsFiniteSet(Q) /\ Cardinality(Q) = k /\ Q # {} => Has(Q)}
<1>1. N \in Nat
  BY FS_CardinalityType
<1>2. 0 \in T
  <2>1. \A Q \in SUBSET S : ~(IsFiniteSet(Q) /\ Cardinality(Q) = 0 /\ Q # {})
    BY FS_EmptySet
  <2> HIDE DEF Has
  <2> QED
    BY <1>1, <2>1
<1>3. ASSUME NEW k \in 1..N, k - 1 \in T PROVE k \in T
  <2>1. ASSUME NEW Q \in SUBSET S, IsFiniteSet(Q), Cardinality(Q) = k, Q # {} PROVE Has(Q)
    <3>1. PICK y \in Q : TRUE
      BY <2>1
    <3> DEFINE R == Q \ {y}
    <3>2. IsFiniteSet(R) /\ Cardinality(R) = k - 1 /\ R \in SUBSET S
      BY <2>1, SetsByCardinality
    <3>3. CASE R = {}
      BY <3>3
    <3>4. CASE R # {}
      <4>1. Has(R)
        <5> HIDE DEF R, Has
        <5> QED
          BY <1>3, <3>2, <3>4
      <4>2. PICK m \in R : \A x \in R : x # m => W!SortsBefore(x, m)
        BY <4>1
      <4>3. m \in Strings /\ y \in Strings /\ m # y /\ Q = R \union {y}
        OBVIOUS
      <4>4. CASE W!SortsBefore(y, m)
        BY <4>2, <4>3, <4>4
      <4>5. CASE W!SortsBefore(m, y)
        <5>1. ASSUME NEW x \in Q, x # y PROVE W!SortsBefore(x, y)
          <6>1. CASE x = m
            BY <4>5, <6>1
          <6>2. CASE x # m
            <7>1. x \in R /\ x \in Strings
              BY <5>1
            <7>2. W!SortsBefore(x, m)
              BY <4>2, <6>2, <7>1
            <7> QED
              BY <4>3, <4>5, <7>1, <7>2, SortsOn
          <6> QED
            BY <6>1, <6>2
        <5> QED
          BY <5>1
      <4> QED
        BY <4>3, <4>4, <4>5, SortsEither
    <3> QED
      BY <3>3, <3>4
  <2> HIDE DEF Has
  <2> QED
    BY <2>1
<1> HIDE DEF T, N
<1>4. N \in T
  BY <1>1, <1>2, <1>3, IntervalInduction
<1> QED
  BY <1>4 DEF T, N

LEMMA OrderExists ==
  ASSUME NEW S, IsFiniteSet(S), S \subseteq Strings
  PROVE  \E s \in [1..Cardinality(S) -> S] : InOrder(s, Cardinality(S))
<1> DEFINE N == Cardinality(S)
           Has(Q, k) == \E s \in [1..k -> Q] : InOrder(s, k)
           T == {k \in 0..N : \A Q \in SUBSET S : IsFiniteSet(Q) /\ Cardinality(Q) = k => Has(Q, k)}
<1>1. N \in Nat
  BY FS_CardinalityType
<1>2. 0 \in T
  <2>1. ASSUME NEW Q \in SUBSET S PROVE Has(Q, 0)
    <3>1. <<>> \in [1..0 -> Q] /\ InOrder(<<>>, 0)
      BY DEF InOrder
    <3> QED
      BY <3>1
  <2> HIDE DEF Has
  <2> QED
    BY <1>1, <2>1
<1>3. ASSUME NEW k \in 1..N, k - 1 \in T PROVE k \in T
  <2>1. ASSUME NEW Q \in SUBSET S, IsFiniteSet(Q), Cardinality(Q) = k PROVE Has(Q, k)
    <3>1. Q # {} /\ Q \subseteq Strings
      BY <2>1, FS_EmptySet
    <3>2. PICK m \in Q : \A x \in Q : x # m => W!SortsBefore(x, m)
      BY <2>1, <3>1, LastExists
    <3> DEFINE R == Q \ {m}
    <3>3. IsFiniteSet(R) /\ Cardinality(R) = k - 1 /\ R \in SUBSET S
      BY <2>1, SetsByCardinality
    <3>4. Has(R, k - 1)
      <4> HIDE DEF R, Has
      <4> QED
        BY <1>3, <3>3
    <3>5. PICK s \in [1..(k - 1) -> R] : InOrder(s, k - 1)
      BY <3>4
    <3> DEFINE t == [i \in 1..k |-> IF i = k THEN m ELSE s[i]]
    <3>6. t \in [1..k -> Q]
      OBVIOUS
    <3>7. InOrder(t, k)
      <4>1. ASSUME NEW i \in 1..k, NEW j \in 1..k, i < j PROVE W!SortsBefore(t[i], t[j])
        <5>1. i \in 1..(k - 1) /\ t[i] = s[i] /\ s[i] \in R
          BY <4>1
        <5>2. CASE j = k
          BY <5>1, <5>2, <3>2
        <5>3. CASE j # k
          <6>1. j \in 1..(k - 1) /\ t[j] = s[j]
            BY <5>3
          <6> QED
            BY <5>1, <6>1, <3>5, <4>1 DEF InOrder
        <5> QED
          BY <5>2, <5>3
      <4> HIDE DEF t
      <4> QED
        BY <4>1 DEF InOrder
    <3> HIDE DEF t
    <3> QED
      BY <3>6, <3>7
  <2> HIDE DEF Has
  <2> QED
    BY <2>1
<1> HIDE DEF T, N
<1>4. N \in T
  BY <1>1, <1>2, <1>3, IntervalInduction
<1> QED
  BY <1>4 DEF T, N

LEMMA CardinalityIs == \A S : W!Cardinality(S) = Cardinality(S)
BY DEF W!Cardinality, Cardinality

(* The file written of a set of words: its words, in order.                *)
LEMMA SortedIs ==
  ASSUME NEW S, IsFiniteSet(S), S \subseteq Strings
  PROVE  /\ W!Sorted(S) \in [1..Cardinality(S) -> S]
         /\ InOrder(W!Sorted(S), Cardinality(S))
         /\ W!Range(W!Sorted(S)) = S
<1> DEFINE n == Cardinality(S)
           s == W!Sorted(S)
<1>1. n \in Nat
  BY FS_CardinalityType
<1>2. s = CHOOSE t \in [1..n -> S] : \A i, j \in DOMAIN t : i < j => W!SortsBefore(t[i], t[j])
  BY CardinalityIs DEF W!Sorted
<1>3. \E t \in [1..n -> S] : \A i, j \in DOMAIN t : i < j => W!SortsBefore(t[i], t[j])
  <2>1. PICK t \in [1..n -> S] : InOrder(t, n)
    BY OrderExists
  <2>2. DOMAIN t = 1..n
    OBVIOUS
  <2> QED
    BY <2>1, <2>2 DEF InOrder
<1>4. s \in [1..n -> S] /\ \A i, j \in DOMAIN s : i < j => W!SortsBefore(s[i], s[j])
  <2> HIDE DEF s, n
  <2> QED
    BY <1>2, <1>3
<1> HIDE DEF s
<1>5. InOrder(s, n)
  <2>1. DOMAIN s = 1..n
    BY <1>4
  <2> QED
    BY <1>4, <2>1 DEF InOrder
<1>6. s \in Injection(1..n, S)
  <2>1. ASSUME NEW i \in 1..n, NEW j \in 1..n, s[i] = s[j] PROVE i = j
    <3>1. ASSUME NEW x \in 1..n, NEW y \in 1..n, x < y PROVE s[x] # s[y]
      <4>1. s[x] \in Strings /\ s[y] \in Strings
        BY <1>4
      <4>2. W!SortsBefore(s[x], s[y])
        BY <1>5, <3>1 DEF InOrder
      <4> QED
        BY <4>1, <4>2, SortsNotBoth
    <3>2. i < j \/ j < i \/ i = j
      BY <1>1
    <3> QED
      BY <2>1, <3>1, <3>2
  <2> QED
    BY <1>4, <2>1 DEF Injection, IsInjective
<1>7. IsFiniteSet(1..n) /\ Cardinality(1..n) = n
  BY <1>1, FS_Interval
<1>8. s \in Surjection(1..n, S)
  BY <1>6, <1>7, FS_Injection
<1>9. W!Range(s) = S
  <2>1. DOMAIN s = 1..n /\ \A x \in 1..n : s[x] \in S
    BY <1>4
  <2>2. \A y \in S : \E x \in 1..n : s[x] = y
    BY <1>8 DEF Surjection
  <2> QED
    BY <2>1, <2>2 DEF W!Range
<1> QED
  BY <1>4, <1>5, <1>9 DEF s

-----------------------------------------------------------------------------
(* Pass 2.                                                                 *)

UnreadWords == {unread[i].word : i \in 1..Len(unread)}
Kept(words) == words \subseteq Strings /\ words \subseteq W!InFlatFile
SegmentRight(s) == s \in Seq(Strings) /\ InOrder(s, Len(s)) /\ Kept(W!Range(s))
(* A word of the feature file is in a file, in memory, not read yet, or    *)
(* one of the few that were lost.                                          *)
Covered(lost) ==
  /\ IsFiniteSet(lost) /\ Cardinality(lost) <= failures
  /\ \A word \in W!InFlatFile :
       word \in lost \/ W!InSegments(word) \/ word \in seen_wordlist \/ word \in UnreadWords
PassTyped ==
  /\ pc \in {"scan", "dedup", "done"} /\ failures \in Nat
  /\ unread \in Seq(Lines) /\ Kept(UnreadWords)
  /\ IsFiniteSet(seen_wordlist) /\ Kept(seen_wordlist)
  /\ Len(segments) \in Nat /\ DOMAIN segments = 1..Len(segments)
  /\ \A n \in 1..Len(segments) : SegmentRight(segments[n])
SortInv ==
  /\ FlatInv
  /\ segments \in Seq(Seq(Strings))
  /\ PassTyped
  /\ pc = "scan" => unread = <<>> /\ seen_wordlist = {} /\ segments = <<>> /\ failures = 0
  /\ pc = "dedup" /\ failures = 0 => segments = <<>>
  /\ pc = "done" /\ failures = 0 => Len(segments) <= 1
  /\ pc = "done" => unread = <<>> /\ seen_wordlist = {}
  /\ pc # "scan" /\ ~opts.strings => \E lost : Covered(lost)

(* A set of words more is written.                                         *)
LEMMA DumpedIs ==
  ASSUME SortInv, NEW words, IsFiniteSet(words), Kept(words)
  PROVE  LET all == W!Dumped(words) IN
         /\ all \in Seq(Seq(Strings))
         /\ Len(all) \in Nat /\ DOMAIN all = 1..Len(all) /\ Len(all) <= Len(segments) + 1
         /\ \A n \in 1..Len(all) : SegmentRight(all[n])
         /\ \A word : W!InSegments(word) => \E n \in DOMAIN all : word \in W!Range(all[n])
         /\ \A word \in words : \E n \in DOMAIN all : word \in W!Range(all[n])
<1> DEFINE all == W!Dumped(words)
           N == Len(segments)
<1>1. /\ segments \in Seq(Seq(Strings)) /\ N \in Nat /\ DOMAIN segments = 1..N
      /\ \A n \in 1..N : SegmentRight(segments[n])
  BY DEF SortInv, PassTyped
<1>2. CASE words = {}
  <2>1. all = segments
    BY <1>2 DEF W!Dumped
  <2> HIDE DEF all
  <2> QED
    BY <1>1, <1>2, <2>1 DEF all, W!InSegments
<1>3. CASE words # {}
  <2> DEFINE s == W!Sorted(words)
             k == Cardinality(words)
  <2>1. s \in [1..k -> words] /\ InOrder(s, k) /\ W!Range(s) = words
    BY SortedIs DEF Kept
  <2>2. k \in Nat
    BY FS_CardinalityType
  <2>3. all = Append(segments, s)
    BY <1>3 DEF W!Dumped
  <2> HIDE DEF s, k, all
  <2>4. s \in Seq(Strings) /\ Len(s) = k
    <3>1. words \subseteq Strings
      BY DEF Kept
    <3>2. s \in [1..k -> Strings]
      BY <2>1, <3>1
    <3> QED
      BY <2>2, <3>2
  <2>5. SegmentRight(s)
    BY <2>1, <2>4 DEF SegmentRight
  <2>6. /\ all \in Seq(Seq(Strings)) /\ Len(all) = N + 1
        /\ \A n \in 1..N : all[n] = segments[n]
        /\ all[N + 1] = s
    BY <1>1, <2>3, <2>4
  <2> HIDE DEF N
  <2>7. DOMAIN all = 1..(N + 1) /\ Len(all) \in Nat /\ Len(all) <= N + 1
    BY <1>1, <2>6
  <2>8. \A n \in 1..(N + 1) : SegmentRight(all[n])
    <3>1. ASSUME NEW n \in 1..(N + 1) PROVE SegmentRight(all[n])
      <4>1. CASE n \in 1..N
        BY <4>1, <1>1, <2>6
      <4>2. CASE n = N + 1
        BY <4>2, <2>5, <2>6
      <4> QED
        BY <4>1, <4>2, <1>1
    <3> QED
      BY <3>1
  <2>9. ASSUME NEW word, W!InSegments(word) PROVE \E n \in DOMAIN all : word \in W!Range(all[n])
    <3>1. PICK n \in 1..N : word \in W!Range(segments[n])
      BY <1>1, <2>9 DEF W!InSegments
    <3>2. n \in 1..(N + 1) /\ all[n] = segments[n]
      BY <1>1, <2>6
    <3> QED
      BY <3>1, <3>2, <2>7
  <2>10. ASSUME NEW word \in words PROVE \E n \in DOMAIN all : word \in W!Range(all[n])
    <3>1. N + 1 \in 1..(N + 1)
      BY <1>1
    <3> QED
      BY <3>1, <2>1, <2>6, <2>7
  <2>11. Len(all) = N + 1
    BY <2>6
  <2> QED
    BY <2>6, <2>7, <2>8, <2>9, <2>10, <2>11 DEF all, N
<1> QED
  BY <1>2, <1>3

LEMMA SortInit ==
  ASSUME W!ConstantsRight, W!Init
  PROVE  SortInv
<1>1. FlatInv
  BY FlatInit
<1>2. /\ pc = "scan" /\ unread = <<>> /\ seen_wordlist = {} /\ segments = <<>> /\ failures = 0
  BY DEF W!Init
<1>3. UnreadWords = {} /\ unread \in Seq(Lines) /\ segments \in Seq(Seq(Strings))
      /\ Len(segments) = 0 /\ DOMAIN segments = {}
  BY <1>2 DEF UnreadWords
<1>4. PassTyped
  BY <1>2, <1>3, FS_EmptySet DEF PassTyped, Kept
<1> QED
  BY <1>1, <1>2, <1>3, <1>4 DEF SortInv

(* The first unread word, and the others.                                  *)
LEMMA ReadOne ==
  ASSUME SortInv, unread # <<>>, unread' = Tail(unread)
  PROVE  /\ unread' \in Seq(Lines) /\ UnreadWords' \subseteq UnreadWords
         /\ Head(unread).word \in UnreadWords
         /\ \A word \in UnreadWords : word = Head(unread).word \/ word \in UnreadWords'
<1>1. unread \in Seq(Lines)
  BY DEF SortInv, PassTyped
<1>2. /\ Len(unread) \in Nat \ {0} /\ unread' \in Seq(Lines) /\ Len(unread') = Len(unread) - 1
      /\ \A i \in 1..Len(unread') : unread'[i] = unread[i + 1]
      /\ Head(unread) = unread[1]
  BY <1>1, HeadTailProperties, EmptySeq
<1>3. UnreadWords' \subseteq UnreadWords
  <2>1. ASSUME NEW i \in 1..Len(unread') PROVE unread'[i].word \in UnreadWords
    <3>1. i + 1 \in 1..Len(unread) /\ unread'[i] = unread[i + 1]
      BY <1>2
    <3> QED
      BY <3>1 DEF UnreadWords
  <2> QED
    BY <2>1 DEF UnreadWords
<1>4. Head(unread).word \in UnreadWords
  BY <1>2 DEF UnreadWords
<1>5. ASSUME NEW word \in UnreadWords PROVE word = Head(unread).word \/ word \in UnreadWords'
  <2>1. PICK i \in 1..Len(unread) : word = unread[i].word
    BY DEF UnreadWords
  <2>2. CASE i = 1
    BY <2>1, <2>2, <1>2
  <2>3. CASE i # 1
    <3>1. PICK j \in 1..Len(unread') : i = j + 1
      <4>1. i - 1 \in 1..Len(unread') /\ i = (i - 1) + 1
        BY <1>2, <2>3
      <4> QED
        BY <4>1
    <3>2. unread'[j] = unread[i]
      BY <1>2, <3>1
    <3> QED
      BY <2>1, <3>2 DEF UnreadWords
  <2> QED
    BY <2>2, <2>3
<1> QED
  BY <1>2, <1>3, <1>4, <1>5

LEMMA SortWrite ==
  ASSUME SortInv, FlatInv', pc = "scan", UNCHANGED <<pc, unread, seen_wordlist, segments, failures>>
  PROVE  SortInv'
<1>1. /\ unread = <<>> /\ seen_wordlist = {} /\ segments = <<>> /\ failures = 0
  BY DEF SortInv
<1>2. UnreadWords' = {} /\ unread' \in Seq(Lines) /\ segments' \in Seq(Seq(Strings))
      /\ Len(segments') = 0 /\ DOMAIN segments' = {}
  BY <1>1 DEF UnreadWords
<1>3. PassTyped'
  BY <1>1, <1>2, FS_EmptySet DEF PassTyped, Kept
<1> QED
  BY <1>1, <1>2, <1>3 DEF SortInv

LEMMA SortShutdown ==
  ASSUME SortInv, FlatInv', W!Shutdown
  PROVE  SortInv'
<1>1. /\ pc = "scan" /\ unread = <<>> /\ seen_wordlist = {} /\ segments = <<>> /\ failures = 0
      /\ UNCHANGED <<opts, flat_wordlist, seen_wordlist, segments, failures>>
      /\ IF opts.strings THEN pc' = "done" /\ UNCHANGED unread ELSE pc' = "dedup" /\ unread' = flat_wordlist
  BY DEF SortInv, W!Shutdown
<1>2. W!InFlatFile' = W!InFlatFile
  BY <1>1 DEF W!InFlatFile
<1>3. flat_wordlist \in Seq(Lines) /\ DOMAIN flat_wordlist = 1..Len(flat_wordlist)
  BY DEF SortInv, FlatInv
<1>4. segments' \in Seq(Seq(Strings)) /\ Len(segments') = 0 /\ DOMAIN segments' = {}
  BY <1>1
<1>5. CASE opts.strings
  <2>1. pc' = "done" /\ unread' = <<>> /\ opts'.strings
    BY <1>1, <1>5
  <2>2. UnreadWords' = {} /\ unread' \in Seq(Lines)
    BY <2>1 DEF UnreadWords
  <2>3. PassTyped'
    BY <1>1, <1>4, <2>1, <2>2, FS_EmptySet DEF PassTyped, Kept
  <2> QED
    BY <1>1, <1>4, <2>1, <2>2, <2>3 DEF SortInv
<1>6. CASE ~opts.strings
  <2>1. pc' = "dedup" /\ unread' = flat_wordlist
    BY <1>1, <1>6
  <2>2. UnreadWords' = W!InFlatFile'
    BY <1>3, <1>2, <2>1 DEF UnreadWords, W!InFlatFile
  <2>3. W!InFlatFile \subseteq Strings
    BY <1>3, LinesHave DEF W!InFlatFile
  <2>4. Kept(UnreadWords)'
    BY <1>2, <2>2, <2>3 DEF Kept
  <2>5. PassTyped'
    <3>1. Kept(seen_wordlist)' /\ IsFiniteSet(seen_wordlist')
      BY <1>1, FS_EmptySet DEF Kept
    <3> QED
      BY <1>1, <1>3, <1>4, <2>1, <2>4, <3>1 DEF PassTyped
  <2>6. Covered({})'
    <3>1. IsFiniteSet({}) /\ Cardinality({}) <= failures'
      BY <1>1, FS_EmptySet
    <3> QED
      BY <2>2, <3>1 DEF Covered
  <2> QED
    BY <1>1, <1>4, <2>1, <2>5, <2>6 DEF SortInv
<1> QED
  BY <1>5, <1>6

(* Nothing of what is typed depends on anything else.                      *)
LEMMA SortInsert ==
  ASSUME SortInv, FlatInv', W!Insert
  PROVE  SortInv'
<1>1. /\ pc = "dedup" /\ unread # <<>> /\ unread' = Tail(unread)
      /\ UNCHANGED <<opts, flat_wordlist, pc, failures, segments>>
      /\ seen_wordlist' = seen_wordlist \union {Head(unread).word}
  <2>1. ~(0 > opts.max_output_file_size)
    BY DEF SortInv, FlatInv, WordsGiven
  <2> QED
    BY <2>1 DEF W!Insert, W!outfilesize
<1>2. W!InFlatFile' = W!InFlatFile /\ \A word : W!InSegments(word)' = W!InSegments(word)
  BY <1>1 DEF W!InFlatFile, W!InSegments, W!Range
<1>3. /\ unread' \in Seq(Lines) /\ UnreadWords' \subseteq UnreadWords
      /\ Head(unread).word \in UnreadWords
      /\ \A word \in UnreadWords : word = Head(unread).word \/ word \in UnreadWords'
  BY <1>1, ReadOne
<1>4. PassTyped'
  <2>1. /\ Kept(UnreadWords) /\ IsFiniteSet(seen_wordlist) /\ Kept(seen_wordlist)
        /\ Len(segments) \in Nat /\ DOMAIN segments = 1..Len(segments) /\ failures \in Nat
        /\ \A n \in 1..Len(segments) : SegmentRight(segments[n])
    BY DEF SortInv, PassTyped
  <2>2. Kept(UnreadWords)' /\ Kept(seen_wordlist)'
    BY <1>1, <1>2, <1>3, <2>1 DEF Kept
  <2>3. IsFiniteSet(seen_wordlist')
    BY <1>1, <2>1, FS_AddElement
  <2>4. ASSUME NEW n \in 1..Len(segments) PROVE SegmentRight(segments[n])'
    <3>1. \A s : SegmentRight(s)' = SegmentRight(s)
      BY <1>2 DEF SegmentRight, Kept
    <3>2. SegmentRight(segments[n]) /\ segments' = segments
      BY <1>1, <2>1
    <3> QED
      BY <3>1, <3>2, <1>2 DEF SegmentRight, Kept
  <2> QED
    BY <1>1, <1>3, <2>1, <2>2, <2>3, <2>4 DEF PassTyped
<1>5. ASSUME ~opts.strings PROVE \E lost : Covered(lost)'
  <2>1. PICK lost : Covered(lost)
    BY <1>1, <1>5 DEF SortInv
  <2>2. Covered(lost)'
    BY <1>1, <1>2, <1>3, <2>1 DEF Covered
  <2> QED
    BY <2>2
<1> QED
  BY <1>1, <1>4, <1>5 DEF SortInv

LEMMA SortInsertFails ==
  ASSUME SortInv, FlatInv', W!InsertFails
  PROVE  SortInv'
<1>1. /\ pc = "dedup" /\ unread # <<>> /\ unread' = Tail(unread) /\ seen_wordlist' = {}
      /\ segments' = W!Dumped(seen_wordlist) /\ failures' = failures + 1
      /\ UNCHANGED <<opts, flat_wordlist, pc>>
  BY DEF W!InsertFails
<1>2. W!InFlatFile' = W!InFlatFile
  BY <1>1 DEF W!InFlatFile
<1>3. /\ unread' \in Seq(Lines) /\ UnreadWords' \subseteq UnreadWords
      /\ \A word \in UnreadWords : word = Head(unread).word \/ word \in UnreadWords'
  BY <1>1, ReadOne
<1>4. /\ Kept(UnreadWords) /\ IsFiniteSet(seen_wordlist) /\ Kept(seen_wordlist) /\ failures \in Nat
  BY DEF SortInv, PassTyped
<1>5. /\ segments' \in Seq(Seq(Strings))
      /\ Len(segments') \in Nat /\ DOMAIN segments' = 1..Len(segments')
      /\ \A n \in 1..Len(segments') : SegmentRight(segments'[n])
      /\ \A word : W!InSegments(word) => W!InSegments(word)'
      /\ \A word \in seen_wordlist : W!InSegments(word)'
  BY <1>1, <1>4, DumpedIs DEF W!InSegments
<1>6. \A s : SegmentRight(s)' = SegmentRight(s)
  BY <1>2 DEF SegmentRight, Kept
<1>7. PassTyped'
  <2>1. Kept(UnreadWords)' /\ Kept(seen_wordlist)'
    BY <1>1, <1>2, <1>3, <1>4 DEF Kept
  <2>2. IsFiniteSet(seen_wordlist') /\ failures' \in Nat
    BY <1>1, <1>4, FS_EmptySet
  <2>3. \A n \in 1..Len(segments') : SegmentRight(segments[n])'
    BY <1>5, <1>6 DEF SegmentRight, Kept, W!InFlatFile
  <2> QED
    BY <1>1, <1>3, <1>5, <2>1, <2>2, <2>3 DEF PassTyped
<1>8. ASSUME ~opts.strings PROVE \E lost : Covered(lost)'
  <2>1. PICK lost : Covered(lost)
    BY <1>1, <1>8 DEF SortInv
  <2>0. PICK more : more = lost \union {Head(unread).word}
    OBVIOUS
  <2>2. IsFiniteSet(more) /\ Cardinality(more) <= failures'
    <3>1. IsFiniteSet(lost) /\ Cardinality(lost) <= failures /\ Cardinality(lost) \in Nat
      BY <2>1, FS_CardinalityType DEF Covered
    <3>2. IsFiniteSet(more) /\ Cardinality(more) <= Cardinality(lost) + 1
      <4>1. ASSUME NEW x PROVE LET all == lost \union {x} IN
                               IsFiniteSet(all) /\ Cardinality(all) <= Cardinality(lost) + 1
        BY <3>1, FS_AddElement
      <4> QED
        BY <2>0, <4>1
    <3>3. Cardinality(more) \in Nat
      BY <3>2, FS_CardinalityType
    <3> QED
      BY <1>1, <1>4, <3>1, <3>2, <3>3
  <2>3. Covered(more)'
    <3>1. \A word \in W!InFlatFile' :
            word \in more \/ W!InSegments(word)' \/ word \in seen_wordlist' \/ word \in UnreadWords'
      BY <1>2, <1>3, <1>5, <2>0, <2>1 DEF Covered
    <3> QED
      BY <2>2, <3>1 DEF Covered
  <2> QED
    BY <2>3
<1> QED
  BY <1>1, <1>4, <1>5, <1>7, <1>8 DEF SortInv

LEMMA SortDump ==
  ASSUME SortInv, FlatInv', W!Dump
  PROVE  SortInv'
<1>1. /\ pc = "dedup" /\ unread = <<>> /\ seen_wordlist' = {} /\ pc' = "done"
      /\ segments' = W!Dumped(seen_wordlist)
      /\ UNCHANGED <<opts, flat_wordlist, unread, failures>>
  BY DEF W!Dump
<1>2. W!InFlatFile' = W!InFlatFile /\ UnreadWords' = {} /\ UnreadWords = {}
  BY <1>1 DEF W!InFlatFile, UnreadWords
<1>3. IsFiniteSet(seen_wordlist) /\ Kept(seen_wordlist) /\ failures \in Nat /\ unread \in Seq(Lines)
  BY DEF SortInv, PassTyped
<1>4. /\ segments' \in Seq(Seq(Strings))
      /\ Len(segments') \in Nat /\ DOMAIN segments' = 1..Len(segments')
      /\ Len(segments') <= Len(segments) + 1
      /\ \A n \in 1..Len(segments') : SegmentRight(segments'[n])
      /\ \A word : W!InSegments(word) => W!InSegments(word)'
      /\ \A word \in seen_wordlist : W!InSegments(word)'
  BY <1>1, <1>3, DumpedIs DEF W!InSegments
<1>5. \A s : SegmentRight(s)' = SegmentRight(s)
  BY <1>2 DEF SegmentRight, Kept
<1>6. PassTyped'
  <2>1. Kept(UnreadWords)' /\ Kept(seen_wordlist)' /\ IsFiniteSet(seen_wordlist')
    BY <1>1, <1>2, FS_EmptySet DEF Kept
  <2>2. \A n \in 1..Len(segments') : SegmentRight(segments[n])'
    BY <1>4, <1>5 DEF SegmentRight, Kept, W!InFlatFile
  <2> QED
    BY <1>1, <1>3, <1>4, <2>1, <2>2 DEF PassTyped
<1>7. failures' = 0 => Len(segments') <= 1
  <2>1. failures = 0 => segments = <<>>
    BY <1>1 DEF SortInv
  <2> QED
    BY <1>1, <1>4, <2>1
<1>8. ASSUME ~opts.strings PROVE \E lost : Covered(lost)'
  <2>1. PICK lost : Covered(lost)
    BY <1>1, <1>8 DEF SortInv
  <2>2. Covered(lost)'
    BY <1>1, <1>2, <1>4, <2>1 DEF Covered
  <2> QED
    BY <2>2
<1> QED
  BY <1>1, <1>4, <1>6, <1>7, <1>8 DEF SortInv

LEMMA SortNext ==
  ASSUME SortInv, [W!Next]_W!vars
  PROVE  SortInv'
<1>1. FlatInv'
  BY FlatNext DEF SortInv
<1>2. ASSUME NEW page \in DOMAIN pending, W!Write(page) PROVE SortInv'
  <2>1. pc = "scan" /\ UNCHANGED <<pc, unread, seen_wordlist, segments, failures>>
    BY <1>2 DEF W!Write, W!dedup
  <2> QED
    BY <1>1, <2>1, SortWrite
<1>3. CASE W!Shutdown
  BY <1>1, <1>3, SortShutdown
<1>4. CASE W!Insert
  BY <1>1, <1>4, SortInsert
<1>5. CASE W!InsertFails
  BY <1>1, <1>5, SortInsertFails
<1>6. CASE W!Dump
  BY <1>1, <1>6, SortDump
<1>7. CASE UNCHANGED W!vars
  <2>1. UNCHANGED <<image, opts, pending, flat_wordlist, pc, unread, seen_wordlist, segments, failures>>
    BY <1>7 DEF W!vars, W!dedup
  <2>2. /\ W!InFlatFile' = W!InFlatFile /\ UnreadWords' = UnreadWords
        /\ \A word : W!InSegments(word)' = W!InSegments(word)
    BY <2>1 DEF W!InFlatFile, UnreadWords, W!InSegments, W!Range
  <2>3. PassTyped'
    <3>1. \A s : SegmentRight(s)' = SegmentRight(s)
      BY <2>2 DEF SegmentRight, Kept
    <3>2. /\ Len(segments') \in Nat /\ DOMAIN segments' = 1..Len(segments')
          /\ \A n \in 1..Len(segments') : SegmentRight(segments[n])'
      BY <2>1, <2>2, <3>1 DEF SortInv, PassTyped, SegmentRight, Kept
    <3>3. Kept(UnreadWords)' /\ Kept(seen_wordlist)'
      BY <2>1, <2>2 DEF SortInv, PassTyped, Kept
    <3> QED
      BY <2>1, <3>2, <3>3 DEF SortInv, PassTyped
  <2>4. \A lost : Covered(lost)' = Covered(lost)
    BY <2>1, <2>2 DEF Covered
  <2> QED
    BY <1>1, <2>1, <2>3, <2>4 DEF SortInv
<1> QED
  BY <1>2, <1>3, <1>4, <1>5, <1>6, <1>7 DEF W!Next

LEMMA SortedRight ==
  ASSUME SortInv
  PROVE  W!WordsSorted
<1>1. W!SegmentsSorted
  <2>1. ASSUME NEW n \in DOMAIN segments, NEW i \in DOMAIN segments[n], NEW j \in DOMAIN segments[n], i < j
        PROVE  W!Precedes(segments[n][i], segments[n][j])
    <3> DEFINE s == segments[n]
    <3>1. s \in Seq(Strings) /\ InOrder(s, Len(s))
      BY DEF SortInv, PassTyped, SegmentRight
    <3>2. i \in 1..Len(s) /\ j \in 1..Len(s)
      BY <3>1
    <3> HIDE DEF s
    <3>3. s[i] \in Strings /\ s[j] \in Strings
      BY <3>1, <3>2
    <3>4. W!SortsBefore(s[i], s[j])
      BY <2>1, <3>1, <3>2 DEF InOrder
    <3> QED
      BY <3>3, <3>4, SortedPrecedes DEF s
  <2>2. failures = 0 => Len(segments) <= 1
    BY DEF SortInv, PassTyped
  <2> QED
    BY <2>1, <2>2 DEF W!SegmentsSorted
<1>2. W!WordsKept
  <2>1. SUFFICES ASSUME pc = "done", ~opts.strings
                 PROVE  /\ \A n \in DOMAIN segments : W!Range(segments[n]) \subseteq W!InFlatFile
                        /\ W!Cardinality({word \in W!InFlatFile : ~W!InSegments(word)}) <= failures
    BY DEF W!WordsKept
  <2>2. \A n \in DOMAIN segments : W!Range(segments[n]) \subseteq W!InFlatFile
    BY DEF SortInv, PassTyped, SegmentRight, Kept
  <2>3. PICK lost : Covered(lost)
    BY <2>1 DEF SortInv
  <2>4. unread = <<>> /\ seen_wordlist = {} /\ failures \in Nat
    BY <2>1 DEF SortInv, PassTyped
  <2> DEFINE gone == {word \in W!InFlatFile : ~W!InSegments(word)}
  <2>5. gone \subseteq lost
    BY <2>3, <2>4 DEF Covered, UnreadWords
  <2> HIDE DEF gone
  <2>6. /\ Cardinality(gone) <= Cardinality(lost) /\ Cardinality(lost) <= failures
        /\ Cardinality(gone) \in Nat /\ Cardinality(lost) \in Nat
    BY <2>3, <2>5, FS_Subset, FS_CardinalityType DEF Covered
  <2>7. Cardinality(gone) <= failures
    BY <2>4, <2>6
  <2> QED
    BY <2>2, <2>7, CardinalityIs DEF gone
<1> QED
  BY <1>1, <1>2 DEF W!WordsSorted

-----------------------------------------------------------------------------
(* Both passes.                                                            *)

(* The word list by itself, for images, page sizes, margins, lengths of    *)
(* words and bounds of any size.                                           *)
THEOREM WordlistRight ==
  W!ConstantsRight /\ W!Spec => [](W!WordsFound /\ W!WordsSorted)
<1>1. W!ConstantsRight /\ W!Init => SortInv
  BY SortInit
<1>2. SortInv /\ [W!Next]_W!vars => SortInv'
  BY SortNext
<1>3. SortInv => W!WordsFound /\ W!WordsSorted
  BY AllAreWritten, NothingIsInvented, TwiceAtPageStart, SortedRight DEF W!WordsFound, SortInv
<1> QED
  BY <1>1, <1>2, <1>3, PTL DEF W!Spec

(* The invariant of the word list, if it is the filter chosen.             *)
LEMMA WordsInvariant == FiltersSpec => [](filter = "word list" => SortInv)
<1>1. FiltersInit => (filter = "word list" => SortInv)
  <2> SUFFICES ASSUME FiltersInit, filter = "word list" PROVE SortInv
    OBVIOUS
  <2>1. W!Init
    BY DEF FiltersInit, EscapingInit
  <2> QED
    BY <2>1, SortInit, FiltersAssumption
<1>2. (filter = "word list" => SortInv) /\ [FiltersNext]_<<filter, filters>>
      => (filter = "word list" => SortInv)'
  <2> SUFFICES ASSUME filter = "word list" => SortInv, [FiltersNext]_<<filter, filters>>,
                      filter' = "word list"
               PROVE  SortInv'
    OBVIOUS
  <2>1. filter = "word list"
    BY DEF FiltersNext, Stops, Words, Cards, Escapes
  <2>2. CASE W!Next
    BY <2>1, <2>2, SortNext
  <2>3. CASE UNCHANGED <<filter, filters>>
    <3>1. UNCHANGED W!vars
      BY <2>3 DEF filters, wordlist, W!vars, W!dedup
    <3> QED
      BY <2>1, <3>1, SortNext
  <2> QED
    BY <2>1, <2>2, <2>3 DEF FiltersNext, Stops, Words, Cards, Escapes
<1> QED
  BY <1>1, <1>2, PTL DEF FiltersSpec

(* Pass 1 of the word list is right, for images, page sizes, margins and   *)
(* word lengths of any size and whatever the order of the pages            *)
(* (scan_wordlist.cpp).                                                    *)
THEOREM WordsFoundHolds == FiltersSpec => []WordsFound
<1>1. (filter = "word list" => SortInv) => WordsFound
  BY AllAreWritten, NothingIsInvented, TwiceAtPageStart DEF WordsFound, W!WordsFound, SortInv
<1> QED
  BY <1>1, WordsInvariant, PTL

(* Pass 2 writes each word once in order, and loses no more words than     *)
(* memory ran out, for word lists and bounds of any size                   *)
(* (scan_wordlist.cpp).                                                    *)
THEOREM WordsSortedHolds == FiltersSpec => []WordsSorted
<1>1. (filter = "word list" => SortInv) => WordsSorted
  BY SortedRight DEF WordsSorted
<1> QED
  BY <1>1, WordsInvariant, PTL

-----------------------------------------------------------------------------
(* Sequences of digits and their checksum.                                 *)

LEMMA DigitsOf ==
  ASSUME NEW s \in Seq(0..9)
  PROVE  Len(s) \in Nat /\ DOMAIN s = 1..Len(s) /\ \A k \in 1..Len(s) : s[k] \in 0..9
<1> DEFINE B == 0..9
<1>1. s \in Seq(B)
  OBVIOUS
<1> HIDE DEF B
<1>2. Len(s) \in Nat /\ DOMAIN s = 1..Len(s) /\ \A k \in 1..Len(s) : s[k] \in B
  BY <1>1, Elements
<1> QED
  BY <1>2 DEF B

LEMMA DoubledIs ==
  \A d \in 0..9 : C!doubled[d] = (IF d < 5 THEN 2 * d ELSE (2 * d) - 9) /\ C!doubled[d] \in 0..9
<1>1. \A d \in 0..9 : C!doubled[d] = <<0, 2, 4, 6, 8, 1, 3, 5, 7, 9>>[d + 1]
  BY DEF C!doubled
<1> DEFINE t == <<0, 2, 4, 6, 8, 1, 3, 5, 7, 9>>
<1>2. /\ t[1] = 0 /\ t[2] = 2 /\ t[3] = 4 /\ t[4] = 6 /\ t[5] = 8
      /\ t[6] = 1 /\ t[7] = 3 /\ t[8] = 5 /\ t[9] = 7 /\ t[10] = 9
  OBVIOUS
<1> HIDE DEF t
<1>3. ASSUME NEW d \in 0..9
      PROVE  t[d + 1] = (IF d < 5 THEN 2 * d ELSE (2 * d) - 9) /\ t[d + 1] \in 0..9
  <2>1. d = 0 \/ d = 1 \/ d = 2 \/ d = 3 \/ d = 4 \/ d = 5 \/ d = 6 \/ d = 7 \/ d = 8 \/ d = 9
    OBVIOUS
  <2> QED
    BY <2>1, <1>2
<1> QED
  BY <1>1, <1>3 DEF t

(* What a digit counts for.                                                *)
Weight(even, d) == IF even THEN d ELSE C!doubled[d]
Even(s, n) == (Len(s) - n) % 2 = 0
Weighed(s, n) == Weight(Even(s, n), s[n])

LEMMA WeightIs ==
  ASSUME NEW even \in BOOLEAN, NEW d \in 0..9
  PROVE  /\ Weight(even, d) \in 0..9
         /\ even => Weight(even, d) = d
         /\ ~even => Weight(even, d) = IF d < 5 THEN 2 * d ELSE (2 * d) - 9
BY DoubledIs DEF Weight

Sums(chk, s) == chk[0] = 0 /\ \A n \in 1..Len(s) : chk[n] = chk[n - 1] + Weighed(s, n)

LEMMA ChecksumIs ==
  ASSUME NEW s \in Seq(0..9)
  PROVE  \E chk \in [0..Len(s) -> Int] : Sums(chk, s) /\ C!Checksum(s, C!doubled) = chk[Len(s)]
<1> DEFINE N == Len(s)
           Eq(f) == f = [n \in 0..N |->
                           IF n = 0 THEN 0
                           ELSE f[n - 1] + (IF (N - n) % 2 = 0 THEN s[n] ELSE C!doubled[s[n]])]
           f1 == CHOOSE f : Eq(f)
<1>1. N \in Nat /\ \A n \in 1..N : s[n] \in 0..9
  BY DigitsOf
<1>2. \A n \in 1..N : Weighed(s, n) \in Int
  <2>1. ASSUME NEW n \in 1..N PROVE Weighed(s, n) \in Int
    <3>1. Even(s, n) \in BOOLEAN /\ s[n] \in 0..9
      BY <1>1 DEF Even
    <3>2. Weight(Even(s, n), s[n]) \in 0..9
      BY <3>1, WeightIs
    <3>3. \A x \in 0..9 : x \in Int
      OBVIOUS
    <3> QED
      BY <3>2, <3>3 DEF Weighed
  <2> QED
    BY <2>1
<1> DEFINE g == [x \in Int \X (1..N) |-> x[1] + Weighed(s, x[2])]
<1>3. Steps(g, N, Int)
  <2>1. \A x \in Int \X (1..N) : x[1] + Weighed(s, x[2]) \in Int
    BY <1>2
  <2> QED
    BY <2>1 DEF Steps
<1>4. PICK f : Iterated(f, 0, g, N, Int)
  <2> HIDE DEF g, N
  <2>1. 0 \in Int
    OBVIOUS
  <2>2. \E f : Iterated(f, 0, g, N, Int)
    BY ONLY <1>1, <1>3, <2>1, Recursion
  <2> QED
    BY <2>2
<1>5. f \in [0..N -> Int] /\ f[0] = 0 /\ \A n \in 1..N : f[n] = f[n - 1] + Weighed(s, n)
  <2>1. f \in [0..N -> Int] /\ f[0] = 0 /\ \A n \in 1..N : f[n] = g[<<f[n - 1], n>>]
    BY <1>4 DEF Iterated
  <2>2. ASSUME NEW n \in 1..N PROVE f[n] = f[n - 1] + Weighed(s, n)
    <3>1. n - 1 \in 0..N
      BY <1>1
    <3>2. f[n - 1] \in Int
      BY <2>1, <3>1
    <3>3. g[<<f[n - 1], n>>] = f[n - 1] + Weighed(s, n)
      BY <3>2
    <3> QED
      BY <2>1, <3>3
  <2> QED
    BY <2>1, <2>2
<1> HIDE DEF g
<1>6. Eq(f)
  <2>1. ASSUME NEW n \in 0..N
        PROVE  f[n] = IF n = 0 THEN 0
                      ELSE f[n - 1] + (IF (N - n) % 2 = 0 THEN s[n] ELSE C!doubled[s[n]])
    <3>1. n = 0 \/ n \in 1..N
      BY <1>1
    <3> QED
      BY <3>1, <1>5 DEF Weighed, Weight, Even
  <2> QED
    BY <1>5, <2>1
<1>7. Eq(f1)
  <2> HIDE DEF Eq
  <2> QED
    BY <1>6
<1>8. C!Checksum(s, C!doubled) = f1[N]
  BY DEF C!Checksum
<1> HIDE DEF f1
<1>9. f1[0] = 0 /\ \A n \in 1..N : f1[n] = f1[n - 1] + Weighed(s, n)
  <2>1. 0 \in 0..N
    BY <1>1
  <2>2. ASSUME NEW n \in 1..N PROVE f1[n] = f1[n - 1] + Weighed(s, n)
    <3>1. n \in 0..N /\ n # 0
      BY <1>1
    <3> QED
      BY <1>7, <3>1 DEF Weighed, Weight, Even
  <2> QED
    BY <1>7, <2>1, <2>2
<1> DEFINE T == {n \in 0..N : f1[n] \in Int}
<1>10. \A n \in 0..N : n \in T
  <2>1. 0 \in T
    BY <1>1, <1>9
  <2>2. ASSUME NEW n \in 1..N, n - 1 \in T PROVE n \in T
    <3>1. f1[n - 1] \in Int
      BY <2>2
    <3>2. f1[n] = f1[n - 1] + Weighed(s, n) /\ Weighed(s, n) \in Int /\ n \in 0..N
      BY <1>1, <1>2, <1>9
    <3> QED
      BY <3>1, <3>2
  <2> HIDE DEF T, N
  <2> QED
    BY <1>1, <2>1, <2>2, IntervalInduction
<1>11. f1 \in [0..N -> Int]
  <2>1. DOMAIN f1 = 0..N /\ f1 = [n \in 0..N |-> f1[n]]
    <3> DEFINE h == [n \in 0..N |->
                       IF n = 0 THEN 0
                       ELSE f1[n - 1] + (IF (N - n) % 2 = 0 THEN s[n] ELSE C!doubled[s[n]])]
    <3>1. f1 = h
      BY <1>7
    <3>2. DOMAIN h = 0..N /\ h = [n \in 0..N |-> h[n]]
      OBVIOUS
    <3> HIDE DEF h
    <3> QED
      BY <3>1, <3>2
  <2>2. \A n \in 0..N : f1[n] \in Int
    BY <1>10
  <2> QED
    BY <2>1, <2>2
<1> QED
  BY <1>8, <1>9, <1>11 DEF Sums

(* One digit changes, and the checksum by as much as its weight does.      *)
LEMMA OneChanged ==
  ASSUME NEW s \in Seq(0..9), NEW t \in Seq(0..9), Len(t) = Len(s), NEW k \in 1..Len(s),
         \A j \in 1..Len(s) : j # k => t[j] = s[j]
  PROVE  /\ C!Checksum(s, C!doubled) \in Int
         /\ C!Checksum(t, C!doubled) = C!Checksum(s, C!doubled) + (Weighed(t, k) - Weighed(s, k))
<1> DEFINE N == Len(s)
<1>1. N \in Nat /\ (\A n \in 1..N : s[n] \in 0..9) /\ (\A n \in 1..N : t[n] \in 0..9)
  BY DigitsOf
<1>2. PICK c \in [0..N -> Int] : Sums(c, s) /\ C!Checksum(s, C!doubled) = c[N]
  BY ChecksumIs
<1>3. PICK d \in [0..N -> Int] : Sums(d, t) /\ C!Checksum(t, C!doubled) = d[N]
  <2>1. \E d \in [0..Len(t) -> Int] : Sums(d, t) /\ C!Checksum(t, C!doubled) = d[Len(t)]
    BY ChecksumIs
  <2> QED
    BY <2>1
<1>4. \A n \in 1..N : Weighed(s, n) \in Int /\ Weighed(t, n) \in Int
  <2>1. ASSUME NEW n \in 1..N PROVE Weighed(s, n) \in Int /\ Weighed(t, n) \in Int
    <3>1. Even(s, n) \in BOOLEAN /\ s[n] \in 0..9 /\ Even(t, n) \in BOOLEAN /\ t[n] \in 0..9
      BY <1>1 DEF Even
    <3>2. Weight(Even(s, n), s[n]) \in 0..9 /\ Weight(Even(t, n), t[n]) \in 0..9
      BY <3>1, WeightIs
    <3>3. \A x \in 0..9 : x \in Int
      OBVIOUS
    <3> QED
      BY <3>2, <3>3 DEF Weighed
  <2> QED
    BY <2>1
<1> DEFINE e == Weighed(t, k) - Weighed(s, k)
           T == {n \in 0..N : d[n] = c[n] + IF n < k THEN 0 ELSE e}
<1>5. e \in Int
  BY <1>4
<1>6. 0 \in T
  <2>1. 0 \in 0..N /\ 0 < k /\ c[0] = 0 /\ d[0] = 0
    BY <1>1, <1>2, <1>3 DEF Sums
  <2> QED
    BY <2>1
<1>7. ASSUME NEW n \in 1..N, n - 1 \in T PROVE n \in T
  <2>1. n \in 0..N /\ n - 1 \in 0..N /\ c[n - 1] \in Int /\ d[n - 1] \in Int
    <3>1. n \in 0..N /\ n - 1 \in 0..N
      BY <1>1
    <3> QED
      BY <3>1
  <2>2. c[n] = c[n - 1] + Weighed(s, n) /\ d[n] = d[n - 1] + Weighed(t, n)
    BY <1>2, <1>3 DEF Sums
  <2>3. d[n - 1] = c[n - 1] + IF n - 1 < k THEN 0 ELSE e
    BY <1>7
  <2>4. n # k => Weighed(t, n) = Weighed(s, n)
    BY DEF Weighed, Even
  <2>5. PICK x \in Int, y \in Int, p \in Int, q \in Int :
          x = c[n - 1] /\ y = d[n - 1] /\ p = Weighed(s, n) /\ q = Weighed(t, n)
    BY <2>1, <1>4
  <2>6. n = k => e = q - p
    BY <2>5
  <2> HIDE DEF e
  <2>7. n = k \/ n < k \/ n > k
    OBVIOUS
  <2>8. CASE n = k
    <3>1. y = x + 0 /\ q = p + e /\ ~(n < k)
      BY <2>3, <2>5, <2>6, <2>8, <1>5
    <3>2. d[n] = c[n] + e
      BY <3>1, <2>2, <2>5, <1>5
    <3> QED
      BY <3>1, <3>2, <2>1
  <2>9. CASE n < k
    <3>1. y = x + 0 /\ q = p
      BY <2>3, <2>4, <2>5, <2>9
    <3> QED
      BY <3>1, <2>1, <2>2, <2>5, <2>9
  <2>10. CASE n > k
    <3>1. y = x + e /\ q = p /\ ~(n < k)
      BY <2>3, <2>4, <2>5, <2>10
    <3> QED
      BY <3>1, <2>1, <2>2, <2>5, <1>5
  <2> QED
    BY <2>7, <2>8, <2>9, <2>10
<1>8. N \in T
  <2>1. \A n \in 0..N : n \in T
    <3> HIDE DEF T, N
    <3> QED
      BY <1>1, <1>6, <1>7, IntervalInduction
  <2> QED
    BY <1>1, <2>1
<1>9. ~(N < k) /\ c[N] \in Int
  BY <1>1
<1>10. d[N] = c[N] + e
  BY <1>8, <1>9
<1> QED
  BY <1>2, <1>3, <1>9, <1>10


-----------------------------------------------------------------------------
(* Misreadings, and what they do to the checksum.                          *)

Valid(s) == C!Checksum(s, C!doubled) % 10 = 0
Misprinted(s, t, k) ==
  k \in 1..Len(s) /\ Len(t) = Len(s) /\ t[k] # s[k] /\ \A j \in 1..Len(s) : j # k => t[j] = s[j]
Swapped(s, t, k) ==
  /\ k \in 1..(Len(s) - 1) /\ Len(t) = Len(s) /\ s[k] # s[k + 1]
  /\ t[k] = s[k + 1] /\ t[k + 1] = s[k]
  /\ \A j \in 1..Len(s) : j # k /\ j # k + 1 => t[j] = s[j]

LEMMA MultiplesOfTen ==
  ASSUME NEW a \in Int, NEW b \in Int, NEW e \in -9..9, a % 10 = 0, b % 10 = 0, b = a + e
  PROVE  e = 0
<1>1. PICK p \in Int, q \in Int : a = 10 * p /\ b = 10 * q
  <2>1. a = 10 * (a \div 10) + (a % 10) /\ a \div 10 \in Int
    OBVIOUS
  <2>2. b = 10 * (b \div 10) + (b % 10) /\ b \div 10 \in Int
    OBVIOUS
  <2> QED
    BY <2>1, <2>2
<1>2. e = 10 * (q - p) /\ q - p \in Int
  BY <1>1
<1>3. q - p = 0
  BY <1>2
<1> QED
  BY <1>2, <1>3

LEMMA MisprintCaught ==
  ASSUME NEW s \in Seq(0..9), NEW t \in Seq(0..9), NEW k, Misprinted(s, t, k), Valid(s), Valid(t)
  PROVE  FALSE
<1>1. /\ k \in 1..Len(s) /\ Len(t) = Len(s) /\ t[k] # s[k]
      /\ \A j \in 1..Len(s) : j # k => t[j] = s[j]
  BY DEF Misprinted
<1>2. s[k] \in 0..9 /\ t[k] \in 0..9
  BY <1>1, DigitsOf
<1>3. /\ C!Checksum(s, C!doubled) \in Int
      /\ C!Checksum(t, C!doubled) = C!Checksum(s, C!doubled) + (Weighed(t, k) - Weighed(s, k))
  BY <1>1, OneChanged
<1>4. Even(t, k) = Even(s, k) /\ Even(s, k) \in BOOLEAN
  BY <1>1 DEF Even
<1>5. PICK x \in 0..9, y \in 0..9 : x = s[k] /\ y = t[k] /\ x # y
  BY <1>1, <1>2
<1>6. PICK u \in 0..9, v \in 0..9 : u = Weighed(s, k) /\ v = Weighed(t, k) /\ u # v
  <2>1. CASE Even(s, k)
    <3>1. Weighed(s, k) = x /\ Weighed(t, k) = y
      BY <2>1, <1>4, <1>5, WeightIs DEF Weighed
    <3> QED
      BY <3>1, <1>5
  <2>2. CASE ~Even(s, k)
    <3>1. /\ Weighed(s, k) = IF x < 5 THEN 2 * x ELSE (2 * x) - 9
          /\ Weighed(t, k) = IF y < 5 THEN 2 * y ELSE (2 * y) - 9
      BY <2>2, <1>4, <1>5, WeightIs DEF Weighed
    <3>2. /\ (IF x < 5 THEN 2 * x ELSE (2 * x) - 9) \in 0..9
          /\ (IF y < 5 THEN 2 * y ELSE (2 * y) - 9) \in 0..9
          /\ (IF x < 5 THEN 2 * x ELSE (2 * x) - 9) # (IF y < 5 THEN 2 * y ELSE (2 * y) - 9)
      <4>1. x # y
        BY <1>5
      <4> QED
        BY <4>1
    <3> QED
      BY <3>1, <3>2
  <2> QED
    BY <2>1, <2>2
<1>7. PICK a \in Int, b \in Int :
        a = C!Checksum(s, C!doubled) /\ b = C!Checksum(t, C!doubled) /\ b = a + (v - u)
  BY <1>3, <1>6
<1>8. a % 10 = 0 /\ b % 10 = 0
  BY <1>7 DEF Valid
<1>9. v - u \in -9..9 /\ v - u # 0
  <2>1. u # v
    BY <1>6
  <2> QED
    BY <2>1
<1> QED
  BY <1>7, <1>8, <1>9, MultiplesOfTen

(* How much two neighbours count together, before and after.               *)
LEMMA SwapWeighs ==
  ASSUME NEW x \in 0..9, NEW y \in 0..9, x # y, NEW even \in BOOLEAN, NEW odd \in BOOLEAN,
         odd <=> ~even, NEW e,
         e = (Weight(even, y) - Weight(even, x)) + (Weight(odd, x) - Weight(odd, y))
  PROVE  e \in -9..9 /\ (e = 0 => {x, y} = {0, 9})
<1> DEFINE D(d) == IF d < 5 THEN 2 * d ELSE (2 * d) - 9
<1>1. CASE even
  <2>1. e = (y - x) + (D(x) - D(y))
    BY <1>1, WeightIs
  <2>2. e = (IF x < 5 THEN x ELSE x - 9) - (IF y < 5 THEN y ELSE y - 9)
    BY <2>1
  <2>3. e \in -9..9 /\ (e = 0 => (x = 0 /\ y = 9) \/ (x = 9 /\ y = 0))
    BY <2>2
  <2> QED
    BY <2>3
<1>2. CASE ~even
  <2>1. e = (D(y) - D(x)) + (x - y)
    BY <1>2, WeightIs
  <2>2. e = (IF y < 5 THEN y ELSE y - 9) - (IF x < 5 THEN x ELSE x - 9)
    BY <2>1
  <2>3. e \in -9..9 /\ (e = 0 => (x = 0 /\ y = 9) \/ (x = 9 /\ y = 0))
    BY <2>2
  <2> QED
    BY <2>3
<1> QED
  BY <1>1, <1>2

LEMMA SwapCaught ==
  ASSUME NEW s \in Seq(0..9), NEW t \in Seq(0..9), NEW k, Swapped(s, t, k), Valid(s), Valid(t)
  PROVE  {s[k], s[k + 1]} = {0, 9}
<1>0. Len(s) \in Nat
  BY DigitsOf
<1>1. /\ k \in 1..Len(s) /\ k + 1 \in 1..Len(s) /\ k # k + 1 /\ Len(t) = Len(s) /\ s[k] # s[k + 1]
      /\ t[k] = s[k + 1] /\ t[k + 1] = s[k]
      /\ \A j \in 1..Len(s) : j # k /\ j # k + 1 => t[j] = s[j]
  BY <1>0 DEF Swapped
<1>2. PICK x \in 0..9, y \in 0..9 : x = s[k] /\ y = s[k + 1] /\ x # y
  BY <1>1, DigitsOf
<1> DEFINE z == [s EXCEPT ![k] = y]
<1>3. z \in Seq(0..9) /\ Len(z) = Len(s) /\ \A j \in 1..Len(s) : z[j] = IF j = k THEN y ELSE s[j]
  <2> DEFINE B == 0..9
  <2>1. s \in Seq(B) /\ k \in 1..Len(s) /\ y \in B
    BY <1>1
  <2> HIDE DEF B
  <2>2. /\ z \in Seq(B) /\ Len(z) = Len(s)
        /\ \A j \in 1..Len(s) : z[j] = IF j = k THEN y ELSE s[j]
    BY <2>1, ExceptSeq
  <2> QED
    BY <2>2 DEF B
<1> HIDE DEF z
<1>4. z[k] = y /\ z[k + 1] = y
  BY <1>1, <1>2, <1>3
<1>5. /\ C!Checksum(s, C!doubled) \in Int
      /\ C!Checksum(z, C!doubled) = C!Checksum(s, C!doubled) + (Weighed(z, k) - Weighed(s, k))
  <2>1. \A j \in 1..Len(s) : j # k => z[j] = s[j]
    BY <1>3
  <2> QED
    BY <1>1, <1>3, <2>1, OneChanged
<1>6. /\ C!Checksum(z, C!doubled) \in Int
      /\ C!Checksum(t, C!doubled) = C!Checksum(z, C!doubled) + (Weighed(t, k + 1) - Weighed(z, k + 1))
  <2>1. \A j \in 1..Len(z) : j # k + 1 => t[j] = z[j]
    BY <1>1, <1>2, <1>3, <1>4
  <2>2. Len(t) = Len(z) /\ k + 1 \in 1..Len(z)
    BY <1>1, <1>3
  <2> QED
    BY <1>3, <2>1, <2>2, OneChanged
<1>7. PICK even \in BOOLEAN, odd \in BOOLEAN :
        /\ (odd <=> ~even) /\ Even(s, k) = even /\ Even(z, k) = even
        /\ Even(t, k + 1) = odd /\ Even(z, k + 1) = odd
  <2>1. Even(s, k) \in BOOLEAN /\ Even(s, k + 1) \in BOOLEAN /\ Even(z, k) = Even(s, k) /\ Even(t, k + 1) = Even(s, k + 1)
        /\ Even(z, k + 1) = Even(s, k + 1)
    BY <1>1, <1>3 DEF Even
  <2>2. Even(s, k + 1) <=> ~Even(s, k)
    <3>1. PICK l \in Nat, m \in Nat : l = Len(s) /\ m = k
      BY <1>0, <1>1
    <3>2. ((l - (m + 1)) % 2 = 0) <=> ~((l - m) % 2 = 0)
      OBVIOUS
    <3> QED
      BY <3>1, <3>2 DEF Even
  <2> QED
    BY <2>1, <2>2
<1>8. /\ Weighed(z, k) = Weight(even, y) /\ Weighed(s, k) = Weight(even, x)
      /\ Weighed(t, k + 1) = Weight(odd, x) /\ Weighed(z, k + 1) = Weight(odd, y)
  <2>1. z[k] = y /\ s[k] = x /\ t[k + 1] = x /\ z[k + 1] = y
    BY <1>1, <1>2, <1>4
  <2>2. Even(z, k) = even /\ Even(s, k) = even /\ Even(t, k + 1) = odd /\ Even(z, k + 1) = odd
    BY ONLY <1>7, Zenon
  <2> QED
    BY ONLY <2>1, <2>2, Zenon DEF Weighed
<1>9. /\ Weight(even, y) \in 0..9 /\ Weight(even, x) \in 0..9
      /\ Weight(odd, x) \in 0..9 /\ Weight(odd, y) \in 0..9
  BY WeightIs
<1>10. PICK e \in Int :
         e = (Weight(even, y) - Weight(even, x)) + (Weight(odd, x) - Weight(odd, y))
  <2>1. PICK p \in 0..9, q \in 0..9, u \in 0..9, v \in 0..9 :
          p = Weight(even, y) /\ q = Weight(even, x) /\ u = Weight(odd, x) /\ v = Weight(odd, y)
    BY <1>9
  <2>2. (p - q) + (u - v) \in Int
    OBVIOUS
  <2> QED
    BY <2>1, <2>2
<1>11. PICK a \in Int, b \in Int :
         a = C!Checksum(s, C!doubled) /\ b = C!Checksum(t, C!doubled) /\ b = a + e
  <2>1. PICK a \in Int, c \in Int : a = C!Checksum(s, C!doubled) /\ c = C!Checksum(z, C!doubled)
    BY <1>5, <1>6
  <2>2. PICK p \in 0..9, q \in 0..9, u \in 0..9, v \in 0..9 :
          p = Weight(even, y) /\ q = Weight(even, x) /\ u = Weight(odd, x) /\ v = Weight(odd, y)
    BY <1>9
  <2>3. c = a + (p - q) /\ C!Checksum(t, C!doubled) = c + (u - v)
    BY <1>5, <1>6, <1>8, <2>1, <2>2
  <2>4. e = (p - q) + (u - v)
    BY <1>10, <2>2
  <2>5. a + e \in Int /\ C!Checksum(t, C!doubled) = a + e
    BY <2>3, <2>4
  <2> QED
    BY <2>1, <2>5
<1>12. a % 10 = 0 /\ b % 10 = 0
  BY <1>11 DEF Valid
<1>13. e \in -9..9 /\ (e = 0 => {x, y} = {0, 9})
  <2>1. x # y /\ (odd <=> ~even)
    BY <1>2, <1>7
  <2>2. x \in 0..9 /\ y \in 0..9 /\ even \in BOOLEAN /\ odd \in BOOLEAN
    OBVIOUS
  <2> QED
    BY ONLY <2>1, <2>2, <1>10, SwapWeighs, Zenon
<1>14. e = 0
  BY <1>11, <1>12, <1>13, MultiplesOfTen
<1> QED
  BY <1>2, <1>13, <1>14


-----------------------------------------------------------------------------
(* What the tests see.                                                     *)

LEMMA DigitsAre ==
  ASSUME number \in Seq(0..9), ~grouped
  PROVE  C!digits = number
<1> DEFINE N == Len(number)
           Eq(f) == f = [n \in 0..N |->
                           IF n = 0 THEN <<>>
                           ELSE IF number[n] # -1 THEN Append(f[n - 1], number[n]) ELSE f[n - 1]]
           f1 == CHOOSE f : Eq(f)
           h == [n \in 0..N |-> SubSeq(number, 1, n)]
<1>1. N \in Nat /\ \A n \in 1..N : number[n] \in 0..9
  BY DigitsOf
<1>2. C!buf = number
  BY DEF C!buf
<1>3. \A n \in 1..N : number[n] # -1
  <2>1. \A d \in 0..9 : d # -1
    OBVIOUS
  <2> QED
    BY <1>1, <2>1
<1>4. SubSeq(number, 1, 0) = <<>>
  BY SubSeqEmpty
<1>5. ASSUME NEW n \in 1..N
      PROVE  SubSeq(number, 1, n) = Append(SubSeq(number, 1, n - 1), number[n])
  <2> DEFINE B == 0..9
  <2>1. number \in Seq(B) /\ 1 \in 1..Len(number) /\ n \in 1..Len(number) /\ number[n] \in B
    BY <1>1
  <2>2. \A j \in 1..(n - 1) : number[j] \in B
    BY <1>1
  <2>3. 1 \in Int /\ n - 1 \in Int
    BY <1>1
  <2> HIDE DEF B
  <2>4. SubSeq(number, 1, n) = SubSeq(number, 1, n - 1) \o <<number[n]>>
    BY <2>1, SubSeqRecursiveSecond
  <2>5. SubSeq(number, 1, n - 1) \in Seq(B)
    BY <2>2, <2>3, SubSeqProperties
  <2> QED
    BY <2>1, <2>4, <2>5, AppendIsConcat
<1>6. Eq(h)
  <2>1. ASSUME NEW n \in 0..N
        PROVE  SubSeq(number, 1, n) =
                 IF n = 0 THEN <<>>
                 ELSE IF number[n] # -1 THEN Append(h[n - 1], number[n]) ELSE h[n - 1]
    <3>1. CASE n = 0
      BY <3>1, <1>4
    <3>2. CASE n # 0
      <4>1. n \in 1..N /\ n - 1 \in 0..N
        BY <3>2, <1>1
      <4>2. h[n - 1] = SubSeq(number, 1, n - 1)
        BY <4>1
      <4> HIDE DEF h
      <4> QED
        BY <3>2, <4>1, <4>2, <1>3, <1>5
    <3> QED
      BY <3>1, <3>2
  <2> QED
    BY <2>1
<1>7. Eq(f1)
  <2> HIDE DEF Eq, h
  <2> QED
    BY <1>6
<1>8. C!digits = f1[N]
  BY <1>2 DEF C!digits
<1> HIDE DEF f1
<1> DEFINE T == {n \in 0..N : f1[n] = SubSeq(number, 1, n)}
<1>9. 0 \in T
  <2>1. 0 \in 0..N
    BY <1>1
  <2>2. f1[0] = <<>>
    BY <1>7, <2>1
  <2> QED
    BY <2>1, <2>2, <1>4
<1>10. ASSUME NEW n \in 1..N, n - 1 \in T PROVE n \in T
  <2>1. n \in 0..N /\ n # 0
    BY <1>1
  <2>2. f1[n] = Append(f1[n - 1], number[n])
    BY <1>3, <1>7, <2>1
  <2>3. f1[n - 1] = SubSeq(number, 1, n - 1)
    BY <1>10
  <2> QED
    BY <2>1, <2>2, <2>3, <1>5
<1>11. N \in T
  <2>1. \A n \in 0..N : n \in T
    <3> HIDE DEF T, N
    <3> QED
      BY <1>1, <1>9, <1>10, IntervalInduction
  <2> QED
    BY <1>1, <2>1
<1>12. SubSeq(number, 1, N) = number
  <2> DEFINE B == 0..9
  <2>1. number \in Seq(B)
    OBVIOUS
  <2> HIDE DEF B
  <2> QED
    BY <2>1, SubSeqFull
<1> QED
  BY <1>8, <1>11, <1>12

HasSeparator(s) == \E k \in 1..Len(s) : s[k] = -1

LEMMA SeparatorStays ==
  ASSUME NEW s \in Seq(Int), NEW t \in Seq(Int)
  PROVE  s \o t \in Seq(Int) /\ (HasSeparator(s) \/ t = <<-1>> => HasSeparator(s \o t))
<1>1. Len(s) \in Nat /\ Len(t) \in Nat
  OBVIOUS
<1> DEFINE u == s \o t
<1>2. /\ u \in Seq(Int) /\ Len(u) = Len(s) + Len(t)
      /\ \A i \in 1..(Len(s) + Len(t)) : u[i] = IF i <= Len(s) THEN s[i] ELSE t[i - Len(s)]
  BY ConcatProperties
<1> HIDE DEF u
<1>3. ASSUME HasSeparator(s) PROVE HasSeparator(u)
  <2>1. PICK k \in 1..Len(s) : s[k] = -1
    BY <1>3 DEF HasSeparator
  <2>2. k \in 1..(Len(s) + Len(t)) /\ k <= Len(s)
    BY <1>1
  <2>3. k \in 1..Len(u) /\ u[k] = -1
    BY <1>2, <2>1, <2>2
  <2> QED
    BY <2>3 DEF HasSeparator
<1>4. ASSUME t = <<-1>> PROVE HasSeparator(u)
  <2>1. Len(t) = 1 /\ t[1] = -1
    BY <1>4
  <2>2. PICK k \in 1..(Len(s) + Len(t)) : k = Len(s) + 1 /\ ~(k <= Len(s)) /\ k - Len(s) = 1
    BY <1>1, <2>1
  <2>3. k \in 1..Len(u) /\ u[k] = -1
    BY <1>2, <2>1, <2>2
  <2> QED
    BY <2>3 DEF HasSeparator
<1> QED
  BY <1>2, <1>3, <1>4 DEF u

LEMMA GroupedIsRejected ==
  ASSUME number \in Seq(0..9), C!Matches(number, grouped), grouped
  PROVE  ~C!NondigitsRight
<1>1. Len(number) \in Nat /\ \A n \in 1..Len(number) : number[n] \in 0..9
  BY DigitsOf
<1>2. Len(number) = 15 \/ Len(number) = 16
  BY DEF C!Matches
<1>3. ASSUME NEW first \in Int, NEW last \in Int, 1 <= first, last <= Len(number)
      PROVE  C!Part(first, last) \in Seq(Int)
  <2>1. \A x \in 0..9 : x \in Int
    OBVIOUS
  <2>2. \A n \in first..last : n \in 1..Len(number)
    BY <1>1, <1>3
  <2>3. \A n \in first..last : number[n] \in Int
    BY <1>1, <2>1, <2>2
  <2> QED
    BY <2>3, SubSeqProperties DEF C!Part
<1> DEFINE sep == <<-1>>
<1>4. sep \in Seq(Int)
  OBVIOUS
<1>5. C!buf \in Seq(Int) /\ HasSeparator(C!buf)
  <2>1. CASE Len(number) = 15
    <3> DEFINE p == C!Part(1, 4)
               q == C!Part(5, 10)
               r == C!Part(11, 15)
    <3>1. p \in Seq(Int) /\ q \in Seq(Int) /\ r \in Seq(Int)
      BY <1>3, <2>1
    <3>2. C!buf = p \o sep \o q \o sep \o r
      BY <2>1 DEF C!buf, C!Separated
    <3> HIDE DEF p, q, r, sep
    <3>3. p \o sep \in Seq(Int) /\ HasSeparator(p \o sep)
      BY <3>1, <1>4, SeparatorStays DEF sep
    <3>4. p \o sep \o q \in Seq(Int) /\ HasSeparator(p \o sep \o q)
      BY <3>1, <3>3, SeparatorStays
    <3>5. p \o sep \o q \o sep \in Seq(Int) /\ HasSeparator(p \o sep \o q \o sep)
      BY <1>4, <3>4, SeparatorStays
    <3>6. p \o sep \o q \o sep \o r \in Seq(Int) /\ HasSeparator(p \o sep \o q \o sep \o r)
      BY <3>1, <3>5, SeparatorStays
    <3> QED
      BY <3>2, <3>6
  <2>2. CASE Len(number) = 16
    <3> DEFINE p == C!Part(1, 4)
               q == C!Part(5, 8)
               r == C!Part(9, 12)
               t == C!Part(13, Len(number))
    <3>1. p \in Seq(Int) /\ q \in Seq(Int) /\ r \in Seq(Int) /\ t \in Seq(Int)
      <4> HIDE DEF p, q, r, t
      <4>1. p \in Seq(Int)
        BY <1>3, <2>2 DEF p
      <4>2. q \in Seq(Int)
        BY <1>3, <2>2 DEF q
      <4>3. r \in Seq(Int)
        BY <1>3, <2>2 DEF r
      <4>4. t \in Seq(Int)
        BY <1>1, <1>3, <2>2 DEF t
      <4> QED
        BY <4>1, <4>2, <4>3, <4>4
    <3>2. C!buf = p \o sep \o q \o sep \o r \o sep \o t
      BY <2>2 DEF C!buf, C!Separated
    <3> HIDE DEF p, q, r, t, sep
    <3>3. p \o sep \in Seq(Int) /\ HasSeparator(p \o sep)
      BY <3>1, <1>4, SeparatorStays DEF sep
    <3>4. p \o sep \o q \in Seq(Int) /\ HasSeparator(p \o sep \o q)
      BY <3>1, <3>3, SeparatorStays
    <3>5. p \o sep \o q \o sep \in Seq(Int) /\ HasSeparator(p \o sep \o q \o sep)
      BY <1>4, <3>4, SeparatorStays
    <3>6. p \o sep \o q \o sep \o r \in Seq(Int) /\ HasSeparator(p \o sep \o q \o sep \o r)
      BY <3>1, <3>5, SeparatorStays
    <3>7. /\ p \o sep \o q \o sep \o r \o sep \in Seq(Int)
          /\ HasSeparator(p \o sep \o q \o sep \o r \o sep)
      BY <1>4, <3>6, SeparatorStays
    <3>8. /\ p \o sep \o q \o sep \o r \o sep \o t \in Seq(Int)
          /\ HasSeparator(p \o sep \o q \o sep \o r \o sep \o t)
      BY <3>1, <3>7, SeparatorStays
    <3> QED
      BY <3>2, <3>8
  <2> QED
    BY <1>2, <2>1, <2>2
<1>6. DOMAIN C!buf = 1..Len(C!buf)
  BY <1>5, Elements
<1> QED
  BY <1>5, <1>6 DEF HasSeparator, C!NondigitsRight

-----------------------------------------------------------------------------
(* The filter.                                                             *)

CardRight ==
  /\ number \in Seq(0..9) /\ C!Matches(number, grouped) /\ grouped \in BOOLEAN
  /\ verdict = "accepted" => ~grouped /\ Valid(number)
  /\ original # <<>> =>
       /\ ~grouped /\ original \in Seq(0..9) /\ Valid(original)
       /\ \E k : Misprinted(original, number, k) \/ Swapped(original, number, k)

LEMMA CardInit == C!ConstantsRight /\ C!Init => CardRight
BY DEF C!ConstantsRight, C!Init, CardRight

LEMMA CardValid ==
  ASSUME CardRight, C!valid_ccn
  PROVE  CardRight'
<1>1. /\ number' = number /\ grouped' = grouped /\ original' = original
      /\ verdict' \in C!Outcomes
  BY DEF C!valid_ccn
<1>2. verdict' = "accepted" => C!NondigitsRight /\ C!ccv1_test
  BY <1>1 DEF C!Outcomes, C!Verdict
<1>3. verdict' = "accepted" => ~grouped /\ Valid(number)
  <2>1. ASSUME verdict' = "accepted" PROVE ~grouped /\ Valid(number)
    <3>1. C!NondigitsRight /\ C!ccv1_test
      BY <1>2, <2>1
    <3>2. ~grouped
      BY <3>1, GroupedIsRejected DEF CardRight
    <3>3. C!digits = number
      BY <3>2, DigitsAre DEF CardRight
    <3> QED
      BY <3>1, <3>2, <3>3 DEF C!ccv1_test, Valid
  <2> QED
    BY <2>1
<1> QED
  BY <1>1, <1>3 DEF CardRight

LEMMA CardMisread ==
  ASSUME CardRight, NEW next \in Seq(0..9), C!Misread(next),
         \E k : Misprinted(number, next, k) \/ Swapped(number, next, k)
  PROVE  CardRight'
<1>1. /\ number' = next /\ original' = number /\ grouped' = grouped /\ verdict' = "none"
      /\ verdict = "accepted" /\ C!Matches(next, grouped)
  BY DEF C!Misread
<1>2. ~grouped /\ number \in Seq(0..9) /\ Valid(number)
  BY <1>1 DEF CardRight
<1>3. C!Matches(number, grouped)'
  BY <1>1 DEF C!Matches
<1> QED
  BY <1>1, <1>2, <1>3 DEF CardRight

LEMMA CardNext == CardRight /\ [C!Next]_(C!vars) => CardRight'
<1> SUFFICES ASSUME CardRight, [C!Next]_(C!vars) PROVE CardRight'
  OBVIOUS
<1>1. number \in Seq(0..9) /\ Len(number) \in Nat /\ DOMAIN number = 1..Len(number)
      /\ \A j \in 1..Len(number) : number[j] \in 0..9
  BY DigitsOf DEF CardRight
<1>2. ASSUME NEW s \in Seq(0..9), NEW k \in 1..Len(s), NEW d \in 0..9
      PROVE  /\ [s EXCEPT ![k] = d] \in Seq(0..9) /\ Len([s EXCEPT ![k] = d]) = Len(s)
             /\ \A j \in 1..Len(s) : [s EXCEPT ![k] = d][j] = IF j = k THEN d ELSE s[j]
  <2> DEFINE B == 0..9
  <2>1. s \in Seq(B) /\ d \in B
    OBVIOUS
  <2> HIDE DEF B
  <2>2. /\ [s EXCEPT ![k] = d] \in Seq(B) /\ Len([s EXCEPT ![k] = d]) = Len(s)
        /\ \A j \in 1..Len(s) : [s EXCEPT ![k] = d][j] = IF j = k THEN d ELSE s[j]
    BY <2>1, ExceptSeq
  <2> QED
    BY <2>2 DEF B
<1>3. CASE C!valid_ccn
  BY <1>3, CardValid
<1>4. CASE C!Misprint
  <2>1. PICK k \in DOMAIN number, d \in 0..9 : d # number[k] /\ C!Misread([number EXCEPT ![k] = d])
    BY <1>4 DEF C!Misprint
  <2>2. k \in 1..Len(number)
    BY <1>1
  <2> DEFINE next == [number EXCEPT ![k] = d]
  <2>3. /\ next \in Seq(0..9) /\ Len(next) = Len(number)
        /\ \A j \in 1..Len(number) : next[j] = IF j = k THEN d ELSE number[j]
    BY <1>1, <1>2, <2>2
  <2>4. C!Misread(next)
    BY <2>1
  <2> HIDE DEF next
  <2>5. Misprinted(number, next, k)
    BY <2>1, <2>2, <2>3 DEF Misprinted
  <2> QED
    BY <2>3, <2>4, <2>5, CardMisread
<1>5. CASE C!Swap
  <2>1. PICK k \in 1..(Len(number) - 1) :
          /\ number[k] # number[k + 1]
          /\ C!Misread([number EXCEPT ![k] = number[k + 1], ![k + 1] = number[k]])
    BY <1>5 DEF C!Swap
  <2>2. k \in 1..Len(number) /\ k + 1 \in 1..Len(number) /\ k # k + 1
    BY <1>1
  <2>3. number[k] \in 0..9 /\ number[k + 1] \in 0..9
    BY <1>1, <2>2
  <2> DEFINE z == [number EXCEPT ![k] = number[k + 1]]
             next == [number EXCEPT ![k] = number[k + 1], ![k + 1] = number[k]]
  <2>4. /\ z \in Seq(0..9) /\ Len(z) = Len(number)
        /\ \A j \in 1..Len(number) : z[j] = IF j = k THEN number[k + 1] ELSE number[j]
    BY <1>1, <1>2, <2>2, <2>3
  <2>5. next = [z EXCEPT ![k + 1] = number[k]]
    OBVIOUS
  <2>6. C!Misread(next)
    BY <2>1
  <2> HIDE DEF next, z
  <2>7. /\ next \in Seq(0..9) /\ Len(next) = Len(z)
        /\ \A j \in 1..Len(z) : next[j] = IF j = k + 1 THEN number[k] ELSE z[j]
    <3>1. k + 1 \in 1..Len(z)
      BY <2>2, <2>4
    <3> QED
      BY <1>2, <2>3, <2>4, <2>5, <3>1
  <2>8. Swapped(number, next, k)
    BY <2>1, <2>2, <2>4, <2>7 DEF Swapped
  <2> QED
    BY <2>6, <2>7, <2>8, CardMisread
<1>6. CASE UNCHANGED C!vars
  BY <1>6 DEF C!vars, CardRight, C!Matches
<1> QED
  BY <1>3, <1>4, <1>5, <1>6 DEF C!Next

LEMMA CardCaught == CardRight => C!MisreadingCaught
<1> SUFFICES ASSUME CardRight, original # <<>>, verdict = "accepted" PROVE C!Changed = {0, 9}
  BY DEF C!MisreadingCaught
<1>1. /\ number \in Seq(0..9) /\ original \in Seq(0..9) /\ Valid(number) /\ Valid(original)
      /\ \E k : Misprinted(original, number, k) \/ Swapped(original, number, k)
  BY DEF CardRight
<1>2. DOMAIN number = 1..Len(number)
  BY <1>1, DigitsOf
<1>3. PICK k : Misprinted(original, number, k) \/ Swapped(original, number, k)
  BY <1>1
<1>4. Swapped(original, number, k)
  BY <1>1, <1>3, MisprintCaught
<1>5. {original[k], original[k + 1]} = {0, 9}
  BY <1>1, <1>4, SwapCaught
<1>6. /\ Len(number) = Len(original) /\ number[k] = original[k + 1] /\ number[k + 1] = original[k]
      /\ original[k] # original[k + 1]
      /\ \A j \in 1..Len(original) : j # k /\ j # k + 1 => number[j] = original[j]
      /\ k \in 1..Len(number) /\ k + 1 \in 1..Len(number)
  <2>1. Len(original) \in Nat
    BY <1>1, DigitsOf
  <2> QED
    BY <1>4, <2>1 DEF Swapped
<1>7. {j \in DOMAIN number : number[j] # original[j]} = {k, k + 1}
  BY <1>2, <1>6
<1>8. C!Changed = {number[k], number[k + 1]}
  BY <1>7 DEF C!Changed
<1> QED
  BY <1>5, <1>6, <1>8

(* The filter of card numbers by itself.                                   *)
THEOREM CardsRight == C!ConstantsRight /\ C!Spec => []C!MisreadingCaught
<1>1. C!ConstantsRight /\ C!Init => CardRight
  BY CardInit
<1>2. CardRight /\ [C!Next]_(C!vars) => CardRight'
  BY CardNext
<1>3. CardRight => C!MisreadingCaught
  BY CardCaught
<1> QED
  BY <1>1, <1>2, <1>3, PTL DEF C!Spec

(* If a credit card number is accepted, valid_ccn rejects it with any      *)
(* other single digit, and with two neighbours exchanged, unless they are  *)
(* 0 and 9: for numbers and surroundings of every kind.                    *)
THEOREM MisreadingCaughtHolds == FiltersSpec => []MisreadingCaught
<1>1. FiltersInit => (filter = "cards" => CardRight)
  <2> SUFFICES ASSUME FiltersInit, filter = "cards" PROVE CardRight
    OBVIOUS
  <2>1. C!Init
    BY DEF FiltersInit, EscapingInit
  <2> QED
    BY <2>1, CardInit, FiltersAssumption
<1>2. (filter = "cards" => CardRight) /\ [FiltersNext]_<<filter, filters>>
      => (filter = "cards" => CardRight)'
  <2> SUFFICES ASSUME filter = "cards" => CardRight, [FiltersNext]_<<filter, filters>>,
                      filter' = "cards"
               PROVE  CardRight'
    OBVIOUS
  <2>1. filter = "cards"
    BY DEF FiltersNext, Stops, Words, Cards, Escapes
  <2>2. CASE C!Next
    BY <2>1, <2>2, CardNext
  <2>3. CASE UNCHANGED <<filter, filters>>
    <3>1. UNCHANGED C!vars
      BY <2>3 DEF filters, cards, C!vars
    <3> QED
      BY <2>1, <3>1, CardNext
  <2> QED
    BY <2>1, <2>2, <2>3 DEF FiltersNext, Stops, Words, Cards, Escapes
<1>3. (filter = "cards" => CardRight) => MisreadingCaught
  BY CardCaught DEF MisreadingCaught
<1> QED
  BY <1>1, <1>2, <1>3, PTL DEF FiltersSpec
=============================================================================
