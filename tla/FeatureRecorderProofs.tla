------------------------ MODULE FeatureRecorderProofs ------------------------
(***************************************************************************)
(* Proofs about feature files: for any number of writers, runs and         *)
(* features, wherever a run crashes or the disk is full, in files that are *)
(* shorter than the positions the code can tell apart.                     *)
(***************************************************************************)
EXTENDS FeatureRecorder, SequenceTheorems, FiniteSetTheorems, TLAPS

-----------------------------------------------------------------------------
(* Lines in a sequence of cells.                                           *)

(* A non-empty set of bounded numbers has a largest one.                   *)
LEMMA MaxIs ==
  ASSUME NEW n \in Nat, NEW T \in SUBSET (0..n), T # {}
  PROVE  Max(T) \in T /\ \A y \in T : Max(T) >= y
<1> DEFINE less == {pair \in Nat \X Nat : pair[1] < pair[2]}
           U == {n - x : x \in T}
<1>1. less = OpToRel(<, Nat)
  BY DEF OpToRel
<1>2. IsWellFoundedOn(less, Nat)
  BY <1>1, NatLessThanWellFounded
<1>3. U \subseteq Nat /\ U # {}
  <2>1. \A x \in T : n - x \in Nat
    OBVIOUS
  <2>2. PICK x \in T : TRUE
    OBVIOUS
  <2>3. n - x \in U
    BY <2>2
  <2> QED
    BY <2>1, <2>3
<1>4. PICK m \in U : \A x \in U : ~ (<<x, m>> \in less)
  <2> HIDE DEF less, U
  <2> QED
    BY <1>2, <1>3, WFMin
<1>5. PICK t \in T : m = n - t
  OBVIOUS
<1>6. \A y \in T : t >= y
  <2> SUFFICES ASSUME NEW y \in T PROVE t >= y
    OBVIOUS
  <2>1. <<n - y, m>> \notin less /\ n - y \in Nat /\ m \in Nat
    BY <1>3, <1>4
  <2>2. ~ (n - y < m)
    BY <2>1
  <2> QED
    BY <1>5, <2>1, <2>2
<1> QED
  BY <1>6 DEF Max

(* A part of a sequence.                                                   *)
LEMMA PartIs ==
  ASSUME NEW v \in Seq(Int), NEW m \in Nat, NEW n \in Nat, m + n <= Len(v)
  PROVE  /\ SubSeq(v, m + 1, m + n) \in Seq(Int) /\ Len(SubSeq(v, m + 1, m + n)) = n
         /\ \A i \in 1..n : SubSeq(v, m + 1, m + n)[i] = v[m + i]
<1>1. PICK a \in Nat, b \in Nat : a = m + 1 /\ b = m + n
  OBVIOUS
<1>2. PICK w : w = SubSeq(v, a, b)
  OBVIOUS
<1>3. \A i \in a..b : v[i] \in Int
  BY <1>1
<1>4. w \in Seq(Int) /\ Len(w) = n
  BY <1>1, <1>2, <1>3
<1>5. \A i \in 1..n : w[i] = v[a + i - 1] /\ a + i - 1 = m + i
  BY <1>1, <1>2
<1> QED
  BY <1>1, <1>2, <1>4, <1>5

LineAt(v, e) == SubSeq(v, Begin(v, e), e)
SameUpTo(u, v, n) == n <= Len(u) /\ n <= Len(v) /\ \A i \in 1..n : u[i] = v[i]

(* A line begins behind the last end of line before it.                    *)
LEMMA BeginIs ==
  ASSUME NEW v \in Seq(Int), NEW e \in 1..Len(v)
  PROVE  /\ Begin(v, e) \in 1..e
         /\ \A b \in 1..e : /\ b = 1 \/ v[b - 1] = End
                            /\ \A i \in b..(e - 1) : v[i] # End
                            => b = Begin(v, e)
<1> DEFINE T == {0} \union {i \in Ends(v) : i < e}
<1>1. Len(v) \in Nat /\ DOMAIN v = 1..Len(v)
  OBVIOUS
<1>2. T \in SUBSET (0..(e - 1)) /\ T # {} /\ e - 1 \in Nat
  BY <1>1 DEF Ends
<1>3. Max(T) \in T /\ \A y \in T : Max(T) >= y
  <2> HIDE DEF T
  <2> QED
    BY <1>2, MaxIs
<1>4. Begin(v, e) = 1 + Max(T)
  BY DEF Begin
<1>5. Begin(v, e) \in 1..e
  <2>1. PICK m : m = Max(T)
    OBVIOUS
  <2>2. m \in 0..(e - 1) /\ Begin(v, e) = 1 + m
    <3> HIDE DEF T
    <3> QED
      BY <1>2, <1>3, <1>4, <2>1
  <2> QED
    BY <2>2
<1>6. ASSUME NEW b \in 1..e, b = 1 \/ v[b - 1] = End, \A i \in b..(e - 1) : v[i] # End
      PROVE  b = Begin(v, e)
  <2>1. b - 1 \in T
    BY <1>1, <1>6 DEF Ends
  <2>2. \A y \in T : y <= b - 1
    <3> SUFFICES ASSUME NEW y \in T, ~(y <= b - 1) PROVE FALSE
      OBVIOUS
    <3>1. y \in Ends(v) /\ y < e
      BY <1>2
    <3>2. y \in b..(e - 1) /\ v[y] = End
      BY <1>1, <1>2, <3>1 DEF Ends
    <3> QED
      BY <1>6, <3>2
  <2>3. Max(T) <= b - 1 /\ Max(T) >= b - 1 /\ Max(T) \in 0..(e - 1)
    <3> HIDE DEF T
    <3> QED
      BY <1>2, <1>3, <2>1, <2>2
  <2> HIDE DEF T
  <2> QED
    BY <1>4, <2>3
<1> QED
  BY <1>5, <1>6

(* Files that begin alike have the same lines there.                       *)
LEMMA LinesSame ==
  ASSUME NEW u \in Seq(Int), NEW v \in Seq(Int), NEW n \in Nat, SameUpTo(u, v, n),
         NEW e \in 1..n
  PROVE  /\ e \in 1..Len(u) /\ e \in 1..Len(v)
         /\ e \in Ends(u) <=> e \in Ends(v)
         /\ LineAt(u, e) = LineAt(v, e)
<1>1. /\ Len(u) \in Nat /\ DOMAIN u = 1..Len(u) /\ Len(v) \in Nat /\ DOMAIN v = 1..Len(v)
      /\ e \in 1..Len(u) /\ e \in 1..Len(v) /\ \A i \in 1..e : u[i] = v[i]
  BY DEF SameUpTo
<1>2. e \in Ends(u) <=> e \in Ends(v)
  BY <1>1 DEF Ends
<1>3. {i \in Ends(u) : i < e} = {i \in Ends(v) : i < e}
  BY <1>1 DEF Ends
<1>4. Begin(u, e) = Begin(v, e)
  BY <1>3, Zenon DEF Begin
<1>5. PICK b : b = Begin(u, e) /\ b = Begin(v, e)
  BY <1>4
<1>6. b \in 1..e
  BY <1>1, <1>5, BeginIs
<1>7. SubSeq(u, b, e) = SubSeq(v, b, e)
  BY <1>1, <1>6
<1> QED
  BY <1>1, <1>2, <1>5, <1>7 DEF LineAt

(* A line is added to a file that ends with one.                           *)
Ended(v) == Len(v) = 0 \/ v[Len(v)] = End
OneLine(out) == /\ out \in Seq(Int) /\ Len(out) >= 1 /\ out[Len(out)] = End
                /\ \A i \in 1..(Len(out) - 1) : out[i] # End

LEMMA LineAdded ==
  ASSUME NEW v \in Seq(Int), Ended(v), NEW out, OneLine(out)
  PROVE  /\ v \o out \in Seq(Int) /\ Ended(v \o out) /\ Len(v \o out) = Len(v) + Len(out)
         /\ SameUpTo(v, v \o out, Len(v)) /\ Len(v) \in Nat /\ Len(v \o out) \in Nat
         /\ \A i \in 1..Len(out) : (v \o out)[Len(v) + i] = out[i]
         /\ \A e : e \in Ends(v \o out) <=> e \in Ends(v) \/ e = Len(v \o out)
         /\ Len(v \o out) \notin Ends(v)
         /\ LineAt(v \o out, Len(v \o out)) = out
<1>1. /\ out \in Seq(Int) /\ Len(out) \in Nat /\ Len(out) >= 1 /\ Len(v) \in Nat
      /\ DOMAIN v = 1..Len(v)
  BY DEF OneLine
<1>2. PICK u : u = v \o out
  OBVIOUS
<1>3. PICK m \in Nat : m = Len(v)
  BY <1>1
<1>4. PICK n \in Nat : n = Len(out) /\ n >= 1
  BY <1>1
<1>5. /\ u \in Seq(Int) /\ Len(u) = m + n /\ DOMAIN u = 1..(m + n)
      /\ \A i \in 1..m : u[i] = v[i]
      /\ \A i \in 1..n : u[m + i] = out[i]
  BY <1>1, <1>2, <1>3, <1>4
<1>6. u[m + n] = End /\ \A i \in (m + 1)..(m + n - 1) : u[i] # End
  <2>1. out[n] = End /\ \A i \in 1..(n - 1) : out[i] # End
    BY <1>4 DEF OneLine
  <2>2. ASSUME NEW i \in (m + 1)..(m + n - 1) PROVE u[i] # End
    <3>1. i - m \in 1..(n - 1) /\ i - m \in 1..n /\ m + (i - m) = i
      OBVIOUS
    <3> QED
      BY <1>5, <2>1, <3>1
  <2> QED
    BY <1>4, <1>5, <2>1, <2>2
<1>7. \A e : e \in Ends(u) <=> e \in Ends(v) \/ e = m + n
  <2>1. \A e : e \in Ends(u) <=> e \in 1..(m + n) /\ u[e] = End
    BY <1>5 DEF Ends
  <2>2. \A e : e \in Ends(v) <=> e \in 1..m /\ v[e] = End
    BY <1>1, <1>3 DEF Ends
  <2>3. \A e \in 1..(m + n) : e \in 1..m \/ e \in (m + 1)..(m + n - 1) \/ e = m + n
    BY <1>4
  <2>4. 1..m \subseteq 1..(m + n) /\ m + n \in 1..(m + n) /\ m + n \notin 1..m
    BY <1>4
  <2> QED
    BY <1>5, <1>6, <2>1, <2>2, <2>3, <2>4
<1>8. m + n \notin Ends(v)
  BY <1>1, <1>3, <1>4 DEF Ends
<1>9. Begin(u, m + n) = m + 1
  <2>1. m + n \in 1..Len(u) /\ m + 1 \in 1..(m + n)
    BY <1>4, <1>5
  <2>2. m + 1 = 1 \/ u[m + 1 - 1] = End
    BY <1>3, <1>5 DEF Ended
  <2>3. PICK e : e = m + n
    OBVIOUS
  <2>4. PICK b : b = m + 1
    OBVIOUS
  <2>5. /\ e \in 1..Len(u) /\ b \in 1..e
        /\ b = 1 \/ u[b - 1] = End
        /\ \A i \in b..(e - 1) : u[i] # End
    BY <1>6, <2>1, <2>2, <2>3, <2>4
  <2>6. b = Begin(u, e)
    BY <1>5, <2>5, BeginIs
  <2> QED
    BY <2>3, <2>4, <2>6
<1>10. SubSeq(u, m + 1, m + n) = out
  <2>1. PICK w : w = SubSeq(u, m + 1, m + n)
    OBVIOUS
  <2>2. w \in Seq(Int) /\ Len(w) = n /\ \A i \in 1..n : w[i] = u[m + i]
    <3>1. m + n <= Len(u)
      BY <1>5
    <3>2. /\ SubSeq(u, m + 1, m + n) \in Seq(Int) /\ Len(SubSeq(u, m + 1, m + n)) = n
          /\ \A i \in 1..n : SubSeq(u, m + 1, m + n)[i] = u[m + i]
      BY <1>5, <3>1, PartIs
    <3> QED
      BY <2>1, <3>2, Zenon
  <2>3. w = out
    BY <1>1, <1>4, <1>5, <2>2, SeqEqual
  <2> QED
    BY <2>1, <2>3
<1>11. PICK e : e = m + n /\ e = Len(u) /\ e \in Nat
  BY <1>5
<1>12. LineAt(u, e) = out
  BY <1>9, <1>10, <1>11 DEF LineAt
<1>13. Ended(u) /\ SameUpTo(v, u, m)
  BY <1>3, <1>4, <1>5, <1>6, <1>11 DEF Ended, SameUpTo
<1>14. /\ u \in Seq(Int) /\ Ended(u) /\ Len(u) = Len(v) + Len(out)
       /\ SameUpTo(v, u, Len(v)) /\ Len(v) \in Nat /\ Len(u) \in Nat
       /\ \A i \in 1..Len(out) : u[Len(v) + i] = out[i]
       /\ \A i : i \in Ends(u) <=> i \in Ends(v) \/ i = Len(u)
       /\ Len(u) \notin Ends(v)
       /\ LineAt(u, Len(u)) = out
  BY <1>3, <1>4, <1>5, <1>7, <1>8, <1>11, <1>12, <1>13
<1> QED
  BY <1>2, <1>14

-----------------------------------------------------------------------------
(* What a file is: whole lines of its recorder, each of them once, behind  *)
(* its banner.  ls are the lines that were ever sent.                      *)

LineType == [recorder : Recorders, feature : Features, run : Nat]
CommentLine == <<Comment, End>>
Here(v, ls, r, e, w) == /\ w \in 1..Len(ls) /\ ls[w].recorder = r
                        /\ LineAt(v, e) = Line(w, ls[w].feature)
Formatted(v, ls, r) ==
  /\ v \in Seq(Int) /\ Ended(v)
  /\ \A i \in 1..Len(v) : v[i] \in -1..Len(ls)
  /\ \A e \in Ends(v) : LineAt(v, e) = CommentLine \/ \E w : Here(v, ls, r, e, w)
  /\ \A w \in 1..Len(ls) : \A e, g \in Ends(v) :
       LineAt(v, e) = Line(w, ls[w].feature) /\ LineAt(v, g) = Line(w, ls[w].feature) => e = g
  /\ \A e, g \in Ends(v) : e < g /\ LineAt(v, g) = CommentLine => LineAt(v, e) = CommentLine

(* A line is made of the number of its write and its end.                  *)
LEMMA LineIs ==
  ASSUME NEW f \in Features, NEW w \in Nat, w > 0
  PROVE  /\ OneLine(Line(w, f)) /\ Len(Line(w, f)) > 1
         /\ Line(w, f)[1] = w
         /\ \A i \in 1..Len(Line(w, f)) : Line(w, f)[i] \in {w, End}
<1>1. PICK n \in Nat : n = Length[f] /\ n > 0
  BY FeaturesAssumption
<1>2. PICK l : l = Line(w, f)
  OBVIOUS
<1>3. PICK cells : cells = [i \in 1..n |-> w]
  OBVIOUS
<1>4. cells \in Seq(Int) /\ Len(cells) = n /\ \A i \in 1..n : cells[i] = w
  BY <1>3
<1>5. l = cells \o <<End>>
  BY <1>1, <1>2, <1>3 DEF Line
<1>6. /\ l \in Seq(Int) /\ Len(l) = n + 1 /\ l[n + 1] = End
      /\ \A i \in 1..n : l[i] = w
  BY <1>4, <1>5 DEF End
<1>7. OneLine(l)
  BY <1>1, <1>6 DEF OneLine, End
<1>8. Len(l) > 1 /\ l[1] = w /\ \A i \in 1..Len(l) : l[i] \in {w, End}
  BY <1>1, <1>6
<1> QED
  BY <1>2, <1>7, <1>8

LEMMA CommentIs == /\ OneLine(CommentLine) /\ CommentLine \in Seq(Int) /\ Len(CommentLine) = 2
                   /\ CommentLine[1] = Comment /\ CommentLine[2] = End
BY DEF OneLine, CommentLine, Comment, End

(* A line of a file has that file's cells.                                 *)
LEMMA LineCells ==
  ASSUME NEW v \in Seq(Int), NEW e \in Ends(v), NEW out, LineAt(v, e) = out, Len(out) \in Nat,
         Len(out) > 0
  PROVE  \E i \in 1..Len(v) : v[i] = out[1]
<1>1. e \in 1..Len(v) /\ Len(v) \in Nat
  BY DEF Ends
<1>2. PICK m \in Nat, n \in Nat : Begin(v, e) = m + 1 /\ e = m + n /\ n > 0
  <2>1. PICK b : b = Begin(v, e)
    OBVIOUS
  <2>2. b \in 1..e
    BY <1>1, <2>1, BeginIs
  <2>3. b - 1 \in Nat /\ e - (b - 1) \in Nat /\ (b - 1) + 1 = b /\ e = (b - 1) + (e - (b - 1))
        /\ e - (b - 1) > 0
    BY <1>1, <2>2
  <2> QED
    BY <2>1, <2>3
<1>3. m + n <= Len(v) /\ m + 1 \in 1..Len(v) /\ 1 \in 1..n
  BY <1>1, <1>2
<1>4. SubSeq(v, m + 1, m + n)[1] = v[m + 1]
  BY <1>3, PartIs
<1>5. out = SubSeq(v, m + 1, m + n)
  BY <1>2, Zenon DEF LineAt
<1> QED
  BY <1>3, <1>4, <1>5

(* What is sent later changes nothing in what is there.                    *)
LEMMA FormattedLater ==
  ASSUME NEW ls \in Seq(LineType), NEW l \in LineType, NEW v, NEW r, Formatted(v, ls, r)
  PROVE  Formatted(v, Append(ls, l), r)
<1>1. PICK ls2 : ls2 = Append(ls, l)
  OBVIOUS
<1>2. /\ Len(ls) \in Nat /\ ls2 \in Seq(LineType) /\ Len(ls2) = Len(ls) + 1
      /\ \A w \in 1..Len(ls) : ls2[w] = ls[w]
      /\ ls2[Len(ls) + 1] = l
  BY <1>1, AppendProperties
<1>3. v \in Seq(Int) /\ \A i \in 1..Len(v) : v[i] \in -1..Len(ls)
  BY DEF Formatted
<1>4. ASSUME NEW e \in Ends(v) PROVE LineAt(v, e) # Line(Len(ls) + 1, l.feature)
  <2>1. PICK out : out = Line(Len(ls) + 1, l.feature)
    OBVIOUS
  <2>2. Len(out) \in Nat /\ Len(out) > 0 /\ out[1] = Len(ls) + 1
    <3>1. l.feature \in Features /\ Len(ls) + 1 \in Nat /\ Len(ls) + 1 > 0
      BY <1>2 DEF LineType
    <3>2. OneLine(out) /\ Len(out) > 1 /\ out[1] = Len(ls) + 1
      BY <2>1, <3>1, LineIs
    <3> QED
      BY <3>2 DEF OneLine
  <2>3. LineAt(v, e) = out => \E i \in 1..Len(v) : v[i] = Len(ls) + 1
    BY <1>3, <2>2, LineCells
  <2> QED
    BY <1>2, <1>3, <2>1, <2>3
<1>5. \A e, w : Here(v, ls, r, e, w) => Here(v, ls2, r, e, w)
  BY <1>2 DEF Here
<1>6. \A i \in 1..Len(v) : v[i] \in -1..Len(ls2)
  BY <1>2, <1>3
<1>7. ASSUME NEW w \in 1..Len(ls2), NEW e \in Ends(v), NEW g \in Ends(v),
             LineAt(v, e) = Line(w, ls2[w].feature), LineAt(v, g) = Line(w, ls2[w].feature)
      PROVE  e = g
  <2>1. w # Len(ls) + 1
    BY <1>2, <1>4, <1>7
  <2>2. w \in 1..Len(ls)
    BY <1>2, <2>1
  <2>3. ls2[w] = ls[w]
    BY <1>2, <2>2
  <2> QED
    BY <1>7, <2>2, <2>3 DEF Formatted
<1>8. Formatted(v, ls2, r)
  BY <1>5, <1>6, <1>7 DEF Formatted
<1> QED
  BY <1>1, <1>8

(* The beginning of a file up to an end of line.                           *)
LEMMA FormattedCut ==
  ASSUME NEW v, NEW ls, NEW r, Formatted(v, ls, r), NEW u \in Seq(Int), SameUpTo(u, v, Len(u)),
         Ended(u)
  PROVE  Formatted(u, ls, r)
<1>1. v \in Seq(Int) /\ Len(u) \in Nat /\ Len(v) \in Nat /\ DOMAIN u = 1..Len(u)
  BY DEF Formatted
<1>2. \A e \in Ends(u) : e \in Ends(v) /\ LineAt(u, e) = LineAt(v, e)
  <2> SUFFICES ASSUME NEW e \in Ends(u) PROVE e \in Ends(v) /\ LineAt(u, e) = LineAt(v, e)
    OBVIOUS
  <2>1. e \in 1..Len(u)
    BY <1>1 DEF Ends
  <2> QED
    BY <1>1, <2>1, LinesSame
<1>3. \A i \in 1..Len(u) : u[i] \in -1..Len(ls)
  <2>1. \A i \in 1..Len(u) : i \in 1..Len(v) /\ u[i] = v[i]
    BY <1>1 DEF SameUpTo
  <2> QED
    BY <2>1 DEF Formatted
<1>4. \A e \in Ends(u) : \A w : Here(v, ls, r, e, w) => Here(u, ls, r, e, w)
  BY <1>2 DEF Here
<1>5. \A e \in Ends(u) : LineAt(u, e) = CommentLine \/ \E w : Here(u, ls, r, e, w)
  BY <1>2, <1>4 DEF Formatted
<1>6. \A w \in 1..Len(ls) : \A e, g \in Ends(u) :
        LineAt(u, e) = Line(w, ls[w].feature) /\ LineAt(u, g) = Line(w, ls[w].feature) => e = g
  BY <1>2 DEF Formatted
<1>7. \A e, g \in Ends(u) :
        e < g /\ LineAt(u, g) = CommentLine => LineAt(u, e) = CommentLine
  BY <1>2 DEF Formatted
<1> QED
  BY <1>3, <1>5, <1>6, <1>7 DEF Formatted

-----------------------------------------------------------------------------
(* What a write adds.                                                      *)

Has(v, w, f) == \E e \in Ends(v) : LineAt(v, e) = Line(w, f)
OnlyComments(v) == \A e \in Ends(v) : LineAt(v, e) = CommentLine

(* The lines there were are there still.                                   *)
LEMMA LinesStay ==
  ASSUME NEW v \in Seq(Int), Ended(v), NEW out, OneLine(out)
  PROVE  /\ \A e \in Ends(v) : /\ e \in Ends(v \o out) /\ LineAt(v \o out, e) = LineAt(v, e)
                               /\ e < Len(v \o out)
         /\ \A e \in Ends(v \o out) :
              \/ e \in Ends(v) /\ LineAt(v \o out, e) = LineAt(v, e) /\ e < Len(v \o out)
              \/ e = Len(v \o out) /\ LineAt(v \o out, e) = out
         /\ Len(v \o out) \in Ends(v \o out) /\ LineAt(v \o out, Len(v \o out)) = out
         /\ \A w, f : Has(v, w, f) => Has(v \o out, w, f)
<1>1. PICK u : u = v \o out
  OBVIOUS
<1>2. /\ u \in Seq(Int) /\ Len(u) = Len(v) + Len(out) /\ SameUpTo(v, u, Len(v))
      /\ Len(v) \in Nat /\ Len(u) \in Nat
      /\ \A e : e \in Ends(u) <=> e \in Ends(v) \/ e = Len(u)
      /\ LineAt(u, Len(u)) = out
  BY <1>1, LineAdded, Zenon
<1>3. Len(out) \in Nat /\ Len(out) >= 1
  BY DEF OneLine
<1>4. ASSUME NEW e \in Ends(v) PROVE LineAt(u, e) = LineAt(v, e) /\ e < Len(u)
  <2>1. e \in 1..Len(v)
    BY DEF Ends
  <2>2. LineAt(u, e) = LineAt(v, e)
    BY <1>2, <2>1, LinesSame
  <2> QED
    BY <1>2, <1>3, <2>1, <2>2
<1>5. /\ \A e \in Ends(v) : e \in Ends(u) /\ LineAt(u, e) = LineAt(v, e) /\ e < Len(u)
      /\ \A e \in Ends(u) : \/ e \in Ends(v) /\ LineAt(u, e) = LineAt(v, e) /\ e < Len(u)
                            \/ e = Len(u) /\ LineAt(u, e) = out
      /\ Len(u) \in Ends(u) /\ LineAt(u, Len(u)) = out
  BY <1>2, <1>4
<1>6. \A w, f : Has(v, w, f) => Has(u, w, f)
  BY <1>5 DEF Has
<1> QED
  BY <1>1, <1>5, <1>6

(* A banner line is added to a banner.                                     *)
LEMMA CommentAdded ==
  ASSUME NEW ls \in Seq(LineType), NEW v, NEW r, Formatted(v, ls, r), OnlyComments(v)
  PROVE  Formatted(v \o CommentLine, ls, r) /\ OnlyComments(v \o CommentLine)
<1>1. PICK u : u = v \o CommentLine
  OBVIOUS
<1>2. v \in Seq(Int) /\ Ended(v) /\ OneLine(CommentLine)
  BY CommentIs DEF Formatted
<1>3. /\ u \in Seq(Int) /\ Ended(u) /\ Len(u) = Len(v) + 2 /\ Len(v) \in Nat
      /\ \A i \in 1..Len(v) : v[i] = u[i]
      /\ \A i \in 1..2 : u[Len(v) + i] = CommentLine[i]
  <2>1. /\ u \in Seq(Int) /\ Ended(u) /\ Len(u) = Len(v) + Len(CommentLine) /\ Len(v) \in Nat
        /\ SameUpTo(v, u, Len(v))
        /\ \A i \in 1..Len(CommentLine) : u[Len(v) + i] = CommentLine[i]
    BY <1>1, <1>2, LineAdded
  <2> QED
    BY <2>1, CommentIs DEF SameUpTo
<1>4. /\ \A e \in Ends(v) : e \in Ends(u) /\ LineAt(u, e) = LineAt(v, e)
      /\ \A e \in Ends(u) : \/ e \in Ends(v) /\ LineAt(u, e) = LineAt(v, e)
                            \/ LineAt(u, e) = CommentLine
  BY <1>1, <1>2, LinesStay
<1>5. \A e \in Ends(u) : LineAt(u, e) = CommentLine
  BY <1>4 DEF OnlyComments
<1>6. Len(ls) \in Nat
  OBVIOUS
<1>7. \A i \in 1..Len(u) : u[i] \in -1..Len(ls)
  <2> SUFFICES ASSUME NEW i \in 1..Len(u) PROVE u[i] \in -1..Len(ls)
    OBVIOUS
  <2>1. CASE i \in 1..Len(v)
    BY <1>3, <2>1 DEF Formatted
  <2>2. CASE i \notin 1..Len(v)
    <3>1. i = Len(v) + 1 \/ i = Len(v) + 2
      BY <1>3, <2>2
    <3> QED
      BY <1>3, <1>6, <3>1, CommentIs DEF Comment, End
  <2> QED
    BY <2>1, <2>2
<1>8. ASSUME NEW w \in 1..Len(ls), NEW e \in Ends(u), LineAt(u, e) = Line(w, ls[w].feature)
      PROVE  FALSE
  <2>1. ls[w].feature \in Features /\ w \in Nat /\ w > 0
    <3>1. ls[w] \in LineType
      BY <1>6
    <3> QED
      BY <1>6, <3>1 DEF LineType
  <2>2. CommentLine[1] = w
    BY <1>5, <1>8, <2>1, LineIs
  <2> QED
    BY <2>1, <2>2, CommentIs DEF Comment
<1>9. Formatted(u, ls, r)
  BY <1>3, <1>5, <1>7, <1>8 DEF Formatted
<1> QED
  BY <1>1, <1>5, <1>9 DEF OnlyComments

(* A line is added to a file.                                              *)
LEMMA FeatureAdded ==
  ASSUME NEW ls \in Seq(LineType), NEW l \in LineType, NEW v, Formatted(v, ls, l.recorder)
  PROVE  LET u == v \o Line(Len(ls) + 1, l.feature)
         IN  /\ Formatted(u, Append(ls, l), l.recorder)
             /\ Has(u, Len(ls) + 1, l.feature)
             /\ \A w, f : Has(v, w, f) => Has(u, w, f)
<1>1. PICK n \in Nat : n = Len(ls)
  OBVIOUS
<1>2. PICK ls2 : ls2 = Append(ls, l)
  OBVIOUS
<1>3. /\ ls2 \in Seq(LineType) /\ Len(ls2) = n + 1 /\ ls2[n + 1] = l
      /\ \A w \in 1..n : ls2[w] = ls[w]
  BY <1>1, <1>2, AppendProperties
<1>4. PICK out : out = Line(n + 1, l.feature)
  OBVIOUS
<1>5. OneLine(out) /\ Len(out) > 1 /\ out[1] = n + 1 /\ \A i \in 1..Len(out) : out[i] \in {n + 1, End}
  <2>1. l.feature \in Features /\ n + 1 \in Nat /\ n + 1 > 0
    BY DEF LineType
  <2> QED
    BY <1>4, <2>1, LineIs
<1>6. PICK r : r = l.recorder
  OBVIOUS
<1>7. PICK u : u = v \o out
  OBVIOUS
<1>8. Formatted(v, ls, r) /\ Formatted(v, ls2, r)
  BY <1>2, <1>6, FormattedLater
<1>9. v \in Seq(Int) /\ Ended(v)
  BY <1>8 DEF Formatted
<1>10. /\ u \in Seq(Int) /\ Ended(u) /\ Len(u) = Len(v) + Len(out) /\ Len(v) \in Nat
       /\ Len(out) \in Nat
       /\ \A i \in 1..Len(v) : v[i] = u[i]
       /\ \A i \in 1..Len(out) : u[Len(v) + i] = out[i]
  <2>1. /\ u \in Seq(Int) /\ Ended(u) /\ Len(u) = Len(v) + Len(out) /\ Len(v) \in Nat
        /\ SameUpTo(v, u, Len(v))
        /\ \A i \in 1..Len(out) : u[Len(v) + i] = out[i]
    BY <1>5, <1>7, <1>9, LineAdded
  <2> QED
    BY <1>5, <2>1 DEF SameUpTo, OneLine
<1>11. /\ \A e \in Ends(v) : e \in Ends(u) /\ LineAt(u, e) = LineAt(v, e) /\ e < Len(u)
       /\ \A e \in Ends(u) :
            \/ e \in Ends(v) /\ LineAt(u, e) = LineAt(v, e) /\ e < Len(u)
            \/ e = Len(u) /\ LineAt(u, e) = out
       /\ Len(u) \in Ends(u) /\ LineAt(u, Len(u)) = out
       /\ \A w, f : Has(v, w, f) => Has(u, w, f)
  BY <1>5, <1>7, <1>9, LinesStay
<1>12. \A i \in 1..Len(u) : u[i] \in -1..Len(ls2)
  <2> SUFFICES ASSUME NEW i \in 1..Len(u) PROVE u[i] \in -1..Len(ls2)
    OBVIOUS
  <2>1. CASE i \in 1..Len(v)
    BY <1>8, <1>10, <2>1 DEF Formatted
  <2>2. CASE i \notin 1..Len(v)
    <3>1. PICK j \in 1..Len(out) : i = Len(v) + j
      <4>1. i - Len(v) \in 1..Len(out) /\ i = Len(v) + (i - Len(v))
        BY <1>10, <2>2
      <4> QED
        BY <4>1
    <3>2. u[i] = out[j]
      BY <1>10, <3>1
    <3>3. u[i] = n + 1 \/ u[i] = 0
      BY <1>5, <3>2 DEF End
    <3> QED
      BY <1>3, <3>3
  <2> QED
    BY <2>1, <2>2
<1>13. Here(u, ls2, r, Len(u), n + 1)
  BY <1>3, <1>4, <1>6, <1>11 DEF Here
<1>14. \A e \in Ends(v) : \A w : Here(v, ls2, r, e, w) => Here(u, ls2, r, e, w)
  BY <1>11 DEF Here
<1>15. \A e \in Ends(u) : LineAt(u, e) = CommentLine \/ \E w : Here(u, ls2, r, e, w)
  BY <1>8, <1>11, <1>13, <1>14 DEF Formatted
<1>16. ASSUME NEW e \in Ends(v), LineAt(v, e) = out PROVE FALSE
  <2>1. \E i \in 1..Len(v) : v[i] = out[1]
    <3>1. v \in Seq(Int) /\ Len(out) \in Nat /\ Len(out) > 0
      BY <1>5, <1>9, <1>10
    <3>2. LineAt(v, e) = out => \E i \in 1..Len(v) : v[i] = out[1]
      BY <3>1, LineCells
    <3> QED
      BY <1>16, <3>2
  <2>2. \A i \in 1..Len(v) : v[i] \in -1..n
    BY <1>1, <1>8 DEF Formatted
  <2> QED
    BY <1>5, <2>1, <2>2
<1>17. ASSUME NEW w \in 1..Len(ls2), w # n + 1
       PROVE  Line(w, ls2[w].feature) # out
  <2>1. ls2[w].feature \in Features /\ w \in Nat /\ w > 0
    <3>1. ls2[w] \in LineType
      BY <1>3
    <3> QED
      BY <1>3, <3>1 DEF LineType
  <2>2. Line(w, ls2[w].feature)[1] = w
    BY <2>1, LineIs
  <2> QED
    BY <1>5, <1>17, <2>2
<1>18. ASSUME NEW w \in 1..Len(ls2), NEW e \in Ends(u), NEW g \in Ends(u),
              LineAt(u, e) = Line(w, ls2[w].feature), LineAt(u, g) = Line(w, ls2[w].feature)
       PROVE  e = g
  <2>1. CASE w = n + 1
    BY <1>3, <1>4, <1>11, <1>16, <1>18, <2>1
  <2>2. CASE w # n + 1
    <3>1. /\ e \in Ends(v) /\ LineAt(v, e) = Line(w, ls2[w].feature)
          /\ g \in Ends(v) /\ LineAt(v, g) = Line(w, ls2[w].feature)
      BY <1>11, <1>17, <1>18, <2>2
    <3> QED
      BY <1>8, <3>1 DEF Formatted
  <2> QED
    BY <2>1, <2>2
<1>19. out # CommentLine
  BY <1>5, CommentIs DEF Comment
<1>20. ASSUME NEW e \in Ends(u), NEW g \in Ends(u), e < g, LineAt(u, g) = CommentLine
       PROVE  LineAt(u, e) = CommentLine
  <2>1. g \in Ends(v) /\ LineAt(v, g) = CommentLine /\ g < Len(u)
    BY <1>11, <1>19, <1>20
  <2>2. e \in Ends(v) /\ LineAt(v, e) = LineAt(u, e)
    <3>1. e \in Nat /\ g \in Nat /\ e # Len(u)
      <4>1. e \in 1..Len(u) /\ g \in 1..Len(u)
        BY <1>10 DEF Ends
      <4> QED
        BY <1>10, <1>20, <2>1, <4>1
    <3> QED
      BY <1>11, <3>1
  <2> QED
    BY <1>8, <1>20, <2>1, <2>2 DEF Formatted
<1>21. Formatted(u, ls2, r)
  BY <1>10, <1>12, <1>15, <1>18, <1>20 DEF Formatted
<1>22. Has(u, n + 1, l.feature)
  BY <1>4, <1>11 DEF Has
<1>23. u = v \o Line(Len(ls) + 1, l.feature)
  BY <1>1, <1>4, <1>7
<1>24. Formatted(u, Append(ls, l), l.recorder) /\ Has(u, Len(ls) + 1, l.feature)
  BY <1>1, <1>2, <1>6, <1>21, <1>22
<1> QED
  BY <1>11, <1>23, <1>24

-----------------------------------------------------------------------------
(* A file and the stream in front of it.                                   *)

(* b is what the stream holds, p where it will go: the file up to p and    *)
(* what the stream holds are whole lines, and no line ends behind p.       *)
Streamed(file, p, b) == SubSeq(file, 1, p) \o b
FileRight(file, p, b, ls, r) ==
  /\ file \in Seq(Int) /\ b \in Seq(Int) /\ p \in 0..Len(file)
  /\ \A i \in (p + 1)..Len(file) : file[i] # End /\ file[i] \in -1..Len(ls)
  /\ Formatted(Streamed(file, p, b), ls, r)

(* Where two numbers are compared.                                         *)
LEMMA MaxOfTwo ==
  ASSUME NEW a \in Nat, NEW b \in Nat
  PROVE  Max({a, b}) \in {a, b} /\ Max({a, b}) >= a /\ Max({a, b}) >= b
<1>1. PICK T : T = {a, b}
  OBVIOUS
<1>2. T \in SUBSET (0..(a + b)) /\ T # {} /\ a + b \in Nat
  BY <1>1
<1>3. Max(T) \in T /\ \A y \in T : Max(T) >= y
  BY <1>2, MaxIs
<1> QED
  BY <1>1, <1>3

(* A file with cells written over it.                                      *)
LEMMA OverwriteIs ==
  ASSUME NEW file \in Seq(Int), NEW p \in 0..Len(file), NEW part \in Seq(Int)
  PROVE  LET f2 == Overwrite(file, p, part)
         IN  /\ f2 \in Seq(Int) /\ Len(f2) \in Nat
             /\ Len(f2) >= Len(file) /\ Len(f2) >= p + Len(part)
             /\ Len(f2) = Len(file) \/ Len(f2) = p + Len(part)
             /\ \A i \in 1..p : f2[i] = file[i]
             /\ \A i \in 1..Len(part) : f2[p + i] = part[i]
             /\ \A i \in (p + Len(part) + 1)..Len(f2) : i \in (p + 1)..Len(file) /\ f2[i] = file[i]
<1>1. PICK m \in Nat : m = Len(file)
  OBVIOUS
<1>2. PICK n \in Nat : n = Len(part)
  OBVIOUS
<1>3. p \in Nat /\ p <= m /\ p + n \in Nat
  BY <1>1, <1>2
<1>4. PICK x : x = Max({Len(file), p + Len(part)})
  OBVIOUS
<1>5. x \in Nat /\ x >= m /\ x >= p + n /\ (x = m \/ x = p + n)
  <2>1. x = Max({m, p + n})
    BY <1>1, <1>2, <1>4
  <2> QED
    BY <1>3, <2>1, MaxOfTwo
<1>6. PICK f2 : f2 = Overwrite(file, p, part)
  OBVIOUS
<1>7. f2 = [i \in 1..x |-> IF i > p /\ i <= p + n THEN part[i - p] ELSE file[i]]
  BY <1>2, <1>4, <1>6, Zenon DEF Overwrite
<1>8. \A i \in 1..x : (IF i > p /\ i <= p + n THEN part[i - p] ELSE file[i]) \in Int
  <2> SUFFICES ASSUME NEW i \in 1..x
               PROVE  (IF i > p /\ i <= p + n THEN part[i - p] ELSE file[i]) \in Int
    OBVIOUS
  <2>1. CASE i > p /\ i <= p + n
    <3>1. i - p \in 1..n
      BY <1>3, <2>1
    <3> QED
      BY <1>2, <2>1, <3>1
  <2>2. CASE ~(i > p /\ i <= p + n)
    <3>1. i \in 1..m
      BY <1>3, <1>5, <2>2
    <3> QED
      BY <1>1, <2>2, <3>1
  <2> QED
    BY <2>1, <2>2
<1>9. f2 \in Seq(Int) /\ Len(f2) = x
  BY <1>5, <1>7, <1>8
<1>10. \A i \in 1..x : f2[i] = IF i > p /\ i <= p + n THEN part[i - p] ELSE file[i]
  BY <1>7
<1>11. \A i \in 1..p : f2[i] = file[i]
  BY <1>3, <1>5, <1>10
<1>12. ASSUME NEW i \in 1..n PROVE f2[p + i] = part[i]
  <2>1. p + i \in 1..x /\ p + i > p /\ p + i <= p + n /\ (p + i) - p = i
    BY <1>3, <1>5
  <2> QED
    BY <1>10, <2>1
<1>13. \A i \in (p + n + 1)..x : i \in (p + 1)..m /\ f2[i] = file[i]
  BY <1>3, <1>5, <1>10
<1>14. /\ f2 \in Seq(Int) /\ Len(f2) \in Nat
       /\ Len(f2) >= Len(file) /\ Len(f2) >= p + Len(part)
       /\ Len(f2) = Len(file) \/ Len(f2) = p + Len(part)
       /\ \A i \in 1..p : f2[i] = file[i]
       /\ \A i \in 1..Len(part) : f2[p + i] = part[i]
       /\ \A i \in (p + Len(part) + 1)..Len(f2) : i \in (p + 1)..Len(file) /\ f2[i] = file[i]
  BY <1>1, <1>2, <1>5, <1>9, <1>11, <1>12, <1>13
<1> QED
  BY <1>6, <1>14

(* Two sequences with the same cells.                                      *)
LEMMA SameCells ==
  ASSUME NEW u \in Seq(Int), NEW v \in Seq(Int), Len(u) = Len(v),
         \A i \in 1..Len(u) : u[i] = v[i]
  PROVE  u = v
BY SeqEqual

(* Two sequences joined.                                                   *)
LEMMA JoinIs ==
  ASSUME NEW u \in Seq(Int), NEW v \in Seq(Int)
  PROVE  /\ u \o v \in Seq(Int) /\ Len(u \o v) = Len(u) + Len(v)
         /\ \A i \in 1..Len(u) : (u \o v)[i] = u[i]
         /\ \A i \in 1..Len(v) : (u \o v)[Len(u) + i] = v[i]
OBVIOUS

LEMMA JoinAssociative ==
  ASSUME NEW u \in Seq(Int), NEW v \in Seq(Int), NEW w \in Seq(Int)
  PROVE  (u \o v) \o w = u \o (v \o w)
<1>1. PICK l \in Nat, m \in Nat, n \in Nat : l = Len(u) /\ m = Len(v) /\ n = Len(w)
  OBVIOUS
<1>2. PICK a : a = u \o v
  OBVIOUS
<1>3. PICK c : c = v \o w
  OBVIOUS
<1>4. /\ a \in Seq(Int) /\ Len(a) = l + m
      /\ \A i \in 1..l : a[i] = u[i]
      /\ \A i \in 1..m : a[l + i] = v[i]
  BY <1>1, <1>2, JoinIs
<1>5. /\ c \in Seq(Int) /\ Len(c) = m + n
      /\ \A i \in 1..m : c[i] = v[i]
      /\ \A i \in 1..n : c[m + i] = w[i]
  BY <1>1, <1>3, JoinIs
<1>6. PICK x : x = a \o w
  OBVIOUS
<1>7. PICK y : y = u \o c
  OBVIOUS
<1>8. /\ x \in Seq(Int) /\ Len(x) = l + m + n
      /\ \A i \in 1..(l + m) : x[i] = a[i]
      /\ \A i \in 1..n : x[l + m + i] = w[i]
  <2>1. /\ x \in Seq(Int) /\ Len(x) = Len(a) + Len(w)
        /\ \A i \in 1..Len(a) : x[i] = a[i]
        /\ \A i \in 1..Len(w) : x[Len(a) + i] = w[i]
    BY <1>4, <1>6, JoinIs
  <2> QED
    BY <1>1, <1>4, <2>1
<1>9. /\ y \in Seq(Int) /\ Len(y) = l + m + n
      /\ \A i \in 1..l : y[i] = u[i]
      /\ \A i \in 1..(m + n) : y[l + i] = c[i]
  <2>1. /\ y \in Seq(Int) /\ Len(y) = Len(u) + Len(c)
        /\ \A i \in 1..Len(u) : y[i] = u[i]
        /\ \A i \in 1..Len(c) : y[Len(u) + i] = c[i]
    BY <1>5, <1>7, JoinIs
  <2> QED
    BY <1>1, <1>5, <2>1
<1>10. ASSUME NEW i \in 1..(l + m + n) PROVE x[i] = y[i]
  <2>1. CASE i \in 1..l
    BY <1>1, <1>4, <1>8, <1>9, <2>1
  <2>2. CASE i \in (l + 1)..(l + m)
    <3>1. PICK j \in 1..m : i = l + j
      <4>1. i - l \in 1..m /\ i = l + (i - l)
        BY <1>1, <2>2
      <4> QED
        BY <4>1
    <3>2. i \in 1..(l + m) /\ j \in 1..(m + n)
      BY <1>1, <2>2
    <3> QED
      BY <1>4, <1>5, <1>8, <1>9, <3>1, <3>2
  <2>3. CASE i \in (l + m + 1)..(l + m + n)
    <3>1. PICK j \in 1..n : i = l + m + j
      <4>1. i - (l + m) \in 1..n /\ i = l + m + (i - (l + m))
        BY <1>1, <2>3
      <4> QED
        BY <4>1
    <3>2. m + j \in 1..(m + n) /\ i = l + (m + j)
      BY <1>1, <3>1
    <3>3. x[i] = w[j] /\ c[m + j] = w[j] /\ y[l + (m + j)] = c[m + j]
      BY <1>5, <1>8, <1>9, <3>1, <3>2
    <3> QED
      BY <3>2, <3>3
  <2> QED
    BY <1>1, <2>1, <2>2, <2>3
<1>11. x = y
  BY <1>8, <1>9, <1>10, SameCells
<1> QED
  BY <1>2, <1>3, <1>6, <1>7, <1>11

(* The stream passes cells to the disk: that changes which cells are on    *)
(* the disk, but not what is there with the stream.                        *)
LEMMA Drained ==
  ASSUME NEW file \in Seq(Int), NEW p \in 0..Len(file), NEW out \in Seq(Int), NEW k \in 0..Len(out)
  PROVE  LET f2 == Overwrite(file, p, SubSeq(out, 1, k))
             rest == SubSeq(out, k + 1, Len(out))
         IN  /\ f2 \in Seq(Int) /\ rest \in Seq(Int) /\ p + k \in 0..Len(f2)
             /\ SameUpTo(file, f2, p)
             /\ Streamed(f2, p + k, rest) = SubSeq(file, 1, p) \o out
             /\ Len(rest) = Len(out) - k
             /\ \A i \in (p + k + 1)..Len(f2) : i \in (p + 1)..Len(file) /\ f2[i] = file[i]
<1>1. PICK m \in Nat : m = Len(file)
  OBVIOUS
<1>2. PICK n \in Nat : n = Len(out)
  OBVIOUS
<1>3. p \in Nat /\ k \in Nat /\ p <= m /\ k <= n /\ n - k \in Nat
  BY <1>1, <1>2
<1>4. PICK part : part = SubSeq(out, 1, k)
  OBVIOUS
<1>5. part \in Seq(Int) /\ Len(part) = k /\ \A i \in 1..k : part[i] = out[i]
  BY <1>2, <1>3, <1>4
<1>6. PICK rest : rest = SubSeq(out, k + 1, Len(out))
  OBVIOUS
<1>7. rest \in Seq(Int) /\ Len(rest) = n - k /\ \A i \in 1..(n - k) : rest[i] = out[k + i]
  <2>1. rest = SubSeq(out, k + 1, k + (n - k)) /\ k + (n - k) <= Len(out)
    BY <1>2, <1>3, <1>6
  <2>2. /\ SubSeq(out, k + 1, k + (n - k)) \in Seq(Int)
        /\ Len(SubSeq(out, k + 1, k + (n - k))) = n - k
        /\ \A i \in 1..(n - k) : SubSeq(out, k + 1, k + (n - k))[i] = out[k + i]
    BY <1>3, <2>1, PartIs
  <2> QED
    BY <2>1, <2>2, Zenon
<1>8. PICK f2 : f2 = Overwrite(file, p, part)
  OBVIOUS
<1>9. PICK x \in Nat : x = Len(f2)
  BY <1>5, <1>8, OverwriteIs
<1>10. /\ f2 \in Seq(Int) /\ x >= m /\ x >= p + k
       /\ \A i \in 1..p : f2[i] = file[i]
       /\ \A i \in 1..k : f2[p + i] = part[i]
       /\ \A i \in (p + k + 1)..x : i \in (p + 1)..m /\ f2[i] = file[i]
  <2>1. /\ f2 \in Seq(Int) /\ Len(f2) \in Nat
        /\ Len(f2) >= Len(file) /\ Len(f2) >= p + Len(part)
        /\ Len(f2) = Len(file) \/ Len(f2) = p + Len(part)
        /\ \A i \in 1..p : f2[i] = file[i]
        /\ \A i \in 1..Len(part) : f2[p + i] = part[i]
        /\ \A i \in (p + Len(part) + 1)..Len(f2) : i \in (p + 1)..Len(file) /\ f2[i] = file[i]
    <3>1. LET o == Overwrite(file, p, part)
          IN  /\ o \in Seq(Int) /\ Len(o) \in Nat
              /\ Len(o) >= Len(file) /\ Len(o) >= p + Len(part)
              /\ Len(o) = Len(file) \/ Len(o) = p + Len(part)
              /\ \A i \in 1..p : o[i] = file[i]
              /\ \A i \in 1..Len(part) : o[p + i] = part[i]
              /\ \A i \in (p + Len(part) + 1)..Len(o) :
                   i \in (p + 1)..Len(file) /\ o[i] = file[i]
      BY <1>5, OverwriteIs
    <3> QED
      BY <1>8, <3>1, Zenon
  <2> QED
    BY <1>1, <1>5, <1>9, <2>1
<1>11. SameUpTo(file, f2, p)
  BY <1>1, <1>3, <1>9, <1>10 DEF SameUpTo
<1>12. PICK q : q = p + k
  OBVIOUS
<1>13. PICK front : front = SubSeq(f2, 1, q)
  OBVIOUS
<1>14. front \in Seq(Int) /\ Len(front) = q /\ \A i \in 1..q : front[i] = f2[i]
  BY <1>3, <1>9, <1>10, <1>12, <1>13
<1>15. PICK old : old = SubSeq(file, 1, p)
  OBVIOUS
<1>16. old \in Seq(Int) /\ Len(old) = p /\ \A i \in 1..p : old[i] = file[i]
  BY <1>1, <1>3, <1>15
<1>17. PICK u : u = front \o rest
  OBVIOUS
<1>18. PICK v : v = old \o out
  OBVIOUS
<1>19. /\ u \in Seq(Int) /\ Len(u) = p + n
       /\ \A i \in 1..q : u[i] = f2[i]
       /\ \A i \in 1..(n - k) : u[q + i] = rest[i]
  <2>1. /\ u \in Seq(Int) /\ Len(u) = Len(front) + Len(rest)
        /\ \A i \in 1..Len(front) : u[i] = front[i]
        /\ \A i \in 1..Len(rest) : u[Len(front) + i] = rest[i]
    BY <1>7, <1>14, <1>17, JoinIs
  <2> QED
    BY <1>3, <1>7, <1>12, <1>14, <2>1
<1>20. /\ v \in Seq(Int) /\ Len(v) = p + n
       /\ \A i \in 1..p : v[i] = file[i]
       /\ \A i \in 1..n : v[p + i] = out[i]
  <2>1. /\ v \in Seq(Int) /\ Len(v) = Len(old) + Len(out)
        /\ \A i \in 1..Len(old) : v[i] = old[i]
        /\ \A i \in 1..Len(out) : v[Len(old) + i] = out[i]
    BY <1>16, <1>18, JoinIs
  <2> QED
    BY <1>2, <1>3, <1>16, <2>1
<1>21. ASSUME NEW i \in 1..(p + n) PROVE u[i] = v[i]
  <2>1. CASE i \in 1..p
    BY <1>3, <1>10, <1>12, <1>19, <1>20, <2>1
  <2>2. CASE i \in (p + 1)..(p + k)
    <3>1. PICK j \in 1..k : i = p + j
      <4>1. i - p \in 1..k /\ i = p + (i - p)
        BY <1>3, <2>2
      <4> QED
        BY <4>1
    <3>2. j \in 1..n /\ p + j \in 1..q
      BY <1>3, <1>12, <3>1
    <3>3. u[p + j] = f2[p + j]
      BY <1>19, <3>2
    <3>4. f2[p + j] = part[j] /\ part[j] = out[j]
      BY <1>5, <1>10
    <3>5. v[p + j] = out[j]
      BY <1>20, <3>2
    <3> QED
      BY <3>1, <3>3, <3>4, <3>5
  <2>3. CASE i \in (p + k + 1)..(p + n)
    <3>1. PICK j \in 1..(n - k) : i = q + j
      <4>1. i - q \in 1..(n - k) /\ i = q + (i - q)
        BY <1>3, <1>12, <2>3
      <4> QED
        BY <4>1
    <3>2. k + j \in 1..n /\ i = p + (k + j)
      BY <1>3, <1>12, <3>1
    <3>3. u[q + j] = rest[j] /\ rest[j] = out[k + j]
      BY <1>7, <1>19
    <3>4. v[p + (k + j)] = out[k + j]
      BY <1>20, <3>2
    <3> QED
      BY <3>1, <3>2, <3>3, <3>4
  <2> QED
    BY <1>3, <2>1, <2>2, <2>3
<1>22. u = v
  BY <1>19, <1>20, <1>21, SameCells
<1>23. Streamed(f2, q, rest) = SubSeq(file, 1, p) \o out
  BY <1>13, <1>15, <1>17, <1>18, <1>22 DEF Streamed
<1>24. /\ f2 \in Seq(Int) /\ rest \in Seq(Int) /\ p + k \in 0..Len(f2)
       /\ SameUpTo(file, f2, p)
       /\ Streamed(f2, p + k, rest) = SubSeq(file, 1, p) \o out
       /\ Len(rest) = Len(out) - k
       /\ \A i \in (p + k + 1)..Len(f2) : i \in (p + 1)..Len(file) /\ f2[i] = file[i]
  BY <1>1, <1>2, <1>3, <1>7, <1>9, <1>10, <1>11, <1>12, <1>23
<1> QED
  BY <1>4, <1>6, <1>8, <1>24

-----------------------------------------------------------------------------
(* What the operations do to a file.                                       *)

(* What the stream holds when the line of write w was sent to it.          *)
Sent(p, b, w, f) == b \o (IF p + Len(b) = 0 THEN Banner ELSE <<>>) \o Line(w, f)

(* An empty file has nothing wrong in it.                                  *)
LEMMA EmptyRight ==
  ASSUME NEW ls \in Seq(LineType), NEW r
  PROVE  Formatted(<<>>, ls, r) /\ Ends(<<>>) = {} /\ OnlyComments(<<>>)
<1>1. PICK v : v = <<>>
  OBVIOUS
<1>2. v \in Seq(Int) /\ Len(v) = 0 /\ DOMAIN v = {} /\ 1..Len(v) = {}
  BY <1>1
<1>3. Ends(v) = {}
  BY <1>2 DEF Ends
<1>4. Formatted(v, ls, r) /\ OnlyComments(v)
  BY <1>2, <1>3 DEF Formatted, OnlyComments, Ended
<1> QED
  BY <1>1, <1>3, <1>4

(* The line that is sent is added to what is there.                        *)
LEMMA SentRight ==
  ASSUME NEW ls \in Seq(LineType), NEW l \in LineType, NEW file, NEW p, NEW b,
         FileRight(file, p, b, ls, l.recorder)
  PROVE  LET out == Sent(p, b, Len(ls) + 1, l.feature)
             v == SubSeq(file, 1, p) \o out
         IN  /\ out \in Seq(Int) /\ Len(out) > 0
             /\ Formatted(v, Append(ls, l), l.recorder)
             /\ Has(v, Len(ls) + 1, l.feature)
             /\ \A w, f : Has(Streamed(file, p, b), w, f) => Has(v, w, f)
<1>1. PICK n \in Nat : n = Len(ls)
  OBVIOUS
<1>2. PICK r : r = l.recorder
  OBVIOUS
<1>3. PICK line : line = Line(n + 1, l.feature)
  OBVIOUS
<1>4. line \in Seq(Int) /\ Len(line) \in Nat /\ Len(line) > 1
  <2>1. l.feature \in Features /\ n + 1 \in Nat /\ n + 1 > 0
    BY DEF LineType
  <2>2. OneLine(line) /\ Len(line) > 1
    BY <1>3, <2>1, LineIs
  <2> QED
    BY <2>2 DEF OneLine
<1>5. PICK old : old = SubSeq(file, 1, p)
  OBVIOUS
<1>6. file \in Seq(Int) /\ b \in Seq(Int) /\ p \in 0..Len(file) /\ Formatted(old \o b, ls, r)
  BY <1>2, <1>5 DEF FileRight, Streamed
<1>7. old \in Seq(Int) /\ Len(old) = p
  BY <1>5, <1>6
<1>8. PICK mid : mid = IF p + Len(b) = 0 THEN Banner ELSE <<>>
  OBVIOUS
<1>9. PICK v : v = old \o b
  OBVIOUS
<1>10. PICK u : u = v \o mid
  OBVIOUS
<1>11. /\ mid \in Seq(Int) /\ Formatted(u, ls, r)
       /\ \A w, f : Has(v, w, f) => Has(u, w, f)
  <2>1. CASE p + Len(b) = 0
    <3>1. p = 0 /\ Len(b) = 0
      BY <1>6, <2>1
    <3>2. old = <<>> /\ b = <<>>
      BY <1>6, <1>7, <3>1
    <3>3. v = <<>>
      BY <1>9, <3>2
    <3>4. mid = CommentLine \o CommentLine /\ mid \in Seq(Int)
      BY <1>8, <2>1 DEF Banner, CommentLine, Comment, End
    <3>5. u = (v \o CommentLine) \o CommentLine
      BY <1>10, <3>3, <3>4 DEF CommentLine
    <3>6. Formatted(v, ls, r) /\ OnlyComments(v) /\ Ends(v) = {}
      BY <3>3, EmptyRight
    <3>7. Formatted(v \o CommentLine, ls, r) /\ OnlyComments(v \o CommentLine)
      BY <3>6, CommentAdded
    <3>8. Formatted((v \o CommentLine) \o CommentLine, ls, r)
      BY <3>7, CommentAdded
    <3>9. \A w, f : ~Has(v, w, f)
      BY <3>6 DEF Has
    <3> QED
      BY <3>4, <3>5, <3>8, <3>9
  <2>2. CASE p + Len(b) # 0
    <3>1. mid = <<>>
      BY <1>8, <2>2
    <3>2. v \in Seq(Int)
      BY <1>6, <1>7, <1>9
    <3>3. u = v
      BY <1>10, <3>1, <3>2
    <3> QED
      BY <1>6, <1>9, <3>1, <3>3
  <2> QED
    BY <2>1, <2>2
<1>12. PICK out : out = (b \o mid) \o line
  OBVIOUS
<1>13. out = Sent(p, b, n + 1, l.feature)
  BY <1>3, <1>8, <1>12, Zenon DEF Sent
<1>14. out \in Seq(Int) /\ Len(out) > 0
  <2>1. b \o mid \in Seq(Int) /\ Len(b \o mid) \in Nat
    BY <1>6, <1>11
  <2>2. out \in Seq(Int) /\ Len(out) = Len(b \o mid) + Len(line)
    BY <1>4, <1>12, <2>1, JoinIs
  <2> QED
    BY <1>4, <2>1, <2>2
<1>15. old \o out = u \o line
  <2>1. (old \o b) \o mid = old \o (b \o mid) /\ b \o mid \in Seq(Int)
    <3>1. b \in Seq(Int) /\ mid \in Seq(Int) /\ old \in Seq(Int)
      BY <1>6, <1>7, <1>11
    <3>2. (old \o b) \o mid = old \o (b \o mid)
      BY <3>1, JoinAssociative
    <3> QED
      BY <3>1, <3>2, JoinIs
  <2>2. (old \o (b \o mid)) \o line = old \o ((b \o mid) \o line)
    <3>1. b \o mid \in Seq(Int) /\ line \in Seq(Int) /\ old \in Seq(Int)
      BY <1>4, <1>7, <2>1
    <3>2. PICK both : both = b \o mid
      OBVIOUS
    <3>3. (old \o both) \o line = old \o (both \o line)
      BY <3>1, <3>2, JoinAssociative
    <3> QED
      BY <3>2, <3>3, Zenon
  <2> QED
    BY <1>9, <1>10, <1>12, <2>1, <2>2, Zenon
<1>16. /\ Formatted(u \o line, Append(ls, l), r)
       /\ Has(u \o line, n + 1, l.feature)
       /\ \A w, f : Has(u, w, f) => Has(u \o line, w, f)
  <2>1. /\ Formatted(u \o Line(Len(ls) + 1, l.feature), Append(ls, l), l.recorder)
        /\ Has(u \o Line(Len(ls) + 1, l.feature), Len(ls) + 1, l.feature)
        /\ \A w, f : Has(u, w, f) => Has(u \o Line(Len(ls) + 1, l.feature), w, f)
    BY <1>2, <1>11, FeatureAdded
  <2> QED
    BY <1>1, <1>2, <1>3, <2>1, Zenon
<1>17. v = Streamed(file, p, b)
  BY <1>5, <1>9, Zenon DEF Streamed
<1>18. /\ Formatted(old \o out, Append(ls, l), r)
       /\ Has(old \o out, n + 1, l.feature)
       /\ \A w, f : Has(Streamed(file, p, b), w, f) => Has(old \o out, w, f)
  BY <1>11, <1>15, <1>16, <1>17
<1> QED
  BY <1>1, <1>2, <1>5, <1>13, <1>14, <1>18, Zenon

(* The stream passed k cells of out to the disk, and v is what there is.   *)
DrainsRight(file, p, out, k, v, ls, r) ==
  LET f2 == Overwrite(file, p, SubSeq(out, 1, k))
      rest == SubSeq(out, k + 1, Len(out))
  IN  /\ FileRight(f2, p + k, rest, ls, r)
      /\ SameUpTo(file, f2, p)
      /\ Streamed(f2, p + k, rest) = v
      /\ k = Len(out) => rest = <<>>

(* Whatever part of it goes to the disk, the file stays what it is.        *)
LEMMA DrainRight ==
  ASSUME NEW ls \in Seq(LineType), NEW ls2 \in Seq(LineType), Len(ls) <= Len(ls2),
         NEW file, NEW p, NEW b, NEW r, FileRight(file, p, b, ls, r),
         NEW out \in Seq(Int), NEW v, v = SubSeq(file, 1, p) \o out, Formatted(v, ls2, r),
         NEW k \in 0..Len(out)
  PROVE  DrainsRight(file, p, out, k, v, ls2, r)
<1>1. PICK f2 : f2 = Overwrite(file, p, SubSeq(out, 1, k))
  OBVIOUS
<1>2. PICK rest : rest = SubSeq(out, k + 1, Len(out))
  OBVIOUS
<1>3. v = SubSeq(file, 1, p) \o out
  OBVIOUS
<1>4. /\ file \in Seq(Int) /\ p \in 0..Len(file)
      /\ \A i \in (p + 1)..Len(file) : file[i] # End /\ file[i] \in -1..Len(ls)
  BY DEF FileRight
<1>5. /\ f2 \in Seq(Int) /\ rest \in Seq(Int) /\ p + k \in 0..Len(f2)
      /\ SameUpTo(file, f2, p)
      /\ Streamed(f2, p + k, rest) = v
      /\ Len(rest) = Len(out) - k
      /\ \A i \in (p + k + 1)..Len(f2) : i \in (p + 1)..Len(file) /\ f2[i] = file[i]
  <2>1. LET f3 == Overwrite(file, p, SubSeq(out, 1, k))
            rest3 == SubSeq(out, k + 1, Len(out))
        IN  /\ f3 \in Seq(Int) /\ rest3 \in Seq(Int) /\ p + k \in 0..Len(f3)
            /\ SameUpTo(file, f3, p)
            /\ Streamed(f3, p + k, rest3) = SubSeq(file, 1, p) \o out
            /\ Len(rest3) = Len(out) - k
            /\ \A i \in (p + k + 1)..Len(f3) : i \in (p + 1)..Len(file) /\ f3[i] = file[i]
    BY <1>4, Drained
  <2> QED
    BY <1>1, <1>2, <1>3, <2>1, Zenon
<1>6. \A i \in (p + k + 1)..Len(f2) : f2[i] # End /\ f2[i] \in -1..Len(ls2)
  <2>1. Len(ls) \in Nat /\ Len(ls2) \in Nat
    OBVIOUS
  <2>2. -1..Len(ls) \subseteq -1..Len(ls2)
    BY <2>1
  <2> QED
    BY <1>4, <1>5, <2>2
<1>7. Formatted(Streamed(f2, p + k, rest), ls2, r)
  BY <1>3, <1>5
<1>8. FileRight(f2, p + k, rest, ls2, r)
  BY <1>5, <1>6, <1>7 DEF FileRight
<1>9. k = Len(out) => rest = <<>>
  BY <1>5
<1> QED
  BY <1>1, <1>2, <1>5, <1>8, <1>9, Zenon DEF DrainsRight

(* The lines of a file are lines of what there is with the stream.         *)
LEMMA FileLines ==
  ASSUME NEW ls \in Seq(LineType), NEW file, NEW p, NEW b, NEW r, FileRight(file, p, b, ls, r)
  PROVE  /\ \A e \in Ends(file) : /\ e \in 1..p /\ e \in Ends(Streamed(file, p, b))
                                  /\ LineAt(file, e) = LineAt(Streamed(file, p, b), e)
         /\ \A i \in DOMAIN file : file[i] \in -1..Len(ls)
         /\ Len(file) \in Nat /\ DOMAIN file = 1..Len(file)
         /\ SameUpTo(file, Streamed(file, p, b), p)
         /\ b = <<>> => \A e \in Ends(Streamed(file, p, b)) :
                          /\ e \in Ends(file)
                          /\ LineAt(file, e) = LineAt(Streamed(file, p, b), e)
<1>1. PICK m \in Nat : m = Len(file)
  BY DEF FileRight
<1>2. PICK v : v = Streamed(file, p, b)
  OBVIOUS
<1>3. /\ file \in Seq(Int) /\ b \in Seq(Int) /\ p \in 0..m /\ DOMAIN file = 1..m
      /\ \A i \in (p + 1)..m : file[i] # End /\ file[i] \in -1..Len(ls)
      /\ Formatted(v, ls, r)
  BY <1>1, <1>2 DEF FileRight
<1>4. PICK old : old = SubSeq(file, 1, p)
  OBVIOUS
<1>5. old \in Seq(Int) /\ Len(old) = p /\ \A i \in 1..p : old[i] = file[i]
  BY <1>1, <1>3, <1>4
<1>6. v = old \o b
  BY <1>2, <1>4, Zenon DEF Streamed
<1>7. /\ v \in Seq(Int) /\ Len(v) = p + Len(b) /\ \A i \in 1..p : v[i] = file[i]
  BY <1>3, <1>5, <1>6, JoinIs
<1>8. Len(b) \in Nat /\ p \in Nat /\ p <= Len(v) /\ p <= m
  BY <1>3, <1>7
<1>9. SameUpTo(file, v, p)
  BY <1>1, <1>7, <1>8 DEF SameUpTo
<1>10. \A e \in Ends(file) : e \in 1..p
  BY <1>3, <1>8 DEF Ends
<1>11. \A e \in Ends(file) : e \in Ends(v) /\ LineAt(file, e) = LineAt(v, e)
  BY <1>3, <1>7, <1>8, <1>9, <1>10, LinesSame
<1>12. \A i \in 1..m : file[i] \in -1..Len(ls)
  <2> SUFFICES ASSUME NEW i \in 1..m PROVE file[i] \in -1..Len(ls)
    OBVIOUS
  <2>1. CASE i \in 1..p
    <3>1. i \in 1..Len(v) /\ file[i] = v[i]
      BY <1>3, <1>7, <1>8, <2>1
    <3> QED
      BY <1>3, <3>1 DEF Formatted
  <2>2. CASE i \notin 1..p
    BY <1>3, <1>8, <2>2
  <2> QED
    BY <2>1, <2>2
<1>13. ASSUME b = <<>>, NEW e \in Ends(v)
       PROVE  e \in Ends(file) /\ LineAt(file, e) = LineAt(v, e)
  <2>1. e \in 1..p
    BY <1>7, <1>8, <1>13 DEF Ends
  <2> QED
    BY <1>3, <1>7, <1>8, <1>9, <1>13, <2>1, LinesSame
<1> QED
  BY <1>1, <1>2, <1>3, <1>9, <1>10, <1>11, <1>12, <1>13

(* A file that is opened again ends behind its last whole line, if its     *)
(* length is a position the code can tell from the beginning.              *)
LEMMA ReopenRight ==
  ASSUME NEW ls \in Seq(LineType), NEW file, NEW p, NEW b, NEW r, FileRight(file, p, b, ls, r),
         Len(file) < IntRange
  PROVE  FileRight(file, Reopened(file), <<>>, ls, r)
<1>1. PICK m \in Nat : m = Len(file)
  BY DEF FileRight
<1>2. /\ file \in Seq(Int) /\ DOMAIN file = 1..m /\ p \in 0..m
      /\ \A i \in 1..m : file[i] \in -1..Len(ls)
      /\ \A i \in (p + 1)..m : file[i] # End
      /\ SameUpTo(file, Streamed(file, p, b), p)
      /\ Formatted(Streamed(file, p, b), ls, r)
  BY <1>1, FileLines DEF FileRight
<1>3. IntRange \in Nat /\ IntRange > 0 /\ m < IntRange
  BY <1>1, BoundsAssumption
<1>4. \A i \in 0..m : (i % IntRange = 0) <=> i = 0
  BY <1>3
<1>5. PICK T : T = Stops(file)
  OBVIOUS
<1>6. T \in SUBSET (0..m) /\ 0 \in T /\ \A i \in 0..m : i \in T <=> i = 0 \/ file[i] = End
  BY <1>1, <1>4, <1>5 DEF Stops
<1>7. PICK q : q = Max(T)
  OBVIOUS
<1>8. q \in T /\ \A y \in T : q >= y
  BY <1>6, <1>7, MaxIs
<1>9. Reopened(file) = q
  <2>1. Reopened(file) = IF q % IntRange = 0 THEN 0 ELSE q
    BY <1>5, <1>7, Zenon DEF Reopened
  <2> QED
    BY <1>4, <1>6, <1>8, <2>1
<1>10. q \in 0..m /\ q <= p /\ (q = 0 \/ file[q] = End) /\ \A i \in (q + 1)..m : file[i] # End
  <2>1. q \in 0..m /\ (q = 0 \/ file[q] = End)
    BY <1>6, <1>8
  <2>2. ASSUME NEW i \in (q + 1)..m PROVE file[i] # End
    <3>1. i \in 0..m /\ ~(q >= i)
      BY <2>1
    <3> QED
      BY <1>6, <1>8, <3>1
  <2>3. q <= p
    BY <1>2, <2>1
  <2> QED
    BY <2>1, <2>2, <2>3
<1>11. PICK u : u = SubSeq(file, 1, q)
  OBVIOUS
<1>12. u \in Seq(Int) /\ Len(u) = q /\ \A i \in 1..q : u[i] = file[i]
  BY <1>1, <1>2, <1>10, <1>11
<1>13. PICK v : v = Streamed(file, p, b)
  OBVIOUS
<1>14. v \in Seq(Int) /\ Formatted(v, ls, r) /\ SameUpTo(file, v, p)
  BY <1>2, <1>13 DEF Formatted
<1>15. SameUpTo(u, v, Len(u))
  <2>1. p <= Len(v) /\ Len(v) \in Nat /\ \A i \in 1..p : file[i] = v[i]
    BY <1>14 DEF SameUpTo
  <2>2. q <= Len(v) /\ \A i \in 1..q : u[i] = v[i]
    BY <1>2, <1>10, <1>12, <2>1
  <2> QED
    BY <1>10, <1>12, <2>2 DEF SameUpTo
<1>16. Ended(u)
  BY <1>10, <1>12 DEF Ended
<1>17. Formatted(u, ls, r)
  BY <1>12, <1>14, <1>15, <1>16, FormattedCut
<1>18. Streamed(file, q, <<>>) = u
  <2>1. u \o <<>> = u
    BY <1>12
  <2> QED
    BY <1>11, <2>1, Zenon DEF Streamed
<1>19. FileRight(file, q, <<>>, ls, r)
  <2>1. \A i \in (q + 1)..m : i \in 1..m
    BY <1>10
  <2>2. <<>> \in Seq(Int)
    OBVIOUS
  <2> QED
    BY <1>1, <1>2, <1>10, <1>17, <1>18, <2>1, <2>2 DEF FileRight
<1> QED
  BY <1>9, <1>19

-----------------------------------------------------------------------------
(* The files of a state.                                                   *)

Content(r) == Streamed(disk[r], put[r], buffer[r])
FileInv == \A r \in Recorders : FileRight(disk[r], put[r], buffer[r], lines, r)
StreamTypes ==
  /\ disk \in [Recorders -> Seq(Int)] /\ buffer \in [Recorders -> Seq(Int)]
  /\ put \in [Recorders -> Nat] /\ fail \in [Recorders -> BOOLEAN]
  /\ lines \in Seq(LineType) /\ run \in Nat
(* What is in a file up to the stream's position is never written over.    *)
Preserved == \A r \in Recorders : SameUpTo(disk[r], disk'[r], put[r])
(* What was sent stays in the file or the stream.                          *)
Retained == \A r \in Recorders : \A w, f : Has(Content(r), w, f) => Has(Content(r)', w, f)

LEMMA Untouched ==
  ASSUME StreamTypes, FileInv, UNCHANGED <<disk, put, buffer, lines>>
  PROVE  FileInv' /\ Preserved /\ Retained
<1>1. FileInv'
  BY DEF FileInv
<1>2. Preserved
  BY DEF Preserved, SameUpTo, FileInv, FileRight
<1>3. Retained
  BY DEF Retained, Content
<1> QED
  BY <1>1, <1>2, <1>3

LEMMA FileLater ==
  ASSUME NEW ls \in Seq(LineType), NEW l \in LineType, NEW file, NEW p, NEW b, NEW r,
         FileRight(file, p, b, ls, r)
  PROVE  FileRight(file, p, b, Append(ls, l), r)
<1>1. PICK ls2 : ls2 = Append(ls, l)
  OBVIOUS
<1>2. Len(ls) \in Nat /\ Len(ls2) = Len(ls) + 1
  BY <1>1
<1>3. Formatted(Streamed(file, p, b), ls2, r)
  <2>1. Formatted(Streamed(file, p, b), ls, r)
    BY DEF FileRight
  <2>2. PICK v : v = Streamed(file, p, b)
    OBVIOUS
  <2>3. Formatted(v, Append(ls, l), r)
    BY <2>1, <2>2, FormattedLater
  <2> QED
    BY <1>1, <2>2, <2>3
<1>4. -1..Len(ls) \subseteq -1..Len(ls2)
  BY <1>2
<1>5. FileRight(file, p, b, ls2, r)
  BY <1>3, <1>4 DEF FileRight
<1> QED
  BY <1>1, <1>5

(* write0, whether or not the disk takes all of it.                        *)
LEMMA SendFiles ==
  ASSUME StreamTypes, FileInv, NEW r \in Recorders, NEW f \in Features,
         NEW k \in 0..Len(Pending(r, f)), Drain(r, Pending(r, f), k), NewLine(r, f)
  PROVE  /\ FileInv' /\ Preserved /\ Retained
         /\ disk' \in [Recorders -> Seq(Int)] /\ buffer' \in [Recorders -> Seq(Int)]
         /\ put' \in [Recorders -> Nat] /\ lines' \in Seq(LineType)
         /\ Len(lines) \in Nat /\ Len(lines') = Len(lines) + 1
         /\ lines'[Len(lines) + 1] = [recorder |-> r, feature |-> f, run |-> run]
         /\ \A w \in 1..Len(lines) : lines'[w] = lines[w]
         /\ Has(Content(r)', Len(lines) + 1, f)
<1>1. PICK l : l = [recorder |-> r, feature |-> f, run |-> run]
  OBVIOUS
<1>2. l \in LineType /\ l.recorder = r /\ l.feature = f
  BY <1>1 DEF LineType, StreamTypes
<1>3. PICK ls2 : ls2 = Append(lines, l)
  OBVIOUS
<1>4. lines' = ls2
  BY <1>1, <1>3, Zenon DEF NewLine
<1>5. lines \in Seq(LineType)
  BY DEF StreamTypes
<1>6. /\ ls2 \in Seq(LineType) /\ Len(lines) \in Nat /\ Len(ls2) = Len(lines) + 1
      /\ ls2[Len(lines) + 1] = l
      /\ \A w \in 1..Len(lines) : ls2[w] = lines[w]
  BY <1>2, <1>3, <1>5, AppendProperties
<1>7. PICK file : file = disk[r]
  OBVIOUS
<1>8. PICK p : p = put[r]
  OBVIOUS
<1>9. PICK b : b = buffer[r]
  OBVIOUS
<1>10. FileRight(file, p, b, lines, r)
  BY <1>7, <1>8, <1>9 DEF FileInv
<1>11. PICK out : out = Sent(p, b, Len(lines) + 1, f)
  OBVIOUS
<1>12. Pending(r, f) = out
  BY <1>8, <1>9, <1>11, Zenon DEF Pending, Sent
<1>13. PICK v : v = SubSeq(file, 1, p) \o out
  OBVIOUS
<1>14. /\ out \in Seq(Int) /\ Formatted(v, ls2, r) /\ Has(v, Len(lines) + 1, f)
       /\ \A w, g : Has(Streamed(file, p, b), w, g) => Has(v, w, g)
  <2>1. LET o == Sent(p, b, Len(lines) + 1, l.feature)
            u == SubSeq(file, 1, p) \o o
        IN  /\ o \in Seq(Int) /\ Len(o) > 0
            /\ Formatted(u, Append(lines, l), l.recorder)
            /\ Has(u, Len(lines) + 1, l.feature)
            /\ \A w, g : Has(Streamed(file, p, b), w, g) => Has(u, w, g)
    BY <1>2, <1>5, <1>10, SentRight
  <2> QED
    BY <1>2, <1>3, <1>11, <1>13, <2>1, Zenon
<1>15. PICK f2 : f2 = Overwrite(file, p, SubSeq(out, 1, k))
  OBVIOUS
<1>16. PICK rest : rest = SubSeq(out, k + 1, Len(out))
  OBVIOUS
<1>17. /\ FileRight(f2, p + k, rest, ls2, r)
       /\ SameUpTo(file, f2, p)
       /\ Streamed(f2, p + k, rest) = v
  <2>1. k \in 0..Len(out)
    BY <1>12
  <2>2. Len(lines) <= Len(ls2)
    BY <1>6
  <2>3. ls2 \in Seq(LineType)
    BY <1>6
  <2>4. out \in Seq(Int)
    BY <1>14
  <2>5. Formatted(v, ls2, r)
    BY <1>14
  <2>6. DrainsRight(file, p, out, k, v, ls2, r)
    BY <1>5, <1>10, <1>13, <2>1, <2>2, <2>3, <2>4, <2>5, DrainRight
  <2> QED
    BY <1>15, <1>16, <2>6, Zenon DEF DrainsRight
<1>18. /\ disk' = [disk EXCEPT ![r] = f2] /\ put' = [put EXCEPT ![r] = p + k]
       /\ buffer' = [buffer EXCEPT ![r] = rest]
  BY <1>7, <1>8, <1>12, <1>15, <1>16, Zenon DEF Drain
<1>19. /\ disk'[r] = f2 /\ put'[r] = p + k /\ buffer'[r] = rest
       /\ \A q \in Recorders : q # r =>
            disk'[q] = disk[q] /\ put'[q] = put[q] /\ buffer'[q] = buffer[q]
  BY <1>18 DEF StreamTypes
<1>20. \A q \in Recorders : FileRight(disk[q], put[q], buffer[q], lines, q)
  BY DEF FileInv
<1>21. FileInv'
  <2> SUFFICES ASSUME NEW q \in Recorders
               PROVE  FileRight(disk'[q], put'[q], buffer'[q], ls2, q)
    BY <1>4 DEF FileInv
  <2>1. CASE q = r
    BY <1>17, <1>19, <2>1
  <2>2. CASE q # r
    <3>1. PICK file3 : file3 = disk[q]
      OBVIOUS
    <3>2. PICK p3 : p3 = put[q]
      OBVIOUS
    <3>3. PICK b3 : b3 = buffer[q]
      OBVIOUS
    <3>4. FileRight(file3, p3, b3, lines, q)
      BY <1>20, <3>1, <3>2, <3>3
    <3>5. FileRight(file3, p3, b3, Append(lines, l), q)
      BY <1>2, <1>5, <3>4, FileLater
    <3> QED
      BY <1>3, <1>19, <2>2, <3>1, <3>2, <3>3, <3>5
  <2> QED
    BY <2>1, <2>2
<1>22. Preserved
  <2> SUFFICES ASSUME NEW q \in Recorders PROVE SameUpTo(disk[q], disk'[q], put[q])
    BY DEF Preserved
  <2>1. CASE q = r
    BY <1>7, <1>8, <1>17, <1>19, <2>1
  <2>2. CASE q # r
    <3>1. put[q] \in 0..Len(disk[q])
      BY <1>20 DEF FileRight
    <3> QED
      BY <1>19, <2>2, <3>1 DEF SameUpTo
  <2> QED
    BY <2>1, <2>2
<1>23. Content(r)' = v /\ Content(r) = Streamed(file, p, b)
  BY <1>7, <1>8, <1>9, <1>17, <1>19 DEF Content
<1>24. Retained
  <2> SUFFICES ASSUME NEW q \in Recorders, NEW w, NEW g, Has(Content(q), w, g)
               PROVE  Has(Content(q)', w, g)
    BY DEF Retained
  <2>1. CASE q = r
    BY <1>14, <1>23, <2>1
  <2>2. CASE q # r
    <3>1. Content(q)' = Content(q)
      BY <1>19, <2>2 DEF Content
    <3> QED
      BY <3>1
  <2> QED
    BY <2>1, <2>2
<1>25. /\ disk' \in [Recorders -> Seq(Int)] /\ buffer' \in [Recorders -> Seq(Int)]
       /\ put' \in [Recorders -> Nat]
  <2>1. f2 \in Seq(Int) /\ rest \in Seq(Int) /\ p + k \in Nat
    <3>1. f2 \in Seq(Int) /\ rest \in Seq(Int) /\ p + k \in 0..Len(f2)
      BY <1>17 DEF FileRight
    <3> QED
      BY <3>1
  <2> QED
    BY <1>18, <2>1 DEF StreamTypes
<1> QED
  BY <1>1, <1>4, <1>6, <1>14, <1>21, <1>22, <1>23, <1>24, <1>25

(* A flush, whether or not the disk takes all of it.                       *)
LEMMA FlushFiles ==
  ASSUME StreamTypes, FileInv, FlushAll, UNCHANGED <<lines, run>>
  PROVE  /\ FileInv' /\ Preserved /\ Retained /\ StreamTypes'
         /\ \A r \in Recorders : Content(r)' = Content(r)
         /\ \A r \in Recorders : fail'[r] \/ buffer'[r] = <<>>
<1>1. PICK k \in [Recorders -> 0..Max({Len(buffer[r]) : r \in Recorders})] :
        /\ \A r \in Recorders : k[r] \in MayWrite(r)
        /\ disk' = [r \in Recorders |-> FlushedTo(r, k[r])]
        /\ put' = [r \in Recorders |-> put[r] + k[r]]
        /\ fail' = [r \in Recorders |-> fail[r] \/ k[r] < Len(buffer[r])]
        /\ buffer' = [r \in Recorders |-> SubSeq(buffer[r], k[r] + 1, Len(buffer[r]))]
  BY DEF FlushAll
<1>2. lines \in Seq(LineType) /\ Len(lines) \in Nat /\ lines' = lines
  BY DEF StreamTypes
<1>3. ASSUME NEW r \in Recorders
      PROVE  /\ FileRight(disk'[r], put'[r], buffer'[r], lines, r)
             /\ SameUpTo(disk[r], disk'[r], put[r])
             /\ Content(r)' = Content(r)
             /\ fail'[r] \in BOOLEAN /\ (fail'[r] \/ buffer'[r] = <<>>)
  <2>1. PICK file : file = disk[r]
    OBVIOUS
  <2>2. PICK p : p = put[r]
    OBVIOUS
  <2>3. PICK b : b = buffer[r]
    OBVIOUS
  <2>4. PICK kr : kr = k[r]
    OBVIOUS
  <2>5. FileRight(file, p, b, lines, r)
    BY <2>1, <2>2, <2>3 DEF FileInv
  <2>6. b \in Seq(Int) /\ Len(b) \in Nat /\ kr \in 0..Len(b)
    <3>1. b \in Seq(Int) /\ Len(b) \in Nat
      BY <2>5 DEF FileRight
    <3>2. kr \in MayWrite(r)
      BY <1>1, <2>4
    <3> QED
      BY <2>3, <3>1, <3>2 DEF MayWrite
  <2>7. PICK v : v = SubSeq(file, 1, p) \o b
    OBVIOUS
  <2>8. v = Streamed(file, p, b) /\ v = Content(r)
    BY <2>1, <2>2, <2>3, <2>7, Zenon DEF Streamed, Content
  <2>9. Formatted(v, lines, r)
    BY <2>5, <2>8 DEF FileRight
  <2>10. Len(lines) <= Len(lines)
    BY <1>2
  <2>11. DrainsRight(file, p, b, kr, v, lines, r)
    BY <1>2, <2>5, <2>6, <2>7, <2>9, <2>10, DrainRight
  <2>12. PICK f2 : f2 = Overwrite(file, p, SubSeq(b, 1, kr))
    OBVIOUS
  <2>13. PICK rest : rest = SubSeq(b, kr + 1, Len(b))
    OBVIOUS
  <2>14. /\ FileRight(f2, p + kr, rest, lines, r)
         /\ SameUpTo(file, f2, p)
         /\ Streamed(f2, p + kr, rest) = v
         /\ kr = Len(b) => rest = <<>>
    BY <2>11, <2>12, <2>13, Zenon DEF DrainsRight
  <2>15. disk'[r] = FlushedTo(r, kr) /\ put'[r] = p + kr
    BY <1>1, <2>2, <2>4
  <2>16. disk'[r] = f2
    BY <2>1, <2>2, <2>3, <2>12, <2>15, Zenon DEF FlushedTo
  <2>17. buffer'[r] = rest
    BY <1>1, <2>3, <2>4, <2>13
  <2>18. fail'[r] = (fail[r] \/ kr < Len(b))
    BY <1>1, <2>3, <2>4
  <2>19. Content(r)' = Content(r)
    <3>1. Content(r)' = Streamed(disk'[r], put'[r], buffer'[r])
      BY DEF Content
    <3>2. Content(r)' = Streamed(f2, p + kr, rest)
      BY <2>15, <2>16, <2>17, <3>1
    <3> QED
      BY <2>8, <2>14, <3>2
  <2>20. fail'[r] \/ buffer'[r] = <<>>
    <3>1. kr < Len(b) \/ kr = Len(b)
      BY <2>6
    <3> QED
      BY <2>14, <2>17, <2>18, <3>1
  <2>21. fail'[r] \in BOOLEAN
    BY <2>18 DEF StreamTypes
  <2>22. FileRight(disk'[r], put'[r], buffer'[r], lines, r)
    BY <2>14, <2>15, <2>16, <2>17
  <2>23. SameUpTo(disk[r], disk'[r], put[r])
    BY <2>1, <2>2, <2>14, <2>16
  <2> QED
    BY <2>19, <2>20, <2>21, <2>22, <2>23
<1>4. FileInv'
  BY <1>2, <1>3 DEF FileInv
<1>5. Preserved
  BY <1>3 DEF Preserved
<1>6. Retained
  BY <1>3 DEF Retained
<1>7. StreamTypes'
  <2>1. \A r \in Recorders : disk'[r] \in Seq(Int) /\ buffer'[r] \in Seq(Int) /\ put'[r] \in Nat
    BY <1>3 DEF FileRight
  <2>2. disk' \in [Recorders -> Seq(Int)]
    BY <1>1, <2>1
  <2>3. buffer' \in [Recorders -> Seq(Int)]
    BY <1>1, <2>1
  <2>4. put' \in [Recorders -> Nat]
    BY <1>1, <2>1
  <2>5. fail' \in [Recorders -> BOOLEAN]
    BY <1>1, <1>3
  <2> QED
    BY <1>2, <2>2, <2>3, <2>4, <2>5 DEF StreamTypes
<1> QED
  BY <1>3, <1>4, <1>5, <1>6, <1>7

(* The files are shorter than the positions the code can tell apart.       *)
FilesFit == \A r \in Recorders : Len(disk[r]) < IntRange

LEMMA ReopenFiles ==
  ASSUME StreamTypes, FileInv, FilesFit, Restart
  PROVE  FileInv' /\ Preserved
<1>1. /\ \A r \in Recorders : put'[r] = Reopened(disk[r]) /\ buffer'[r] = <<>>
      /\ disk' = disk /\ lines' = lines /\ lines \in Seq(LineType)
  BY DEF Restart, StreamTypes
<1>2. ASSUME NEW r \in Recorders PROVE FileRight(disk[r], Reopened(disk[r]), <<>>, lines, r)
  <2>1. PICK file : file = disk[r]
    OBVIOUS
  <2>2. FileRight(file, put[r], buffer[r], lines, r) /\ Len(file) < IntRange
    BY <2>1 DEF FileInv, FilesFit
  <2>3. FileRight(file, Reopened(file), <<>>, lines, r)
    BY <1>1, <2>2, ReopenRight
  <2> QED
    BY <2>1, <2>3
<1>3. FileInv'
  BY <1>1, <1>2 DEF FileInv
<1>4. Preserved
  BY <1>1 DEF Preserved, SameUpTo, FileInv, FileRight
<1> QED
  BY <1>3, <1>4

-----------------------------------------------------------------------------
(* What the writers do, counted.                                           *)

Steps == {"stopped", "alert_list", "feature", "histogram"}
Places == {Idle} \union {Step(s, f) : s \in Steps, f \in Features}

(* The writers at one of some places, and the lines of a recorder with a   *)
(* feature, which this run had accepted.                                   *)
Where(places) == {t \in Writers : at[t] \in places}
WritersAt(s, f) == Where({Step(s, f)})
WritersWith(f) == Where({Step(s, f) : s \in Steps})
Accepted(r, f) == {w \in accepted : /\ lines[w].recorder = r
                                    /\ lines[w].feature = f}

Phases == {"scan", "flushed", "ended", "gave up", "halted"}
CountTypes ==
  /\ run \in 1..MaxRuns /\ writes \in 0..MaxWrites
  /\ phase \in Phases
  /\ at \in [Writers -> Places]
  /\ histogram \in [Features -> Nat] /\ report \in [Features -> Nat]
  /\ lines \in Seq(LineType) /\ accepted \subseteq 1..Len(lines)

LEMMA PlaceIs ==
  /\ Idle.step = "idle" /\ Idle \in Places
  /\ \A s \in Steps, f \in Features :
       /\ Step(s, f).step = s /\ Step(s, f).feature = f
       /\ Step(s, f) \in Places /\ Step(s, f) # Idle
  /\ \A p \in Places :
       p = Idle \/ (p.step \in Steps /\ p.feature \in Features /\ p = Step(p.step, p.feature))
  /\ \A s, s2 \in Steps, f, f2 \in Features : Step(s, f) = Step(s2, f2) <=> s = s2 /\ f = f2
<1>1. Idle.step = "idle" /\ Idle \in Places
  BY DEF Idle, Places
<1>2. ASSUME NEW s \in Steps, NEW f \in Features
      PROVE  /\ Step(s, f).step = s /\ Step(s, f).feature = f
             /\ Step(s, f) \in Places /\ Step(s, f) # Idle
  <2>1. Step(s, f).step = s /\ Step(s, f).feature = f
    BY DEF Step
  <2>2. Step(s, f) # Idle
    BY <1>1, <2>1 DEF Steps
  <2>3. Step(s, f) \in Places
    BY DEF Places
  <2> QED
    BY <2>1, <2>2, <2>3
<1>3. ASSUME NEW p \in Places
      PROVE  p = Idle \/ (p.step \in Steps /\ p.feature \in Features /\ p = Step(p.step, p.feature))
  <2>1. p = Idle \/ \E s \in Steps, f \in Features : p = Step(s, f)
    BY DEF Places
  <2> QED
    BY <1>2, <2>1
<1>4. \A s, s2 \in Steps, f, f2 \in Features : Step(s, f) = Step(s2, f2) <=> s = s2 /\ f = f2
  BY <1>2
<1> QED
  BY <1>1, <1>2, <1>3, <1>4

LEMMA WhereFinite ==
  ASSUME NEW places
  PROVE  IsFiniteSet(Where(places)) /\ Cardinality(Where(places)) \in Nat
<1>1. Where(places) \subseteq Writers
  BY DEF Where
<1> QED
  BY <1>1, FS_Subset, FS_CardinalityType, WritersAssumption

(* A writer goes from one place to another.                                *)
LEMMA Moved ==
  ASSUME at \in [Writers -> Places], NEW t \in Writers, NEW x,
         at' = [at EXCEPT ![t] = x], NEW places
  PROVE  /\ at[t] \in places /\ x \notin places =>
              Cardinality(Where(places)') = Cardinality(Where(places)) - 1
         /\ at[t] \notin places /\ x \in places =>
              Cardinality(Where(places)') = Cardinality(Where(places)) + 1
         /\ (at[t] \in places) = (x \in places) => Where(places)' = Where(places)
         /\ Cardinality(Where(places)') \in Nat
<1>1. at'[t] = x /\ \A u \in Writers : u # t => at'[u] = at[u]
  OBVIOUS
<1>2. PICK S : S = Where(places)
  OBVIOUS
<1>3. PICK S2 : S2 = Where(places)'
  OBVIOUS
<1>4. /\ \A u : u \in S <=> u \in Writers /\ at[u] \in places
      /\ \A u : u \in S2 <=> u \in Writers /\ at'[u] \in places
  BY <1>2, <1>3 DEF Where
<1>5. IsFiniteSet(S) /\ Cardinality(S) \in Nat
  BY <1>2, WhereFinite
<1>6. CASE at[t] \in places /\ x \notin places
  <2>1. S2 = S \ {t} /\ t \in S
    BY <1>1, <1>4, <1>6
  <2>2. Cardinality(S2) = Cardinality(S) - 1 /\ Cardinality(S2) \in Nat
    <3>1. IsFiniteSet(S \ {t}) /\ Cardinality(S \ {t}) = Cardinality(S) - 1
      BY <1>5, <2>1, FS_RemoveElement
    <3>2. Cardinality(S \ {t}) \in Nat
      BY <3>1, FS_CardinalityType
    <3> QED
      BY <2>1, <3>1, <3>2
  <2> QED
    BY <1>2, <1>3, <1>6, <2>2
<1>7. CASE at[t] \notin places /\ x \in places
  <2>1. S2 = S \union {t} /\ t \notin S
    BY <1>1, <1>4, <1>7
  <2>2. Cardinality(S2) = Cardinality(S) + 1
    BY <1>5, <2>1, FS_AddElement
  <2> QED
    BY <1>2, <1>3, <1>5, <1>7, <2>2
<1>8. CASE (at[t] \in places) = (x \in places)
  <2>1. S2 = S
    BY <1>1, <1>4, <1>8
  <2> QED
    BY <1>2, <1>3, <1>5, <1>8, <2>1
<1> QED
  BY <1>6, <1>7, <1>8

LEMMA AcceptedFinite ==
  ASSUME CountTypes, NEW r, NEW f
  PROVE  IsFiniteSet(Accepted(r, f)) /\ Cardinality(Accepted(r, f)) \in Nat
<1>1. Accepted(r, f) \subseteq 1..Len(lines) /\ Len(lines) \in Nat
  <2>1. Accepted(r, f) \subseteq accepted
    BY Zenon DEF Accepted
  <2>2. accepted \subseteq 1..Len(lines) /\ Len(lines) \in Nat
    BY DEF CountTypes
  <2> QED
    BY <2>1, <2>2
<1>2. IsFiniteSet(1..Len(lines))
  BY <1>1, FS_Interval
<1> QED
  BY <1>1, <1>2, FS_Subset, FS_CardinalityType

(* A line is accepted.                                                     *)
LEMMA AcceptedGrows ==
  ASSUME CountTypes, NEW r \in Recorders, NEW f \in Features, NewLine(r, f),
         accepted' = accepted \union {Len(lines) + 1}
  PROVE  /\ Cardinality(Accepted(r, f)') = Cardinality(Accepted(r, f)) + 1
         /\ \A r2, f2 : r2 # r \/ f2 # f => Accepted(r2, f2)' = Accepted(r2, f2)
         /\ lines' \in Seq(LineType) /\ accepted' \subseteq 1..Len(lines')
<1>1. PICK l : l = [recorder |-> r, feature |-> f, run |-> run]
  OBVIOUS
<1>2. l \in LineType /\ l.recorder = r /\ l.feature = f
  BY <1>1 DEF LineType, CountTypes
<1>3. lines' = Append(lines, l) /\ lines \in Seq(LineType)
  BY <1>1, Zenon DEF NewLine, CountTypes
<1>4. PICK n \in Nat : n = Len(lines)
  BY <1>3
<1>5. /\ lines' \in Seq(LineType) /\ Len(lines') = n + 1
      /\ lines'[n + 1] = l /\ \A w \in 1..n : lines'[w] = lines[w]
  BY <1>2, <1>3, <1>4, AppendProperties
<1>6. accepted \subseteq 1..n /\ n + 1 \notin accepted /\ accepted' = accepted \union {n + 1}
  BY <1>4 DEF CountTypes
<1>7. accepted' \subseteq 1..(n + 1)
  <2> SUFFICES ASSUME NEW w \in accepted' PROVE w \in 1..(n + 1)
    OBVIOUS
  <2>1. w \in 1..n \/ w = n + 1
    BY <1>6
  <2> QED
    BY <2>1
<1>8. \A r2, f2, w : w \in Accepted(r2, f2)' <=>
                       w \in Accepted(r2, f2) \/ (w = n + 1 /\ r2 = r /\ f2 = f)
  <2> SUFFICES ASSUME NEW r2, NEW f2, NEW w
               PROVE  w \in Accepted(r2, f2)' <=>
                        w \in Accepted(r2, f2) \/ (w = n + 1 /\ r2 = r /\ f2 = f)
    OBVIOUS
  <2>1. w \in Accepted(r2, f2)' <=>
          w \in accepted' /\ lines'[w].recorder = r2 /\ lines'[w].feature = f2
    BY Zenon DEF Accepted
  <2>2. w \in Accepted(r2, f2) <=>
          w \in accepted /\ lines[w].recorder = r2 /\ lines[w].feature = f2
    BY Zenon DEF Accepted
  <2> QED
    BY <1>2, <1>5, <1>6, <2>1, <2>2
<1>9. ASSUME NEW r2, NEW f2, r2 # r \/ f2 # f PROVE Accepted(r2, f2)' = Accepted(r2, f2)
  <2>1. PICK S : S = Accepted(r2, f2)
    OBVIOUS
  <2>2. PICK S2 : S2 = Accepted(r2, f2)'
    OBVIOUS
  <2>3. \A w : w \in S2 <=> w \in S
    BY <1>8, <1>9, <2>1, <2>2
  <2> QED
    BY <2>1, <2>2, <2>3
<1>10. Accepted(r, f)' = Accepted(r, f) \union {n + 1} /\ n + 1 \notin Accepted(r, f)
  <2>1. n + 1 \notin Accepted(r, f)
    BY <1>6, Zenon DEF Accepted
  <2> QED
    BY <1>8, <2>1
<1>11. Cardinality(Accepted(r, f)') = Cardinality(Accepted(r, f)) + 1
  BY <1>10, AcceptedFinite, FS_AddElement
<1> QED
  BY <1>5, <1>7, <1>9, <1>11

-----------------------------------------------------------------------------
(* The counts of a run.                                                    *)

Active == phase \notin {"flushed", "ended"}
CountInv ==
  \A f \in Features :
    /\ histogram[f] + Cardinality(WritersWith(f)) <= writes
    /\ phase # "ended" => histogram[f] + Cardinality(WritersAt("histogram", f))
                            = Cardinality(Accepted("feature", f))
    /\ phase = "ended" => report[f] = Cardinality(Accepted("feature", f))
    /\ f \in AlertList => Cardinality(Accepted("feature", f)) + Cardinality(WritersAt("feature", f))
                            <= Cardinality(Accepted("alert_list", f))
AtRest == ~Active => AllIdle
CountsRight == CountTypes /\ CountInv /\ AtRest

LEMMA RunningIs ==
  /\ Running => Active /\ phase # "ended"
  /\ (phase = "scan" \/ phase = "gave up") => Active /\ phase # "ended"
BY Zenon DEF Running, Active

(* The numbers are numbers.                                                *)
LEMMA Numbers ==
  ASSUME CountTypes
  PROVE  \A f \in Features : 
           /\ histogram[f] \in Nat /\ report[f] \in Nat
           /\ Cardinality(WritersWith(f)) \in Nat
           /\ \A s : Cardinality(WritersAt(s, f)) \in Nat
           /\ \A r : Cardinality(Accepted(r, f)) \in Nat
BY WhereFinite, AcceptedFinite DEF CountTypes, WritersWith, WritersAt

(* A writer that leaves or reaches a step.                                 *)
LEMMA Stepping ==
  ASSUME CountTypes, NEW t \in Writers, NEW x \in Places, at' = [at EXCEPT ![t] = x],
         NEW s \in Steps, NEW f \in Features
  PROVE  /\ at[t] = Step(s, f) /\ x # Step(s, f) =>
              Cardinality(WritersAt(s, f)') = Cardinality(WritersAt(s, f)) - 1
         /\ at[t] # Step(s, f) /\ x = Step(s, f) =>
              Cardinality(WritersAt(s, f)') = Cardinality(WritersAt(s, f)) + 1
         /\ at[t] # Step(s, f) /\ x # Step(s, f) => WritersAt(s, f)' = WritersAt(s, f)
         /\ Cardinality(WritersAt(s, f)') \in Nat
<1>1. PICK places : places = {Step(s, f)}
  OBVIOUS
<1>2. WritersAt(s, f) = Where(places) /\ WritersAt(s, f)' = Where(places)'
  BY <1>1, Zenon DEF WritersAt, Where
<1>3. at \in [Writers -> Places]
  BY DEF CountTypes
<1>4. /\ at[t] \in places /\ x \notin places =>
              Cardinality(Where(places)') = Cardinality(Where(places)) - 1
      /\ at[t] \notin places /\ x \in places =>
              Cardinality(Where(places)') = Cardinality(Where(places)) + 1
      /\ (at[t] \in places) = (x \in places) => Where(places)' = Where(places)
      /\ Cardinality(Where(places)') \in Nat
  BY <1>3, Moved
<1>5. \A p : p \in places <=> p = Step(s, f)
  BY <1>1
<1> QED
  BY <1>2, <1>4, <1>5

LEMMA Working ==
  ASSUME CountTypes, NEW t \in Writers, NEW x \in Places, at' = [at EXCEPT ![t] = x],
         NEW f \in Features
  PROVE  /\ at[t] # Idle /\ at[t].feature = f /\ x = Idle =>
              Cardinality(WritersWith(f)') = Cardinality(WritersWith(f)) - 1
         /\ at[t] = Idle /\ x # Idle /\ x.feature = f =>
              Cardinality(WritersWith(f)') = Cardinality(WritersWith(f)) + 1
         /\ at[t] = Idle /\ (x = Idle \/ x.feature # f) => WritersWith(f)' = WritersWith(f)
         /\ at[t] # Idle /\ at[t].feature # f /\ (x = Idle \/ x.feature # f) =>
              WritersWith(f)' = WritersWith(f)
         /\ at[t] # Idle /\ at[t].feature = f /\ x # Idle /\ x.feature = f =>
              WritersWith(f)' = WritersWith(f)
         /\ Cardinality(WritersWith(f)') \in Nat
<1>1. PICK places : places = {Step(s, f) : s \in Steps}
  OBVIOUS
<1>2. WritersWith(f) = Where(places) /\ WritersWith(f)' = Where(places)'
  BY <1>1, Zenon DEF WritersWith, Where
<1>3. at \in [Writers -> Places] /\ at[t] \in Places
  BY DEF CountTypes
<1>4. /\ at[t] \in places /\ x \notin places =>
              Cardinality(Where(places)') = Cardinality(Where(places)) - 1
      /\ at[t] \notin places /\ x \in places =>
              Cardinality(Where(places)') = Cardinality(Where(places)) + 1
      /\ (at[t] \in places) = (x \in places) => Where(places)' = Where(places)
      /\ Cardinality(Where(places)') \in Nat
  BY <1>3, Moved
<1>5. \A p \in Places : p \in places <=> p # Idle /\ p.feature = f
  BY <1>1, PlaceIs
<1>6. /\ at[t] \in places <=> at[t] # Idle /\ at[t].feature = f
      /\ x \in places <=> x # Idle /\ x.feature = f
  BY <1>3, <1>5
<1> QED
  BY <1>2, <1>4, <1>6

(* write() of a feature.                                                   *)
LEMMA CountWrite ==
  ASSUME CountsRight, NEW t \in Writers, NEW f \in Features, Write(t, f)
  PROVE  CountsRight'
<1>1. CountTypes /\ CountInv /\ AtRest
  BY DEF CountsRight
<1>2. PICK x : x = Step(IF f \in StopList THEN "stopped"
                        ELSE IF f \in AlertList THEN "alert_list" ELSE "feature", f)
  OBVIOUS
<1>3. /\ at[t] = Idle /\ at' = [at EXCEPT ![t] = x] /\ writes < MaxWrites /\ writes' = writes + 1
      /\ Running
      /\ UNCHANGED <<run, phase, histogram, report, lines, accepted>>
  BY <1>2, Zenon DEF Write, history
<1>4. Active /\ phase # "ended" /\ Active' /\ phase' # "ended"
  BY <1>3, RunningIs DEF Active
<1>5. PICK s \in Steps : x = Step(s, f) /\ s # "histogram" /\ (s = "feature" => f \notin AlertList)
  BY <1>2 DEF Steps
<1>6. x \in Places /\ x # Idle /\ x.feature = f
  BY <1>5, PlaceIs
<1>7. CountTypes'
  <2>1. at' \in [Writers -> Places] /\ writes' \in 0..MaxWrites
    BY <1>1, <1>3, <1>6, BoundsAssumption DEF CountTypes
  <2> QED
    BY <1>1, <1>3, <2>1 DEF CountTypes
<1>8. \A r, g : Accepted(r, g)' = Accepted(r, g)
  BY <1>3 DEF Accepted
<1>9. CountInv'
  <2> SUFFICES ASSUME NEW g \in Features
               PROVE  /\ histogram'[g] + Cardinality(WritersWith(g)') <= writes'
                      /\ phase' # "ended" =>
                           histogram'[g] + Cardinality(WritersAt("histogram", g)')
                             = Cardinality(Accepted("feature", g)')
                      /\ phase' = "ended" => report'[g] = Cardinality(Accepted("feature", g)')
                      /\ g \in AlertList =>
                           Cardinality(Accepted("feature", g)')
                             + Cardinality(WritersAt("feature", g)')
                             <= Cardinality(Accepted("alert_list", g)')
    BY DEF CountInv
  <2>1. histogram[g] + Cardinality(WritersWith(g)) <= writes
        /\ histogram[g] \in Nat /\ Cardinality(WritersWith(g)) \in Nat /\ writes \in Nat
    BY <1>1, Numbers DEF CountInv, CountTypes
  <2>2. histogram'[g] + Cardinality(WritersWith(g)') <= writes'
    <3>1. g = f => Cardinality(WritersWith(g)') = Cardinality(WritersWith(g)) + 1
      BY <1>1, <1>3, <1>6, Working
    <3>2. g # f => Cardinality(WritersWith(g)') = Cardinality(WritersWith(g))
      BY <1>1, <1>3, <1>6, Working
    <3> QED
      BY <1>3, <2>1, <3>1, <3>2
  <2>3. WritersAt("histogram", g)' = WritersAt("histogram", g)
    <3>1. "histogram" \in Steps /\ x # Step("histogram", g) /\ Idle # Step("histogram", g)
      BY <1>5, PlaceIs DEF Steps
    <3> QED
      BY <1>1, <1>3, <1>6, <3>1, Stepping
  <2>4. g \in AlertList => WritersAt("feature", g)' = WritersAt("feature", g)
    <3>1. "feature" \in Steps /\ Idle # Step("feature", g)
      BY PlaceIs DEF Steps
    <3>2. g \in AlertList => x # Step("feature", g)
      BY <1>5, <3>1, PlaceIs
    <3> QED
      BY <1>1, <1>3, <1>6, <3>1, <3>2, Stepping
  <2> QED
    BY <1>1, <1>3, <1>4, <1>8, <2>2, <2>3, <2>4 DEF CountInv
<1>10. AtRest'
  BY <1>4 DEF AtRest
<1> QED
  BY <1>7, <1>9, <1>10 DEF CountsRight

(* write0() of a line.                                                     *)
LEMMA CountWrite0 ==
  ASSUME CountsRight, NEW t \in Writers, NEW r \in Recorders, Write0(t, r)
  PROVE  CountsRight'
<1>1. CountTypes /\ CountInv /\ AtRest /\ r \in Steps
  BY DEF CountsRight, Recorders, Steps
<1>2. PICK f : f = at[t].feature
  OBVIOUS
<1>3. PICK x : x = After(r, f)
  OBVIOUS
<1>4. /\ at[t].step = r /\ at' = [at EXCEPT ![t] = x] /\ Running
      /\ NewLine(r, f) /\ accepted' = accepted \union {Len(lines) + 1}
      /\ UNCHANGED <<run, phase, histogram, report, writes>>
  BY <1>2, <1>3, Zenon DEF Write0
<1>5. Active /\ phase # "ended" /\ Active' /\ phase' # "ended"
  BY <1>4, RunningIs DEF Active
<1>6. at[t] = Step(r, f) /\ f \in Features /\ at[t] # Idle /\ at[t].feature = f
  <2>1. at[t] \in Places
    BY <1>1 DEF CountTypes
  <2>2. at[t] # Idle
    BY <1>1, <1>4, PlaceIs DEF Steps
  <2> QED
    BY <1>2, <1>4, <2>1, <2>2, PlaceIs
<1>7. /\ r = "stopped" => x = Idle
      /\ r = "alert_list" => x = Step("feature", f)
      /\ r = "feature" => x = Step("histogram", f)
  BY <1>3 DEF After
<1>8. x \in Places /\ (x = Idle \/ x.feature = f)
  BY <1>6, <1>7, PlaceIs DEF Recorders, Steps
<1>9. /\ Cardinality(Accepted(r, f)') = Cardinality(Accepted(r, f)) + 1
      /\ \A r2, f2 : r2 # r \/ f2 # f => Accepted(r2, f2)' = Accepted(r2, f2)
      /\ lines' \in Seq(LineType) /\ accepted' \subseteq 1..Len(lines')
  BY <1>1, <1>4, <1>6, AcceptedGrows
<1>10. CountTypes'
  <2>1. at' \in [Writers -> Places]
    BY <1>1, <1>4, <1>8 DEF CountTypes
  <2> QED
    BY <1>1, <1>4, <1>9, <2>1 DEF CountTypes
<1>11. \A g \in Features : 
         /\ histogram[g] \in Nat /\ report[g] \in Nat
         /\ Cardinality(WritersWith(g)) \in Nat
         /\ \A s : Cardinality(WritersAt(s, g)) \in Nat
         /\ \A q : Cardinality(Accepted(q, g)) \in Nat
  BY <1>1, Numbers
<1>12. CountInv'
  <2> SUFFICES ASSUME NEW g \in Features
               PROVE  /\ histogram'[g] + Cardinality(WritersWith(g)') <= writes'
                      /\ phase' # "ended" =>
                           histogram'[g] + Cardinality(WritersAt("histogram", g)')
                             = Cardinality(Accepted("feature", g)')
                      /\ phase' = "ended" => report'[g] = Cardinality(Accepted("feature", g)')
                      /\ g \in AlertList =>
                           Cardinality(Accepted("feature", g)')
                             + Cardinality(WritersAt("feature", g)')
                             <= Cardinality(Accepted("alert_list", g)')
    BY DEF CountInv
  <2>1. /\ histogram[g] + Cardinality(WritersWith(g)) <= writes /\ writes \in Nat
        /\ histogram[g] + Cardinality(WritersAt("histogram", g)) = Cardinality(Accepted("feature", g))
        /\ g \in AlertList => Cardinality(Accepted("feature", g)) + Cardinality(WritersAt("feature", g))
                                <= Cardinality(Accepted("alert_list", g))
    BY <1>1, <1>5 DEF CountInv, CountTypes
  <2>2. histogram'[g] + Cardinality(WritersWith(g)') <= writes'
    <3>1. \/ Cardinality(WritersWith(g)') = Cardinality(WritersWith(g)) - 1
          \/ Cardinality(WritersWith(g)') = Cardinality(WritersWith(g))
      BY <1>1, <1>4, <1>6, <1>8, Working
    <3> QED
      BY <1>4, <1>11, <2>1, <3>1
  <2>3. "histogram" \in Steps /\ "feature" \in Steps
    BY DEF Steps
  <2>4. /\ r = "feature" /\ g = f =>
             Cardinality(WritersAt("histogram", g)') = Cardinality(WritersAt("histogram", g)) + 1
        /\ r # "feature" \/ g # f =>
             Cardinality(WritersAt("histogram", g)') = Cardinality(WritersAt("histogram", g))
    <3>1. at[t] # Step("histogram", g)
      BY <1>1, <1>6, <2>3, PlaceIs DEF Recorders
    <3>2. x = Step("histogram", g) <=> r = "feature" /\ g = f
      BY <1>1, <1>6, <1>7, <2>3, PlaceIs DEF Recorders
    <3> QED
      BY <1>1, <1>4, <1>8, <2>3, <3>1, <3>2, Stepping
  <2>5. /\ r = "feature" /\ g = f =>
             Cardinality(WritersAt("feature", g)') = Cardinality(WritersAt("feature", g)) - 1
        /\ r = "alert_list" /\ g = f =>
             Cardinality(WritersAt("feature", g)') = Cardinality(WritersAt("feature", g)) + 1
        /\ r = "stopped" \/ g # f =>
             Cardinality(WritersAt("feature", g)') = Cardinality(WritersAt("feature", g))
    <3>1. at[t] = Step("feature", g) <=> r = "feature" /\ g = f
      BY <1>1, <1>6, <2>3, PlaceIs DEF Recorders
    <3>2. x = Step("feature", g) <=> r = "alert_list" /\ g = f
      BY <1>1, <1>6, <1>7, <2>3, PlaceIs DEF Recorders
    <3>3. r = "feature" \/ r = "alert_list" \/ r = "stopped"
      BY DEF Recorders
    <3>4. "feature" # "alert_list" /\ "feature" # "stopped" /\ "alert_list" # "stopped"
      OBVIOUS
    <3> QED
      BY <1>1, <1>4, <1>8, <2>3, <3>1, <3>2, <3>3, <3>4, Stepping
  <2>6. /\ r = "feature" /\ g = f =>
             Cardinality(Accepted("feature", g)') = Cardinality(Accepted("feature", g)) + 1
        /\ r # "feature" \/ g # f =>
             Cardinality(Accepted("feature", g)') = Cardinality(Accepted("feature", g))
        /\ r = "alert_list" /\ g = f =>
             Cardinality(Accepted("alert_list", g)') = Cardinality(Accepted("alert_list", g)) + 1
        /\ r # "alert_list" \/ g # f =>
             Cardinality(Accepted("alert_list", g)') = Cardinality(Accepted("alert_list", g))
    BY <1>9
  <2>7. r = "feature" \/ r = "alert_list" \/ r = "stopped"
    BY DEF Recorders
  <2>8. histogram'[g] + Cardinality(WritersAt("histogram", g)') = Cardinality(Accepted("feature", g)')
    BY <1>4, <1>11, <2>1, <2>4, <2>6
  <2>9. g \in AlertList =>
          Cardinality(Accepted("feature", g)') + Cardinality(WritersAt("feature", g)')
            <= Cardinality(Accepted("alert_list", g)')
    BY <1>11, <2>1, <2>5, <2>6, <2>7
  <2> QED
    BY <1>5, <2>2, <2>8, <2>9
<1>13. AtRest'
  BY <1>5 DEF AtRest
<1> QED
  BY <1>10, <1>12, <1>13 DEF CountsRight

(* write0() when the disk is full.                                         *)
LEMMA CountWrite0Fails ==
  ASSUME CountsRight, NEW t \in Writers, NEW r \in Recorders, Write0Fails(t, r)
  PROVE  CountsRight'
<1>1. CountTypes /\ CountInv /\ AtRest /\ r \in Steps /\ r # "histogram"
  BY DEF CountsRight, Recorders, Steps
<1>2. PICK f : f = at[t].feature
  OBVIOUS
<1>3. /\ at[t].step = r /\ at' = [at EXCEPT ![t] = Idle] /\ Running
      /\ UNCHANGED <<run, phase, histogram, report, writes, accepted>>
      /\ lines' = lines \/ NewLine(r, f)
  BY <1>2, Zenon DEF Write0Fails
<1>4. Active /\ phase # "ended" /\ Active' /\ phase' # "ended"
  BY <1>3, RunningIs DEF Active
<1>5. at[t] = Step(r, f) /\ f \in Features /\ at[t] # Idle /\ Idle \in Places
  <2>1. at[t] \in Places
    BY <1>1 DEF CountTypes
  <2>2. at[t] # Idle
    BY <1>1, <1>3, PlaceIs DEF Steps
  <2> QED
    BY <1>2, <1>3, <2>1, <2>2, PlaceIs
<1>6. /\ lines' \in Seq(LineType) /\ accepted' \subseteq 1..Len(lines')
      /\ \A w \in accepted : lines'[w] = lines[w]
  <2>1. lines \in Seq(LineType) /\ accepted \subseteq 1..Len(lines)
    BY <1>1 DEF CountTypes
  <2>2. CASE lines' = lines
    BY <1>3, <2>1, <2>2
  <2>3. CASE NewLine(r, f)
    <3>1. PICK l : l = [recorder |-> r, feature |-> f, run |-> run]
      OBVIOUS
    <3>2. l \in LineType
      BY <1>1, <1>5, <3>1 DEF LineType, CountTypes
    <3>3. lines' = Append(lines, l)
      BY <2>3, <3>1, Zenon DEF NewLine
    <3>4. PICK n \in Nat : n = Len(lines)
      BY <2>1
    <3>5. lines' \in Seq(LineType) /\ Len(lines') = n + 1 /\ \A w \in 1..n : lines'[w] = lines[w]
      BY <2>1, <3>2, <3>3, <3>4, AppendProperties
    <3>6. 1..n \subseteq 1..(n + 1)
      OBVIOUS
    <3>7. accepted \subseteq 1..n
      BY <2>1, <3>4
    <3> QED
      BY <1>3, <3>5, <3>6, <3>7
  <2> QED
    BY <1>3, <2>2, <2>3
<1>7. CountTypes'
  <2>1. at' \in [Writers -> Places]
    BY <1>1, <1>3, <1>5 DEF CountTypes
  <2> QED
    BY <1>1, <1>3, <1>6, <2>1 DEF CountTypes
<1>8. ASSUME NEW q, NEW g PROVE Accepted(q, g)' = Accepted(q, g)
  <2>1. PICK S : S = Accepted(q, g)
    OBVIOUS
  <2>2. PICK S2 : S2 = Accepted(q, g)'
    OBVIOUS
  <2>3. \A w : w \in S2 <=> w \in accepted' /\ lines'[w].recorder = q /\ lines'[w].feature = g
    BY <2>2, Zenon DEF Accepted
  <2>4. \A w : w \in S <=> w \in accepted /\ lines[w].recorder = q /\ lines[w].feature = g
    BY <2>1, Zenon DEF Accepted
  <2>5. \A w : w \in S2 <=> w \in S
    BY <1>3, <1>6, <2>3, <2>4
  <2> QED
    BY <2>1, <2>2, <2>5
<1>9. \A g \in Features : 
         /\ histogram[g] \in Nat /\ report[g] \in Nat
         /\ Cardinality(WritersWith(g)) \in Nat
         /\ \A s : Cardinality(WritersAt(s, g)) \in Nat
         /\ \A q : Cardinality(Accepted(q, g)) \in Nat
  BY <1>1, Numbers
<1>10. CountInv'
  <2> SUFFICES ASSUME NEW g \in Features
               PROVE  /\ histogram'[g] + Cardinality(WritersWith(g)') <= writes'
                      /\ phase' # "ended" =>
                           histogram'[g] + Cardinality(WritersAt("histogram", g)')
                             = Cardinality(Accepted("feature", g)')
                      /\ phase' = "ended" => report'[g] = Cardinality(Accepted("feature", g)')
                      /\ g \in AlertList =>
                           Cardinality(Accepted("feature", g)')
                             + Cardinality(WritersAt("feature", g)')
                             <= Cardinality(Accepted("alert_list", g)')
    BY DEF CountInv
  <2>1. /\ histogram[g] + Cardinality(WritersWith(g)) <= writes /\ writes \in Nat
        /\ histogram[g] + Cardinality(WritersAt("histogram", g)) = Cardinality(Accepted("feature", g))
        /\ g \in AlertList => Cardinality(Accepted("feature", g)) + Cardinality(WritersAt("feature", g))
                                <= Cardinality(Accepted("alert_list", g))
    BY <1>1, <1>4 DEF CountInv, CountTypes
  <2>2. histogram'[g] + Cardinality(WritersWith(g)') <= writes'
    <3>1. \/ Cardinality(WritersWith(g)') = Cardinality(WritersWith(g)) - 1
          \/ Cardinality(WritersWith(g)') = Cardinality(WritersWith(g))
      BY <1>1, <1>3, <1>5, Working
    <3> QED
      BY <1>3, <1>9, <2>1, <3>1
  <2>3. "histogram" \in Steps /\ "feature" \in Steps
    BY DEF Steps
  <2>4. WritersAt("histogram", g)' = WritersAt("histogram", g)
    <3>1. at[t] # Step("histogram", g) /\ Idle # Step("histogram", g)
      BY <1>1, <1>5, <2>3, PlaceIs
    <3> QED
      BY <1>1, <1>3, <1>5, <2>3, <3>1, Stepping
  <2>5. \/ Cardinality(WritersAt("feature", g)') = Cardinality(WritersAt("feature", g)) - 1
        \/ Cardinality(WritersAt("feature", g)') = Cardinality(WritersAt("feature", g))
    <3>1. Idle # Step("feature", g)
      BY <2>3, PlaceIs
    <3> QED
      BY <1>1, <1>3, <1>5, <2>3, <3>1, Stepping
  <2>6. g \in AlertList =>
          Cardinality(Accepted("feature", g)') + Cardinality(WritersAt("feature", g)')
            <= Cardinality(Accepted("alert_list", g)')
    BY <1>8, <1>9, <2>1, <2>5
  <2> QED
    BY <1>3, <1>4, <1>8, <2>1, <2>2, <2>4, <2>6
<1>11. AtRest'
  BY <1>4 DEF AtRest
<1> QED
  BY <1>7, <1>10, <1>11 DEF CountsRight

(* The histogram counts a feature.                                         *)
LEMMA CountCount ==
  ASSUME CountsRight, NEW t \in Writers, Count(t)
  PROVE  CountsRight'
<1>1. CountTypes /\ CountInv /\ AtRest /\ "histogram" \in Steps /\ "feature" \in Steps
  BY DEF CountsRight, Steps
<1>2. PICK f : f = at[t].feature
  OBVIOUS
<1>3. /\ at[t].step = "histogram" /\ at' = [at EXCEPT ![t] = Idle] /\ Running
      /\ histogram' = [histogram EXCEPT ![f] = @ + 1]
      /\ UNCHANGED <<run, phase, report, writes, lines, accepted>>
  BY <1>2, Zenon DEF Count, history
<1>4. Active /\ phase # "ended" /\ Active' /\ phase' # "ended"
  BY <1>3, RunningIs DEF Active
<1>5. /\ at[t] = Step("histogram", f) /\ f \in Features /\ at[t] # Idle /\ Idle \in Places
      /\ at[t].feature = f
  <2>1. at[t] \in Places
    BY <1>1 DEF CountTypes
  <2>2. at[t] # Idle
    BY <1>3, PlaceIs DEF Steps
  <2> QED
    BY <1>2, <1>3, <2>1, <2>2, PlaceIs
<1>6. /\ histogram'[f] = histogram[f] + 1
      /\ \A g \in Features : g # f => histogram'[g] = histogram[g]
      /\ histogram' \in [Features -> Nat]
  BY <1>1, <1>3, <1>5 DEF CountTypes
<1>7. CountTypes'
  <2>1. at' \in [Writers -> Places]
    BY <1>1, <1>3, <1>5 DEF CountTypes
  <2> QED
    BY <1>1, <1>3, <1>6, <2>1 DEF CountTypes
<1>8. \A r, g : Accepted(r, g)' = Accepted(r, g)
  BY <1>3 DEF Accepted
<1>9. \A g \in Features : 
         /\ histogram[g] \in Nat /\ report[g] \in Nat
         /\ Cardinality(WritersWith(g)) \in Nat
         /\ \A s : Cardinality(WritersAt(s, g)) \in Nat
         /\ \A q : Cardinality(Accepted(q, g)) \in Nat
  BY <1>1, Numbers
<1>10. CountInv'
  <2> SUFFICES ASSUME NEW g \in Features
               PROVE  /\ histogram'[g] + Cardinality(WritersWith(g)') <= writes'
                      /\ phase' # "ended" =>
                           histogram'[g] + Cardinality(WritersAt("histogram", g)')
                             = Cardinality(Accepted("feature", g)')
                      /\ phase' = "ended" => report'[g] = Cardinality(Accepted("feature", g)')
                      /\ g \in AlertList =>
                           Cardinality(Accepted("feature", g)')
                             + Cardinality(WritersAt("feature", g)')
                             <= Cardinality(Accepted("alert_list", g)')
    BY DEF CountInv
  <2>1. /\ histogram[g] + Cardinality(WritersWith(g)) <= writes /\ writes \in Nat
        /\ histogram[g] + Cardinality(WritersAt("histogram", g)) = Cardinality(Accepted("feature", g))
        /\ g \in AlertList => Cardinality(Accepted("feature", g)) + Cardinality(WritersAt("feature", g))
                                <= Cardinality(Accepted("alert_list", g))
    BY <1>1, <1>4 DEF CountInv, CountTypes
  <2>2. /\ g = f => Cardinality(WritersWith(g)') = Cardinality(WritersWith(g)) - 1
        /\ g # f => Cardinality(WritersWith(g)') = Cardinality(WritersWith(g))
    BY <1>1, <1>3, <1>5, Working
  <2>3. /\ g = f => Cardinality(WritersAt("histogram", g)')
                      = Cardinality(WritersAt("histogram", g)) - 1
        /\ g # f => Cardinality(WritersAt("histogram", g)')
                      = Cardinality(WritersAt("histogram", g))
    <3>1. Idle # Step("histogram", g) /\ (at[t] = Step("histogram", g) <=> g = f)
      BY <1>1, <1>5, PlaceIs
    <3> QED
      BY <1>1, <1>3, <1>5, <3>1, Stepping
  <2>4. WritersAt("feature", g)' = WritersAt("feature", g)
    <3>1. Idle # Step("feature", g) /\ at[t] # Step("feature", g)
      BY <1>1, <1>5, PlaceIs
    <3> QED
      BY <1>1, <1>3, <1>5, <3>1, Stepping
  <2>5. histogram'[g] + Cardinality(WritersWith(g)') <= writes'
    BY <1>3, <1>6, <1>9, <2>1, <2>2
  <2>6. histogram'[g] + Cardinality(WritersAt("histogram", g)') = Cardinality(Accepted("feature", g)')
    BY <1>6, <1>8, <1>9, <2>1, <2>3
  <2> QED
    BY <1>4, <1>8, <2>1, <2>4, <2>5, <2>6
<1>11. AtRest'
  BY <1>4 DEF AtRest
<1> QED
  BY <1>7, <1>10, <1>11 DEF CountsRight

(* A step that leaves the counts alone.                                    *)
LEMMA CountQuiet ==
  ASSUME CountsRight, UNCHANGED <<run, at, histogram, report, writes, lines, accepted>>,
         phase' \in Phases,
         phase' = phase \/ (phase # "ended" /\ phase' # "ended" /\ (~Active' => AllIdle))
  PROVE  CountsRight'
<1>1. CountTypes /\ CountInv /\ AtRest
  BY DEF CountsRight
<1>2. /\ \A r, g : Accepted(r, g)' = Accepted(r, g)
      /\ \A s, g : WritersAt(s, g)' = WritersAt(s, g)
      /\ \A g : WritersWith(g)' = WritersWith(g)
      /\ AllIdle' = AllIdle
  BY DEF Accepted, WritersAt, WritersWith, Where, AllIdle
<1>3. CountTypes'
  BY <1>1 DEF CountTypes
<1>4. CountInv'
  BY <1>1, <1>2 DEF CountInv
<1>5. AtRest'
  BY <1>1, <1>2 DEF AtRest, Active
<1> QED
  BY <1>3, <1>4, <1>5 DEF CountsRight

LEMMA NobodyWorks ==
  ASSUME AllIdle, NEW f \in Features
  PROVE  /\ \A s \in Steps : Cardinality(WritersAt(s, f)) = 0
         /\ Cardinality(WritersWith(f)) = 0
<1>1. \A t \in Writers : at[t] = Idle
  BY DEF AllIdle
<1>2. ASSUME NEW s \in Steps PROVE WritersAt(s, f) = {}
  <2>1. Idle # Step(s, f)
    BY PlaceIs
  <2> QED
    BY <1>1, <2>1 DEF WritersAt, Where
<1>3. WritersWith(f) = {}
  <2>1. \A s \in Steps : Idle # Step(s, f)
    BY PlaceIs
  <2> QED
    BY <1>1, <2>1 DEF WritersWith, Where
<1> QED
  BY <1>2, <1>3, FS_EmptySet

(* The histogram is written.                                               *)
LEMMA CountHistograms ==
  ASSUME CountsRight, Histograms
  PROVE  CountsRight'
<1>1. CountTypes /\ CountInv /\ AtRest
  BY DEF CountsRight
<1>2. /\ phase = "flushed" /\ phase' = "ended" /\ report' = histogram /\ histogram' = Nothing
      /\ UNCHANGED <<run, at, writes, lines, accepted>>
  BY DEF Histograms, history
<1>3. AllIdle /\ AllIdle' /\ phase # "ended"
  BY <1>1, <1>2 DEF AtRest, Active, AllIdle
<1>4. /\ \A r, g : Accepted(r, g)' = Accepted(r, g)
      /\ \A s, g : WritersAt(s, g)' = WritersAt(s, g)
      /\ \A g : WritersWith(g)' = WritersWith(g)
  BY <1>2 DEF Accepted, WritersAt, WritersWith, Where
<1>5. histogram' \in [Features -> Nat] /\ \A g \in Features : histogram'[g] = 0
  BY <1>2 DEF Nothing
<1>6. CountTypes'
  <2>1. phase' \in Phases
    BY <1>2, Zenon DEF Phases
  <2> QED
    BY <1>1, <1>2, <1>5, <2>1 DEF CountTypes
<1>7. \A g \in Features : 
         /\ histogram[g] \in Nat /\ report[g] \in Nat
         /\ Cardinality(WritersWith(g)) \in Nat
         /\ \A s : Cardinality(WritersAt(s, g)) \in Nat
         /\ \A q : Cardinality(Accepted(q, g)) \in Nat
  BY <1>1, Numbers
<1>8. CountInv'
  <2> SUFFICES ASSUME NEW g \in Features
               PROVE  /\ histogram'[g] + Cardinality(WritersWith(g)') <= writes'
                      /\ report'[g] = Cardinality(Accepted("feature", g)')
                      /\ g \in AlertList =>
                           Cardinality(Accepted("feature", g)')
                             + Cardinality(WritersAt("feature", g)')
                             <= Cardinality(Accepted("alert_list", g)')
    BY <1>2 DEF CountInv
  <2>1. /\ histogram[g] + Cardinality(WritersWith(g)) <= writes /\ writes \in Nat
        /\ histogram[g] + Cardinality(WritersAt("histogram", g)) = Cardinality(Accepted("feature", g))
        /\ g \in AlertList => Cardinality(Accepted("feature", g)) + Cardinality(WritersAt("feature", g))
                                <= Cardinality(Accepted("alert_list", g))
    BY <1>1, <1>3 DEF CountInv, CountTypes
  <2>2. Cardinality(WritersAt("histogram", g)) = 0 /\ Cardinality(WritersWith(g)) = 0
    <3>1. "histogram" \in Steps
      BY DEF Steps
    <3> QED
      BY <1>3, <3>1, NobodyWorks
  <2>3. histogram'[g] + Cardinality(WritersWith(g)') <= writes'
    BY <1>2, <1>4, <1>5, <1>7, <2>1, <2>2
  <2>4. report'[g] = Cardinality(Accepted("feature", g)')
    BY <1>2, <1>4, <1>7, <2>1, <2>2
  <2> QED
    BY <1>4, <2>1, <2>3, <2>4
<1>9. AtRest'
  BY <1>3 DEF AtRest
<1> QED
  BY <1>6, <1>8, <1>9 DEF CountsRight

(* A run that begins has counted nothing yet.                              *)
Fresh == /\ accepted = {} /\ histogram = Nothing /\ AllIdle
         /\ writes \in Nat /\ phase = "scan"

LEMMA CountNothing == Fresh => CountInv /\ AtRest
<1> SUFFICES ASSUME Fresh PROVE CountInv /\ AtRest
  OBVIOUS
<1> USE DEF Fresh
<1>1. ASSUME NEW g \in Features
      PROVE  /\ histogram[g] = 0
             /\ Cardinality(WritersWith(g)) = 0
             /\ Cardinality(WritersAt("histogram", g)) = 0
             /\ Cardinality(WritersAt("feature", g)) = 0
             /\ Cardinality(Accepted("feature", g)) = 0
             /\ Cardinality(Accepted("alert_list", g)) = 0
  <2>1. "histogram" \in Steps /\ "feature" \in Steps
    BY DEF Steps
  <2>2. Accepted("feature", g) = {} /\ Accepted("alert_list", g) = {}
    BY DEF Accepted
  <2>3. histogram[g] = 0
    BY DEF Nothing
  <2> QED
    BY <2>1, <2>2, <2>3, NobodyWorks, FS_EmptySet
<1>2. CountInv
  BY <1>1 DEF CountInv
<1> QED
  BY <1>2 DEF AtRest

LEMMA CountRestart ==
  ASSUME CountsRight, Restart
  PROVE  CountsRight'
<1>1. CountTypes
  BY DEF CountsRight
<1>2. /\ run < MaxRuns /\ run' = run + 1 /\ phase' = "scan" /\ at' = [t \in Writers |-> Idle]
      /\ histogram' = Nothing /\ accepted' = {}
      /\ UNCHANGED <<report, writes, lines>>
  BY DEF Restart
<1>3. run' \in 1..MaxRuns
  BY <1>1, <1>2, BoundsAssumption DEF CountTypes
<1>4. phase' \in Phases
  BY <1>2, Zenon DEF Phases
<1>5. at' \in [Writers -> Places] /\ AllIdle'
  BY <1>2, PlaceIs DEF AllIdle
<1>6. CountTypes'
  <2>1. histogram' \in [Features -> Nat]
    BY <1>2 DEF Nothing
  <2> QED
    BY <1>1, <1>2, <1>3, <1>4, <1>5, <2>1 DEF CountTypes
<1>7. writes' \in Nat
  BY <1>1, <1>2 DEF CountTypes
<1>8. CountInv' /\ AtRest'
  <2>1. Fresh'
    BY <1>2, <1>5, <1>7 DEF Fresh
  <2> QED
    BY <2>1, CountNothing, PTL
<1> QED
  BY <1>6, <1>8 DEF CountsRight

LEMMA CountInit ==
  ASSUME Init
  PROVE  CountsRight
<1>1. /\ run = 1 /\ phase = "scan" /\ at = [t \in Writers |-> Idle] /\ histogram = Nothing
      /\ report = Nothing /\ writes = 0 /\ lines = <<>> /\ accepted = {}
  BY DEF Init
<1>2. phase \in Phases
  BY <1>1, Zenon DEF Phases
<1>3. at \in [Writers -> Places] /\ AllIdle
  BY <1>1, PlaceIs DEF AllIdle
<1>4. CountTypes
  <2>1. histogram \in [Features -> Nat] /\ report \in [Features -> Nat]
    BY <1>1 DEF Nothing
  <2>2. run \in 1..MaxRuns /\ writes \in 0..MaxWrites
    BY <1>1, BoundsAssumption
  <2>3. lines \in Seq(LineType) /\ accepted \subseteq 1..Len(lines)
    BY <1>1
  <2> QED
    BY <1>2, <1>3, <2>1, <2>2, <2>3 DEF CountTypes
<1>5. CountInv /\ AtRest
  BY <1>1, <1>3, CountNothing DEF Fresh
<1> QED
  BY <1>4, <1>5 DEF CountsRight

LEMMA CountNext ==
  ASSUME CountsRight, [Next]_vars
  PROVE  CountsRight'
<1>1. CountTypes /\ AtRest
  BY DEF CountsRight
<1>2. ASSUME NEW t \in Writers, NEW f \in Features, Write(t, f) PROVE CountsRight'
  BY <1>2, CountWrite
<1>3. ASSUME NEW t \in Writers, NEW r \in Recorders, Write0(t, r) PROVE CountsRight'
  BY <1>3, CountWrite0
<1>4. ASSUME NEW t \in Writers, NEW r \in Recorders, Write0Fails(t, r) PROVE CountsRight'
  BY <1>4, CountWrite0Fails
<1>5. ASSUME NEW t \in Writers, Count(t) PROVE CountsRight'
  BY <1>5, CountCount
<1>6. CASE Shutdown
  <2>1. /\ phase = "scan" /\ phase' = "flushed" /\ AllIdle
        /\ UNCHANGED <<run, at, histogram, report, writes, lines, accepted>>
    BY <1>6, Zenon DEF Shutdown, history
  <2>2. phase' \in Phases
    BY <2>1, Zenon DEF Phases
  <2> QED
    BY <2>1, <2>2, CountQuiet
<1>7. CASE Histograms
  BY <1>7, CountHistograms
<1>8. CASE GiveUp \/ Close \/ Crash
  <2>1. UNCHANGED <<run, at, histogram, report, writes, lines, accepted>>
    BY <1>8, Zenon DEF GiveUp, Close, Crash, history
  <2>2. phase' \in Phases /\ phase # "ended" /\ phase' # "ended" /\ Active'
    BY <1>8, Zenon DEF GiveUp, Close, Crash, Phases, Active
  <2> QED
    BY <2>1, <2>2, CountQuiet
<1>9. CASE Restart
  BY <1>9, CountRestart
<1>10. CASE UNCHANGED vars
  <2>1. UNCHANGED <<run, at, histogram, report, writes, lines, accepted, phase>>
    BY <1>10, Zenon DEF vars, history
  <2> QED
    BY <1>1, <2>1, CountQuiet DEF CountTypes
<1> QED
  BY <1>2, <1>3, <1>4, <1>5, <1>6, <1>7, <1>8, <1>9, <1>10, Zenon DEF Next

-----------------------------------------------------------------------------
(* The files of every reachable state.                                     *)

(* Every line of this run is in its file or still in the stream, and after *)
(* the files were flushed no stream that works holds anything.             *)
SavedInv == \A w \in accepted : Has(Content(lines[w].recorder), w, lines[w].feature)
Settled == ~Active => \A r \in Recorders : fail[r] \/ buffer[r] = <<>>
FilesRight == StreamTypes /\ FileInv /\ SavedInv /\ Settled

LEMMA LineRecorder ==
  ASSUME CountTypes, NEW w \in accepted
  PROVE  w \in 1..Len(lines) /\ lines[w].recorder \in Recorders /\ lines[w].feature \in Features
<1>1. lines \in Seq(LineType) /\ w \in 1..Len(lines)
  BY DEF CountTypes
<1>2. lines[w] \in LineType
  BY <1>1
<1> QED
  BY <1>1, <1>2 DEF LineType

(* What was saved stays saved.                                             *)
LEMMA SavedStays ==
  ASSUME CountTypes, SavedInv, Retained, NEW w \in accepted, lines'[w] = lines[w]
  PROVE  Has(Content(lines[w].recorder)', w, lines'[w].feature)
<1>1. PICK r : r = lines[w].recorder
  OBVIOUS
<1>2. PICK f : f = lines[w].feature
  OBVIOUS
<1>3. r \in Recorders
  BY <1>1, LineRecorder
<1>4. Has(Content(r), w, f)
  BY <1>1, <1>2 DEF SavedInv
<1>5. Has(Content(r)', w, f)
  BY <1>3, <1>4 DEF Retained
<1>6. lines'[w].recorder = r /\ lines'[w].feature = f
  BY <1>1, <1>2
<1>7. Content(lines[w].recorder)' = Content(r)'
  BY <1>6 DEF Content
<1> QED
  BY <1>5, <1>6, <1>7

(* A step that leaves the streams alone.                                   *)
LEMMA FilesQuiet ==
  ASSUME CountTypes, FilesRight, UNCHANGED <<disk, buffer, put, fail, lines, accepted>>,
         run' \in Nat, Active' \/ ~Active
  PROVE  FilesRight' /\ Preserved
<1>1. StreamTypes /\ FileInv /\ SavedInv /\ Settled
  BY DEF FilesRight
<1>2. FileInv' /\ Preserved /\ Retained
  BY <1>1, Untouched
<1>3. StreamTypes'
  BY <1>1 DEF StreamTypes
<1>4. SavedInv'
  BY <1>1, <1>2, SavedStays DEF SavedInv
<1>5. Settled'
  BY <1>1 DEF Settled
<1> QED
  BY <1>2, <1>3, <1>4, <1>5 DEF FilesRight

(* write0().                                                               *)
LEMMA FilesWrite0 ==
  ASSUME CountTypes, FilesRight, NEW t \in Writers, NEW r \in Recorders, Write0(t, r)
  PROVE  FilesRight' /\ Preserved
<1>1. StreamTypes /\ FileInv /\ SavedInv /\ Settled
  BY DEF FilesRight
<1>2. PICK f : f = at[t].feature
  OBVIOUS
<1>3. /\ at[t].step = r /\ Running
      /\ \E k \in 0..Len(Pending(r, f)) : Drain(r, Pending(r, f), k)
      /\ NewLine(r, f) /\ accepted' = accepted \union {Len(lines) + 1}
      /\ UNCHANGED <<run, phase, fail>>
  BY <1>2, Zenon DEF Write0
<1>4. f \in Features
  <2>1. at[t] \in Places
    BY DEF CountTypes
  <2>2. at[t] # Idle
    BY <1>3, PlaceIs DEF Recorders
  <2> QED
    BY <1>2, <2>1, <2>2, PlaceIs
<1>5. PICK k \in 0..Len(Pending(r, f)) : Drain(r, Pending(r, f), k)
  BY <1>3
<1>6. /\ FileInv' /\ Preserved /\ Retained
      /\ disk' \in [Recorders -> Seq(Int)] /\ buffer' \in [Recorders -> Seq(Int)]
      /\ put' \in [Recorders -> Nat] /\ lines' \in Seq(LineType)
      /\ Len(lines) \in Nat /\ Len(lines') = Len(lines) + 1
      /\ lines'[Len(lines) + 1] = [recorder |-> r, feature |-> f, run |-> run]
      /\ \A w \in 1..Len(lines) : lines'[w] = lines[w]
      /\ Has(Content(r)', Len(lines) + 1, f)
  BY <1>1, <1>3, <1>4, <1>5, SendFiles
<1>7. StreamTypes'
  BY <1>1, <1>3, <1>6 DEF StreamTypes
<1>8. SavedInv'
  <2> SUFFICES ASSUME NEW w \in accepted'
               PROVE  Has(Content(lines[w].recorder)', w, lines'[w].feature)
    BY DEF SavedInv
  <2>1. CASE w \in accepted
    <3>1. w \in 1..Len(lines)
      BY <2>1, LineRecorder
    <3>2. lines'[w] = lines[w]
      BY <1>6, <3>1
    <3> QED
      BY <1>1, <1>6, <2>1, <3>2, SavedStays
  <2>2. CASE w = Len(lines) + 1
    <3>1. lines'[w].recorder = r /\ lines'[w].feature = f
      BY <1>6, <2>2
    <3>2. Content(lines[w].recorder)' = Content(r)'
      BY <3>1 DEF Content
    <3> QED
      BY <1>6, <2>2, <3>1, <3>2
  <2> QED
    BY <1>3, <2>1, <2>2
<1>9. Settled'
  BY <1>3, RunningIs DEF Settled, Active
<1> QED
  BY <1>6, <1>7, <1>8, <1>9 DEF FilesRight

(* write0() when the disk is full.                                         *)
LEMMA FilesWrite0Fails ==
  ASSUME CountTypes, FilesRight, NEW t \in Writers, NEW r \in Recorders, Write0Fails(t, r)
  PROVE  FilesRight' /\ Preserved
<1>1. StreamTypes /\ FileInv /\ SavedInv /\ Settled
  BY DEF FilesRight
<1>2. PICK f : f = at[t].feature
  OBVIOUS
<1>3. /\ at[t].step = r /\ Running /\ UNCHANGED <<run, phase, accepted>>
      /\ \/ UNCHANGED <<disk, buffer, put, fail, lines>>
         \/ /\ \E k \in 0..(Len(Pending(r, f)) - 1) : Drain(r, Pending(r, f), k)
            /\ fail' = [fail EXCEPT ![r] = TRUE]
            /\ NewLine(r, f)
  BY <1>2, Zenon DEF Write0Fails, streams
<1>4. f \in Features
  <2>1. at[t] \in Places
    BY DEF CountTypes
  <2>2. at[t] # Idle
    BY <1>3, PlaceIs DEF Recorders
  <2> QED
    BY <1>2, <2>1, <2>2, PlaceIs
<1>5. Active /\ Active'
  BY <1>3, RunningIs DEF Active
<1>6. CASE UNCHANGED <<disk, buffer, put, fail, lines>>
  <2>1. run' \in Nat
    BY <1>1, <1>3 DEF StreamTypes
  <2> QED
    BY <1>3, <1>5, <1>6, <2>1, FilesQuiet
<1>7. CASE /\ \E k \in 0..(Len(Pending(r, f)) - 1) : Drain(r, Pending(r, f), k)
           /\ fail' = [fail EXCEPT ![r] = TRUE]
           /\ NewLine(r, f)
  <2>1. PICK k \in 0..(Len(Pending(r, f)) - 1) : Drain(r, Pending(r, f), k)
    BY <1>7
  <2>2. k \in 0..Len(Pending(r, f))
    <3>1. Len(Pending(r, f)) \in Nat
      <4>1. PICK file, p, b : file = disk[r] /\ p = put[r] /\ b = buffer[r]
        OBVIOUS
      <4>2. FileRight(file, p, b, lines, r) /\ lines \in Seq(LineType)
        BY <1>1, <4>1 DEF FileInv, StreamTypes
      <4>3. PICK l : l = [recorder |-> r, feature |-> f, run |-> run]
        OBVIOUS
      <4>4. l \in LineType /\ l.recorder = r /\ l.feature = f
        BY <1>1, <1>4, <4>3 DEF LineType, StreamTypes
      <4>5. Sent(p, b, Len(lines) + 1, l.feature) \in Seq(Int)
        BY <4>2, <4>4, SentRight
      <4>6. Pending(r, f) = Sent(p, b, Len(lines) + 1, l.feature)
        BY <4>1, <4>4, Zenon DEF Pending, Sent
      <4> QED
        BY <4>5, <4>6
    <3> QED
      BY <3>1
  <2>3. /\ FileInv' /\ Preserved /\ Retained
        /\ disk' \in [Recorders -> Seq(Int)] /\ buffer' \in [Recorders -> Seq(Int)]
        /\ put' \in [Recorders -> Nat] /\ lines' \in Seq(LineType)
        /\ Len(lines) \in Nat /\ Len(lines') = Len(lines) + 1
        /\ lines'[Len(lines) + 1] = [recorder |-> r, feature |-> f, run |-> run]
        /\ \A w \in 1..Len(lines) : lines'[w] = lines[w]
        /\ Has(Content(r)', Len(lines) + 1, f)
    BY <1>1, <1>4, <1>7, <2>1, <2>2, SendFiles
  <2>4. StreamTypes'
    BY <1>1, <1>3, <1>7, <2>3 DEF StreamTypes
  <2>5. SavedInv'
    <3> SUFFICES ASSUME NEW w \in accepted'
                 PROVE  Has(Content(lines[w].recorder)', w, lines'[w].feature)
      BY DEF SavedInv
    <3>1. w \in accepted /\ w \in 1..Len(lines)
      BY <1>3, LineRecorder
    <3>2. lines'[w] = lines[w]
      BY <2>3, <3>1
    <3> QED
      BY <1>1, <2>3, <3>1, <3>2, SavedStays
  <2>6. Settled'
    BY <1>5 DEF Settled
  <2> QED
    BY <2>3, <2>4, <2>5, <2>6 DEF FilesRight
<1> QED
  BY <1>3, <1>6, <1>7

(* The streams are flushed.                                                *)
LEMMA FilesFlush ==
  ASSUME CountTypes, FilesRight, FlushAll, UNCHANGED <<run, lines, accepted>>
  PROVE  FilesRight' /\ Preserved
<1>1. StreamTypes /\ FileInv /\ SavedInv /\ Settled
  BY DEF FilesRight
<1>2. /\ FileInv' /\ Preserved /\ Retained /\ StreamTypes'
      /\ \A r \in Recorders : fail'[r] \/ buffer'[r] = <<>>
  BY <1>1, FlushFiles
<1>3. SavedInv'
  BY <1>1, <1>2, SavedStays DEF SavedInv
<1>4. Settled'
  BY <1>2 DEF Settled
<1> QED
  BY <1>2, <1>3, <1>4 DEF FilesRight

(* The next run opens the files again.                                     *)
LEMMA FilesRestart ==
  ASSUME CountTypes, FilesRight, FilesFit, Restart
  PROVE  FilesRight' /\ Preserved
<1>1. StreamTypes /\ FileInv /\ SavedInv /\ Settled
  BY DEF FilesRight
<1>2. FileInv' /\ Preserved
  BY <1>1, ReopenFiles
<1>3. /\ disk' = disk /\ lines' = lines /\ run' = run + 1 /\ accepted' = {} /\ phase' = "scan"
      /\ put' = [r \in Recorders |-> Reopened(disk[r])]
      /\ buffer' = [r \in Recorders |-> <<>>]
      /\ fail' = [r \in Recorders |-> FALSE]
  BY DEF Restart
<1>4. StreamTypes'
  <2>1. \A r \in Recorders : put'[r] \in Nat
    <3>1. \A r \in Recorders : FileRight(disk'[r], put'[r], buffer'[r], lines', r)
      BY <1>2 DEF FileInv
    <3>2. \A r \in Recorders : put'[r] \in 0..Len(disk'[r])
      BY <3>1 DEF FileRight
    <3> QED
      BY <3>2
  <2>2. put' \in [Recorders -> Nat]
    BY <1>3, <2>1
  <2>3. disk' \in [Recorders -> Seq(Int)] /\ lines' \in Seq(LineType) /\ run' \in Nat
    BY <1>1, <1>3 DEF StreamTypes
  <2>4. buffer' \in [Recorders -> Seq(Int)] /\ fail' \in [Recorders -> BOOLEAN]
    BY <1>3
  <2> QED
    BY <2>2, <2>3, <2>4 DEF StreamTypes
<1>5. SavedInv'
  BY <1>3 DEF SavedInv
<1>6. Settled'
  BY <1>3 DEF Settled, Active
<1> QED
  BY <1>2, <1>4, <1>5, <1>6 DEF FilesRight

LEMMA FilesInit ==
  ASSUME Init
  PROVE  FilesRight
<1>1. /\ run = 1 /\ phase = "scan" /\ lines = <<>> /\ accepted = {}
      /\ disk = [r \in Recorders |-> <<>>] /\ buffer = [r \in Recorders |-> <<>>]
      /\ put = [r \in Recorders |-> 0] /\ fail = [r \in Recorders |-> FALSE]
  BY DEF Init
<1>2. StreamTypes
  BY <1>1 DEF StreamTypes
<1>3. PICK e : e = <<>>
  OBVIOUS
<1>4. e \in Seq(Int) /\ Len(e) = 0 /\ 1..Len(e) = {}
  BY <1>3
<1>5. lines \in Seq(LineType)
  BY <1>1
<1>6. ASSUME NEW r \in Recorders PROVE FileRight(disk[r], put[r], buffer[r], lines, r)
  <2>1. disk[r] = e /\ put[r] = 0 /\ buffer[r] = e
    BY <1>1, <1>3
  <2>2. Streamed(e, 0, e) = <<>>
    BY <1>3 DEF Streamed
  <2>3. Formatted(Streamed(e, 0, e), lines, r)
    BY <1>5, <2>2, EmptyRight
  <2>4. FileRight(e, 0, e, lines, r)
    BY <1>4, <2>3 DEF FileRight
  <2> QED
    BY <2>1, <2>4
<1>7. FileInv
  BY <1>6 DEF FileInv
<1>8. SavedInv /\ Settled
  BY <1>1 DEF SavedInv, Settled, Active
<1> QED
  BY <1>2, <1>7, <1>8 DEF FilesRight

LEMMA FilesNext ==
  ASSUME CountTypes, FilesRight, FilesFit, [Next]_vars
  PROVE  FilesRight' /\ Preserved
<1>1. run \in Nat
  BY DEF CountTypes
<1>2. ASSUME NEW t \in Writers, NEW f \in Features, Write(t, f) PROVE FilesRight' /\ Preserved
  <2>1. UNCHANGED <<disk, buffer, put, fail, lines, accepted, run, phase>>
    BY <1>2, Zenon DEF Write, streams, history
  <2>2. Active' \/ ~Active
    BY <2>1 DEF Active
  <2> QED
    BY <1>1, <2>1, <2>2, FilesQuiet
<1>3. ASSUME NEW t \in Writers, NEW r \in Recorders, Write0(t, r) PROVE FilesRight' /\ Preserved
  BY <1>3, FilesWrite0
<1>4. ASSUME NEW t \in Writers, NEW r \in Recorders, Write0Fails(t, r)
      PROVE  FilesRight' /\ Preserved
  BY <1>4, FilesWrite0Fails
<1>5. ASSUME NEW t \in Writers, Count(t) PROVE FilesRight' /\ Preserved
  <2>1. UNCHANGED <<disk, buffer, put, fail, lines, accepted, run, phase>>
    BY <1>5, Zenon DEF Count, streams, history
  <2>2. Active' \/ ~Active
    BY <2>1 DEF Active
  <2> QED
    BY <1>1, <2>1, <2>2, FilesQuiet
<1>6. CASE Shutdown \/ Close
  <2>1. FlushAll /\ UNCHANGED <<run, lines, accepted>>
    BY <1>6, Zenon DEF Shutdown, Close, history
  <2> QED
    BY <2>1, FilesFlush
<1>7. CASE Histograms \/ GiveUp \/ Crash
  <2>1. UNCHANGED <<disk, buffer, put, fail, lines, accepted, run>>
    BY <1>7, Zenon DEF Histograms, GiveUp, Crash, streams, history
  <2>2. Active' \/ ~Active
    BY <1>7, Zenon DEF Histograms, GiveUp, Crash, Active
  <2> QED
    BY <1>1, <2>1, <2>2, FilesQuiet
<1>8. CASE Restart
  BY <1>8, FilesRestart
<1>9. CASE UNCHANGED vars
  <2>1. UNCHANGED <<disk, buffer, put, fail, lines, accepted, run, phase>>
    BY <1>9, Zenon DEF vars, streams, history
  <2>2. Active' \/ ~Active
    BY <2>1 DEF Active
  <2> QED
    BY <1>1, <2>1, <2>2, FilesQuiet
<1> QED
  BY <1>2, <1>3, <1>4, <1>5, <1>6, <1>7, <1>8, <1>9, Zenon DEF Next

-----------------------------------------------------------------------------
(* What that says of a file on the disk.                                   *)

(* The lines of a file are finitely many.                                  *)
LEMMA HoldsIs ==
  ASSUME NEW file \in Seq(Int), NEW w
  PROVE  /\ Holds(file, w) \in Nat
         /\ Holds(file, w) > 0 <=> \E e \in Ends(file) : LineAt(file, e) = Line(w, lines[w].feature)
         /\ (\A e, g \in Ends(file) : /\ LineAt(file, e) = Line(w, lines[w].feature)
                                      /\ LineAt(file, g) = Line(w, lines[w].feature)
                                      => e = g)
            => Holds(file, w) <= 1
<1>1. PICK S : S = {e \in Ends(file) : IsLineOf(file, e, w)}
  OBVIOUS
<1>2. \A e : e \in S <=> e \in Ends(file) /\ LineAt(file, e) = Line(w, lines[w].feature)
  BY <1>1, Zenon DEF IsLineOf, LineAt
<1>3. Holds(file, w) = Cardinality(S)
  BY <1>1, Zenon DEF Holds
<1>4. IsFiniteSet(S)
  <2>1. Len(file) \in Nat /\ DOMAIN file = 1..Len(file)
    OBVIOUS
  <2>2. S \subseteq 1..Len(file)
    BY <1>2, <2>1 DEF Ends
  <2>3. IsFiniteSet(1..Len(file))
    BY <2>1, FS_Interval
  <2> QED
    BY <2>2, <2>3, FS_Subset
<1>5. Cardinality(S) \in Nat /\ (Cardinality(S) = 0 <=> S = {})
  BY <1>4, FS_CardinalityType, FS_EmptySet
<1>6. Cardinality(S) > 0 <=> \E e : e \in S
  BY <1>5
<1>7. ASSUME \A e, g : e \in S /\ g \in S => e = g PROVE Cardinality(S) <= 1
  <2>1. CASE S = {}
    BY <1>5, <2>1
  <2>2. CASE S # {}
    <3>1. PICK e : e \in S
      BY <2>2
    <3>2. S = {e}
      BY <1>7, <3>1
    <3>3. Cardinality({e}) = 1
      BY FS_Singleton, Zenon
    <3> QED
      BY <3>2, <3>3
  <2> QED
    BY <2>1, <2>2
<1> QED
  BY <1>2, <1>3, <1>5, <1>6, <1>7

LEMMA FileIs ==
  ASSUME CountTypes, FilesRight, NEW r \in Recorders
  PROVE  /\ disk[r] \in Seq(Int) /\ put[r] \in 0..Len(disk[r]) /\ fail[r] \in BOOLEAN
         /\ \A i \in DOMAIN disk[r] : disk[r][i] \in -1..Len(lines)
         /\ Formatted(Content(r), lines, r)
         /\ \A e \in Ends(disk[r]) : /\ e \in 1..put[r] /\ e \in Ends(Content(r))
                                     /\ LineAt(disk[r], e) = LineAt(Content(r), e)
         /\ buffer[r] = <<>> => \A e \in Ends(Content(r)) :
                                  /\ e \in Ends(disk[r])
                                  /\ LineAt(disk[r], e) = LineAt(Content(r), e)
<1>1. PICK file, p, b : file = disk[r] /\ p = put[r] /\ b = buffer[r]
  OBVIOUS
<1>2. FileRight(file, p, b, lines, r) /\ lines \in Seq(LineType) /\ fail[r] \in BOOLEAN
  BY <1>1 DEF FilesRight, FileInv, StreamTypes
<1>3. PICK v : v = Streamed(file, p, b)
  OBVIOUS
<1>4. v = Content(r)
  BY <1>1, <1>3, Zenon DEF Content
<1>5. file \in Seq(Int) /\ p \in 0..Len(file) /\ Formatted(v, lines, r)
  BY <1>2, <1>3 DEF FileRight
<1>6. /\ \A e \in Ends(file) : e \in 1..p /\ e \in Ends(v) /\ LineAt(file, e) = LineAt(v, e)
      /\ \A i \in DOMAIN file : file[i] \in -1..Len(lines)
      /\ b = <<>> => \A e \in Ends(v) : e \in Ends(file) /\ LineAt(file, e) = LineAt(v, e)
  BY <1>2, <1>3, FileLines
<1> QED
  BY <1>1, <1>2, <1>4, <1>5, <1>6

(* No line is in a file twice.                                             *)
LEMMA AtMostOnce ==
  ASSUME CountTypes, FilesRight, NEW r \in Recorders, NEW w \in Written
  PROVE  Holds(disk[r], w) <= 1
<1>1. w \in 1..Len(lines)
  BY DEF CountTypes, Written
<1>2. PICK f : f = lines[w].feature
  OBVIOUS
<1>3. \A e, g \in Ends(Content(r)) :
        LineAt(Content(r), e) = Line(w, f) /\ LineAt(Content(r), g) = Line(w, f) => e = g
  BY <1>1, <1>2, FileIs DEF Formatted
<1>4. \A e, g \in Ends(disk[r]) :
        LineAt(disk[r], e) = Line(w, f) /\ LineAt(disk[r], g) = Line(w, f) => e = g
  BY <1>3, FileIs
<1> QED
  BY <1>2, <1>4, FileIs, HoldsIs

LEMMA WellFormed == CountsRight /\ FilesRight => FilesWellFormed
<1> SUFFICES ASSUME CountsRight, FilesRight PROVE FilesWellFormed
  OBVIOUS
<1>1. CountTypes /\ CountInv
  BY DEF CountsRight
<1>2. lines \in Seq(LineType) /\ Len(lines) \in Nat /\ Written = 1..Len(lines)
  BY <1>1 DEF CountTypes, Written
<1>3. histogram \in [Features -> 0..MaxWrites]
  <2>1. ASSUME NEW f \in Features PROVE histogram[f] \in 0..MaxWrites
    <3>1. /\ histogram[f] \in Nat /\ Cardinality(WritersWith(f)) \in Nat
          /\ histogram[f] + Cardinality(WritersWith(f)) <= writes
      BY <1>1, Numbers DEF CountInv
    <3>2. writes \in 0..MaxWrites /\ MaxWrites \in Nat
      BY <1>1, BoundsAssumption DEF CountTypes
    <3> QED
      BY <3>1, <3>2
  <2> QED
    BY <1>1, <2>1 DEF CountTypes
<1>4. TypeOK
  <2>1. phase \in {"scan", "flushed", "ended", "gave up", "halted"}
    BY <1>1, Zenon DEF CountTypes, Phases
  <2>2. \A r \in Recorders : /\ put[r] \in 0..Len(disk[r])
                             /\ fail[r] \in BOOLEAN
                             /\ \A i \in DOMAIN disk[r] : disk[r][i] \in -1..Len(lines)
    BY <1>1, FileIs
  <2>3. run \in 1..MaxRuns /\ writes \in 0..MaxWrites /\ accepted \subseteq 1..Len(lines)
    BY <1>1 DEF CountTypes
  <2> QED
    BY <1>3, <2>1, <2>2, <2>3, Zenon DEF TypeOK
<1>5. LinesWhole
  <2> SUFFICES ASSUME NEW r \in Recorders
               PROVE  /\ \A e \in Ends(disk[r]) :
                           \/ IsComment(disk[r], e)
                           \/ \E w \in Written : lines[w].recorder = r /\ IsLineOf(disk[r], e, w)
                      /\ \A w \in Written : Holds(disk[r], w) <= 1
    BY Zenon DEF LinesWhole
  <2>1. ASSUME NEW e \in Ends(disk[r])
        PROVE  \/ IsComment(disk[r], e)
               \/ \E w \in Written : lines[w].recorder = r /\ IsLineOf(disk[r], e, w)
    <3>1. e \in Ends(Content(r)) /\ LineAt(disk[r], e) = LineAt(Content(r), e)
      BY <1>1, FileIs
    <3>2. LineAt(Content(r), e) = CommentLine \/ \E w : Here(Content(r), lines, r, e, w)
      BY <1>1, <3>1, FileIs DEF Formatted
    <3>3. CASE LineAt(Content(r), e) = CommentLine
      BY <3>1, <3>3, Zenon DEF IsComment, LineAt, CommentLine
    <3>4. ASSUME NEW w, Here(Content(r), lines, r, e, w)
          PROVE  w \in Written /\ lines[w].recorder = r /\ IsLineOf(disk[r], e, w)
      <4>1. /\ w \in 1..Len(lines) /\ lines[w].recorder = r
            /\ LineAt(disk[r], e) = Line(w, lines[w].feature)
        BY <3>1, <3>4, Zenon DEF Here
      <4>2. IsLineOf(disk[r], e, w)
        BY <4>1, Zenon DEF IsLineOf, LineAt
      <4> QED
        BY <1>2, <4>1, <4>2
    <3> QED
      BY <3>2, <3>3, <3>4
  <2> QED
    BY <1>1, <2>1, AtMostOnce
<1>6. BannerFirst
  <2> SUFFICES ASSUME NEW r \in Recorders, NEW e \in Ends(disk[r]), NEW g \in Ends(disk[r]),
                      e < g, IsComment(disk[r], g)
               PROVE  IsComment(disk[r], e)
    BY Zenon DEF BannerFirst
  <2>1. LineAt(disk[r], g) = CommentLine
    BY Zenon DEF IsComment, LineAt, CommentLine
  <2>2. /\ e \in Ends(Content(r)) /\ LineAt(disk[r], e) = LineAt(Content(r), e)
        /\ g \in Ends(Content(r)) /\ LineAt(disk[r], g) = LineAt(Content(r), g)
        /\ Formatted(Content(r), lines, r)
    BY <1>1, FileIs
  <2>3. LineAt(disk[r], e) = CommentLine
    BY <2>1, <2>2 DEF Formatted
  <2> QED
    BY <2>3, Zenon DEF IsComment, LineAt, CommentLine
<1> QED
  BY <1>4, <1>5, <1>6, Zenon DEF FilesWellFormed

LEMMA Exact == CountsRight => HistogramExact /\ AlertedFirst
<1> SUFFICES ASSUME CountsRight PROVE HistogramExact /\ AlertedFirst
  OBVIOUS
<1>1. CountTypes /\ CountInv
  BY DEF CountsRight
<1>2. HistogramExact
  BY <1>1, Zenon DEF HistogramExact, CountInv, Accepted
<1>3. ASSUME NEW f \in AlertList
      PROVE  Cardinality(Accepted("feature", f)) <= Cardinality(Accepted("alert_list", f))
  <2>1. f \in Features
    BY FeaturesAssumption
  <2>2. /\ Cardinality(Accepted("feature", f)) \in Nat
        /\ Cardinality(Accepted("alert_list", f)) \in Nat
        /\ Cardinality(WritersAt("feature", f)) \in Nat
        /\ Cardinality(Accepted("feature", f)) + Cardinality(WritersAt("feature", f))
             <= Cardinality(Accepted("alert_list", f))
    BY <1>1, <2>1, Numbers DEF CountInv
  <2> QED
    BY <2>2
<1>4. AlertedFirst
  BY <1>3, Zenon DEF AlertedFirst, Accepted
<1> QED
  BY <1>2, <1>4

LEMMA Saved == CountsRight /\ FilesRight => SavedAtEnd
<1> SUFFICES ASSUME CountsRight, FilesRight, phase \in {"flushed", "ended"}, NEW w \in accepted
             PROVE  fail[lines[w].recorder] \/ Holds(disk[lines[w].recorder], w) = 1
  BY Zenon DEF SavedAtEnd
<1>1. CountTypes /\ SavedInv /\ Settled
  BY DEF CountsRight, FilesRight
<1>2. PICK r : r = lines[w].recorder
  OBVIOUS
<1>3. r \in Recorders /\ w \in 1..Len(lines) /\ w \in Written
  BY <1>1, <1>2, LineRecorder DEF Written, CountTypes
<1>4. fail[r] \/ buffer[r] = <<>>
  BY <1>1, <1>3 DEF Settled, Active
<1>5. CASE buffer[r] = <<>>
  <2>1. PICK e \in Ends(Content(r)) : LineAt(Content(r), e) = Line(w, lines[w].feature)
    BY <1>1, <1>2, Zenon DEF SavedInv, Has
  <2>2. e \in Ends(disk[r]) /\ LineAt(disk[r], e) = Line(w, lines[w].feature)
    BY <1>1, <1>3, <1>5, <2>1, FileIs
  <2>3. Holds(disk[r], w) > 0 /\ Holds(disk[r], w) \in Nat
    <3>1. disk[r] \in Seq(Int)
      BY <1>1, <1>3, FileIs
    <3> QED
      BY <2>2, <3>1, HoldsIs
  <2>4. Holds(disk[r], w) <= 1
    BY <1>1, <1>3, AtMostOnce
  <2> QED
    BY <1>2, <2>3, <2>4
<1> QED
  BY <1>2, <1>4, <1>5

(* A step loses no line that is on the disk.                               *)
LEMMA KeptLines ==
  ASSUME CountTypes, FilesRight, FilesRight', Preserved
  PROVE  \A r \in Recorders, w \in Written :
           Holds(disk[r], w) > 0 => Holds(disk'[r], w) > 0
<1> SUFFICES ASSUME NEW r \in Recorders, NEW w \in Written, Holds(disk[r], w) > 0
             PROVE  Holds(disk'[r], w) > 0
  OBVIOUS
<1>1. PICK file : file = disk[r]
  OBVIOUS
<1>2. PICK file2 : file2 = disk'[r]
  OBVIOUS
<1>3. file \in Seq(Int) /\ put[r] \in Nat /\ SameUpTo(file, file2, put[r])
  <2>1. file \in Seq(Int)
    BY <1>1, FileIs
  <2>2. put[r] \in Nat
    BY DEF FilesRight, StreamTypes
  <2> QED
    BY <1>1, <1>2, <2>1, <2>2 DEF Preserved
<1>4. file2 \in Seq(Int)
  BY <1>2 DEF FilesRight, StreamTypes
<1>5. PICK e \in Ends(file) : LineAt(file, e) = Line(w, lines[w].feature)
  BY <1>1, <1>3, HoldsIs
<1>6. e \in 1..put[r]
  BY <1>1, <1>5, FileIs
<1>7. e \in Ends(file2) /\ LineAt(file2, e) = Line(w, lines[w].feature)
  BY <1>3, <1>4, <1>5, <1>6, LinesSame
<1>8. Holds(file2, w) > 0
  BY <1>4, <1>7, HoldsIs
<1> QED
  BY <1>2, <1>8

-----------------------------------------------------------------------------
(* Theorems.                                                               *)

(* The counts are right in every reachable state, whatever the files do.   *)
THEOREM CountsHold == Spec => []CountsRight
<1>1. Init => CountsRight
  BY CountInit
<1>2. CountsRight /\ [Next]_vars => CountsRight'
  BY CountNext
<1> QED
  BY <1>1, <1>2, PTL DEF Spec

(* The histogram of a run that ends in order counts exactly the lines the  *)
(* run sent to the feature file, and no feature of the alert list is       *)
(* recorded before its alert (feature_recorder.cpp:174-196): for any       *)
(* number of writers, whatever the disk does.                              *)
THEOREM HistogramExactHolds == Spec => [](HistogramExact /\ AlertedFirst)
<1>1. CountsRight => HistogramExact /\ AlertedFirst
  BY Exact
<1> QED
  BY <1>1, CountsHold, PTL

(* The files are right in every reachable state as long as no file is      *)
(* longer than an int can tell.                                            *)
THEOREM FilesHold == Spec /\ []FilesFit => []FilesRight
<1>1. Init => FilesRight
  BY FilesInit
<1>2. CountsRight /\ FilesRight /\ FilesFit /\ [Next]_vars => FilesRight'
  BY FilesNext DEF CountsRight
<1> QED
  BY <1>1, <1>2, CountsHold, PTL DEF Spec

(* As long as no feature file is as long as an int can tell positions      *)
(* apart, every feature file is banner lines and then whole lines, none of *)
(* them twice, wherever runs crash or the disk is full                     *)
(* (feature_recorder_file.cpp:96-119, 205-216).                            *)
THEOREM FilesWellFormedHolds == Spec /\ []FilesFit => []FilesWellFormed
<1>1. CountsRight /\ FilesRight => FilesWellFormed
  BY WellFormed
<1> QED
  BY <1>1, CountsHold, FilesHold, PTL

(* With such files, the files and the histogram of a run tell the same,    *)
(* and an orderly end has every accepted line on the disk                  *)
(* (feature_recorder_file.cpp:172).                                        *)
THEOREM RecordsAgreeHolds == Spec /\ []FilesFit => []RecordsAgree
<1>1. CountsRight /\ FilesRight => RecordsAgree
  BY Exact, Saved DEF RecordsAgree
<1> QED
  BY <1>1, CountsHold, FilesHold, PTL

(* With such files, no step of any run, of a crash or of a run that opens  *)
(* the files again loses a line that is on the disk                        *)
(* (feature_recorder_file.cpp:101-119).                                    *)
THEOREM LinesKeptHolds == Spec /\ []FilesFit => LinesKept
<1> DEFINE Kept == \A r \in Recorders, w \in Written :
                     Holds(disk[r], w) > 0 => Holds(disk'[r], w) > 0
<1>1. CountsRight /\ FilesRight /\ FilesFit /\ [Next]_vars => Kept
  BY FilesNext, KeptLines DEF CountsRight
<1>2. CountsRight /\ FilesRight /\ FilesFit /\ [Next]_vars => [Kept]_vars
  BY <1>1
<1>3. Spec /\ []FilesFit => [][Kept]_vars
  <2> HIDE DEF Kept
  <2> QED
    BY <1>2, CountsHold, FilesHold, PTL DEF Spec
<1> QED
  BY <1>3 DEF LinesKept

=============================================================================
