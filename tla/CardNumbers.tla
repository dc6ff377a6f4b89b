---------------------------- MODULE CardNumbers ----------------------------
(***************************************************************************)
(* The filter for credit card numbers, scan_ccns2.cpp (valid_ccn): what    *)
(* the patterns of scan_accts.flex match is a candidate, and the filter    *)
(* accepts or rejects it by its digits and by the four characters before   *)
(* and behind it.  A candidate may be the misreading of a number: one      *)
(* digit is another, or two neighbours change places.                      *)
(*                                                                         *)
(* A character of a candidate is a digit or -1; one of a window is "dec",  *)
(* "hex" (a to f, A to F), "nul" or "other".                               *)
(***************************************************************************)
EXTENDS Integers, Sequences, FiniteSets, SequencesExt

CONSTANTS
  Numbers,        \* the numbers: sequences of digits
  WindowsBefore,  \* what may be before and behind them: sequences of four characters
  WindowsAfter

(* What the constants are.                                                 *)
ConstantsRight ==
  /\ \A n \in Numbers : n \in Seq(0..9)
  /\ \A w \in WindowsBefore \union WindowsAfter : w \in Seq({"dec", "hex", "nul", "other"}) /\ Len(w) = 4

VARIABLES
  number,
  grouped,        \* whether there are separators in it
  before, after,  \* the windows
  verdict,        \* "none", "accepted" or "rejected"
  original        \* history: what the number was before it was misread, or <<>>

vars == <<number, grouped, before, after, verdict, original>>

-----------------------------------------------------------------------------
(* The candidate: #### #### #### #### or #### ###### #####, with separators *)
(* or without, or 16 to 19 digits.                                         *)

Matches(n, inGroups) ==
  \/ Len(n) = 15 /\ n[1] = 3
  \/ Len(n) = 16 /\ n[1] \in {4, 5}
  \/ ~inGroups /\ Len(n) \in 16..19 /\ n[1] \in 3..6
Part(first, last) == SubSeq(number, first, last)
Separated ==
  IF Len(number) = 15 THEN Part(1, 4) \o <<-1>> \o Part(5, 10) \o <<-1>> \o Part(11, 15)
  ELSE Part(1, 4) \o <<-1>> \o Part(5, 8) \o <<-1>> \o Part(9, 12) \o <<-1>>
       \o Part(13, Len(number))
buf == IF grouped THEN Separated ELSE number

digits ==
  LET copied[n \in 0..Len(buf)] ==
        IF n = 0 THEN <<>>
        ELSE IF buf[n] # -1 THEN Append(copied[n - 1], buf[n]) ELSE copied[n - 1]
  IN copied[Len(buf)]
(* extract_digits_and_test looks at the first digit behind the last one,   *)
(* which is the terminator: any separator is one too many.                 *)
NondigitsRight == \A k \in DOMAIN buf : buf[k] # -1

-----------------------------------------------------------------------------
(* The tests.                                                              *)

Value(s) == FoldLeft(LAMBDA n, d : 10 * n + d, 0, s)
int4(offset) == Value(SubSeq(digits, offset + 1, offset + 4))
int6 == Value(SubSeq(digits, 1, 6))

doubled == [d \in 0..9 |-> <<0, 2, 4, 6, 8, 1, 3, 5, 7, 9>>[d + 1]]
(* The sum of the digits, every other one, from the end, as the table has  *)
(* it.                                                                     *)
Checksum(s, table) ==
  LET chk[n \in 0..Len(s)] ==
        IF n = 0 THEN 0
        ELSE chk[n - 1] + (IF (Len(s) - n) % 2 = 0 THEN s[n] ELSE table[s[n]])
  IN chk[Len(s)]
(* Mutant of ccv1_test: a digit that is doubled keeps its tens.            *)
ccv1_testPlain == Checksum(digits, [d \in 0..9 |-> 2 * d]) % 10 = 0
ccv1_test == Checksum(digits, doubled) % 10 = 0

Repeats(d) == Cardinality({k \in DOMAIN digits : digits[k] = d})
histogram_test ==
  /\ \A d \in 0..9 : Repeats(d) <= 7
  /\ Cardinality({d \in 0..9 : Repeats(d) > 4}) < 2

(* The difference of the second block to the first is that of the third to *)
(* the fourth.  If there are only one to three digits left for the fourth, *)
(* int4 goes on with what its array holds behind them, digits or not.      *)
Fishy(offset) ==
  LET end == IF Len(digits) < offset + 4 THEN Len(digits) ELSE offset + 4
      rest == SubSeq(digits, offset + 1, end)
      wanted == int4(8) - int4(4) + int4(0)
      reachable == {j \in 0..(4 - Len(rest)) :
                      wanted >= 0 /\ wanted \div 10^j = Value(rest)}
  IN IF Len(rest) = 4 THEN {reachable # {}} ELSE {FALSE, reachable # {}}
FishyOutcomes == Fishy(12)

UnionPay ==
  \/ int6 \in 622126..622925 \/ int6 \in 624000..626999 \/ int6 \in 628200..628899
Laser == int4(0) \in {6304, 6706, 6709, 6771}
Solo == int4(0) \in {6334, 6767}
(* Ranges of issuers that lie within others are left out.                  *)
prefix_test ==
  LET a == int4(0) IN
  CASE Len(digits) = 13 -> digits[1] = 4
    [] Len(digits) = 14 -> a \in 3000..3050 \/ a \in 3600..3999
    [] Len(digits) = 15 -> a \in {2014, 2149} \/ a \in 3400..3499 \/ a \in 3700..3799
    [] Len(digits) = 16 ->
         \/ a \in 3528..3589 \/ a \in 4000..4999 \/ a \in 5100..5999 \/ a = 6011
         \/ a \in 6440..6499 \/ a \in 6500..6599 \/ UnionPay \/ Laser \/ Solo
    [] Len(digits) = 17 -> UnionPay \/ Laser
    [] Len(digits) \in 18..19 -> UnionPay \/ Laser \/ Solo
    [] OTHER -> FALSE

(* A window is read up to a NUL.                                           *)
Until(window) == {k \in 1..4 : \A j \in 1..k : window[j] # "nul"}
InHex(window) ==
  /\ \A k \in Until(window) : window[k] \in {"dec", "hex"}
  /\ \E k \in Until(window) : window[k] # "dec"

Verdict(fishy) ==
  IF /\ Len(buf) <= 19
     /\ NondigitsRight /\ prefix_test /\ ccv1_test /\ ~fishy /\ histogram_test
     /\ ~InHex(before) /\ ~InHex(after)
  THEN "accepted" ELSE "rejected"
Outcomes == {Verdict(fishy) : fishy \in FishyOutcomes}

-----------------------------------------------------------------------------
Init ==
  /\ number \in Numbers
  /\ grouped \in BOOLEAN
  /\ Matches(number, grouped)
  /\ before \in WindowsBefore
  /\ after \in WindowsAfter
  /\ verdict = "none"
  /\ original = <<>>

valid_ccn ==
  /\ verdict = "none"
  /\ verdict' \in Outcomes
  /\ UNCHANGED <<number, grouped, before, after, original>>

Misread(next) ==
  /\ verdict = "accepted" /\ original = <<>>
  /\ Matches(next, grouped)
  /\ number' = next
  /\ original' = number
  /\ verdict' = "none"
  /\ UNCHANGED <<grouped, before, after>>
Misprint == \E k \in DOMAIN number, d \in 0..9 :
  d # number[k] /\ Misread([number EXCEPT ![k] = d])
Swap == \E k \in 1..(Len(number) - 1) :
  /\ number[k] # number[k + 1]
  /\ Misread([number EXCEPT ![k] = number[k + 1], ![k + 1] = number[k]])

Next == valid_ccn \/ Misprint \/ Swap
Spec == Init /\ [][Next]_vars

-----------------------------------------------------------------------------
Changed == {number[k] : k \in {k \in DOMAIN number : number[k] # original[k]}}

(* If a number is accepted, none with one other digit is, and none with    *)
(* two neighbours exchanged, unless they are 0 and 9.                      *)
MisreadingCaught ==
  original # <<>> /\ verdict = "accepted" => Changed = {0, 9}

=============================================================================
