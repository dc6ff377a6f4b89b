---------------------------- MODULE JsonScanner ----------------------------
(***************************************************************************)
(* scan_json.cpp: the loop over an sbuf that looks for JSON objects and    *)
(* arrays, and json_checker, the push-down automaton it runs over each     *)
(* candidate.                                                              *)
(*                                                                         *)
(* A character stands for its class (enum classes): "\n" for the white     *)
(* space that is not a space, "1" for 1 to 9, "A" for A, B, C, D and F,    *)
(* "etc" for everything else, "ctl" for what has no class.                 *)
(***************************************************************************)
EXTENDS Integers, Sequences, FiniteSets

CONSTANTS
  Buffers,    \* records [text, pagesize]; the rest of the text is the margin
  MinCommas,  \* the commas an object must have to be written (2)
  stacksize   \* the nesting that can be followed (256)

(* What the constants are.                                                 *)
ConstantsRight ==
  /\ \A b \in Buffers : b.pagesize \in 0..Len(b.text)
  /\ MinCommas \in Nat /\ stacksize \in Nat \ {0}

VARIABLES
  sbuf,
  pc,    \* "seek", "check" or "done"
  pos,   \* the outer loop
  i,     \* the inner loop
  jc,    \* json_checker: [state, stack, comma_count]; the state is "reject"
         \* when the flag is set
  found  \* the objects written: [pos, last], both included

vars == <<sbuf, pc, pos, i, jc, found>>

At(n) == sbuf.text[n + 1]
bufsize == Len(sbuf.text)

-----------------------------------------------------------------------------
(* json_checker.                                                           *)

Blank == {" ", "\n"}
Digit == {"0", "1"}
Hex == Digit \union {"a", "b", "c", "d", "e", "f", "A", "E"}
Etc == {"etc", "A", "E"}
Chars == Blank \union {"{", "}", "[", "]", ":", ",", "\"", "\\", "/", "+", "-", "."}
         \union Hex \union {"l", "n", "r", "s", "t", "u"} \union Etc

(* A row: for each set of characters the next state or, in small letters,  *)
(* an action on the stack.  What is in no set is an error.                 *)
Opens == {<<{"{"}, "object">>, <<{"["}, "array">>}
Ends == {<<Blank, "OK">>, <<{"}"}, "endobject">>, <<{"]"}, "endarray">>, <<{","}, "comma">>}
Values(state) ==
  Opens \union
  {<<Blank, state>>, <<{"\""}, "ST">>, <<{"-"}, "MI">>, <<{"0"}, "ZE">>, <<{"1"}, "IN">>,
   <<{"f"}, "F1">>, <<{"n"}, "N1">>, <<{"t"}, "T1">>}
Exponent == {<<{"e", "E"}, "E1">>}
Only(set, state) == {<<set, state>>}

Row(state) ==
  CASE state = "GO" -> Opens \union Only(Blank, "GO")
    [] state = "OK" -> Ends
    [] state = "OB" -> {<<Blank, "OB">>, <<{"}"}, "endempty">>, <<{"\""}, "ST">>}
    [] state = "KE" -> {<<Blank, "KE">>, <<{"\""}, "ST">>}
    [] state = "CO" -> {<<Blank, "CO">>, <<{":"}, "colon">>}
    [] state = "VA" -> Values("VA")
    [] state = "AR" -> Values("AR") \union Only({"]"}, "endarray")
    [] state = "ST" -> {<<Chars \ {"\n", "\"", "\\"}, "ST">>, <<{"\""}, "quote">>,
                        <<{"\\"}, "ES">>}
    [] state = "ES" -> {<<{"\"", "\\", "/", "b", "f", "n", "r", "t"}, "ST">>, <<{"u"}, "U1">>}
    [] state = "U1" -> Only(Hex, "U2")
    [] state = "U2" -> Only(Hex, "U3")
    [] state = "U3" -> Only(Hex, "U4")
    [] state = "U4" -> Only(Hex, "ST")
    [] state = "MI" -> {<<{"0"}, "ZE">>, <<{"1"}, "IN">>}
    [] state = "ZE" -> Ends \union Only({"."}, "FR")
    [] state = "IN" -> Ends \union Exponent \union {<<{"."}, "FR">>, <<Digit, "IN">>}
    [] state = "FR" -> Ends \union Exponent \union Only(Digit, "FR")
    [] state = "E1" -> {<<{"+", "-"}, "E2">>, <<Digit, "E3">>}
    [] state = "E2" -> Only(Digit, "E3")
    [] state = "E3" -> Ends \union Only(Digit, "E3")
    [] state = "T1" -> Only({"r"}, "T2")
    [] state = "T2" -> Only({"u"}, "T3")
    [] state = "F1" -> Only({"a"}, "F2")
    [] state = "F2" -> Only({"l"}, "F3")
    [] state = "F3" -> Only({"s"}, "F4")
    [] state = "N1" -> Only({"u"}, "N2")
    [] state = "N2" -> Only({"l"}, "N3")
    [] state = "N3" -> Only({"l"}, "OK")
    [] state \in {"T3", "F4"} -> Only({"e"}, "OK")
Entries(state, ch) == {row \in Row(state) : ch \in row[1]}
Actions == {"object", "array", "endempty", "endobject", "endarray", "quote", "comma", "colon"}

New == [state |-> "GO", stack |-> <<"DONE">>, comma_count |-> 0]
Rejected == [New EXCEPT !.state = "reject"]

Top(stack) == stack[Len(stack)]
Below(stack) == SubSeq(stack, 1, Len(stack) - 1)
Push(c, mode, state) ==
  IF Len(c.stack) >= stacksize THEN Rejected
  ELSE [c EXCEPT !.stack = Append(@, mode), !.state = state]
Pop(c, mode) ==
  IF Top(c.stack) # mode THEN Rejected ELSE [c EXCEPT !.stack = Below(@), !.state = "OK"]
(* One mode for another at the top.                                        *)
Flip(c, from, to, state) ==
  IF Top(c.stack) # from THEN Rejected
  ELSE [c EXCEPT !.stack = Append(Below(@), to), !.state = state]
Quote(c) ==
  CASE Top(c.stack) = "KEY" -> [c EXCEPT !.state = "CO"]
    [] Top(c.stack) \in {"ARRAY", "OBJECT"} -> [c EXCEPT !.state = "OK"]
    [] OTHER -> Rejected
(* Mutant of Comma: only the commas of objects are counted.                *)
CommaOfObjects(c) ==
  CASE Top(c.stack) = "OBJECT" ->
         [Flip(c, "OBJECT", "KEY", "KE") EXCEPT !.comma_count = c.comma_count + 1]
    [] Top(c.stack) = "ARRAY" -> [c EXCEPT !.state = "VA"]
    [] OTHER -> Rejected
(* Mutant of Comma: an array may end behind a comma.                       *)
CommaTrailing(c) ==
  CASE Top(c.stack) = "OBJECT" ->
         [Flip(c, "OBJECT", "KEY", "KE") EXCEPT !.comma_count = c.comma_count + 1]
    [] Top(c.stack) = "ARRAY" -> [c EXCEPT !.state = "AR", !.comma_count = @ + 1]
    [] OTHER -> Rejected
Comma(c) ==
  CASE Top(c.stack) = "OBJECT" ->
         [Flip(c, "OBJECT", "KEY", "KE") EXCEPT !.comma_count = c.comma_count + 1]
    [] Top(c.stack) = "ARRAY" -> [c EXCEPT !.state = "VA", !.comma_count = @ + 1]
    [] OTHER -> Rejected

check_char(c, ch) ==
  IF Entries(c.state, ch) = {} THEN Rejected
  ELSE LET next == (CHOOSE row \in Entries(c.state, ch) : TRUE)[2] IN
    CASE next = "object" -> Push(c, "KEY", "OB")
      [] next = "array" -> Push(c, "ARRAY", "AR")
      [] next = "endempty" -> Pop(c, "KEY")
      [] next = "endobject" -> Pop(c, "OBJECT")
      [] next = "endarray" -> Pop(c, "ARRAY")
      [] next = "quote" -> Quote(c)
      [] next = "comma" -> Comma(c)
      [] next = "colon" -> Flip(c, "KEY", "OBJECT", "VA")
      [] next \notin Actions -> [c EXCEPT !.state = next]

check_if_done(c) == c.state = "OK" /\ Len(c.stack) = 1

-----------------------------------------------------------------------------
(* scan_json.                                                              *)

Init ==
  /\ sbuf \in Buffers
  /\ pc = "seek"
  /\ pos = 0
  /\ i = 0
  /\ jc = New
  /\ found = {}

SecondChars == Digit \union Blank \union {".", "-", "{", "[", "\""}
Begins == At(pos) \in {"{", "["} /\ At(pos + 1) \in SecondChars

Seek ==
  /\ pc = "seek" /\ pos + 1 < sbuf.pagesize
  /\ IF Begins THEN pc' = "check" /\ i' = pos /\ jc' = New /\ UNCHANGED pos
     ELSE pos' = pos + 1 /\ UNCHANGED <<pc, i, jc>>
  /\ UNCHANGED <<sbuf, found>>

Finish ==
  /\ pc = "seek" /\ pos + 1 >= sbuf.pagesize
  /\ pc' = "done"
  /\ UNCHANGED <<sbuf, pos, i, jc, found>>

Checking == pc = "check" /\ i < bufsize
Checked == check_char(jc, At(i))
Ended == At(i) \in {"]", "}"} /\ check_if_done(Checked)
SkipTo(n) == pc' = "seek" /\ pos' = n + 1

(* Mutant of Reject: the outer loop goes on where it was.                  *)
RejectInPlace ==
  /\ Checking /\ Checked.state = "reject"
  /\ pc' = "seek"
  /\ jc' = Checked
  /\ UNCHANGED <<sbuf, pos, i, found>>
Reject ==
  /\ Checking /\ Checked.state = "reject"
  /\ SkipTo(i)
  /\ jc' = Checked
  /\ UNCHANGED <<sbuf, i, found>>

(* Mutant of EnoughCommas: more than MinCommas, as the comment has it.     *)
MoreCommas(c) == c.comma_count > MinCommas
(* Mutant of EnoughCommas: the test is left out.                           *)
AnyCommas(c) == c.comma_count >= 0
EnoughCommas(c) == c.comma_count >= MinCommas

(* Mutant of Report: an object that is written is not skipped.              *)
ReportOrStay ==
  /\ Checking /\ Checked.state # "reject" /\ Ended
  /\ IF EnoughCommas(Checked)
     THEN found' = found \union {[pos |-> pos, last |-> i]} /\ SkipTo(pos)
     ELSE UNCHANGED found /\ SkipTo(i)
  /\ jc' = Checked
  /\ UNCHANGED <<sbuf, i>>
(* Mutant of Report: an object that is not written is not skipped.         *)
ReportOrGoOn ==
  /\ Checking /\ Checked.state # "reject" /\ Ended
  /\ IF EnoughCommas(Checked)
     THEN found' = found \union {[pos |-> pos, last |-> i]} /\ SkipTo(i)
     ELSE UNCHANGED found /\ SkipTo(pos)
  /\ jc' = Checked
  /\ UNCHANGED <<sbuf, i>>
(* Mutant of Report: the character behind the object is skipped too.       *)
ReportTooFar ==
  /\ Checking /\ Checked.state # "reject" /\ Ended
  /\ found' = IF EnoughCommas(Checked)
              THEN found \union {[pos |-> pos, last |-> i]} ELSE found
  /\ SkipTo(i + 1)
  /\ jc' = Checked
  /\ UNCHANGED <<sbuf, i>>
Report ==
  /\ Checking /\ Checked.state # "reject" /\ Ended
  /\ found' = IF EnoughCommas(Checked)
              THEN found \union {[pos |-> pos, last |-> i]} ELSE found
  /\ SkipTo(i)
  /\ jc' = Checked
  /\ UNCHANGED <<sbuf, i>>

Continue ==
  /\ Checking /\ Checked.state # "reject" /\ ~Ended
  /\ i' = i + 1
  /\ jc' = Checked
  /\ UNCHANGED <<sbuf, pc, pos, found>>

(* The buffer ends within the object.                                      *)
RunOut ==
  /\ pc = "check" /\ i = bufsize
  /\ SkipTo(pos)
  /\ UNCHANGED <<sbuf, i, jc, found>>

Next == Seek \/ Finish \/ Reject \/ Report \/ Continue \/ RunOut

Spec == Init /\ [][Next]_vars
FairSpec == Spec /\ WF_vars(Next)
=============================================================================
