--------------------------- MODULE UnicodeEscape ---------------------------
(***************************************************************************)
(* What makes features and contexts fit for a line of a feature file:      *)
(* be20_api/unicode_escape.cpp, validateOrEscapeUTF8.  Each pass of its    *)
(* loop looks at the byte at `i` and copies or escapes.                    *)
(*                                                                         *)
(* Strings are sequences of bytes.                                         *)
(***************************************************************************)
EXTENDS Integers, Sequences, SequencesExt

CONSTANTS
  Inputs,  \* the strings
  Flags    \* records [escape_bad_utf8, escape_backslash, validate]

(* What the constants are.                                                 *)
ConstantsRight ==
  /\ \A s \in Inputs : s \in Seq(0..255)
  /\ Flags \subseteq [escape_bad_utf8 : BOOLEAN, escape_backslash : BOOLEAN, validate : BOOLEAN]

VARIABLES
  input, flags,
  i,       \* the bytes that were read
  output,
  pc       \* "begin", "loop", "done" or "thrown"

vars == <<input, flags, i, output, pc>>

BACKSLASH == 92
(* \ooo, as octal_escape writes it.                                        *)
octal_escape(ch) == <<BACKSLASH, 48 + (ch \div 64), 48 + ((ch \div 8) % 8), 48 + (ch % 8)>>

utf8cont(ch) == ch \in 128..191

(* Code points above the basic plane that it refuses.                      *)
Reserved == UNION {81920..90111, 94208..110591, 114688..118783, 180224..192511, 196608..917502}
(* Mutant of valid_utf8codepoint: surrogates are code points.              *)
valid_utf8codepointSurrogates(unichar) == unichar \notin {65534, 65535}
valid_utf8codepoint(unichar) ==
  /\ unichar \notin {65534, 65535}          \* U+FFFE, U+FFFF
  /\ unichar \notin 55296..57343            \* the surrogates
  /\ unichar >= 65536 => unichar \notin Reserved /\ unichar <= 1114111

Byte(n) == input[i + n]
Bytes(n) == i + n <= Len(input) /\ \A k \in 2..n : utf8cont(Byte(k))
(* The code points of two, three and four bytes.                           *)
Low(n) == Byte(n) % 64
Unichar2 == ((Byte(1) % 32) * 64) + Low(2)
Unichar3 == ((Byte(1) % 16) * 4096) + (Low(2) * 64) + Low(3)
Unichar4 == ((Byte(1) % 8) * 262144) + (Low(2) * 4096) + (Low(3) * 64) + Low(4)

(* The bytes that are copied as one character, other than ASCII, or 0.     *)
(* The test of four bytes asks for a code point above the last one.        *)
Copied(n, leads, unichar, least) ==
  Byte(1) \in leads /\ Bytes(n) /\ valid_utf8codepoint(unichar) /\ unichar >= least
Sequence ==
  CASE Byte(1) # 192 /\ Copied(2, 192..223, Unichar2, 128) -> 2
    [] Copied(3, 224..239, Unichar3, 2048) -> 3
    [] Copied(4, 240..247, Unichar4, 16777216) -> 4
    [] OTHER -> 0

-----------------------------------------------------------------------------
Init ==
  /\ input \in Inputs
  /\ flags \in Flags
  /\ i = 0
  /\ output = <<>>
  /\ pc = "begin"

(* Nothing to do at all: the input is returned.                            *)
Begin ==
  /\ pc = "begin"
  /\ IF ~flags.escape_bad_utf8 /\ ~flags.escape_backslash /\ ~flags.validate
     THEN output' = input /\ pc' = "done"
     ELSE pc' = "loop" /\ UNCHANGED output
  /\ UNCHANGED <<input, flags, i>>

Looking == pc = "loop" /\ i < Len(input)
Emit(bytes, n) ==
  /\ output' = output \o bytes
  /\ i' = i + n
  /\ UNCHANGED <<input, flags, pc>>
Escape == Emit(octal_escape(Byte(1)), 1)

(* Mutant of Special: the backslash is not special.                        *)
SpecialControl(ch) == ch < 32
Special(ch) == ch < 32 \/ (ch = BACKSLASH /\ flags.escape_backslash)
Ascii ==
  /\ Looking /\ Byte(1) < 128
  /\ IF Special(Byte(1)) THEN Escape ELSE Emit(<<Byte(1)>>, 1)
Character ==
  /\ Looking /\ Byte(1) >= 128 /\ Sequence > 0
  /\ Emit(SubSeq(input, i + 1, i + Sequence), Sequence)
Bad == Looking /\ Byte(1) >= 128 /\ Sequence = 0
(* Mutant of EscapeBad: bad bytes are escaped only if backslashes are.     *)
EscapeBadWithBackslash ==
  Bad /\ flags.escape_bad_utf8 /\ flags.escape_backslash /\ Escape
EscapeBad == Bad /\ flags.escape_bad_utf8 /\ Escape
Throw ==
  /\ Bad /\ ~flags.escape_bad_utf8 /\ flags.validate
  /\ pc' = "thrown"
  /\ UNCHANGED <<input, flags, i, output>>
(* Without both the loop does not move: there is no step.                  *)

Return ==
  /\ pc = "loop" /\ i = Len(input)
  /\ pc' = "done"
  /\ UNCHANGED <<input, flags, i, output>>

Next == Begin \/ Ascii \/ Character \/ EscapeBad \/ Throw \/ Return
Spec == Init /\ [][Next]_vars
FairSpec == Spec /\ WF_vars(Next)

-----------------------------------------------------------------------------
(* Reference definitions.                                                  *)

Octal(s, n) == (64 * (s[n + 1] - 48)) + (8 * (s[n + 2] - 48)) + (s[n + 3] - 48)
IsEscape(s, n) == s[n] = BACKSLASH /\ n + 3 <= Len(s)
(* The string with its escapes taken back.                                 *)
Unescaped(s) ==
  LET Rest[n \in 1..(Len(s) + 1)] ==
        IF n > Len(s) THEN <<>>
        ELSE IF IsEscape(s, n) THEN <<Octal(s, n)>> \o Rest[n + 4]
        ELSE <<s[n]>> \o Rest[n + 1]
  IN Rest[1]
(* The sequences of bytes that are a character (Unicode, table 3-7).       *)
Within(s, ranges) == Len(s) = Len(ranges) /\ \A k \in DOMAIN s : s[k] \in ranges[k]
Cont == 128..191
IsCharacter(s) ==
  \/ Within(s, <<0..127>>)
  \/ Within(s, <<194..223, Cont>>)
  \/ Within(s, <<{224}, 160..191, Cont>>)
  \/ Within(s, <<(225..239) \ {237}, Cont, Cont>>)
  \/ Within(s, <<{237}, 128..159, Cont>>)
  \/ Within(s, <<{240}, 144..191, Cont, Cont>>)
  \/ Within(s, <<241..243, Cont, Cont, Cont>>)
  \/ Within(s, <<{244}, 128..143, Cont, Cont>>)
IsUtf8(s) ==
  LET Good[n \in 1..(Len(s) + 1)] ==
        n > Len(s) \/ \E k \in 1..4 :
          n + k <= Len(s) + 1 /\ IsCharacter(SubSeq(s, n, n + k - 1)) /\ Good[n + k]
  IN Good[1]
Bytewise(s) == {s[n] : n \in DOMAIN s}

(* If both are escaped the feature in the file determines the bytes in the *)
(* image: nothing is lost and no two features become one.                  *)
EscapesReversible ==
  pc = "done" /\ flags.escape_bad_utf8 /\ flags.escape_backslash => Unescaped(output) = input

(* What is escaped, or has been validated, is UTF-8 and has no tab and no  *)
(* end of line in it: it is one field of one line.                         *)
FitForALine ==
  pc = "done" /\ (flags.escape_bad_utf8 \/ flags.validate) =>
    IsUtf8(output) /\ \A ch \in Bytewise(output) : ch >= 32

(* Features and contexts reach the file whole and as one field.            *)
FeaturesFit == EscapesReversible /\ FitForALine

(* The end of a conversion.                                               *)
Over == pc \in {"done", "thrown"}
=============================================================================
