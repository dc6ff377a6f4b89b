------------------------------ MODULE Escaping ------------------------------
(***************************************************************************)
(* The escaping of one string (UnicodeEscape, as E), as one of the filters *)
(* that are side by side in Filters.                                       *)
(***************************************************************************)
EXTENDS Integers, Sequences

CONSTANTS Inputs, Flags

VARIABLES
  filter,  \* the one chosen
  pc,      \* of the filter chosen, if it has one
  input, flags, nread, output

E == INSTANCE UnicodeEscape WITH i <- nread

ASSUME EscapingAssumption == E!ConstantsRight

escaping == <<input, flags, nread, output>>

(* The value of the variables of a filter that is not the one chosen.      *)
None == <<>>
NoEscapes == input = None /\ flags = None /\ nread = None /\ output = None

EscapingInit == filter = "escapes" /\ E!Init
Escapes == filter = "escapes" /\ E!Next /\ UNCHANGED filter
EscapingSpec == EscapingInit /\ [][Escapes]_<<filter, pc, escaping>>

(* Features and contexts reach the file whole, as UTF-8 on one line        *)
(* (unicode_escape.cpp:95-181).                                            *)
FeaturesFit == filter = "escapes" => E!FeaturesFit
=============================================================================
