----------------------------- MODULE MCFilters -----------------------------
(***************************************************************************)
(* Filters for TLC, and the JSON scanner as a fifth filter.  Its reference *)
(* is a recursive grammar, so it is added here and not in Filters, about   *)
(* which there are proofs.                                                 *)
(***************************************************************************)
EXTENDS Filters

VARIABLES sbuf, i, pos, jc, found

json == <<sbuf, i, pos, jc, found>>

-----------------------------------------------------------------------------
(* Stop lists: 1 is the feature of most contexts, 2 and 3 are other text.  *)
MCTexts == {<<2, 3, 1, 2, 3>>, <<3, 3, 1, 2, 2>>, <<2, 1>>, <<3, 1, 2>>, <<1, 1, 2>>}
MCPatterns == {{<<1>>}, {<<1, 2>>, <<2>>}}

(* Word lists: every image of six characters with or without words in it,  *)
(* and some with brackets, backslashes, line ends and duplicates.          *)
MCImages ==
  [1..6 -> {32, 97}] \union
  {<<>>, <<97>>, <<40, 97, 41, 32, 97, 32>>, <<32, 97, 92, 32, 98, 32, 97, 98, 32>>,
   <<97, 32, 98, 32, 97, 32, 98, 32>>, <<98, 97, 32, 97, 98, 32, 97, 10>>,
   <<32, 32, 60, 97, 62, 32, 91, 92, 93>>}
Choice(pagesize, margin, min, max, strings, limit) ==
  [pagesize |-> pagesize, margin |-> margin, word_min |-> min, word_max |-> max,
   strings |-> strings, max_output_file_size |-> limit]
MCOptions ==
  {Choice(2, 3, 1, 3, FALSE, 4), Choice(3, 3, 2, 3, FALSE, 4), Choice(3, 1, 1, 2, FALSE, 4),
   Choice(3, 2, 1, 2, TRUE, 4), Choice(9, 4, 1, 4, FALSE, 4)}

(* JSON: texts over several small alphabets, alone and between others, so *)
(* that there are objects with fewer commas than are asked for, just as    *)
(* many and more, one inside, behind and in a string of the other; and     *)
(* some longer ones.                                                       *)
Strings(n, alphabet) == UNION {[1..m -> alphabet] : m \in 0..n}
Behind(prefix, texts) == {prefix \o text : text \in texts}
Between(before, texts, after) ==
  {b \o text \o a : b \in before, text \in texts, a \in after}
List == <<"[", "1", ",", "1", ",", "1", "]">>
JsonTexts ==
  Between({<<>>, <<"[">>, <<"[", "1", ",">>}, Strings(4, {"[", "]", ",", "1"}),
          {<<>>, <<",", "1", "]">>, List})
  \union Between({<<"{", "\"">>, <<"{", "\"", "\"", ":", "1", ",", "\"">>},
                 Strings(4, {"{", "}", "\"", ":", ","}),
                 {<<>>, <<"\"", ":", "1", ",", "\"", "\"", ":", "1", "}">>})
  \union Between({<<"[", "1", ",", "1", ",">>}, Strings(5, {"-", "0", ".", "e", "]"}), {<<>>})
  \union Between({<<"[", "\"">>}, Strings(4, {"\\", "n", "\"", "\n", ","}),
                 {<<"]">>, <<"\"", ",", "1", "]">>, <<"\"", ",", "1", ",", "1", "]">>})
  \union {<<"[", " ", "t", "r", "u", "e", ",", "f", "a", "l", "s", "e", ",",
            "n", "u", "l", "l", "]">>,
          <<"{", "\"", "a", "\"", ":", "1", ",", "\"", "\"", ":", "{", "}", "}">> \o List,
          <<"{", "[", "1", "]", "}">> \o List, <<"[", "n", "u", "l", "]">> \o List,
          <<"[", "\"", "\\", "u", "0", "A", "f", "1", ",", "\"", ",", "0", ",", "1", "]">>,
          <<"[", "\"", "\\", "u", "0", "A", "f", "u", "\"", ",", "0", ",", "1", "]">>,
          <<"[", "\"">> \o List \o <<"\"", "]">>,
          <<"{", "\"", "\"", ":", "\"">> \o List \o <<"\"", "}">> \o List,
          <<"[", "[">> \o List \o <<"]", "]">>,
          <<"[", "[", "[">> \o List \o <<"]", "]", "]">>}
MCBuffers ==
  {[text |-> text, pagesize |-> Len(text)] : text \in JsonTexts}
  \union {[text |-> text, pagesize |-> size] :
            text \in {t \in JsonTexts : Len(t) \in 7..8}, size \in {2, 5}}

(* Credit cards.  No digit stands right before a candidate or behind it.   *)
Ending(stem, n, set) == Behind(stem, [1..n -> set])
MCNumbers ==
  Ending(<<4, 0, 1, 2, 8, 8, 8, 8, 8, 8, 8, 8>>, 4, {0, 1, 8, 9})
  \union Ending(<<4, 9, 9, 1, 2, 3, 4, 5, 6, 7, 8>>, 5, {0, 1, 9})
  \union Ending(<<5, 1, 0, 0, 5, 1, 0, 0, 5, 1, 0, 0>>, 4, {0, 1, 5})
  \union Ending(<<6, 2, 2, 1, 2, 6, 3, 7, 0, 9, 2, 4, 6, 8, 1, 3>>, 3, {0, 5, 9})
  \union Ending(<<3, 7, 8, 2, 8, 2, 2, 4, 6, 3, 1>>, 4, {0, 1, 5})
  \union Ending(<<6, 7, 0, 6, 3, 7, 0, 9, 2, 4, 6, 8, 1, 3>>, 3, {0, 5, 9})
  \union {<<3, 7, 8, d, 1, 0, 0, v, 1, 0, 0, v, 3, 7, 8>> : d \in 0..9, v \in 0..2}
  \union {<<4, 1, 2, d, 1, 0, 0, v, 1, 0, 0, v, w, 4, 1, 2>> :
            d \in 0..9, v \in 0..2, w \in {0, 5}}
MCBefore ==
  {<<"other", "dec", "dec", "other">>, <<"dec", "hex", "dec", "hex">>,
   <<"hex", "nul", "dec", "other">>}
MCAfter ==
  {<<"other", "dec", "dec", "other">>, <<"hex", "dec", "nul", "other">>,
   <<"nul", "hex", "hex", "hex">>}

(* Escapes: ASCII, control characters, backslash and digits, the borders   *)
(* of each range of bytes; all that quote_if_necessary can ask for.        *)
MCInputs ==
  Strings(3, {9, 92, 49, 128, 159, 160, 191, 192, 194, 224, 237, 239, 240, 255})
  \union {<<a, b, c, d>> : a \in {240, 241, 244, 247}, b \in {128, 143, 144, 159, 191},
                           c \in {128, 152, 65}, d \in {128, 129, 191}}
  \union {<<92, 49, 51, 52>>, <<65, 239, 191, 190>>, <<237, 159, 191, 9>>, <<193, 128>>}
Flag(bad, backslash, check_) ==
  [escape_bad_utf8 |-> bad, escape_backslash |-> backslash, validate |-> check_]
MCFlags ==
  {Flag(TRUE, TRUE, FALSE), Flag(FALSE, FALSE, FALSE), Flag(TRUE, FALSE, FALSE),
   Flag(TRUE, TRUE, TRUE), Flag(FALSE, FALSE, TRUE), Flag(TRUE, FALSE, TRUE)}

-----------------------------------------------------------------------------
J == INSTANCE JsonGrammar WITH Buffers <- MCBuffers, MinCommas <- 2, stacksize <- 4

ASSUME JsonAssumption == J!ConstantsRight

NoJson == sbuf = None /\ i = None /\ pos = None /\ jc = None /\ found = None

MCInit == \/ FiltersInit /\ NoJson
          \/ filter = "json" /\ J!Init /\ NoFilters

Json == filter = "json" /\ J!Next /\ UNCHANGED <<filter, vars, wordlist, cards, escaping>>
MCNext == (FiltersNext /\ UNCHANGED json) \/ Json
(* The loops over one buffer and one string run on by themselves.          *)
MCSpec ==
  /\ MCInit /\ [][MCNext]_<<filter, filters, json>>
  /\ WF_<<filter, filters, json>>(Json \/ (Escapes /\ UNCHANGED <<vars, wordlist, cards, json>>))

-----------------------------------------------------------------------------
(* Properties; the others are in StopList, Filters and Escaping.           *)

(* What is written of a page is its JSON with at least two commas,         *)
(* exactly, by the grammar, each object once and whole, also one that ends *)
(* in the margin; and nothing inside an object, be it one with too few     *)
(* commas (scan_json.cpp:455-485).  Two are enough: the test is >= 2, and  *)
(* test_be2.cpp:541 expects JSON1, which has two (test_be1.cpp:70), while   *)
(* the comment before the test says more than 2 (scan_json.cpp:470).       *)
JsonFound == filter = "json" => J!JsonFound

(* The scan of a buffer and the conversion of a string end                 *)
(* (scan_json.cpp:466, unicode_escape.cpp:103).                            *)
FiltersEnd ==
  /\ filter = "json" => <>(J!Over)
  /\ filter = "escapes" => <>(E!Over)
=============================================================================
