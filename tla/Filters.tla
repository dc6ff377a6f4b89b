------------------------------ MODULE Filters ------------------------------
(***************************************************************************)
(* The filters of bytes and features side by side: the stop list, the word *)
(* list (Wordlist, as W), the filter of credit card numbers (CardNumbers,  *)
(* as C) and the escaping of features (Escaping).  They share no state in  *)
(* the program, so a behaviour is one of one filter, chosen at the         *)
(* beginning; the variables of the others have no value.                   *)
(***************************************************************************)
EXTENDS StopList, Escaping

CONSTANTS
  Images, Options, MaxFailures,
  Numbers, WindowsBefore, WindowsAfter

VARIABLES
  image, opts, pending, flat_wordlist, unread, seen_wordlist, segments, failures,
  number, grouped, front, rear, verdict, original

W == INSTANCE Wordlist
C == INSTANCE CardNumbers WITH before <- front, after <- rear

ASSUME FiltersAssumption == W!ConstantsRight /\ C!ConstantsRight

wordlist ==
  <<image, opts, pending, flat_wordlist, unread, seen_wordlist, segments, failures>>
cards == <<number, grouped, front, rear, verdict, original>>
filters == <<vars, wordlist, cards, escaping, pc>>

NoStops == fcmap = {} /\ context_set = {} /\ patterns = {} /\ read = {}
NoWords ==
  /\ image = None /\ opts = None /\ pending = None /\ flat_wordlist = None
  /\ unread = None /\ seen_wordlist = None /\ segments = None /\ failures = None
NoCards ==
  /\ number = None /\ grouped = None /\ front = None /\ rear = None
  /\ verdict = None /\ original = None
NoFilters == NoStops /\ NoWords /\ NoCards /\ NoEscapes

FiltersInit ==
  \/ /\ filter = "stop list" /\ Init
     /\ NoWords /\ NoCards /\ NoEscapes /\ pc = "none"
  \/ /\ filter = "word list" /\ W!Init
     /\ NoStops /\ NoCards /\ NoEscapes
  \/ /\ filter = "cards" /\ C!Init
     /\ NoStops /\ NoWords /\ NoEscapes /\ pc = "none"
  \/ EscapingInit /\ NoStops /\ NoWords /\ NoCards

Stops ==
  /\ filter = "stop list" /\ Next
  /\ UNCHANGED <<filter, wordlist, cards, escaping, pc>>
Words == filter = "word list" /\ W!Next /\ UNCHANGED <<filter, vars, cards, escaping>>
Cards ==
  /\ filter = "cards" /\ C!Next
  /\ UNCHANGED <<filter, vars, wordlist, escaping, pc>>

FiltersNext ==
  Stops \/ Words \/ Cards \/ (Escapes /\ UNCHANGED <<vars, wordlist, cards>>)
FiltersSpec == FiltersInit /\ [][FiltersNext]_<<filter, filters>>

-----------------------------------------------------------------------------
(* Properties; those of the stop list are in StopList, that of the         *)
(* escaping is in Escaping.                                                *)

(* The word list holds the words of the image, whole, at their places, and *)
(* twice only where a page begins, although its pages are scanned apart    *)
(* (scan_wordlist.cpp:57-117).                                             *)
WordsFound == filter = "word list" => W!WordsFound

(* Pass 2 loses no word and keeps its order, although memory may run out   *)
(* in the middle (scan_wordlist.cpp:155-215).                              *)
WordsSorted == filter = "word list" => W!WordsSorted

(* If a number is accepted, none with one digit misread or two neighbours  *)
(* exchanged is, but for 0 and 9 (scan_ccns2.cpp:99-117).                  *)
MisreadingCaught == filter = "cards" => C!MisreadingCaught
=============================================================================
