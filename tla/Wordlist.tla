------------------------------ MODULE Wordlist ------------------------------
(***************************************************************************)
(* The word list: scan_wordlist.cpp and scan_wordlist.h.                   *)
(* Pass 1 cuts each page into words, in the threads that scan the pages,   *)
(* and writes them to the feature file wordlist.txt (feature_recorder.cpp, *)
(* quote_if_necessary).  Pass 2, at shutdown, reads this file and writes   *)
(* its words without duplicates, sorted, to numbered files.                *)
(*                                                                         *)
(* A character is its code, a position is an offset in the image.  A file  *)
(* of pass 2 that cannot be opened is left out.                            *)
(***************************************************************************)
EXTENDS Integers, Sequences, SequencesExt

CONSTANTS
  Images,       \* the images: sequences of characters
  Options,      \* records [pagesize, margin, word_min, word_max, strings,
                \* max_output_file_size]
  MaxFailures   \* bound: how often memory may run out in pass 2

(* What the constants are.                                                 *)
ConstantsRight ==
  /\ \A img \in Images : img \in Seq(0..255)
  /\ \A o \in Options :
       /\ o.pagesize \in Nat \ {0} /\ o.margin \in Nat
       /\ o.word_min \in Nat /\ o.word_max \in Nat /\ o.word_min <= o.word_max
       /\ o.strings \in BOOLEAN /\ o.max_output_file_size \in Nat

VARIABLES
  image, opts,
  pending,       \* for each page the words its scanner still has to write
  flat_wordlist, \* the lines of wordlist.txt
  pc,            \* "scan", "dedup" or "done"
  unread,        \* the lines pass 2 has not read
  seen_wordlist, \* the words in memory
  segments,      \* the files written by pass 2
  failures       \* history: how often memory ran out

dedup == <<unread, seen_wordlist, segments, failures>>
vars == <<image, opts, pending, flat_wordlist, pc, dedup>>

Byte(i) == image[i + 1]
Size == Len(image)
Text(start, length) == SubSeq(image, start + 1, start + length)
Smaller(m, n) == IF m < n THEN m ELSE n

-----------------------------------------------------------------------------
(* Pass 1.                                                                 *)

WordChar(ch) == ch \in (IF opts.strings THEN 32..126 ELSE 33..126)

(* A backslash becomes four characters in the feature file.                *)
Quoted(word) ==
  FlattenSeq([i \in DOMAIN word |-> IF word[i] = 92 THEN <<92, 49, 51, 52>>
                                    ELSE <<word[i]>>])
Line(pos, word) == [pos |-> pos, word |-> Quoted(word)]

Brackets == {<<40, 41>>, <<60, 62>>, <<91, 93>>}
Bracketed(word) == Len(word) > 2 /\ <<Head(word), Last(word)>> \in Brackets
(* Mutant of Save: the position of a bracketed word is that of its         *)
(* bracket.                                                                *)
SaveUnshifted(pos, word) ==
  IF Len(word) \notin opts.word_min..opts.word_max THEN <<>>
  ELSE <<Line(pos, word)>> \o
         IF Bracketed(word) THEN <<Line(pos, Tail(Front(word)))>> ELSE <<>>
Save(pos, word) ==
  IF Len(word) \notin opts.word_min..opts.word_max THEN <<>>
  ELSE <<Line(pos, word)>> \o
         IF Bracketed(word) THEN <<Line(pos + 1, Tail(Front(word)))>> ELSE <<>>

(* Mutant of Step: the scanner stops at the end of the page, in a word or  *)
(* not.                                                                    *)
StepStopsAtPage(s, i, page) ==
  IF i > page.pagesize THEN [s EXCEPT !.quit = TRUE]
  ELSE LET is_wordchar == WordChar(Byte(page.start + i)) IN
    IF s.in_word /\ ~is_wordchar
    THEN [s EXCEPT !.in_word = FALSE,
                   !.out = @ \o Save(page.start + s.wordstart,
                                     Text(page.start + s.wordstart, i - s.wordstart))]
    ELSE IF ~s.in_word /\ is_wordchar THEN [s EXCEPT !.in_word = TRUE, !.wordstart = i]
    ELSE s
(* One character; `start` is where the buffer begins, `i` is relative.     *)
Step(s, i, page) ==
  LET is_wordchar == WordChar(Byte(page.start + i)) IN
  CASE s.quit -> s
    [] ~s.quit /\ ~s.in_word ->
         [s EXCEPT !.in_word = is_wordchar,
                   !.wordstart = IF is_wordchar THEN i ELSE @,
                   !.quit = i > page.pagesize]
    [] ~s.quit /\ s.in_word /\ ~is_wordchar ->
         [s EXCEPT !.in_word = FALSE, !.wordstart = 0,
                   !.out = @ \o Save(page.start + s.wordstart,
                                     Text(page.start + s.wordstart, i - s.wordstart))]
    [] OTHER -> s

(* Mutant of PageAt: the page does not know where its margin begins.       *)
PageAtUnbounded(start) ==
  [start |-> start, pagesize |-> Smaller(opts.pagesize + opts.margin, Size - start),
   bufsize |-> Smaller(opts.pagesize + opts.margin, Size - start)]
PageAt(start) ==
  [start |-> start, pagesize |-> Smaller(opts.pagesize, Size - start),
   bufsize |-> Smaller(opts.pagesize + opts.margin, Size - start)]
Pages == {PageAt(k * opts.pagesize) : k \in {k \in 0..Size : k * opts.pagesize < Size}}

Words(page) ==
  LET Scan[n \in 0..page.bufsize] ==
        IF n = 0 THEN [in_word |-> FALSE, wordstart |-> 0, quit |-> FALSE, out |-> <<>>]
        ELSE Step(Scan[n - 1], n - 1, page)
  IN Scan[page.bufsize].out

Init ==
  /\ image \in Images
  /\ opts \in Options
  /\ pending = [page \in Pages |-> Words(page)]
  /\ flat_wordlist = <<>>
  /\ pc = "scan"
  /\ unread = <<>>
  /\ seen_wordlist = {}
  /\ segments = <<>>
  /\ failures = 0

(* The pages are scanned by different threads: their words mix.            *)
Write(page) ==
  /\ pc = "scan" /\ pending[page] # <<>>
  /\ flat_wordlist' = Append(flat_wordlist, Head(pending[page]))
  /\ pending' = [pending EXCEPT ![page] = Tail(@)]
  /\ UNCHANGED <<image, opts, pc, dedup>>

-----------------------------------------------------------------------------
(* Pass 2: Scan_Wordlist::shutdown.                                        *)

(* Mutant of SortsBefore: the order of std::string, a prefix first.        *)
SortsBeforeByText(a, b) ==
  \/ a # b /\ IsPrefix(a, b)
  \/ \E i \in DOMAIN a \intersect DOMAIN b :
       a[i] < b[i] /\ \A j \in 1..(i - 1) : a[j] = b[j]
(* WordlistSorter.                                                         *)
SortsBefore(a, b) ==
  \/ Len(a) < Len(b)
  \/ /\ Len(a) = Len(b)
     /\ \E i \in DOMAIN a : a[i] < b[i] /\ \A j \in 1..(i - 1) : a[j] = b[j]

(* The order in which the set hands out its words.                         *)
Sorted(words) ==
  CHOOSE s \in [1..Cardinality(words) -> words] :
    \A m, n \in DOMAIN s : m < n => SortsBefore(s[m], s[n])
Dumped(words) == IF words = {} THEN segments ELSE Append(segments, Sorted(words))

Shutdown ==
  /\ pc = "scan" /\ \A page \in DOMAIN pending : pending[page] = <<>>
  /\ IF opts.strings THEN pc' = "done" /\ UNCHANGED unread
     ELSE pc' = "dedup" /\ unread' = flat_wordlist
  /\ UNCHANGED <<image, opts, pending, flat_wordlist, seen_wordlist, segments, failures>>

(* Nothing ever adds to outfilesize.                                       *)
outfilesize == 0
Insert ==
  /\ pc = "dedup" /\ unread # <<>>
  /\ unread' = Tail(unread)
  /\ LET words == seen_wordlist \union {Head(unread).word} IN
       IF outfilesize > opts.max_output_file_size
       THEN seen_wordlist' = {} /\ segments' = Dumped(words)
       ELSE seen_wordlist' = words /\ UNCHANGED segments
  /\ UNCHANGED <<image, opts, pending, flat_wordlist, pc, failures>>

(* Mutant of InsertFails: the words in memory are dropped when memory runs *)
(* out.                                                                    *)
InsertFailsDrop ==
  /\ pc = "dedup" /\ unread # <<>> /\ failures < MaxFailures
  /\ unread' = Tail(unread)
  /\ seen_wordlist' = {}
  /\ failures' = failures + 1
  /\ UNCHANGED <<image, opts, pending, flat_wordlist, pc, segments>>
(* std::bad_alloc.                                                         *)
InsertFails ==
  /\ pc = "dedup" /\ unread # <<>> /\ failures < MaxFailures
  /\ unread' = Tail(unread)
  /\ seen_wordlist' = {}
  /\ segments' = Dumped(seen_wordlist)
  /\ failures' = failures + 1
  /\ UNCHANGED <<image, opts, pending, flat_wordlist, pc>>

Dump ==
  /\ pc = "dedup" /\ unread = <<>>
  /\ segments' = Dumped(seen_wordlist)
  /\ seen_wordlist' = {}
  /\ pc' = "done"
  /\ UNCHANGED <<image, opts, pending, flat_wordlist, unread, failures>>

Next ==
  \/ \E page \in DOMAIN pending : Write(page)
  \/ Shutdown \/ Insert \/ InsertFails \/ Dump

Spec == Init /\ [][Next]_vars

-----------------------------------------------------------------------------
(* Reference definitions: the words of the image, without pages.           *)

Separated(i) == i < 0 \/ i >= Size \/ ~WordChar(Byte(i))
(* [start, start+length) is a whole word with something behind it.         *)
WholeWord(start, length) ==
  /\ Separated(start - 1) /\ Separated(start + length)
  /\ \A i \in start..(start + length - 1) : ~Separated(i)
Legal == {w \in (0..Size) \X (opts.word_min..opts.word_max) :
            w[2] > 0 /\ w[1] + w[2] <= Size /\ WholeWord(w[1], w[2])}
InSegments(word) == \E n \in DOMAIN segments : word \in Range(segments[n])
InFlatFile == {flat_wordlist[n].word : n \in DOMAIN flat_wordlist}
AtPageStart(pos) == pos % opts.pagesize = 0
Begins(pos) == Separated(pos - 1) \/ AtPageStart(pos)
Cut(pos, length) ==
  Begins(pos) /\ Separated(pos + length) /\ \A i \in pos..(pos + length - 1) : ~Separated(i)
FirstDifference(a, b) ==
  CHOOSE i \in DOMAIN a : a[i] # b[i] /\ SubSeq(a, 1, i - 1) = SubSeq(b, 1, i - 1)
Precedes(a, b) ==
  /\ a # b /\ Len(a) <= Len(b)
  /\ Len(a) = Len(b) => a[FirstDifference(a, b)] < b[FirstDifference(a, b)]

(* If the margin holds the longest word, every word of the image that has  *)
(* a character behind it is in the feature file at its position, whichever *)
(* page it begins in and whichever page border it crosses.                 *)
AllWordsWritten ==
  (pc # "scan" /\ opts.margin >= opts.word_max) =>
    \A w \in Legal :
      w[1] + w[2] < Size => Line(w[1], Text(w[1], w[2])) \in Range(flat_wordlist)

(* What is written is in the image where the line says, ends where a word  *)
(* ends, and begins where a word or a page does, but for the brackets.     *)
NothingInvented ==
  \A n \in DOMAIN flat_wordlist :
    \E length \in 1..Size :
      LET line == flat_wordlist[n] IN
        /\ line.pos + length <= Size
        /\ line.word = Quoted(Text(line.pos, length))
        /\ \/ Cut(line.pos, length)
           \/ line.pos > 0 /\ Cut(line.pos - 1, length + 2)

(* A word is written twice only if it begins where a page does: pages that *)
(* overlap in the margin leave each other's words alone.                   *)
TwiceOnlyAtPageStart ==
  \A m, n \in DOMAIN flat_wordlist :
    m < n /\ flat_wordlist[m] = flat_wordlist[n] =>
      LET pos == flat_wordlist[m].pos IN
        AtPageStart(pos) \/ (AtPageStart(pos - 1) /\ ~Separated(pos - 1))

(* Each file of pass 2 is sorted, shortest first, without a duplicate; if  *)
(* memory never runs out there is one such file, and it has no duplicate   *)
(* of any other.                                                           *)
SegmentsSorted ==
  /\ \A n \in DOMAIN segments :
       \A i, j \in DOMAIN segments[n] :
         i < j => Precedes(segments[n][i], segments[n][j])
  /\ failures = 0 => Len(segments) <= 1

(* Pass 2 writes the words of the feature file and no others; each time    *)
(* memory runs out it loses at most the word it had read.                  *)
WordsKept ==
  pc = "done" /\ ~opts.strings =>
    /\ \A n \in DOMAIN segments : Range(segments[n]) \subseteq InFlatFile
    /\ Cardinality({word \in InFlatFile : ~InSegments(word)}) <= failures

(* Pass 1 is right, although its pages are cut and scanned apart.          *)
WordsFound == AllWordsWritten /\ NothingInvented /\ TwiceOnlyAtPageStart

(* Pass 2 is right, although it may run out of memory in the middle.       *)
WordsSorted == SegmentsSorted /\ WordsKept
=============================================================================
