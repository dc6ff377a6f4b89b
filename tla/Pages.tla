------------------------------- MODULE Pages -------------------------------
(***************************************************************************)
(* How an image becomes pages: image_process.cpp (raw images in one or     *)
(* several files, EWF images, directories), the loop over its iterator in  *)
(* phase1.cpp (read_process_sbufs), and the rule for the margin in         *)
(* be20_api/feature_recorder.cpp (write_buf).  The other threads, the      *)
(* pages of an interrupted run and the hash of the image are in            *)
(* ThreadPool and Phase1.                                                  *)
(*                                                                         *)
(* A byte of an image is its position in it.                               *)
(***************************************************************************)
EXTENDS Integers, Sequences, FiniteSets

CONSTANTS
  Images,       \* records [kind, lengths]: "raw", "ewf" or "dir", and the
                \* lengths of the files; an EWF image counts as one file
  Options,      \* records [pagesize, margin, scan_start, scan_end,
                \* page_start, one_in]; one_in is 0 without sampling
  ReadsMayFail  \* whether a file can be shorter than it was, or unreadable

ASSUME ImagesAssumption ==
  \A image \in Images : /\ image.kind \in {"raw", "ewf", "dir"}
                        /\ image.lengths \in Seq(Nat)
ASSUME OptionsAssumption ==
  \A o \in Options : /\ o.pagesize \in Nat \ {0} /\ o.margin \in Nat
                     /\ o.scan_start \in Nat /\ o.scan_end \in Nat
                     /\ o.page_start \in Nat
                     /\ o.one_in \in {0} \union {n \in Nat : n >= 6}

VARIABLES
  pc,        \* where the reader is
  image,     \* the image
  opts,      \* the options
  file_list, \* the files that were found: [offset, length]
  filesize,  \* raw_filesize, ewf_filesize
  it,        \* the iterator
  blocks,    \* the blocks still to be sampled
  count,     \* the bytes wanted for the page
  buf,       \* those read so far
  pages,     \* history: the pages scheduled
  missed,    \* history: where a page could not be read
  cut        \* history: whether a file was found shorter

files == <<image, opts, file_list, filesize>>
history == <<pages, missed, cut>>
vars == <<pc, files, it, blocks, count, buf, history>>

Dir == image.kind = "dir"
Sampling == opts.one_in # 0
Smaller(m, n) == IF m < n THEN m ELSE n
Least(x, S) == \A y \in S : x <= y

Iterator(offset, number, eof) ==
  [raw_offset |-> offset, page_number |-> 0, file_number |-> number, eof |-> eof]

Init ==
  /\ pc = "open"
  /\ image \in Images
  /\ opts \in Options
  /\ file_list = <<>>
  /\ filesize = 0
  /\ it = Iterator(0, 0, FALSE)
  /\ blocks = {}
  /\ count = 0
  /\ buf = <<>>
  /\ pages = {}
  /\ missed = {}
  /\ cut = FALSE

-----------------------------------------------------------------------------
(* Opening: the next file of a split image, or of a directory.             *)

Found == Len(file_list)
AddFile ==
  /\ pc = "open" /\ Found < Len(image.lengths)
  /\ LET length == image.lengths[Found + 1] IN
       /\ file_list' = Append(file_list, [offset |-> filesize, length |-> length])
       /\ filesize' = IF Dir THEN filesize ELSE filesize + length
  /\ UNCHANGED <<pc, image, opts, it, blocks, count, buf, history>>

(* A partial last block counts for a raw image, not for an EWF image.      *)
MaxBlocks ==
  CASE image.kind = "raw" -> (filesize + opts.pagesize - 1) \div opts.pagesize
    [] image.kind = "ewf" -> filesize \div opts.pagesize
    [] Dir -> Found
(* As many different blocks as the fraction asks for, MaxBlocks possibly   *)
(* among them.                                                             *)
Samples ==
  {S \in SUBSET (0..MaxBlocks) :
     Cardinality(S) = (MaxBlocks + opts.one_in - 1) \div opts.one_in}

Begin ==
  /\ pc = "open" /\ Found = Len(image.lengths)
  /\ pc' = "loop"
  /\ it' = Iterator(opts.scan_start, 0, FALSE)
  /\ IF Sampling THEN blocks' \in Samples ELSE blocks' = {}
  /\ UNCHANGED <<files, count, buf, history>>

-----------------------------------------------------------------------------
(* The loop.                                                               *)

(* The iterator equals end().                                              *)
AtEnd ==
  \/ it.eof
  \/ /\ it.raw_offset = IF Dir THEN 0 ELSE filesize
     /\ it.file_number = IF Dir THEN Found ELSE 0

Finish ==
  /\ pc = "loop"
  /\ AtEnd \/ (Sampling /\ blocks = {})
  /\ pc' = "done"
  /\ UNCHANGED <<files, it, blocks, count, buf, history>>

(* seek_block: a raw image has nothing beyond its last block.              *)
Sought(block) ==
  CASE image.kind = "raw" ->
         [it EXCEPT !.raw_offset =
            (IF block * opts.pagesize > filesize THEN filesize \div opts.pagesize
             ELSE block) * opts.pagesize]
    [] image.kind = "ewf" -> [it EXCEPT !.raw_offset = block * opts.pagesize]
    [] Dir -> [it EXCEPT !.file_number = block]

Seek ==
  /\ pc = "loop" /\ ~AtEnd
  /\ pc' = "page"
  /\ IF Sampling THEN \E b \in blocks : Least(b, blocks) /\ it' = Sought(b)
                 ELSE it' = it
  /\ UNCHANGED <<files, blocks, count, buf, history>>

Beyond == opts.scan_end # 0 /\ opts.scan_end <= it.raw_offset
StopAtScanEnd ==
  /\ pc = "page" /\ Beyond
  /\ pc' = "done"
  /\ UNCHANGED <<files, it, blocks, count, buf, history>>

(* operator++: page_number is not touched.                                 *)
Incremented(i) ==
  IF Dir THEN [i EXCEPT !.file_number = Smaller(@ + 1, Found)]
  ELSE [i EXCEPT !.raw_offset = Smaller(@ + opts.pagesize, filesize)]

(* The end of the loop's body.                                             *)
Advance(i) ==
  /\ pc' = "loop"
  /\ it' = Incremented(i)
  /\ blocks' = {b \in blocks : ~Least(b, blocks)}

Wanted == opts.page_start <= it.page_number /\ opts.scan_start <= it.raw_offset
Skip ==
  /\ pc = "page" /\ ~Beyond /\ ~Wanted
  /\ Advance(it)
  /\ UNCHANGED <<files, count, buf, history>>

(* Mutant of Miss: the loop goes on without the increment.                 *)
MissAndRetry ==
  /\ missed' = missed \union {<<it.file_number, it.raw_offset>>}
  /\ pc' = "loop"
  /\ UNCHANGED <<files, it, blocks, count, buf, pages, cut>>
Miss ==
  /\ missed' = missed \union {<<it.file_number, it.raw_offset>>}
  /\ Advance(it)
  /\ UNCHANGED <<files, count, buf, pages, cut>>
Crash ==
  /\ pc' = "crashed"
  /\ UNCHANGED <<files, it, blocks, count, buf, history>>

-----------------------------------------------------------------------------
(* A page of a directory is a file, and there is no file at Found.         *)

AtFile == pc = "page" /\ ~Beyond /\ Wanted /\ Dir
NoSuchFile == AtFile /\ it.file_number >= Found /\ Crash
MapFails == AtFile /\ it.file_number < Found /\ ReadsMayFail /\ Miss
MapFile ==
  /\ AtFile /\ it.file_number < Found
  /\ LET length == file_list[it.file_number + 1].length IN
       pages' = pages \union
         {[file |-> it.file_number, from |-> 0, size |-> length,
           bytes |-> [i \in 1..length |-> i - 1]]}
  /\ Advance(it)
  /\ UNCHANGED <<files, count, buf, missed, cut>>

-----------------------------------------------------------------------------
(* A page of an image: sbuf_alloc and pread.                               *)

AtImage == pc = "page" /\ ~Beyond /\ Wanted /\ ~Dir

(* Past the end the number of bytes wraps around, and no memory is given.  *)
(* At the end there are none, and a raw image does not get the buffer,     *)
(* because malloc_buf throws if there is none; an EWF image does not ask.  *)
NoBuffer == it.raw_offset > filesize \/ (it.raw_offset = filesize /\ image.kind = "raw")
AllocFails == AtImage /\ NoBuffer /\ Miss

Alloc ==
  /\ AtImage /\ ~NoBuffer
  /\ count' = Smaller(opts.pagesize + opts.margin, filesize - it.raw_offset)
  /\ buf' = <<>>
  /\ pc' = "read"
  /\ UNCHANGED <<files, it, blocks, history>>

(* Mutant of Position: the rest is read from where the page begins.        *)
PositionOfPage == it.raw_offset
(* The next byte to be read, and the file that has it.                     *)
Position == it.raw_offset + Len(buf)
Has(f) == f.offset <= Position /\ Position < f.offset + f.length
Reading == pc = "read" /\ Len(buf) < count

Wants(f) == Smaller(count - Len(buf), f.offset + f.length - Position)
Bytes(n) == [i \in 1..n |-> Position + i - 1]

(* Mutant of ReadFile: a page ends where its file does.                    *)
ReadOneFile(f) ==
  /\ Reading /\ Has(f)
  /\ buf' = buf \o Bytes(Wants(f))
  /\ count' = Len(buf')
  /\ UNCHANGED <<pc, files, it, blocks, history>>
ReadFile(f) ==
  /\ Reading /\ Has(f)
  /\ buf' = buf \o Bytes(Wants(f))
  /\ UNCHANGED <<pc, files, it, blocks, count, history>>
(* The file ends early: what was read is all there is to the page.         *)
ReadShort(f) ==
  /\ Reading /\ Has(f) /\ ReadsMayFail
  /\ \E n \in 0..Wants(f) - 1 : /\ buf' = buf \o Bytes(n)
                                /\ count' = Len(buf) + n
  /\ cut' = TRUE
  /\ UNCHANGED <<pc, files, it, blocks, pages, missed>>
ReadFails(f) == Reading /\ Has(f) /\ ReadsMayFail /\ Miss

(* Mutant of ReadNothing: no page from a raw image either.                 *)
ReadNoPage == pc = "read" /\ count = 0 /\ Crash
(* Nothing was read: a raw image throws EndOfImage, an EWF image, also at  *)
(* its end, returns no page and the reader uses it.                        *)
ReadNothing ==
  /\ pc = "read" /\ count = 0
  /\ IF image.kind = "raw"
       THEN /\ Advance([it EXCEPT !.eof = TRUE])
            /\ UNCHANGED <<files, count, buf, history>>
       ELSE Crash

(* Mutant of Page: the margin belongs to the page.                         *)
PageWithMargin ==
  [file |-> it.file_number, from |-> it.raw_offset, size |-> count, bytes |-> buf]
Page ==
  [file |-> it.file_number, from |-> it.raw_offset,
   size |-> Smaller(opts.pagesize, count), bytes |-> buf]
Schedule ==
  /\ pc = "read" /\ count > 0 /\ Len(buf) = count
  /\ pages' = pages \union {Page}
  /\ Advance(it)
  /\ UNCHANGED <<files, count, buf, missed, cut>>

Ended == pc \in {"done", "crashed"} /\ UNCHANGED vars

Read == \/ \E i \in DOMAIN file_list :
             LET f == file_list[i] IN ReadFile(f) \/ ReadShort(f) \/ ReadFails(f)
        \/ ReadNothing \/ Schedule
Next ==
  \/ AddFile \/ Begin \/ Finish \/ Seek \/ StopAtScanEnd \/ Skip
  \/ NoSuchFile \/ MapFails \/ MapFile \/ AllocFails \/ Alloc \/ Read \/ Ended

Spec == Init /\ [][Next]_vars
FairSpec == Spec /\ WF_vars(Next)

-----------------------------------------------------------------------------
(* write_buf, asked by a scanner that found a feature of length n at       *)
(* position x of the image in the buffer of page p.                        *)

(* Mutant of Writes: a feature in the margin is written.                   *)
WritesInMargin(p, x, n) == p.from <= x /\ x + n <= p.from + Len(p.bytes)
Writes(p, x, n) ==
  /\ p.from <= x /\ x + n <= p.from + Len(p.bytes)
  /\ x - p.from < p.size

-----------------------------------------------------------------------------
(* Properties.                                                             *)

TypeOK ==
  /\ pc \in {"open", "loop", "page", "read", "done", "crashed"}
  /\ image \in Images /\ opts \in Options
  /\ file_list \in Seq([offset : Nat, length : Nat])
  /\ filesize \in Nat /\ count \in Nat
  /\ it \in [raw_offset : Nat, page_number : Nat, file_number : Nat, eof : BOOLEAN]
  /\ blocks \subseteq Nat
  /\ buf \in Seq(Nat)
  /\ pages \subseteq [file : Nat, from : Nat, size : Nat, bytes : Seq(Nat)]
  /\ missed \subseteq Nat \X Nat
  /\ cut \in BOOLEAN

(* The bytes of a page are those of the image from its offset on, also     *)
(* across the files of a split image and when a read comes up short, and   *)
(* the page without its margin is not larger than the buffer               *)
(* (image_process.cpp:54-60, 646-736, 786-814).                            *)
BytesRight ==
  \A p \in pages :
    /\ p.size <= Len(p.bytes)
    /\ ~Dir => p.size <= opts.pagesize
    /\ \A i \in DOMAIN p.bytes : p.bytes[i] = p.from + i - 1

Disjoint(p, q) ==
  p.file # q.file \/ p.from + p.size <= q.from \/ q.from + q.size <= p.from
(* No byte is in two pages, and no file of a directory is read twice,      *)
(* whatever is sampled although one block more than there are may be asked *)
(* for (image_process.cpp:759-829, phase1.cpp:124-128).                    *)
PagesDisjoint == \A p, q \in pages : p # q => Disjoint(p, q)

Whole == pc = "done" /\ ~Sampling /\ opts.page_start = 0 /\ ~cut
Limit == IF opts.scan_end = 0 THEN filesize ELSE Smaller(filesize, opts.scan_end)
(* Without sampling every byte from scan_start to scan_end is in a page,   *)
(* or in one that could not be read (phase1.cpp:155-228).                  *)
EveryByteRead ==
  Whole /\ ~Dir =>
    \A b \in opts.scan_start..Limit - 1 :
      \/ \E p \in pages : b \in p.from..p.from + p.size - 1
      \/ \E m \in missed : b \in m[2]..m[2] + opts.pagesize - 1

(* A feature that is not longer than the margin by more than one byte is   *)
(* written for one page, the one it begins in, if all could be read        *)
(* (feature_recorder.cpp:217-224).                                         *)
FeaturesOnce ==
  Whole /\ ~Dir /\ missed = {} =>
    \A x \in opts.scan_start..Limit - 1 : \A n \in 1..opts.margin + 1 :
      x + n <= filesize => Cardinality({p \in pages : Writes(p, x, n)}) = 1

(* Sampling reads whole pages of the image, and not more of them than the  *)
(* fraction asks for (phase1.cpp:115-129, image_process.cpp:816-829).      *)
SampledPages ==
  Sampling /\ pc # "open" =>
    /\ Cardinality(pages) + Cardinality(missed) + Cardinality(blocks)
         <= (MaxBlocks + opts.one_in - 1) \div opts.one_in
    /\ \A p \in pages : p.from % opts.pagesize = 0

(* The reader comes to an invalid page only if sampling takes it to the    *)
(* block past the last, an offset past the end of a directory, or an EWF   *)
(* image gives nothing (phase1.cpp:149-151, 196, image_process.cpp:330,    *)
(* 905).                                                                   *)
CrashesBeyondOnly ==
  pc = "crashed" => \/ Sampling /\ image.kind # "raw"
                    \/ Dir /\ opts.scan_start > 0
                    \/ cut /\ image.kind = "ewf"

(* Sampling neither reads too much nor goes astray.                        *)
SamplingBounded == SampledPages /\ CrashesBeyondOnly

(* The reader comes to an end.                                             *)
ReaderEnds == <>(pc \in {"done", "crashed"})

(* What the manual says and the code does not do: -z PAGE begins at a page *)
(* number (BECurrentGuide.tex:881).                                        *)
BeginsAtPageStart ==
  pc = "done" /\ ~Sampling /\ ~Dir /\ ~cut /\ opts.scan_start = 0 /\ opts.scan_end = 0 =>
    \A b \in opts.page_start * opts.pagesize..filesize - 1 :
      \/ \E p \in pages : b \in p.from..p.from + p.size - 1
      \/ \E m \in missed : b \in m[2]..m[2] + opts.pagesize - 1

(* No byte is in two pages, with sampling or without, and sampling neither *)
(* reads too much nor goes astray.                                         *)
PagesRight == PagesDisjoint /\ SamplingBounded
=============================================================================
