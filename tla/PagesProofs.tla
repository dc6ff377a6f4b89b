---------------------------- MODULE PagesProofs ----------------------------
(***************************************************************************)
(* Proofs about Pages, for images, page sizes, margins and ranges of any   *)
(* size, with reads that fail or come up short anywhere.                   *)
(***************************************************************************)
EXTENDS Pages, SequenceTheorems, FiniteSetTheorems, TLAPS

PageRecords == [file : Nat, from : Nat, size : Nat, bytes : Seq(Nat)]
Iterators == [raw_offset : Nat, page_number : {0}, file_number : Nat, eof : BOOLEAN]

(* TypeOK, with the page number at 0, where it stays.                      *)
TypeInv == /\ TypeOK
           /\ it \in Iterators

LEMMA OptionsTyped ==
  ASSUME TypeOK
  PROVE  /\ opts.pagesize \in Nat /\ opts.pagesize > 0 /\ opts.margin \in Nat
         /\ opts.scan_start \in Nat /\ opts.scan_end \in Nat /\ opts.page_start \in Nat
  BY OptionsAssumption DEF TypeOK

LEMMA IncrementedTyped ==
  ASSUME TypeInv, NEW i \in Iterators
  PROVE  /\ Incremented(i) \in Iterators
         /\ Incremented(i).eof = i.eof
         /\ Dir => /\ Incremented(i).raw_offset = i.raw_offset
                   /\ Incremented(i).file_number = Smaller(i.file_number + 1, Found)
         /\ ~Dir => /\ Incremented(i).file_number = i.file_number
                    /\ Incremented(i).raw_offset =
                         Smaller(i.raw_offset + opts.pagesize, filesize)
<1>1. filesize \in Nat /\ opts.pagesize \in Nat /\ Found \in Nat
  BY OptionsTyped DEF TypeInv, TypeOK, Found
<1>2. CASE Dir
  BY <1>1, <1>2 DEF Incremented, Iterators, Smaller
<1>3. CASE ~Dir
  BY <1>1, <1>3 DEF Incremented, Iterators, Smaller
<1> QED
  BY <1>2, <1>3

LEMMA SoughtTyped ==
  ASSUME TypeInv, NEW b \in Nat
  PROVE  /\ Sought(b) \in Iterators
         /\ Sought(b).eof = it.eof
<1>1. filesize \in Nat /\ opts.pagesize \in Nat \ {0} /\ it \in Iterators
  BY OptionsTyped DEF TypeInv, TypeOK
<1>2. b * opts.pagesize \in Nat
  BY <1>1
<1>3. filesize \div opts.pagesize \in Nat
  BY <1>1
<1>4. (filesize \div opts.pagesize) * opts.pagesize \in Nat
  BY <1>1, <1>3
<1>5. image.kind \in {"raw", "ewf", "dir"}
  BY ImagesAssumption DEF TypeInv, TypeOK
<1>6. CASE image.kind = "raw"
  BY <1>1, <1>2, <1>4, <1>6 DEF Sought, Iterators, Dir
<1>7. CASE image.kind = "ewf"
  BY <1>1, <1>2, <1>7 DEF Sought, Iterators, Dir
<1>8. CASE image.kind = "dir"
  BY <1>1, <1>8 DEF Sought, Iterators, Dir
<1> QED
  BY <1>5, <1>6, <1>7, <1>8

(* What a read adds to the buffer.                                         *)
LEMMA BytesRead ==
  ASSUME TypeInv, NEW n \in Nat
  PROVE  /\ buf \o Bytes(n) \in Seq(Nat)
         /\ Len(buf \o Bytes(n)) = Len(buf) + n
         /\ \A i \in DOMAIN (buf \o Bytes(n)) :
              (buf \o Bytes(n))[i] = IF i <= Len(buf) THEN buf[i]
                                     ELSE it.raw_offset + i - 1
<1>1. buf \in Seq(Nat) /\ it.raw_offset \in Nat
  BY DEF TypeInv, TypeOK
<1>2. Len(buf) \in Nat /\ Position \in Nat
  BY <1>1 DEF Position
<1> DEFINE more == Bytes(n)
<1>3. /\ more \in Seq(Nat) /\ Len(more) = n
      /\ \A i \in 1..n : more[i] = Position + i - 1
  BY <1>2 DEF Bytes
<1>4. /\ buf \o more \in Seq(Nat)
      /\ Len(buf \o more) = Len(buf) + n
      /\ \A i \in 1..Len(buf) + n :
           (buf \o more)[i] = IF i <= Len(buf) THEN buf[i] ELSE more[i - Len(buf)]
  <2> HIDE DEF more
  <2> QED
    BY <1>1, <1>3, ConcatProperties
<1>5. DOMAIN (buf \o more) = 1..Len(buf) + n
  <2> HIDE DEF more
  <2> QED
    BY <1>4, LenProperties
<1>6. \A i \in 1..Len(buf) + n :
        i > Len(buf) => i - Len(buf) \in 1..n /\ more[i - Len(buf)] = it.raw_offset + i - 1
  BY <1>1, <1>2, <1>3 DEF Position
<1> HIDE DEF more
<1> QED
  BY <1>2, <1>4, <1>5, <1>6 DEF more

LEMMA WantsTyped ==
  ASSUME TypeInv, Reading, NEW k \in DOMAIN file_list, Has(file_list[k])
  PROVE  /\ Wants(file_list[k]) \in Nat
         /\ Wants(file_list[k]) <= count - Len(buf)
<1>1. file_list[k] \in [offset : Nat, length : Nat]
  BY ElementOfSeq, LenProperties DEF TypeInv, TypeOK
<1>2. Len(buf) \in Nat /\ count \in Nat /\ it.raw_offset \in Nat
  BY LenProperties DEF TypeInv, TypeOK
<1> QED
  BY <1>1, <1>2 DEF Reading, Has, Wants, Position, Smaller

-----------------------------------------------------------------------------
LEMMA TypeInvInit == Init => TypeInv
<1> SUFFICES ASSUME Init PROVE TypeInv
  OBVIOUS
<1>1. /\ file_list \in Seq([offset : Nat, length : Nat])
      /\ buf \in Seq(Nat)
  BY EmptySeq DEF Init
<1>2. it \in Iterators
  BY DEF Init, Iterator, Iterators
<1>3. it \in [raw_offset : Nat, page_number : Nat, file_number : Nat, eof : BOOLEAN]
  BY <1>2 DEF Iterators
<1>4. /\ pc \in {"open", "loop", "page", "read", "done", "crashed"}
      /\ image \in Images /\ opts \in Options
      /\ filesize \in Nat /\ count \in Nat /\ cut \in BOOLEAN
  BY DEF Init
<1>5. blocks = {} /\ pages = {} /\ missed = {}
  BY DEF Init
<1> QED
  BY <1>1, <1>2, <1>3, <1>4, <1>5 DEF TypeInv, TypeOK

LEMMA AdvanceTyped ==
  ASSUME TypeInv, NEW i \in Iterators, Advance(i)
  PROVE  it' \in Iterators /\ blocks' \subseteq Nat /\ pc' = "loop"
  BY IncrementedTyped DEF Advance, TypeInv, TypeOK

LEMMA TypeInvStep == TypeInv /\ [Next]_vars => TypeInv'
<1> SUFFICES ASSUME TypeInv, [Next]_vars PROVE TypeInv'
  OBVIOUS
<1> USE DEF files, history
<1>0. /\ TypeOK /\ it \in Iterators
      /\ filesize \in Nat /\ count \in Nat /\ buf \in Seq(Nat)
      /\ it.raw_offset \in Nat /\ it.file_number \in Nat
  BY DEF TypeInv, TypeOK, Iterators
<1>1. CASE AddFile
  <2>1. image.lengths \in Seq(Nat)
    BY <1>0, ImagesAssumption DEF TypeOK
  <2>2. image.lengths[Found + 1] \in Nat
    BY <1>0, <1>1, <2>1 DEF AddFile, Found, TypeOK
  <2>3. file_list' \in Seq([offset : Nat, length : Nat])
    BY <1>0, <1>1, <2>2, AppendProperties DEF AddFile, TypeOK
  <2>4. filesize' \in Nat
    BY <1>0, <1>1, <2>2 DEF AddFile
  <2> QED
    BY <1>0, <1>1, <2>3, <2>4 DEF AddFile, TypeInv, TypeOK
<1>2. CASE Begin
  <2>1. it' \in Iterators
    BY <1>0, <1>2, OptionsTyped DEF Begin, Iterator, Iterators
  <2>2. blocks' \subseteq Nat
    BY <1>2 DEF Begin, Samples
  <2> QED
    BY <1>0, <1>2, <2>1, <2>2 DEF Begin, TypeInv, TypeOK, Iterators
<1>3. CASE Finish
  BY <1>0, <1>3 DEF Finish, TypeInv, TypeOK
<1>4. CASE Seek
  <2>1. it' \in Iterators
    BY <1>0, <1>4, SoughtTyped DEF Seek, TypeOK
  <2> QED
    BY <1>0, <1>4, <2>1 DEF Seek, TypeInv, TypeOK, Iterators
<1>5. CASE StopAtScanEnd
  BY <1>0, <1>5 DEF StopAtScanEnd, TypeInv, TypeOK
<1>6. CASE Skip
  BY <1>0, <1>6, AdvanceTyped DEF Skip, TypeInv, TypeOK, Iterators
<1>7. CASE NoSuchFile
  BY <1>0, <1>7 DEF NoSuchFile, Crash, TypeInv, TypeOK
<1>8. ASSUME Miss PROVE TypeInv'
  BY <1>0, <1>8, AdvanceTyped DEF Miss, TypeInv, TypeOK, Iterators
<1>9. CASE MapFile
  <2> DEFINE length == file_list[it.file_number + 1].length
  <2> DEFINE p == [file |-> it.file_number, from |-> 0, size |-> length,
                   bytes |-> [i \in 1..length |-> i - 1]]
  <2>1. length \in Nat
    <3>1. it.file_number + 1 \in 1..Len(file_list)
      BY <1>0, <1>9, LenProperties DEF MapFile, Found, TypeOK
    <3>2. file_list[it.file_number + 1] \in [offset : Nat, length : Nat]
      BY <1>0, <3>1, ElementOfSeq DEF TypeOK
    <3> QED
      BY <3>2
  <2>2. [i \in 1..length |-> i - 1] \in Seq(Nat)
    BY <2>1
  <2>3. p \in PageRecords
    BY <1>0, <2>1, <2>2 DEF PageRecords
  <2>4. pages' = pages \union {p}
    BY <1>9 DEF MapFile
  <2> QED
    BY <1>0, <1>9, <2>3, <2>4, AdvanceTyped DEF MapFile, TypeInv, TypeOK, Iterators, PageRecords
<1>10. CASE Alloc
  <2>1. count' \in Nat
    BY <1>0, <1>10, OptionsTyped DEF Alloc, NoBuffer, Smaller
  <2> QED
    BY <1>0, <1>10, <2>1 DEF Alloc, TypeInv, TypeOK
<1>11. ASSUME NEW k \in DOMAIN file_list, ReadFile(file_list[k]) PROVE TypeInv'
  <2>1. buf' \in Seq(Nat)
    BY <1>11, WantsTyped, BytesRead DEF ReadFile
  <2> QED
    BY <1>0, <1>11, <2>1 DEF ReadFile, TypeInv, TypeOK
<1>12. ASSUME NEW k \in DOMAIN file_list, ReadShort(file_list[k]) PROVE TypeInv'
  <2>1. PICK n \in 0..Wants(file_list[k]) - 1 :
          buf' = buf \o Bytes(n) /\ count' = Len(buf) + n
    BY <1>12 DEF ReadShort
  <2>2. n \in Nat
    BY <1>12, WantsTyped DEF ReadShort
  <2>3. buf' \in Seq(Nat) /\ count' \in Nat
    BY <1>0, <2>1, <2>2, BytesRead
  <2> QED
    BY <1>0, <1>12, <2>3 DEF ReadShort, TypeInv, TypeOK
<1>13. CASE ReadNothing
  <2>1. [it EXCEPT !.eof = TRUE] \in Iterators
    BY <1>0 DEF Iterators
  <2>2. CASE Advance([it EXCEPT !.eof = TRUE]) /\ UNCHANGED <<files, count, buf, history>>
    BY <1>0, <2>1, <2>2, AdvanceTyped DEF TypeInv, TypeOK, Iterators
  <2>3. CASE Crash
    BY <1>0, <2>3 DEF Crash, TypeInv, TypeOK
  <2> QED
    BY <1>13, <2>2, <2>3 DEF ReadNothing
<1>14. CASE Schedule
  <2>1. Page \in PageRecords
    BY <1>0, OptionsTyped DEF Page, PageRecords, Smaller
  <2> QED
    BY <1>0, <1>14, <2>1, AdvanceTyped DEF Schedule, TypeInv, TypeOK, Iterators, PageRecords
<1>15. CASE UNCHANGED vars
  BY <1>0, <1>15 DEF vars, TypeInv, TypeOK
<1> QED
  BY <1>1, <1>2, <1>3, <1>4, <1>5, <1>6, <1>7, <1>8, <1>9, <1>10, <1>11, <1>12, <1>13,
     <1>14, <1>15
  DEF Next, Read, MapFails, AllocFails, ReadFails, Ended

(* The variables of the reader keep their types: no number of bytes is     *)
(* negative, whatever the options and wherever a read fails (sbuf_alloc,   *)
(* pread).                                                                 *)
THEOREM PagesTypeCorrect == Spec => []TypeOK
<1>1. TypeInv => TypeOK
  BY DEF TypeInv
<1> QED
  BY TypeInvInit, TypeInvStep, <1>1, PTL DEF Spec
-----------------------------------------------------------------------------
(* While a page is read, the buffer has consecutive bytes from the page's  *)
(* offset on and not more than the image has; unless a file was shorter,   *)
(* as many are wanted as the page and its margin need.                     *)
BufferInv ==
  pc = "read" =>
    /\ ~Dir
    /\ Len(buf) <= count
    /\ it.raw_offset + count <= filesize
    /\ \A i \in DOMAIN buf : buf[i] = it.raw_offset + i - 1
    /\ ~cut => count = Smaller(opts.pagesize + opts.margin, filesize - it.raw_offset)

LEMMA BufferInvStep == TypeInv /\ BufferInv /\ [Next]_vars => BufferInv'
<1> SUFFICES ASSUME TypeInv, BufferInv, [Next]_vars PROVE BufferInv'
  OBVIOUS
<1> USE DEF files, history
<1>0. /\ filesize \in Nat /\ count \in Nat /\ buf \in Seq(Nat) /\ Len(buf) \in Nat
      /\ it.raw_offset \in Nat
      /\ opts.pagesize \in Nat /\ opts.pagesize > 0 /\ opts.margin \in Nat
  BY OptionsTyped, LenProperties DEF TypeInv, TypeOK
<1>1. CASE pc' # "read"
  BY <1>1 DEF BufferInv
<1>2. CASE Alloc
  <2>1. /\ ~Dir /\ Dir' = Dir /\ it' = it /\ filesize' = filesize /\ opts' = opts
        /\ buf' = <<>> /\ Len(buf') = 0 /\ DOMAIN buf' = {}
        /\ ~NoBuffer
        /\ count' = Smaller(opts.pagesize + opts.margin, filesize - it.raw_offset)
    BY <1>2 DEF Alloc, AtImage, Dir
  <2>2. count' \in Nat /\ it.raw_offset + count' <= filesize
    BY <1>0, <2>1 DEF NoBuffer, Smaller
  <2> QED
    BY <1>0, <2>1, <2>2 DEF BufferInv
<1>3. ASSUME NEW k \in DOMAIN file_list, ReadFile(file_list[k]) PROVE BufferInv'
  <2> DEFINE n == Wants(file_list[k])
  <2>1. n \in Nat /\ n <= count - Len(buf)
    BY <1>3, WantsTyped DEF ReadFile
  <2>2. pc = "read" /\ UNCHANGED <<pc, files, it, count, cut>> /\ Dir' = Dir
    BY <1>3 DEF ReadFile, Reading, Dir
  <2>3. /\ Len(buf') = Len(buf) + n
        /\ \A i \in DOMAIN buf' : buf'[i] = IF i <= Len(buf) THEN buf[i]
                                             ELSE it.raw_offset + i - 1
        /\ DOMAIN buf' = 1..Len(buf')
    BY <1>3, <2>1, BytesRead, LenProperties DEF ReadFile
  <2> HIDE DEF n
  <2>4. \A i \in 1..Len(buf) : buf[i] = it.raw_offset + i - 1
    BY <1>0, <2>2, LenProperties DEF BufferInv
  <2>5. \A i \in 1..Len(buf') : buf'[i] = it.raw_offset + i - 1
    BY <1>0, <2>1, <2>3, <2>4
  <2> QED
    BY <1>0, <2>1, <2>2, <2>3, <2>5 DEF BufferInv
<1>4. ASSUME NEW k \in DOMAIN file_list, ReadShort(file_list[k]) PROVE BufferInv'
  <2>1. PICK n \in 0..Wants(file_list[k]) - 1 :
          buf' = buf \o Bytes(n) /\ count' = Len(buf) + n
    BY <1>4 DEF ReadShort
  <2>2. Wants(file_list[k]) \in Nat /\ Wants(file_list[k]) <= count - Len(buf)
    BY <1>4, WantsTyped DEF ReadShort
  <2>3. n \in Nat /\ n <= count - Len(buf)
    BY <1>0, <2>2
  <2>4. pc = "read" /\ UNCHANGED <<pc, files, it>> /\ cut' = TRUE /\ Dir' = Dir
    BY <1>4 DEF ReadShort, Reading, Dir
  <2>5. /\ Len(buf') = Len(buf) + n
        /\ \A i \in DOMAIN buf' : buf'[i] = IF i <= Len(buf) THEN buf[i]
                                             ELSE it.raw_offset + i - 1
        /\ DOMAIN buf' = 1..Len(buf')
    BY <2>1, <2>3, BytesRead, LenProperties
  <2>6. /\ ~Dir /\ it.raw_offset + count <= filesize
        /\ \A i \in 1..Len(buf) : buf[i] = it.raw_offset + i - 1
    BY <1>0, <2>4, LenProperties DEF BufferInv
  <2>7. \A i \in 1..Len(buf') : buf'[i] = it.raw_offset + i - 1
    BY <1>0, <2>3, <2>5, <2>6
  <2>8. /\ it' = it /\ filesize' = filesize /\ Len(buf') <= count'
        /\ it.raw_offset + count' <= filesize
    BY <1>0, <2>1, <2>3, <2>4, <2>5, <2>6
  <2> QED
    BY <2>4, <2>5, <2>6, <2>7, <2>8 DEF BufferInv
<1>5. CASE UNCHANGED vars
  BY <1>5 DEF vars, BufferInv, Dir
<1>6. ASSUME pc' = "read"
      PROVE  \/ Alloc \/ UNCHANGED vars
             \/ \E k \in DOMAIN file_list :
                  ReadFile(file_list[k]) \/ ReadShort(file_list[k])
  BY <1>6 DEF Next, Read, AddFile, Begin, Finish, Seek, StopAtScanEnd, Skip, NoSuchFile, Crash,
     MapFails, MapFile, AllocFails, ReadFails, Miss, Advance, ReadNothing, Schedule, Ended
<1> QED
  BY <1>1, <1>2, <1>3, <1>4, <1>5, <1>6

-----------------------------------------------------------------------------
(* Only MapFile and Schedule add a page.                                   *)
FilePage(length) ==
  [file |-> it.file_number, from |-> 0, size |-> length,
   bytes |-> [i \in 1..length |-> i - 1]]

LEMMA FilePages ==
  ASSUME TypeInv, MapFile
  PROVE  \E length \in Nat : pages' = pages \union {FilePage(length)}
<1>1. it.file_number + 1 \in 1..Len(file_list) /\ it.file_number + 1 \in DOMAIN file_list
  BY LenProperties DEF MapFile, Found, TypeInv, TypeOK
<1>2. file_list[it.file_number + 1] \in [offset : Nat, length : Nat]
  BY <1>1, ElementOfSeq DEF TypeInv, TypeOK
<1> QED
  BY <1>2 DEF MapFile, FilePage

LEMMA PagesStep ==
  ASSUME TypeInv, [Next]_vars
  PROVE  UNCHANGED pages \/ MapFile \/ Schedule
<1> USE DEF files, history
<1>1. CASE UNCHANGED vars
  BY <1>1 DEF vars
<1> QED
  BY <1>1 DEF Next, Read, AddFile, Begin, Finish, Seek, StopAtScanEnd, Skip,
     NoSuchFile, Crash, MapFails, AllocFails, Alloc, ReadFile, ReadShort, ReadFails, Miss,
     ReadNothing, Ended

LEMMA BytesStep == TypeInv /\ BufferInv /\ BytesRight /\ [Next]_vars => BytesRight'
<1> SUFFICES ASSUME TypeInv, BufferInv, BytesRight, [Next]_vars PROVE BytesRight'
  OBVIOUS
<1> USE DEF files, history
<1>0. count \in Nat /\ opts.pagesize \in Nat
  BY OptionsTyped DEF TypeInv, TypeOK
<1>1. pc = "open" \/ (Dir' = Dir /\ opts' = opts)
  BY DEF Next, Read, vars, AddFile, Begin, Finish, Seek, StopAtScanEnd, Skip, NoSuchFile, Crash,
     MapFails, MapFile, AllocFails, Alloc, ReadFile, ReadShort, ReadFails, Miss, ReadNothing,
     Schedule, Ended, Dir
<1>2. Dir' = Dir /\ opts' = opts
  BY <1>1 DEF Next, Read, vars, AddFile, Begin, Finish, Seek, StopAtScanEnd, Skip, NoSuchFile,
     AtFile, AtImage, Crash, MapFails, MapFile, AllocFails, Alloc, Reading, ReadFile, ReadShort,
     ReadFails, ReadNothing, Schedule, Ended, Dir
<1>3. CASE UNCHANGED pages
  BY <1>2, <1>3 DEF BytesRight
<1>4. ASSUME MapFile, NEW length \in Nat, pages' = pages \union {FilePage(length)}
      PROVE  BytesRight'
  <2>1. /\ FilePage(length).size = length /\ FilePage(length).from = 0
        /\ FilePage(length).bytes = [i \in 1..length |-> i - 1]
    BY DEF FilePage
  <2>2. /\ Len([i \in 1..length |-> i - 1]) = length
        /\ DOMAIN [i \in 1..length |-> i - 1] = 1..length
    OBVIOUS
  <2>3. Dir
    BY <1>4 DEF MapFile, AtFile
  <2> QED
    BY <1>2, <1>4, <2>1, <2>2, <2>3 DEF BytesRight
<1>5. ASSUME Schedule, pages' = pages \union {Page} PROVE BytesRight'
  <2>1. /\ Page.size = Smaller(opts.pagesize, count) /\ Page.from = it.raw_offset
        /\ Page.bytes = buf
    BY DEF Page
  <2>2. Len(buf) = count /\ pc = "read"
    BY <1>5 DEF Schedule
  <2>3. Page.size <= Len(Page.bytes) /\ Page.size <= opts.pagesize
    BY <1>0, <2>1, <2>2 DEF Smaller
  <2> QED
    BY <1>2, <1>5, <2>1, <2>2, <2>3 DEF BytesRight, BufferInv
<1> QED
  BY <1>3, <1>4, <1>5, PagesStep, FilePages DEF Schedule

(* The bytes of every page are those of the image, however it is split     *)
(* into files and wherever a read comes up short (pread, sbuf_alloc,       *)
(* shrink_sbuf).                                                           *)
THEOREM BytesRightHolds == Spec => []BytesRight
<1>1. Init => TypeInv /\ BufferInv /\ BytesRight
  BY TypeInvInit DEF Init, BufferInv, BytesRight
<1>2. TypeInv /\ BufferInv /\ BytesRight /\ [Next]_vars => (TypeInv /\ BufferInv /\ BytesRight)'
  BY TypeInvStep, BufferInvStep, BytesStep
<1> QED
  BY <1>1, <1>2, PTL DEF Spec

-----------------------------------------------------------------------------
(* The image and the options stay; the files stay once they are open.      *)
LEMMA Frame ==
  ASSUME [Next]_vars
  PROVE  /\ image' = image /\ opts' = opts
         /\ pc # "open" => files' = files /\ pc' # "open"
         /\ cut => cut'
<1> USE DEF files, history
<1>1. CASE AddFile \/ Begin
  <2>1. pc = "open" /\ UNCHANGED <<image, opts, history>>
    BY <1>1 DEF AddFile, Begin
  <2> QED
    BY <2>1
<1>6. CASE Skip
  BY <1>6 DEF Skip, Advance
<1>5. CASE Finish \/ Seek \/ StopAtScanEnd
  BY <1>5 DEF Finish, Seek, StopAtScanEnd
<1>2. CASE NoSuchFile \/ MapFails \/ MapFile \/ AllocFails \/ Alloc
  BY <1>2 DEF NoSuchFile, MapFails, MapFile, AllocFails, Alloc, AtImage, AtFile, Miss, Advance,
     Crash
<1>3. CASE Read
  BY <1>3 DEF Read, ReadFile, ReadShort, ReadFails, ReadNothing, Schedule, Reading, Miss,
     Advance, Crash
<1>4. CASE Ended \/ UNCHANGED vars
  BY <1>4 DEF Ended, vars
<1> QED
  BY <1>1, <1>2, <1>3, <1>4, <1>5, <1>6 DEF Next

(* What one step does to the iterator and to the pages.                    *)
LEMMA Steps ==
  ASSUME TypeInv, [Next]_vars
  PROVE  \/ AddFile
         \/ Begin
         \/ /\ \/ Seek \/ Finish \/ StopAtScanEnd \/ pc' = pc \/ Alloc
               \/ pc' = "crashed" /\ pc \in {"page", "read"}
            /\ pc # "open"
            /\ UNCHANGED <<pages, missed, blocks>>
            /\ Seek \/ UNCHANGED it
         \/ UNCHANGED vars
         \/ Skip
         \/ Miss /\ pc \in {"page", "read"}
         \/ MapFile
         \/ ReadNothing /\ Advance([it EXCEPT !.eof = TRUE]) /\ UNCHANGED <<pages, missed>>
         \/ Schedule
<1> USE DEF files, history
<1>1. CASE AddFile \/ Begin \/ Skip \/ MapFile \/ Schedule \/ UNCHANGED vars
  BY <1>1
<1>2. CASE Finish \/ Seek \/ StopAtScanEnd \/ NoSuchFile \/ Alloc
  BY <1>2 DEF Finish, Seek, StopAtScanEnd, NoSuchFile, Crash, Alloc, AtImage, AtFile
<1>3. CASE MapFails \/ AllocFails
  BY <1>3 DEF MapFails, AllocFails, AtFile, AtImage
<1>4. CASE Read
  <2>1. ASSUME NEW k \in DOMAIN file_list, ReadFile(file_list[k]) \/ ReadShort(file_list[k])
        PROVE  pc' = pc /\ pc # "open" /\ UNCHANGED <<pages, missed, it, blocks>>
    BY <2>1 DEF ReadFile, ReadShort, Reading
  <2>2. ASSUME NEW k \in DOMAIN file_list, ReadFails(file_list[k])
        PROVE  Miss /\ pc = "read"
    BY <2>2 DEF ReadFails, Reading
  <2>3. ASSUME ReadNothing
        PROVE  \/ Advance([it EXCEPT !.eof = TRUE]) /\ UNCHANGED <<pages, missed>>
               \/ pc' = "crashed" /\ pc = "read" /\ UNCHANGED <<pages, missed, it, blocks>>
    BY <2>3 DEF ReadNothing, Crash
  <2> QED
    BY <1>4, <2>1, <2>2, <2>3 DEF Read
<1>5. CASE Ended
  BY <1>5 DEF Ended
<1> QED
  BY <1>1, <1>2, <1>3, <1>4, <1>5 DEF Next

(* Where a page begins, all before it is behind the iterator.  Only an     *)
(* offset that scan_start put past the end is ever taken back.             *)
OrderInv ==
  /\ pc = "open" => pages = {} /\ missed = {}
  /\ ~Sampling =>
       /\ PagesDisjoint
       /\ it.file_number <= Found
       /\ Dir => \A p \in pages : p.file < it.file_number
       /\ ~Dir => /\ it.file_number = 0
                  /\ \A p \in pages : p.file = 0 /\ p.from + p.size <= it.raw_offset
                  /\ it.raw_offset > filesize => pages = {}

LEMMA OrderInvStep == TypeInv /\ BufferInv /\ OrderInv /\ [Next]_vars => OrderInv'
<1> SUFFICES ASSUME TypeInv, BufferInv, OrderInv, [Next]_vars PROVE OrderInv'
  OBVIOUS
<1> USE DEF files, history
<1>0. /\ filesize \in Nat /\ count \in Nat /\ it \in Iterators
      /\ it.raw_offset \in Nat /\ it.file_number \in Nat /\ Found \in Nat
      /\ opts.pagesize \in Nat /\ opts.pagesize > 0 /\ opts.scan_start \in Nat
      /\ pages \subseteq PageRecords
  BY OptionsTyped, LenProperties DEF TypeInv, TypeOK, Iterators, Found, PageRecords
<1>1. /\ Dir' = Dir /\ Sampling' = Sampling
      /\ pc # "open" => Found' = Found /\ filesize' = filesize /\ pc' # "open"
  BY Frame DEF Dir, Sampling, Found
<1>2. CASE AddFile
  <2>1. pages' = {} /\ missed' = {} /\ it' = it
    BY <1>2 DEF AddFile, OrderInv
  <2>2. Found' = Found + 1
    <3>1. /\ image \in Images /\ filesize \in Nat
          /\ file_list \in Seq([offset : Nat, length : Nat])
      BY DEF TypeInv, TypeOK
    <3>2. image.lengths \in Seq(Nat) /\ Found < Len(image.lengths)
      BY <1>2, <3>1, ImagesAssumption DEF AddFile
    <3>3. image.lengths[Found + 1] \in Nat
      BY <1>0, <3>2, ElementOfSeq
    <3>4. file_list' =
            Append(file_list, [offset |-> filesize, length |-> image.lengths[Found + 1]])
      BY <1>2 DEF AddFile
    <3> QED
      BY <3>1, <3>3, <3>4, AppendProperties DEF Found
  <2> QED
    BY <1>0, <1>1, <2>1, <2>2 DEF OrderInv, PagesDisjoint
<1>3. CASE Begin
  <2>1. /\ pages' = {} /\ missed' = {} /\ pc' = "loop" /\ Found' = Found
        /\ it'.file_number = 0
    BY <1>3 DEF Begin, OrderInv, Iterator, Found
  <2> QED
    BY <1>0, <1>1, <2>1 DEF OrderInv, PagesDisjoint
<1>4. CASE /\ pc # "open"
           /\ UNCHANGED <<pages, missed>>
           /\ Seek \/ UNCHANGED it
  <2>1. ~Sampling => it' = it
    BY <1>4 DEF Seek
  <2>2. pc' # "open"
    BY <1>1, <1>4
  <2> QED
    BY <1>1, <1>4, <2>1, <2>2 DEF OrderInv, PagesDisjoint
<1>5. CASE UNCHANGED vars
  BY <1>5 DEF vars, OrderInv, PagesDisjoint, Dir, Sampling, Found
<1>6. ASSUME NEW i \in Iterators, Advance(i), UNCHANGED pages, pc # "open",
             i.raw_offset = it.raw_offset, i.file_number = it.file_number
      PROVE  OrderInv'
  <2>1. it' = Incremented(i) /\ pc' = "loop"
    BY <1>6 DEF Advance
  <2>2. CASE Dir
    <3>1. it'.file_number = Smaller(it.file_number + 1, Found)
      BY <1>6, <2>1, <2>2, IncrementedTyped
    <3>2. ~Sampling => it.file_number <= it'.file_number /\ it'.file_number <= Found
      BY <1>0, <3>1 DEF OrderInv, Smaller
    <3>3. ~Sampling => \A p \in pages : p.file < it'.file_number
      BY <1>0, <2>2, <3>1, <3>2 DEF OrderInv, PageRecords, Smaller
    <3> QED
      BY <1>1, <1>6, <2>1, <2>2, <3>2, <3>3 DEF OrderInv, PagesDisjoint
  <2>3. CASE ~Dir
    <3>1. /\ it'.file_number = it.file_number
          /\ it'.raw_offset = Smaller(it.raw_offset + opts.pagesize, filesize)
      BY <1>6, <2>1, <2>3, IncrementedTyped
    <3>2. it'.raw_offset \in Nat /\ it'.raw_offset <= filesize
      BY <1>0, <3>1 DEF Smaller
    <3>3. it.raw_offset <= filesize => it.raw_offset <= it'.raw_offset
      BY <1>0, <3>1 DEF Smaller
    <3>4. ~Sampling => \A p \in pages : p.file = 0 /\ p.from + p.size <= it'.raw_offset
      BY <1>0, <2>3, <3>2, <3>3 DEF OrderInv, PageRecords
    <3>5. ~(it'.raw_offset > filesize)
      BY <1>0, <3>2
    <3> QED
      BY <1>0, <1>1, <1>6, <2>1, <2>3, <3>1, <3>4, <3>5 DEF OrderInv, PagesDisjoint
  <2> QED
    BY <2>2, <2>3
<1>7. CASE Skip
  BY <1>0, <1>6, <1>7 DEF Skip
<1>8. CASE Miss /\ pc \in {"page", "read"}
  BY <1>0, <1>6, <1>8 DEF Miss
<1>9. CASE ReadNothing /\ Advance([it EXCEPT !.eof = TRUE]) /\ UNCHANGED <<pages, missed>>
  <2> DEFINE i == [it EXCEPT !.eof = TRUE]
  <2>1. /\ i \in Iterators /\ i.raw_offset = it.raw_offset /\ i.file_number = it.file_number
        /\ pc # "open"
    BY <1>0, <1>9 DEF Iterators, ReadNothing
  <2> QED
    BY <1>6, <1>9, <2>1
<1>10. CASE MapFile
  <2>1. PICK length \in Nat : pages' = pages \union {FilePage(length)}
    BY <1>10, FilePages
  <2>2. /\ Dir /\ it.file_number < Found /\ pc = "page" /\ Advance(it)
    BY <1>10 DEF MapFile, AtFile
  <2>3. it'.file_number = it.file_number + 1
    BY <1>0, <2>2, IncrementedTyped DEF Advance, Smaller
  <2>4. FilePage(length).file = it.file_number
    BY DEF FilePage
  <2>5. CASE ~Sampling
    <3>1. \A p \in pages : p.file < it.file_number /\ p.file \in Nat
      BY <1>0, <2>2, <2>5 DEF OrderInv, PageRecords
    <3>2. \A p \in pages' : p.file < it'.file_number
      BY <1>0, <2>1, <2>3, <2>4, <3>1
    <3>3. \A p \in pages : p.file # FilePage(length).file
      BY <1>0, <2>4, <3>1
    <3>4. PagesDisjoint'
      BY <2>1, <2>5, <3>3 DEF OrderInv, PagesDisjoint, Disjoint
    <3>5. it'.file_number <= Found'
      BY <1>0, <1>1, <2>2, <2>3
    <3> QED
      BY <1>1, <2>2, <3>2, <3>4, <3>5 DEF OrderInv
  <2>6. CASE Sampling
    BY <1>1, <2>2, <2>6 DEF OrderInv
  <2> QED
    BY <2>5, <2>6
<1>11. CASE Schedule
  <2>1. /\ pc = "read" /\ Advance(it) /\ pages' = pages \union {Page}
    BY <1>11 DEF Schedule
  <2>2. /\ ~Dir /\ it.raw_offset + count <= filesize
    BY <2>1 DEF BufferInv
  <2>3. /\ it'.file_number = it.file_number
        /\ it'.raw_offset = Smaller(it.raw_offset + opts.pagesize, filesize)
    BY <1>0, <2>1, <2>2, IncrementedTyped DEF Advance
  <2>4. /\ Page.file = it.file_number /\ Page.from = it.raw_offset
        /\ Page.size = Smaller(opts.pagesize, count)
    BY DEF Page
  <2>5. /\ Page.from + Page.size <= it'.raw_offset
        /\ it.raw_offset <= it'.raw_offset /\ it'.raw_offset <= filesize
        /\ ~(it'.raw_offset > filesize)
    BY <1>0, <2>2, <2>3, <2>4 DEF Smaller
  <2>6. CASE ~Sampling
    <3>1. \A p \in pages : p.file = 0 /\ p.from + p.size <= it.raw_offset
      BY <2>2, <2>6 DEF OrderInv
    <3>2. it.file_number = 0
      BY <2>2, <2>6 DEF OrderInv
    <3>3. it'.raw_offset \in Nat
      BY <1>0, <2>3 DEF Smaller
    <3>4. \A p \in pages : p.from + p.size \in Nat
      BY <1>0 DEF PageRecords
    <3>5. \A p \in pages' : p.file = 0 /\ p.from + p.size <= it'.raw_offset
      BY <1>0, <2>1, <2>4, <2>5, <3>1, <3>2, <3>3, <3>4
    <3>6. PagesDisjoint'
      BY <2>1, <2>4, <2>6, <3>1 DEF OrderInv, PagesDisjoint, Disjoint
    <3> QED
      BY <1>0, <1>1, <2>1, <2>2, <2>3, <2>5, <3>2, <3>5, <3>6 DEF OrderInv
  <2>7. CASE Sampling
    BY <1>1, <2>1, <2>7 DEF OrderInv
  <2> QED
    BY <2>6, <2>7
<1> QED
  BY <1>2, <1>3, <1>4, <1>5, <1>7, <1>8, <1>9, <1>10, <1>11, Steps

(* Without sampling no byte is in two pages and no file of a directory is  *)
(* read twice, whatever could not be read (operator++, sbuf_alloc).        *)
THEOREM PagesDisjointHolds == Spec => [](~Sampling => PagesDisjoint)
<1>1. Init => TypeInv /\ BufferInv /\ OrderInv
  <2> SUFFICES ASSUME Init PROVE BufferInv /\ OrderInv
    BY TypeInvInit
  <2>1. /\ pc = "open" /\ pages = {} /\ missed = {} /\ it.file_number = 0
        /\ it.raw_offset = 0 /\ filesize = 0 /\ Found = 0
    BY DEF Init, Iterator, Found
  <2> QED
    BY <2>1 DEF BufferInv, OrderInv, PagesDisjoint
<1>2. TypeInv /\ BufferInv /\ OrderInv /\ [Next]_vars => (TypeInv /\ BufferInv /\ OrderInv)'
  BY TypeInvStep, BufferInvStep, OrderInvStep
<1>3. OrderInv => (~Sampling => PagesDisjoint)
  BY DEF OrderInv
<1> QED
  BY <1>1, <1>2, <1>3, PTL DEF Spec

-----------------------------------------------------------------------------
(* Sampling.  The pages read so far lie before every block still to be     *)
(* read, also where the block past the last is taken back to the last one: *)
(* a page of the last one has taken the iterator to the end.               *)
Quota == (MaxBlocks + opts.one_in - 1) \div opts.one_in
AtBlock(b) ==
  IF Dir THEN it.file_number = b
  ELSE /\ it.raw_offset % opts.pagesize = 0
       /\ it.raw_offset <= b * opts.pagesize
       /\ \A p \in pages : p.from + opts.pagesize <= it.raw_offset

SampleInv ==
  Sampling /\ pc # "open" =>
    /\ IsFiniteSet(pages) /\ IsFiniteSet(missed) /\ IsFiniteSet(blocks)
    /\ Cardinality(pages) + Cardinality(missed) + Cardinality(blocks) <= Quota
    /\ PagesDisjoint
    /\ \A p \in pages : p.from % opts.pagesize = 0
    /\ \A p \in pages : \A b \in blocks :
         IF Dir THEN p.file < b ELSE p.from + opts.pagesize <= b * opts.pagesize
    /\ ~Dir => it.file_number = 0
    /\ image.kind = "raw" => \/ \A p \in pages : p.from + opts.pagesize <= filesize
                             \/ pc \in {"loop", "done"} /\ AtEnd
    /\ pc \in {"page", "read"} => \E b \in blocks : Least(b, blocks) /\ AtBlock(b)

(* Multiples of the page size.                                             *)
LEMMA NextMultiple ==
  ASSUME NEW n \in Nat, NEW k \in Nat, NEW m \in Nat, k < m
  PROVE  k * n + n <= m * n
<1>1. PICK d \in Nat : m = k + 1 + d
  <2>1. m - k - 1 \in Nat /\ m = k + 1 + (m - k - 1)
    OBVIOUS
  <2> QED
    BY <2>1
<1>2. m * n = k * n + n + d * n
  BY <1>1
<1>3. d * n \in Nat /\ k * n \in Nat
  BY <1>1
<1> QED
  BY <1>2, <1>3

LEMMA LastMultiple ==
  ASSUME NEW n \in Nat, n > 0, NEW f \in Nat
  PROVE  /\ f \div n \in Nat
         /\ (f \div n) * n \in Nat /\ (f \div n) * n <= f /\ f < (f \div n) * n + n
<1>1. f \div n \in Nat /\ f % n \in 0..n - 1 /\ f = n * (f \div n) + (f % n)
  OBVIOUS
<1>2. n * (f \div n) = (f \div n) * n /\ (f \div n) * n \in Nat
  BY <1>1
<1> QED
  BY <1>1, <1>2

LEMMA MultipleRemainder ==
  ASSUME NEW n \in Nat, n > 0, NEW k \in Nat
  PROVE  k * n \in Nat /\ (k * n) % n = 0
<1>1. k * n \in Nat
  OBVIOUS
<1> DEFINE a == k * n
<1>2. a % n \in 0..n - 1 /\ a = n * (a \div n) + (a % n) /\ a \div n \in Nat
  <2> HIDE DEF a
  <2>1. a \in Nat
    BY <1>1 DEF a
  <2> QED
    BY <2>1
<1>3. CASE a \div n < k
  <2>1. (a \div n) * n + n <= k * n
    BY <1>2, <1>3, NextMultiple
  <2> QED
    BY <1>2, <2>1
<1>4. CASE k < a \div n
  <2>1. k * n + n <= (a \div n) * n
    BY <1>2, <1>4, NextMultiple
  <2> QED
    BY <1>2, <2>1
<1>5. CASE k = a \div n
  BY <1>2, <1>5
<1> QED
  BY <1>2, <1>3, <1>4, <1>5

LEMMA OneMore ==
  ASSUME NEW S, IsFiniteSet(S), NEW x
  PROVE  /\ IsFiniteSet(S \union {x}) /\ Cardinality(S \union {x}) \in Nat
         /\ Cardinality(S \union {x}) <= Cardinality(S) + 1
<1>1. IsFiniteSet(S \union {x}) /\ Cardinality(S \union {x}) \in Nat /\ Cardinality(S) \in Nat
  BY FS_AddElement, FS_CardinalityType
<1>2. Cardinality(S \union {x}) = IF x \in S THEN Cardinality(S) ELSE Cardinality(S) + 1
  BY FS_AddElement
<1> QED
  BY <1>1, <1>2

LEMMA QuotaTyped ==
  ASSUME TypeInv, Sampling
  PROVE  MaxBlocks \in Nat /\ Quota \in Nat
<1>1. /\ filesize \in Nat /\ opts.pagesize \in Nat \ {0} /\ Found \in Nat
      /\ opts.one_in \in Nat \ {0}
      /\ image.kind \in {"raw", "ewf", "dir"}
  BY OptionsTyped, OptionsAssumption, ImagesAssumption, LenProperties
     DEF TypeInv, TypeOK, Found, Sampling
<1>2. /\ (filesize + opts.pagesize - 1) \div opts.pagesize \in Nat
      /\ filesize \div opts.pagesize \in Nat
  BY <1>1, LastMultiple
<1>3. MaxBlocks \in Nat
  BY <1>1, <1>2 DEF MaxBlocks, Dir
<1>4. MaxBlocks + opts.one_in - 1 \in Nat
  BY <1>1, <1>3
<1> QED
  BY <1>1, <1>3, <1>4, LastMultiple DEF Quota

LEMMA SampleAdvance ==
  ASSUME TypeInv, SampleInv, Sampling, pc \in {"page", "read"},
         NEW i \in Iterators, Advance(i),
         i.raw_offset = it.raw_offset, i.file_number = it.file_number
  PROVE  \E b \in blocks :
           /\ AtBlock(b) /\ blocks' = blocks \ {b} /\ (\A c \in blocks' : b < c)
           /\ IsFiniteSet(blocks') /\ Cardinality(blocks') = Cardinality(blocks) - 1
           /\ pc' = "loop"
           /\ ~Dir => /\ it'.file_number = 0
                      /\ it'.raw_offset = Smaller(it.raw_offset + opts.pagesize, filesize)
<1>1. PICK b \in blocks : Least(b, blocks) /\ AtBlock(b)
  BY DEF SampleInv
<1>2. blocks \subseteq Nat /\ IsFiniteSet(blocks)
  BY DEF TypeInv, TypeOK, SampleInv
<1>3. ASSUME NEW c \in blocks, Least(c, blocks) PROVE c = b
  <2>1. b \in Nat /\ c \in Nat /\ b <= c /\ c <= b
    BY <1>1, <1>2, <1>3 DEF Least
  <2> QED
    BY <2>1
<1>4. blocks' = blocks \ {b} /\ pc' = "loop"
  BY <1>1, <1>3 DEF Advance
<1>5. \A c \in blocks' : b < c
  BY <1>1, <1>2, <1>4 DEF Least
<1>6. IsFiniteSet(blocks') /\ Cardinality(blocks') = Cardinality(blocks) - 1
  BY <1>1, <1>2, <1>4, FS_RemoveElement
<1>7. ~Dir => /\ it'.file_number = 0
              /\ it'.raw_offset = Smaller(it.raw_offset + opts.pagesize, filesize)
  BY IncrementedTyped DEF Advance, SampleInv
<1> QED
  BY <1>1, <1>4, <1>5, <1>6, <1>7

(* A block is done, with a page of it or without.                          *)
LEMMA SampleLeaves ==
  ASSUME TypeInv, BytesRight, SampleInv, Sampling, [Next]_vars, pc \in {"page", "read"},
         NEW i \in Iterators, Advance(i),
         i.raw_offset = it.raw_offset, i.file_number = it.file_number,
         \/ pages' = pages /\ (missed' = missed \/ \E m : missed' = missed \union {m})
         \/ /\ missed' = missed
            /\ \E p \in PageRecords :
                 /\ pages' = pages \union {p} /\ p.file = it.file_number
                 /\ IF Dir THEN p.from = 0
                    ELSE /\ p.from = it.raw_offset /\ p.size <= opts.pagesize
                         /\ p.from <= filesize
  PROVE  SampleInv'
<1>1. PICK b \in blocks :
        /\ AtBlock(b) /\ blocks' = blocks \ {b} /\ (\A c \in blocks' : b < c)
        /\ IsFiniteSet(blocks') /\ Cardinality(blocks') = Cardinality(blocks) - 1
        /\ pc' = "loop"
        /\ ~Dir => /\ it'.file_number = 0
                   /\ it'.raw_offset = Smaller(it.raw_offset + opts.pagesize, filesize)
  BY SampleAdvance
<1>2. /\ opts' = opts /\ image' = image /\ filesize' = filesize /\ file_list' = file_list
      /\ Dir' = Dir /\ Sampling' = Sampling /\ MaxBlocks' = MaxBlocks /\ Quota' = Quota
      /\ Found' = Found
  BY Frame DEF files, Dir, Sampling, MaxBlocks, Quota, Found
<1>3. /\ opts.pagesize \in Nat /\ opts.pagesize > 0 /\ filesize \in Nat /\ it.raw_offset \in Nat
      /\ blocks \subseteq Nat /\ pages \subseteq PageRecords /\ Quota \in Nat
  BY OptionsTyped, QuotaTyped DEF TypeInv, TypeOK, Iterators, PageRecords
<1>4. /\ IsFiniteSet(pages) /\ IsFiniteSet(missed) /\ IsFiniteSet(blocks)
      /\ Cardinality(pages) \in Nat /\ Cardinality(missed) \in Nat /\ Cardinality(blocks) \in Nat
      /\ Cardinality(pages) + Cardinality(missed) + Cardinality(blocks) <= Quota
  BY FS_CardinalityType DEF SampleInv
<1>5. /\ PagesDisjoint
      /\ \A p \in pages : p.from % opts.pagesize = 0
      /\ \A p \in pages : \A c \in blocks :
           IF Dir THEN p.file < c ELSE p.from + opts.pagesize <= c * opts.pagesize
      /\ image.kind = "raw" => \A p \in pages : p.from + opts.pagesize <= filesize
  BY DEF SampleInv
<1>6. CASE pages' = pages /\ (missed' = missed \/ \E m : missed' = missed \union {m})
  <2>1. IsFiniteSet(missed') /\ Cardinality(missed') <= Cardinality(missed) + 1
        /\ Cardinality(missed') \in Nat
    <3>1. CASE missed' = missed
      BY <1>4, <3>1
    <3>2. ASSUME NEW m, missed' = missed \union {m}
          PROVE  /\ IsFiniteSet(missed') /\ Cardinality(missed') <= Cardinality(missed) + 1
                 /\ Cardinality(missed') \in Nat
      BY <1>4, <3>2, OneMore
    <3> QED
      BY <1>6, <3>1, <3>2
  <2>2. Cardinality(pages') + Cardinality(missed') + Cardinality(blocks') <= Quota'
    BY <1>1, <1>2, <1>3, <1>4, <1>6, <2>1
  <2> QED
    BY <1>1, <1>2, <1>4, <1>5, <1>6, <2>1, <2>2 DEF SampleInv, PagesDisjoint
<1>7. ASSUME NEW p \in PageRecords, missed' = missed,
             pages' = pages \union {p}, p.file = it.file_number,
             IF Dir THEN p.from = 0
             ELSE p.from = it.raw_offset /\ p.size <= opts.pagesize /\ p.from <= filesize
      PROVE  SampleInv'
  <2>1. /\ IsFiniteSet(pages') /\ Cardinality(pages') <= Cardinality(pages) + 1
        /\ Cardinality(pages') \in Nat
    BY <1>4, <1>7, OneMore
  <2>2. Cardinality(pages') + Cardinality(missed') + Cardinality(blocks') <= Quota'
    BY <1>1, <1>2, <1>3, <1>4, <1>7, <2>1
  <2>3. CASE Dir
    <3>1. p.file = b /\ p.from = 0
      BY <1>1, <1>7, <2>3 DEF AtBlock
    <3>2. \A q \in pages : q.file < b
      BY <1>5, <2>3
    <3>3. \A q \in pages : q.file # p.file
      BY <1>3, <3>1, <3>2 DEF PageRecords
    <3>4. PagesDisjoint'
      BY <1>5, <1>7, <3>3 DEF PagesDisjoint, Disjoint
    <3>5. \A q \in pages' : \A c \in blocks' : q.file < c
      BY <1>1, <1>5, <1>7, <2>3, <3>1
    <3>6. \A q \in pages' : q.from % opts.pagesize = 0
      <4>1. 0 % opts.pagesize = 0
        BY <1>3
      <4> QED
        BY <1>5, <1>7, <3>1, <4>1
    <3>7. image.kind # "raw"
      BY <2>3 DEF Dir
    <3> QED
      BY <1>1, <1>2, <1>4, <1>7, <2>1, <2>2, <2>3, <3>4, <3>5, <3>6, <3>7 DEF SampleInv
  <2>4. CASE ~Dir
    <3>1. /\ p.from = it.raw_offset /\ p.size <= opts.pagesize /\ p.from <= filesize
          /\ p.from % opts.pagesize = 0 /\ p.from <= b * opts.pagesize
          /\ \A q \in pages : q.from + opts.pagesize <= p.from
      BY <1>1, <1>7, <2>4 DEF AtBlock
    <3>2. \A q \in pages : q.from + q.size <= p.from
      <4> SUFFICES ASSUME NEW q \in pages PROVE q.from + q.size <= p.from
        OBVIOUS
      <4>1. q.size <= opts.pagesize /\ q.from \in Nat /\ q.size \in Nat
        BY <1>3, <2>4 DEF BytesRight, PageRecords
      <4>2. p.from \in Nat
        BY DEF PageRecords
      <4> QED
        BY <1>3, <3>1, <4>1, <4>2
    <3>3. PagesDisjoint'
      BY <1>5, <1>7, <3>2 DEF PagesDisjoint, Disjoint
    <3>4. \A q \in pages' : \A c \in blocks' : q.from + opts.pagesize <= c * opts.pagesize
      <4> SUFFICES ASSUME NEW c \in blocks' PROVE p.from + opts.pagesize <= c * opts.pagesize
        BY <1>1, <1>5, <1>7, <2>4
      <4>1. b \in Nat /\ c \in Nat /\ b < c
        BY <1>1, <1>3
      <4>2. b * opts.pagesize + opts.pagesize <= c * opts.pagesize
        BY <1>3, <4>1, NextMultiple
      <4>3. b * opts.pagesize \in Nat /\ c * opts.pagesize \in Nat /\ p.from \in Nat
        BY <1>3, <4>1 DEF PageRecords
      <4> QED
        BY <1>3, <3>1, <4>2, <4>3
    <3>5. \A q \in pages' : q.from % opts.pagesize = 0
      BY <1>5, <1>7, <3>1
    <3>6. image.kind = "raw" => \/ \A q \in pages' : q.from + opts.pagesize <= filesize
                                \/ AtEnd'
      <4>1. CASE p.from + opts.pagesize <= filesize
        BY <1>5, <1>7, <4>1
      <4>2. CASE ~(p.from + opts.pagesize <= filesize)
        <5>1. it'.raw_offset = filesize /\ it'.file_number = 0
          BY <1>1, <1>3, <2>4, <3>1, <4>2 DEF Smaller
        <5> QED
          BY <1>2, <2>4, <5>1 DEF AtEnd
      <4> QED
        BY <4>1, <4>2
    <3> QED
      BY <1>1, <1>2, <1>4, <1>7, <2>1, <2>2, <2>4, <3>3, <3>4, <3>5, <3>6 DEF SampleInv
  <2> QED
    BY <2>3, <2>4
<1> QED
  BY <1>6, <1>7

LEMMA SampleInvStep ==
  TypeInv /\ BufferInv /\ OrderInv /\ BytesRight /\ SampleInv /\ [Next]_vars => SampleInv'
<1> SUFFICES ASSUME TypeInv, BufferInv, OrderInv, BytesRight, SampleInv, [Next]_vars, Sampling
             PROVE  SampleInv'
  BY Frame DEF SampleInv, Sampling
<1> USE DEF files, history
<1>0. /\ opts.pagesize \in Nat /\ opts.pagesize > 0 /\ filesize \in Nat
      /\ it \in Iterators /\ it.raw_offset \in Nat /\ it.file_number \in Nat /\ count \in Nat
      /\ blocks \subseteq Nat /\ pages \subseteq PageRecords
      /\ image.kind \in {"raw", "ewf", "dir"}
  BY OptionsTyped, ImagesAssumption DEF TypeInv, TypeOK, Iterators, PageRecords
<1>1. /\ opts' = opts /\ image' = image /\ Dir' = Dir /\ Sampling' = Sampling
      /\ pc # "open" => /\ filesize' = filesize /\ Found' = Found /\ MaxBlocks' = MaxBlocks
                        /\ Quota' = Quota
  BY Frame DEF Dir, Sampling, MaxBlocks, Quota, Found
<1>2. CASE AddFile
  BY <1>2 DEF AddFile, SampleInv
<1>3. CASE Begin
  <2>1. /\ pages' = {} /\ missed' = {} /\ pc' = "loop" /\ blocks' \in Samples
        /\ UNCHANGED files /\ it' = Iterator(opts.scan_start, 0, FALSE)
    BY <1>3 DEF Begin, OrderInv
  <2>2. Cardinality(blocks') = Quota /\ blocks' \subseteq 0..MaxBlocks
    BY <2>1 DEF Samples, Quota
  <2>3. IsFiniteSet(blocks')
    <3>1. IsFiniteSet(0..MaxBlocks)
      BY QuotaTyped, FS_Interval
    <3> QED
      BY <2>2, <3>1, FS_Subset
  <2>4. Quota' = Quota /\ Quota \in Nat
    BY <1>1, <2>1, QuotaTyped DEF Quota, MaxBlocks, Dir, Found
  <2>5. IsFiniteSet({}) /\ Cardinality({}) = 0
    BY FS_EmptySet
  <2>6. it'.file_number = 0
    BY <2>1 DEF Iterator
  <2>7. Cardinality(pages') + Cardinality(missed') + Cardinality(blocks') <= Quota'
    BY <2>1, <2>2, <2>4, <2>5
  <2>8. IsFiniteSet(pages') /\ IsFiniteSet(missed') /\ pc' \notin {"page", "read"}
    BY <2>1, <2>5
  <2> QED
    BY <2>1, <2>3, <2>6, <2>7, <2>8 DEF SampleInv, PagesDisjoint
<1>4. CASE Seek
  <2>1. PICK b \in blocks : Least(b, blocks) /\ it' = Sought(b)
    BY <1>4 DEF Seek
  <2>2. /\ pc = "loop" /\ pc' = "page" /\ ~AtEnd
        /\ UNCHANGED <<files, blocks, count, buf, history>>
    BY <1>4 DEF Seek
  <2>3. image.kind = "raw" => \A p \in pages : p.from + opts.pagesize <= filesize
    BY <2>2 DEF SampleInv
  <2>4. b \in Nat /\ b * opts.pagesize \in Nat /\ (b * opts.pagesize) % opts.pagesize = 0
    BY <1>0, MultipleRemainder
  <2>5. CASE Dir
    <3>1. it'.file_number = b
      BY <1>0, <2>1, <2>5 DEF Sought, Dir, Iterators
    <3> QED
      BY <1>1, <2>1, <2>2, <2>3, <2>5, <3>1 DEF SampleInv, AtBlock, Least, PagesDisjoint
  <2>6. CASE ~Dir
    <3>1. \A p \in pages : p.from + opts.pagesize <= b * opts.pagesize
      BY <2>2, <2>6 DEF SampleInv
    <3>2. CASE it'.raw_offset = b * opts.pagesize /\ it'.file_number = it.file_number
      <4>1. AtBlock(b)'
        BY <1>0, <1>1, <2>2, <2>4, <2>6, <3>1, <3>2 DEF AtBlock
      <4> QED
        BY <1>1, <2>1, <2>2, <2>3, <2>6, <3>2, <4>1 DEF SampleInv, Least, PagesDisjoint
    <3>3. ASSUME image.kind = "raw", b * opts.pagesize > filesize,
                 it'.raw_offset = (filesize \div opts.pagesize) * opts.pagesize,
                 it'.file_number = it.file_number
          PROVE  SampleInv'
      <4> DEFINE q == filesize \div opts.pagesize
      <4>1. /\ q \in Nat /\ q * opts.pagesize \in Nat /\ q * opts.pagesize <= filesize
            /\ filesize < q * opts.pagesize + opts.pagesize
            /\ (q * opts.pagesize) % opts.pagesize = 0
        BY <1>0, LastMultiple, MultipleRemainder
      <4>2. ASSUME NEW p \in pages PROVE p.from + opts.pagesize <= q * opts.pagesize
        <5>1. /\ p.from % opts.pagesize = 0 /\ p.from + opts.pagesize <= filesize
              /\ p.from \in Nat
          BY <1>0, <2>2, <2>3, <3>3 DEF SampleInv, PageRecords
        <5>2. PICK k \in Nat : p.from = k * opts.pagesize
          <6>1. p.from \div opts.pagesize \in Nat
                /\ p.from = opts.pagesize * (p.from \div opts.pagesize)
            BY <1>0, <5>1
          <6> QED
            BY <1>0, <6>1
        <5>3. k < q
          <6>1. CASE k = q
            BY <1>0, <4>1, <5>1, <5>2, <6>1
          <6>2. CASE q < k
            <7>1. q * opts.pagesize + opts.pagesize <= k * opts.pagesize
              BY <1>0, <4>1, <6>2, NextMultiple
            <7> HIDE DEF q
            <7> QED
              BY <1>0, <4>1, <5>1, <5>2, <7>1
          <6> HIDE DEF q
          <6> QED
            BY <4>1, <6>1, <6>2
        <5> QED
          BY <1>0, <4>1, <5>2, <5>3, NextMultiple
      <4> HIDE DEF q
      <4>3. it'.raw_offset = q * opts.pagesize
        BY <3>3 DEF q
      <4>4. it'.raw_offset <= b * opts.pagesize
        BY <1>0, <2>4, <3>3, <4>1, <4>3
      <4>5. AtBlock(b)'
        BY <1>1, <2>2, <2>6, <4>1, <4>2, <4>3, <4>4 DEF AtBlock
      <4> QED
        BY <1>1, <2>1, <2>2, <2>3, <2>6, <3>3, <4>5 DEF SampleInv, Least, PagesDisjoint
    <3>4. CASE image.kind = "ewf"
      <4>1. it'.raw_offset = b * opts.pagesize /\ it'.file_number = it.file_number
        BY <1>0, <2>1, <3>4 DEF Sought, Iterators, Dir
      <4> QED
        BY <3>2, <4>1
    <3>5. CASE image.kind = "raw"
      <4>1. it' = [it EXCEPT !.raw_offset =
                     (IF b * opts.pagesize > filesize THEN filesize \div opts.pagesize
                      ELSE b) * opts.pagesize]
        BY <2>1, <3>5 DEF Sought, Dir
      <4>2. /\ it'.file_number = it.file_number
            /\ it'.raw_offset = (IF b * opts.pagesize > filesize
                                 THEN filesize \div opts.pagesize ELSE b) * opts.pagesize
        BY <1>0, <4>1 DEF Iterators
      <4> QED
        BY <3>2, <3>3, <3>5, <4>2
    <3> QED
      BY <1>0, <2>6, <3>4, <3>5 DEF Dir
  <2> QED
    BY <2>5, <2>6
<1>5. CASE /\ \/ Finish \/ StopAtScanEnd \/ pc' = pc \/ Alloc
              \/ pc' = "crashed" /\ pc \in {"page", "read"}
           /\ pc # "open"
           /\ UNCHANGED <<pages, missed, blocks>>
           /\ UNCHANGED it
  <2>1. /\ pc' \in {"page", "read"} => pc \in {"page", "read"}
        /\ pc \in {"loop", "done"} => pc' \in {"loop", "done"}
    BY <1>5 DEF Finish, StopAtScanEnd, Alloc, AtImage
  <2>2. AtEnd' = AtEnd
    BY <1>1, <1>5 DEF AtEnd
  <2> QED
    BY <1>1, <1>5, <2>1, <2>2 DEF SampleInv, AtBlock, Least, PagesDisjoint
<1>6. CASE UNCHANGED vars
  BY <1>1, <1>6 DEF vars, SampleInv, AtBlock, Least, PagesDisjoint, AtEnd
<1>7. CASE Skip
  <2>1. pc \in {"page", "read"} /\ Advance(it) /\ UNCHANGED <<pages, missed>>
    BY <1>7 DEF Skip
  <2> QED
    BY <1>0, <2>1, SampleLeaves
<1>8. CASE Miss /\ pc \in {"page", "read"}
  <2>1. Advance(it) /\ pages' = pages /\ \E m : missed' = missed \union {m}
    BY <1>8 DEF Miss
  <2> QED
    BY <1>0, <1>8, <2>1, SampleLeaves
<1>9. CASE ReadNothing /\ Advance([it EXCEPT !.eof = TRUE]) /\ UNCHANGED <<pages, missed>>
  <2> DEFINE i == [it EXCEPT !.eof = TRUE]
  <2>1. /\ i \in Iterators /\ i.raw_offset = it.raw_offset /\ i.file_number = it.file_number
        /\ pc = "read"
    BY <1>0, <1>9 DEF Iterators, ReadNothing
  <2> QED
    BY <1>9, <2>1, SampleLeaves
<1>10. CASE MapFile
  <2>1. PICK length \in Nat : pages' = pages \union {FilePage(length)}
    BY <1>10, FilePages
  <2>2. Dir /\ pc = "page" /\ Advance(it) /\ missed' = missed
    BY <1>10 DEF MapFile, AtFile
  <2>3. FilePage(length).file = it.file_number /\ FilePage(length).from = 0
    BY DEF FilePage
  <2>4. FilePage(length) \in PageRecords
    <3>1. [j \in 1..length |-> j - 1] \in Seq(Nat)
      OBVIOUS
    <3> QED
      BY <1>0, <3>1 DEF FilePage, PageRecords
  <2> QED
    BY <1>0, <2>1, <2>2, <2>3, <2>4, SampleLeaves
<1>11. CASE Schedule
  <2>1. /\ pc = "read" /\ Advance(it) /\ pages' = pages \union {Page} /\ missed' = missed
    BY <1>11 DEF Schedule
  <2>2. /\ ~Dir /\ it.raw_offset + count <= filesize
    BY <2>1 DEF BufferInv
  <2>3. /\ Page.file = it.file_number /\ Page.from = it.raw_offset
        /\ Page.size <= opts.pagesize /\ Page.from <= filesize
    BY <1>0, <2>2 DEF Page, Smaller
  <2>4. Page \in PageRecords
    BY <1>0 DEF Page, PageRecords, Smaller, TypeInv, TypeOK
  <2> QED
    BY <1>0, <2>1, <2>2, <2>3, <2>4, SampleLeaves
<1> QED
  BY <1>2, <1>3, <1>4, <1>5, <1>6, <1>7, <1>8, <1>9, <1>10, <1>11, Steps

(* The reader is at a page only if it was not at the end; a directory      *)
(* keeps the offset it began with.                                         *)
CrashInv ==
  /\ CrashesBeyondOnly
  /\ pc \in {"page", "read"} /\ ~Sampling => ~AtEnd
  /\ Dir /\ pc # "open" => it.raw_offset = opts.scan_start

LEMMA CrashInvStep ==
  TypeInv /\ BufferInv /\ OrderInv /\ CrashInv /\ [Next]_vars => CrashInv'
<1> SUFFICES ASSUME TypeInv, BufferInv, OrderInv, CrashInv, [Next]_vars PROVE CrashInv'
  OBVIOUS
<1> USE DEF files, history
<1>0. /\ filesize \in Nat /\ it \in Iterators /\ it.raw_offset \in Nat /\ it.file_number \in Nat
      /\ opts.pagesize \in Nat /\ opts.pagesize > 0 /\ opts.margin \in Nat /\ Found \in Nat
      /\ opts.scan_start \in Nat /\ image.kind \in {"raw", "ewf", "dir"}
  BY OptionsTyped, ImagesAssumption, LenProperties DEF TypeInv, TypeOK, Iterators, Found
<1>1. /\ opts' = opts /\ image' = image /\ Dir' = Dir /\ Sampling' = Sampling
      /\ pc # "open" => filesize' = filesize /\ Found' = Found
      /\ cut => cut'
  BY Frame DEF Dir, Sampling, Found
(* A step that leaves the iterator alone.                                  *)
<1>2. ASSUME it' = it, pc # "open", pc' # "crashed" \/ pc = "crashed",
             pc' \in {"page", "read"} => pc \in {"page", "read"} \/ Sampling \/ ~AtEnd
      PROVE  CrashInv'
  BY <1>1, <1>2 DEF CrashInv, CrashesBeyondOnly, AtEnd
(* The end of the loop's body.                                             *)
<1>3. ASSUME NEW i \in Iterators, Advance(i), i.raw_offset = it.raw_offset, pc # "open"
      PROVE  CrashInv'
  <2>1. pc' = "loop" /\ it' = Incremented(i)
    BY <1>3 DEF Advance
  <2>2. Dir => it'.raw_offset = opts.scan_start
    BY <1>3, <2>1, IncrementedTyped DEF CrashInv
  <2> QED
    BY <1>1, <2>1, <2>2 DEF CrashInv, CrashesBeyondOnly
<1>4. CASE AddFile \/ Begin
  <2>1. CASE AddFile
    BY <2>1 DEF AddFile, CrashInv, CrashesBeyondOnly
  <2>2. CASE Begin
    <3>1. pc' = "loop" /\ it' = Iterator(opts.scan_start, 0, FALSE)
      BY <2>2 DEF Begin
    <3>2. it'.raw_offset = opts.scan_start
      BY <3>1 DEF Iterator
    <3> QED
      BY <1>1, <3>1, <3>2 DEF CrashInv, CrashesBeyondOnly
  <2> QED
    BY <1>4, <2>1, <2>2
<1>5. CASE Seek
  <2>1. pc = "loop" /\ pc' = "page" /\ ~AtEnd
    BY <1>5 DEF Seek
  <2>2. CASE Sampling
    <3>1. PICK b \in blocks : it' = Sought(b)
      BY <1>5, <2>2 DEF Seek
    <3>2. Dir => it'.raw_offset = it.raw_offset
      BY <1>0, <3>1 DEF Sought, Dir, Iterators
    <3> QED
      BY <1>1, <2>1, <2>2, <3>2 DEF CrashInv, CrashesBeyondOnly
  <2>3. CASE ~Sampling
    BY <1>2, <1>5, <2>1, <2>3 DEF Seek
  <2> QED
    BY <2>2, <2>3
<1>6. CASE Finish \/ StopAtScanEnd \/ Alloc \/ Ended \/ UNCHANGED vars
  <2>1. CASE Finish \/ StopAtScanEnd \/ Alloc
    <3>1. /\ it' = it /\ pc # "open" /\ pc' # "crashed"
          /\ pc' \in {"page", "read"} => pc \in {"page", "read"}
      BY <2>1 DEF Finish, StopAtScanEnd, Alloc, AtImage
    <3> QED
      BY <1>2, <3>1
  <2>2. CASE UNCHANGED vars
    BY <1>1, <2>2 DEF vars, CrashInv, CrashesBeyondOnly, AtEnd, Dir, Sampling, Found
  <2> QED
    BY <1>6, <2>1, <2>2 DEF Ended
<1>7. CASE Skip \/ MapFails \/ AllocFails \/ MapFile \/ Schedule
  <2>1. pc # "open" /\ Advance(it)
    BY <1>7 DEF Skip, MapFails, AllocFails, MapFile, Schedule, AtFile, AtImage, Miss
  <2> QED
    BY <1>0, <1>3, <2>1
<1>8. CASE NoSuchFile
  <2>1. /\ pc = "page" /\ Dir /\ it.file_number >= Found /\ pc' = "crashed" /\ it' = it
    BY <1>8 DEF NoSuchFile, AtFile, Crash
  <2>2. CASE Sampling
    BY <1>1, <2>1, <2>2 DEF CrashInv, CrashesBeyondOnly, Dir
  <2>3. CASE ~Sampling
    <3>1. it.file_number = Found /\ ~AtEnd
      BY <1>0, <2>1, <2>3 DEF OrderInv, CrashInv
    <3>2. opts.scan_start > 0
      BY <1>0, <2>1, <3>1 DEF AtEnd, CrashInv
    <3> QED
      BY <1>1, <2>1, <3>2 DEF CrashInv, CrashesBeyondOnly
  <2> QED
    BY <2>2, <2>3
<1>9. CASE Read
  <2>1. ASSUME NEW k \in DOMAIN file_list, ReadFile(file_list[k]) \/ ReadShort(file_list[k])
        PROVE  CrashInv'
    <3>1. it' = it /\ pc' = pc /\ pc = "read"
      BY <2>1 DEF ReadFile, ReadShort, Reading
    <3> QED
      BY <1>2, <3>1
  <2>2. ASSUME NEW k \in DOMAIN file_list, ReadFails(file_list[k]) PROVE CrashInv'
    <3>1. pc # "open" /\ Advance(it)
      BY <2>2 DEF ReadFails, Reading, Miss
    <3> QED
      BY <1>0, <1>3, <3>1
  <2>3. CASE ReadNothing /\ image.kind = "raw"
    <3> DEFINE i == [it EXCEPT !.eof = TRUE]
    <3>1. i \in Iterators /\ i.raw_offset = it.raw_offset /\ pc # "open" /\ Advance(i)
      BY <1>0, <2>3 DEF ReadNothing, Iterators
    <3> QED
      BY <1>3, <3>1
  <2>4. CASE ReadNothing /\ image.kind # "raw"
    <3>1. pc = "read" /\ count = 0 /\ pc' = "crashed" /\ it' = it
      BY <2>4 DEF ReadNothing, Crash
    <3>2. ~Dir /\ image.kind = "ewf"
      BY <1>0, <2>4, <3>1 DEF BufferInv, Dir
    <3>3. CASE Sampling
      BY <1>1, <2>4, <3>1, <3>2, <3>3 DEF CrashInv, CrashesBeyondOnly
    <3>4. CASE ~Sampling
      <4>1. it.file_number = 0 /\ ~AtEnd
        BY <3>1, <3>2, <3>4 DEF OrderInv, CrashInv
      <4>2. it.raw_offset # filesize
        BY <3>2, <4>1 DEF AtEnd
      <4>3. it.raw_offset <= filesize
        BY <1>0, <3>1 DEF BufferInv
      <4>4. cut
        BY <1>0, <3>1, <4>2, <4>3 DEF BufferInv, Smaller
      <4> QED
        BY <1>1, <3>1, <3>2, <4>4 DEF CrashInv, CrashesBeyondOnly
    <3> QED
      BY <3>3, <3>4
  <2>5. ASSUME Schedule PROVE CrashInv'
    BY <1>7, <2>5
  <2> QED
    BY <1>9, <2>1, <2>2, <2>3, <2>4, <2>5 DEF Read
<1> QED
  BY <1>4, <1>5, <1>6, <1>7, <1>8, <1>9 DEF Next

(* No byte is in two pages, whether a part of the image is sampled or all  *)
(* of it is read, although one block more than there are may be asked for; *)
(* sampling reads no more than its share, and the reader runs into a page  *)
(* that is not there in the named cases alone (random sampling, seek_block *)
(* and the loop of read_process_sbufs).                                    *)
THEOREM PagesRightHolds == Spec => []PagesRight
<1> DEFINE Inv == TypeInv /\ BufferInv /\ OrderInv /\ BytesRight /\ SampleInv /\ CrashInv
<1>1. Init => Inv
  <2> SUFFICES ASSUME Init PROVE Inv
    OBVIOUS
  <2>1. /\ pc = "open" /\ pages = {} /\ missed = {} /\ it.file_number = 0
        /\ it.raw_offset = 0 /\ filesize = 0 /\ Found = 0
    BY DEF Init, Iterator, Found
  <2> QED
    BY <2>1, TypeInvInit DEF BufferInv, OrderInv, PagesDisjoint, BytesRight, SampleInv, CrashInv,
       CrashesBeyondOnly
<1>2. Inv /\ [Next]_vars => Inv'
  BY TypeInvStep, BufferInvStep, OrderInvStep, BytesStep, SampleInvStep, CrashInvStep
<1>3. Inv => PagesRight
  <2> SUFFICES ASSUME Inv PROVE PagesRight
    OBVIOUS
  <2>1. PagesDisjoint
    <3>1. CASE pc = "open" \/ ~Sampling
      BY <3>1 DEF OrderInv, PagesDisjoint
    <3>2. CASE pc # "open" /\ Sampling
      BY <3>2 DEF SampleInv
    <3> QED
      BY <3>1, <3>2
  <2>2. SampledPages
    BY DEF SampleInv, SampledPages, Quota
  <2> QED
    BY <2>1, <2>2 DEF CrashInv, PagesRight, SamplingBounded
<1> HIDE DEF Inv
<1> QED
  BY <1>1, <1>2, <1>3, PTL DEF Spec

-----------------------------------------------------------------------------
(* A byte in a page, or in one that could not be read.                     *)
Covered(b) ==
  \/ \E p \in pages : b \in p.from..p.from + p.size - 1
  \/ \E m \in missed : b \in m[2]..m[2] + opts.pagesize - 1

Full == ~Sampling /\ ~Dir /\ opts.page_start = 0 /\ ~cut

(* All between scan_start and the iterator is covered; the reader stops    *)
(* at the end of the image, at scan_end, or with all read.                 *)
CoverInv ==
  pc # "open" /\ Full =>
    /\ it.raw_offset >= opts.scan_start \/ it.raw_offset = filesize
    /\ \A b \in opts.scan_start..it.raw_offset - 1 : b < filesize => Covered(b)
    /\ it.eof => it.raw_offset >= filesize
    /\ pc = "done" => it.raw_offset >= Limit

(* What is covered stays covered, and a step over a covered page keeps the *)
(* invariant.                                                              *)
LEMMA CoverAdvance ==
  ASSUME TypeInv, CoverInv, Full, pc # "open", [Next]_vars, NEW i \in Iterators, Advance(i),
         i.raw_offset = it.raw_offset,
         i.eof => it.raw_offset >= filesize,
         pages \subseteq pages', missed \subseteq missed',
         \A b \in Nat : it.raw_offset <= b /\ b < it.raw_offset + opts.pagesize
                          /\ b < filesize /\ opts.scan_start <= b => Covered(b)'
  PROVE  CoverInv'
<1>0. /\ filesize \in Nat /\ opts.pagesize \in Nat /\ opts.pagesize > 0
      /\ opts.scan_start \in Nat /\ it.raw_offset \in Nat
  BY OptionsTyped DEF TypeInv, TypeOK
<1>1. opts' = opts /\ filesize' = filesize /\ pc' = "loop"
  BY Frame DEF Advance, files
<1>2. /\ it'.raw_offset = Smaller(it.raw_offset + opts.pagesize, filesize)
      /\ it'.eof = i.eof
  BY IncrementedTyped DEF Full, Advance
<1>3. it'.raw_offset \in Nat
  BY <1>0, <1>2 DEF Smaller
<1>4. \A b : Covered(b) => Covered(b)'
  BY <1>1 DEF Covered
<1>5. it'.raw_offset >= opts.scan_start \/ it'.raw_offset = filesize
  BY <1>0, <1>2 DEF CoverInv, Smaller
<1>6. ASSUME NEW b \in opts.scan_start..it'.raw_offset - 1, b < filesize PROVE Covered(b)'
  <2>1. b \in Nat /\ opts.scan_start <= b /\ b < it.raw_offset + opts.pagesize
    BY <1>0, <1>2, <1>3, <1>6 DEF Smaller
  <2>2. CASE b < it.raw_offset
    <3>1. b \in opts.scan_start..it.raw_offset - 1
      BY <1>0, <2>1, <2>2
    <3> QED
      BY <1>4, <1>6, <3>1 DEF CoverInv
  <2>3. CASE it.raw_offset <= b
    BY <1>6, <2>1, <2>3
  <2> QED
    BY <1>0, <2>1, <2>2, <2>3
<1>7. i.eof => it'.raw_offset >= filesize
  BY <1>0, <1>2 DEF Smaller
<1> QED
  BY <1>1, <1>2, <1>5, <1>6, <1>7 DEF CoverInv

LEMMA CoverInvStep ==
  TypeInv /\ BufferInv /\ OrderInv /\ CoverInv /\ [Next]_vars => CoverInv'
<1> SUFFICES ASSUME TypeInv, BufferInv, OrderInv, CoverInv, [Next]_vars, Full'
             PROVE  CoverInv'
  BY DEF CoverInv
<1> USE DEF files, history
<1>0. /\ filesize \in Nat /\ count \in Nat /\ it \in Iterators /\ it.raw_offset \in Nat
      /\ opts.pagesize \in Nat /\ opts.pagesize > 0 /\ opts.scan_start \in Nat
      /\ opts.scan_end \in Nat /\ opts.margin \in Nat /\ it.page_number = 0
      /\ opts.page_start \in Nat
  BY OptionsTyped DEF TypeInv, TypeOK, Iterators
<1>1. /\ opts' = opts /\ Full
      /\ pc # "open" => filesize' = filesize /\ pc' # "open"
  BY Frame DEF Full, Dir, Sampling
<1>2. CASE AddFile
  BY <1>2 DEF AddFile, CoverInv
<1>3. CASE Begin
  <2>1. /\ it'.raw_offset = opts.scan_start /\ ~it'.eof /\ pc' = "loop"
    BY <1>3 DEF Begin, Iterator
  <2>2. opts.scan_start..it'.raw_offset - 1 = {}
    BY <1>0, <2>1
  <2> QED
    BY <1>0, <1>1, <2>1, <2>2 DEF CoverInv
<1>4. ASSUME pc # "open", UNCHANGED <<pages, missed, it>>, pc' = "done" => it.raw_offset >= Limit
      PROVE  CoverInv'
  <2>1. /\ filesize' = filesize /\ opts' = opts /\ Limit' = Limit
    BY <1>1, <1>4 DEF Limit
  <2>2. \A b : Covered(b) <=> Covered(b)'
    BY <1>4, <2>1 DEF Covered
  <2> QED
    BY <1>1, <1>4, <2>1, <2>2 DEF CoverInv
<1>5. CASE Finish
  <2>1. it.raw_offset >= filesize
    BY <1>0, <1>1, <1>5 DEF Finish, AtEnd, Full, CoverInv
  <2>2. filesize >= Limit
    BY <1>0 DEF Limit, Smaller
  <2>3. Limit \in Nat
    BY <1>0 DEF Limit, Smaller
  <2> QED
    BY <1>0, <1>4, <1>5, <2>1, <2>2, <2>3 DEF Finish
<1>6. CASE StopAtScanEnd
  <2>1. it.raw_offset >= Limit
    BY <1>0, <1>6 DEF StopAtScanEnd, Beyond, Limit, Smaller
  <2> QED
    BY <1>4, <1>6, <2>1 DEF StopAtScanEnd
<1>7. CASE Seek
  <2>1. pc' = "page" /\ pc # "open" /\ UNCHANGED <<pages, missed, it>>
    BY <1>1, <1>7 DEF Seek, Full
  <2> QED
    BY <1>4, <2>1
<1>8. CASE pc # "open" /\ UNCHANGED <<pages, missed, it>> /\ (pc' = "crashed" \/ pc' = pc \/ Alloc)
  <2>1. pc' = "done" => pc = "done"
    BY <1>8 DEF Alloc
  <2> QED
    BY <1>1, <1>4, <1>8, <2>1 DEF CoverInv
<1>9. CASE UNCHANGED vars
  <2>1. pc' = pc /\ UNCHANGED <<pages, missed, it>>
    BY <1>9 DEF vars
  <2>2. pc # "open" /\ pc = "done" => it.raw_offset >= Limit
    BY <1>1 DEF CoverInv
  <2> QED
    BY <1>4, <2>1, <2>2 DEF CoverInv
<1>10. CASE Skip
  <2>1. /\ pc # "open" /\ Advance(it) /\ it.raw_offset < opts.scan_start
        /\ UNCHANGED <<pages, missed>>
    BY <1>0, <1>1, <1>10 DEF Skip, Wanted, Full
  <2>2. it.raw_offset = filesize
    BY <1>0, <1>1, <2>1 DEF CoverInv
  <2>3. it.eof => it.raw_offset >= filesize
    BY <1>0, <2>2
  <2>4. \A b \in Nat : it.raw_offset <= b => ~(b < filesize)
    BY <1>0, <2>2
  <2> QED
    BY <1>0, <1>1, <2>1, <2>3, <2>4, CoverAdvance
<1>11. CASE Miss /\ pc \in {"page", "read"}
  <2>1. /\ Advance(it) /\ pc # "open" /\ UNCHANGED pages
        /\ missed' = missed \union {<<it.file_number, it.raw_offset>>}
    BY <1>11 DEF Miss
  <2>2. it.eof => it.raw_offset >= filesize
    BY <1>1, <2>1 DEF CoverInv
  <2>3. ASSUME NEW b \in Nat, it.raw_offset <= b, b < it.raw_offset + opts.pagesize
        PROVE  Covered(b)'
    <3>1. b \in it.raw_offset..it.raw_offset + opts.pagesize - 1
      BY <1>0, <2>3
    <3>2. <<it.file_number, it.raw_offset>>[2] = it.raw_offset
      OBVIOUS
    <3> QED
      BY <1>1, <2>1, <3>1, <3>2 DEF Covered
  <2> QED
    BY <1>0, <1>1, <2>1, <2>2, <2>3, CoverAdvance
<1>12. CASE MapFile
  BY <1>1, <1>12 DEF MapFile, AtFile, Full
<1>13. CASE ReadNothing /\ Advance([it EXCEPT !.eof = TRUE]) /\ UNCHANGED <<pages, missed>>
  <2> DEFINE i == [it EXCEPT !.eof = TRUE]
  <2>1. pc = "read" /\ count = 0 /\ Advance(i)
    BY <1>13 DEF ReadNothing
  <2>2. /\ count = Smaller(opts.pagesize + opts.margin, filesize - it.raw_offset)
        /\ it.raw_offset + count <= filesize
    BY <1>1, <2>1 DEF BufferInv, Full
  <2>3. it.raw_offset = filesize
    BY <1>0, <2>1, <2>2 DEF Smaller
  <2>4. i \in Iterators /\ i.raw_offset = it.raw_offset
    BY <1>0 DEF Iterators
  <2>5. \A b \in Nat : it.raw_offset <= b => ~(b < filesize)
    BY <1>0, <2>3
  <2>6. it.raw_offset >= filesize
    BY <1>0, <2>3
  <2> HIDE DEF i
  <2> QED
    BY <1>1, <1>13, <2>1, <2>4, <2>5, <2>6, CoverAdvance
<1>14. CASE Schedule
  <2>1. pc = "read" /\ Advance(it) /\ pages' = pages \union {Page} /\ UNCHANGED missed
    BY <1>14 DEF Schedule
  <2>2. /\ count = Smaller(opts.pagesize + opts.margin, filesize - it.raw_offset)
        /\ it.raw_offset + count <= filesize
    BY <1>1, <2>1 DEF BufferInv, Full
  <2>3. Page.from = it.raw_offset /\ Page.size = Smaller(opts.pagesize, count)
    BY DEF Page
  <2>4. it.eof => it.raw_offset >= filesize
    BY <1>1, <2>1 DEF CoverInv
  <2>5. ASSUME NEW b \in Nat, it.raw_offset <= b, b < it.raw_offset + opts.pagesize, b < filesize
        PROVE  Covered(b)'
    <3>1. b \in Page.from..Page.from + Page.size - 1
      BY <1>0, <2>2, <2>3, <2>5 DEF Smaller
    <3> QED
      BY <2>1, <3>1 DEF Covered
  <2> QED
    BY <1>0, <1>1, <2>1, <2>4, <2>5, CoverAdvance
<1> QED
  BY <1>2, <1>3, <1>5, <1>6, <1>7, <1>8, <1>9, <1>10, <1>11, <1>12, <1>13, <1>14, Steps

(* Without sampling every byte of the range that was asked for is in a     *)
(* page, or in one that could not be read, whatever the sizes of the page, *)
(* the margin and the files (read_process_sbufs, sbuf_alloc).              *)
THEOREM EveryByteReadHolds == Spec => []EveryByteRead
<1> DEFINE Inv == TypeInv /\ BufferInv /\ OrderInv /\ CoverInv
<1>1. Init => Inv
  <2> SUFFICES ASSUME Init PROVE BufferInv /\ OrderInv /\ CoverInv
    BY TypeInvInit
  <2>1. /\ pc = "open" /\ pages = {} /\ missed = {} /\ it.file_number = 0
        /\ it.raw_offset = 0 /\ filesize = 0 /\ Found = 0
    BY DEF Init, Iterator, Found
  <2> QED
    BY <2>1 DEF BufferInv, OrderInv, PagesDisjoint, CoverInv
<1>2. Inv /\ [Next]_vars => Inv'
  BY TypeInvStep, BufferInvStep, OrderInvStep, CoverInvStep
<1>3. Inv => EveryByteRead
  <2> SUFFICES ASSUME Inv, Whole, ~Dir, NEW b \in opts.scan_start..Limit - 1
               PROVE  Covered(b)
    BY DEF EveryByteRead, Covered
  <2>1. /\ filesize \in Nat /\ it.raw_offset \in Nat /\ opts.scan_start \in Nat
        /\ opts.scan_end \in Nat
    BY OptionsTyped DEF TypeInv, TypeOK
  <2>2. Limit \in Nat /\ Limit <= filesize
    BY <2>1 DEF Limit, Smaller
  <2>3. Full /\ it.raw_offset >= Limit
    BY DEF Whole, Full, CoverInv
  <2>4. b \in opts.scan_start..it.raw_offset - 1 /\ b < filesize
    BY <2>1, <2>2, <2>3
  <2> QED
    BY <2>3, <2>4 DEF CoverInv, Whole
<1> HIDE DEF Inv
<1> QED
  BY <1>1, <1>2, <1>3, PTL DEF Spec

-----------------------------------------------------------------------------
(* Unless a file was found shorter, the buffer of a page has its margin,   *)
(* or all that follows in the image.                                       *)
MarginInv ==
  ~Dir /\ ~cut =>
    \A p \in pages :
      Len(p.bytes) = Smaller(opts.pagesize + opts.margin, filesize - p.from)

LEMMA MarginInvStep ==
  TypeInv /\ BufferInv /\ OrderInv /\ MarginInv /\ [Next]_vars => MarginInv'
<1> SUFFICES ASSUME TypeInv, BufferInv, OrderInv, MarginInv, [Next]_vars, ~Dir', ~cut'
             PROVE  MarginInv'
  BY DEF MarginInv
<1>1. /\ opts' = opts /\ ~Dir /\ ~cut
      /\ pc # "open" => filesize' = filesize
  BY Frame DEF Dir, files
<1>2. CASE UNCHANGED pages
  BY <1>1, <1>2 DEF MarginInv, OrderInv
<1>3. CASE Schedule
  <2>1. pc = "read" /\ Len(buf) = count /\ pages' = pages \union {Page}
    BY <1>3 DEF Schedule
  <2>2. Page.bytes = buf /\ Page.from = it.raw_offset
    BY DEF Page
  <2> QED
    BY <1>1, <2>1, <2>2 DEF MarginInv, BufferInv
<1> QED
  BY <1>1, <1>2, <1>3, PagesStep DEF MapFile, AtFile

(* If everything could be read, a feature that exceeds the margin by one   *)
(* byte at most is written for exactly one page, wherever it lies, for any *)
(* page size and margin (write_buf, sbuf_alloc).                           *)
THEOREM FeaturesOnceHolds == Spec => []FeaturesOnce
<1> DEFINE Inv == /\ TypeInv /\ BufferInv /\ OrderInv /\ CoverInv
                  /\ BytesRight /\ MarginInv
<1>1. Init => Inv
  <2> SUFFICES ASSUME Init
               PROVE  BufferInv /\ OrderInv /\ CoverInv /\ BytesRight /\ MarginInv
    BY TypeInvInit
  <2>1. /\ pc = "open" /\ pages = {} /\ missed = {} /\ it.file_number = 0
        /\ it.raw_offset = 0 /\ filesize = 0 /\ Found = 0
    BY DEF Init, Iterator, Found
  <2> QED
    BY <2>1 DEF BufferInv, OrderInv, PagesDisjoint, CoverInv, BytesRight, MarginInv
<1>2. Inv /\ [Next]_vars => Inv'
  BY TypeInvStep, BufferInvStep, OrderInvStep, CoverInvStep, BytesStep, MarginInvStep
<1>3. Inv => FeaturesOnce
  <2> SUFFICES ASSUME Inv, Whole, ~Dir, missed = {},
                      NEW x \in opts.scan_start..Limit - 1, NEW n \in 1..opts.margin + 1,
                      x + n <= filesize
               PROVE  Cardinality({p \in pages : Writes(p, x, n)}) = 1
    BY DEF FeaturesOnce
  <2>1. /\ filesize \in Nat /\ it.raw_offset \in Nat /\ opts.scan_start \in Nat
        /\ opts.scan_end \in Nat /\ opts.pagesize \in Nat /\ opts.margin \in Nat
    BY OptionsTyped DEF TypeInv, TypeOK
  <2>2. Limit \in Nat /\ Limit <= filesize
    BY <2>1 DEF Limit, Smaller
  <2>3. /\ Full /\ it.raw_offset >= Limit /\ pc # "open" /\ ~Sampling
    BY DEF Whole, Full, CoverInv
  <2>4. /\ x \in opts.scan_start..it.raw_offset - 1 /\ x < filesize
        /\ x \in Nat /\ n \in Nat /\ n > 0 /\ n <= opts.margin + 1
    BY <2>1, <2>2, <2>3
  <2>5. PICK p \in pages : x \in p.from..p.from + p.size - 1
    BY <2>3, <2>4 DEF CoverInv, Covered
  <2>6. \A q \in pages : q.from \in Nat /\ q.size \in Nat /\ Len(q.bytes) \in Nat
    BY LenProperties DEF TypeInv, TypeOK
  <2>7. /\ p.size <= opts.pagesize
        /\ Len(p.bytes) = Smaller(opts.pagesize + opts.margin, filesize - p.from)
    BY <2>3 DEF BytesRight, MarginInv, Full
  <2>8. Writes(p, x, n)
    <3>1. /\ p.from \in Nat /\ p.size \in Nat /\ Len(p.bytes) \in Nat
          /\ p.from <= x /\ x < p.from + p.size
      BY <2>4, <2>5, <2>6
    <3>2. p.size <= opts.pagesize
      BY <2>7
    <3>3. x - p.from < opts.pagesize
      BY <2>1, <2>4, <3>1, <3>2
    <3>4. (x - p.from) + n <= opts.pagesize + opts.margin
      BY <2>1, <2>4, <3>1, <3>3
    <3>5. (x - p.from) + n <= filesize - p.from
      BY <2>1, <2>4, <3>1
    <3>6. (x - p.from) + n <= Len(p.bytes)
      BY <2>7, <3>4, <3>5 DEF Smaller
    <3> QED
      BY <2>4, <3>1, <3>6 DEF Writes
  <2>9. ASSUME NEW q \in pages, Writes(q, x, n) PROVE q = p
    <3>1. /\ p.from <= x /\ x < p.from + p.size
          /\ q.from <= x /\ x < q.from + q.size
      BY <2>4, <2>5, <2>6, <2>9 DEF Writes
    <3>2. p.file = q.file
      BY <2>3 DEF OrderInv
    <3>3. ~Disjoint(p, q)
      BY <2>4, <2>6, <3>1, <3>2 DEF Disjoint
    <3> QED
      BY <2>3, <3>3 DEF OrderInv, PagesDisjoint
  <2>10. {q \in pages : Writes(q, x, n)} = {p}
    BY <2>8, <2>9
  <2> QED
    BY <2>10, FS_Singleton
<1> HIDE DEF Inv
<1> QED
  BY <1>1, <1>2, <1>3, PTL DEF Spec
=============================================================================
