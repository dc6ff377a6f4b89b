------------------------------- MODULE Carver -------------------------------
(***************************************************************************)
(* Carving: feature_recorder::carve in be20_api/feature_recorder.cpp, with *)
(* the cache of atomic_set.h and the carve and dedupe modes.  Workers      *)
(* carve objects at the same time.  An object is known by its hash, the    *)
(* name its file gets and the kind of its forensic path.                   *)
(***************************************************************************)
EXTENDS Integers, FiniteSets

CONSTANTS
  Workers,
  Objects,      \* what scanners find
  Hash,         \* per object: the hash of its data
  Name,         \* per object: the end of its forensic path, after the last
                \* '/', with the extension
  Path,         \* per object: "bare", "encoded", or "ignored" if the only
                \* encoding is the one of do_not_carve_encoding
  Large,        \* the objects that do not fit into the stream's buffer
  Bucket,       \* per hash: the directory derived from it
  FilesPerDir,  \* 1000
  DiskMayFill   \* whether writes may fail

ASSUME CarverAssumption ==
  /\ IsFiniteSet(Objects) /\ Large \subseteq Objects
  /\ FilesPerDir \in Nat \ {0} /\ DiskMayFill \in BOOLEAN
  /\ \A o \in Objects : Path[o] \in {"bare", "encoded", "ignored"}

VARIABLES
  carve_mode,         \* CARVE_NONE, CARVE_ENCODED or CARVE_ALL
  dedupe_mode,        \* NONE, RECURSIVE or LEGACY
  found,              \* the objects not carved yet
  at,                 \* per worker: the step it is at, for which object
  seq,                \* per worker: the directory it writes to
  carve_cache,
  carved_file_count,
  lines,              \* the feature file: [object, file]; CACHED is no file
  disk,               \* per file: the data in it, by hash; "part" if cut off
  thrown,             \* history: objects whose carving ended by an exception
  unnoticed           \* history: those whose write failed without one

modes == <<carve_mode, dedupe_mode>>
history == <<thrown, unnoticed>>
vars == <<modes, found, at, seq, carve_cache, carved_file_count, lines, disk, history>>

CACHED == <<>>
Idle == [step |-> "idle"]
At(step, o) == [step |-> step, object |-> o]

Init ==
  /\ carve_mode \in {"none", "encoded", "all"}
  /\ dedupe_mode \in {"none", "recursive", "legacy"}
  /\ found = Objects
  /\ at = [w \in Workers |-> Idle]
  /\ seq = [w \in Workers |-> 0]
  /\ carve_cache = {}
  /\ carved_file_count = 0
  /\ lines = {}
  /\ disk = [f \in {} |-> {}]
  /\ thrown = {}
  /\ unnoticed = {}

-----------------------------------------------------------------------------
Object(w) == at[w].object
Doing(w, step) == at[w].step = step
Goto(w, step) == at' = [at EXCEPT ![w] = At(step, Object(w))]
Return(w) == at' = [at EXCEPT ![w] = Idle]
File(w) == <<seq[w], Name[Object(w)]>>

(* Mutant of Accepts: a bare object too.                                   *)
AcceptsBare(o) == carve_mode = "all" \/ (carve_mode = "encoded" /\ Path[o] # "ignored")
Accepts(o) == carve_mode = "all" \/ (carve_mode = "encoded" /\ Path[o] = "encoded")

Carve(w, o) ==
  /\ Doing(w, "idle") /\ o \in found
  /\ found' = found \ {o}
  /\ at' = IF Accepts(o) THEN [at EXCEPT ![w] = At("cache", o)] ELSE at
  /\ UNCHANGED <<modes, seq, carve_cache, carved_file_count, lines, disk, history>>

(* Mutants of CheckCache: the hash is not inserted.                        *)
CheckOnly(w) ==
  /\ Doing(w, "cache")
  /\ IF dedupe_mode = "legacy" /\ Hash[Object(w)] \in carve_cache
       THEN Goto(w, "cached") ELSE Goto(w, "number")
  /\ UNCHANGED <<modes, found, seq, carve_cache, carved_file_count, lines, disk, history>>
(* It is inserted before the check.                                        *)
InsertAndCheck(w) ==
  /\ Doing(w, "cache")
  /\ carve_cache' = carve_cache \union {Hash[Object(w)]}
  /\ Goto(w, IF dedupe_mode = "legacy" THEN "cached" ELSE "number")
  /\ UNCHANGED <<modes, found, seq, carved_file_count, lines, disk, history>>
(* check_for_presence_and_insert, one step under the mutex of the set.     *)
CheckCache(w) ==
  /\ Doing(w, "cache")
  /\ IF dedupe_mode # "legacy"
       THEN Goto(w, "number") /\ UNCHANGED carve_cache
       ELSE /\ carve_cache' = carve_cache \union {Hash[Object(w)]}
            /\ Goto(w, IF Hash[Object(w)] \in carve_cache THEN "cached" ELSE "number")
  /\ UNCHANGED <<modes, found, seq, carved_file_count, lines, disk, history>>

(* The directory, which is made if there is none: from the atomic counter, *)
(* or from the hash.                                                       *)
Number(w) ==
  /\ Doing(w, "number")
  /\ IF dedupe_mode = "legacy"
       THEN /\ seq' = [seq EXCEPT ![w] = carved_file_count \div FilesPerDir]
            /\ carved_file_count' = carved_file_count + 1
       ELSE /\ seq' = [seq EXCEPT ![w] = Bucket[Hash[Object(w)]]]
            /\ UNCHANGED carved_file_count
  /\ Goto(w, "line")
  /\ UNCHANGED <<modes, found, carve_cache, lines, disk, history>>

Throw(w) ==
  /\ thrown' = thrown \union {Object(w)}
  /\ Return(w)
  /\ UNCHANGED <<modes, found, seq, carve_cache, carved_file_count, unnoticed>>

(* The feature is written before the data.                                 *)
WriteCached(w) ==
  /\ Doing(w, "cached")
  /\ lines' = lines \union {[object |-> Object(w), file |-> CACHED]}
  /\ Return(w)
  /\ UNCHANGED <<modes, found, seq, carve_cache, carved_file_count, disk, history>>
WriteLine(w) ==
  /\ Doing(w, "line")
  /\ lines' = lines \union {[object |-> Object(w), file |-> File(w)]}
  /\ Goto(w, "open")
  /\ UNCHANGED <<modes, found, seq, carve_cache, carved_file_count, disk, history>>
LineFails(w) ==
  /\ Doing(w, "cached") \/ Doing(w, "line")
  /\ DiskMayFill
  /\ Throw(w)
  /\ UNCHANGED <<lines, disk>>

Holds(f, data) == [g \in DOMAIN disk \union {f} |-> IF g = f THEN data ELSE disk[g]]
Data(f) == IF f \in DOMAIN disk THEN disk[f] ELSE {}

Open(w) ==
  /\ Doing(w, "open")
  /\ disk' = Holds(File(w), {})
  /\ Goto(w, "write")
  /\ UNCHANGED <<modes, found, seq, carve_cache, carved_file_count, lines, history>>
OpenFails(w) ==
  /\ Doing(w, "open") /\ DiskMayFill
  /\ Throw(w)
  /\ UNCHANGED <<lines, disk>>

(* Mutant of Write: small data is forgotten in the buffer.                 *)
WriteLarge(w) ==
  /\ Doing(w, "write")
  /\ disk' = IF Object(w) \in Large
               THEN Holds(File(w), Data(File(w)) \union {Hash[Object(w)]}) ELSE disk
  /\ Return(w)
  /\ UNCHANGED <<modes, found, seq, carve_cache, carved_file_count, lines, history>>
(* Data larger than the buffer goes to the file, other data to the buffer. *)
Write(w) ==
  /\ Doing(w, "write")
  /\ IF Object(w) \in Large
       THEN /\ disk' = Holds(File(w), Data(File(w)) \union {Hash[Object(w)]})
            /\ Return(w)
       ELSE /\ Goto(w, "close")
            /\ UNCHANGED disk
  /\ UNCHANGED <<modes, found, seq, carve_cache, carved_file_count, lines, history>>
WriteFails(w) ==
  /\ Doing(w, "write") /\ Object(w) \in Large /\ DiskMayFill
  /\ disk' = Holds(File(w), Data(File(w)) \union {"part"})
  /\ Throw(w)
  /\ UNCHANGED lines

(* close() writes the buffer.  If it cannot it sets failbit, and carve     *)
(* asks for badbit.                                                        *)
Close(w) ==
  /\ Doing(w, "close")
  /\ disk' = Holds(File(w), Data(File(w)) \union {Hash[Object(w)]})
  /\ Return(w)
  /\ UNCHANGED <<modes, found, seq, carve_cache, carved_file_count, lines, history>>
CloseFails(w) ==
  /\ Doing(w, "close") /\ DiskMayFill
  /\ disk' = Holds(File(w), Data(File(w)) \union {"part"})
  /\ unnoticed' = unnoticed \union {Object(w)}
  /\ Return(w)
  /\ UNCHANGED <<modes, found, seq, carve_cache, carved_file_count, lines, thrown>>

Done == found = {} /\ (\A w \in Workers : at[w] = Idle)
Ended == Done /\ UNCHANGED vars

Worker(w) ==
  \/ \E o \in Objects : Carve(w, o)
  \/ CheckCache(w) \/ Number(w) \/ WriteCached(w) \/ WriteLine(w) \/ LineFails(w)
  \/ Open(w) \/ OpenFails(w) \/ Write(w) \/ WriteFails(w) \/ Close(w) \/ CloseFails(w)
Next == (\E w \in Workers : Worker(w)) \/ Ended
Spec == Init /\ [][Next]_vars

-----------------------------------------------------------------------------
(* Properties.                                                             *)

Steps == {"cache", "cached", "number", "line", "open", "write", "close"}
TypeOK ==
  /\ found \subseteq Objects
  /\ at \in [Workers -> {Idle} \union {At(step, o) : step \in Steps, o \in Objects}]
  /\ carved_file_count \in 0..Cardinality(Objects)
  /\ dedupe_mode # "legacy" => carve_cache = {} /\ carved_file_count = 0
  /\ \A l \in lines : l.object \in Objects
  /\ thrown \union unnoticed \subseteq Objects

Named == {l \in lines : l.file # CACHED}
Busy == {at[w].object : w \in {v \in Workers : at[v] # Idle}}
(* No other object has a file of that name.                                *)
Alone(o) == \A q \in Objects \ {o} : Name[q] # Name[o]
Failed == thrown \union unnoticed

(* A file that the feature file names holds the whole object, once it is   *)
(* carved, if nothing failed and no other object has its name              *)
(* (feature_recorder.cpp:366-392).                                         *)
NamedFilesWhole ==
  \A l \in Named : l.object \notin Busy \union Failed /\ Alone(l.object) =>
    l.file \in DOMAIN disk /\ disk[l.file] = {Hash[l.object]}

(* With the cache, two workers do not both write the same data             *)
(* (feature_recorder.cpp:334, atomic_set.h:57).                            *)
OneFilePerHash ==
  dedupe_mode = "legacy" =>
    \A l, m \in Named : Hash[l.object] = Hash[m.object] => l = m

(* An object said to be cached has an original: named, still being carved, *)
(* or lost to an exception (feature_recorder.cpp:334-336).                 *)
CachedHasOriginal ==
  \A l \in lines \ Named :
    \E o \in Objects \ {l.object} :
      /\ Hash[o] = Hash[l.object]
      /\ o \in thrown \union Busy \union {m.object : m \in Named}

(* No mode loses data: unless something failed or names clash, there is a  *)
(* file with the data of every accepted object (carving.md: modes change   *)
(* redundancy and attribution, not content hashes).                        *)
ModesKeepHashes ==
  Done /\ Failed = {} =>
    \A o \in Objects :
      /\ Accepts(o)
      /\ \A q \in Objects : Hash[q] = Hash[o] => Alone(q)
      => \E f \in DOMAIN disk : disk[f] = {Hash[o]}

(* Without the cache the feature file does not depend on the order of the  *)
(* workers (BECurrentGuide.tex:314-316): one line per accepted object,     *)
(* and bare objects are for CARVE_ALL alone.                               *)
Reproducible ==
  Done /\ Failed = {} /\ dedupe_mode # "legacy" =>
    lines = {[object |-> o, file |-> <<Bucket[Hash[o]], Name[o]>>] :
               o \in {q \in Objects : \/ carve_mode = "all"
                                      \/ carve_mode = "encoded" /\ Path[q] = "encoded"}}


(* What the manual promises of the modes.                                  *)
ModesKeepPromises == TypeOK /\ ModesKeepHashes /\ Reproducible

(* The cache of hashes tells the truth, to all workers at once: one file   *)
(* for a hash, and an original for whatever is said to be cached.          *)
CacheRight == OneFilePerHash /\ CachedHasOriginal
=============================================================================
