---------------------------- MODULE RecordProofs ----------------------------
(***************************************************************************)
(* Proofs about what a recorder writes of one object: the file it carves   *)
(* (Carver), for any number of workers and objects, with names, hashes and *)
(* failures of any kind; and the text of its feature, escaped              *)
(* (UnicodeEscape, as E), for strings of any length.                       *)
(***************************************************************************)
EXTENDS Carver, Escaping, SequenceTheorems, FiniteSetTheorems, WellFoundedInduction, TLAPS

TypeInv ==
  /\ found \subseteq Objects
  /\ thrown \subseteq Objects
  /\ \A l \in lines : l.object \in Objects
  /\ at \in [Workers -> {Idle} \union {At(step, o) : step \in Steps, o \in Objects}]

(* A worker is idle or at a step with an object.                           *)
LEMMA Shape ==
  ASSUME TypeInv, NEW w \in Workers
  PROVE  \/ at[w] = Idle /\ at[w].step = "idle"
         \/ at[w] # Idle /\ at[w].step \in Steps /\ at[w].object \in Objects
<1>1. at[w] \in {Idle} \union {At(step, o) : step \in Steps, o \in Objects}
  BY DEF TypeInv
<1>2. Idle.step = "idle"
  BY DEF Idle
<1>3. ASSUME NEW step \in Steps, NEW o \in Objects
      PROVE  At(step, o).step = step /\ At(step, o).object = o /\ At(step, o) # Idle
  <2>1. At(step, o).step = step /\ At(step, o).object = o
    BY DEF At
  <2>2. step # "idle"
    BY DEF Steps
  <2> QED
    BY <1>2, <2>1, <2>2
<1> QED
  BY <1>1, <1>2, <1>3

LEMMA Moves ==
  ASSUME TypeInv, NEW w \in Workers, NEW step \in Steps, NEW o \in Objects,
         at' = [at EXCEPT ![w] = At(step, o)]
  PROVE  /\ at'[w].step = step /\ at'[w].object = o /\ at'[w] # Idle
         /\ \A v \in Workers \ {w} : at'[v] = at[v]
         /\ at' \in [Workers -> {Idle} \union {At(s, q) : s \in Steps, q \in Objects}]
<1>1. /\ at'[w] = At(step, o)
      /\ \A v \in Workers \ {w} : at'[v] = at[v]
      /\ at' \in [Workers -> {Idle} \union {At(s, q) : s \in Steps, q \in Objects}]
  BY DEF TypeInv
<1>2. At(step, o).step = step /\ At(step, o).object = o
  BY DEF At
<1>3. step # "idle" /\ Idle.step = "idle"
  BY DEF Steps, Idle
<1> QED
  BY <1>1, <1>2, <1>3

LEMMA Goes ==
  ASSUME TypeInv, NEW w \in Workers, at[w].step \in Steps, NEW step \in Steps, Goto(w, step)
  PROVE  /\ at'[w].step = step /\ at'[w] # Idle
         /\ \A v \in Workers : Object(v)' = Object(v)
         /\ \A v \in Workers \ {w} : at'[v] = at[v]
<1>1. PICK o \in Objects : o = at[w].object
  BY Shape DEF Steps
<1>2. at' = [at EXCEPT ![w] = At(step, o)]
  BY <1>1 DEF Goto, Object
<1>3. at'[w] = At(step, o) /\ \A v \in Workers \ {w} : at'[v] = at[v]
  BY <1>2 DEF TypeInv
<1>5. At(step, o).step = step /\ At(step, o).object = o /\ At(step, o) # Idle
  <2>1. At(step, o).step = step /\ At(step, o).object = o
    BY DEF At
  <2> QED
    BY <2>1 DEF Steps, Idle
<1>4. ASSUME NEW v \in Workers PROVE at'[v].object = at[v].object
  BY <1>1, <1>3, <1>5
<1> QED
  BY <1>3, <1>4, <1>5 DEF Object

LEMMA Returns ==
  ASSUME TypeInv, NEW w \in Workers, Return(w)
  PROVE  /\ at'[w] = Idle /\ at'[w].step = "idle"
         /\ \A v \in Workers \ {w} : at'[v] = at[v]
         /\ at' \in [Workers -> {Idle} \union {At(s, q) : s \in Steps, q \in Objects}]
<1>1. Idle.step = "idle"
  BY DEF Idle
<1> QED
  BY <1>1 DEF TypeInv, Return

-----------------------------------------------------------------------------
(* The steps of a worker, seen from the feature file: it takes an object,  *)
(* it asks the cache, it goes on, it writes a line, or it is done.         *)
Begins(w) ==
  \E o \in found : /\ Doing(w, "idle") /\ found' = found \ {o}
                   /\ at' = at \/ at' = [at EXCEPT ![w] = At("cache", o)]
                   /\ UNCHANGED <<lines, thrown, carve_cache>>
GoesOn(w, from, to) ==
  /\ Doing(w, from) /\ Goto(w, to)
  /\ UNCHANGED <<found, lines, thrown, carve_cache>>
Ends(w) ==
  /\ \E s \in {"open", "write", "close"} : Doing(w, s)
  /\ Return(w)
  /\ thrown' = thrown \/ thrown' = thrown \union {Object(w)}
  /\ UNCHANGED <<found, lines, carve_cache>>
Fails(w) ==
  /\ Doing(w, "cached") \/ Doing(w, "line")
  /\ Return(w)
  /\ thrown' = thrown \union {Object(w)}
  /\ UNCHANGED <<found, lines, carve_cache>>

LEMMA WorkerStep ==
  ASSUME NEW w \in Workers, Worker(w)
  PROVE  \/ Begins(w)
         \/ CheckCache(w)
         \/ GoesOn(w, "number", "line")
         \/ WriteLine(w)
         \/ WriteCached(w)
         \/ Fails(w)
         \/ GoesOn(w, "open", "write") \/ GoesOn(w, "write", "close")
         \/ Ends(w)
<1>1. ASSUME NEW o \in Objects, Carve(w, o) PROVE Begins(w)
  <2>1. /\ o \in found /\ Doing(w, "idle") /\ found' = found \ {o}
        /\ UNCHANGED <<lines, thrown, carve_cache>>
    BY <1>1 DEF Carve, history
  <2>2. at' = at \/ at' = [at EXCEPT ![w] = At("cache", o)]
    BY <1>1 DEF Carve
  <2> QED
    BY <2>1, <2>2 DEF Begins
<1>2. CASE Number(w) \/ Open(w)
  BY <1>2 DEF Number, Open, GoesOn, modes, history
<1>3. CASE LineFails(w)
  BY <1>3 DEF LineFails, Throw, Fails
<1>4. CASE OpenFails(w) \/ WriteFails(w)
  BY <1>4 DEF OpenFails, WriteFails, Throw, Ends
<1>5. CASE Write(w)
  BY <1>5 DEF Write, Ends, GoesOn, history
<1>6. CASE Close(w) \/ CloseFails(w)
  BY <1>6 DEF Close, CloseFails, Ends, history
<1> QED
  BY <1>1, <1>2, <1>3, <1>4, <1>5, <1>6 DEF Worker

LEMMA TypeInvInit == Init => TypeInv
  BY DEF Init, TypeInv

LEMMA TypeInvStep == TypeInv /\ [Next]_vars => TypeInv'
<1> SUFFICES ASSUME TypeInv, [Next]_vars PROVE TypeInv'
  OBVIOUS
<1>1. ASSUME NEW w \in Workers, Worker(w) PROVE TypeInv'
  <2>0. at[w].step \in Steps => Object(w) \in Objects
    BY Shape DEF Object, Steps
  <2>1. CASE Begins(w)
    BY <2>1, Moves DEF Begins, TypeInv, Steps
  <2>2. ASSUME NEW from \in Steps, NEW to \in Steps, GoesOn(w, from, to) PROVE TypeInv'
    BY <2>0, <2>2, Moves DEF GoesOn, Goto, Doing, TypeInv
  <2>3. CASE CheckCache(w)
    <3>1. Goto(w, "number") \/ Goto(w, "cached")
      BY <2>3 DEF CheckCache
    <3>2. Doing(w, "cache") /\ UNCHANGED <<found, lines, thrown>>
      BY <2>3 DEF CheckCache, history
    <3> QED
      BY <2>0, <3>1, <3>2, Moves DEF Goto, Doing, TypeInv, Steps
  <2>4. CASE WriteLine(w)
    <3>1. /\ lines' = lines \union {[object |-> Object(w), file |-> File(w)]}
          /\ Doing(w, "line") /\ Goto(w, "open") /\ UNCHANGED <<found, thrown>>
      BY <2>4 DEF WriteLine, history
    <3> QED
      BY <2>0, <3>1, Moves DEF Goto, Doing, TypeInv, Steps
  <2>5. CASE WriteCached(w)
    <3>1. /\ lines' = lines \union {[object |-> Object(w), file |-> CACHED]}
          /\ Doing(w, "cached") /\ Return(w) /\ UNCHANGED <<found, thrown>>
      BY <2>5 DEF WriteCached, history
    <3> QED
      BY <2>0, <3>1, Returns DEF Doing, TypeInv, Steps
  <2>6. CASE Fails(w)
    BY <2>0, <2>6, Returns DEF Fails, Doing, TypeInv, Steps
  <2>7. CASE Ends(w)
    BY <2>0, <2>7, Returns DEF Ends, Doing, TypeInv, Steps
  <2>8. {"number", "line", "open", "write", "close"} \subseteq Steps
    BY DEF Steps
  <2> QED
    BY <1>1, <2>1, <2>2, <2>3, <2>4, <2>5, <2>6, <2>7, <2>8, WorkerStep
<1>2. CASE UNCHANGED vars
  BY <1>2 DEF vars, history, TypeInv
<1> QED
  BY <1>1, <1>2 DEF Next, Ended

-----------------------------------------------------------------------------
(* A worker that found its hash not in the cache holds it alone until the  *)
(* line is written; all hashes so held or named are in the cache.          *)
Claims(w) == at[w].step \in {"number", "line"}

ClaimInv ==
  dedupe_mode = "legacy" =>
    /\ \A l \in Named : Hash[l.object] \in carve_cache
    /\ \A w \in Workers : Claims(w) => /\ Hash[Object(w)] \in carve_cache
                                       /\ \A l \in Named : Hash[l.object] # Hash[Object(w)]
    /\ \A w, v \in Workers :
         Claims(w) /\ Claims(v) /\ Hash[Object(w)] = Hash[Object(v)] => w = v
    /\ OneFilePerHash

LEMMA NamedFile == ASSUME NEW w \in Workers PROVE File(w) # CACHED
  BY DEF File, CACHED

LEMMA ClaimInvStep == TypeInv /\ ClaimInv /\ [Next]_vars => ClaimInv'
<1> SUFFICES ASSUME TypeInv, ClaimInv, [Next]_vars PROVE ClaimInv'
  OBVIOUS
<1>1. ASSUME NEW w \in Workers, Worker(w) PROVE ClaimInv'
  <2>0. dedupe_mode' = dedupe_mode
    BY <1>1 DEF Worker, modes, Carve, CheckCache, Number, WriteCached, WriteLine, LineFails,
       Open, OpenFails, Write, WriteFails, Close, CloseFails, Throw
  <2>1. at[w].step \in Steps => Object(w) \in Objects
    BY Shape DEF Object, Steps
  (* A step after which no worker claims a hash that it did not claim.     *)
  <2>2. ASSUME Named' = Named, carve_cache' = carve_cache,
               \A v \in Workers : Claims(v)' => Claims(v) /\ Object(v)' = Object(v)
        PROVE  ClaimInv'
    BY <2>0, <2>2 DEF ClaimInv, OneFilePerHash
  <2>3. CASE Begins(w)
    <3>1. \A v \in Workers : Claims(v)' => Claims(v) /\ Object(v)' = Object(v)
      BY <2>3, Moves DEF Begins, Claims, TypeInv, Steps, Object
    <3> QED
      BY <2>2, <2>3, <3>1 DEF Begins, Named
  <2>4. ASSUME GoesOn(w, "number", "line") \/ GoesOn(w, "open", "write")
                 \/ GoesOn(w, "write", "close")
        PROVE  ClaimInv'
    <3>1. \A v \in Workers : Claims(v)' => Claims(v) /\ Object(v)' = Object(v)
      BY <2>1, <2>4, Moves DEF GoesOn, Goto, Doing, Claims, Steps, Object
    <3> QED
      BY <2>2, <2>4, <3>1 DEF GoesOn, Named
  <2>5. CASE Ends(w) \/ Fails(w)
    <3>1. \A v \in Workers : Claims(v)' => Claims(v) /\ Object(v)' = Object(v)
      BY <2>5, Returns DEF Ends, Fails, Claims, Object
    <3> QED
      BY <2>2, <2>5, <3>1 DEF Ends, Fails, Named
  <2>6. CASE WriteCached(w)
    <3>1. lines' = lines \union {[object |-> Object(w), file |-> CACHED]}
          /\ Return(w) /\ carve_cache' = carve_cache
      BY <2>6 DEF WriteCached
    <3>2. Named' = Named
      BY <3>1 DEF Named, CACHED
    <3>3. \A v \in Workers : Claims(v)' => Claims(v) /\ Object(v)' = Object(v)
      BY <3>1, Returns DEF Claims, Object
    <3> QED
      BY <2>2, <3>1, <3>2, <3>3
  <2>7. CASE CheckCache(w)
    <3>1. /\ Doing(w, "cache") /\ lines' = lines /\ Named' = Named /\ Object(w) \in Objects
      BY <2>1, <2>7 DEF CheckCache, Named, Doing, Steps
    <3>2. CASE dedupe_mode # "legacy"
      BY <2>0, <3>2 DEF ClaimInv
    <3>3. CASE dedupe_mode = "legacy" /\ Hash[Object(w)] \in carve_cache
      <4>1. Goto(w, "cached") /\ carve_cache' = carve_cache
        BY <2>7, <3>3 DEF CheckCache
      <4>2. \A v \in Workers : Claims(v)' => Claims(v) /\ Object(v)' = Object(v)
        BY <3>1, <4>1, Goes DEF Doing, Claims, Steps
      <4> QED
        BY <2>2, <3>1, <4>1, <4>2
    <3>4. CASE dedupe_mode = "legacy" /\ Hash[Object(w)] \notin carve_cache
      <4>1. Goto(w, "number") /\ carve_cache' = carve_cache \union {Hash[Object(w)]}
        BY <2>7, <3>4 DEF CheckCache
      <4>2. /\ Object(w)' = Object(w)
            /\ \A v \in Workers \ {w} : Object(v)' = Object(v) /\ (Claims(v)' => Claims(v))
        BY <3>1, <4>1, Goes DEF Doing, Claims, Steps
      <4>3. /\ \A l \in Named : Hash[l.object] # Hash[Object(w)]
            /\ \A v \in Workers : Claims(v) => Hash[Object(v)] # Hash[Object(w)]
        BY <3>4 DEF ClaimInv
      <4> QED
        BY <2>0, <3>1, <3>4, <4>1, <4>2, <4>3 DEF ClaimInv, OneFilePerHash
    <3> QED
      BY <3>2, <3>3, <3>4
  <2>8. CASE WriteLine(w)
    <3> DEFINE line == [object |-> Object(w), file |-> File(w)]
    <3>1. /\ lines' = lines \union {line} /\ Doing(w, "line") /\ Goto(w, "open")
          /\ carve_cache' = carve_cache
      BY <2>8 DEF WriteLine
    <3>2. Named' = Named \union {line}
      BY <3>1, NamedFile DEF Named, CACHED
    <3>3. /\ ~Claims(w)' /\ Claims(w)
          /\ \A v \in Workers : Claims(v)' => v # w /\ Claims(v) /\ Object(v)' = Object(v)
      BY <3>1, Goes DEF Doing, Claims, Steps
    <3>4. line.object = Object(w)
      OBVIOUS
    <3> HIDE DEF line
    <3> QED
      BY <2>0, <3>1, <3>2, <3>3, <3>4 DEF ClaimInv, OneFilePerHash
  <2> QED
    BY <1>1, <2>3, <2>4, <2>5, <2>6, <2>7, <2>8, WorkerStep
<1>2. CASE UNCHANGED vars
  BY <1>2 DEF vars, modes, ClaimInv, OneFilePerHash, Named, Claims, Object
<1> QED
  BY <1>1, <1>2 DEF Next, Ended

(* With the cache no two carved files have the same data, however many     *)
(* workers carve at the same time (check_for_presence_and_insert, carve).  *)
THEOREM OneFilePerHashHolds == Spec => []OneFilePerHash
<1>1. Init => TypeInv /\ ClaimInv
  <2> SUFFICES ASSUME Init PROVE ClaimInv
    BY TypeInvInit
  <2>1. \A w \in Workers : ~Claims(w)
    BY DEF Init, Claims, Idle
  <2>2. Named = {}
    BY DEF Init, Named
  <2> QED
    BY <2>1, <2>2 DEF ClaimInv, OneFilePerHash
<1>2. TypeInv /\ ClaimInv /\ [Next]_vars => (TypeInv /\ ClaimInv)'
  BY TypeInvStep, ClaimInvStep
<1>3. ClaimInv => OneFilePerHash
  BY DEF ClaimInv, OneFilePerHash
<1> QED
  BY <1>1, <1>2, <1>3, PTL DEF Spec

-----------------------------------------------------------------------------
(* An object is in one place: to be found, with one worker, written or     *)
(* lost.                                                                   *)
Before == {"cache", "cached", "number", "line"}
FreshInv ==
  /\ \A o \in found : /\ o \notin thrown
                      /\ \A w \in Workers : at[w] # Idle => Object(w) # o
                      /\ \A l \in lines : l.object # o
  /\ \A w, v \in Workers :
       w # v /\ at[w] # Idle /\ at[v] # Idle => Object(w) # Object(v)
  /\ \A w \in Workers : at[w].step \in Before =>
       Object(w) \notin thrown /\ (\A l \in lines : l.object # Object(w))

(* Every step of a worker, seen from an object in another place.           *)
LEMMA FreshEffect ==
  ASSUME TypeInv, NEW w \in Workers, Worker(w)
  PROVE  \/ Begins(w)
         \/ /\ at[w].step \in Steps /\ UNCHANGED found
            /\ \/ /\ at'[w] = Idle /\ at'[w].step = "idle"
               \/ /\ at'[w] # Idle /\ Object(w)' = Object(w)
                  /\ at'[w].step \in Before =>
                       at[w].step \in Before /\ UNCHANGED <<lines, thrown>>
            /\ \A v \in Workers \ {w} : at'[v] = at[v]
            /\ thrown' \subseteq thrown \union {Object(w)}
            /\ \A l \in lines' : l \in lines \/ l.object = Object(w)
<1>1. ASSUME NEW from \in Steps, NEW to \in Steps, Doing(w, from), Goto(w, to)
      PROVE  /\ at[w].step = from /\ at'[w].step = to /\ at'[w] # Idle
             /\ Object(w)' = Object(w)
             /\ \A v \in Workers \ {w} : at'[v] = at[v]
  BY <1>1, Goes DEF Doing
<1>2. CASE CheckCache(w)
  <2>1. /\ Doing(w, "cache")
        /\ Goto(w, "number") \/ Goto(w, "cached")
        /\ UNCHANGED <<found, lines, thrown>>
    BY <1>2 DEF CheckCache, history
  <2> QED
    BY <1>1, <2>1 DEF Steps, Before
<1>3. CASE GoesOn(w, "number", "line") \/ GoesOn(w, "open", "write") \/ GoesOn(w, "write", "close")
  BY <1>1, <1>3 DEF GoesOn, Steps, Before
<1>4. CASE WriteLine(w)
  <2>1. /\ lines' = lines \union {[object |-> Object(w), file |-> File(w)]}
        /\ Doing(w, "line") /\ Goto(w, "open") /\ UNCHANGED <<found, thrown>>
    BY <1>4 DEF WriteLine, history
  <2>2. \A l \in lines' : l \in lines \/ l.object = Object(w)
    BY <2>1
  <2>3. at'[w].step = "open"
    BY <1>1, <2>1 DEF Steps
  <2> QED
    BY <1>1, <2>1, <2>2, <2>3 DEF Steps, Before
<1>5. CASE WriteCached(w)
  <2>1. /\ lines' = lines \union {[object |-> Object(w), file |-> CACHED]}
        /\ Doing(w, "cached") /\ Return(w) /\ UNCHANGED <<found, thrown>>
    BY <1>5 DEF WriteCached, history
  <2>2. \A l \in lines' : l \in lines \/ l.object = Object(w)
    BY <2>1
  <2> QED
    BY <2>1, <2>2, Returns DEF Doing, Steps
<1>6. CASE Ends(w) \/ Fails(w)
  BY <1>6, Returns DEF Ends, Fails, Doing, Steps
<1> QED
  BY <1>2, <1>3, <1>4, <1>5, <1>6, WorkerStep

LEMMA FreshInvStep == TypeInv /\ FreshInv /\ [Next]_vars => FreshInv'
<1> SUFFICES ASSUME TypeInv, FreshInv, [Next]_vars PROVE FreshInv'
  OBVIOUS
<1>1. ASSUME NEW w \in Workers, Worker(w) PROVE FreshInv'
  <2>1. CASE Begins(w)
    <3>1. PICK o \in found : /\ Doing(w, "idle") /\ found' = found \ {o}
                             /\ at' = at \/ at' = [at EXCEPT ![w] = At("cache", o)]
                             /\ UNCHANGED <<lines, thrown>>
      BY <2>1 DEF Begins
    <3>2. CASE at' = at
      BY <3>1, <3>2 DEF FreshInv, Object
    <3>3. CASE at' = [at EXCEPT ![w] = At("cache", o)]
      <4>0. o \in Objects
        BY DEF TypeInv
      <4>1. /\ Object(w)' = o /\ at'[w].step = "cache" /\ at'[w] # Idle
            /\ \A v \in Workers \ {w} : at'[v] = at[v] /\ Object(v)' = Object(v)
        <5>1. at'[w] = At("cache", o) /\ \A v \in Workers \ {w} : at'[v] = at[v]
          BY <3>3 DEF TypeInv
        <5>2. /\ At("cache", o).step = "cache" /\ At("cache", o).object = o
              /\ At("cache", o).step # Idle.step
          BY DEF At, Idle
        <5> QED
          BY <5>1, <5>2 DEF Object
      <4> QED
        BY <3>1, <4>1 DEF FreshInv
    <3> QED
      BY <3>1, <3>2, <3>3
  <2>2. ASSUME at[w].step \in Steps, UNCHANGED found,
               \/ at'[w] = Idle /\ at'[w].step = "idle"
               \/ /\ at'[w] # Idle /\ Object(w)' = Object(w)
                  /\ at'[w].step \in Before =>
                       at[w].step \in Before /\ UNCHANGED <<lines, thrown>>,
               \A v \in Workers \ {w} : at'[v] = at[v],
               thrown' \subseteq thrown \union {Object(w)},
               \A l \in lines' : l \in lines \/ l.object = Object(w)
        PROVE  FreshInv'
    <3>1. at[w] # Idle
      BY <2>2 DEF Idle, Steps
    <3>2. \A v \in Workers \ {w} : Object(v)' = Object(v)
      BY <2>2 DEF Object
    <3>3. "idle" \notin Before /\ Before \subseteq Steps
      BY DEF Before, Steps
    <3>4. \A v \in Workers : at[v].step \in Before => at[v] # Idle
      BY <3>3 DEF Idle
    <3>5. \A o \in found : /\ o \notin thrown'
                           /\ \A v \in Workers : at'[v] # Idle => Object(v)' # o
                           /\ \A l \in lines' : l.object # o
      BY <2>2, <3>1, <3>2 DEF FreshInv
    <3>6. \A u, v \in Workers :
            u # v /\ at'[u] # Idle /\ at'[v] # Idle => Object(u)' # Object(v)'
      BY <2>2, <3>1, <3>2 DEF FreshInv
    <3>7. ASSUME NEW v \in Workers, at'[v].step \in Before
          PROVE  Object(v)' \notin thrown' /\ (\A l \in lines' : l.object # Object(v)')
      <4>1. CASE v = w
        BY <2>2, <3>3, <3>7, <4>1 DEF FreshInv
      <4>2. CASE v # w
        <5>1. at[v].step \in Before /\ at[v] # Idle /\ Object(v)' = Object(v)
          BY <2>2, <3>2, <3>4, <3>7, <4>2
        <5>2. Object(v) # Object(w)
          BY <3>1, <4>2, <5>1 DEF FreshInv
        <5> QED
          BY <2>2, <5>1, <5>2 DEF FreshInv
      <4> QED
        BY <4>1, <4>2
    <3> QED
      BY <2>2, <3>5, <3>6, <3>7 DEF FreshInv
  <2> QED
    BY <1>1, <2>1, <2>2, FreshEffect
<1>2. CASE UNCHANGED vars
  BY <1>2 DEF vars, history, FreshInv, Object
<1> QED
  BY <1>1, <1>2 DEF Next, Ended

LEMMA FreshInvInit == Init => FreshInv
  BY DEF Init, FreshInv, Idle, Before

-----------------------------------------------------------------------------
(* An object with its hash in the cache: lost, claimed by a worker, or     *)
(* named.                                                                  *)
Original(o) ==
  \/ o \in thrown
  \/ \E w \in Workers : Claims(w) /\ Object(w) = o
  \/ \E l \in Named : l.object = o
OriginalOf(o) == \E q \in Objects \ {o} : Hash[q] = Hash[o] /\ Original(q)

OriginInv ==
  /\ \A h \in carve_cache : \E o \in Objects : Hash[o] = h /\ Original(o)
  /\ \A w \in Workers : at[w].step = "cached" => OriginalOf(Object(w))
  /\ \A l \in lines \ Named : OriginalOf(l.object)

(* An original stays one.                                                  *)
LEMMA OriginalStays ==
  ASSUME TypeInv, NEW w \in Workers, Worker(w), NEW o \in Objects, Original(o)
  PROVE  Original(o)'
<1>1. ASSUME NEW from \in Steps, NEW to \in Steps, Doing(w, from), Goto(w, to),
             from \in {"number", "line"} => to \in {"number", "line"},
             thrown \subseteq thrown', lines' = lines
      PROVE  Original(o)'
  <2>1. /\ at[w].step = from /\ at'[w].step = to /\ Object(w)' = Object(w)
        /\ \A v \in Workers \ {w} : at'[v] = at[v] /\ Object(v)' = Object(v)
    BY <1>1, Goes DEF Doing
  <2>2. \A v \in Workers : Claims(v) => Claims(v)' /\ Object(v)' = Object(v)
    BY <1>1, <2>1 DEF Claims
  <2> QED
    BY <1>1, <2>2 DEF Original, Named
<1>2. ASSUME Return(w), ~Claims(w) \/ Object(w) \in thrown', thrown \subseteq thrown',
             Named' = Named
      PROVE  Original(o)'
  <2>1. \A v \in Workers \ {w} : Claims(v) => Claims(v)' /\ Object(v)' = Object(v)
    BY <1>2, Returns DEF Claims, Object
  <2> QED
    BY <1>2, <2>1 DEF Original
<1>3. CASE Begins(w)
  <2>1. Doing(w, "idle") /\ UNCHANGED <<lines, thrown>>
    BY <1>3 DEF Begins
  <2>2. \A v \in Workers : Claims(v) => Claims(v)' /\ Object(v)' = Object(v)
    BY <1>3, <2>1 DEF Begins, Claims, Doing, TypeInv, Object
  <2> QED
    BY <2>1, <2>2 DEF Original, Named
<1>4. CASE CheckCache(w)
  <2>1. /\ Doing(w, "cache")
        /\ Goto(w, "number") \/ Goto(w, "cached")
        /\ UNCHANGED <<lines, thrown>>
    BY <1>4 DEF CheckCache, history
  <2> QED
    BY <1>1, <2>1 DEF Steps
<1>5. CASE GoesOn(w, "number", "line") \/ GoesOn(w, "open", "write") \/ GoesOn(w, "write", "close")
  BY <1>1, <1>5 DEF GoesOn, Steps
<1>6. CASE WriteLine(w)
  <2> DEFINE line == [object |-> Object(w), file |-> File(w)]
  <2>1. /\ lines' = lines \union {line} /\ Doing(w, "line") /\ Goto(w, "open")
        /\ thrown' = thrown
    BY <1>6 DEF WriteLine, history
  <2>2. Named' = Named \union {line} /\ line.object = Object(w)
    BY <2>1, NamedFile DEF Named, CACHED
  <2>3. \A v \in Workers \ {w} : Claims(v) => Claims(v)' /\ Object(v)' = Object(v)
    BY <2>1, Goes DEF Doing, Claims, Steps, Object
  <2> HIDE DEF line
  <2> QED
    BY <2>1, <2>2, <2>3 DEF Original
<1>7. CASE WriteCached(w)
  <2>1. /\ lines' = lines \union {[object |-> Object(w), file |-> CACHED]}
        /\ Return(w) /\ Doing(w, "cached") /\ thrown' = thrown
    BY <1>7 DEF WriteCached, history
  <2>2. Named' = Named /\ ~Claims(w)
    BY <2>1 DEF Named, CACHED, Doing, Claims
  <2> QED
    BY <1>2, <2>1, <2>2
<1>8. CASE Fails(w)
  BY <1>2, <1>8 DEF Fails, Named
<1>9. CASE Ends(w)
  <2>1. Return(w) /\ ~Claims(w) /\ thrown \subseteq thrown' /\ Named' = Named
    BY <1>9 DEF Ends, Doing, Claims, Named
  <2> QED
    BY <1>2, <2>1
<1> QED
  BY <1>3, <1>4, <1>5, <1>6, <1>7, <1>8, <1>9, WorkerStep

LEMMA OriginInvStep ==
  TypeInv /\ FreshInv /\ OriginInv /\ [Next]_vars => OriginInv'
<1> SUFFICES ASSUME TypeInv, FreshInv, OriginInv, [Next]_vars PROVE OriginInv'
  OBVIOUS
<1>1. ASSUME NEW w \in Workers, Worker(w) PROVE OriginInv'
  <2>0. \A o \in Objects : Original(o) => Original(o)'
    BY <1>1, OriginalStays
  <2>1. \A o \in Objects : OriginalOf(o) => OriginalOf(o)'
    BY <2>0 DEF OriginalOf
  <2>2. \A v \in Workers : at[v].step = "cached" => Object(v) \in Objects
    BY Shape DEF Object, Steps
  (* A step that leaves the cache and the cached lines alone.              *)
  <2>3. ASSUME carve_cache' = carve_cache, lines' \ Named' = lines \ Named,
               \A v \in Workers : at'[v].step = "cached" =>
                                    at[v].step = "cached" /\ Object(v)' = Object(v)
        PROVE  OriginInv'
    <3>1. \A v \in Workers : at'[v].step = "cached" => OriginalOf(Object(v))'
      BY <2>1, <2>2, <2>3 DEF OriginInv, OriginalOf
    <3>2. \A l \in lines' \ Named' : OriginalOf(l.object)'
      BY <2>1, <2>3 DEF OriginInv, TypeInv
    <3> QED
      BY <2>0, <2>3, <3>1, <3>2 DEF OriginInv
  <2>4. CASE Begins(w)
    <3>1. PICK o \in found : /\ Doing(w, "idle")
                             /\ at' = at \/ at' = [at EXCEPT ![w] = At("cache", o)]
                             /\ UNCHANGED <<lines, carve_cache>>
      BY <2>4 DEF Begins
    <3>2. At("cache", o).step # "cached"
      BY DEF At
    <3>3. \A v \in Workers : at'[v].step = "cached" =>
                               at[v].step = "cached" /\ Object(v)' = Object(v)
      BY <3>1, <3>2 DEF TypeInv, Object
    <3> QED
      BY <2>3, <3>1, <3>3 DEF Named
  <2>5. CASE GoesOn(w, "number", "line") \/ GoesOn(w, "open", "write") \/ GoesOn(w, "write", "close")
    <3>1. /\ at'[w].step # "cached" /\ UNCHANGED <<lines, carve_cache>>
          /\ \A v \in Workers \ {w} : at'[v] = at[v] /\ Object(v)' = Object(v)
      BY <2>5, Goes DEF GoesOn, Doing, Steps, Object
    <3>2. \A v \in Workers : at'[v].step = "cached" =>
                               at[v].step = "cached" /\ Object(v)' = Object(v)
      BY <3>1
    <3> QED
      BY <2>3, <3>1, <3>2 DEF Named
  <2>6. ASSUME Return(w), carve_cache' = carve_cache PROVE
               \A v \in Workers : at'[v].step = "cached" =>
                                    at[v].step = "cached" /\ Object(v)' = Object(v)
    BY <2>6, Returns DEF Object
  <2>7. CASE Ends(w) \/ Fails(w)
    BY <2>3, <2>6, <2>7 DEF Ends, Fails, Named
  <2>8. CASE WriteLine(w)
    <3> DEFINE line == [object |-> Object(w), file |-> File(w)]
    <3>1. /\ lines' = lines \union {line} /\ Doing(w, "line") /\ Goto(w, "open")
          /\ carve_cache' = carve_cache
      BY <2>8 DEF WriteLine
    <3>2. lines' \ Named' = lines \ Named
      BY <3>1, NamedFile DEF Named, CACHED
    <3>3. \A v \in Workers : at'[v].step = "cached" =>
                               at[v].step = "cached" /\ Object(v)' = Object(v)
      BY <3>1, Goes DEF Doing, Steps, Object
    <3> QED
      BY <2>3, <3>1, <3>2, <3>3
  <2>9. CASE WriteCached(w)
    <3> DEFINE line == [object |-> Object(w), file |-> CACHED]
    <3>1. /\ lines' = lines \union {line} /\ Doing(w, "cached") /\ Return(w)
          /\ carve_cache' = carve_cache
      BY <2>9 DEF WriteCached
    <3>2. lines' \ Named' \subseteq (lines \ Named) \union {line} /\ line.object = Object(w)
      BY <3>1 DEF Named, CACHED
    <3>3. PICK o \in Objects : o = Object(w) /\ OriginalOf(o)
      BY <2>2, <3>1 DEF Doing, OriginInv
    <3>4. OriginalOf(o)'
      BY <2>1, <3>3
    <3> HIDE DEF line
    <3>5. \A l \in lines' \ Named' : OriginalOf(l.object)'
      BY <2>1, <3>2, <3>3, <3>4 DEF OriginInv, TypeInv
    <3>6. \A v \in Workers : at'[v].step = "cached" => OriginalOf(Object(v))'
      <4> SUFFICES ASSUME NEW v \in Workers, at'[v].step = "cached"
                   PROVE  OriginalOf(Object(v))'
        OBVIOUS
      <4>1. PICK q \in Objects : q = Object(v) /\ q = Object(v)' /\ OriginalOf(q)
        BY <2>2, <2>6, <3>1 DEF OriginInv
      <4>2. OriginalOf(q)'
        BY <2>1, <4>1
      <4> QED
        BY <4>1, <4>2 DEF OriginalOf
    <3> QED
      BY <2>0, <3>1, <3>5, <3>6 DEF OriginInv
  <2>10. CASE CheckCache(w)
    <3>1. /\ Doing(w, "cache") /\ lines' = lines /\ Named' = Named /\ at[w].step = "cache"
      BY <2>10 DEF CheckCache, Named, Doing
    <3>2. PICK o \in Objects : o = Object(w)
      BY <3>1, Shape DEF Object, Steps
    <3>3. CASE Goto(w, "number")
      <4>1. at'[w].step = "number" /\ Object(w)' = o
            /\ \A v \in Workers \ {w} : at'[v] = at[v] /\ Object(v)' = Object(v)
        BY <3>1, <3>2, <3>3, Goes DEF Steps
      <4>2. Original(o)'
        BY <4>1 DEF Original, Claims
      <4>3. carve_cache' \subseteq carve_cache \union {Hash[o]}
        BY <2>10, <3>2 DEF CheckCache
      <4>4. \A h \in carve_cache' : \E q \in Objects : Hash[q] = h /\ Original(q)'
        BY <2>0, <4>2, <4>3 DEF OriginInv
      <4>5. ASSUME NEW v \in Workers, at'[v].step = "cached" PROVE OriginalOf(Object(v))'
        <5>1. PICK q \in Objects : q = Object(v) /\ q = Object(v)' /\ OriginalOf(q)
          BY <2>2, <4>1, <4>5 DEF OriginInv
        <5>2. OriginalOf(q)'
          BY <2>1, <5>1
        <5> QED
          BY <5>1, <5>2 DEF OriginalOf
      <4>6. \A l \in lines' \ Named' : OriginalOf(l.object)'
        BY <2>1, <3>1 DEF OriginInv, TypeInv
      <4> QED
        BY <4>4, <4>5, <4>6 DEF OriginInv
    <3>4. CASE Goto(w, "cached")
      <4>1. at'[w].step = "cached" /\ Object(w)' = o
            /\ \A v \in Workers \ {w} : at'[v] = at[v] /\ Object(v)' = Object(v)
        BY <3>1, <3>2, <3>4, Goes DEF Steps
      <4>3. carve_cache' = carve_cache /\ Hash[o] \in carve_cache
        <5>1. ~Goto(w, "number")
          BY <4>1, <3>1, Goes DEF Steps
        <5> QED
          BY <2>10, <3>2, <5>1 DEF CheckCache
      <4>4. ~Original(o)
        <5>1. /\ at[w] # Idle /\ ~Claims(w) /\ "cache" \in Before
              /\ \A v \in Workers : Claims(v) => at[v] # Idle
          BY <3>1 DEF Idle, Claims, Before
        <5> QED
          BY <3>1, <3>2, <5>1 DEF Original, FreshInv, Named
      <4>5. OriginalOf(o)
        BY <4>3, <4>4 DEF OriginInv, OriginalOf
      <4>6. OriginalOf(o)'
        BY <2>1, <4>5
      <4>7. ASSUME NEW v \in Workers, at'[v].step = "cached" PROVE OriginalOf(Object(v))'
        <5>1. CASE v = w
          BY <4>1, <4>6, <5>1 DEF OriginalOf
        <5>2. CASE v # w
          <6>1. PICK q \in Objects : q = Object(v) /\ q = Object(v)' /\ OriginalOf(q)
            BY <2>2, <4>1, <4>7, <5>2 DEF OriginInv
          <6>2. OriginalOf(q)'
            BY <2>1, <6>1
          <6> QED
            BY <6>1, <6>2 DEF OriginalOf
        <5> QED
          BY <5>1, <5>2
      <4>8. \A l \in lines' \ Named' : OriginalOf(l.object)'
        BY <2>1, <3>1 DEF OriginInv, TypeInv
      <4> QED
        BY <2>0, <4>3, <4>7, <4>8 DEF OriginInv
    <3> QED
      BY <2>10, <3>3, <3>4 DEF CheckCache
  <2> QED
    BY <1>1, <2>4, <2>5, <2>7, <2>8, <2>9, <2>10, WorkerStep
<1>2. CASE UNCHANGED vars
  BY <1>2 DEF vars, history, OriginInv, OriginalOf, Original, Object, Claims, Named
<1> QED
  BY <1>1, <1>2 DEF Next, Ended

(* What the feature file calls cached has an original: another object with *)
(* the same data that is named, still being carved, or was lost to an      *)
(* exception (carve).                                                      *)
THEOREM CachedHasOriginalHolds == Spec => []CachedHasOriginal
<1> DEFINE Inv == TypeInv /\ FreshInv /\ OriginInv
<1>1. Init => Inv
  <2> SUFFICES ASSUME Init PROVE OriginInv
    BY TypeInvInit, FreshInvInit
  <2> QED
    BY DEF Init, OriginInv, Named, Idle
<1>2. Inv /\ [Next]_vars => Inv'
  BY TypeInvStep, FreshInvStep, OriginInvStep
<1>3. Inv => CachedHasOriginal
  <2>1. \A w \in Workers : Claims(w) => at[w] # Idle
    BY DEF Claims, Idle
  <2>2. \A o : Original(o) => o \in thrown \union Busy \union {m.object : m \in Named}
    BY <2>1 DEF Original, Busy, Object
  <2> QED
    BY <2>2 DEF OriginInv, OriginalOf, CachedHasOriginal
<1> HIDE DEF Inv
<1> QED
  BY <1>1, <1>2, <1>3, PTL DEF Spec

-----------------------------------------------------------------------------
(* While a worker writes a file, the line names that file, and unless      *)
(* another object has its name nothing is in it.                           *)
Writing == {"open", "write", "close"}
WholeInv ==
  /\ DOMAIN seq = Workers
  /\ \A l \in Named : l.file[2] = Name[l.object]
  /\ \A l \in Named : \A w \in Workers :
       at[w] # Idle /\ Object(w) = l.object => l.file = File(w) /\ at[w].step \in Writing
  /\ \A w \in Workers :
       at[w].step \in {"write", "close"} /\ Alone(Object(w)) =>
         File(w) \in DOMAIN disk /\ disk[File(w)] = {}
  /\ NamedFilesWhole

LEMMA HoldsOne ==
  ASSUME NEW f, NEW data, disk' = Holds(f, data)
  PROVE  /\ f \in DOMAIN disk' /\ disk'[f] = data
         /\ \A g \in DOMAIN disk : g # f => g \in DOMAIN disk' /\ disk'[g] = disk[g]
  BY DEF Holds

(* The other workers keep their objects and files; the disk is touched at  *)
(* the worker's file only.                                                 *)
Apart(w) ==
  /\ \A v \in Workers \ {w} : at'[v] = at[v] /\ Object(v)' = Object(v) /\ File(v)' = File(v)
  /\ DOMAIN seq' = Workers
  /\ disk' = disk \/ \A g \in DOMAIN disk : g # File(w) => g \in DOMAIN disk' /\ disk'[g] = disk[g]
  /\ Failed \subseteq Failed'

(* A step after which the worker holds the same object.                    *)
LEMMA WholeStays ==
  ASSUME TypeInv, FreshInv, WholeInv, NEW w \in Workers, at[w].step \in Steps,
         NEW to \in Steps, Goto(w, to), Apart(w),
         Failed' = Failed,
         \/ /\ at[w].step \in Before /\ disk' = disk
            /\ \/ Named' = Named /\ to \in Before
               \/ Named' = Named \union {[object |-> Object(w), file |-> File(w)]} /\ to = "open"
                  /\ File(w)' = File(w)
         \/ /\ at[w].step \in Writing /\ to \in Writing \ {"open"}
            /\ Named' = Named /\ File(w)' = File(w),
         to \in {"write", "close"} /\ Alone(Object(w)) =>
           File(w) \in DOMAIN disk' /\ disk'[File(w)] = {}
  PROVE  WholeInv'
<1>1. PICK o \in Objects : o = Object(w) /\ at[w] # Idle
  BY Shape DEF Object, Steps
<1>2. /\ at'[w].step = to /\ at'[w] # Idle /\ Object(w)' = o
      /\ \A v \in Workers \ {w} : at'[v] = at[v] /\ Object(v)' = Object(v) /\ File(v)' = File(v)
  BY <1>1, Goes DEF Apart
<1>3. Before \intersect {"write", "close", "open"} = {} /\ {"write", "close"} \subseteq Writing
      /\ "open" \in Writing
  BY DEF Before, Writing
<1>4. \A v \in Workers : at[v] # Idle <=> at'[v] # Idle
  BY <1>1, <1>2
<1>5. Busy' = Busy
  BY <1>1, <1>2, <1>4 DEF Busy, Object
<1>6. File(w)[2] = Name[o]
  BY <1>1 DEF File
<1>7. \A l \in lines : l.object = o => at[w].step \notin Before
  BY <1>1 DEF FreshInv
<1>8. \A l \in Named' : l \in Named \/ (l.object = o /\ l.file = File(w) /\ File(w)' = File(w)
                                        /\ to = "open")
  BY <1>1, <1>3
<1>9. \A l \in Named' : l.file[2] = Name[l.object]
  BY <1>6, <1>8 DEF WholeInv
<1>10. ASSUME NEW l \in Named', NEW v \in Workers, at'[v] # Idle, Object(v)' = l.object
       PROVE  l.file = File(v)' /\ at'[v].step \in Writing
  <2>1. CASE v = w
    <3>1. l.object = o
      BY <1>2, <1>10, <2>1
    <3>2. CASE l \in Named
      BY <1>1, <1>2, <1>3, <1>7, <2>1, <3>1, <3>2 DEF WholeInv, Named
    <3>3. CASE l \notin Named
      BY <1>2, <1>3, <1>8, <2>1, <3>3
    <3> QED
      BY <3>2, <3>3
  <2>2. CASE v # w
    <3>1. at[v] # Idle /\ Object(v) = l.object /\ File(v)' = File(v) /\ at'[v] = at[v]
      BY <1>2, <1>10, <2>2
    <3>2. l.object # o
      BY <1>1, <2>2, <3>1 DEF FreshInv
    <3> QED
      BY <1>8, <3>1, <3>2 DEF WholeInv
  <2> QED
    BY <2>1, <2>2
<1>11. ASSUME NEW v \in Workers, at'[v].step \in {"write", "close"}, Alone(Object(v)')
       PROVE  File(v)' \in DOMAIN disk' /\ disk'[File(v)'] = {}
  <2>1. CASE v = w
    BY <1>1, <1>2, <1>3, <1>11, <2>1
  <2>2. CASE v # w
    <3>1. /\ at[v].step \in {"write", "close"} /\ at[v] # Idle /\ Object(v)' = Object(v)
          /\ File(v)' = File(v) /\ Object(v) # o
      BY <1>1, <1>2, <1>11, <2>2 DEF Idle, FreshInv
    <3>2. File(v)[2] = Name[Object(v)] /\ Name[o] # Name[Object(v)]
      BY <1>1, <1>11, <3>1 DEF File, Alone
    <3>3. File(v) # File(w)
      BY <1>6, <3>2
    <3> QED
      BY <1>11, <3>1, <3>3 DEF WholeInv, Apart
  <2> QED
    BY <2>1, <2>2
<1>12. ASSUME NEW l \in Named', l.object \notin Busy' \union Failed', Alone(l.object)
       PROVE  l.file \in DOMAIN disk' /\ disk'[l.file] = {Hash[l.object]}
  <2>1. o \in Busy
    BY <1>1 DEF Busy, Object
  <2>2. l.object # o /\ l \in Named
    BY <1>5, <1>8, <1>12, <2>1
  <2>3. l.file # File(w)
    BY <1>1, <1>6, <1>12, <2>2 DEF WholeInv, Alone
  <2>4. l.file \in DOMAIN disk /\ disk[l.file] = {Hash[l.object]}
    BY <1>5, <1>12, <2>2 DEF WholeInv, NamedFilesWhole
  <2> QED
    BY <2>3, <2>4 DEF Apart
<1> QED
  BY <1>9, <1>10, <1>11, <1>12 DEF WholeInv, NamedFilesWhole, Apart, Alone

(* A step after which it has none: the data is in the file, or it failed,  *)
(* or no file is named.                                                    *)
LEMMA WholeLeaves ==
  ASSUME TypeInv, FreshInv, WholeInv, NEW w \in Workers, at[w].step \in Steps,
         Return(w), Apart(w), Named' = Named,
         \/ Object(w) \in Failed'
         \/ at[w].step \in Before
         \/ Alone(Object(w)) =>
              File(w) \in DOMAIN disk' /\ disk'[File(w)] = {Hash[Object(w)]}
  PROVE  WholeInv'
<1>1. PICK o \in Objects : o = Object(w) /\ at[w] # Idle
  BY Shape DEF Object, Steps
<1>2. /\ at'[w].step = "idle" /\ at'[w] = Idle
      /\ \A v \in Workers \ {w} : at'[v] = at[v] /\ Object(v)' = Object(v) /\ File(v)' = File(v)
  BY Returns DEF Apart
<1>3. File(w)[2] = Name[o]
  BY <1>1 DEF File
<1>4. ASSUME NEW l \in Named', NEW v \in Workers, at'[v] # Idle, Object(v)' = l.object
      PROVE  l.file = File(v)' /\ at'[v].step \in Writing
  BY <1>2, <1>4 DEF WholeInv
<1>5. ASSUME NEW v \in Workers, at'[v].step \in {"write", "close"}, Alone(Object(v)')
      PROVE  File(v)' \in DOMAIN disk' /\ disk'[File(v)'] = {}
  <2>1. /\ at[v].step \in {"write", "close"} /\ at[v] # Idle /\ Object(v)' = Object(v)
        /\ File(v)' = File(v) /\ Object(v) # o
    BY <1>1, <1>2, <1>5 DEF Idle, FreshInv
  <2>2. File(v)[2] = Name[Object(v)] /\ Name[o] # Name[Object(v)]
    BY <1>1, <1>5, <2>1 DEF File, Alone
  <2>3. File(v) # File(w)
    BY <1>3, <2>2
  <2> QED
    BY <1>5, <2>1, <2>3 DEF WholeInv, Apart
<1>6. ASSUME NEW l \in Named', l.object \notin Busy' \union Failed', Alone(l.object)
      PROVE  l.file \in DOMAIN disk' /\ disk'[l.file] = {Hash[l.object]}
  <2>1. CASE l.object = o
    <3>1. at[w].step \notin Before /\ l.file = File(w)
      BY <1>1, <1>6, <2>1 DEF FreshInv, Named, WholeInv
    <3> QED
      BY <1>1, <1>6, <2>1, <3>1
  <2>2. CASE l.object # o
    <3>1. l.object \notin Busy
      BY <1>1, <1>2, <1>6, <2>2 DEF Busy, Object
    <3>2. l.file # File(w)
      BY <1>1, <1>3, <1>6, <2>2 DEF WholeInv, Alone
    <3>3. l.file \in DOMAIN disk /\ disk[l.file] = {Hash[l.object]}
      BY <1>6, <3>1 DEF WholeInv, NamedFilesWhole, Apart
    <3> QED
      BY <3>2, <3>3 DEF Apart
  <2> QED
    BY <2>1, <2>2
<1> QED
  BY <1>4, <1>5, <1>6 DEF WholeInv, NamedFilesWhole, Apart, Alone

LEMMA WholeInvStep == TypeInv /\ FreshInv /\ WholeInv /\ [Next]_vars => WholeInv'
<1> SUFFICES ASSUME TypeInv, FreshInv, WholeInv, [Next]_vars PROVE WholeInv'
  OBVIOUS
<1>1. ASSUME NEW w \in Workers, Worker(w) PROVE WholeInv'
  (* The other workers have other places.                                  *)
  <2>1. ASSUME \A v \in Workers \ {w} : at'[v] = at[v] /\ seq'[v] = seq[v],
               DOMAIN seq' = Workers, Failed \subseteq Failed',
               disk' = disk \/ \E data : disk' = Holds(File(w), data)
        PROVE  Apart(w)
    BY <2>1, HoldsOne DEF Apart, Object, File
  <2>2. ASSUME NEW to \in Steps, at[w].step \in Steps, Goto(w, to)
        PROVE  \A v \in Workers \ {w} : at'[v] = at[v]
    BY <2>2, Goes
  <2>3. ASSUME Return(w) PROVE \A v \in Workers \ {w} : at'[v] = at[v]
    BY <2>3, Returns
  <2>4. DOMAIN seq = Workers
    BY DEF WholeInv
  <2>5. ASSUME NEW o \in Objects, Carve(w, o) PROVE WholeInv'
    <3>1. /\ o \in found /\ Named' = Named
          /\ UNCHANGED <<seq, disk, thrown, unnoticed>>
      BY <2>5 DEF Carve, Named, history
    <3>2. at' = at \/ at' = [at EXCEPT ![w] = At("cache", o)]
      BY <2>5 DEF Carve
    <3>3. CASE at' = at
      BY <3>1, <3>3 DEF WholeInv, NamedFilesWhole, Failed, Busy, Object, File, Alone
    <3>4. CASE at' = [at EXCEPT ![w] = At("cache", o)]
      <4>1. at'[w] = At("cache", o) /\ \A v \in Workers \ {w} : at'[v] = at[v]
        BY <3>4 DEF TypeInv
      <4>2. At("cache", o).step = "cache" /\ At("cache", o).object = o /\ At("cache", o) # Idle
        BY DEF At, Idle
      <4>3. \A l \in Named : l.object # o
        BY <3>1 DEF FreshInv, Named
      <4>4. at[w] = Idle
        BY <2>5, Shape DEF Carve, Doing, Steps
      <4>5. Busy \subseteq Busy'
        BY <4>1, <4>4 DEF Busy
      <4>6. NamedFilesWhole'
        BY <3>1, <4>5 DEF WholeInv, NamedFilesWhole, Failed, Alone
      <4>7. \A l \in Named' : \A v \in Workers :
              at'[v] # Idle /\ Object(v)' = l.object => l.file = File(v)' /\ at'[v].step \in Writing
        BY <3>1, <4>1, <4>2, <4>3 DEF WholeInv, Object, File
      <4>8. \A v \in Workers :
              at'[v].step \in {"write", "close"} /\ Alone(Object(v)') =>
                File(v)' \in DOMAIN disk' /\ disk'[File(v)'] = {}
        BY <3>1, <4>1, <4>2 DEF WholeInv, Object, File
      <4> QED
        BY <3>1, <4>6, <4>7, <4>8 DEF WholeInv, Alone
    <3> QED
      BY <3>2, <3>3, <3>4
  <2>6. CASE CheckCache(w)
    <3>1. /\ at[w].step = "cache" /\ UNCHANGED <<seq, disk, thrown, unnoticed>> /\ Named' = Named
      BY <2>6 DEF CheckCache, Doing, Named, history
    <3>2. PICK to \in {"number", "cached"} : Goto(w, to)
      BY <2>6 DEF CheckCache
    <3>3. Failed' = Failed
      BY <3>1 DEF Failed
    <3>4. to \in Steps /\ to \in Before /\ to \notin {"write", "close"}
          /\ "cache" \in Steps /\ "cache" \in Before
      BY DEF Steps, Before
    <3>5. Apart(w)
      BY <2>1, <2>2, <2>4, <3>1, <3>2, <3>3, <3>4
    <3> QED
      BY <3>1, <3>2, <3>3, <3>4, <3>5, WholeStays
  <2>7. CASE Number(w)
    <3>1. /\ at[w].step = "number" /\ UNCHANGED <<disk, thrown, unnoticed>> /\ Named' = Named
          /\ Goto(w, "line") /\ DOMAIN seq' = Workers
          /\ \A v \in Workers \ {w} : seq'[v] = seq[v]
      BY <2>4, <2>7 DEF Number, Doing, Named, history
    <3>2. Failed' = Failed
      BY <3>1 DEF Failed
    <3>3. "line" \in Steps /\ "line" \in Before /\ "number" \in Steps /\ "number" \in Before
      BY DEF Steps, Before
    <3>4. Apart(w)
      BY <2>1, <2>2, <3>1, <3>2, <3>3
    <3> QED
      BY <3>1, <3>2, <3>3, <3>4, WholeStays
  <2>8. CASE WriteLine(w)
    <3>1. /\ at[w].step = "line" /\ UNCHANGED <<seq, disk, thrown, unnoticed>> /\ Goto(w, "open")
          /\ lines' = lines \union {[object |-> Object(w), file |-> File(w)]}
      BY <2>8 DEF WriteLine, Doing, history
    <3>2. Failed' = Failed
      BY <3>1 DEF Failed
    <3>3. Named' = Named \union {[object |-> Object(w), file |-> File(w)]}
      BY <3>1, NamedFile DEF Named, CACHED
    <3>4. "line" \in Steps /\ "line" \in Before /\ "open" \in Steps
      BY DEF Steps, Before
    <3>5. Apart(w)
      BY <2>1, <2>2, <2>4, <3>1, <3>2, <3>4
    <3>6. File(w)' = File(w)
      BY <3>1, <3>4, Goes DEF File
    <3> QED
      BY <3>1, <3>2, <3>3, <3>4, <3>5, <3>6, WholeStays
  <2>9. CASE Open(w)
    <3>1. /\ at[w].step = "open" /\ UNCHANGED <<seq, thrown, unnoticed>> /\ Goto(w, "write")
          /\ disk' = Holds(File(w), {}) /\ Named' = Named
      BY <2>9 DEF Open, Doing, Named, history
    <3>2. Failed' = Failed
      BY <3>1 DEF Failed
    <3>3. "open" \in Steps /\ "open" \in Writing /\ "write" \in Steps /\ "write" \in Writing \ {"open"}
      BY DEF Steps, Writing
    <3>4. Apart(w)
      BY <2>1, <2>2, <2>4, <3>1, <3>2, <3>3
    <3>5. File(w)' = File(w)
      BY <3>1, <3>3, Goes DEF File
    <3>6. File(w) \in DOMAIN disk' /\ disk'[File(w)] = {}
      BY <3>1, HoldsOne
    <3> QED
      BY <3>1, <3>2, <3>3, <3>4, <3>5, <3>6, WholeStays
  <2>10. CASE Write(w) /\ Object(w) \notin Large
    <3>1. /\ at[w].step = "write" /\ UNCHANGED <<seq, disk, thrown, unnoticed>> /\ Goto(w, "close")
          /\ Named' = Named
      BY <2>10 DEF Write, Doing, Named, history
    <3>2. Failed' = Failed
      BY <3>1 DEF Failed
    <3>3. "write" \in Steps /\ "write" \in Writing /\ "close" \in Steps /\ "close" \in Writing \ {"open"}
      BY DEF Steps, Writing
    <3>4. Apart(w)
      BY <2>1, <2>2, <2>4, <3>1, <3>2, <3>3
    <3>5. File(w)' = File(w)
      BY <3>1, <3>3, Goes DEF File
    <3>6. Alone(Object(w)) => File(w) \in DOMAIN disk' /\ disk'[File(w)] = {}
      BY <3>1 DEF WholeInv
    <3> QED
      BY <3>1, <3>2, <3>3, <3>4, <3>5, <3>6, WholeStays
  <2>11. CASE (Write(w) /\ Object(w) \in Large) \/ Close(w)
    <3>1. /\ at[w].step \in {"write", "close"} /\ UNCHANGED <<seq, thrown, unnoticed>> /\ Return(w)
          /\ disk' = Holds(File(w), Data(File(w)) \union {Hash[Object(w)]}) /\ Named' = Named
      BY <2>11 DEF Write, Close, Doing, Named, history
    <3>2. Failed' = Failed /\ at[w].step \in Steps
      BY <3>1 DEF Failed, Steps
    <3>3. Apart(w)
      BY <2>1, <2>3, <2>4, <3>1, <3>2
    <3>4. Alone(Object(w)) => Data(File(w)) = {}
      BY <3>1 DEF WholeInv, Data
    <3>5. File(w) \in DOMAIN disk' /\ disk'[File(w)] = Data(File(w)) \union {Hash[Object(w)]}
      BY <3>1, HoldsOne
    <3> QED
      BY <3>1, <3>2, <3>3, <3>4, <3>5, WholeLeaves
  <2>12. CASE WriteCached(w) \/ LineFails(w)
    <3>1. /\ at[w].step \in {"cached", "line"} /\ UNCHANGED <<seq, disk, unnoticed>> /\ Return(w)
          /\ thrown \subseteq thrown'
          /\ lines' \in {lines, lines \union {[object |-> Object(w), file |-> CACHED]}}
      BY <2>12 DEF WriteCached, LineFails, Throw, Doing, history
    <3>2. Failed \subseteq Failed' /\ at[w].step \in Steps /\ at[w].step \in Before
      BY <3>1 DEF Failed, Steps, Before
    <3>3. Named' = Named
      BY <3>1 DEF Named, CACHED
    <3>4. Apart(w)
      BY <2>1, <2>3, <2>4, <3>1, <3>2
    <3> QED
      BY <3>1, <3>2, <3>3, <3>4, WholeLeaves
  <2>13. CASE OpenFails(w) \/ WriteFails(w) \/ CloseFails(w)
    <3>1. /\ at[w].step \in Writing /\ seq' = seq /\ Return(w) /\ Named' = Named
          /\ thrown \subseteq thrown' /\ unnoticed \subseteq unnoticed'
          /\ Object(w) \in thrown' \union unnoticed'
          /\ disk' = disk \/ disk' = Holds(File(w), Data(File(w)) \union {"part"})
      BY <2>13 DEF OpenFails, WriteFails, CloseFails, Throw, Doing, Named, Writing
    <3>2. Failed \subseteq Failed' /\ at[w].step \in Steps /\ Object(w) \in Failed'
      BY <3>1 DEF Failed, Steps, Writing
    <3>3. Apart(w)
      BY <2>1, <2>3, <2>4, <3>1, <3>2
    <3> QED
      BY <3>1, <3>2, <3>3, WholeLeaves
  <2> QED
    BY <1>1, <2>5, <2>6, <2>7, <2>8, <2>9, <2>10, <2>11, <2>12, <2>13 DEF Worker
<1>2. CASE UNCHANGED vars
  BY <1>2 DEF vars, history, WholeInv, NamedFilesWhole, Named, Failed, Busy, Object, File, Alone
<1> QED
  BY <1>1, <1>2 DEF Next, Ended

(* A file that the feature file names holds the whole object, whatever     *)
(* fails for others and in whatever order they are carved, if no other     *)
(* object has its name (carve).                                            *)
THEOREM NamedFilesWholeHolds == Spec => []NamedFilesWhole
<1> DEFINE Inv == TypeInv /\ FreshInv /\ WholeInv
<1>1. Init => Inv
  <2> SUFFICES ASSUME Init PROVE WholeInv
    BY TypeInvInit, FreshInvInit
  <2>1. Named = {} /\ DOMAIN seq = Workers
    BY DEF Init, Named
  <2>2. \A w \in Workers : at[w].step \notin {"write", "close"}
    BY DEF Init, Idle
  <2> QED
    BY <2>1, <2>2 DEF WholeInv, NamedFilesWhole
<1>2. Inv /\ [Next]_vars => Inv'
  BY TypeInvStep, FreshInvStep, WholeInvStep
<1>3. Inv => NamedFilesWhole
  BY DEF WholeInv, NamedFilesWhole
<1> HIDE DEF Inv
<1> QED
  BY <1>1, <1>2, <1>3, PTL DEF Spec

(* The cache tells the truth, for any number of workers and objects.       *)
THEOREM CacheRightHolds == Spec => []CacheRight
<1>1. OneFilePerHash /\ CachedHasOriginal => CacheRight
  BY DEF CacheRight
<1> QED
  BY <1>1, OneFilePerHashHolds, CachedHasOriginalHolds, PTL

-----------------------------------------------------------------------------
(* Every accepted object that has been found is at work, lost, or in the   *)
(* feature file; without the cache its line says what its hash and path    *)
(* say.                                                                    *)
Lined(o) == \E l \in lines : l.object = o
TheLine(o) == [object |-> o, file |-> <<Bucket[Hash[o]], Name[o]>>]
LineInv ==
  /\ \A w \in Workers : at[w] # Idle => Accepts(Object(w))
  /\ \A w \in Workers : at[w].step \in Writing => Lined(Object(w))
  /\ \A l \in lines : Accepts(l.object)
  /\ \A o \in Objects : Accepts(o) => o \in found \union thrown \union Busy \/ Lined(o)
  /\ dedupe_mode # "legacy" =>
       /\ \A w \in Workers : at[w].step # "cached"
       /\ \A w \in Workers : at[w].step = "line" => seq[w] = Bucket[Hash[Object(w)]]
       /\ \A l \in lines : l = TheLine(l.object)

(* A step after which the worker holds the same object.                    *)
LEMMA LineGoes ==
  ASSUME TypeInv, LineInv, NEW w \in Workers, at[w].step \in Steps,
         NEW to \in Steps, Goto(w, to),
         UNCHANGED <<modes, found, thrown>>, \A v \in Workers \ {w} : seq'[v] = seq[v],
         \/ lines' = lines /\ (to \in Writing => at[w].step \in Writing)
         \/ /\ at[w].step = "line" /\ to = "open"
            /\ lines' = lines \union {[object |-> Object(w), file |-> File(w)]},
         dedupe_mode # "legacy" =>
           to # "cached" /\ (to = "line" => seq'[w] = Bucket[Hash[Object(w)]])
  PROVE  LineInv'
<1>1. /\ at'[w].step = to /\ at'[w] # Idle /\ at[w] # Idle
      /\ \A v \in Workers : Object(v)' = Object(v) /\ (v # w => at'[v] = at[v])
  BY Goes, Shape DEF Steps
<1>2. Busy' = Busy
  BY <1>1 DEF Busy, Object
<1>3. \A o : (Accepts(o)' <=> Accepts(o)) /\ (Lined(o) => Lined(o)')
  BY DEF Accepts, modes, Lined
<1>4. \A l \in lines' : l \in lines \/
        (l = [object |-> Object(w), file |-> File(w)] /\ at[w].step = "line")
  OBVIOUS
<1>5. \A l \in lines' : l \in lines \/ l.object = Object(w)
  BY <1>4
<1>6. \A v \in Workers : at'[v] # Idle => Accepts(Object(v))'
  BY <1>1, <1>3 DEF LineInv
<1>7. to \in Writing /\ at[w].step \notin Writing => Lined(Object(w))'
  <2>1. [object |-> Object(w), file |-> File(w)].object = Object(w)
    OBVIOUS
  <2> QED
    BY <1>1, <2>1 DEF Lined
<1>8. \A v \in Workers : at'[v].step \in Writing => Lined(Object(v))'
  BY <1>1, <1>3, <1>7 DEF LineInv
<1>9. \A l \in lines' : Accepts(l.object)'
  BY <1>1, <1>3, <1>5 DEF LineInv
<1>10. \A o \in Objects : Accepts(o)' => o \in found' \union thrown' \union Busy' \/ Lined(o)'
  BY <1>2, <1>3 DEF LineInv
<1>11. ASSUME dedupe_mode # "legacy"
       PROVE  /\ \A v \in Workers : at'[v].step # "cached"
              /\ \A v \in Workers : at'[v].step = "line" => seq'[v] = Bucket[Hash[Object(v)']]
              /\ \A l \in lines' : l = TheLine(l.object)
  <2>1. /\ \A v \in Workers : at'[v].step # "cached"
        /\ \A v \in Workers : at'[v].step = "line" => seq'[v] = Bucket[Hash[Object(v)']]
    BY <1>1, <1>11 DEF LineInv
  <2>2. at[w].step = "line" =>
          [object |-> Object(w), file |-> File(w)] = TheLine(Object(w))
    BY <1>11 DEF LineInv, TheLine, File
  <2>3. TheLine(Object(w)).object = Object(w)
    BY DEF TheLine
  <2> QED
    BY <1>4, <1>11, <2>1, <2>2, <2>3 DEF LineInv
<1>12. dedupe_mode' = dedupe_mode
  BY DEF modes
<1> QED
  BY <1>6, <1>8, <1>9, <1>10, <1>11, <1>12 DEF LineInv, TheLine

(* A step after which it has none.                                         *)
LEMMA LineLeaves ==
  ASSUME TypeInv, LineInv, NEW w \in Workers, at[w].step \in Steps, Return(w),
         UNCHANGED <<modes, found, seq>>, thrown \subseteq thrown',
         \/ lines' = lines /\ (at[w].step \in Writing \/ Object(w) \in thrown')
         \/ /\ at[w].step = "cached"
            /\ lines' = lines \union {[object |-> Object(w), file |-> CACHED]}
  PROVE  LineInv'
<1>1. /\ at'[w] = Idle /\ at'[w].step = "idle" /\ at[w] # Idle
      /\ \A v \in Workers \ {w} : at'[v] = at[v] /\ Object(v)' = Object(v)
  BY Returns, Shape DEF Steps, Object
<1>2. "idle" \notin Writing /\ "idle" \notin {"cached", "line"}
  BY DEF Writing
<1>3. \A o : (Accepts(o)' <=> Accepts(o)) /\ (Lined(o) => Lined(o)')
  BY DEF Accepts, modes, Lined
<1>4. \A l \in lines' : l \in lines \/ (l.object = Object(w) /\ at[w].step = "cached")
  OBVIOUS
<1>5. Object(w) \in thrown' \/ \E l \in lines' : l.object = Object(w)
  <2>1. [object |-> Object(w), file |-> CACHED].object = Object(w)
    OBVIOUS
  <2> QED
    BY <2>1 DEF LineInv, Lined
<1>6. \A o \in Busy : o \in Busy' \/ o = Object(w)
  BY <1>1 DEF Busy, Object
<1>7. \A o \in Objects : Accepts(o)' => o \in found' \union thrown' \union Busy' \/ Lined(o)'
  BY <1>3, <1>5, <1>6 DEF LineInv, Lined
<1>8. \A v \in Workers : at'[v] # Idle => Accepts(Object(v))'
  BY <1>1, <1>3 DEF LineInv
<1>9. \A v \in Workers : at'[v].step \in Writing => Lined(Object(v))'
  BY <1>1, <1>2, <1>3 DEF LineInv
<1>10. \A l \in lines' : Accepts(l.object)'
  BY <1>1, <1>3, <1>4 DEF LineInv
<1>11. dedupe_mode # "legacy" =>
         /\ \A v \in Workers : at'[v].step # "cached"
         /\ \A v \in Workers : at'[v].step = "line" => seq'[v] = Bucket[Hash[Object(v)']]
         /\ \A l \in lines' : l = TheLine(l.object)
  BY <1>1, <1>2, <1>4 DEF LineInv
<1>12. dedupe_mode' = dedupe_mode
  BY DEF modes
<1> QED
  BY <1>7, <1>8, <1>9, <1>10, <1>11, <1>12 DEF LineInv, TheLine

LEMMA LineInvStep == TypeInv /\ WholeInv /\ LineInv /\ [Next]_vars => LineInv'
<1> SUFFICES ASSUME TypeInv, WholeInv, LineInv, [Next]_vars PROVE LineInv'
  OBVIOUS
<1>0. DOMAIN seq = Workers
  BY DEF WholeInv
<1>1. ASSUME NEW w \in Workers, Worker(w) PROVE LineInv'
  <2>1. ASSUME NEW o \in Objects, Carve(w, o) PROVE LineInv'
    <3>1. /\ o \in found /\ found' = found \ {o} /\ at[w].step = "idle"
          /\ UNCHANGED <<modes, seq, lines, thrown>>
          /\ at' = IF Accepts(o) THEN [at EXCEPT ![w] = At("cache", o)] ELSE at
      BY <2>1 DEF Carve, Doing, history
    <3>2. \A q : (Accepts(q)' <=> Accepts(q)) /\ (Lined(q)' <=> Lined(q))
      BY <3>1 DEF Accepts, modes, Lined
    <3>3. /\ \A v \in Workers : \/ at'[v] = at[v] /\ Object(v)' = Object(v)
                                \/ at'[v].step = "cache" /\ Object(v)' = o /\ Accepts(o)
          /\ Busy \subseteq Busy'
          /\ Accepts(o) => o \in Busy'
      <4>1. CASE ~Accepts(o)
        BY <3>1, <4>1 DEF Object, Busy
      <4>2. CASE Accepts(o)
        <5>1. at'[w] = At("cache", o) /\ \A v \in Workers \ {w} : at'[v] = at[v]
          BY <3>1, <4>2 DEF TypeInv
        <5>2. At("cache", o).step = "cache" /\ At("cache", o).object = o /\ At("cache", o) # Idle
          BY DEF At, Idle
        <5>3. at[w] = Idle
          BY <3>1, Shape DEF Steps
        <5> QED
          BY <4>2, <5>1, <5>2, <5>3 DEF Object, Busy
      <4> QED
        BY <4>1, <4>2
    <3>4. "cache" \notin Writing
      BY DEF Writing
    <3>5. \A v \in Workers : at'[v] # Idle => Accepts(Object(v))'
      BY <3>2, <3>3 DEF LineInv
    <3>6. \A v \in Workers : at'[v].step \in Writing => Lined(Object(v))'
      BY <3>2, <3>3, <3>4 DEF LineInv
    <3>7. \A q \in Objects : Accepts(q)' => q \in found' \union thrown' \union Busy' \/ Lined(q)'
      BY <3>1, <3>2, <3>3 DEF LineInv
    <3>8. dedupe_mode' # "legacy" =>
            /\ \A v \in Workers : at'[v].step # "cached"
            /\ \A v \in Workers : at'[v].step = "line" => seq'[v] = Bucket[Hash[Object(v)']]
      BY <3>1, <3>3 DEF LineInv, modes
    <3>9. /\ \A l \in lines' : Accepts(l.object)'
          /\ dedupe_mode' # "legacy" => \A l \in lines' : l = TheLine(l.object)
      BY <3>1, <3>2 DEF LineInv, modes
    <3> QED
      BY <3>5, <3>6, <3>7, <3>8, <3>9 DEF LineInv, TheLine
  <2>2. CASE CheckCache(w)
    <3>1. /\ at[w].step = "cache" /\ UNCHANGED <<modes, found, seq, lines, thrown>>
          /\ Goto(w, "number") \/ (dedupe_mode = "legacy" /\ Goto(w, "cached"))
      BY <2>2 DEF CheckCache, Doing, history
    <3>2. {"cache", "number", "cached"} \subseteq Steps \ Writing
      BY DEF Steps, Writing
    <3> QED
      BY <3>1, <3>2, LineGoes
  <2>3. CASE Number(w)
    <3>1. /\ at[w].step = "number" /\ Goto(w, "line") /\ UNCHANGED <<modes, found, lines, thrown>>
      BY <2>3 DEF Number, Doing, history
    <3>2. /\ \A v \in Workers \ {w} : seq'[v] = seq[v]
          /\ dedupe_mode # "legacy" => seq'[w] = Bucket[Hash[Object(w)]]
      BY <1>0, <2>3 DEF Number
    <3>3. {"number", "line"} \subseteq Steps \ Writing
      BY DEF Steps, Writing
    <3> QED
      BY <3>1, <3>2, <3>3, LineGoes
  <2>4. CASE WriteLine(w) \/ Open(w) \/ (Write(w) /\ Object(w) \notin Large)
    <3>1. PICK to \in {"open", "write", "close"} :
            /\ at[w].step \in {"line", "open", "write"} /\ Goto(w, to)
            /\ UNCHANGED <<modes, found, seq, thrown>>
            /\ \/ lines' = lines /\ at[w].step # "line"
               \/ /\ lines' = lines \union {[object |-> Object(w), file |-> File(w)]}
                  /\ at[w].step = "line" /\ to = "open"
      BY <2>4 DEF WriteLine, Open, Write, Doing, history
    <3>2. to \in Steps /\ at[w].step \in Steps /\ (at[w].step # "line" => at[w].step \in Writing)
      BY <3>1 DEF Steps, Writing
    <3> QED
      BY <3>1, <3>2, LineGoes
  <2>5. CASE WriteCached(w) \/ LineFails(w)
    <3>1. /\ at[w].step \in {"cached", "line"} /\ Return(w) /\ UNCHANGED <<modes, found, seq>>
          /\ thrown \subseteq thrown'
          /\ \/ lines' = lines /\ Object(w) \in thrown'
             \/ /\ lines' = lines \union {[object |-> Object(w), file |-> CACHED]}
                /\ at[w].step = "cached"
      BY <2>5 DEF WriteCached, LineFails, Throw, Doing, history
    <3> QED
      BY <3>1, LineLeaves DEF Steps
  <2>6. CASE OpenFails(w) \/ (Write(w) /\ Object(w) \in Large) \/ WriteFails(w) \/ Close(w)
             \/ CloseFails(w)
    <3>1. /\ at[w].step \in Writing /\ Return(w) /\ UNCHANGED <<modes, found, seq, lines>>
          /\ thrown \subseteq thrown'
      BY <2>6 DEF OpenFails, Write, WriteFails, Close, CloseFails, Throw, Doing, Writing, history
    <3>2. Writing \subseteq Steps
      BY DEF Steps, Writing
    <3> QED
      BY <3>1, <3>2, LineLeaves
  <2> QED
    BY <1>1, <2>1, <2>2, <2>3, <2>4, <2>5, <2>6 DEF Worker
<1>2. CASE UNCHANGED vars
  BY <1>2 DEF vars, modes, history, LineInv, Lined, TheLine, Accepts, Busy, Object
<1> QED
  BY <1>1, <1>2 DEF Next, Ended

-----------------------------------------------------------------------------
(* The numbers given out are at most the objects that are past that step.  *)
Waiting == {"cache", "cached", "number"}
Numbered == {o \in Objects \ found :
               \A w \in Workers : at[w].step \in Waiting => Object(w) # o}
CountInv ==
  /\ carved_file_count \in Nat /\ carved_file_count <= Cardinality(Numbered)
  /\ unnoticed \subseteq Objects
  /\ dedupe_mode # "legacy" => carve_cache = {} /\ carved_file_count = 0

(* An object that is past it stays so.                                     *)
LEMMA NumberedStays ==
  ASSUME TypeInv, NEW w \in Workers, Worker(w)
  PROVE  Numbered \subseteq Numbered'
<1>1. ASSUME found' \subseteq found,
             \A v \in Workers : at'[v].step \in Waiting =>
               \/ at[v].step \in Waiting /\ Object(v)' = Object(v)
               \/ Object(v)' \in found
      PROVE  Numbered \subseteq Numbered'
  BY <1>1 DEF Numbered
<1>2. ASSUME NEW from \in Steps, NEW to \in Steps, Doing(w, from), Goto(w, to), found' = found,
             to \in Waiting => from \in Waiting
      PROVE  Numbered \subseteq Numbered'
  <2>1. \A v \in Workers : at'[v].step \in Waiting =>
          at[v].step \in Waiting /\ Object(v)' = Object(v)
    BY <1>2, Goes DEF Doing
  <2> QED
    BY <1>1, <1>2, <2>1
<1>3. ASSUME Return(w), found' = found PROVE Numbered \subseteq Numbered'
  <2>1. \A v \in Workers : at'[v].step \in Waiting =>
          at[v].step \in Waiting /\ Object(v)' = Object(v)
    BY <1>3, Returns DEF Waiting, Object
  <2> QED
    BY <1>1, <1>3, <2>1
<1>4. CASE Begins(w)
  <2>1. PICK o \in found : /\ found' = found \ {o}
                           /\ at' = at \/ at' = [at EXCEPT ![w] = At("cache", o)]
    BY <1>4 DEF Begins
  <2>2. At("cache", o).object = o
    BY DEF At
  <2>3. \A v \in Workers : \/ at'[v] = at[v]
                           \/ at'[v] = At("cache", o)
    BY <2>1 DEF TypeInv
  <2>4. \A v \in Workers : at'[v].step \in Waiting =>
          \/ at[v].step \in Waiting /\ Object(v)' = Object(v)
          \/ Object(v)' \in found
    BY <2>2, <2>3 DEF Object
  <2> QED
    BY <1>1, <2>1, <2>4
<1>5. CASE CheckCache(w)
  <2>1. Doing(w, "cache") /\ found' = found /\ (Goto(w, "number") \/ Goto(w, "cached"))
    BY <1>5 DEF CheckCache
  <2> QED
    BY <1>2, <2>1 DEF Steps, Waiting
<1>6. CASE GoesOn(w, "number", "line") \/ GoesOn(w, "open", "write") \/ GoesOn(w, "write", "close")
             \/ WriteLine(w)
  BY <1>2, <1>6 DEF GoesOn, WriteLine, Steps, Waiting
<1>7. CASE WriteCached(w) \/ Fails(w) \/ Ends(w)
  BY <1>3, <1>7 DEF WriteCached, Fails, Ends
<1> QED
  BY <1>4, <1>5, <1>6, <1>7, WorkerStep

LEMMA CountInvStep == TypeInv /\ FreshInv /\ CountInv /\ [Next]_vars => CountInv'
<1> SUFFICES ASSUME TypeInv, FreshInv, CountInv, [Next]_vars PROVE CountInv'
  OBVIOUS
<1>1. ASSUME NEW w \in Workers, Worker(w) PROVE CountInv'
  <2>1. Numbered \subseteq Numbered'
    BY <1>1, NumberedStays
  <2>2. IsFiniteSet(Objects) /\ Numbered \subseteq Objects /\ Numbered' \subseteq Objects
    BY CarverAssumption DEF Numbered
  <2>3. IsFiniteSet(Numbered) /\ IsFiniteSet(Numbered')
    BY <2>2, FS_Subset
  <2>4. /\ Cardinality(Numbered) \in Nat /\ Cardinality(Numbered') \in Nat
        /\ Cardinality(Numbered) <= Cardinality(Numbered')
    BY <2>1, <2>3, FS_CardinalityType, FS_Subset
  <2>5. Object(w) \in Objects \/ at[w].step \notin Steps
    BY Shape DEF Object, Steps
  <2>6. CASE Number(w)
    <3>1. /\ at[w].step = "number" /\ Goto(w, "line") /\ UNCHANGED <<modes, found, carve_cache, unnoticed>>
          /\ carved_file_count' = IF dedupe_mode = "legacy" THEN carved_file_count + 1
                                                            ELSE carved_file_count
      BY <2>6 DEF Number, Doing, history
    <3>2. PICK o \in Objects : o = Object(w) /\ o \notin Numbered
      BY <2>5, <3>1 DEF Numbered, Steps, Waiting
    <3>3. o \in Numbered'
      <4>1. o \notin found
        BY <3>1, <3>2 DEF FreshInv, Idle
      <4>2. ASSUME NEW v \in Workers, at'[v].step \in Waiting PROVE Object(v)' # o
        <5>1. at'[w].step = "line" /\ \A u \in Workers \ {w} : at'[u] = at[u]
          BY <3>1, Goes DEF Steps
        <5>2. v # w /\ at[v] # Idle /\ at[w] # Idle /\ Object(v)' = Object(v)
          BY <3>1, <4>2, <5>1 DEF Waiting, Idle, Object
        <5> QED
          BY <3>2, <5>2 DEF FreshInv
      <4> QED
        BY <3>1, <4>1, <4>2 DEF Numbered
    <3>4. Cardinality(Numbered) + 1 <= Cardinality(Numbered')
      <4>1. Numbered \union {o} \subseteq Numbered'
        BY <2>1, <3>3
      <4>2. Cardinality(Numbered \union {o}) = Cardinality(Numbered) + 1
        BY <2>3, <3>2, FS_AddElement
      <4>3. Cardinality(Numbered \union {o}) <= Cardinality(Numbered')
        BY <2>3, <4>1, FS_Subset
      <4> QED
        BY <4>2, <4>3
    <3> QED
      BY <2>4, <3>1, <3>4 DEF CountInv, modes
  <2>7. ASSUME carved_file_count' = carved_file_count, UNCHANGED modes, unnoticed' \subseteq Objects,
               dedupe_mode # "legacy" => carve_cache' = carve_cache
        PROVE  CountInv'
    BY <2>4, <2>7 DEF CountInv, modes
  <2>8. CASE CloseFails(w)
    <3>1. /\ at[w].step = "close" /\ UNCHANGED <<modes, carve_cache, carved_file_count>>
          /\ unnoticed' = unnoticed \union {Object(w)}
      BY <2>8 DEF CloseFails, Doing
    <3> QED
      BY <2>5, <2>7, <3>1 DEF CountInv, Steps
  <2>9. CASE \/ \E o \in Objects : Carve(w, o)
             \/ CheckCache(w) \/ WriteCached(w) \/ WriteLine(w) \/ LineFails(w)
             \/ Open(w) \/ OpenFails(w) \/ Write(w) \/ WriteFails(w) \/ Close(w)
    <3>1. /\ UNCHANGED <<modes, carved_file_count, unnoticed>>
          /\ dedupe_mode # "legacy" => carve_cache' = carve_cache
      BY <2>9 DEF Carve, CheckCache, WriteCached, WriteLine, LineFails, Open, OpenFails, Write,
         WriteFails, Close, Throw, history
    <3> QED
      BY <2>7, <3>1 DEF CountInv
  <2> QED
    BY <1>1, <2>6, <2>8, <2>9 DEF Worker
<1>2. CASE UNCHANGED vars
  BY <1>2 DEF vars, modes, history, CountInv, Numbered, Object
<1> QED
  BY <1>1, <1>2 DEF Next, Ended

-----------------------------------------------------------------------------
(* When all is carved and nothing failed, every line of an object whose    *)
(* data nobody else's name overwrites leads to that data.                  *)
LEMMA HashesKept == OriginInv /\ WholeInv /\ LineInv => ModesKeepHashes
<1> SUFFICES ASSUME OriginInv, WholeInv, LineInv, Done, Failed = {},
                    NEW o \in Objects, Accepts(o),
                    \A q \in Objects : Hash[q] = Hash[o] => Alone(q)
             PROVE  \E f \in DOMAIN disk : disk[f] = {Hash[o]}
  BY DEF ModesKeepHashes
<1>1. Busy = {} /\ \A w \in Workers : ~Claims(w)
  BY DEF Done, Busy, Claims, Idle
<1>2. thrown = {}
  BY DEF Failed
<1>3. ASSUME NEW q \in Objects, Hash[q] = Hash[o], NEW l \in Named, l.object = q
      PROVE  \E f \in DOMAIN disk : disk[f] = {Hash[o]}
  BY <1>1, <1>3 DEF WholeInv, NamedFilesWhole
<1>4. PICK l \in lines : l.object = o
  BY <1>1, <1>2 DEF LineInv, Lined, Done
<1>5. CASE l \in Named
  BY <1>3, <1>4, <1>5
<1>6. CASE l \notin Named
  <2>1. PICK q \in Objects : Hash[q] = Hash[o] /\ Original(q)
    BY <1>4, <1>6 DEF OriginInv, OriginalOf
  <2>2. \E m \in Named : m.object = q
    BY <1>1, <1>2, <2>1 DEF Original
  <2> QED
    BY <1>3, <2>1, <2>2
<1> QED
  BY <1>5, <1>6

LEMMA LinesReproducible == TypeInv /\ LineInv => Reproducible
<1> SUFFICES ASSUME TypeInv, LineInv, Done, Failed = {}, dedupe_mode # "legacy"
             PROVE  lines = {TheLine(o) : o \in {q \in Objects : Accepts(q)}}
  BY DEF Reproducible, TheLine, Accepts
<1>1. \A l \in lines : l = TheLine(l.object) /\ l.object \in Objects /\ Accepts(l.object)
  BY DEF TypeInv, LineInv
<1>2. ASSUME NEW o \in Objects, Accepts(o) PROVE TheLine(o) \in lines
  <2>1. Busy = {} /\ found = {} /\ thrown = {}
    BY DEF Done, Busy, Failed
  <2> QED
    BY <1>1, <1>2, <2>1 DEF LineInv, Lined
<1> QED
  BY <1>1, <1>2

(* The modes keep what the manual promises, for any number of workers,     *)
(* with any names and hashes: no mode loses data, and without the cache    *)
(* the feature file does not depend on the order of the workers (carve,    *)
(* carving.md).                                                            *)
THEOREM ModesKeepPromisesHold == Spec => []ModesKeepPromises
<1> DEFINE Inv == TypeInv /\ FreshInv /\ OriginInv /\ WholeInv /\ LineInv /\ CountInv
<1>1. Init => Inv
  <2> SUFFICES ASSUME Init PROVE Inv
    OBVIOUS
  <2>1. /\ \A w \in Workers : at[w] = Idle /\ at[w].step = "idle"
        /\ lines = {} /\ Named = {} /\ carve_cache = {} /\ DOMAIN seq = Workers
    BY DEF Init, Named, Idle
  <2>2. OriginInv /\ WholeInv
    BY <2>1 DEF OriginInv, WholeInv, NamedFilesWhole
  <2>3. LineInv
    BY <2>1 DEF LineInv, Init, Writing
  <2>4. CountInv
    BY CarverAssumption, FS_Subset, FS_CardinalityType DEF Init, CountInv, Numbered
  <2> QED
    BY TypeInvInit, FreshInvInit, <2>2, <2>3, <2>4
<1>2. Inv /\ [Next]_vars => Inv'
  BY TypeInvStep, FreshInvStep, OriginInvStep, WholeInvStep, LineInvStep, CountInvStep
<1>3. Inv => ModesKeepPromises
  <2> SUFFICES ASSUME Inv PROVE TypeOK
    BY HashesKept, LinesReproducible DEF ModesKeepPromises
  <2>1. IsFiniteSet(Objects) /\ Numbered \subseteq Objects
    BY CarverAssumption DEF Numbered
  <2>2. Cardinality(Numbered) <= Cardinality(Objects) /\ Cardinality(Objects) \in Nat
        /\ Cardinality(Numbered) \in Nat
    BY <2>1, FS_Subset, FS_CardinalityType
  <2> QED
    BY <2>2 DEF TypeInv, CountInv, TypeOK
<1> HIDE DEF Inv
<1> QED
  BY <1>1, <1>2, <1>3, PTL DEF Spec

-----------------------------------------------------------------------------
(* Strings and induction over their length.                                *)

Strings == Seq(Nat)

(* What holds at 0 and goes from n - 1 to n holds everywhere.              *)
LEMMA IntervalInduction ==
  ASSUME NEW n \in Nat, NEW T, 0 \in T, \A k \in 1..n : k - 1 \in T => k \in T
  PROVE  \A k \in 0..n : k \in T
<1> DEFINE less == OpToRel(<, Nat)
           U == {k \in 0..n : k \notin T}
<1>1. SUFFICES ASSUME U # {} PROVE FALSE
  BY <1>1
<1>2. IsWellFoundedOn(less, Nat)
  BY NatLessThanWellFounded
<1>3. U \subseteq Nat
  OBVIOUS
<1> HIDE DEF less
<1>4. PICK k \in U : \A j \in U : <<j, k>> \notin less
  <2> HIDE DEF U
  <2> QED
    BY <1>1, <1>2, <1>3, WFMin
<1>5. k \in 0..n /\ k \notin T
  BY <1>4
<1>6. k # 0
  BY <1>5
<1>7. k - 1 \in 0..n /\ k \in 1..n
  BY <1>5, <1>6
<1>8. k - 1 \notin U
  <2>1. <<k - 1, k>> \in less
    BY <1>7 DEF less, OpToRel
  <2> QED
    BY <1>4, <2>1
<1> QED
  BY <1>5, <1>7, <1>8

LEMMA Elements ==
  ASSUME NEW S, NEW s \in Seq(S)
  PROVE  Len(s) \in Nat /\ DOMAIN s = 1..Len(s) /\ \A k \in 1..Len(s) : s[k] \in S
OBVIOUS

LEMMA BytesAre ==
  ASSUME NEW s \in Seq(0..255)
  PROVE  Len(s) \in Nat /\ \A k \in 1..Len(s) : s[k] \in Nat
<1> DEFINE S == 0..255
<1>1. \A x \in S : x \in Nat
  OBVIOUS
<1>2. s \in Seq(S)
  OBVIOUS
<1> HIDE DEF S
<1> QED
  BY <1>1, <1>2, Elements

-----------------------------------------------------------------------------
(* Sequences of bytes.                                                     *)

LEMMA StrongInduction ==
  ASSUME NEW n \in Nat, NEW T, \A k \in 0..n : (\A j \in 0..(k - 1) : j \in T) => k \in T
  PROVE  \A k \in 0..n : k \in T
<1> DEFINE S == {k \in 0..n : \A j \in 0..k : j \in T}
<1>1. 0 \in S
  <2>1. \A j \in 0..(0 - 1) : j \in T
    OBVIOUS
  <2>2. 0 \in T
    BY <2>1
  <2> QED
    BY <2>2
<1>2. ASSUME NEW k \in 1..n, k - 1 \in S PROVE k \in S
  <2>1. \A j \in 0..(k - 1) : j \in T
    BY <1>2
  <2>2. k \in T
    BY <2>1
  <2>3. \A j \in 0..k : j \in 0..(k - 1) \/ j = k
    OBVIOUS
  <2> QED
    BY <2>1, <2>2, <2>3
<1> HIDE DEF S
<1>3. \A k \in 0..n : k \in S
  BY <1>1, <1>2, IntervalInduction
<1> QED
  BY <1>3 DEF S

(* Where two strings agree, so do their parts.                             *)
LEMMA PartsAgree ==
  ASSUME NEW s \in Strings, NEW t \in Strings, NEW m \in Nat, NEW k \in Nat, NEW d \in Nat,
         m >= 1, k >= 1, (m + k) - 1 <= Len(s), (d + m + k) - 1 <= Len(t),
         \A j \in m..((m + k) - 1) : s[j] = t[d + j]
  PROVE  SubSeq(s, m, (m + k) - 1) = SubSeq(t, d + m, (d + m + k) - 1)
<1> DEFINE a == SubSeq(s, m, (m + k) - 1)
           b == SubSeq(t, d + m, (d + m + k) - 1)
<1>1. /\ Len(s) \in Nat /\ \A j \in 1..Len(s) : s[j] \in Nat
      /\ Len(t) \in Nat /\ \A j \in 1..Len(t) : t[j] \in Nat
  BY Elements DEF Strings
<1>2. a \in Seq(Nat) /\ Len(a) = k /\ \A j \in 1..k : a[j] = s[m + j - 1]
  <2>1. \A j \in m..((m + k) - 1) : s[j] \in Nat
    BY <1>1
  <2>2. m \in Int /\ (m + k) - 1 \in Int /\ m <= (m + k) - 1 /\ ((m + k) - 1) - m + 1 = k
    OBVIOUS
  <2>3. /\ a \in Seq(Nat) /\ Len(a) = IF m <= (m + k) - 1 THEN ((m + k) - 1) - m + 1 ELSE 0
        /\ \A j \in 1..(((m + k) - 1) - m + 1) : a[j] = s[m + j - 1]
    BY <2>1, <2>2, SubSeqProperties
  <2> QED
    BY <2>2, <2>3
<1>3. b \in Seq(Nat) /\ Len(b) = k /\ \A j \in 1..k : b[j] = t[d + m + j - 1]
  <2> DEFINE x == d + m
             y == (d + m + k) - 1
  <2>1. \A j \in x..y : t[j] \in Nat
    BY <1>1
  <2>2. x \in Int /\ y \in Int /\ x <= y /\ y - x + 1 = k
    OBVIOUS
  <2> HIDE DEF x, y
  <2>3. /\ SubSeq(t, x, y) \in Seq(Nat) /\ Len(SubSeq(t, x, y)) = IF x <= y THEN y - x + 1 ELSE 0
        /\ \A j \in 1..(y - x + 1) : SubSeq(t, x, y)[j] = t[x + j - 1]
    BY <2>1, <2>2, SubSeqProperties
  <2> QED
    BY <2>2, <2>3 DEF x, y
<1> HIDE DEF a, b
<1>4. \A j \in 1..k : a[j] = b[j]
  <2>1. ASSUME NEW j \in 1..k PROVE a[j] = b[j]
    <3>1. PICK i \in m..((m + k) - 1) : i = m + j - 1 /\ d + i = d + m + j - 1
      <4>1. m + j - 1 \in m..((m + k) - 1) /\ d + (m + j - 1) = d + m + j - 1
        OBVIOUS
      <4> QED
        BY <4>1
    <3>2. s[i] = t[d + i]
      OBVIOUS
    <3> QED
      BY <3>1, <3>2, <1>2, <1>3
  <2> QED
    BY <2>1
<1>5. a = b
  BY <1>2, <1>3, <1>4, SeqEqual
<1> QED
  BY <1>5 DEF a, b

-----------------------------------------------------------------------------
(* UTF-8: a string that is cut into characters.                            *)

IsChar(s, n, k) == n + k <= Len(s) + 1 /\ E!IsCharacter(SubSeq(s, n, (n + k) - 1))
CutsRight(s, K) ==
  /\ K \subseteq 1..(Len(s) + 1) /\ 1 \in K /\ Len(s) + 1 \in K
  /\ \A n \in K : n = Len(s) + 1 \/ \E k \in 1..4 : n + k \in K /\ IsChar(s, n, k)

LEMMA CutIsUtf8 ==
  ASSUME NEW s \in Strings, NEW K, CutsRight(s, K)
  PROVE  E!IsUtf8(s)
<1> DEFINE N == Len(s)
           Next1(f, n) == n > N \/ \E k \in 1..4 :
                            n + k <= N + 1 /\ E!IsCharacter(SubSeq(s, n, n + k - 1)) /\ f[n + k]
           Eq(f) == f = [n \in 1..(N + 1) |-> Next1(f, n)]
           Chain(M) == \A m \in M : m = N + 1 \/ \E k \in 1..4 : m + k \in M /\ IsChar(s, m, k)
           Chained(n) == \E M \in SUBSET (n..(N + 1)) : n \in M /\ Chain(M)
           h == [n \in 1..(N + 1) |-> Chained(n)]
           f1 == CHOOSE f : Eq(f)
<1>1. N \in Nat
  BY DEF Strings
<1>2. ASSUME NEW n \in 1..(N + 1), NEW k \in 1..4
      PROVE  n + k - 1 = (n + k) - 1
  OBVIOUS
<1>3. ASSUME NEW n \in 1..(N + 1) PROVE Chained(n) <=> Next1(h, n)
  <2>1. CASE n = N + 1
    <3>1. n > N
      BY <1>1, <2>1
    <3>2. Chain({n})
      BY <2>1
    <3>3. {n} \in SUBSET (n..(N + 1)) /\ n \in {n}
      BY <1>1, <2>1
    <3>4. Chained(n)
      <4> HIDE DEF Chain
      <4> QED
        BY <3>2, <3>3
    <3> QED
      BY <3>1, <3>4
  <2>2. CASE n # N + 1
    <3>1. ~(n > N) /\ n \in 1..N
      BY <1>1, <2>2
    <3>2. ASSUME Chained(n) PROVE Next1(h, n)
      <4>1. PICK M \in SUBSET (n..(N + 1)) : n \in M /\ Chain(M)
        BY <3>2
      <4>2. PICK k \in 1..4 : n + k \in M /\ IsChar(s, n, k)
        BY <4>1, <2>2
      <4> DEFINE M2 == {m \in M : m >= n + k}
      <4>3. M2 \in SUBSET ((n + k)..(N + 1)) /\ n + k \in M2
        <5>1. ASSUME NEW m \in M2 PROVE m \in (n + k)..(N + 1)
          <6>1. m \in n..(N + 1) /\ m >= n + k
            OBVIOUS
          <6> QED
            BY <6>1, <1>1
        <5>2. n + k \in M2
          BY <4>2, <1>1
        <5> HIDE DEF M2
        <5> QED
          BY <5>1, <5>2
      <4>4. Chain(M2)
        <5>1. ASSUME NEW m \in M2, m # N + 1 PROVE \E j \in 1..4 : m + j \in M2 /\ IsChar(s, m, j)
          <6>1. PICK j \in 1..4 : m + j \in M /\ IsChar(s, m, j)
            BY <4>1, <5>1
          <6>2. m \in Int /\ m >= n + k
            BY <4>1, <1>1
          <6>3. m + j \in M2
            BY <6>1, <6>2
          <6> QED
            BY <6>1, <6>3
        <5> HIDE DEF M2
        <5> QED
          BY <5>1
      <4>5. Chained(n + k)
        <5> HIDE DEF M2, Chain
        <5> QED
          BY <4>3, <4>4
      <4>6. n + k \in 1..(N + 1)
        BY <4>2, <1>1 DEF IsChar
      <4>7. h[n + k]
        <5> HIDE DEF Chained
        <5> QED
          BY <4>5, <4>6
      <4>8. n + k <= N + 1 /\ E!IsCharacter(SubSeq(s, n, n + k - 1))
        BY <4>2, <1>2 DEF IsChar
      <4> HIDE DEF h
      <4> QED
        BY <4>7, <4>8
    <3>3. ASSUME Next1(h, n) PROVE Chained(n)
      <4>1. PICK k \in 1..4 : n + k <= N + 1 /\ E!IsCharacter(SubSeq(s, n, n + k - 1)) /\ h[n + k]
        <5> HIDE DEF h
        <5> QED
          BY <3>1, <3>3
      <4>2. Chained(n + k)
        <5>1. n + k \in 1..(N + 1)
          BY <4>1, <1>1
        <5> HIDE DEF Chained
        <5> QED
          BY <4>1, <5>1
      <4>3. PICK M \in SUBSET ((n + k)..(N + 1)) : n + k \in M /\ Chain(M)
        BY <4>2
      <4> DEFINE M2 == M \union {n}
      <4>4. M2 \in SUBSET (n..(N + 1)) /\ n \in M2
        BY <1>1
      <4>5. IsChar(s, n, k)
        BY <4>1, <1>2 DEF IsChar
      <4>6. Chain(M2)
        <5>1. ASSUME NEW m \in M2, m # N + 1 PROVE \E j \in 1..4 : m + j \in M2 /\ IsChar(s, m, j)
          <6>1. CASE m = n
            BY <6>1, <4>3, <4>5
          <6>2. CASE m # n
            BY <6>2, <5>1, <4>3
          <6> QED
            BY <6>1, <6>2
        <5> HIDE DEF M2
        <5> QED
          BY <5>1
      <4> HIDE DEF M2, Chain
      <4> QED
        BY <4>4, <4>6
    <3> HIDE DEF Chained, h
    <3> QED
      BY <3>2, <3>3
  <2> QED
    BY <2>1, <2>2
<1>4. Eq(h)
  <2>1. ASSUME NEW n \in 1..(N + 1) PROVE Chained(n) = Next1(h, n)
    <3>1. Chained(n) \in BOOLEAN /\ Next1(h, n) \in BOOLEAN
      OBVIOUS
    <3> HIDE DEF Chained, Next1
    <3> QED
      BY <1>3, <3>1
  <2>2. h = [n \in 1..(N + 1) |-> Next1(h, n)]
    <3> HIDE DEF Next1, Chained
    <3> QED
      BY <2>1
  <2> QED
    BY <2>2
<1>5. Eq(f1)
  <2> HIDE DEF Eq
  <2> QED
    BY <1>4
<1>6. E!IsUtf8(s) = f1[1]
  BY DEF E!IsUtf8
<1>7. \A n \in 1..(N + 1) : f1[n] = Next1(f1, n)
  <2> HIDE DEF f1, Next1
  <2> QED
    BY <1>5
<1> HIDE DEF f1, h
<1> DEFINE T == {d \in 0..N : (N + 1) - d \in K => f1[(N + 1) - d]}
<1>8. ASSUME NEW d \in 0..N, \A e \in 0..(d - 1) : e \in T PROVE d \in T
  <2> DEFINE n == (N + 1) - d
  <2>1. n \in 1..(N + 1)
    BY <1>1
  <2>2. f1[n] = Next1(f1, n)
    BY <1>7, <2>1
  <2>3. ASSUME n \in K PROVE Next1(f1, n)
    <3>1. CASE n = N + 1
      <4>1. n > N
        BY <3>1, <1>1
      <4> HIDE DEF n
      <4> QED
        BY <4>1
    <3>2. CASE n # N + 1
      <4>1. PICK k \in 1..4 : n + k \in K /\ IsChar(s, n, k)
        <5> HIDE DEF n
        <5> QED
          BY <2>3, <3>2 DEF CutsRight
      <4>2. n + k <= N + 1 /\ E!IsCharacter(SubSeq(s, n, n + k - 1))
        <5> HIDE DEF n
        <5> QED
          BY <4>1, <2>1, <1>2 DEF IsChar
      <4>3. PICK e \in 0..(d - 1) : (N + 1) - e = n + k
        <5>1. d - k \in 0..(d - 1) /\ (N + 1) - (d - k) = n + k
          BY <4>2, <1>1
        <5> QED
          BY <5>1
      <4>4. f1[n + k]
        <5>1. e \in T
          BY <1>8
        <5> QED
          BY <5>1, <4>1, <4>3
      <4> HIDE DEF n
      <4> QED
        BY <4>2, <4>4
    <3> QED
      BY <3>1, <3>2
  <2>4. n \in K => f1[n]
    <3> HIDE DEF n, Next1
    <3> QED
      BY <2>2, <2>3
  <2> QED
    BY <2>4
<1>9. \A d \in 0..N : d \in T
  <2> HIDE DEF T, N
  <2> QED
    BY <1>1, <1>8, StrongInduction
<1>10. f1[1]
  <2>1. N \in T /\ (N + 1) - N = 1 /\ 1 \in K
    BY <1>1, <1>9 DEF CutsRight
  <2> QED
    BY <2>1
<1> QED
  BY <1>6, <1>10

(* A string and a string behind it.                                        *)
LEMMA Behind ==
  ASSUME NEW s \in Strings, NEW b \in Strings
  PROVE  /\ s \o b \in Strings
         /\ Len(s) \in Nat /\ Len(b) \in Nat /\ Len(s \o b) = Len(s) + Len(b)
         /\ \A j \in 1..Len(s) : (s \o b)[j] = s[j]
         /\ \A j \in 1..Len(b) : (s \o b)[Len(s) + j] = b[j]
<1>1. Len(s) \in Nat /\ Len(b) \in Nat
  BY DEF Strings
<1>2. /\ s \o b \in Seq(Nat) /\ Len(s \o b) = Len(s) + Len(b)
      /\ \A j \in 1..(Len(s) + Len(b)) : (s \o b)[j] = IF j <= Len(s) THEN s[j] ELSE b[j - Len(s)]
  BY ConcatProperties DEF Strings
<1>3. ASSUME NEW j \in 1..Len(s) PROVE (s \o b)[j] = s[j]
  BY <1>1, <1>2
<1>4. ASSUME NEW j \in 1..Len(b) PROVE (s \o b)[Len(s) + j] = b[j]
  <2>1. PICK i \in 1..(Len(s) + Len(b)) : i = Len(s) + j
    BY <1>1
  <2>2. ~(i <= Len(s)) /\ i - Len(s) = j
    BY <1>1, <2>1
  <2>3. (s \o b)[i] = b[i - Len(s)]
    BY <1>2, <2>2
  <2> QED
    BY <2>1, <2>2, <2>3
<1> QED
  BY <1>1, <1>2, <1>3, <1>4 DEF Strings

LEMMA CutsGrow ==
  ASSUME NEW s \in Strings, NEW b \in Strings, NEW K, NEW M, CutsRight(s, K), CutsRight(b, M)
  PROVE  \E L : CutsRight(s \o b, L)
<1> DEFINE t == s \o b
           L == K \union {Len(s) + m : m \in M}
<1>1. /\ t \in Strings /\ Len(s) \in Nat /\ Len(b) \in Nat /\ Len(t) = Len(s) + Len(b)
      /\ \A j \in 1..Len(s) : t[j] = s[j]
      /\ \A j \in 1..Len(b) : t[Len(s) + j] = b[j]
  BY Behind
<1> HIDE DEF t
<1>2. \A n \in K : n \in 1..(Len(s) + 1)
  BY DEF CutsRight
<1>3. \A m \in M : m \in 1..(Len(b) + 1)
  BY DEF CutsRight
<1>4. ASSUME NEW n \in L PROVE n \in 1..(Len(t) + 1)
  <2>1. CASE n \in K
    BY <2>1, <1>1, <1>2
  <2>2. CASE n \notin K
    <3>1. PICK m \in M : n = Len(s) + m
      BY <2>2
    <3> QED
      BY <3>1, <1>1, <1>3
  <2> QED
    BY <2>1, <2>2
<1>5. 1 \in L /\ Len(t) + 1 \in L
  <2>1. 1 \in K /\ Len(b) + 1 \in M
    BY DEF CutsRight
  <2>2. Len(t) + 1 = Len(s) + (Len(b) + 1)
    BY <1>1
  <2> QED
    BY <2>1, <2>2
<1>6. ASSUME NEW m \in M, m # Len(b) + 1
      PROVE  \E k \in 1..4 : (Len(s) + m) + k \in L /\ IsChar(t, Len(s) + m, k)
  <2>1. PICK k \in 1..4 : m + k \in M /\ IsChar(b, m, k)
    BY <1>6 DEF CutsRight
  <2>2. m \in 1..(Len(b) + 1) /\ m + k <= Len(b) + 1
    BY <2>1, <1>3 DEF IsChar
  <2> DEFINE d == Len(s)
  <2>3. (d + m) + k = d + (m + k)
    BY <1>1, <2>2
  <2>4. SubSeq(b, m, (m + k) - 1) = SubSeq(t, d + m, (d + m + k) - 1)
    <3>1. m \in Nat /\ k \in Nat /\ d \in Nat /\ m >= 1 /\ k >= 1
      BY <1>1, <2>2
    <3>2. (m + k) - 1 <= Len(b) /\ (d + m + k) - 1 <= Len(t)
      BY <1>1, <2>2
    <3>3. \A j \in m..((m + k) - 1) : b[j] = t[d + j]
      BY <1>1, <3>2, <2>2
    <3> HIDE DEF d
    <3> QED
      BY <3>1, <3>2, <3>3, <1>1, PartsAgree
  <2>5. (d + m) + k <= Len(t) + 1
    BY <1>1, <2>2
  <2>6. IsChar(t, d + m, k)
    <3> HIDE DEF d
    <3> QED
      BY <2>1, <2>4, <2>5 DEF IsChar
  <2>7. (d + m) + k \in L
    BY <2>1, <2>3
  <2> QED
    BY <2>6, <2>7
<1>7. ASSUME NEW n \in L, n # Len(t) + 1 PROVE \E k \in 1..4 : n + k \in L /\ IsChar(t, n, k)
  <2>1. ASSUME NEW m \in M, n = Len(s) + m PROVE \E k \in 1..4 : n + k \in L /\ IsChar(t, n, k)
    <3>1. m # Len(b) + 1
      BY <2>1, <1>1, <1>3, <1>7
    <3> QED
      BY <3>1, <2>1, <1>6
  <2>2. CASE n \in K /\ n = Len(s) + 1
    <3>1. 1 \in M
      BY DEF CutsRight
    <3> HIDE DEF L
    <3> QED
      BY <2>1, <2>2, <3>1
  <2>3. CASE n \in K /\ n # Len(s) + 1
    <3>1. PICK k \in 1..4 : n + k \in K /\ IsChar(s, n, k)
      BY <2>3 DEF CutsRight
    <3>2. n \in 1..(Len(s) + 1) /\ n + k <= Len(s) + 1
      BY <2>3, <3>1, <1>2 DEF IsChar
    <3>3. 0 + n = n /\ (0 + n + k) - 1 = (n + k) - 1 /\ \A j \in Nat : 0 + j = j
      BY <3>2
    <3>4. SubSeq(s, n, (n + k) - 1) = SubSeq(t, 0 + n, (0 + n + k) - 1)
      <4>1. n \in Nat /\ k \in Nat /\ 0 \in Nat /\ n >= 1 /\ k >= 1
        BY <3>2
      <4>2. (n + k) - 1 <= Len(s) /\ (0 + n + k) - 1 <= Len(t)
        BY <1>1, <3>2
      <4>3. \A j \in n..((n + k) - 1) : s[j] = t[0 + j]
        BY <1>1, <4>2, <3>2
      <4> QED
        BY <4>1, <4>2, <4>3, <1>1, PartsAgree
    <3>5. n + k <= Len(t) + 1
      BY <1>1, <3>2
    <3>6. IsChar(t, n, k)
      BY <3>1, <3>3, <3>4, <3>5 DEF IsChar
    <3> QED
      BY <3>1, <3>6
  <2>4. CASE n \notin K
    <3>1. PICK m \in M : n = Len(s) + m
      BY <2>4
    <3> QED
      BY <3>1, <2>1
  <2> QED
    BY <2>2, <2>3, <2>4
<1> HIDE DEF L
<1>8. CutsRight(t, L)
  BY <1>4, <1>5, <1>7 DEF CutsRight
<1> QED
  BY <1>8 DEF t

-----------------------------------------------------------------------------
(* Reading an escaped string back.  Where each byte of w is in s: as it is *)
(* or as an escape.                                                        *)

Reads(s, w, to, n) ==
  /\ to \in [1..(n + 1) -> 1..(Len(s) + 1)] /\ to[1] = 1 /\ to[n + 1] = Len(s) + 1
  /\ \A q \in 1..n :
       \/ s[to[q]] = w[q] /\ s[to[q]] # 92 /\ to[q + 1] = to[q] + 1
       \/ s[to[q]] = 92 /\ E!Octal(s, to[q]) = w[q] /\ to[q + 1] = to[q] + 4

Rested(s, f, n) ==
  IF n > Len(s) THEN <<>>
  ELSE IF E!IsEscape(s, n) THEN <<E!Octal(s, n)>> \o f[n + 4]
  ELSE <<s[n]>> \o f[n + 1]

LEMMA RestExists ==
  ASSUME NEW s \in Strings
  PROVE  \E f : f = [n \in 1..(Len(s) + 1) |-> Rested(s, f, n)]
<1> DEFINE N == Len(s)
           Right(f, m) == \A n \in ((N + 1) - m)..(N + 1) : f[n] = Rested(s, f, n)
           T == {m \in 0..N : \E f \in [((N + 1) - m)..(N + 1) -> Seq(Int)] : Right(f, m)}
<1>1. N \in Nat /\ \A n \in 1..N : s[n] \in Nat
  BY Elements DEF Strings
<1>2. 0 \in T
  <2> DEFINE f == [n \in ((N + 1) - 0)..(N + 1) |-> <<>>]
  <2>1. f \in [((N + 1) - 0)..(N + 1) -> Seq(Int)]
    OBVIOUS
  <2>2. Right(f, 0)
    <3>1. ASSUME NEW n \in ((N + 1) - 0)..(N + 1) PROVE f[n] = Rested(s, f, n)
      <4>1. n > Len(s)
        BY <1>1
      <4> QED
        BY <4>1 DEF Rested
    <3> HIDE DEF f
    <3> QED
      BY <3>1
  <2>3. 0 \in 0..N
    BY <1>1
  <2> HIDE DEF f, Right
  <2> QED
    BY <2>1, <2>2, <2>3
<1>3. ASSUME NEW m \in 1..N, m - 1 \in T PROVE m \in T
  <2> DEFINE a == (N + 1) - m
  <2>1. a \in 1..N /\ (N + 1) - (m - 1) = a + 1 /\ m \in 0..N
    BY <1>1
  <2>2. PICK f \in [(a + 1)..(N + 1) -> Seq(Int)] : \A n \in (a + 1)..(N + 1) : f[n] = Rested(s, f, n)
    <3>1. PICK f \in [((N + 1) - (m - 1))..(N + 1) -> Seq(Int)] : Right(f, m - 1)
      BY <1>3
    <3> QED
      BY <3>1, <2>1
  <2> HIDE DEF a
  <2> DEFINE h == [n \in a..(N + 1) |-> IF n = a THEN Rested(s, f, a) ELSE f[n]]
  <2>3. Rested(s, f, a) \in Seq(Int)
    <3>1. ~(a > Len(s)) /\ s[a] \in Int
      BY <1>1, <2>1
    <3>2. CASE E!IsEscape(s, a)
      <4>1. a + 3 <= N
        BY <3>2 DEF E!IsEscape
      <4>2. a + 4 \in (a + 1)..(N + 1) /\ a + 1 \in 1..N /\ a + 2 \in 1..N /\ a + 3 \in 1..N
        BY <4>1, <1>1, <2>1
      <4>3. f[a + 4] \in Seq(Int)
        BY <4>2
      <4>4. PICK x \in Nat, y \in Nat, z \in Nat : x = s[a + 1] /\ y = s[a + 2] /\ z = s[a + 3]
        BY <4>2, <1>1
      <4>5. E!Octal(s, a) \in Int
        <5>1. E!Octal(s, a) = (64 * (x - 48)) + (8 * (y - 48)) + (z - 48)
          BY <4>4 DEF E!Octal
        <5> QED
          BY <5>1
      <4>6. <<E!Octal(s, a)>> \in Seq(Int)
        BY <4>5
      <4>7. <<E!Octal(s, a)>> \o f[a + 4] \in Seq(Int)
        BY <4>3, <4>6, ConcatProperties
      <4> QED
        BY <3>1, <3>2, <4>7 DEF Rested
    <3>3. CASE ~E!IsEscape(s, a)
      <4>1. f[a + 1] \in Seq(Int)
        BY <1>1, <2>1
      <4>2. <<s[a]>> \in Seq(Int)
        BY <3>1
      <4>3. <<s[a]>> \o f[a + 1] \in Seq(Int)
        BY <4>1, <4>2, ConcatProperties
      <4> QED
        BY <3>1, <3>3, <4>3 DEF Rested
    <3> QED
      BY <3>2, <3>3
  <2>4. h \in [a..(N + 1) -> Seq(Int)]
    <3>1. ASSUME NEW n \in a..(N + 1), n # a PROVE f[n] \in Seq(Int)
      <4>1. n \in (a + 1)..(N + 1)
        BY <3>1, <2>1, <1>1
      <4> QED
        BY <4>1
    <3> QED
      BY <3>1, <2>3
  <2>5. \A n \in (a + 1)..(N + 1) : h[n] = f[n]
    BY <1>1, <2>1
  <2>6. ASSUME NEW n \in a..(N + 1) PROVE Rested(s, h, n) = Rested(s, f, n)
    <3>1. n > Len(s) => Rested(s, h, n) = Rested(s, f, n)
      BY DEF Rested
    <3>2. ASSUME ~(n > Len(s)), E!IsEscape(s, n) PROVE Rested(s, h, n) = Rested(s, f, n)
      <4>1. n + 3 <= N
        BY <3>2 DEF E!IsEscape
      <4>2. n + 4 \in (a + 1)..(N + 1)
        BY <4>1, <1>1, <2>1
      <4>3. h[n + 4] = f[n + 4]
        BY <4>2, <2>5
      <4> HIDE DEF h
      <4> QED
        BY <3>2, <4>3 DEF Rested
    <3>3. ASSUME ~(n > Len(s)), ~E!IsEscape(s, n) PROVE Rested(s, h, n) = Rested(s, f, n)
      <4>2. n + 1 \in (a + 1)..(N + 1)
        BY <3>3, <1>1, <2>1
      <4>3. h[n + 1] = f[n + 1]
        BY <4>2, <2>5
      <4> HIDE DEF h
      <4> QED
        BY <3>3, <4>3 DEF Rested
    <3> QED
      BY <3>1, <3>2, <3>3
  <2>7. ASSUME NEW n \in a..(N + 1) PROVE h[n] = Rested(s, h, n)
    <3>1. CASE n = a
      BY <3>1, <2>6
    <3>2. CASE n # a
      <4>1. n \in (a + 1)..(N + 1)
        BY <3>2, <2>1, <1>1
      <4> HIDE DEF h
      <4> QED
        BY <4>1, <2>2, <2>5, <2>6
    <3> QED
      BY <3>1, <3>2
  <2>8. \E g \in [((N + 1) - m)..(N + 1) -> Seq(Int)] : Right(g, m)
    <3> HIDE DEF h
    <3> QED
      BY <2>4, <2>7 DEF a
  <2> QED
    BY <2>1, <2>8
<1> HIDE DEF T
<1>4. N \in T
  <2>1. \A k \in 0..N : k \in T
    <3> HIDE DEF N
    <3> QED
      BY <1>1, <1>2, <1>3, IntervalInduction
  <2> QED
    BY <1>1, <2>1
<1>5. PICK f \in [((N + 1) - N)..(N + 1) -> Seq(Int)] : Right(f, N)
  BY <1>4 DEF T
<1>6. (N + 1) - N = 1
  BY <1>1
<1>7. f \in [1..(N + 1) -> Seq(Int)] /\ \A n \in 1..(N + 1) : f[n] = Rested(s, f, n)
  BY <1>5, <1>6
<1>8. f = [n \in 1..(N + 1) |-> Rested(s, f, n)]
  BY <1>7
<1> QED
  BY <1>8

LEMMA ReadsBack ==
  ASSUME NEW s \in Strings, NEW w \in Seq(0..255), NEW to, Reads(s, w, to, Len(w))
  PROVE  E!Unescaped(s) = w
<1> DEFINE N == Len(s)
           l == Len(w)
           Eq(f) == f = [n \in 1..(N + 1) |->
                           IF n > N THEN <<>>
                           ELSE IF E!IsEscape(s, n) THEN <<E!Octal(s, n)>> \o f[n + 4]
                           ELSE <<s[n]>> \o f[n + 1]]
           f1 == CHOOSE f : Eq(f)
<1>1. N \in Nat /\ l \in Nat
  BY BytesAre DEF Strings
<1>2. \E f : Eq(f)
  BY RestExists DEF Rested
<1>3. Eq(f1)
  <2> HIDE DEF Eq
  <2> QED
    BY <1>2
<1>4. E!Unescaped(s) = f1[1]
  BY DEF E!Unescaped
<1>5. \A n \in 1..(N + 1) : f1[n] = Rested(s, f1, n)
  <2> HIDE DEF f1
  <2> QED
    BY <1>3 DEF Rested
<1> HIDE DEF f1
<1> DEFINE T == {d \in 0..l : f1[to[(l + 1) - d]] = SubSeq(w, (l + 1) - d, l)}
<1>6. to \in [1..(l + 1) -> 1..(N + 1)] /\ to[1] = 1 /\ to[l + 1] = N + 1
  BY DEF Reads
<1>7. 0 \in T
  <2>1. to[(l + 1) - 0] = N + 1
    BY <1>1, <1>6
  <2>2. N + 1 > Len(s) /\ N + 1 \in 1..(N + 1)
    BY <1>1
  <2>3. f1[N + 1] = <<>>
    BY <2>2, <1>5 DEF Rested
  <2>4. SubSeq(w, (l + 1) - 0, l) = <<>>
    BY <1>1, SubSeqEmpty
  <2>5. 0 \in 0..l
    BY <1>1
  <2> QED
    BY <2>1, <2>3, <2>4, <2>5
<1>8. ASSUME NEW d \in 1..l, d - 1 \in T PROVE d \in T
  <2>1. PICK q \in 1..l : q = (l + 1) - d /\ (l + 1) - (d - 1) = q + 1
    <3>1. (l + 1) - d \in 1..l /\ (l + 1) - (d - 1) = ((l + 1) - d) + 1
      BY <1>1
    <3> QED
      BY <3>1
  <2>2. f1[to[q + 1]] = SubSeq(w, q + 1, l)
    BY <1>8, <2>1
  <2>3. to[q] \in 1..(N + 1) /\ to[q + 1] \in 1..(N + 1)
    BY <1>1, <1>6
  <2>4. w = w /\ SubSeq(w, q, l) = <<w[q]>> \o SubSeq(w, q + 1, l)
    <3>1. q \in 1..Len(w) /\ l \in q..Len(w)
      BY <1>1
    <3> DEFINE B == 0..255
    <3>2. w \in Seq(B)
      OBVIOUS
    <3> HIDE DEF B
    <3> QED
      BY <3>1, <3>2, SubSeqRecursiveFirst
  <2>5. \/ s[to[q]] = w[q] /\ s[to[q]] # 92 /\ to[q + 1] = to[q] + 1
        \/ s[to[q]] = 92 /\ E!Octal(s, to[q]) = w[q] /\ to[q + 1] = to[q] + 4
    BY DEF Reads
  <2>6. f1[to[q]] = <<w[q]>> \o f1[to[q + 1]]
    <3>1. f1[to[q]] = Rested(s, f1, to[q])
      BY <1>5, <2>3
    <3>2. CASE s[to[q]] = w[q] /\ s[to[q]] # 92 /\ to[q + 1] = to[q] + 1
      <4>1. ~(to[q] > Len(s))
        BY <3>2, <2>3, <1>1
      <4>2. ~E!IsEscape(s, to[q])
        BY <3>2 DEF E!IsEscape, E!BACKSLASH
      <4> QED
        BY <3>1, <3>2, <4>1, <4>2 DEF Rested
    <3>3. CASE s[to[q]] = 92 /\ E!Octal(s, to[q]) = w[q] /\ to[q + 1] = to[q] + 4
      <4>1. ~(to[q] > Len(s)) /\ to[q] + 3 <= Len(s)
        BY <3>3, <2>3, <1>1
      <4>2. E!IsEscape(s, to[q])
        BY <3>3, <4>1 DEF E!IsEscape, E!BACKSLASH
      <4> QED
        BY <3>1, <3>3, <4>1, <4>2 DEF Rested
    <3> QED
      BY <2>5, <3>2, <3>3
  <2>7. d \in 0..l
    OBVIOUS
  <2>8. f1[to[(l + 1) - d]] = SubSeq(w, (l + 1) - d, l)
    BY <2>1, <2>2, <2>4, <2>6
  <2> QED
    BY <2>7, <2>8
<1> HIDE DEF T
<1>9. l \in T
  <2>1. \A k \in 0..l : k \in T
    <3> HIDE DEF l
    <3> QED
      BY <1>1, <1>7, <1>8, IntervalInduction
  <2> QED
    BY <1>1, <2>1
<1>10. f1[to[(l + 1) - l]] = SubSeq(w, (l + 1) - l, l)
  BY <1>9 DEF T
<1>11. (l + 1) - l = 1
  BY <1>1
<1>12. SubSeq(w, 1, l) = w
  <2> DEFINE B == 0..255
  <2>1. w \in Seq(B)
    OBVIOUS
  <2> HIDE DEF B
  <2> QED
    BY <2>1, SubSeqFull
<1> QED
  BY <1>4, <1>6, <1>10, <1>11, <1>12


-----------------------------------------------------------------------------
(* The pieces that are written: escapes and characters.                    *)

LEMMA BytesOf ==
  ASSUME NEW w \in Seq(0..255)
  PROVE  Len(w) \in Nat /\ \A k \in 1..Len(w) : w[k] \in 0..255
<1> DEFINE B == 0..255
<1>1. w \in Seq(B)
  OBVIOUS
<1> HIDE DEF B
<1>2. Len(w) \in Nat /\ \A k \in 1..Len(w) : w[k] \in B
  BY <1>1, Elements
<1> QED
  BY <1>2 DEF B

(* An escape has three octal digits, and they are those of the byte.       *)
LEMMA OctalDigits ==
  ASSUME NEW c \in 0..255
  PROVE  /\ c \div 64 \in 0..7 /\ (c \div 8) % 8 \in 0..7 /\ c % 8 \in 0..7
         /\ (64 * (c \div 64)) + (8 * ((c \div 8) % 8)) + (c % 8) = c
<1>1. c = (8 * (c \div 8)) + (c % 8) /\ c % 8 \in 0..7 /\ c \div 8 \in Int
  OBVIOUS
<1>2. c = (64 * (c \div 64)) + (c % 64) /\ c % 64 \in 0..63 /\ c \div 64 \in Int
  OBVIOUS
<1> DEFINE a == c \div 8
<1>3. a \in Int /\ a = (8 * (a \div 8)) + (a % 8) /\ a % 8 \in 0..7 /\ a \div 8 \in Int
  BY <1>1
<1>4. PICK p \in Int, q \in Int, r \in 0..7, t \in 0..7, u \in 0..63 :
        p = a \div 8 /\ q = c \div 64 /\ r = a % 8 /\ t = c % 8 /\ u = c % 64
  BY <1>1, <1>2, <1>3
<1>5. c = (8 * a) + t /\ a = (8 * p) + r /\ c = (64 * q) + u
  BY <1>1, <1>2, <1>3, <1>4
<1>6. c = (64 * p) + ((8 * r) + t) /\ (8 * r) + t \in 0..63
  BY <1>1, <1>5
<1>7. p = q
  BY <1>5, <1>6
<1>8. q \in 0..7
  BY <1>5
<1> QED
  BY <1>4, <1>6, <1>7, <1>8

LEMMA EscapeIs ==
  ASSUME NEW c \in 0..255
  PROVE  /\ E!octal_escape(c) \in Strings /\ Len(E!octal_escape(c)) = 4
         /\ E!octal_escape(c)[1] = 92
         /\ \A k \in 1..4 : E!octal_escape(c)[k] \in 32..127
         /\ E!Octal(E!octal_escape(c), 1) = c
<1>1. PICK x \in 0..7, y \in 0..7, z \in 0..7 :
        x = c \div 64 /\ y = (c \div 8) % 8 /\ z = c % 8 /\ (64 * x) + (8 * y) + z = c
  BY OctalDigits
<1>2. E!octal_escape(c) = <<92, 48 + x, 48 + y, 48 + z>>
  BY <1>1 DEF E!octal_escape, E!BACKSLASH
<1> DEFINE e == <<92, 48 + x, 48 + y, 48 + z>>
<1>3. e \in Strings /\ Len(e) = 4 /\ e[1] = 92 /\ e[2] = 48 + x /\ e[3] = 48 + y /\ e[4] = 48 + z
  BY DEF Strings
<1> HIDE DEF e
<1>4. \A k \in 1..4 : e[k] \in 32..127
  <2>1. \A k \in 1..4 : k = 1 \/ k = 2 \/ k = 3 \/ k = 4
    OBVIOUS
  <2> QED
    BY <1>3, <2>1
<1>5. E!Octal(e, 1) = c
  <2>1. 1 + 1 = 2 /\ 1 + 2 = 3 /\ 1 + 3 = 4
    OBVIOUS
  <2>2. e[2] - 48 = x /\ e[3] - 48 = y /\ e[4] - 48 = z
    BY <1>3
  <2> QED
    BY <1>1, <2>1, <2>2 DEF E!Octal
<1> QED
  BY <1>2, <1>3, <1>4, <1>5 DEF e

(* Every byte of ASCII is a character.                                     *)
LEMMA AsciiCut ==
  ASSUME NEW s \in Strings, \A k \in 1..Len(s) : s[k] \in 0..127
  PROVE  CutsRight(s, 1..(Len(s) + 1))
<1>1. Len(s) \in Nat
  BY DEF Strings
<1>2. ASSUME NEW n \in 1..(Len(s) + 1), n # Len(s) + 1 PROVE n + 1 \in 1..(Len(s) + 1) /\ IsChar(s, n, 1)
  <2>1. n \in 1..Len(s) /\ n + 1 \in 1..(Len(s) + 1) /\ n + 1 <= Len(s) + 1
    BY <1>1, <1>2
  <2> DEFINE c == SubSeq(s, n, (n + 1) - 1)
  <2>2. c \in Seq(Nat) /\ Len(c) = 1 /\ c[1] = s[n]
    <3>1. \A j \in n..n : s[j] \in Nat
      <4>1. s[n] \in 0..127
        BY <2>1
      <4>2. s[n] \in Nat
        <5>1. \A x \in 0..127 : x \in Nat
          OBVIOUS
        <5> QED
          BY <4>1, <5>1
      <4>3. \A j \in n..n : j = n
        BY <2>1
      <4> QED
        BY <4>2, <4>3
    <3>2. n \in Int /\ n <= n /\ n - n + 1 = 1 /\ (n + 1) - 1 = n /\ n + 1 - 1 = n
      BY <2>1
    <3>3. /\ SubSeq(s, n, n) \in Seq(Nat) /\ Len(SubSeq(s, n, n)) = IF n <= n THEN n - n + 1 ELSE 0
          /\ \A j \in 1..(n - n + 1) : SubSeq(s, n, n)[j] = s[n + j - 1]
      BY <3>1, <3>2, SubSeqProperties
    <3>4. SubSeq(s, n, n)[1] = s[n + 1 - 1]
      BY <3>2, <3>3
    <3> QED
      BY <3>2, <3>3, <3>4
  <2> HIDE DEF c
  <2>3. E!Within(c, <<0..127>>)
    <3>1. DOMAIN c = 1..1 /\ Len(<<0..127>>) = 1 /\ <<0..127>>[1] = 0..127
      BY <2>2
    <3>2. s[n] \in 0..127
      BY <2>1
    <3>3. ASSUME NEW k \in DOMAIN c PROVE c[k] \in <<0..127>>[k]
      <4>1. k = 1
        BY <3>1
      <4> QED
        BY <4>1, <2>2, <3>1, <3>2
    <3> QED
      BY <2>2, <3>1, <3>3 DEF E!Within
  <2>4. E!IsCharacter(c)
    BY <2>3 DEF E!IsCharacter
  <2> QED
    BY <2>1, <2>4 DEF IsChar, c
<1>3. 1 \in 1..(Len(s) + 1) /\ Len(s) + 1 \in 1..(Len(s) + 1)
  BY <1>1
<1>4. 1 \in 1..4
  OBVIOUS
<1> QED
  BY <1>2, <1>3, <1>4 DEF CutsRight

(* One character of n bytes.                                               *)
LEMMA CharacterCut ==
  ASSUME NEW s \in Strings, Len(s) \in 1..4, E!IsCharacter(s)
  PROVE  CutsRight(s, {1, Len(s) + 1})
<1> DEFINE l == Len(s)
<1>1. 1 + l = l + 1 /\ (1 + l) - 1 = l /\ 1 + l <= l + 1 /\ l + 1 \in 1..(l + 1) /\ 1 \in 1..(l + 1)
  OBVIOUS
<1>2. SubSeq(s, 1, (1 + l) - 1) = s
  BY <1>1, SubSeqFull DEF Strings
<1>3. IsChar(s, 1, l)
  BY <1>1, <1>2 DEF IsChar
<1>4. l \in 1..4
  OBVIOUS
<1> HIDE DEF l
<1>5. \A n \in {1, l + 1} : n = l + 1 \/ \E k \in 1..4 : n + k \in {1, l + 1} /\ IsChar(s, n, k)
  BY <1>1, <1>3, <1>4
<1> QED
  BY <1>1, <1>5 DEF CutsRight, l


(* What the tests let through.                                             *)
LEMMA LeadOfTwo ==
  ASSUME NEW a \in 192..223, NEW b \in 128..191, ((a % 32) * 64) + (b % 64) >= 128
  PROVE  a \in 194..223
<1>1. a % 32 = a - 192
  OBVIOUS
<1>2. b % 64 = b - 128
  OBVIOUS
<1>3. ((a - 192) * 64) + (b - 128) >= 128
  BY <1>1, <1>2
<1> QED
  BY <1>3

LEMMA NotSurrogate ==
  ASSUME NEW u \in Int, E!valid_utf8codepoint(u)
  PROVE  u \notin 55296..57343
BY SMT DEF E!valid_utf8codepoint

LEMMA CharacterOfTwo ==
  ASSUME NEW s \in Strings, Len(s) = 2, s[1] \in 194..223, s[2] \in 128..191
  PROVE  E!IsCharacter(s)
<1>1. DOMAIN s = 1..2 /\ \A k \in 1..2 : k = 1 \/ k = 2
  BY Elements DEF Strings
<1>2. E!Within(s, <<194..223, E!Cont>>)
  BY <1>1 DEF E!Within, E!Cont
<1> QED
  BY <1>2 DEF E!IsCharacter

LEMMA CharacterOfThree ==
  ASSUME NEW s \in Strings, Len(s) = 3, s[1] \in 224..239, s[2] \in 128..191, s[3] \in 128..191,
         s[1] = 224 => s[2] \in 160..191, s[1] = 237 => s[2] \in 128..159
  PROVE  E!IsCharacter(s)
<1>1. DOMAIN s = 1..3 /\ \A k \in 1..3 : k = 1 \/ k = 2 \/ k = 3
  BY Elements DEF Strings
<1>2. CASE s[1] = 224
  <2>1. E!Within(s, <<{224}, 160..191, E!Cont>>)
    BY <1>1, <1>2 DEF E!Within, E!Cont
  <2> QED
    BY <2>1 DEF E!IsCharacter
<1>3. CASE s[1] = 237
  <2>1. E!Within(s, <<{237}, 128..159, E!Cont>>)
    BY <1>1, <1>3 DEF E!Within, E!Cont
  <2> QED
    BY <2>1 DEF E!IsCharacter
<1>4. CASE s[1] # 224 /\ s[1] # 237
  <2>1. s[1] \in (225..239) \ {237}
    BY <1>4
  <2>2. E!Within(s, <<(225..239) \ {237}, E!Cont, E!Cont>>)
    BY <1>1, <2>1 DEF E!Within, E!Cont
  <2> QED
    BY <2>2 DEF E!IsCharacter
<1> QED
  BY <1>2, <1>3, <1>4

LEMMA SequenceIs ==
  ASSUME input \in Seq(0..255), nread \in Nat, nread < Len(input), E!Sequence > 0
  PROVE  /\ E!Sequence \in {2, 3} /\ nread + E!Sequence <= Len(input)
         /\ E!IsCharacter(SubSeq(input, nread + 1, nread + E!Sequence))
         /\ \A k \in 1..E!Sequence : input[nread + k] >= 128
<1> DEFINE n == E!Sequence
<1>1. Len(input) \in Nat /\ \A k \in 1..Len(input) : input[k] \in 0..255
  BY BytesOf
<1>2. /\ E!Bytes(2) => nread + 2 <= Len(input) /\ input[nread + 2] \in 128..191
      /\ E!Bytes(3) => /\ nread + 3 <= Len(input)
                       /\ input[nread + 2] \in 128..191 /\ input[nread + 3] \in 128..191
      /\ E!Bytes(4) => nread + 4 <= Len(input)
  <2>1. 2 \in 2..2 /\ 2 \in 2..3 /\ 3 \in 2..3
    OBVIOUS
  <2> QED
    BY <2>1 DEF E!Bytes, E!Byte, E!utf8cont
<1>3. ~E!Copied(4, 240..247, E!Unichar4, 16777216)
  <2>1. ASSUME E!Bytes(4) PROVE ~(E!Unichar4 >= 16777216)
    <3>1. nread + 4 <= Len(input)
      BY SMT, <1>2, <2>1
    <3>2. PICK a \in 0..255, b \in 0..255, c \in 0..255, d \in 0..255 :
            a = input[nread + 1] /\ b = input[nread + 2] /\ c = input[nread + 3] /\ d = input[nread + 4]
      <4>1. /\ input[nread + 1] \in 0..255 /\ input[nread + 2] \in 0..255
            /\ input[nread + 3] \in 0..255 /\ input[nread + 4] \in 0..255
        <5>1. /\ nread + 1 \in 1..Len(input) /\ nread + 2 \in 1..Len(input)
              /\ nread + 3 \in 1..Len(input) /\ nread + 4 \in 1..Len(input)
          BY <1>1, <3>1
        <5> QED
          BY <1>1, <5>1
      <4> QED
        BY <4>1
    <3>3. PICK p \in 0..7, q \in 0..63, r \in 0..63, t \in 0..63 :
            p = a % 8 /\ q = b % 64 /\ r = c % 64 /\ t = d % 64
      <4>1. a % 8 \in 0..7 /\ b % 64 \in 0..63 /\ c % 64 \in 0..63 /\ d % 64 \in 0..63
        OBVIOUS
      <4> QED
        BY <4>1
    <3>4. E!Unichar4 = (p * 262144) + (q * 4096) + (r * 64) + t
      BY SMT, <3>2, <3>3 DEF E!Unichar4, E!Low, E!Byte
    <3>5. ~((p * 262144) + (q * 4096) + (r * 64) + t >= 16777216)
      BY SMT
    <3> QED
      BY SMT, <3>4, <3>5
  <2> QED
    BY SMT, <2>1 DEF E!Copied
<1> DEFINE A == E!Byte(1) # 192 /\ E!Copied(2, 192..223, E!Unichar2, 128)
           B == E!Copied(3, 224..239, E!Unichar3, 2048)
<1>4. (n = 2 /\ A) \/ (n = 3 /\ B)
  <2>1. n = CASE A -> 2 [] B -> 3 [] E!Copied(4, 240..247, E!Unichar4, 16777216) -> 4 [] OTHER -> 0
    BY SMT DEF E!Sequence
  <2>2. n > 0
    OBVIOUS
  <2>3. A => ~B
    <3>1. A => E!Byte(1) \in 192..223
      BY DEF E!Copied
    <3>2. B => E!Byte(1) \in 224..239
      BY DEF E!Copied
    <3>3. ASSUME A, B PROVE FALSE
      <4> HIDE DEF A, B
      <4>1. PICK x \in 192..223 : x = E!Byte(1)
        BY <3>1, <3>3
      <4>2. x \in 224..239
        BY <3>2, <3>3, <4>1
      <4> QED
        BY <4>2
    <3> HIDE DEF A, B
    <3> QED
      BY <3>3
  <2> HIDE DEF n, A, B
  <2> QED
    BY SMT, <1>3, <2>1, <2>2, <2>3
<1> HIDE DEF n
<1> DEFINE s == SubSeq(input, nread + 1, nread + n)
<1>5. ASSUME n \in {2, 3}, nread + n <= Len(input)
      PROVE  s \in Strings /\ Len(s) = n /\ \A k \in 1..n : s[k] = input[nread + k]
  <2> DEFINE p == nread + 1
             q == nread + n
  <2>1. p \in Int /\ q \in Int /\ p <= q /\ q - p + 1 = n
    BY <1>5, <1>1
  <2>2. \A k \in p..q : input[k] \in Nat
    <3>1. \A k \in p..q : k \in 1..Len(input)
      BY <1>5, <1>1
    <3>2. \A x \in 0..255 : x \in Nat
      OBVIOUS
    <3> HIDE DEF p, q
    <3> QED
      BY <1>1, <3>1, <3>2
  <2>3. \A k \in 1..n : p + k - 1 = nread + k
    BY <1>5
  <2> HIDE DEF p, q
  <2>4. /\ SubSeq(input, p, q) \in Seq(Nat)
        /\ Len(SubSeq(input, p, q)) = IF p <= q THEN q - p + 1 ELSE 0
        /\ \A k \in 1..(q - p + 1) : SubSeq(input, p, q)[k] = input[p + k - 1]
    BY <2>1, <2>2, SubSeqProperties
  <2> QED
    BY <2>1, <2>3, <2>4 DEF p, q, Strings
<1> HIDE DEF s
<1>6. CASE n = 2 /\ A
  <2>1. E!Bytes(2) /\ E!Byte(1) \in 192..223 /\ E!Unichar2 >= 128
    BY <1>6 DEF E!Copied
  <2>2. nread + 2 <= Len(input) /\ input[nread + 2] \in 128..191
    BY <1>2, <2>1
  <2>3. PICK a \in 192..223, b \in 128..191 : a = input[nread + 1] /\ b = input[nread + 2]
    BY <2>1, <2>2 DEF E!Byte
  <2>4. ((a % 32) * 64) + (b % 64) >= 128
    BY <2>1, <2>3 DEF E!Unichar2, E!Low, E!Byte
  <2>5. a \in 194..223
    BY <2>4, LeadOfTwo
  <2>6. s \in Strings /\ Len(s) = 2 /\ s[1] = a /\ s[2] = b
    BY <1>5, <1>6, <2>2, <2>3
  <2>7. E!IsCharacter(s)
    BY <2>5, <2>6, CharacterOfTwo
  <2>8. \A k \in 1..2 : input[nread + k] >= 128
    <3>1. \A k \in 1..2 : k = 1 \/ k = 2
      OBVIOUS
    <3>2. input[nread + 1] >= 128 /\ input[nread + 2] >= 128
      <4>1. a >= 128 /\ b >= 128
        OBVIOUS
      <4> QED
        BY <2>3, <4>1
    <3> QED
      BY <3>1, <3>2
  <2> QED
    BY <1>6, <2>2, <2>7, <2>8 DEF n, s
<1>7. CASE n = 3 /\ B
  <2>1. /\ E!Bytes(3) /\ E!Byte(1) \in 224..239 /\ E!Unichar3 >= 2048
        /\ E!valid_utf8codepoint(E!Unichar3)
    BY <1>7 DEF E!Copied
  <2>2. nread + 3 <= Len(input) /\ input[nread + 2] \in 128..191 /\ input[nread + 3] \in 128..191
    BY <1>2, <2>1
  <2>3. PICK a \in 224..239, b \in 128..191, c \in 128..191 :
          a = input[nread + 1] /\ b = input[nread + 2] /\ c = input[nread + 3]
    <3>1. input[nread + 1] \in 224..239
      BY <2>1 DEF E!Byte
    <3> QED
      BY <2>2, <3>1
  <2>4. E!Unichar3 = ((a % 16) * 4096) + ((b % 64) * 64) + (c % 64)
    BY <2>3 DEF E!Unichar3, E!Low, E!Byte
  <2>5. PICK u \in Int : u = E!Unichar3 /\ u = ((a % 16) * 4096) + ((b % 64) * 64) + (c % 64)
    <3>1. ((a % 16) * 4096) + ((b % 64) * 64) + (c % 64) \in Int
      BY SMT
    <3> QED
      BY <2>4, <3>1
  <2>6. (a = 224 => b \in 160..191) /\ (a = 237 => b \in 128..159)
    <3>1. u >= 2048 /\ E!valid_utf8codepoint(u)
      BY <2>1, <2>5
    <3>2. u \notin 55296..57343
      BY SMT, <3>1, NotSurrogate
    <3>3. a % 16 = a - 224 /\ b % 64 = b - 128 /\ c % 64 = c - 128
      BY SMT
    <3>4. u = ((a - 224) * 4096) + ((b - 128) * 64) + (c - 128)
      BY SMT, <2>5, <3>3
    <3>5. u >= 2048 /\ (u < 55296 \/ u > 57343)
      BY SMT, <3>1, <3>2
    <3> QED
      BY SMT, <3>4, <3>5
  <2>7. s \in Strings /\ Len(s) = 3 /\ s[1] = a /\ s[2] = b /\ s[3] = c
    BY <1>5, <1>7, <2>2, <2>3
  <2>8. E!IsCharacter(s)
    BY <2>6, <2>7, CharacterOfThree
  <2>9. \A k \in 1..3 : input[nread + k] >= 128
    <3>1. \A k \in 1..3 : k = 1 \/ k = 2 \/ k = 3
      OBVIOUS
    <3>2. input[nread + 1] >= 128 /\ input[nread + 2] >= 128 /\ input[nread + 3] >= 128
      <4>1. a >= 128 /\ b >= 128 /\ c >= 128
        OBVIOUS
      <4> QED
        BY <2>3, <4>1
    <3> QED
      BY <3>1, <3>2
  <2> QED
    BY <1>7, <2>2, <2>8, <2>9 DEF n, s
<1> QED
  BY <1>4, <1>6, <1>7


-----------------------------------------------------------------------------
(* What was written can be read back while more is written behind it.      *)

Stands(t, w, to, j) ==
  \/ t[to[j]] = w[j] /\ t[to[j]] # 92 /\ to[j + 1] = to[j] + 1
  \/ t[to[j]] = 92 /\ E!Octal(t, to[j]) = w[j] /\ to[j + 1] = to[j] + 4

LEMMA ReadsStay ==
  ASSUME NEW s \in Strings, NEW b \in Strings, NEW w, NEW to, NEW q \in Nat, Reads(s, w, to, q)
  PROVE  \A j \in 1..q : Stands(s \o b, w, to, j)
<1> DEFINE t == s \o b
<1>1. Len(s) \in Nat /\ \A j \in 1..Len(s) : t[j] = s[j]
  BY Behind
<1> HIDE DEF t
<1>2. ASSUME NEW j \in 1..q PROVE Stands(t, w, to, j)
  <2>1. to[j] \in 1..(Len(s) + 1) /\ to[j + 1] \in 1..(Len(s) + 1)
    BY DEF Reads
  <2>2. \/ s[to[j]] = w[j] /\ s[to[j]] # 92 /\ to[j + 1] = to[j] + 1
        \/ s[to[j]] = 92 /\ E!Octal(s, to[j]) = w[j] /\ to[j + 1] = to[j] + 4
    BY DEF Reads
  <2>3. to[j] \in 1..Len(s)
    BY <2>1, <2>2, <1>1
  <2>4. t[to[j]] = s[to[j]]
    BY <2>3, <1>1
  <2>5. ASSUME to[j + 1] = to[j] + 4 PROVE E!Octal(t, to[j]) = E!Octal(s, to[j])
    <3>1. PICK m \in 1..Len(s) : m = to[j]
      BY <2>3
    <3>2. m + 1 \in 1..Len(s) /\ m + 2 \in 1..Len(s) /\ m + 3 \in 1..Len(s)
      <4>1. m + 4 <= Len(s) + 1
        BY <2>1, <3>1, <2>5, <1>1
      <4> QED
        BY <4>1, <1>1
    <3>3. t[m + 1] = s[m + 1] /\ t[m + 2] = s[m + 2] /\ t[m + 3] = s[m + 3]
      BY <3>2, <1>1
    <3> QED
      BY <3>1, <3>3 DEF E!Octal
  <2> QED
    BY <2>2, <2>4, <2>5 DEF Stands
<1> QED
  BY <1>2 DEF t

LEMMA ReadsCopy ==
  ASSUME NEW s \in Strings, NEW b \in Strings, NEW w, NEW to, NEW q \in Nat, Reads(s, w, to, q),
         \A k \in 1..Len(b) : b[k] = w[q + k] /\ b[k] # 92
  PROVE  \E to2 : Reads(s \o b, w, to2, q + Len(b))
<1> DEFINE t == s \o b
           l == Len(s)
           n == Len(b)
           to2 == [j \in 1..((q + n) + 1) |-> IF j <= q THEN to[j] ELSE l + (j - q)]
<1>1. /\ l \in Nat /\ n \in Nat /\ Len(t) = l + n
      /\ \A j \in 1..n : t[l + j] = b[j]
  BY Behind
<1>2. \A j \in 1..q : Stands(t, w, to, j)
  BY ReadsStay
<1>3. to \in [1..(q + 1) -> 1..(l + 1)] /\ to[1] = 1 /\ to[q + 1] = l + 1
  BY DEF Reads
<1> HIDE DEF t, l, n
<1>4. \A j \in 1..(q + 1) : to2[j] = to[j]
  <2>1. ASSUME NEW j \in 1..(q + 1) PROVE to2[j] = to[j]
    <3>1. j \in 1..((q + n) + 1)
      BY <1>1
    <3>2. CASE j <= q
      BY <3>1, <3>2
    <3>3. CASE ~(j <= q)
      <4>1. j = q + 1 /\ l + (j - q) = l + 1
        BY <3>3, <1>1
      <4>2. to2[j] = l + (j - q)
        BY <3>1, <3>3
      <4> QED
        BY <4>1, <4>2, <1>3
    <3> QED
      BY <3>2, <3>3
  <2> QED
    BY <2>1
<1>5. \A k \in 1..(n + 1) : to2[q + k] = l + k
  <2>1. ASSUME NEW k \in 1..(n + 1) PROVE to2[q + k] = l + k
    <3>1. PICK j \in 1..((q + n) + 1) : j = q + k /\ ~(j <= q) /\ j - q = k
      <4>1. q + k \in 1..((q + n) + 1) /\ ~(q + k <= q) /\ (q + k) - q = k
        BY <1>1
      <4> QED
        BY <4>1
    <3>2. to2[j] = l + (j - q)
      BY <3>1
    <3> QED
      BY <3>1, <3>2
  <2> QED
    BY <2>1
<1>6. to2 \in [1..((q + n) + 1) -> 1..((l + n) + 1)]
  <2>1. ASSUME NEW j \in 1..((q + n) + 1)
        PROVE  (IF j <= q THEN to[j] ELSE l + (j - q)) \in 1..((l + n) + 1)
    <3>1. CASE j <= q
      <4>1. to[j] \in 1..(l + 1)
        BY <3>1, <1>3
      <4> QED
        BY <3>1, <4>1, <1>1
    <3>2. CASE ~(j <= q)
      BY <3>2, <1>1
    <3> QED
      BY <3>1, <3>2
  <2> QED
    BY <2>1
<1>7. to2[1] = 1 /\ to2[(q + n) + 1] = (l + n) + 1
  <2>1. 1 \in 1..(q + 1) /\ n + 1 \in 1..(n + 1)
    BY <1>1
  <2>2. q + (n + 1) = (q + n) + 1 /\ l + (n + 1) = (l + n) + 1
    BY <1>1
  <2> HIDE DEF to2
  <2>3. to2[q + (n + 1)] = l + (n + 1)
    BY <2>1, <1>5
  <2> QED
    BY <2>1, <2>2, <2>3, <1>3, <1>4
<1> HIDE DEF to2
<1>8. ASSUME NEW j \in 1..(q + n) PROVE Stands(t, w, to2, j)
  <2>1. CASE j <= q
    <3>1. j \in 1..q /\ j \in 1..(q + 1) /\ j + 1 \in 1..(q + 1)
      BY <2>1
    <3>2. to2[j] = to[j] /\ to2[j + 1] = to[j + 1]
      BY <3>1, <1>4
    <3> QED
      BY <3>1, <3>2, <1>2 DEF Stands
  <2>2. CASE ~(j <= q)
    <3>1. PICK k \in 1..n : j = q + k /\ j + 1 = q + (k + 1) /\ k + 1 \in 1..(n + 1) /\ k \in 1..(n + 1)
                             /\ l + (k + 1) = (l + k) + 1
      <4>1. j - q \in 1..n /\ j = q + (j - q) /\ j + 1 = q + ((j - q) + 1)
            /\ (j - q) + 1 \in 1..(n + 1) /\ j - q \in 1..(n + 1)
            /\ l + ((j - q) + 1) = (l + (j - q)) + 1
        BY <2>2, <1>1
      <4> QED
        BY <4>1
    <3>2. to2[j] = l + k /\ to2[j + 1] = (l + k) + 1
      BY <3>1, <1>5
    <3>3. t[l + k] = b[k]
      BY <1>1
    <3>4. b[k] = w[j] /\ b[k] # 92
      BY <3>1 DEF n
    <3> QED
      BY <3>2, <3>3, <3>4 DEF Stands
  <2> QED
    BY <2>1, <2>2
<1>9. Reads(t, w, to2, q + n)
  BY <1>1, <1>6, <1>7, <1>8 DEF Reads, Stands
<1> QED
  BY <1>9 DEF t, n

LEMMA ReadsEscape ==
  ASSUME NEW s \in Strings, NEW b \in Strings, NEW w, NEW to, NEW q \in Nat, Reads(s, w, to, q),
         Len(b) = 4, b[1] = 92, E!Octal(b, 1) = w[q + 1]
  PROVE  \E to2 : Reads(s \o b, w, to2, q + 1)
<1> DEFINE t == s \o b
           l == Len(s)
           h == l + 5
           to2 == [j \in 1..((q + 1) + 1) |-> IF j <= q + 1 THEN to[j] ELSE h]
<1>1. /\ l \in Nat /\ Len(t) = l + 4
      /\ \A j \in 1..4 : t[l + j] = b[j]
  <2>1. /\ Len(s) \in Nat /\ Len(s \o b) = Len(s) + Len(b)
        /\ \A j \in 1..Len(b) : (s \o b)[Len(s) + j] = b[j]
    BY ONLY s \in Strings, b \in Strings, Behind
  <2>2. Len(b) = 4
    OBVIOUS
  <2>3. 1..4 = 1..Len(b)
    BY <2>2
  <2>4. \A j \in 1..4 : (s \o b)[Len(s) + j] = b[j]
    <3> HIDE DEF to2
    <3> QED
      BY ZenonT(30), <2>1, <2>3
  <2> QED
    BY <2>1, <2>2, <2>4
<1>2. \A j \in 1..q : Stands(t, w, to, j)
  BY ReadsStay
<1>3. to \in [1..(q + 1) -> 1..(l + 1)] /\ to[1] = 1 /\ to[q + 1] = l + 1
  BY DEF Reads
<1> HIDE DEF t, l
<1>4. ASSUME NEW j \in 1..(q + 1) PROVE to2[j] = to[j]
  <2>1. j \in 1..((q + 1) + 1)
    OBVIOUS
  <2>2. j <= q + 1
    OBVIOUS
  <2> HIDE DEF h
  <2> QED
    BY <2>1, <2>2
<1>5. to2[(q + 1) + 1] = (l + 4) + 1
  <2>1. (q + 1) + 1 \in 1..((q + 1) + 1) /\ ~((q + 1) + 1 <= q + 1) /\ l + 5 = (l + 4) + 1
    BY <1>1
  <2> QED
    BY <2>1
<1>6. to2 \in [1..((q + 1) + 1) -> 1..((l + 4) + 1)]
  <2>1. ASSUME NEW j \in 1..((q + 1) + 1)
        PROVE  (IF j <= q + 1 THEN to[j] ELSE l + 5) \in 1..((l + 4) + 1)
    <3>1. CASE j <= q + 1
      <4>1. to[j] \in 1..(l + 1)
        BY <3>1, <1>3
      <4> QED
        BY <3>1, <4>1, <1>1
    <3>2. CASE ~(j <= q + 1)
      BY <3>2, <1>1
    <3> QED
      BY <3>1, <3>2
  <2> QED
    BY <2>1
<1>7. to2[1] = 1
  <2>1. 1 \in 1..(q + 1)
    OBVIOUS
  <2> HIDE DEF to2
  <2> QED
    BY <2>1, <1>3, <1>4
<1> HIDE DEF to2
<1>8. ASSUME NEW j \in 1..(q + 1) PROVE Stands(t, w, to2, j)
  <2>1. CASE j <= q
    <3>1. j \in 1..q /\ j \in 1..(q + 1) /\ j + 1 \in 1..(q + 1)
      BY <2>1
    <3>2. to2[j] = to[j] /\ to2[j + 1] = to[j + 1]
      BY <3>1, <1>4
    <3> QED
      BY <3>1, <3>2, <1>2 DEF Stands
  <2>2. CASE ~(j <= q)
    <3>1. j = q + 1 /\ q + 1 \in 1..(q + 1)
      BY <2>2
    <3>2. to2[j] = l + 1 /\ to2[j + 1] = (l + 1) + 4
      <4>1. (l + 4) + 1 = (l + 1) + 4
        BY <1>1
      <4> QED
        BY <3>1, <4>1, <1>3, <1>4, <1>5
    <3>3. t[l + 1] = b[1]
      BY <1>1
    <3>4. E!Octal(t, l + 1) = E!Octal(b, 1)
      <4>1. /\ (l + 1) + 1 = l + 2 /\ (l + 1) + 2 = l + 3 /\ (l + 1) + 3 = l + 4
            /\ 1 + 1 = 2 /\ 1 + 2 = 3 /\ 1 + 3 = 4
        BY <1>1
      <4>2. t[l + 2] = b[2] /\ t[l + 3] = b[3] /\ t[l + 4] = b[4]
        BY <1>1
      <4> QED
        BY <4>1, <4>2 DEF E!Octal
    <3> QED
      BY <3>1, <3>2, <3>3, <3>4 DEF Stands
  <2> QED
    BY <2>1, <2>2
<1>9. Reads(t, w, to2, q + 1)
  BY <1>1, <1>5, <1>6, <1>7, <1>8 DEF Reads, Stands
<1> QED
  BY <1>9 DEF t


-----------------------------------------------------------------------------
(* The invariant of the loop.                                              *)

Fits(o) ==
  o \in Strings /\ (\A k \in 1..Len(o) : o[k] >= 32) /\ \E K : CutsRight(o, K)
Restores(o, w, n) == \E to : Reads(o, w, to, n)
Cleaned == flags.escape_bad_utf8 \/ flags.validate
EscapeRight ==
  /\ input \in Seq(0..255) /\ nread \in 0..Len(input)
  /\ flags \in [escape_bad_utf8 : BOOLEAN, escape_backslash : BOOLEAN, validate : BOOLEAN]
  /\ pc = "begin" => nread = 0 /\ output = <<>>
  /\ pc = "loop" \/ (pc = "done" /\ Cleaned) =>
       Fits(output) /\ (flags.escape_backslash => Restores(output, input, nread))
  /\ pc = "done" /\ Cleaned => nread = Len(input)

LEMMA FitsGrow ==
  ASSUME NEW s, NEW b, Fits(s), Fits(b)
  PROVE  Fits(s \o b)
<1>1. s \in Strings /\ b \in Strings
  BY DEF Fits
<1>2. PICK K, M : CutsRight(s, K) /\ CutsRight(b, M)
  BY DEF Fits
<1>3. \E L : CutsRight(s \o b, L)
  BY <1>1, <1>2, CutsGrow
<1> DEFINE t == s \o b
<1>4. /\ t \in Strings /\ Len(s) \in Nat /\ Len(b) \in Nat /\ Len(t) = Len(s) + Len(b)
      /\ \A j \in 1..Len(s) : t[j] = s[j]
      /\ \A j \in 1..Len(b) : t[Len(s) + j] = b[j]
  BY <1>1, Behind
<1> HIDE DEF t
<1>5. ASSUME NEW k \in 1..Len(t) PROVE t[k] >= 32
  <2>1. CASE k <= Len(s)
    <3>1. k \in 1..Len(s)
      BY <2>1, <1>4
    <3>2. t[k] = s[k] /\ s[k] >= 32
      BY <3>1, <1>4 DEF Fits
    <3> QED
      BY <3>2
  <2>2. CASE ~(k <= Len(s))
    <3>1. PICK j \in 1..Len(b) : k = Len(s) + j
      <4>1. k - Len(s) \in 1..Len(b) /\ k = Len(s) + (k - Len(s))
        BY <2>2, <1>4
      <4> QED
        BY <4>1
    <3>2. t[Len(s) + j] = b[j] /\ b[j] >= 32
      BY <1>4 DEF Fits
    <3> QED
      BY <3>1, <3>2
  <2> QED
    BY <2>1, <2>2
<1> QED
  BY <1>3, <1>4, <1>5 DEF Fits, t

LEMMA FitsEmpty == Fits(<<>>) /\ \A w : Restores(<<>>, w, 0)
<1>1. <<>> \in Strings /\ Len(<<>>) = 0
  BY DEF Strings
<1>2. CutsRight(<<>>, {1})
  BY <1>1 DEF CutsRight
<1>3. Fits(<<>>)
  BY <1>1, <1>2 DEF Fits
<1>4. ASSUME NEW w PROVE Restores(<<>>, w, 0)
  <2> DEFINE to == [j \in 1..(0 + 1) |-> 1]
  <2>1. /\ to \in [1..(0 + 1) -> 1..(0 + 1)] /\ to[1] = 1 /\ to[0 + 1] = 0 + 1
        /\ \A j \in 1..0 : FALSE
    OBVIOUS
  <2> HIDE DEF to
  <2>2. Reads(<<>>, w, to, 0)
    BY <1>1, <2>1 DEF Reads
  <2> QED
    BY <2>2 DEF Restores
<1> QED
  BY <1>3, <1>4

LEMMA Emits ==
  ASSUME EscapeRight, E!Looking, NEW b, NEW n \in Nat, E!Emit(b, n), nread + n <= Len(input), Fits(b),
         flags.escape_backslash => Restores(output \o b, input, nread + n)
  PROVE  EscapeRight'
<1>1. /\ output' = output \o b /\ nread' = nread + n
      /\ input' = input /\ flags' = flags /\ pc' = pc /\ pc = "loop"
  BY DEF E!Emit, E!Looking
<1>2. Fits(output)
  BY <1>1 DEF EscapeRight
<1>3. Fits(output \o b)
  BY <1>2, FitsGrow
<1>4. Len(input) \in Nat
  BY BytesOf DEF EscapeRight
<1>5. nread + n \in 0..Len(input)
  BY <1>4 DEF EscapeRight
<1> QED
  BY <1>1, <1>3, <1>5 DEF EscapeRight

LEMMA EmitsEscape ==
  ASSUME EscapeRight, E!Looking, E!Escape
  PROVE  EscapeRight'
<1>1. /\ input \in Seq(0..255) /\ nread \in 0..Len(input) /\ nread < Len(input)
      /\ Len(input) \in Nat /\ \A k \in 1..Len(input) : input[k] \in 0..255
  BY BytesOf DEF EscapeRight, E!Looking
<1>2. PICK c \in 0..255 : c = input[nread + 1]
  <2>1. nread + 1 \in 1..Len(input)
    BY <1>1
  <2> QED
    BY <1>1, <2>1
<1> DEFINE b == E!octal_escape(c)
<1>3. E!Emit(b, 1)
  BY <1>2 DEF E!Escape, E!Byte
<1>4. /\ b \in Strings /\ Len(b) = 4 /\ b[1] = 92
      /\ \A k \in 1..4 : b[k] \in 32..127
      /\ E!Octal(b, 1) = c
  BY EscapeIs
<1> HIDE DEF b
<1>5. Fits(b)
  <2>1. \A x \in 32..127 : x \in 0..127 /\ x >= 32
    OBVIOUS
  <2>2. \A k \in 1..Len(b) : b[k] \in 0..127 /\ b[k] >= 32
    BY <1>4, <2>1
  <2>3. CutsRight(b, 1..(Len(b) + 1))
    BY <1>4, <2>2, AsciiCut
  <2> QED
    BY <1>4, <2>2, <2>3 DEF Fits
<1>6. flags.escape_backslash => Restores(output \o b, input, nread + 1)
  <2>1. ASSUME flags.escape_backslash PROVE Restores(output \o b, input, nread + 1)
    <3>1. Fits(output) /\ Restores(output, input, nread)
      BY <2>1 DEF EscapeRight, E!Looking
    <3>2. PICK to : Reads(output, input, to, nread)
      BY <3>1 DEF Restores
    <3>3. output \in Strings /\ nread \in Nat
      BY <3>1, <1>1 DEF Fits
    <3>4. \E to2 : Reads(output \o b, input, to2, nread + 1)
      BY <3>2, <3>3, <1>2, <1>4, ReadsEscape
    <3> QED
      BY <3>4 DEF Restores
  <2> QED
    BY <2>1
<1>7. nread + 1 <= Len(input) /\ 1 \in Nat
  BY <1>1
<1> QED
  BY <1>3, <1>5, <1>6, <1>7, Emits

LEMMA EmitsCopy ==
  ASSUME EscapeRight, E!Looking, NEW b, NEW n \in Nat, E!Emit(b, n), nread + n <= Len(input),
         Fits(b), Len(b) = n,
         flags.escape_backslash => \A k \in 1..n : b[k] = input[nread + k] /\ b[k] # 92
  PROVE  EscapeRight'
<1>1. flags.escape_backslash => Restores(output \o b, input, nread + n)
  <2>1. ASSUME flags.escape_backslash PROVE Restores(output \o b, input, nread + n)
    <3>1. Fits(output) /\ Restores(output, input, nread)
      BY <2>1 DEF EscapeRight, E!Looking
    <3>2. PICK to : Reads(output, input, to, nread)
      BY <3>1 DEF Restores
    <3>3. output \in Strings /\ b \in Strings
      BY <3>1 DEF Fits
    <3>4. nread \in Nat
      BY BytesOf DEF EscapeRight
    <3>5. \A k \in 1..Len(b) : b[k] = input[nread + k] /\ b[k] # 92
      BY <2>1
    <3>6. \E to2 : Reads(output \o b, input, to2, nread + Len(b))
      BY <3>2, <3>3, <3>4, <3>5, ReadsCopy
    <3> QED
      BY <3>6 DEF Restores
  <2> QED
    BY <2>1
<1> QED
  BY <1>1, Emits

LEMMA AsciiRight ==
  ASSUME EscapeRight, E!Ascii
  PROVE  EscapeRight'
<1>1. /\ input \in Seq(0..255) /\ nread \in 0..Len(input) /\ nread < Len(input) /\ E!Looking
      /\ Len(input) \in Nat /\ \A k \in 1..Len(input) : input[k] \in 0..255
  BY BytesOf DEF EscapeRight, E!Ascii, E!Looking
<1>2. CASE E!Special(E!Byte(1))
  <2>1. E!Escape
    BY <1>2 DEF E!Ascii
  <2> QED
    BY <1>1, <2>1, EmitsEscape
<1>3. CASE ~E!Special(E!Byte(1))
  <2>1. E!Emit(<<E!Byte(1)>>, 1) /\ E!Byte(1) < 128
    BY <1>3 DEF E!Ascii
  <2>2. PICK c \in 0..255 : c = E!Byte(1) /\ c = input[nread + 1]
    <3>1. nread + 1 \in 1..Len(input)
      BY <1>1
    <3> QED
      BY <1>1, <3>1 DEF E!Byte
  <2>3. c < 128 /\ ~(c < 32) /\ (flags.escape_backslash => c # 92) /\ E!Emit(<<c>>, 1)
    BY <2>1, <2>2, <1>3 DEF E!Special, E!BACKSLASH
  <2> DEFINE b == <<c>>
  <2>4. b \in Strings /\ Len(b) = 1 /\ b[1] = c
    BY DEF Strings
  <2>5. \A k \in 1..1 : k = 1
    OBVIOUS
  <2> HIDE DEF b
  <2>6. c \in 0..127 /\ c >= 32
    BY <2>3
  <2>7. Fits(b)
    <3>1. \A k \in 1..Len(b) : b[k] \in 0..127 /\ b[k] >= 32
      <4>1. 1..Len(b) = 1..1
        BY <2>4
      <4> QED
        BY <2>4, <2>5, <2>6, <4>1
    <3>2. b \in Strings /\ \A k \in 1..Len(b) : b[k] \in 0..127
      BY <2>4, <3>1
    <3>3. CutsRight(b, 1..(Len(b) + 1))
      BY ONLY <3>2, AsciiCut
    <3> QED
      BY <2>4, <3>1, <3>3 DEF Fits
  <2>8. flags.escape_backslash => \A k \in 1..1 : b[k] = input[nread + k] /\ b[k] # 92
    BY <2>2, <2>3, <2>4, <2>5
  <2>9. nread + 1 <= Len(input) /\ 1 \in Nat
    BY <1>1
  <2>10. E!Emit(b, 1)
    BY <2>3 DEF b
  <2> QED
    BY <1>1, <2>4, <2>7, <2>8, <2>9, <2>10, EmitsCopy
<1> QED
  BY <1>2, <1>3

LEMMA CharacterStepRight ==
  ASSUME EscapeRight, E!Character
  PROVE  EscapeRight'
<1>1. /\ input \in Seq(0..255) /\ nread \in 0..Len(input) /\ nread < Len(input) /\ E!Looking
      /\ Len(input) \in Nat /\ \A k \in 1..Len(input) : input[k] \in 0..255
      /\ E!Sequence > 0
  BY BytesOf DEF EscapeRight, E!Character, E!Looking
<1>2. nread \in Nat
  BY <1>1
<1>3. PICK n \in {2, 3} : n = E!Sequence
  BY <1>1, <1>2, SequenceIs
<1>4. /\ nread + n <= Len(input) /\ E!IsCharacter(SubSeq(input, nread + 1, nread + n))
      /\ \A k \in 1..n : input[nread + k] >= 128
  BY <1>1, <1>2, <1>3, SequenceIs
<1> DEFINE b == SubSeq(input, nread + 1, nread + n)
<1>5. E!Emit(b, n)
  BY <1>3 DEF E!Character
<1>6. b \in Strings /\ Len(b) = n /\ \A k \in 1..n : b[k] = input[nread + k]
  <2> DEFINE p == nread + 1
             q == nread + n
  <2>1. p \in Int /\ q \in Int /\ p <= q /\ q - p + 1 = n
    BY <1>2
  <2>2. \A k \in p..q : input[k] \in Nat
    <3>1. \A k \in p..q : k \in 1..Len(input)
      BY <1>1, <1>4
    <3>2. \A x \in 0..255 : x \in Nat
      OBVIOUS
    <3> HIDE DEF p, q
    <3> QED
      BY <1>1, <3>1, <3>2
  <2>3. \A k \in 1..n : p + k - 1 = nread + k
    BY <1>2
  <2> HIDE DEF p, q
  <2>4. /\ SubSeq(input, p, q) \in Seq(Nat)
        /\ Len(SubSeq(input, p, q)) = IF p <= q THEN q - p + 1 ELSE 0
        /\ \A k \in 1..(q - p + 1) : SubSeq(input, p, q)[k] = input[p + k - 1]
    BY <2>1, <2>2, SubSeqProperties
  <2> QED
    BY <2>1, <2>3, <2>4 DEF p, q, Strings
<1> HIDE DEF b
<1>7. \A k \in 1..n : b[k] >= 32 /\ b[k] # 92
  <2>1. ASSUME NEW k \in 1..n PROVE b[k] >= 32 /\ b[k] # 92
    <3>1. b[k] \in Nat /\ b[k] >= 128
      BY <1>4, <1>6, Elements DEF Strings
    <3>2. \A x \in Nat : x >= 128 => x >= 32 /\ x # 92
      OBVIOUS
    <3> QED
      BY <3>1, <3>2
  <2> QED
    BY <2>1
<1>8. Fits(b)
  <2>1. Len(b) \in 1..4 /\ E!IsCharacter(b)
    <3>1. n \in 1..4
      OBVIOUS
    <3>2. E!IsCharacter(b)
      BY <1>4 DEF b
    <3> QED
      BY <1>6, <3>1, <3>2
  <2>2. CutsRight(b, {1, Len(b) + 1})
    BY <1>6, <2>1, CharacterCut
  <2> QED
    BY <1>6, <1>7, <2>2 DEF Fits
<1>9. n \in Nat
  OBVIOUS
<1> QED
  BY <1>1, <1>4, <1>5, <1>6, <1>7, <1>8, <1>9, EmitsCopy

LEMMA EscapeInit == E!ConstantsRight /\ E!Init => EscapeRight
<1> SUFFICES ASSUME E!ConstantsRight, E!Init PROVE EscapeRight
  OBVIOUS
<1>1. /\ input \in Seq(0..255) /\ nread = 0 /\ output = <<>> /\ pc = "begin"
      /\ flags \in [escape_bad_utf8 : BOOLEAN, escape_backslash : BOOLEAN, validate : BOOLEAN]
  BY DEF E!ConstantsRight, E!Init
<1>2. nread \in 0..Len(input)
  BY <1>1, BytesOf
<1> QED
  BY <1>1, <1>2 DEF EscapeRight

LEMMA EscapeNext == EscapeRight /\ [E!Next]_(E!vars) => EscapeRight'
<1> SUFFICES ASSUME EscapeRight, [E!Next]_(E!vars) PROVE EscapeRight'
  OBVIOUS
<1>1. CASE E!Begin
  <2>1. CASE ~flags.escape_bad_utf8 /\ ~flags.escape_backslash /\ ~flags.validate
    BY <1>1, <2>1 DEF E!Begin, EscapeRight, Cleaned
  <2>2. CASE ~(~flags.escape_bad_utf8 /\ ~flags.escape_backslash /\ ~flags.validate)
    <3>1. /\ pc = "begin" /\ pc' = "loop" /\ output' = output /\ input' = input /\ flags' = flags
          /\ nread' = nread
      BY <1>1, <2>2 DEF E!Begin
    <3>2. nread = 0 /\ output = <<>>
      BY <3>1 DEF EscapeRight
    <3>3. Fits(output) /\ Restores(output, input, nread)
      BY <3>2, FitsEmpty
    <3> QED
      BY <3>1, <3>3 DEF EscapeRight, Cleaned
  <2> QED
    BY <2>1, <2>2
<1>2. CASE E!Ascii
  BY <1>2, AsciiRight
<1>3. CASE E!Character
  BY <1>3, CharacterStepRight
<1>4. CASE E!EscapeBad
  <2>1. E!Looking /\ E!Escape
    BY <1>4 DEF E!EscapeBad, E!Bad
  <2> QED
    BY <2>1, EmitsEscape
<1>5. CASE E!Throw
  BY <1>5 DEF E!Throw, EscapeRight
<1>6. CASE E!Return
  <2>1. /\ pc = "loop" /\ pc' = "done" /\ nread = Len(input) /\ output' = output /\ input' = input
        /\ flags' = flags /\ nread' = nread
    BY <1>6 DEF E!Return
  <2> QED
    BY <2>1 DEF EscapeRight, Cleaned
<1>7. CASE UNCHANGED E!vars
  BY <1>7 DEF E!vars, EscapeRight, Cleaned
<1> QED
  BY <1>1, <1>2, <1>3, <1>4, <1>5, <1>6, <1>7 DEF E!Next

LEMMA EscapeFits == EscapeRight => E!FeaturesFit
<1> SUFFICES ASSUME EscapeRight PROVE E!FeaturesFit
  OBVIOUS
<1>1. E!EscapesReversible
  <2>1. ASSUME pc = "done", flags.escape_bad_utf8, flags.escape_backslash
        PROVE  E!Unescaped(output) = input
    <3>1. Fits(output) /\ Restores(output, input, nread) /\ nread = Len(input) /\ input \in Seq(0..255)
      BY <2>1 DEF EscapeRight, Cleaned
    <3>2. PICK to : Reads(output, input, to, Len(input))
      BY <3>1 DEF Restores
    <3> QED
      BY <3>1, <3>2, ReadsBack DEF Fits
  <2> QED
    BY <2>1 DEF E!EscapesReversible
<1>2. E!FitForALine
  <2>1. ASSUME pc = "done", Cleaned
        PROVE  E!IsUtf8(output) /\ \A ch \in E!Bytewise(output) : ch >= 32
    <3>1. Fits(output)
      BY <2>1 DEF EscapeRight
    <3>2. PICK K : CutsRight(output, K)
      BY <3>1 DEF Fits
    <3>3. E!IsUtf8(output)
      BY <3>1, <3>2, CutIsUtf8 DEF Fits
    <3>4. DOMAIN output = 1..Len(output)
      BY <3>1, Elements DEF Fits, Strings
    <3>5. \A ch \in E!Bytewise(output) : ch >= 32
      BY <3>1, <3>4 DEF E!Bytewise, Fits
    <3> QED
      BY <3>3, <3>5
  <2> QED
    BY <2>1 DEF E!FitForALine, Cleaned
<1> QED
  BY <1>1, <1>2 DEF E!FeaturesFit

(* The escaping of a string by itself.                                     *)
THEOREM EscapingRight == E!ConstantsRight /\ E!Spec => []E!FeaturesFit
<1>1. E!ConstantsRight /\ E!Init => EscapeRight
  BY EscapeInit
<1>2. EscapeRight /\ [E!Next]_(E!vars) => EscapeRight'
  BY EscapeNext
<1>3. EscapeRight => E!FeaturesFit
  BY EscapeFits
<1> QED
  BY <1>1, <1>2, <1>3, PTL DEF E!Spec

(* Features and contexts reach the feature file whole and as one field:    *)
(* what validateOrEscapeUTF8 escapes can be read back byte for byte, and   *)
(* what it escapes or validates is UTF-8 without a control character.      *)
THEOREM FeaturesFitHolds == EscapingSpec => []FeaturesFit
<1>1. EscapingInit => EscapeRight
  BY EscapeInit, EscapingAssumption DEF EscapingInit
<1>2. EscapeRight /\ [Escapes]_<<filter, pc, escaping>> => EscapeRight'
  <2> SUFFICES ASSUME EscapeRight, [Escapes]_<<filter, pc, escaping>> PROVE EscapeRight'
    OBVIOUS
  <2>1. CASE Escapes
    BY <2>1, EscapeNext DEF Escapes
  <2>2. CASE UNCHANGED <<filter, pc, escaping>>
    <3>1. UNCHANGED E!vars
      BY <2>2 DEF escaping, E!vars
    <3> QED
      BY <3>1, EscapeNext
  <2> QED
    BY <2>1, <2>2
<1>3. EscapeRight => FeaturesFit
  BY EscapeFits DEF FeaturesFit
<1> QED
  BY <1>1, <1>2, <1>3, PTL DEF EscapingSpec
=============================================================================
