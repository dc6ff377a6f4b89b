-------------------------- MODULE ScannerSetProofs --------------------------
(***************************************************************************)
(* Proofs about ScannerSet, for any number of threads, scanners and sbufs, *)
(* whatever is made from what and however deep it nests.                   *)
(***************************************************************************)
EXTENDS ScannerSet, SequenceTheorems, FiniteSetTheorems, TLAPS

Local(s) == s \in Derived /\ Kind[s] = "local"
Stacks == [Threads -> Seq(CallType)]
UnitType == [sbuf : Sbufs, scanner : Scanners \union {NoScanner}]

(* What holds of every call and of every work unit, given the lives of the *)
(* sbufs and the calls of the scanners.                                    *)
NotScanned(cl, s) == \A sc \in Scanners : cl[s][sc] = 0
Sliceless(lf, s) == \A d \in Derived : Shares(d) /\ Parent[d] = s => lf[d] # "alive"
CallRight(lf, cl, c) ==
  /\ lf[c.sbuf] = "alive"
  /\ c.fn \in {"schedule", "process"} => NotScanned(cl, c.sbuf)
  /\ c.fn \in {"schedule", "process", "each", "scan", "scanning", "release"} => ~Local(c.sbuf)
  /\ c.fn \in {"local", "del", "unref"} => Shares(c.sbuf)
  /\ c.fn \in {"del", "unref"} => Sliceless(lf, c.sbuf)
  /\ c.fn = "local" => Local(c.sbuf)
  /\ c.fn = "schedule" => c.sbuf \in Pages
  /\ c.fn = "each" => c.todo \subseteq Scanners
  /\ c.fn \in {"scan", "scanning"} => c.scanner \in Scanners
  /\ c.fn = "scanning" => /\ cl[c.sbuf][c.scanner] > 0
                          /\ c.todo \subseteq MadeBy(c.sbuf, c.scanner)
UnitRight(lf, cl, u) ==
  /\ lf[u.sbuf] = "alive"
  /\ ~Local(u.sbuf)
  /\ u.scanner = NoScanner => NotScanned(cl, u.sbuf)
AllRight(st, q, lf, cl) ==
  /\ \A t \in Threads : \A i \in 1..Len(st[t]) : CallRight(lf, cl, st[t][i])
  /\ \A j \in 1..Len(q) : UnitRight(lf, cl, q[j])

(* A call that is left waiting goes through scanners or is one of them.    *)
WaitingCalls == {"each", "scanning"}
Waiting(st) == \A t \in Threads : \A i \in 1..(Len(st[t]) - 1) : st[t][i].fn \in WaitingCalls

(* What begins or ends the life of an sbuf is alone with it.               *)
SoleCalls == {"schedule", "process", "local", "del", "unref"}
Sole(st, q) ==
  /\ \A t, u \in Threads : \A i \in 1..Len(st[t]) : \A j \in 1..Len(st[u]) :
       st[t][i].fn \in SoleCalls /\ st[u][j].sbuf = st[t][i].sbuf => u = t /\ j = i
  /\ \A t \in Threads : \A i \in 1..Len(st[t]) : \A j \in 1..Len(q) :
       st[t][i].fn \in SoleCalls \/ q[j].scanner = NoScanner => q[j].sbuf # st[t][i].sbuf
  /\ \A i, j \in 1..Len(q) : q[i].scanner = NoScanner /\ q[j].sbuf = q[i].sbuf => j = i

Control(st, q, lf, cl) == AllRight(st, q, lf, cl) /\ Waiting(st) /\ Sole(st, q)

(* Memory is shared only with what was scanned.                            *)
SharesRight ==
  /\ \A d \in Derived : Shares(d) /\ life[d] # "unborn" => ~NotScanned(calls, Parent[d])
  /\ \A d \in Derived : Shares(d) /\ life[d] = "alive" => life[Parent[d]] = "alive"
  /\ \A s \in Sbufs : Local(s) => NotScanned(calls, s)
Unborn ==
  \A s \in Sbufs : life[s] = "unborn" =>
    /\ NotScanned(calls, s) /\ reference_count[s] = 0 /\ children[s] = 0
    /\ \A i \in 1..Len(abandoned) : abandoned[i] # s

MemInv ==
  /\ TypeOK /\ fault \notin {"children", "assert"}
  /\ Control(stack, work_queue, life, calls)
  /\ SharesRight /\ Unborn /\ ReferencesExact /\ StatsExact

-----------------------------------------------------------------------------
(* Counting.                                                               *)

(* Two sets of numbers, the second moved behind the first.                 *)
Both(m, n, A, B) == {i \in 1..(m + n) : i \in A \/ i - m \in B}

BothCounted(m, n, A, B) ==
  /\ IsFiniteSet(A) /\ IsFiniteSet(B) /\ IsFiniteSet(Both(m, n, A, B))
  /\ Cardinality(Both(m, n, A, B)) = Cardinality(A) + Cardinality(B)

LEMMA CountBoth ==
  ASSUME NEW m \in Nat, NEW n \in Nat, NEW A \in SUBSET (1..m), NEW B \in SUBSET (1..n)
  PROVE  BothCounted(m, n, A, B)
<1> DEFINE C == Both(m, n, A, B)
           M == {i \in (m + 1)..(m + n) : i - m \in B}
           f == [j \in B |-> j + m]
<1>1. IsFiniteSet(A) /\ IsFiniteSet(B) /\ IsFiniteSet(M)
  <2>1. IsFiniteSet(1..m) /\ IsFiniteSet(1..n) /\ IsFiniteSet((m + 1)..(m + n))
    BY FS_Interval
  <2>2. M \in SUBSET ((m + 1)..(m + n))
    OBVIOUS
  <2> HIDE DEF M
  <2> QED
    BY <2>1, <2>2, FS_Subset
<1>2. f \in Bijection(B, M)
  <2>1. \A j \in B : f[j] = j + m /\ f[j] \in M
    OBVIOUS
  <2>2. \A i \in M : i - m \in B /\ f[i - m] = i
    OBVIOUS
  <2>3. \A i, j \in B : f[i] = f[j] => i = j
    BY <2>1
  <2>4. f \in [B -> M]
    BY <2>1
  <2> QED
    BY <2>2, <2>3, <2>4 DEF Bijection, Injection, Surjection, IsInjective
<1>3. Cardinality(M) = Cardinality(B)
  BY <1>1, <1>2, FS_Bijection DEF ExistsBijection
<1>4. C = A \union M /\ A \intersect M = {}
  <2>1. \A i : i \in C <=> i \in A \union M
    <3> SUFFICES ASSUME NEW i PROVE i \in C <=> i \in A \union M
      OBVIOUS
    <3>1. i \in C <=> i \in 1..(m + n) /\ (i \in A \/ i - m \in B)
      BY DEF Both
    <3>2. i \in A => i \in 1..(m + n)
      OBVIOUS
    <3>3. i \in 1..(m + n) /\ i - m \in B => i \in (m + 1)..(m + n)
      OBVIOUS
    <3>4. i \in M <=> i \in (m + 1)..(m + n) /\ i - m \in B
      OBVIOUS
    <3>5. i \in (m + 1)..(m + n) => i \in 1..(m + n)
      OBVIOUS
    <3> HIDE DEF C, M
    <3> QED
      BY <3>1, <3>2, <3>3, <3>4, <3>5
  <2>2. \A i : ~(i \in A /\ i \in M)
    OBVIOUS
  <2> QED
    BY <2>1, <2>2, Zenon
<1>5. IsFiniteSet(C) /\ Cardinality(C) = Cardinality(A) + Cardinality(M)
  <2> HIDE DEF C, M
  <2>1. IsFiniteSet(A \union M)
        /\ Cardinality(A \union M) = Cardinality(A) + Cardinality(M) - Cardinality(A \intersect M)
    BY <1>1, FS_Union
  <2>2. Cardinality(A) \in Nat /\ Cardinality(M) \in Nat /\ Cardinality({}) = 0
    BY <1>1, FS_CardinalityType, FS_EmptySet
  <2>3. IsFiniteSet(C) /\ Cardinality(C) = Cardinality(A) + Cardinality(M) - Cardinality({})
    BY <1>4, <2>1, Zenon
  <2> QED
    BY <2>2, <2>3
<1> QED
  BY <1>1, <1>3, <1>5 DEF BothCounted

Queued(q, S) == {i \in DOMAIN q : q[i].sbuf \in S}
Lost(q, S) == {i \in DOMAIN q : q[i] \in S}
OneIf(P) == IF P THEN 1 ELSE 0

LEMMA QueuedMore ==
  ASSUME NEW q \in Seq(UnitType), NEW u \in UnitType, NEW S
  PROVE  /\ IsFiniteSet(Queued(q, S)) /\ IsFiniteSet(Queued(Append(q, u), S))
         /\ Cardinality(Queued(Append(q, u), S)) =
              Cardinality(Queued(q, S)) + IF u.sbuf \in S THEN 1 ELSE 0
<1> DEFINE r == Append(q, u)
           B == IF u.sbuf \in S THEN {1} ELSE {}
<1>1. /\ Len(q) \in Nat /\ DOMAIN r = 1..(Len(q) + 1) /\ DOMAIN q = 1..Len(q)
      /\ \A i \in 1..Len(q) : r[i] = q[i]
      /\ r[Len(q) + 1] = u
  BY AppendProperties
<1> HIDE DEF r
<1>2. Queued(q, S) \in SUBSET (1..Len(q)) /\ B \in SUBSET (1..1)
  BY <1>1 DEF Queued
<1>3. Queued(r, S) = Both(Len(q), 1, Queued(q, S), B)
  <2> SUFFICES ASSUME NEW i \in 1..(Len(q) + 1)
               PROVE  r[i].sbuf \in S <=> i \in Queued(q, S) \/ i - Len(q) \in B
    BY <1>1 DEF Queued, Both
  <2>1. CASE i \in 1..Len(q)
    BY <1>1, <2>1 DEF Queued
  <2>2. CASE i = Len(q) + 1
    <3>1. i - Len(q) = 1 /\ i \notin 1..Len(q)
      BY <1>1, <2>2
    <3> QED
      BY <1>1, <1>2, <2>2, <3>1
  <2> QED
    BY <1>1, <2>1, <2>2
<1>4. /\ IsFiniteSet(Queued(q, S)) /\ IsFiniteSet(Queued(r, S))
      /\ Cardinality(Queued(r, S)) = Cardinality(Queued(q, S)) + Cardinality(B)
  <2> HIDE DEF B
  <2>1. Len(q) \in Nat /\ 1 \in Nat
    BY <1>1
  <2>2. BothCounted(Len(q), 1, Queued(q, S), B)
    BY <1>2, <2>1, CountBoth
  <2> QED
    BY <1>3, <2>2, Zenon DEF BothCounted
<1>5. Cardinality(B) = IF u.sbuf \in S THEN 1 ELSE 0
  BY FS_Singleton, FS_EmptySet
<1> QED
  BY <1>4, <1>5 DEF r

LEMMA QueuedLess ==
  ASSUME NEW q \in Seq(UnitType), q # <<>>, NEW S
  PROVE  /\ IsFiniteSet(Queued(q, S)) /\ IsFiniteSet(Queued(Tail(q), S))
         /\ Cardinality(Queued(q, S)) =
              Cardinality(Queued(Tail(q), S)) + IF Head(q).sbuf \in S THEN 1 ELSE 0
<1> DEFINE r == Tail(q)
           u == Head(q)
           A == IF u.sbuf \in S THEN {1} ELSE {}
<1>1. /\ Len(q) \in Nat \ {0} /\ DOMAIN q = 1..Len(q) /\ DOMAIN r = 1..(Len(q) - 1)
      /\ u = q[1] /\ \A i \in 1..(Len(q) - 1) : r[i] = q[i + 1]
  BY HeadTailProperties
<1>2. PICK n \in Nat : n = Len(q) - 1 /\ Len(q) = 1 + n
  <2>1. Len(q) - 1 \in Nat /\ Len(q) = 1 + (Len(q) - 1)
    BY <1>1
  <2> QED
    BY <2>1
<1> HIDE DEF r, u
<1>3. A \in SUBSET (1..1) /\ Queued(r, S) \in SUBSET (1..n)
  BY <1>1, <1>2 DEF Queued
<1>4. Queued(q, S) = Both(1, n, A, Queued(r, S))
  <2> SUFFICES ASSUME NEW i \in 1..(1 + n)
               PROVE  q[i].sbuf \in S <=> i \in A \/ i - 1 \in Queued(r, S)
    BY <1>1, <1>2 DEF Queued, Both
  <2>1. CASE i = 1
    <3>1. i - 1 \notin 1..n
      BY <2>1
    <3> QED
      BY <1>1, <1>3, <2>1, <3>1
  <2>2. CASE i \in 2..(1 + n)
    <3>1. i - 1 \in 1..(Len(q) - 1) /\ i - 1 + 1 = i /\ i \notin 1..1
      BY <1>2, <2>2
    <3>2. r[i - 1] = q[i]
      BY <1>1, <3>1
    <3> QED
      BY <1>1, <1>3, <3>1, <3>2 DEF Queued
  <2> QED
    BY <2>1, <2>2
<1>5. /\ IsFiniteSet(Queued(q, S)) /\ IsFiniteSet(Queued(r, S))
      /\ Cardinality(Queued(q, S)) = Cardinality(A) + Cardinality(Queued(r, S))
  <2> HIDE DEF A
  <2>1. BothCounted(1, n, A, Queued(r, S))
    BY <1>2, <1>3, CountBoth, 1 \in Nat
  <2> QED
    BY <1>4, <2>1, Zenon DEF BothCounted
<1>6. Cardinality(A) = IF u.sbuf \in S THEN 1 ELSE 0
  BY FS_Singleton, FS_EmptySet
<1>7. Cardinality(Queued(r, S)) \in Nat
  BY <1>5, FS_CardinalityType
<1> QED
  BY <1>5, <1>6, <1>7 DEF r, u

LEMMA LostMore ==
  ASSUME NEW q \in Seq(Sbufs), NEW r \in Seq(Sbufs), NEW S
  PROVE  /\ IsFiniteSet(Lost(q, S)) /\ IsFiniteSet(Lost(r, S)) /\ IsFiniteSet(Lost(q \o r, S))
         /\ Cardinality(Lost(q \o r, S)) = Cardinality(Lost(q, S)) + Cardinality(Lost(r, S))
<1> DEFINE b == q \o r
<1>1. /\ Len(q) \in Nat /\ Len(r) \in Nat /\ DOMAIN b = 1..(Len(q) + Len(r))
      /\ DOMAIN q = 1..Len(q) /\ DOMAIN r = 1..Len(r)
      /\ \A i \in 1..Len(q) : b[i] = q[i]
      /\ \A i \in (Len(q) + 1)..(Len(q) + Len(r)) :
           b[i] = r[i - Len(q)] /\ i - Len(q) \in 1..Len(r)
  BY ConcatProperties
<1> HIDE DEF b
<1>2. Lost(q, S) \in SUBSET (1..Len(q)) /\ Lost(r, S) \in SUBSET (1..Len(r))
  BY <1>1 DEF Lost
<1>3. Lost(b, S) = Both(Len(q), Len(r), Lost(q, S), Lost(r, S))
  <2> SUFFICES ASSUME NEW i \in 1..(Len(q) + Len(r))
               PROVE  b[i] \in S <=> i \in Lost(q, S) \/ i - Len(q) \in Lost(r, S)
    BY <1>1 DEF Lost, Both
  <2>1. CASE i \in 1..Len(q)
    <3>1. i - Len(q) \notin 1..Len(r)
      BY <1>1, <2>1
    <3> QED
      BY <1>1, <2>1, <3>1 DEF Lost
  <2>2. CASE i \in (Len(q) + 1)..(Len(q) + Len(r))
    <3>1. i \notin 1..Len(q)
      BY <1>1, <2>2
    <3> QED
      BY <1>1, <2>2, <3>1 DEF Lost
  <2> QED
    BY <1>1, <2>1, <2>2
<1>4. BothCounted(Len(q), Len(r), Lost(q, S), Lost(r, S))
  BY <1>1, <1>2, CountBoth
<1> QED
  BY <1>3, <1>4, Zenon DEF BothCounted, b

(* The calls on all stacks that retain an sbuf of S.                       *)
Retained(c, S) == c.sbuf \in S /\ c.fn \in RetainingCalls
Positions(st) == UNION {{t} \X DOMAIN st[t] : t \in Threads}
Held(st, S) == {f \in Positions(st) : Retained(st[f[1]][f[2]], S)}
Above(q, k, S) == {j \in (k + 1)..Len(q) : Retained(q[j], S)}

LEMMA HeldAre ==
  ASSUME NEW st \in Stacks, NEW S
  PROVE  \A f : f \in Held(st, S) <=>
           \E t \in Threads : \E i \in 1..Len(st[t]) : f = <<t, i>> /\ Retained(st[t][i], S)
<1>1. \A t \in Threads : DOMAIN st[t] = 1..Len(st[t])
  BY DEF Stacks
<1>2. \A f : f \in Positions(st) <=> \E t \in Threads : \E i \in 1..Len(st[t]) : f = <<t, i>>
  BY <1>1 DEF Positions
<1> QED
  <2>1. \A f : f \in Held(st, S) <=> f \in Positions(st) /\ Retained(st[f[1]][f[2]], S)
    BY Zenon DEF Held
  <2>2. \A f : \A t \in Threads : \A i \in 1..Len(st[t]) :
          f = <<t, i>> => (Retained(st[f[1]][f[2]], S) <=> Retained(st[t][i], S))
    OBVIOUS
  <2> QED
    BY <1>2, <2>1, <2>2, Zenon

LEMMA HeldFinite ==
  ASSUME NEW st \in Stacks, NEW S
  PROVE  IsFiniteSet(Held(st, S))
<1> DEFINE All == {{t} \X DOMAIN st[t] : t \in Threads}
           g == [t \in Threads |-> {t} \X DOMAIN st[t]]
<1>1. IsFiniteSet(Threads)
  BY ThreadsAssumption, FS_AddElement DEF Threads
<1>2. g \in Surjection(Threads, All)
  BY DEF Surjection
<1>3. IsFiniteSet(All)
  <2> HIDE DEF g, All
  <2> QED
    BY <1>1, <1>2, FS_Surjection
<1>4. ASSUME NEW T \in All PROVE IsFiniteSet(T)
  <2>1. PICK t \in Threads : T = {t} \X DOMAIN st[t]
    OBVIOUS
  <2>2. DOMAIN st[t] = 1..Len(st[t]) /\ Len(st[t]) \in Nat
    BY DEF Stacks
  <2>3. IsFiniteSet(DOMAIN st[t]) /\ IsFiniteSet({t})
    <3>1. IsFiniteSet(1..Len(st[t]))
      BY <2>2, FS_Interval
    <3> QED
      BY <2>2, <3>1, FS_Singleton
  <2> QED
    BY <2>1, <2>3, FS_Product
<1>5. IsFiniteSet(UNION All)
  <2> HIDE DEF All
  <2> QED
    BY <1>3, <1>4, FS_UNION
<1>6. Held(st, S) \in SUBSET UNION All
  BY DEF Held, Positions
<1> HIDE DEF All
<1> QED
  BY <1>5, <1>6, FS_Subset

(* What is left of a stack when it is cut.                                 *)
Cut(st, th, k, rest) ==
  /\ \A t \in Threads \ {th} : rest[t] = st[t]
  /\ Len(rest[th]) = k /\ \A i \in 1..k : rest[th][i] = st[th][i]

LEMMA HeldCut ==
  ASSUME NEW st \in Stacks, NEW rest \in Stacks, NEW th \in Threads,
         NEW k \in 0..Len(st[th]), Cut(st, th, k, rest), NEW S
  PROVE  /\ IsFiniteSet(Above(st[th], k, S))
         /\ Cardinality(Held(st, S)) =
              Cardinality(Held(rest, S)) + Cardinality(Above(st[th], k, S))
<1> DEFINE A == Above(st[th], k, S)
           T == {th} \X A
           f == [j \in A |-> <<th, j>>]
<1>1. Len(st[th]) \in Nat
  BY DEF Stacks
<1>2. IsFiniteSet(A)
  <2>1. IsFiniteSet((k + 1)..Len(st[th]))
    BY <1>1, FS_Interval
  <2>2. A \in SUBSET ((k + 1)..Len(st[th]))
    BY DEF Above
  <2> HIDE DEF A
  <2> QED
    BY <2>1, <2>2, FS_Subset
<1>3. IsFiniteSet(T) /\ Cardinality(T) = Cardinality(A)
  <2> HIDE DEF A
  <2>1. f \in [A -> T]
    OBVIOUS
  <2>2. \A i, j \in A : f[i] = f[j] => i = j
    OBVIOUS
  <2>3. \A p \in T : \E j \in A : f[j] = p
    OBVIOUS
  <2>4. f \in Bijection(A, T)
    BY <2>1, <2>2, <2>3 DEF Bijection, Injection, Surjection, IsInjective
  <2> QED
    BY <1>2, <2>4, FS_Bijection DEF ExistsBijection
<1>4. \A p : p \in Held(st, S) <=> p \in Held(rest, S) \/ p \in T
  <2> SUFFICES ASSUME NEW p PROVE p \in Held(st, S) <=> p \in Held(rest, S) \/ p \in T
    OBVIOUS
  <2>1. p \in T <=> \E i \in (k + 1)..Len(st[th]) : p = <<th, i>> /\ Retained(st[th][i], S)
    BY DEF Above
  <2>2. ASSUME p \in Held(st, S) PROVE p \in Held(rest, S) \/ p \in T
    <3>1t. PICK t \in Threads : \E i \in 1..Len(st[t]) : p = <<t, i>> /\ Retained(st[t][i], S)
      BY <2>2, HeldAre
    <3>1. PICK i \in 1..Len(st[t]) : p = <<t, i>> /\ Retained(st[t][i], S)
      BY <3>1t
    <3>2. CASE t = th /\ i > k
      BY <1>1, <2>1, <3>1, <3>2
    <3>3. CASE ~(t = th /\ i > k)
      <4>1. i \in 1..Len(rest[t]) /\ rest[t][i] = st[t][i]
        BY <1>1, <3>3 DEF Cut
      <4> QED
        BY <3>1, <4>1, HeldAre
    <3> QED
      BY <3>2, <3>3
  <2>3. ASSUME p \in Held(rest, S) PROVE p \in Held(st, S)
    <3>1t. PICK t \in Threads : \E i \in 1..Len(rest[t]) : p = <<t, i>> /\ Retained(rest[t][i], S)
      BY <2>3, HeldAre
    <3>1. PICK i \in 1..Len(rest[t]) : p = <<t, i>> /\ Retained(rest[t][i], S)
      BY <3>1t
    <3>2. i \in 1..Len(st[t]) /\ rest[t][i] = st[t][i]
      BY <1>1 DEF Cut
    <3> QED
      BY <3>1, <3>2, HeldAre
  <2>4. ASSUME p \in T PROVE p \in Held(st, S)
    <3>1. PICK i \in (k + 1)..Len(st[th]) : p = <<th, i>> /\ Retained(st[th][i], S)
      BY <2>1, <2>4
    <3>2. i \in 1..Len(st[th])
      BY <1>1
    <3> QED
      BY <3>1, <3>2, HeldAre
  <2> QED
    BY <2>2, <2>3, <2>4
<1>5. \A p : ~(p \in Held(rest, S) /\ p \in T)
  <2> SUFFICES ASSUME NEW p \in T, p \in Held(rest, S) PROVE FALSE
    OBVIOUS
  <2>1. PICK j \in (k + 1)..Len(st[th]) : p = <<th, j>>
    BY DEF Above
  <2>2t. PICK t \in Threads : \E i \in 1..Len(rest[t]) : p = <<t, i>>
    BY HeldAre
  <2>2. PICK i \in 1..Len(rest[t]) : p = <<t, i>>
    BY <2>2t
  <2>3. t = th /\ i = j
    BY <2>1, <2>2
  <2> QED
    BY <1>1, <2>3 DEF Cut
<1>6. IsFiniteSet(Held(rest, S))
  BY HeldFinite
<1>7. Held(st, S) = Held(rest, S) \union T /\ Held(rest, S) \intersect T = {}
  <2> HIDE DEF T
  <2> QED
    BY <1>4, <1>5
<1> HIDE DEF A, T
<1>8. Cardinality(Held(rest, S) \union T) =
        Cardinality(Held(rest, S)) + Cardinality(T) - Cardinality(Held(rest, S) \intersect T)
  BY <1>3, <1>6, FS_Union
<1>9. Cardinality(Held(st, S)) = Cardinality(Held(rest, S)) + Cardinality(A) - Cardinality({})
  BY <1>3, <1>7, <1>8, Zenon
<1>10. Cardinality(Held(rest, S)) \in Nat /\ Cardinality(A) \in Nat /\ Cardinality({}) = 0
  BY <1>2, <1>6, FS_CardinalityType, FS_EmptySet
<1>11. Cardinality(Held(st, S)) = Cardinality(Held(rest, S)) + Cardinality(A)
  BY <1>9, <1>10
<1> QED
  BY <1>2, <1>11, Zenon DEF A

LEMMA AboveNone ==
  ASSUME NEW q \in Seq(CallType), NEW S
  PROVE  Cardinality(Above(q, Len(q), S)) = 0
<1>1. Above(q, Len(q), S) = {}
  BY DEF Above
<1> QED
  BY <1>1, FS_EmptySet

LEMMA AboveOne ==
  ASSUME NEW q \in Seq(CallType), q # <<>>, NEW S
  PROVE  Cardinality(Above(q, Len(q) - 1, S)) = IF Retained(q[Len(q)], S) THEN 1 ELSE 0
<1>1. Len(q) \in Nat
  OBVIOUS
<1>2. (Len(q) - 1 + 1)..Len(q) = {Len(q)}
  BY <1>1
<1>3. Above(q, Len(q) - 1, S) = IF Retained(q[Len(q)], S) THEN {Len(q)} ELSE {}
  BY <1>2, Zenon DEF Above
<1> QED
  BY <1>3, FS_EmptySet, FS_Singleton

LEMMA AboveTwo ==
  ASSUME NEW q \in Seq(CallType), NEW k \in Nat, Len(q) = k + 2, NEW S
  PROVE  Cardinality(Above(q, k, S)) =
           (IF Retained(q[k + 1], S) THEN 1 ELSE 0) + (IF Retained(q[k + 2], S) THEN 1 ELSE 0)
<1>1. \A j : j \in (k + 1)..Len(q) <=> j = k + 1 \/ j = k + 2
  OBVIOUS
<1>2. \A j : j \in Above(q, k, S) <=> (j = k + 1 \/ j = k + 2) /\ Retained(q[j], S)
  BY <1>1, Zenon DEF Above
<1>3. IsFiniteSet({k + 1}) /\ Cardinality({k + 1}) = 1 /\ k + 2 \notin {k + 1}
  <2>1. IsFiniteSet({k + 1}) /\ Cardinality({k + 1}) = 1
    BY FS_Singleton, Zenon
  <2>2. k + 2 \notin {k + 1}
    OBVIOUS
  <2> QED
    BY <2>1, <2>2
<1>4. CASE Retained(q[k + 1], S) /\ Retained(q[k + 2], S)
  <2>1. Above(q, k, S) = {k + 1} \union {k + 2}
    BY <1>2, <1>4, Zenon
  <2>2. Cardinality({k + 1} \union {k + 2}) = 1 + 1
    BY <1>3, FS_AddElement
  <2> QED
    BY <1>4, <2>1, <2>2
<1>5. CASE Retained(q[k + 1], S) /\ ~Retained(q[k + 2], S)
  <2>1. Above(q, k, S) = {k + 1}
    BY <1>2, <1>5
  <2> QED
    BY <1>3, <1>5, <2>1
<1>6. CASE ~Retained(q[k + 1], S) /\ Retained(q[k + 2], S)
  <2>1. Above(q, k, S) = {k + 2}
    BY <1>2, <1>6
  <2>2. Cardinality({k + 2}) = 1
    BY FS_Singleton, Zenon
  <2> QED
    BY <1>6, <2>1, <2>2
<1>7. CASE ~Retained(q[k + 1], S) /\ ~Retained(q[k + 2], S)
  <2>1. Above(q, k, S) = {}
    BY <1>2, <1>7
  <2> QED
    BY <1>7, <2>1, FS_EmptySet
<1> QED
  BY <1>4, <1>5, <1>6, <1>7

-----------------------------------------------------------------------------
(* What a step does to the stacks: th keeps its first k calls and has n    *)
(* new ones above them.                                                    *)
Changed(th, k, n) ==
  /\ stack' \in Stacks /\ k \in 0..Len(stack[th]) /\ n \in Nat
  /\ \A t \in Threads \ {th} : stack'[t] = stack[t]
  /\ Len(stack'[th]) = k + n
  /\ \A i \in 1..k : stack'[th][i] = stack[th][i]

LEMMA EnterChanges ==
  ASSUME stack \in Stacks, NEW th \in Threads, NEW c \in CallType, Enter(th, c)
  PROVE  Changed(th, Len(stack[th]), 1) /\ stack'[th][Len(stack[th]) + 1] = c
<1>1. stack[th] \in Seq(CallType) /\ Len(stack[th]) \in Nat
  BY DEF Stacks
<1>2. stack'[th] = Append(stack[th], c) /\ \A t \in Threads \ {th} : stack'[t] = stack[t]
  BY DEF Enter, Stacks
<1>3. stack' \in Stacks
  BY <1>1 DEF Enter, Stacks
<1> QED
  BY <1>1, <1>2, <1>3, AppendProperties DEF Changed

FirstOf(q, m) ==
  /\ SubSeq(q, 1, m) \in Seq(CallType) /\ Len(SubSeq(q, 1, m)) = m
  /\ \A i \in 1..m : SubSeq(q, 1, m)[i] = q[i]

LEMMA FirstAre ==
  ASSUME NEW q \in Seq(CallType), NEW m \in 0..Len(q)
  PROVE  FirstOf(q, m)
BY DEF FirstOf

LEMMA BelowIs ==
  ASSUME stack \in Stacks, NEW th \in Threads, stack[th] # <<>>
  PROVE  /\ Len(stack[th]) \in Nat \ {0} /\ stack[th] \in Seq(CallType)
         /\ Top(th) \in CallType /\ Top(th) = stack[th][Len(stack[th])]
         /\ Below(th) \in Seq(CallType) /\ Len(Below(th)) = Len(stack[th]) - 1
         /\ \A i \in 1..Len(stack[th]) - 1 : Below(th)[i] = stack[th][i]
<1> DEFINE q == stack[th]
<1>1. q \in Seq(CallType) /\ q # <<>>
  BY DEF Stacks
<1>2. Top(th) = q[Len(q)] /\ Below(th) = SubSeq(q, 1, Len(q) - 1)
  BY DEF Top, Below
<1> HIDE DEF q
<1>3. Len(q) \in Nat \ {0} /\ q[Len(q)] \in CallType
  BY <1>1
<1>4. /\ SubSeq(q, 1, Len(q) - 1) \in Seq(CallType) /\ Len(SubSeq(q, 1, Len(q) - 1)) = Len(q) - 1
      /\ \A i \in 1..Len(q) - 1 : SubSeq(q, 1, Len(q) - 1)[i] = q[i]
  <2>1. Len(q) - 1 \in 0..Len(q)
    BY <1>3
  <2>2. FirstOf(q, Len(q) - 1)
    BY <1>1, <2>1, FirstAre
  <2> QED
    BY <2>2, Zenon DEF FirstOf
<1> QED
  BY <1>1, <1>2, <1>3, <1>4, Zenon DEF q

LEMMA BecomeChanges ==
  ASSUME stack \in Stacks, NEW th \in Threads, stack[th] # <<>>,
         NEW c \in CallType, Become(th, c)
  PROVE  Changed(th, Len(stack[th]) - 1, 1) /\ stack'[th][Len(stack[th])] = c
<1> DEFINE q == Below(th)
<1>1. /\ Len(stack[th]) \in Nat \ {0}
      /\ q \in Seq(CallType) /\ Len(q) = Len(stack[th]) - 1
      /\ \A i \in 1..Len(stack[th]) - 1 : q[i] = stack[th][i]
  BY BelowIs
<1>2. stack' = [stack EXCEPT ![th] = Append(q, c)]
  BY DEF Become
<1> HIDE DEF q
<1>3. stack'[th] = Append(q, c) /\ \A t \in Threads \ {th} : stack'[t] = stack[t]
  BY <1>2 DEF Stacks
<1>4. stack' \in Stacks
  BY <1>1, <1>2 DEF Stacks
<1> QED
  BY <1>1, <1>3, <1>4, AppendProperties DEF Changed

LEMMA ReturnChanges ==
  ASSUME stack \in Stacks, NEW th \in Threads, stack[th] # <<>>, Return(th)
  PROVE  Changed(th, Len(stack[th]) - 1, 0)
<1> DEFINE q == Below(th)
<1>1. /\ Len(stack[th]) \in Nat \ {0}
      /\ q \in Seq(CallType) /\ Len(q) = Len(stack[th]) - 1
      /\ \A i \in 1..Len(stack[th]) - 1 : q[i] = stack[th][i]
  BY BelowIs
<1>2. stack' = [stack EXCEPT ![th] = q]
  BY DEF Return
<1> HIDE DEF q
<1>3. stack'[th] = q /\ \A t \in Threads \ {th} : stack'[t] = stack[t]
  BY <1>2 DEF Stacks
<1>4. stack' \in Stacks
  BY <1>1, <1>2 DEF Stacks
<1> QED
  BY <1>1, <1>3, <1>4 DEF Changed

LEMMA TwoChange ==
  ASSUME stack \in Stacks, NEW th \in Threads, stack[th] # <<>>,
         NEW c \in CallType, NEW e \in CallType,
         stack' = [stack EXCEPT ![th] = Below(th) \o <<c, e>>]
  PROVE  /\ Changed(th, Len(stack[th]) - 1, 2)
         /\ stack'[th][Len(stack[th])] = c /\ stack'[th][Len(stack[th]) + 1] = e
<1> DEFINE q == Below(th)
           r == q \o <<c, e>>
<1>1. /\ Len(stack[th]) \in Nat \ {0}
      /\ q \in Seq(CallType) /\ Len(q) = Len(stack[th]) - 1
      /\ \A i \in 1..Len(stack[th]) - 1 : q[i] = stack[th][i]
  BY BelowIs
<1>2. stack' = [stack EXCEPT ![th] = r]
  OBVIOUS
<1> HIDE DEF q
<1>3. /\ r \in Seq(CallType) /\ Len(r) = Len(q) + 2 /\ \A i \in 1..Len(q) : r[i] = q[i]
      /\ r[Len(q) + 1] = c /\ r[Len(q) + 2] = e
  BY <1>1
<1> HIDE DEF r
<1>4. stack'[th] = r /\ \A t \in Threads \ {th} : stack'[t] = stack[t]
  BY <1>2 DEF Stacks
<1>5. stack' \in Stacks
  BY <1>2, <1>3 DEF Stacks
<1>6. Len(q) + 1 = Len(stack[th]) /\ Len(q) + 2 = Len(stack[th]) + 1
  BY <1>1
<1> QED
  BY <1>1, <1>3, <1>4, <1>5, <1>6 DEF Changed

(* Where a call is after a step: where it was, or new.                     *)
LEMMA OldOrNew ==
  ASSUME stack \in Stacks, NEW th \in Threads, NEW k, NEW n, Changed(th, k, n),
         NEW t \in Threads, NEW i \in 1..Len(stack'[t])
  PROVE  \/ t = th /\ i > k /\ i <= k + n
         \/ i \in 1..Len(stack[t]) /\ stack'[t][i] = stack[t][i] /\ (t = th => i <= k)
<1>1. Len(stack[th]) \in Nat /\ k \in 0..Len(stack[th]) /\ n \in Nat
  BY DEF Changed, Stacks
<1> QED
  BY <1>1 DEF Changed

LEMMA HeldChanged ==
  ASSUME stack \in Stacks, NEW th \in Threads, NEW k, NEW n, Changed(th, k, n), NEW S
  PROVE  /\ Cardinality(Held(stack', S)) \in Nat /\ Cardinality(Held(stack, S)) \in Nat
         /\ Cardinality(Held(stack', S)) + Cardinality(Above(stack[th], k, S)) =
              Cardinality(Held(stack, S)) + Cardinality(Above(stack'[th], k, S))
         /\ Cardinality(Above(stack[th], k, S)) \in Nat
         /\ Cardinality(Above(stack'[th], k, S)) \in Nat
<1> DEFINE rest == [stack EXCEPT ![th] = SubSeq(stack[th], 1, k)]
<1>1. stack[th] \in Seq(CallType) /\ Len(stack[th]) \in Nat /\ k \in 0..Len(stack[th]) /\ n \in Nat
  BY DEF Changed, Stacks
<1>2. /\ SubSeq(stack[th], 1, k) \in Seq(CallType) /\ Len(SubSeq(stack[th], 1, k)) = k
      /\ \A i \in 1..k : SubSeq(stack[th], 1, k)[i] = stack[th][i]
  BY <1>1
<1>3. rest \in Stacks /\ Cut(stack, th, k, rest)
  <2>1. rest \in Stacks /\ rest[th] = SubSeq(stack[th], 1, k)
        /\ \A t \in Threads \ {th} : rest[t] = stack[t]
    BY <1>2 DEF Stacks
  <2> QED
    BY <1>2, <2>1 DEF Cut
<1> HIDE DEF rest
<1>4. stack' \in Stacks /\ k \in 0..Len(stack'[th]) /\ Cut(stack', th, k, rest)
  BY <1>1, <1>3 DEF Changed, Cut
<1>5. /\ IsFiniteSet(Above(stack[th], k, S))
      /\ Cardinality(Held(stack, S)) =
           Cardinality(Held(rest, S)) + Cardinality(Above(stack[th], k, S))
  BY <1>1, <1>3, HeldCut
<1>6. /\ IsFiniteSet(Above(stack'[th], k, S))
      /\ Cardinality(Held(stack', S)) =
           Cardinality(Held(rest, S)) + Cardinality(Above(stack'[th], k, S))
  BY <1>3, <1>4, HeldCut
<1>7. /\ Cardinality(Held(rest, S)) \in Nat /\ Cardinality(Above(stack[th], k, S)) \in Nat
      /\ Cardinality(Above(stack'[th], k, S)) \in Nat
  BY <1>3, <1>5, <1>6, HeldFinite, FS_CardinalityType
<1> QED
  BY <1>5, <1>6, <1>7

-----------------------------------------------------------------------------
(* What a step does to the retains.                                        *)
One(c, S) == IF Retained(c, S) THEN 1 ELSE 0
OneIn(s, S) == IF s \in S THEN 1 ELSE 0

LEMMA TypedStacks ==
  ASSUME TypeOK
  PROVE  stack \in Stacks /\ work_queue \in Seq(UnitType) /\ abandoned \in Seq(Sbufs)
BY DEF TypeOK, Stacks, UnitType

LEMMA RetainsAre ==
  ASSUME NEW S
  PROVE  /\ Retains(S) = Cardinality(Queued(work_queue, S)) + Cardinality(Held(stack, S))
                         + Cardinality(Lost(abandoned, S))
         /\ Retains(S)' = Cardinality(Queued(work_queue', S)) + Cardinality(Held(stack', S))
                          + Cardinality(Lost(abandoned', S))
BY Zenon DEF Retains, Queued, Held, Lost, Positions, Frames, Frame, Retained

LEMMA QueuedFinite ==
  ASSUME NEW q \in Seq(UnitType), NEW S
  PROVE  IsFiniteSet(Queued(q, S))
<1>1. Queued(q, S) \in SUBSET (1..Len(q)) /\ Len(q) \in Nat
  BY DEF Queued
<1>2. IsFiniteSet(1..Len(q))
  BY <1>1, FS_Interval
<1> QED
  BY <1>1, <1>2, FS_Subset

LEMMA RetainsFinite ==
  ASSUME TypeOK, NEW S
  PROVE  /\ Cardinality(Queued(work_queue, S)) \in Nat
         /\ Cardinality(Held(stack, S)) \in Nat
         /\ Cardinality(Lost(abandoned, S)) \in Nat
         /\ Retains(S) \in Nat
<1>1. stack \in Stacks /\ work_queue \in Seq(UnitType) /\ abandoned \in Seq(Sbufs)
  BY TypedStacks
<1>2. IsFiniteSet(Held(stack, S))
  BY <1>1, HeldFinite
<1>3. IsFiniteSet(Queued(work_queue, S))
  BY <1>1, QueuedFinite
<1>4. IsFiniteSet(Lost(abandoned, S))
  <2>1. Lost(abandoned, S) \in SUBSET (1..Len(abandoned)) /\ Len(abandoned) \in Nat
    BY <1>1 DEF Lost
  <2>2. IsFiniteSet(1..Len(abandoned))
    BY <2>1, FS_Interval
  <2> QED
    BY <2>1, <2>2, FS_Subset
<1>5. /\ Cardinality(Queued(work_queue, S)) \in Nat
      /\ Cardinality(Held(stack, S)) \in Nat
      /\ Cardinality(Lost(abandoned, S)) \in Nat
  BY <1>2, <1>3, <1>4, FS_CardinalityType
<1> QED
  BY <1>5, RetainsAre

(* Nothing, or the top call, is taken off a stack ...                      *)
LEMMA OffTop ==
  ASSUME stack \in Stacks, NEW th \in Threads, NEW S
  PROVE  /\ Cardinality(Above(stack[th], Len(stack[th]), S)) = 0
         /\ stack[th] # <<>> =>
              Cardinality(Above(stack[th], Len(stack[th]) - 1, S)) = One(Top(th), S)
<1>1. stack[th] \in Seq(CallType)
  BY DEF Stacks
<1> QED
  BY <1>1, AboveNone, AboveOne DEF One, Top

(* ... and nothing, one or two calls are put on it.                        *)
OnTopOf(th, k, n, S) ==
  /\ n = 0 => Cardinality(Above(stack'[th], k, S)) = 0
  /\ n = 1 => Cardinality(Above(stack'[th], k, S)) = One(stack'[th][k + 1], S)
  /\ n = 2 => Cardinality(Above(stack'[th], k, S)) =
                One(stack'[th][k + 1], S) + One(stack'[th][k + 2], S)

LEMMA OnTop ==
  ASSUME stack \in Stacks, NEW th \in Threads, NEW k, NEW n, Changed(th, k, n), NEW S
  PROVE  OnTopOf(th, k, n, S)
<1> DEFINE q == stack'[th]
<1>1. q \in Seq(CallType) /\ k \in Nat /\ n \in Nat /\ Len(q) = k + n
  BY DEF Changed, Stacks
<1> HIDE DEF q
<1>2. CASE n = 0
  <2>1. k = Len(q)
    BY <1>1, <1>2
  <2> QED
    BY <1>1, <1>2, <2>1, AboveNone DEF q, OnTopOf
<1>3. CASE n = 1
  <2>1. k = Len(q) - 1 /\ Len(q) = k + 1 /\ q # <<>>
    BY <1>1, <1>3
  <2>2. Cardinality(Above(q, Len(q) - 1, S)) = IF Retained(q[Len(q)], S) THEN 1 ELSE 0
    BY <1>1, <2>1, AboveOne
  <2>3. Cardinality(Above(q, k, S)) = One(q[k + 1], S)
    BY <2>1, <2>2, Zenon DEF One
  <2> QED
    BY <1>3, <2>3 DEF q, OnTopOf
<1>4. CASE n = 2
  <2>1. Cardinality(Above(q, k, S)) = One(q[k + 1], S) + One(q[k + 2], S)
    BY <1>1, <1>4, AboveTwo DEF One
  <2> QED
    BY <1>4, <2>1 DEF q, OnTopOf
<1>5. n \notin {0, 1, 2} => n # 0 /\ n # 1 /\ n # 2
  OBVIOUS
<1> QED
  BY <1>2, <1>3, <1>4, <1>5, Zenon DEF OnTopOf

LEMMA RetainsMoved ==
  ASSUME TypeOK, NEW th \in Threads, NEW k, NEW n, Changed(th, k, n), abandoned' = abandoned,
         NEW S
  PROVE  LET off == Cardinality(Above(stack[th], k, S))
             on == Cardinality(Above(stack'[th], k, S))
         IN /\ work_queue' = work_queue =>
                 Retains(S)' + off = Retains(S) + on /\ Retains(S)' \in Nat
            /\ \A u \in UnitType : work_queue' = Append(work_queue, u) =>
                 /\ Retains(S)' + off = Retains(S) + on + OneIn(u.sbuf, S)
                 /\ Retains(S)' \in Nat
            /\ work_queue # <<>> /\ work_queue' = Tail(work_queue) =>
                 /\ Retains(S)' + off + OneIn(Head(work_queue).sbuf, S) = Retains(S) + on
                 /\ Retains(S)' \in Nat
            /\ off \in Nat /\ on \in Nat /\ Retains(S) \in Nat
<1> DEFINE off == Cardinality(Above(stack[th], k, S))
           on == Cardinality(Above(stack'[th], k, S))
<1>1. stack \in Stacks /\ work_queue \in Seq(UnitType)
  BY TypedStacks
<1>2. /\ Cardinality(Held(stack', S)) \in Nat /\ Cardinality(Held(stack, S)) \in Nat
      /\ Cardinality(Held(stack', S)) + off = Cardinality(Held(stack, S)) + on
      /\ off \in Nat /\ on \in Nat
  BY <1>1, HeldChanged
<1>3. /\ Cardinality(Queued(work_queue, S)) \in Nat /\ Cardinality(Lost(abandoned, S)) \in Nat
      /\ Retains(S) \in Nat
  BY RetainsFinite
<1>4. /\ Retains(S) = Cardinality(Queued(work_queue, S)) + Cardinality(Held(stack, S))
                      + Cardinality(Lost(abandoned, S))
      /\ Retains(S)' = Cardinality(Queued(work_queue', S)) + Cardinality(Held(stack', S))
                       + Cardinality(Lost(abandoned, S))
  BY RetainsAre
<1> HIDE DEF off, on
<1>5. work_queue' = work_queue => Retains(S)' + off = Retains(S) + on /\ Retains(S)' \in Nat
  BY <1>2, <1>3, <1>4
<1>6. ASSUME NEW u \in UnitType, work_queue' = Append(work_queue, u)
      PROVE  Retains(S)' + off = Retains(S) + on + OneIn(u.sbuf, S) /\ Retains(S)' \in Nat
  <2>1. Cardinality(Queued(work_queue', S)) =
          Cardinality(Queued(work_queue, S)) + OneIn(u.sbuf, S)
    BY <1>1, <1>6, QueuedMore DEF OneIn
  <2>2. OneIn(u.sbuf, S) \in Nat
    BY DEF OneIn
  <2> QED
    BY <1>2, <1>3, <1>4, <2>1, <2>2
<1>7. ASSUME work_queue # <<>>, work_queue' = Tail(work_queue)
      PROVE  /\ Retains(S)' + off + OneIn(Head(work_queue).sbuf, S) = Retains(S) + on
             /\ Retains(S)' \in Nat
  <2>1. /\ IsFiniteSet(Queued(work_queue', S))
        /\ Cardinality(Queued(work_queue, S)) =
             Cardinality(Queued(work_queue', S)) + OneIn(Head(work_queue).sbuf, S)
    BY <1>1, <1>7, QueuedLess DEF OneIn
  <2>2. OneIn(Head(work_queue).sbuf, S) \in Nat /\ Cardinality(Queued(work_queue', S)) \in Nat
    BY <2>1, FS_CardinalityType DEF OneIn
  <2> QED
    BY <1>2, <1>3, <1>4, <2>1, <2>2
<1> QED
  BY <1>2, <1>3, <1>5, <1>6, <1>7 DEF off, on

(* The retains move by d, those of s alone.                                *)
RetainsBy(s, d) == \A S : Retains(S)' = Retains(S) + IF s \in S THEN d ELSE 0
RetainsSame == \A S : Retains(S)' = Retains(S)

LeavingOf(st) == {st[f[1]][f[2]].sbuf : f \in {g \in Positions(st) : st[g[1]][g[2]].fn = "unref"}}

LEMMA LeavingIn ==
  ASSUME NEW st \in Stacks, NEW x
  PROVE  x \in LeavingOf(st) <=> \E t \in Threads : \E i \in 1..Len(st[t]) :
           st[t][i].fn = "unref" /\ st[t][i].sbuf = x
<1>1. \A f : f \in Positions(st) <=> \E t \in Threads : \E i \in 1..Len(st[t]) : f = <<t, i>>
  <2>1. \A t \in Threads : DOMAIN st[t] = 1..Len(st[t])
    BY DEF Stacks
  <2> QED
    BY <2>1 DEF Positions
<1>2. x \in LeavingOf(st) <=> \E f \in Positions(st) : st[f[1]][f[2]].fn = "unref"
                                                       /\ st[f[1]][f[2]].sbuf = x
  BY Zenon DEF LeavingOf
<1>3. ASSUME x \in LeavingOf(st)
      PROVE  \E t \in Threads : \E i \in 1..Len(st[t]) :
               st[t][i].fn = "unref" /\ st[t][i].sbuf = x
  <2>1. PICK f \in Positions(st) : st[f[1]][f[2]].fn = "unref" /\ st[f[1]][f[2]].sbuf = x
    BY <1>2, <1>3
  <2>2. PICK t \in Threads : \E i \in 1..Len(st[t]) : f = <<t, i>>
    BY <1>1
  <2>3. PICK i \in 1..Len(st[t]) : f = <<t, i>>
    BY <2>2
  <2>4. f[1] = t /\ f[2] = i
    BY <2>3
  <2> QED
    BY <2>1, <2>4, Zenon
<1>4. ASSUME NEW t \in Threads, NEW i \in 1..Len(st[t]),
             st[t][i].fn = "unref", st[t][i].sbuf = x
      PROVE  x \in LeavingOf(st)
  <2>1. <<t, i>> \in Positions(st) /\ <<t, i>>[1] = t /\ <<t, i>>[2] = i
    BY <1>1
  <2> QED
    BY <1>2, <1>4, <2>1, Zenon
<1> QED
  BY <1>3, <1>4, Zenon

LEMMA LeavingAre ==
  ASSUME stack \in Stacks
  PROVE  /\ \A x : x \in Leaving <=> \E t \in Threads : \E i \in 1..Len(stack[t]) :
                     stack[t][i].fn = "unref" /\ stack[t][i].sbuf = x
         /\ stack' \in Stacks =>
              \A x : x \in Leaving' <=> \E t \in Threads : \E i \in 1..Len(stack'[t]) :
                       stack'[t][i].fn = "unref" /\ stack'[t][i].sbuf = x
<1>1. Leaving = LeavingOf(stack) /\ Leaving' = LeavingOf(stack')
  BY Zenon DEF Leaving, Frames, Frame, LeavingOf, Positions
<1> QED
  BY <1>1, LeavingIn, Zenon

LEMMA LeavingSame ==
  ASSUME stack \in Stacks, NEW th \in Threads, NEW k, NEW n, Changed(th, k, n),
         \A i \in (k + 1)..Len(stack[th]) : stack[th][i].fn # "unref",
         \A i \in (k + 1)..(k + n) : stack'[th][i].fn # "unref"
  PROVE  Leaving' = Leaving
<1>1. stack' \in Stacks /\ Len(stack[th]) \in Nat /\ k \in 0..Len(stack[th]) /\ n \in Nat
  BY DEF Changed, Stacks
<1>2. ASSUME NEW x \in Leaving PROVE x \in Leaving'
  <2>1. PICK t \in Threads : \E i \in 1..Len(stack[t]) :
               stack[t][i].fn = "unref" /\ stack[t][i].sbuf = x
    BY LeavingAre
  <2>2. PICK i \in 1..Len(stack[t]) : stack[t][i].fn = "unref" /\ stack[t][i].sbuf = x
    BY <2>1
  <2>3. i \in 1..Len(stack'[t]) /\ stack'[t][i] = stack[t][i]
    BY <1>1, <2>2 DEF Changed
  <2> QED
    BY <1>1, <2>2, <2>3, LeavingAre
<1>3. ASSUME NEW x \in Leaving' PROVE x \in Leaving
  <2>1. PICK t \in Threads : \E i \in 1..Len(stack'[t]) :
               stack'[t][i].fn = "unref" /\ stack'[t][i].sbuf = x
    BY <1>1, LeavingAre
  <2>2. PICK i \in 1..Len(stack'[t]) : stack'[t][i].fn = "unref" /\ stack'[t][i].sbuf = x
    BY <2>1
  <2>3. i \in 1..Len(stack[t]) /\ stack'[t][i] = stack[t][i]
    BY <1>1, <2>2, OldOrNew
  <2> QED
    BY <2>2, <2>3, LeavingAre
<1> QED
  BY <1>2, <1>3

LEMMA CountsSame ==
  ASSUME ReferencesExact, StatsExact, RetainsSame, Leaving' = Leaving,
         UNCHANGED <<life, reference_count, children, counters>>
  PROVE  ReferencesExact' /\ StatsExact'
<1>1. \A s \in Sbufs : Slices(s)' = Slices(s)
  BY DEF Slices
<1>2. ReferencesExact'
  BY <1>1 DEF ReferencesExact, RetainsSame
<1>3. StatsExact'
  BY DEF StatsExact, RetainsSame, counters
<1> QED
  BY <1>2, <1>3

(* The retains and their counters move by d.                               *)
CountedBy(s, d) ==
  /\ RetainsBy(s, d) /\ UpdateQueueStats(s, d)
  /\ reference_count' = [reference_count EXCEPT ![s] = @ + d]

LEMMA CountsMoved ==
  ASSUME TypeOK, ReferencesExact, StatsExact, NEW s \in Sbufs, NEW d \in Int,
         CountedBy(s, d), Leaving' = Leaving, UNCHANGED <<life, children>>
  PROVE  ReferencesExact' /\ StatsExact'
<1>0. /\ RetainsBy(s, d) /\ UpdateQueueStats(s, d)
      /\ reference_count' = [reference_count EXCEPT ![s] = @ + d]
  BY DEF CountedBy
<1>1. \A r \in Sbufs : Slices(r)' = Slices(r)
  BY DEF Slices
<1>2. ASSUME NEW r \in Sbufs, life[r] = "alive"
      PROVE  /\ reference_count'[r] = Retains({r})' + Cardinality(Slices(r))
             /\ children[r] = Cardinality(Slices(r) \ Leaving)
  <2>1. /\ reference_count[r] = Retains({r}) + Cardinality(Slices(r))
        /\ children[r] = Cardinality(Slices(r) \ Leaving)
    BY <1>2 DEF ReferencesExact
  <2>2. Retains({r}) \in Nat /\ reference_count[r] \in Nat /\ reference_count \in [Sbufs -> Nat]
    BY RetainsFinite DEF TypeOK
  <2>3. IsFiniteSet(Slices(r)) /\ Cardinality(Slices(r)) \in Nat
    <3>1. Slices(r) \in SUBSET Derived /\ IsFiniteSet(Derived)
      BY SbufsAssumption DEF Slices
    <3> QED
      BY <3>1, FS_Subset, FS_CardinalityType
  <2>4. CASE r = s
    <3>1. reference_count'[r] = reference_count[r] + d
      BY <1>0, <2>2, <2>4
    <3>2. Retains({r})' = Retains({r}) + d
      BY <1>0, <2>4 DEF RetainsBy
    <3> QED
      BY <2>1, <2>2, <2>3, <3>1, <3>2
  <2>5. CASE r # s
    <3>1. reference_count'[r] = reference_count[r]
      BY <1>0, <2>2, <2>5
    <3>2. Retains({r})' = Retains({r})
      BY <1>0, <2>2, <2>5 DEF RetainsBy
    <3> QED
      BY <2>1, <3>1, <3>2
  <2> QED
    BY <2>4, <2>5
<1>3. ReferencesExact'
  BY <1>1, <1>2 DEF ReferencesExact
<1>4. StatsExact'
  BY <1>0 DEF StatsExact, RetainsBy, UpdateQueueStats
<1> QED
  BY <1>3, <1>4

-----------------------------------------------------------------------------
(* What Control says survives when calls and units go and come.            *)
CutTo(st, th, k) == [st EXCEPT ![th] = SubSeq(st[th], 1, k)]
PushOn(st, th, c) == [st EXCEPT ![th] = Append(@, c)]

(* No call or unit is about s, or none that must be alone with it.         *)
Absent(st, q, s) ==
  /\ \A t \in Threads : \A i \in 1..Len(st[t]) : st[t][i].sbuf # s
  /\ \A j \in 1..Len(q) : q[j].sbuf # s
Soft(st, q, s) ==
  /\ \A t \in Threads : \A i \in 1..Len(st[t]) : st[t][i].sbuf = s => st[t][i].fn \notin SoleCalls
  /\ \A j \in 1..Len(q) : q[j].sbuf = s => q[j].scanner # NoScanner
Fewer(st2, st) ==
  \A t \in Threads : \A i \in 1..Len(st2[t]) : i \in 1..Len(st[t]) /\ st2[t][i] = st[t][i]

LEMMA CutIs ==
  ASSUME NEW st \in Stacks, NEW th \in Threads, NEW k \in 0..Len(st[th])
  PROVE  /\ CutTo(st, th, k) \in Stacks /\ Fewer(CutTo(st, th, k), st)
         /\ Len(CutTo(st, th, k)[th]) = k
         /\ \A i \in 1..k : CutTo(st, th, k)[th][i] = st[th][i]
         /\ \A t \in Threads \ {th} : CutTo(st, th, k)[t] = st[t]
<1> DEFINE r == CutTo(st, th, k)
           q == SubSeq(st[th], 1, k)
<1>1. st[th] \in Seq(CallType) /\ Len(st[th]) \in Nat /\ k \in Nat
  BY DEF Stacks
<1>2. q \in Seq(CallType) /\ Len(q) = k /\ \A i \in 1..k : q[i] = st[th][i]
  <2>1. FirstOf(st[th], k)
    BY <1>1, FirstAre
  <2> QED
    BY <2>1, Zenon DEF FirstOf
<1>3. r = [st EXCEPT ![th] = q]
  BY DEF CutTo
<1> HIDE DEF q, r
<1>4. r \in Stacks /\ r[th] = q /\ \A t \in Threads \ {th} : r[t] = st[t]
  BY <1>2, <1>3 DEF Stacks
<1>5. Fewer(r, st)
  BY <1>1, <1>2, <1>4 DEF Fewer
<1> QED
  BY <1>2, <1>4, <1>5, Zenon DEF r

LEMMA PushIs ==
  ASSUME NEW st \in Stacks, NEW th \in Threads, NEW c \in CallType
  PROVE  /\ PushOn(st, th, c) \in Stacks /\ Len(PushOn(st, th, c)[th]) = Len(st[th]) + 1
         /\ Len(st[th]) \in Nat
         /\ \A i \in 1..Len(st[th]) : PushOn(st, th, c)[th][i] = st[th][i]
         /\ PushOn(st, th, c)[th][Len(st[th]) + 1] = c
         /\ \A t \in Threads \ {th} : PushOn(st, th, c)[t] = st[t]
<1> DEFINE r == PushOn(st, th, c)
<1>1. st[th] \in Seq(CallType) /\ Len(st[th]) \in Nat
  BY DEF Stacks
<1>2. r[th] = Append(st[th], c) /\ r \in Stacks /\ \A t \in Threads \ {th} : r[t] = st[t]
  BY <1>1 DEF Stacks, PushOn
<1> HIDE DEF r
<1>3. /\ Len(r[th]) = Len(st[th]) + 1 /\ r[th][Len(st[th]) + 1] = c
      /\ \A i \in 1..Len(st[th]) : r[th][i] = st[th][i]
  BY <1>1, <1>2, AppendProperties
<1> QED
  BY <1>1, <1>2, <1>3, Zenon DEF r

LEMMA FewerControl ==
  ASSUME NEW st \in Stacks, NEW st2 \in Stacks, Fewer(st2, st), NEW q, NEW lf, NEW cl,
         Control(st, q, lf, cl)
  PROVE  Control(st2, q, lf, cl)
<1>1. AllRight(st2, q, lf, cl)
  BY DEF Control, AllRight, Fewer
<1>2. Waiting(st2)
  <2> SUFFICES ASSUME NEW t \in Threads, NEW i \in 1..(Len(st2[t]) - 1)
               PROVE  st2[t][i].fn \in WaitingCalls
    BY DEF Waiting
  <2>1. Len(st2[t]) \in Nat /\ Len(st[t]) \in Nat
    BY DEF Stacks
  <2>2. i \in 1..Len(st2[t]) /\ Len(st2[t]) \in 1..Len(st2[t])
    BY <2>1
  <2>3. st2[t][i] = st[t][i] /\ Len(st2[t]) \in 1..Len(st[t])
    BY <2>2 DEF Fewer
  <2>4. i \in 1..(Len(st[t]) - 1)
    BY <2>1, <2>3
  <2> QED
    BY <2>3, <2>4 DEF Control, Waiting
<1>3. Sole(st2, q)
  <2>1. ASSUME NEW t \in Threads, NEW u \in Threads,
               NEW i \in 1..Len(st2[t]), NEW j \in 1..Len(st2[u]),
               st2[t][i].fn \in SoleCalls, st2[u][j].sbuf = st2[t][i].sbuf
        PROVE  u = t /\ j = i
    <3>1. /\ i \in 1..Len(st[t]) /\ st2[t][i] = st[t][i]
          /\ j \in 1..Len(st[u]) /\ st2[u][j] = st[u][j]
      BY DEF Fewer
    <3> QED
      BY <2>1, <3>1 DEF Control, Sole
  <2>2. ASSUME NEW t \in Threads, NEW i \in 1..Len(st2[t]), NEW j \in 1..Len(q),
               st2[t][i].fn \in SoleCalls \/ q[j].scanner = NoScanner
        PROVE  q[j].sbuf # st2[t][i].sbuf
    <3>1. i \in 1..Len(st[t]) /\ st2[t][i] = st[t][i]
      BY DEF Fewer
    <3> QED
      BY <2>2, <3>1 DEF Control, Sole
  <2> QED
    BY <2>1, <2>2 DEF Control, Sole
<1> QED
  BY <1>1, <1>2, <1>3 DEF Control

(* The top call of a stack is left.                                        *)
LEMMA TopControl ==
  ASSUME NEW st \in Stacks, NEW th \in Threads, st[th] # <<>>, NEW q, NEW lf, NEW cl,
         Control(st, q, lf, cl)
  PROVE  LET top == st[th][Len(st[th])]
             r == CutTo(st, th, Len(st[th]) - 1)
         IN /\ r \in Stacks /\ Fewer(r, st) /\ Control(r, q, lf, cl)
            /\ top \in CallType /\ top.sbuf \in Sbufs /\ CallRight(lf, cl, top)
            /\ Soft(r, q, top.sbuf)
            /\ top.fn \in SoleCalls => Absent(r, q, top.sbuf)
            /\ r[th] # <<>> => r[th][Len(r[th])].fn \in WaitingCalls
<1> DEFINE L == Len(st[th])
           top == st[th][L]
           r == CutTo(st, th, L - 1)
<1>1. st[th] \in Seq(CallType) /\ L \in Nat /\ L >= 1 /\ L \in 1..L /\ L - 1 \in 0..L
  BY DEF Stacks
<1>2. top \in CallType
  BY <1>1
<1>3. r \in Stacks /\ Fewer(r, st) /\ Len(r[th]) = L - 1
      /\ \A i \in 1..(L - 1) : r[th][i] = st[th][i]
      /\ \A t \in Threads \ {th} : r[t] = st[t]
  BY <1>1, CutIs
<1> HIDE DEF L, r
<1>4. Control(r, q, lf, cl)
  BY <1>3, FewerControl
<1>5. \A t \in Threads : \A i \in 1..Len(r[t]) :
        /\ i \in 1..Len(st[t]) /\ r[t][i] = st[t][i]
        /\ ~(t = th /\ i = L)
  BY <1>1, <1>3 DEF Fewer
<1>6. CallRight(lf, cl, top)
  BY <1>1 DEF Control, AllRight, L
<1>7. L \in 1..Len(st[th]) /\ top = st[th][L]
  BY <1>1 DEF L
<1>8. Soft(r, q, top.sbuf)
  <2>1. ASSUME NEW t \in Threads, NEW i \in 1..Len(r[t]), r[t][i].sbuf = top.sbuf,
               r[t][i].fn \in SoleCalls
        PROVE  FALSE
    <3>1. i \in 1..Len(st[t]) /\ st[t][i].fn \in SoleCalls /\ st[th][L].sbuf = st[t][i].sbuf
          /\ ~(t = th /\ i = L)
      BY <1>5, <1>7, <2>1
    <3> QED
      BY <1>7, <3>1 DEF Control, Sole
  <2>2. \A j \in 1..Len(q) : q[j].scanner = NoScanner => q[j].sbuf # top.sbuf
    BY <1>7 DEF Control, Sole
  <2> QED
    BY <2>1, <2>2 DEF Soft
<1>9. ASSUME top.fn \in SoleCalls PROVE Absent(r, q, top.sbuf)
  <2>1. ASSUME NEW t \in Threads, NEW i \in 1..Len(r[t]), r[t][i].sbuf = top.sbuf
        PROVE  FALSE
    <3>1. i \in 1..Len(st[t]) /\ st[t][i].sbuf = st[th][L].sbuf /\ ~(t = th /\ i = L)
      BY <1>5, <1>7, <2>1
    <3> QED
      BY <1>7, <1>9, <3>1 DEF Control, Sole
  <2>2. \A j \in 1..Len(q) : q[j].sbuf # top.sbuf
    BY <1>7, <1>9 DEF Control, Sole
  <2> QED
    BY <2>1, <2>2 DEF Absent
<1>10. ASSUME r[th] # <<>> PROVE r[th][Len(r[th])].fn \in WaitingCalls
  <2>1. r[th] \in Seq(CallType)
    BY <1>3 DEF Stacks
  <2>2. Len(r[th]) \in 1..(L - 1)
    BY <1>1, <1>3, <1>10, <2>1
  <2>3. st[th][Len(r[th])].fn \in WaitingCalls
    BY <2>2 DEF Control, Waiting, L
  <2> QED
    BY <1>3, <2>2, <2>3
<1>11. top.sbuf \in Sbufs
  BY <1>2 DEF CallType
<1> QED
  BY <1>2, <1>3, <1>4, <1>6, <1>8, <1>9, <1>10, <1>11 DEF L, r

(* A call is entered.                                                      *)
LEMMA PushControl ==
  ASSUME NEW st \in Stacks, NEW th \in Threads, NEW c \in CallType, NEW q, NEW lf, NEW cl,
         Control(st, q, lf, cl), CallRight(lf, cl, c),
         st[th] # <<>> => st[th][Len(st[th])].fn \in WaitingCalls,
         Soft(st, q, c.sbuf), c.fn \in SoleCalls => Absent(st, q, c.sbuf)
  PROVE  Control(PushOn(st, th, c), q, lf, cl)
<1> DEFINE r == PushOn(st, th, c)
           m == Len(st[th]) + 1
<1>1. /\ r \in Stacks /\ Len(r[th]) = m /\ Len(st[th]) \in Nat
      /\ \A i \in 1..Len(st[th]) : r[th][i] = st[th][i]
      /\ r[th][m] = c
      /\ \A t \in Threads \ {th} : r[t] = st[t]
  BY PushIs
<1>2. m \in Nat /\ m = Len(st[th]) + 1 /\ m \notin 1..Len(st[th])
  BY <1>1
<1> HIDE DEF r, m
<1>3. \A t \in Threads : \A i \in 1..Len(r[t]) :
        \/ t = th /\ i = m /\ r[t][i] = c
        \/ i \in 1..Len(st[t]) /\ r[t][i] = st[t][i]
  BY <1>1, <1>2
<1>4. AllRight(r, q, lf, cl)
  BY <1>3 DEF Control, AllRight
<1>5. Waiting(r)
  <2> SUFFICES ASSUME NEW t \in Threads, NEW i \in 1..(Len(r[t]) - 1)
               PROVE  r[t][i].fn \in WaitingCalls
    BY DEF Waiting
  <2>1. CASE t # th
    BY <1>1, <2>1 DEF Control, Waiting
  <2>2. CASE t = th /\ i = Len(st[th])
    <3>1. st[th] # <<>> /\ r[th][i] = st[th][i]
      BY <1>1, <1>2, <2>2
    <3> QED
      BY <2>2, <3>1
  <2>3. CASE t = th /\ i # Len(st[th])
    <3>1. i \in 1..(Len(st[th]) - 1) /\ r[th][i] = st[th][i]
      BY <1>1, <1>2, <2>3
    <3> QED
      BY <2>3, <3>1 DEF Control, Waiting
  <2> QED
    BY <2>1, <2>2, <2>3
<1>6. Sole(r, q)
  <2>1. ASSUME NEW t \in Threads, NEW u \in Threads, NEW i \in 1..Len(r[t]), NEW j \in 1..Len(r[u]),
               r[t][i].fn \in SoleCalls, r[u][j].sbuf = r[t][i].sbuf
        PROVE  u = t /\ j = i
    <3>1. CASE (t = th /\ i = m /\ r[t][i] = c) /\ (u = th /\ j = m /\ r[u][j] = c)
      BY <3>1
    <3>2. CASE (t = th /\ i = m /\ r[t][i] = c) /\ (j \in 1..Len(st[u]) /\ r[u][j] = st[u][j])
      BY <2>1, <3>2 DEF Absent
    <3>3. CASE (i \in 1..Len(st[t]) /\ r[t][i] = st[t][i]) /\ (u = th /\ j = m /\ r[u][j] = c)
      BY <2>1, <3>3 DEF Soft
    <3>4. CASE (i \in 1..Len(st[t]) /\ r[t][i] = st[t][i]) /\ (j \in 1..Len(st[u]) /\ r[u][j] = st[u][j])
      BY <2>1, <3>4 DEF Control, Sole
    <3> QED
      BY <1>3, <3>1, <3>2, <3>3, <3>4
  <2>2. ASSUME NEW t \in Threads, NEW i \in 1..Len(r[t]), NEW j \in 1..Len(q),
               r[t][i].fn \in SoleCalls \/ q[j].scanner = NoScanner
        PROVE  q[j].sbuf # r[t][i].sbuf
    <3>1. CASE t = th /\ i = m /\ r[t][i] = c
      BY <2>2, <3>1 DEF Soft, Absent
    <3>2. CASE i \in 1..Len(st[t]) /\ r[t][i] = st[t][i]
      BY <2>2, <3>2 DEF Control, Sole
    <3> QED
      BY <1>3, <3>1, <3>2
  <2>3. \A i, j \in 1..Len(q) : q[i].scanner = NoScanner /\ q[j].sbuf = q[i].sbuf => j = i
    BY DEF Control, Sole
  <2> QED
    BY <2>1, <2>2, <2>3 DEF Sole
<1> QED
  BY <1>4, <1>5, <1>6 DEF Control, r

(* ... about an sbuf or about another one.                                 *)
LEMMA PushUses ==
  ASSUME NEW st \in Stacks, NEW th \in Threads, NEW c \in CallType, NEW q, NEW s
  PROVE  /\ Absent(st, q, s) /\ c.sbuf # s => Absent(PushOn(st, th, c), q, s)
         /\ Soft(st, q, s) /\ (c.sbuf = s => c.fn \notin SoleCalls) => Soft(PushOn(st, th, c), q, s)
<1> DEFINE r == PushOn(st, th, c)
           m == Len(st[th]) + 1
<1>1. /\ r \in Stacks /\ Len(r[th]) = m /\ Len(st[th]) \in Nat
      /\ \A i \in 1..Len(st[th]) : r[th][i] = st[th][i]
      /\ r[th][m] = c
      /\ \A t \in Threads \ {th} : r[t] = st[t]
  BY PushIs
<1>2. m = Len(st[th]) + 1
  OBVIOUS
<1> HIDE DEF r, m
<1>3. \A t \in Threads : \A i \in 1..Len(r[t]) :
        \/ t = th /\ i = m /\ r[t][i] = c
        \/ i \in 1..Len(st[t]) /\ r[t][i] = st[t][i]
  BY <1>1, <1>2
<1>4. Absent(st, q, s) /\ c.sbuf # s => Absent(r, q, s)
  BY <1>3 DEF Absent
<1>5. Soft(st, q, s) /\ (c.sbuf = s => c.fn \notin SoleCalls) => Soft(r, q, s)
  BY <1>3 DEF Soft
<1> QED
  BY <1>4, <1>5 DEF r

(* A unit is queued.                                                       *)
LEMMA QueueControl ==
  ASSUME NEW st \in Stacks, NEW q \in Seq(UnitType), NEW u \in UnitType, NEW lf, NEW cl,
         Control(st, q, lf, cl), UnitRight(lf, cl, u),
         Soft(st, q, u.sbuf), u.scanner = NoScanner => Absent(st, q, u.sbuf)
  PROVE  Control(st, Append(q, u), lf, cl)
<1> DEFINE r == Append(q, u)
           m == Len(q) + 1
<1>1. Len(q) \in Nat /\ Len(r) = m /\ r[m] = u /\ \A j \in 1..Len(q) : r[j] = q[j]
  BY AppendProperties
<1>2. m = Len(q) + 1
  OBVIOUS
<1> HIDE DEF r, m
<1>3. \A j \in 1..Len(r) : (j = m /\ r[j] = u) \/ (j \in 1..Len(q) /\ r[j] = q[j])
  BY <1>1, <1>2
<1>4. AllRight(st, r, lf, cl)
  BY <1>3 DEF Control, AllRight
<1>5. Sole(st, r)
  <2>1. \A t, v \in Threads : \A i \in 1..Len(st[t]) : \A j \in 1..Len(st[v]) :
          st[t][i].fn \in SoleCalls /\ st[v][j].sbuf = st[t][i].sbuf => v = t /\ j = i
    BY DEF Control, Sole
  <2>2. ASSUME NEW t \in Threads, NEW i \in 1..Len(st[t]), NEW j \in 1..Len(r),
               st[t][i].fn \in SoleCalls \/ r[j].scanner = NoScanner
        PROVE  r[j].sbuf # st[t][i].sbuf
    <3>1. CASE j = m /\ r[j] = u
      BY <2>2, <3>1 DEF Soft, Absent
    <3>2. CASE j \in 1..Len(q) /\ r[j] = q[j]
      BY <2>2, <3>2 DEF Control, Sole
    <3> QED
      BY <1>3, <3>1, <3>2
  <2>3. ASSUME NEW i \in 1..Len(r), NEW j \in 1..Len(r),
               r[i].scanner = NoScanner, r[j].sbuf = r[i].sbuf
        PROVE  j = i
    <3>1. CASE i = m /\ r[i] = u /\ j = m
      BY <3>1
    <3>2. CASE i = m /\ r[i] = u /\ j \in 1..Len(q) /\ r[j] = q[j]
      BY <2>3, <3>2 DEF Absent
    <3>3. CASE i \in 1..Len(q) /\ r[i] = q[i] /\ j = m /\ r[j] = u
      BY <2>3, <3>3 DEF Soft
    <3>4. CASE i \in 1..Len(q) /\ r[i] = q[i] /\ j \in 1..Len(q) /\ r[j] = q[j]
      BY <2>3, <3>4 DEF Control, Sole
    <3> QED
      BY <1>3, <3>1, <3>2, <3>3, <3>4
  <2> QED
    BY <2>1, <2>2, <2>3 DEF Sole
<1> QED
  BY <1>4, <1>5 DEF Control, r

(* A unit is taken.                                                        *)
LEMMA TailControl ==
  ASSUME NEW st \in Stacks, NEW q \in Seq(UnitType), q # <<>>, NEW lf, NEW cl,
         Control(st, q, lf, cl)
  PROVE  /\ Control(st, Tail(q), lf, cl) /\ Head(q) \in UnitType /\ UnitRight(lf, cl, Head(q))
         /\ Soft(st, Tail(q), Head(q).sbuf)
         /\ Head(q).scanner = NoScanner => Absent(st, Tail(q), Head(q).sbuf)
<1> DEFINE r == Tail(q)
<1>1. Len(q) \in Nat \ {0} /\ Head(q) = q[1] /\ Len(r) = Len(q) - 1 /\ q[1] \in UnitType
      /\ \A i \in 1..(Len(q) - 1) : r[i] = q[i + 1]
  BY HeadTailProperties
<1> HIDE DEF r
<1>2. \A j \in 1..Len(r) : j + 1 \in 1..Len(q) /\ r[j] = q[j + 1] /\ j + 1 # 1
  BY <1>1
<1>3. 1 \in 1..Len(q)
  BY <1>1
<1>4. AllRight(st, r, lf, cl)
  BY <1>2 DEF Control, AllRight
<1>5. Sole(st, r)
  <2>1. ASSUME NEW i \in 1..Len(r), NEW j \in 1..Len(r),
               r[i].scanner = NoScanner, r[j].sbuf = r[i].sbuf
        PROVE  j = i
    <3>1. j + 1 = i + 1
      BY <1>2, <2>1 DEF Control, Sole
    <3> QED
      BY <1>1, <3>1
  <2>2. \A t \in Threads : \A i \in 1..Len(st[t]) : \A j \in 1..Len(r) :
          st[t][i].fn \in SoleCalls \/ r[j].scanner = NoScanner => r[j].sbuf # st[t][i].sbuf
    BY <1>2 DEF Control, Sole
  <2> QED
    BY <2>1, <2>2 DEF Control, Sole
<1>6. Soft(st, r, q[1].sbuf)
  <2>1. ASSUME NEW j \in 1..Len(r), r[j].sbuf = q[1].sbuf, r[j].scanner = NoScanner PROVE FALSE
    BY <1>2, <1>3, <2>1 DEF Control, Sole
  <2> QED
    BY <1>3, <2>1 DEF Control, Sole, Soft
<1>7. q[1].scanner = NoScanner => Absent(st, r, q[1].sbuf)
  <2>1. ASSUME NEW j \in 1..Len(r), r[j].sbuf = q[1].sbuf, q[1].scanner = NoScanner PROVE FALSE
    BY <1>2, <1>3, <2>1 DEF Control, Sole
  <2> QED
    BY <1>3, <2>1 DEF Control, Sole, Absent
<1> QED
  BY <1>1, <1>3, <1>4, <1>5, <1>6, <1>7 DEF Control, r, AllRight

(* Sbufs are born, deleted or scanned.                                     *)
LEMMA AgeControl ==
  ASSUME NEW st \in Stacks, NEW q \in Seq(UnitType), NEW lf, NEW cl, NEW lf2, NEW cl2,
         Control(st, q, lf, cl),
         \A s \in Sbufs : lf[s] = "alive" => lf2[s] = "alive" \/ Absent(st, q, s),
         \A s \in Sbufs : \/ cl2[s] = cl[s]
                          \/ Soft(st, q, s) /\ \A sc \in Scanners : cl[s][sc] > 0 => cl2[s][sc] > 0,
         \A d \in Derived : Shares(d) /\ lf2[d] = "alive" /\ lf[d] # "alive" =>
           \A t \in Threads : \A i \in 1..Len(st[t]) :
             st[t][i].sbuf = Parent[d] => st[t][i].fn \notin {"del", "unref"}
  PROVE  Control(st, q, lf2, cl2)
<1>1. ASSUME NEW t \in Threads, NEW i \in 1..Len(st[t]) PROVE CallRight(lf2, cl2, st[t][i])
  <2>1. st[t][i] \in CallType
    BY DEF Stacks
  <2>2. PICK c \in CallType : c = st[t][i]
    BY <2>1
  <2>3. c.sbuf \in Sbufs
    BY DEF CallType
  <2>4. CallRight(lf, cl, c)
    BY <2>2 DEF Control, AllRight
  <2>5. lf[c.sbuf] = "alive" /\ lf2[c.sbuf] = "alive"
    BY <2>2, <2>3, <2>4 DEF CallRight, Absent
  <2>6. c.fn \in {"schedule", "process"} => NotScanned(cl2, c.sbuf)
    BY <2>2, <2>3, <2>4 DEF CallRight, Soft, SoleCalls, NotScanned
  <2>7. c.fn \in {"del", "unref"} => Sliceless(lf2, c.sbuf)
    BY <2>2, <2>4 DEF CallRight, Sliceless
  <2>8. c.fn = "scanning" => cl2[c.sbuf][c.scanner] > 0
    BY <2>3, <2>4 DEF CallRight
  <2>9. CallRight(lf2, cl2, c)
    BY <2>4, <2>5, <2>6, <2>7, <2>8 DEF CallRight
  <2> QED
    BY <2>2, <2>9
<1>2. ASSUME NEW j \in 1..Len(q) PROVE UnitRight(lf2, cl2, q[j])
  <2>1. q[j].sbuf \in Sbufs /\ UnitRight(lf, cl, q[j])
    <3>1. q[j] \in UnitType
      OBVIOUS
    <3>2. q[j].sbuf \in Sbufs
      BY <3>1 DEF UnitType
    <3> QED
      BY <3>2 DEF Control, AllRight
  <2>2. lf2[q[j].sbuf] = "alive"
    BY <2>1 DEF UnitRight, Absent
  <2>3. q[j].scanner = NoScanner => NotScanned(cl2, q[j].sbuf)
    BY <2>1 DEF UnitRight, Soft, NotScanned
  <2> QED
    BY <2>1, <2>2, <2>3 DEF UnitRight
<1> QED
  BY <1>1, <1>2 DEF Control, AllRight

-----------------------------------------------------------------------------
(* The shapes of the steps.                                                *)

(* The stacks without the top call of th.                                  *)
Base(th) == CutTo(stack, th, Len(stack[th]) - 1)
Weight(c) == IF c.fn \in RetainingCalls THEN 1 ELSE 0

LEMMA TopIs ==
  ASSUME MemInv, NEW th \in Threads, stack[th] # <<>>
  PROVE  /\ stack \in Stacks /\ work_queue \in Seq(UnitType) /\ abandoned \in Seq(Sbufs)
         /\ Top(th) \in CallType /\ Top(th).sbuf \in Sbufs /\ CallRight(life, calls, Top(th))
         /\ Base(th) \in Stacks /\ Fewer(Base(th), stack)
         /\ Control(Base(th), work_queue, life, calls)
         /\ Soft(Base(th), work_queue, Top(th).sbuf)
         /\ Top(th).fn \in SoleCalls => Absent(Base(th), work_queue, Top(th).sbuf)
         /\ Base(th)[th] # <<>> => Base(th)[th][Len(Base(th)[th])].fn \in WaitingCalls
<1>1. stack \in Stacks /\ work_queue \in Seq(UnitType) /\ abandoned \in Seq(Sbufs)
  BY TypedStacks DEF MemInv
<1>2. Control(stack, work_queue, life, calls)
  BY DEF MemInv
<1> QED
  BY <1>1, <1>2, TopControl, Zenon DEF Base, Top

LEMMA ShapeIs ==
  ASSUME stack \in Stacks, NEW th \in Threads
  PROVE  /\ \A c : Enter(th, c) => stack' = PushOn(stack, th, c)
         /\ \A c : Become(th, c) => stack' = PushOn(Base(th), th, c)
         /\ Return(th) => stack' = Base(th)
<1>1. ASSUME NEW c, Become(th, c) PROVE stack' = PushOn(Base(th), th, c)
  <2>1. stack' = [stack EXCEPT ![th] = Append(Below(th), c)]
    BY <1>1 DEF Become
  <2>2. Base(th) = [stack EXCEPT ![th] = Below(th)]
    BY DEF Base, CutTo, Below
  <2> QED
    BY <2>1, <2>2 DEF PushOn, Stacks
<1>2. Return(th) => stack' = Base(th)
  BY DEF Return, Base, CutTo, Below
<1>3. \A c : Enter(th, c) => stack' = PushOn(stack, th, c)
  BY DEF Enter, PushOn
<1> QED
  BY <1>1, <1>2, <1>3

LEMMA TwoShape ==
  ASSUME stack \in Stacks, NEW th \in Threads, stack[th] # <<>>,
         NEW c \in CallType, NEW e \in CallType,
         stack' = [stack EXCEPT ![th] = Below(th) \o <<c, e>>]
  PROVE  stack' = PushOn(PushOn(Base(th), th, c), th, e)
<1> DEFINE q == Below(th)
<1>1. q \in Seq(CallType)
  BY BelowIs
<1>2. Base(th) = [stack EXCEPT ![th] = q]
  BY DEF Base, CutTo, Below
<1>3. stack' = [stack EXCEPT ![th] = q \o <<c, e>>]
  OBVIOUS
<1> HIDE DEF q
<1>4. q \o <<c, e>> = Append(Append(q, c), e)
  BY <1>1
<1>5. stack' = [stack EXCEPT ![th] = Append(Append(q, c), e)]
  BY <1>3, <1>4
<1> QED
  BY <1>2, <1>5 DEF PushOn, Stacks

(* What they do to the retains: a call becomes another one, or returns,    *)
LEMMA BecomeRetains ==
  ASSUME TypeOK, NEW th \in Threads, stack[th] # <<>>, NEW c \in CallType, Become(th, c),
         c.sbuf = Top(th).sbuf, abandoned' = abandoned
  PROVE  /\ work_queue' = work_queue => RetainsBy(c.sbuf, Weight(c) - Weight(Top(th)))
         /\ \A u \in UnitType :
              work_queue' = Append(work_queue, u) /\ Weight(c) = Weight(Top(th)) =>
                RetainsBy(u.sbuf, 1)
<1> DEFINE k == Len(stack[th]) - 1
<1>1. stack \in Stacks
  BY TypedStacks
<1>2. Changed(th, k, 1) /\ stack'[th][k + 1] = c
  <2>1. Len(stack[th]) \in Nat
    BY <1>1 DEF Stacks
  <2> QED
    BY <1>1, <2>1, BecomeChanges
<1>3. ASSUME NEW S
      PROVE  /\ work_queue' = work_queue =>
                  Retains(S)' = Retains(S) + IF c.sbuf \in S THEN Weight(c) - Weight(Top(th)) ELSE 0
             /\ \A u \in UnitType :
                  work_queue' = Append(work_queue, u) /\ Weight(c) = Weight(Top(th)) =>
                    Retains(S)' = Retains(S) + IF u.sbuf \in S THEN 1 ELSE 0
  <2>1. Cardinality(Above(stack[th], k, S)) = One(Top(th), S)
    BY <1>1, OffTop
  <2>2. Cardinality(Above(stack'[th], k, S)) = One(c, S)
    <3>1. Cardinality(Above(stack'[th], k, S)) = One(stack'[th][k + 1], S)
      <4>1. OnTopOf(th, k, 1, S)
        BY <1>1, <1>2, OnTop
      <4> QED
        BY <4>1, Zenon DEF OnTopOf
    <3> HIDE DEF k
    <3> QED
      BY <1>2, <3>1, Zenon
  <2>3. LET off == Cardinality(Above(stack[th], k, S))
            on == Cardinality(Above(stack'[th], k, S))
        IN /\ work_queue' = work_queue =>
                Retains(S)' + off = Retains(S) + on /\ Retains(S)' \in Nat
           /\ \A u \in UnitType : work_queue' = Append(work_queue, u) =>
                Retains(S)' + off = Retains(S) + on + OneIn(u.sbuf, S) /\ Retains(S)' \in Nat
           /\ off \in Nat /\ on \in Nat /\ Retains(S) \in Nat
    BY <1>2, RetainsMoved
  <2>4. /\ One(c, S) = IF c.sbuf \in S THEN Weight(c) ELSE 0
        /\ One(Top(th), S) = IF c.sbuf \in S THEN Weight(Top(th)) ELSE 0
        /\ Weight(c) \in Nat /\ Weight(Top(th)) \in Nat
    BY DEF One, Retained, Weight
  <2> HIDE DEF k
  <2> QED
    BY <2>1, <2>2, <2>3, <2>4 DEF OneIn
<1> QED
  BY <1>3 DEF RetainsBy

LEMMA ReturnRetains ==
  ASSUME TypeOK, NEW th \in Threads, stack[th] # <<>>, Return(th), abandoned' = abandoned
  PROVE  /\ work_queue' = work_queue => RetainsBy(Top(th).sbuf, - Weight(Top(th)))
         /\ \A u \in UnitType :
              work_queue' = Append(work_queue, u) /\ Weight(Top(th)) = 0 => RetainsBy(u.sbuf, 1)
<1> DEFINE k == Len(stack[th]) - 1
<1>1. stack \in Stacks
  BY TypedStacks
<1>2. Changed(th, k, 0)
  BY <1>1, ReturnChanges
<1>3. ASSUME NEW S
      PROVE  /\ work_queue' = work_queue =>
                  Retains(S)' = Retains(S) + IF Top(th).sbuf \in S THEN - Weight(Top(th)) ELSE 0
             /\ \A u \in UnitType :
                  work_queue' = Append(work_queue, u) /\ Weight(Top(th)) = 0 =>
                    Retains(S)' = Retains(S) + IF u.sbuf \in S THEN 1 ELSE 0
  <2>1. Cardinality(Above(stack[th], k, S)) = One(Top(th), S)
    BY <1>1, OffTop
  <2>2. Cardinality(Above(stack'[th], k, S)) = 0
    BY <1>1, <1>2, OnTop, Zenon DEF OnTopOf
  <2>3. LET off == Cardinality(Above(stack[th], k, S))
            on == Cardinality(Above(stack'[th], k, S))
        IN /\ work_queue' = work_queue =>
                Retains(S)' + off = Retains(S) + on /\ Retains(S)' \in Nat
           /\ \A u \in UnitType : work_queue' = Append(work_queue, u) =>
                Retains(S)' + off = Retains(S) + on + OneIn(u.sbuf, S) /\ Retains(S)' \in Nat
           /\ off \in Nat /\ on \in Nat /\ Retains(S) \in Nat
    BY <1>2, RetainsMoved
  <2>4. /\ One(Top(th), S) = IF Top(th).sbuf \in S THEN Weight(Top(th)) ELSE 0
        /\ Weight(Top(th)) \in Nat
    BY DEF One, Retained, Weight
  <2> HIDE DEF k
  <2> QED
    BY <2>1, <2>2, <2>3, <2>4 DEF OneIn
<1> QED
  BY <1>3 DEF RetainsBy

(* another call is put on top of it,                                       *)
LEMMA TwoRetain ==
  ASSUME TypeOK, NEW th \in Threads, stack[th] # <<>>,
         NEW c \in CallType, NEW e \in CallType,
         stack' = [stack EXCEPT ![th] = Below(th) \o <<c, e>>],
         c.sbuf = Top(th).sbuf, Weight(c) = Weight(Top(th)),
         abandoned' = abandoned, work_queue' = work_queue
  PROVE  RetainsBy(e.sbuf, Weight(e))
<1>k. PICK k : k = Len(stack[th]) - 1
  OBVIOUS
<1>1. stack \in Stacks
  BY TypedStacks
<1>2. Changed(th, k, 2) /\ stack'[th][k + 1] = c /\ stack'[th][k + 2] = e
  <2>1. Len(stack[th]) \in Nat
    BY <1>1 DEF Stacks
  <2>2. k + 1 = Len(stack[th]) /\ k + 2 = Len(stack[th]) + 1
    BY <1>k, <2>1
  <2>3. /\ Changed(th, Len(stack[th]) - 1, 2)
        /\ stack'[th][Len(stack[th])] = c /\ stack'[th][Len(stack[th]) + 1] = e
    BY <1>1, TwoChange
  <2> QED
    BY <1>k, <2>2, <2>3
<1>2a. Changed(th, k, 2)
  BY <1>2
<1>3. ASSUME NEW S PROVE Retains(S)' = Retains(S) + IF e.sbuf \in S THEN Weight(e) ELSE 0
  <2>1. Cardinality(Above(stack[th], k, S)) = One(Top(th), S)
    BY <1>k, <1>1, OffTop
  <2>2. Cardinality(Above(stack'[th], k, S)) = One(c, S) + One(e, S)
    <3>1. Cardinality(Above(stack'[th], k, S)) = One(stack'[th][k + 1], S) + One(stack'[th][k + 2], S)
      <4>1. OnTopOf(th, k, 2, S)
        BY <1>1, <1>2a, OnTop
      <4> QED
        BY <4>1, Zenon DEF OnTopOf
    <3> QED
      BY <1>2, <3>1, Zenon
  <2>3. LET off == Cardinality(Above(stack[th], k, S))
            on == Cardinality(Above(stack'[th], k, S))
        IN /\ Retains(S)' + off = Retains(S) + on /\ Retains(S)' \in Nat
           /\ off \in Nat /\ on \in Nat /\ Retains(S) \in Nat
    BY <1>2a, RetainsMoved
  <2>4. /\ One(c, S) = One(Top(th), S) /\ One(c, S) \in Nat
        /\ One(e, S) = IF e.sbuf \in S THEN Weight(e) ELSE 0
        /\ Weight(e) \in Nat
    BY DEF One, Retained, Weight
  <2> QED
    BY <2>1, <2>2, <2>3, <2>4
<1> QED
  BY <1>3 DEF RetainsBy

(* or one is entered, for a work unit or not.                              *)
LEMMA EnterRetains ==
  ASSUME TypeOK, NEW th \in Threads, NEW c \in CallType, Enter(th, c), abandoned' = abandoned
  PROVE  /\ work_queue' = work_queue => RetainsBy(c.sbuf, Weight(c))
         /\ work_queue # <<>> /\ work_queue' = Tail(work_queue)
            /\ Weight(c) = 1 /\ c.sbuf = Head(work_queue).sbuf => RetainsSame
<1> DEFINE k == Len(stack[th])
<1>1. stack \in Stacks
  BY TypedStacks
<1>2. Changed(th, k, 1) /\ stack'[th][k + 1] = c
  BY <1>1, EnterChanges
<1>3. ASSUME NEW S
      PROVE  /\ work_queue' = work_queue =>
                  Retains(S)' = Retains(S) + IF c.sbuf \in S THEN Weight(c) ELSE 0
             /\ work_queue # <<>> /\ work_queue' = Tail(work_queue)
                /\ Weight(c) = 1 /\ c.sbuf = Head(work_queue).sbuf => Retains(S)' = Retains(S)
  <2>1. Cardinality(Above(stack[th], k, S)) = 0
    BY <1>1, OffTop
  <2>2. Cardinality(Above(stack'[th], k, S)) = One(c, S)
    <3>1. Cardinality(Above(stack'[th], k, S)) = One(stack'[th][k + 1], S)
      <4>1. OnTopOf(th, k, 1, S)
        BY <1>1, <1>2, OnTop
      <4> QED
        BY <4>1, Zenon DEF OnTopOf
    <3> HIDE DEF k
    <3> QED
      BY <1>2, <3>1, Zenon
  <2>3. LET off == Cardinality(Above(stack[th], k, S))
            on == Cardinality(Above(stack'[th], k, S))
        IN /\ work_queue' = work_queue =>
                Retains(S)' + off = Retains(S) + on /\ Retains(S)' \in Nat
           /\ work_queue # <<>> /\ work_queue' = Tail(work_queue) =>
                Retains(S)' + off + OneIn(Head(work_queue).sbuf, S) = Retains(S) + on
                /\ Retains(S)' \in Nat
           /\ off \in Nat /\ on \in Nat /\ Retains(S) \in Nat
    BY <1>2, RetainsMoved
  <2>4. One(c, S) = (IF c.sbuf \in S THEN Weight(c) ELSE 0) /\ Weight(c) \in Nat
    BY DEF One, Retained, Weight
  <2> HIDE DEF k
  <2> QED
    BY <2>1, <2>2, <2>3, <2>4 DEF OneIn
<1> QED
  BY <1>3 DEF RetainsBy, RetainsSame

(* No sbuf starts or stops leaving its parent.                             *)
LEMMA LeavingBecome ==
  ASSUME stack \in Stacks, NEW th \in Threads, stack[th] # <<>>, Top(th).fn # "unref"
  PROVE  /\ \A c \in CallType : Become(th, c) /\ c.fn # "unref" => Leaving' = Leaving
         /\ Return(th) => Leaving' = Leaving
         /\ \A c, e \in CallType :
              stack' = [stack EXCEPT ![th] = Below(th) \o <<c, e>>]
              /\ c.fn # "unref" /\ e.fn # "unref" => Leaving' = Leaving
<1>k. PICK k : k = Len(stack[th]) - 1
  OBVIOUS
<1>1. Len(stack[th]) \in Nat /\ k + 1 = Len(stack[th]) /\ k + 2 = Len(stack[th]) + 1
      /\ k \in Int /\ Top(th) = stack[th][k + 1]
  BY <1>k DEF Stacks, Top
<1>2. \A i \in (k + 1)..Len(stack[th]) : stack[th][i].fn # "unref"
  BY <1>1
<1>3. ASSUME NEW c \in CallType, Become(th, c), c.fn # "unref" PROVE Leaving' = Leaving
  <2>1. Changed(th, k, 1) /\ stack'[th][k + 1] = c
    BY <1>k, <1>1, <1>3, BecomeChanges
  <2>2. \A i \in (k + 1)..(k + 1) : stack'[th][i].fn # "unref"
    BY <1>1, <1>3, <2>1
  <2> QED
    BY <1>2, <2>1, <2>2, LeavingSame
<1>4. ASSUME Return(th) PROVE Leaving' = Leaving
  <2>1. Changed(th, k, 0)
    BY <1>k, <1>4, ReturnChanges
  <2>2. \A i \in (k + 1)..(k + 0) : stack'[th][i].fn # "unref"
    BY <1>1
  <2> QED
    BY <1>2, <2>1, <2>2, LeavingSame
<1>5. ASSUME NEW c \in CallType, NEW e \in CallType, c.fn # "unref", e.fn # "unref",
             stack' = [stack EXCEPT ![th] = Below(th) \o <<c, e>>]
      PROVE  Leaving' = Leaving
  <2>1. /\ Changed(th, Len(stack[th]) - 1, 2)
        /\ stack'[th][Len(stack[th])] = c /\ stack'[th][Len(stack[th]) + 1] = e
    BY <1>5, TwoChange
  <2>2. Changed(th, k, 2) /\ stack'[th][k + 1] = c /\ stack'[th][k + 2] = e
    BY <1>k, <1>1, <2>1
  <2>3. \A i \in (k + 1)..(k + 2) : i = k + 1 \/ i = k + 2
    BY <1>1
  <2>4. \A i \in (k + 1)..(k + 2) : stack'[th][i].fn # "unref"
    BY <1>5, <2>2, <2>3
  <2> QED
    BY <1>2, <2>2, <2>4, LeavingSame
<1> QED
  BY <1>3, <1>4, <1>5

LEMMA LeavingEnter ==
  ASSUME stack \in Stacks, NEW th \in Threads, NEW c \in CallType, Enter(th, c), c.fn # "unref"
  PROVE  Leaving' = Leaving
<1>k. PICK k : k = Len(stack[th])
  OBVIOUS
<1>1. k \in Nat
  BY <1>k DEF Stacks
<1>2. Changed(th, k, 1) /\ stack'[th][k + 1] = c
  BY <1>k, EnterChanges
<1>3. \A i \in (k + 1)..Len(stack[th]) : stack[th][i].fn # "unref"
  BY <1>k, <1>1
<1>4. \A i \in (k + 1)..(k + 1) : stack'[th][i].fn # "unref"
  BY <1>1, <1>2
<1> QED
  BY <1>2, <1>3, <1>4, LeavingSame

-----------------------------------------------------------------------------
(* A call goes on as another one about the same sbuf.                      *)
Goers == {"process", "each", "scan", "scanning"}
Nexts == {"each", "scanning", "release"}

(* How the scanners' calls may have been counted, of s alone.              *)
CallsCounted(s) ==
  /\ calls' \in [Sbufs -> [Scanners -> Nat]]
  /\ \A r \in Sbufs : \/ calls'[r] = calls[r]
                      \/ r = s /\ \A sc \in Scanners : calls[r][sc] > 0 => calls'[r][sc] > 0

LEMMA CallsKeepRight ==
  ASSUME MemInv, NEW s \in Sbufs, CallsCounted(s), ~Local(s), life[s] = "alive",
         UNCHANGED <<life, reference_count, children, abandoned>>
  PROVE  SharesRight' /\ Unborn'
<1>1. calls \in [Sbufs -> [Scanners -> Nat]]
  BY DEF MemInv, TypeOK
<1>2. \A r \in Sbufs : r # s => calls'[r] = calls[r]
  BY DEF CallsCounted
<1>3. ASSUME NEW d \in Derived, Shares(d), life[d] # "unborn" PROVE ~NotScanned(calls', Parent[d])
  <2>1. Parent[d] \in Sbufs /\ ~NotScanned(calls, Parent[d])
    BY <1>3, SbufsAssumption DEF MemInv, SharesRight
  <2>2. PICK sc \in Scanners : calls[Parent[d]][sc] > 0
    BY <1>1, <2>1 DEF NotScanned
  <2>3. calls'[Parent[d]][sc] > 0
    BY <2>1, <2>2 DEF CallsCounted
  <2> QED
    BY <2>3 DEF NotScanned
<1>4. ASSUME NEW r \in Sbufs, Local(r) PROVE NotScanned(calls', r)
  <2>1. NotScanned(calls, r) /\ calls'[r] = calls[r]
    BY <1>2, <1>4 DEF MemInv, SharesRight
  <2> QED
    BY <2>1 DEF NotScanned
<1>5. SharesRight'
  BY <1>3, <1>4 DEF MemInv, SharesRight, Local, Shares
<1>6. Unborn'
  <2>1. ASSUME NEW r \in Sbufs, life[r] = "unborn" PROVE NotScanned(calls', r)
    <3>1. NotScanned(calls, r) /\ calls'[r] = calls[r]
      BY <1>2, <2>1 DEF MemInv, Unborn
    <3> QED
      BY <3>1 DEF NotScanned
  <2> QED
    BY <2>1 DEF MemInv, Unborn
<1> QED
  BY <1>5, <1>6

LEMMA ContinueStep ==
  ASSUME MemInv, NEW th \in Threads, stack[th] # <<>>,
         NEW c \in CallType, Become(th, c), c.sbuf = Top(th).sbuf,
         Top(th).fn \in Goers, c.fn \in Nexts, CallRight(life, calls', c),
         UNCHANGED <<threading, life, reference_count, children, counters, work_queue,
                     abandoned, fault>>,
         previously_processed' \subseteq Sbufs, seen_before' \subseteq Sbufs,
         disk_write_errors' \in 0..MaxDiskErrors, CallsCounted(c.sbuf)
  PROVE  MemInv'
<1> DEFINE s == c.sbuf
<1>1. /\ stack \in Stacks /\ work_queue \in Seq(UnitType)
      /\ Top(th) \in CallType /\ s \in Sbufs /\ CallRight(life, calls, Top(th))
      /\ Base(th) \in Stacks
      /\ Control(Base(th), work_queue, life, calls)
      /\ Soft(Base(th), work_queue, s)
      /\ Base(th)[th] # <<>> => Base(th)[th][Len(Base(th)[th])].fn \in WaitingCalls
  BY TopIs
<1>2. Control(Base(th), work_queue, life, calls')
  <2>1. \A r \in Sbufs : \/ calls'[r] = calls[r]
                         \/ /\ Soft(Base(th), work_queue, r)
                            /\ \A sc \in Scanners : calls[r][sc] > 0 => calls'[r][sc] > 0
    BY <1>1 DEF CallsCounted
  <2> QED
    BY <1>1, <2>1, AgeControl
<1>3. stack' = PushOn(Base(th), th, c) /\ stack' \in Stacks
  BY <1>1, ShapeIs, PushIs
<1>4. Control(stack', work_queue, life, calls')
  <2>1. c.fn \notin SoleCalls
    BY DEF Nexts, SoleCalls
  <2> QED
    BY <1>1, <1>2, <1>3, <2>1, PushControl
<1>5. Control(stack, work_queue, life, calls)'
  BY <1>4
<1>6. TypeOK'
  BY <1>3 DEF MemInv, TypeOK, counters, CallsCounted, Stacks
<1>7. SharesRight' /\ Unborn'
  <2>1. ~Local(s) /\ life[s] = "alive"
    BY <1>1 DEF CallRight, Goers
  <2> QED
    BY <1>1, <2>1, CallsKeepRight
<1>8. RetainsSame
  <2>1. RetainsBy(s, Weight(c) - Weight(Top(th)))
    BY BecomeRetains DEF MemInv
  <2>2. Weight(c) - Weight(Top(th)) = 0
    BY DEF Weight, RetainingCalls, Goers, Nexts
  <2>3. \A S : Retains(S) \in Nat
    BY RetainsFinite DEF MemInv
  <2> QED
    BY <2>1, <2>2, <2>3 DEF RetainsBy, RetainsSame
<1>9. Leaving' = Leaving
  BY <1>1, LeavingBecome DEF Goers, Nexts
<1>10. ReferencesExact' /\ StatsExact'
  BY <1>8, <1>9, CountsSame DEF MemInv
<1>11. fault' \notin {"children", "assert"}
  BY DEF MemInv
<1> QED
  BY <1>5, <1>6, <1>7, <1>10, <1>11 DEF MemInv

LEMMA RetainsSome ==
  ASSUME TypeOK, NEW th \in Threads, stack[th] # <<>>, Top(th).fn \in RetainingCalls, NEW S,
         Top(th).sbuf \in S
  PROVE  Retains(S) \in Nat /\ Retains(S) >= 1
<1>1. stack \in Stacks
  BY TypedStacks
<1>2. Len(stack[th]) \in 1..Len(stack[th]) /\ Top(th) = stack[th][Len(stack[th])]
  BY <1>1, BelowIs
<1>3. <<th, Len(stack[th])>> \in Held(stack, S)
  BY <1>1, <1>2, HeldAre DEF Retained
<1>4. Cardinality(Held(stack, S)) # 0
  <2>1. IsFiniteSet(Held(stack, S))
    BY <1>1, HeldFinite
  <2> QED
    BY <1>3, <2>1, FS_EmptySet
<1>5. /\ Cardinality(Queued(work_queue, S)) \in Nat
      /\ Cardinality(Held(stack, S)) \in Nat
      /\ Cardinality(Lost(abandoned, S)) \in Nat
  BY RetainsFinite
<1>6. Retains(S) = Cardinality(Queued(work_queue, S)) + Cardinality(Held(stack, S))
                   + Cardinality(Lost(abandoned, S))
  BY RetainsAre
<1> QED
  BY <1>4, <1>5, <1>6

LEMMA SlicesFinite ==
  ASSUME NEW s
  PROVE  /\ IsFiniteSet(Slices(s)) /\ Cardinality(Slices(s)) \in Nat
         /\ IsFiniteSet(Slices(s) \ Leaving) /\ Cardinality(Slices(s) \ Leaving) \in Nat
<1>1. Slices(s) \in SUBSET Derived /\ Slices(s) \ Leaving \in SUBSET Derived
  BY DEF Slices
<1>2. IsFiniteSet(Derived)
  BY SbufsAssumption
<1>3. IsFiniteSet(Slices(s)) /\ IsFiniteSet(Slices(s) \ Leaving)
  BY <1>1, <1>2, FS_Subset
<1> QED
  BY <1>3, FS_CardinalityType

(* What was not scanned has no slices, and then no children.               *)
LEMMA NoSlices ==
  ASSUME MemInv, NEW s \in Sbufs, life[s] = "alive",
         NotScanned(calls, s) \/ Slices(s) = {}
  PROVE  Slices(s) = {} /\ children[s] = 0 /\ reference_count[s] = Retains({s})
<1>1. Slices(s) = {}
  BY DEF Slices, MemInv, SharesRight
<1>2. Cardinality(Slices(s)) = 0 /\ Cardinality(Slices(s) \ Leaving) = 0
  <2>1. Slices(s) \ Leaving = {}
    BY <1>1
  <2> QED
    BY <1>1, <2>1, FS_EmptySet
<1>3. /\ reference_count[s] = Retains({s}) + Cardinality(Slices(s))
      /\ children[s] = Cardinality(Slices(s) \ Leaving)
  BY DEF MemInv, ReferencesExact
<1>4. Retains({s}) \in Nat
  BY RetainsFinite DEF MemInv
<1> QED
  BY <1>1, <1>2, <1>3, <1>4

LEMMA ReleasesRight ==
  ASSUME MemInv, NEW th \in Threads, stack[th] # <<>>, Top(th).fn \in Goers
  PROVE  LET c == Call("release", Top(th).sbuf, NoScanner, {})
         IN /\ c \in CallType /\ CallRight(life, calls, c) /\ c.sbuf = Top(th).sbuf
            /\ c.fn \in Nexts
<1>1. Top(th).sbuf \in Sbufs /\ CallRight(life, calls, Top(th))
  BY TopIs
<1> QED
  BY <1>1 DEF Call, CallType, CallRight, Goers, Nexts

LEMMA CallsUncounted ==
  ASSUME MemInv, calls' = calls, NEW s
  PROVE  CallsCounted(s)
BY DEF MemInv, TypeOK, CallsCounted

(* The steps that go to release_sbuf at once.                              *)
LEMMA ReleaseStep ==
  ASSUME MemInv, NEW th \in Threads, stack[th] # <<>>, Top(th).fn \in Goers, BecomeRelease(th),
         UNCHANGED <<threading, life, reference_count, children, counters, work_queue,
                     calls, abandoned, fault>>,
         previously_processed' \subseteq Sbufs, seen_before' \subseteq Sbufs,
         disk_write_errors' \in 0..MaxDiskErrors
  PROVE  MemInv'
<1>1. PICK c : c = Call("release", Top(th).sbuf, NoScanner, {})
  OBVIOUS
<1>2. /\ c \in CallType /\ CallRight(life, calls, c) /\ c.sbuf = Top(th).sbuf
      /\ c.fn \in Nexts
  BY <1>1, ReleasesRight
<1>3. Become(th, c)
  BY <1>1 DEF BecomeRelease
<1>4. CallRight(life, calls', c) /\ CallsCounted(c.sbuf)
  BY <1>2, CallsUncounted
<1> QED
  BY <1>2, <1>3, <1>4, ContinueStep

LEMMA TooDeepStep ==
  ASSUME MemInv, NEW th \in Threads, ProcessTooDeep(th)
  PROVE  MemInv'
<1>1. stack[th] # <<>> /\ Top(th).fn \in Goers /\ BecomeRelease(th)
      /\ UNCHANGED <<threading, life, reference_count, children, counters, work_queue,
                     calls, abandoned, fault, dedupe, disk_write_errors>>
  BY DEF ProcessTooDeep, In, Goers
<1>2. previously_processed' \subseteq Sbufs /\ seen_before' \subseteq Sbufs
      /\ disk_write_errors' \in 0..MaxDiskErrors
  BY <1>1 DEF MemInv, TypeOK, dedupe
<1> QED
  BY <1>1, <1>2, ReleaseStep

LEMMA EachDoneStep ==
  ASSUME MemInv, NEW th \in Threads, EachDone(th)
  PROVE  MemInv'
<1>1. stack[th] # <<>> /\ Top(th).fn \in Goers /\ BecomeRelease(th)
      /\ UNCHANGED <<threading, life, reference_count, children, counters, work_queue,
                     calls, abandoned, fault, dedupe, disk_write_errors>>
  BY DEF EachDone, In, Goers
<1>2. previously_processed' \subseteq Sbufs /\ seen_before' \subseteq Sbufs
      /\ disk_write_errors' \in 0..MaxDiskErrors
  BY <1>1 DEF MemInv, TypeOK, dedupe
<1> QED
  BY <1>1, <1>2, ReleaseStep

LEMMA BypassedStep ==
  ASSUME MemInv, NEW th \in Threads, ScanBypassed(th)
  PROVE  MemInv'
<1>1. stack[th] # <<>> /\ Top(th).fn \in Goers /\ BecomeRelease(th)
      /\ UNCHANGED <<threading, life, reference_count, children, counters, work_queue,
                     calls, abandoned, fault, dedupe, disk_write_errors>>
  BY DEF ScanBypassed, In, Goers
<1>2. previously_processed' \subseteq Sbufs /\ seen_before' \subseteq Sbufs
      /\ disk_write_errors' \in 0..MaxDiskErrors
  BY <1>1 DEF MemInv, TypeOK, dedupe
<1> QED
  BY <1>1, <1>2, ReleaseStep

LEMMA ScanEndsStep ==
  ASSUME MemInv, NEW th \in Threads, ScanEnds(th)
  PROVE  MemInv'
<1>1. stack[th] # <<>> /\ Top(th).fn \in Goers /\ BecomeRelease(th)
      /\ UNCHANGED <<threading, life, reference_count, children, counters, work_queue,
                     calls, abandoned, fault, dedupe>>
  BY DEF ScanEnds, In, Goers
<1>2. previously_processed' \subseteq Sbufs /\ seen_before' \subseteq Sbufs
  BY <1>1 DEF MemInv, TypeOK, dedupe
<1>3. disk_write_errors' \in 0..MaxDiskErrors
  BY ModeAssumption DEF ScanEnds, MemInv, TypeOK
<1> QED
  BY <1>1, <1>2, <1>3, ReleaseStep

(* What process_sbuf asserts of the sbuf it is called on.                  *)
LEMMA ProcessAsserted ==
  ASSUME MemInv, NEW th \in Threads, stack[th] # <<>>, Top(th).fn = "process"
  PROVE  Asserted(Top(th).sbuf)
<1> DEFINE s == Top(th).sbuf
<1>1. s \in Sbufs /\ CallRight(life, calls, Top(th)) /\ life[s] = "alive"
  BY TopIs DEF CallRight
<1>2. children[s] = 0 /\ reference_count[s] = Retains({s})
  BY <1>1, NoSlices DEF CallRight
<1>3. Retains({s}) \in Nat /\ Retains({s}) >= 1
  BY RetainsSome DEF MemInv, RetainingCalls
<1> QED
  BY <1>2, <1>3 DEF Asserted

LEMMA BeginStep ==
  ASSUME MemInv, NEW th \in Threads, ProcessBegin(th)
  PROVE  MemInv'
<1> DEFINE s == Top(th).sbuf
           dup == Legacy /\ Seen(s)
<1>1. stack[th] # <<>> /\ Top(th).fn = "process"
  BY DEF ProcessBegin, In
<1>2. s \in Sbufs /\ CallRight(life, calls, Top(th)) /\ life[s] = "alive"
  BY <1>1, TopIs DEF CallRight
<1>3. Asserted(s)
  BY <1>1, ProcessAsserted
<1>4. /\ Recall(s)
      /\ seen_before' = seen_before \union IF dup THEN {s} ELSE {}
      /\ IF dup /\ OptIn = {} THEN BecomeRelease(th)
                              ELSE Become(th, Call("each", s, NoScanner, Scanners))
      /\ UNCHANGED <<threading, life, reference_count, children, counters, work_queue,
                     calls, abandoned, fault, disk_write_errors>>
  BY <1>3 DEF ProcessBegin
<1>5. previously_processed' \subseteq Sbufs /\ seen_before' \subseteq Sbufs
      /\ disk_write_errors' \in 0..MaxDiskErrors
  <2>1. Content[s] \in Sbufs
    BY <1>2, SbufsAssumption
  <2> QED
    BY <1>2, <1>4, <2>1 DEF MemInv, TypeOK, Recall
<1>6. Top(th).fn \in Goers
  BY <1>1 DEF Goers
<1>7. CASE dup /\ OptIn = {}
  BY <1>1, <1>4, <1>5, <1>6, <1>7, ReleaseStep
<1>8. CASE ~(dup /\ OptIn = {})
  <2>1. PICK c : c = Call("each", s, NoScanner, Scanners)
    OBVIOUS
  <2>2. c \in CallType /\ c.sbuf = s /\ c.fn \in Nexts
    BY <1>2, <2>1 DEF Call, CallType, Nexts
  <2>3. CallRight(life, calls', c) /\ CallsCounted(c.sbuf)
    <3>1. CallRight(life, calls, c)
      BY <1>1, <1>2, <2>1 DEF Call, CallRight
    <3> QED
      BY <1>4, <3>1, CallsUncounted
  <2>4. Become(th, c)
    BY <1>4, <1>8, <2>1
  <2> QED
    BY <1>1, <1>4, <1>5, <1>6, <2>2, <2>3, <2>4, ContinueStep
<1> QED
  BY <1>7, <1>8

LEMMA ScanBeginStep ==
  ASSUME MemInv, NEW th \in Threads, ScanBegin(th)
  PROVE  MemInv'
<1> DEFINE s == Top(th).sbuf
           sc == Top(th).scanner
<1>1. /\ stack[th] # <<>> /\ Top(th).fn = "scan"
      /\ calls' = [calls EXCEPT ![s][sc] = @ + 1]
      /\ Become(th, Call("scanning", s, sc, MadeBy(s, sc)))
      /\ UNCHANGED <<threading, life, reference_count, children, counters, work_queue,
                     dedupe, abandoned, fault, disk_write_errors>>
  BY DEF ScanBegin, In
<1>2. s \in Sbufs /\ CallRight(life, calls, Top(th)) /\ sc \in Scanners
  BY <1>1, TopIs DEF CallRight
<1>3. calls \in [Sbufs -> [Scanners -> Nat]]
  BY DEF MemInv, TypeOK
<1>4. CallsCounted(s) /\ calls'[s][sc] > 0
  BY <1>1, <1>2, <1>3 DEF CallsCounted
<1>5. PICK c : c = Call("scanning", s, sc, MadeBy(s, sc))
  OBVIOUS
<1>6. c \in CallType /\ c.sbuf = s /\ c.fn \in Nexts
  BY <1>2, <1>5 DEF Call, CallType, Nexts, MadeBy
<1>7. CallRight(life, calls', c)
  BY <1>1, <1>2, <1>4, <1>5 DEF Call, CallRight
<1>8. previously_processed' \subseteq Sbufs /\ seen_before' \subseteq Sbufs
      /\ disk_write_errors' \in 0..MaxDiskErrors
  BY <1>1 DEF MemInv, TypeOK, dedupe
<1>9. Become(th, c) /\ Top(th).fn \in Goers
  BY <1>1, <1>5 DEF Goers
<1> QED
  BY <1>1, <1>4, <1>6, <1>7, <1>8, <1>9, ContinueStep

-----------------------------------------------------------------------------
(* An sbuf is retained once more, or released once.                        *)
LEMMA CountedNat ==
  ASSUME MemInv, NEW s \in Sbufs, life[s] = "alive", NEW d \in {1, -1},
         d = -1 => \A S : s \in S => Retains(S) >= 1,
         CountedBy(s, d)
  PROVE  /\ reference_count' \in [Sbufs -> Nat]
         /\ sbufs_in_queue' \in Nat /\ depth0_sbufs_in_queue' \in Nat
<1>0. /\ RetainsBy(s, d) /\ UpdateQueueStats(s, d)
      /\ reference_count' = [reference_count EXCEPT ![s] = @ + d]
  BY DEF CountedBy
<1>2. reference_count' \in [Sbufs -> Nat]
  <2>1. d = -1 => reference_count[s] >= 1
    <3>1. reference_count[s] = Retains({s}) + Cardinality(Slices(s))
      BY DEF MemInv, ReferencesExact
    <3>2. Retains({s}) \in Nat /\ (d = -1 => Retains({s}) >= 1)
      BY RetainsFinite DEF MemInv
    <3>3. Cardinality(Slices(s)) \in Nat
      BY SlicesFinite
    <3> QED
      BY <3>1, <3>2, <3>3
  <2>2. reference_count \in [Sbufs -> Nat]
    BY DEF MemInv, TypeOK
  <2> QED
    BY <1>0, <2>1, <2>2
<1>3. sbufs_in_queue' \in Nat /\ depth0_sbufs_in_queue' \in Nat
  <2>1. d = -1 => sbufs_in_queue >= 1
    BY DEF MemInv, StatsExact
  <2>2. d = -1 /\ Depth[s] = 0 => depth0_sbufs_in_queue >= 1
    <3>1. depth0_sbufs_in_queue = Retains({r \in Sbufs : Depth[r] = 0})
      BY DEF MemInv, StatsExact
    <3>2. Depth[s] = 0 => s \in {r \in Sbufs : Depth[r] = 0}
      OBVIOUS
    <3> QED
      BY <3>1, <3>2
  <2> QED
    BY <1>0, <2>1, <2>2 DEF MemInv, TypeOK, UpdateQueueStats
<1> QED
  BY <1>2, <1>3

OnlyCounted ==
  UNCHANGED <<threading, life, children, dedupe, disk_write_errors, calls, abandoned, fault>>

LEMMA CountedStep ==
  ASSUME MemInv, NEW s \in Sbufs, life[s] = "alive", NEW d \in {1, -1},
         d = -1 => \A S : s \in S => Retains(S) >= 1,
         CountedBy(s, d), Leaving' = Leaving, OnlyCounted,
         stack' \in Stacks, work_queue' \in Seq(UnitType),
         Control(stack', work_queue', life, calls)
  PROVE  MemInv'
<1>0. /\ RetainsBy(s, d) /\ UpdateQueueStats(s, d)
      /\ reference_count' = [reference_count EXCEPT ![s] = @ + d]
      /\ UNCHANGED <<threading, life, children, dedupe, disk_write_errors, calls, abandoned, fault>>
  BY DEF CountedBy, OnlyCounted
<1>1. ReferencesExact' /\ StatsExact'
  BY <1>0, CountsMoved, d \in Int DEF MemInv
<1>2. /\ reference_count' \in [Sbufs -> Nat]
      /\ sbufs_in_queue' \in Nat /\ depth0_sbufs_in_queue' \in Nat
  BY CountedNat
<1>4. TypeOK'
  BY <1>0, <1>2 DEF MemInv, TypeOK, Stacks, UnitType, dedupe
<1>5. SharesRight' /\ Unborn'
  <2>1. \A r \in Sbufs : life[r] = "unborn" => reference_count'[r] = reference_count[r]
    BY <1>0 DEF MemInv, TypeOK
  <2>2. Unborn'
    BY <1>0, <2>1 DEF MemInv, Unborn
  <2> QED
    BY <1>0, <2>2 DEF MemInv, SharesRight, Local, Shares
<1>6. Control(stack, work_queue, life, calls)'
  BY <1>0
<1>7. fault' \notin {"children", "assert"}
  BY <1>0 DEF MemInv
<1> QED
  BY <1>1, <1>4, <1>5, <1>6, <1>7 DEF MemInv

LEMMA EachScannerStep ==
  ASSUME MemInv, NEW th \in Threads, EachScanner(th)
  PROVE  MemInv'
<1> DEFINE s == Top(th).sbuf
<1>1. stack[th] # <<>> /\ Top(th).fn = "each"
      /\ UNCHANGED <<threading, life, children, dedupe, disk_write_errors, fault, calls, abandoned>>
  BY DEF EachScanner, In
<1>2. PICK sc \in Top(th).todo :
        /\ reference_count' = [reference_count EXCEPT ![s] = @ + 1]
        /\ UpdateQueueStats(s, 1)
        /\ IF Inline
           THEN /\ stack' = [stack EXCEPT ![th] = Below(th) \o
                     <<Call("each", s, NoScanner, Top(th).todo \ {sc}), Scan(s, sc)>>]
                /\ UNCHANGED work_queue
           ELSE /\ work_queue' = Append(work_queue, Unit(s, sc))
                /\ Become(th, Call("each", s, NoScanner, Top(th).todo \ {sc}))
  BY DEF EachScanner
<1>3. /\ stack \in Stacks /\ work_queue \in Seq(UnitType)
      /\ Top(th) \in CallType /\ s \in Sbufs /\ CallRight(life, calls, Top(th))
      /\ Base(th) \in Stacks
      /\ Control(Base(th), work_queue, life, calls)
      /\ Soft(Base(th), work_queue, s)
      /\ Base(th)[th] # <<>> => Base(th)[th][Len(Base(th)[th])].fn \in WaitingCalls
  BY <1>1, TopIs
<1>4. sc \in Scanners /\ life[s] = "alive" /\ ~Local(s)
  BY <1>1, <1>3 DEF CallRight
<1>5. PICK c \in CallType : c = Call("each", s, NoScanner, Top(th).todo \ {sc})
  BY <1>3 DEF CallType, Call
<1>6. PICK e \in CallType : e = Scan(s, sc)
  BY <1>3, <1>4 DEF CallType, Call, Scan
<1>7. PICK u \in UnitType : u = Unit(s, sc)
  BY <1>3, <1>4 DEF UnitType, Unit
<1>8. /\ c.sbuf = s /\ c.fn = "each" /\ Weight(c) = Weight(Top(th))
      /\ e.sbuf = s /\ e.fn = "scan" /\ Weight(e) = 1
      /\ u.sbuf = s /\ u.scanner # NoScanner
  BY <1>1, <1>4, <1>5, <1>6, <1>7, ScannersAssumption
     DEF Call, Scan, Unit, Weight, RetainingCalls
<1>9. CallRight(life, calls, c) /\ CallRight(life, calls, e) /\ UnitRight(life, calls, u)
  BY <1>1, <1>3, <1>4, <1>5, <1>6, <1>7, <1>8 DEF Call, Scan, CallRight, UnitRight
<1>10. PICK b \in Stacks : b = PushOn(Base(th), th, c)
  BY <1>3, PushIs
<1>11. /\ Control(b, work_queue, life, calls) /\ Soft(b, work_queue, s)
       /\ b[th] # <<>> => b[th][Len(b[th])].fn \in WaitingCalls
  <2>1. Control(b, work_queue, life, calls)
    BY <1>3, <1>8, <1>9, <1>10, PushControl DEF SoleCalls
  <2>2. Soft(b, work_queue, s)
    BY <1>3, <1>8, <1>10, PushUses DEF SoleCalls
  <2>3. Len(b[th]) = Len(Base(th)[th]) + 1 /\ b[th][Len(Base(th)[th]) + 1] = c
    BY <1>3, <1>10, PushIs
  <2> QED
    BY <1>8, <2>1, <2>2, <2>3 DEF WaitingCalls
<1>12. CASE Inline
  <2>1. stack' = [stack EXCEPT ![th] = Below(th) \o <<c, e>>] /\ work_queue' = work_queue
    BY <1>2, <1>5, <1>6, <1>12
  <2>2. stack' = PushOn(b, th, e)
    <3>1. stack' = PushOn(PushOn(Base(th), th, c), th, e)
      BY <1>1, <1>3, <2>1, TwoShape
    <3> QED
      BY <1>10, <3>1
  <2>3. stack' \in Stacks
    BY <2>2, PushIs
  <2>4. Control(stack', work_queue, life, calls)
    BY <1>8, <1>9, <1>11, <2>2, PushControl DEF SoleCalls
  <2>5. RetainsBy(s, 1)
    BY <1>1, <1>8, <2>1, TwoRetain DEF MemInv
  <2>6. Leaving' = Leaving
    BY <1>1, <1>3, <1>8, <2>1, LeavingBecome
  <2>7. CountedBy(s, 1) /\ OnlyCounted
    BY <1>1, <1>2, <2>5 DEF CountedBy, OnlyCounted
  <2>8. work_queue' \in Seq(UnitType) /\ Control(stack', work_queue', life, calls)
    BY <1>3, <2>1, <2>4, Zenon
  <2> QED
    BY <1>3, <1>4, <2>3, <2>6, <2>7, <2>8, CountedStep
<1>13. CASE ~Inline
  <2>1. Become(th, c) /\ work_queue' = Append(work_queue, u)
    BY <1>2, <1>5, <1>7, <1>13
  <2>2. stack' = b
    BY <1>3, <1>10, <2>1, ShapeIs
  <2>3. work_queue' \in Seq(UnitType)
    BY <1>3, <2>1
  <2>4. Control(stack', work_queue', life, calls)
    BY <1>3, <1>8, <1>9, <1>11, <2>1, <2>2, QueueControl
  <2>5. RetainsBy(s, 1)
    BY <1>1, <1>8, <2>1, BecomeRetains DEF MemInv
  <2>6. Leaving' = Leaving
    BY <1>1, <1>3, <1>8, <2>1, LeavingBecome
  <2>7. CountedBy(s, 1) /\ OnlyCounted
    BY <1>1, <1>2, <2>5 DEF CountedBy, OnlyCounted
  <2> QED
    BY <1>3, <1>4, <2>2, <2>3, <2>4, <2>6, <2>7, CountedStep
<1> QED
  BY <1>12, <1>13

LEMMA ScheduleStep ==
  ASSUME MemInv, SchedulePage
  PROVE  MemInv'
<1> DEFINE p == Top(Main).sbuf
<1>1. /\ stack[Main] # <<>> /\ Top(Main).fn = "schedule"
      /\ reference_count' = [reference_count EXCEPT ![p] = @ + 1]
      /\ UpdateQueueStats(p, 1)
      /\ IF RunsInSameThread(p)
         THEN Become(Main, Process(p)) /\ UNCHANGED work_queue
         ELSE Return(Main) /\ work_queue' = Append(work_queue, Unit(p, NoScanner))
      /\ UNCHANGED <<threading, life, children, dedupe, disk_write_errors, fault, calls, abandoned>>
  BY DEF SchedulePage, In
<1>2. Main \in Threads
  BY DEF Threads
<1>3. /\ stack \in Stacks /\ work_queue \in Seq(UnitType)
      /\ Top(Main) \in CallType /\ p \in Sbufs /\ CallRight(life, calls, Top(Main))
      /\ Base(Main) \in Stacks
      /\ Control(Base(Main), work_queue, life, calls)
      /\ Soft(Base(Main), work_queue, p)
      /\ Absent(Base(Main), work_queue, p)
      /\ Base(Main)[Main] # <<>> => Base(Main)[Main][Len(Base(Main)[Main])].fn \in WaitingCalls
  BY <1>1, <1>2, TopIs DEF SoleCalls
<1>4. PICK c \in CallType : c = Process(p)
  BY <1>3 DEF CallType, Call, Process
<1>5. PICK u \in UnitType : u = Unit(p, NoScanner)
  BY <1>3 DEF UnitType, Unit
<1>6. /\ c.sbuf = p /\ c.fn = "process" /\ Weight(c) = 1 /\ Weight(Top(Main)) = 0
      /\ u.sbuf = p /\ u.scanner = NoScanner
  BY <1>1, <1>4, <1>5 DEF Call, Process, Unit, Weight, RetainingCalls
<1>7. life[p] = "alive" /\ CallRight(life, calls, c) /\ UnitRight(life, calls, u)
  BY <1>1, <1>3, <1>6 DEF CallRight, UnitRight
<1>8. CASE RunsInSameThread(p)
  <2>1. Become(Main, c) /\ work_queue' = work_queue
    BY <1>1, <1>4, <1>8
  <2>2. stack' = PushOn(Base(Main), Main, c)
    BY <1>2, <1>3, <2>1, ShapeIs
  <2>3. stack' \in Stacks
    BY <1>2, <1>3, <2>2, PushIs
  <2>4. Control(stack', work_queue, life, calls)
    BY <1>2, <1>3, <1>6, <1>7, <2>2, PushControl
  <2>5. RetainsBy(p, 1)
    BY <1>1, <1>2, <1>6, <2>1, BecomeRetains, 1 - 0 = 1 DEF MemInv
  <2>6. Leaving' = Leaving
    BY <1>1, <1>2, <1>3, <1>6, <2>1, LeavingBecome
  <2>7. CountedBy(p, 1) /\ OnlyCounted
    BY <1>1, <2>5 DEF CountedBy, OnlyCounted
  <2> QED
    BY <1>3, <1>7, <2>1, <2>3, <2>4, <2>6, <2>7, CountedStep
<1>9. CASE ~RunsInSameThread(p)
  <2>1. Return(Main) /\ work_queue' = Append(work_queue, u)
    BY <1>1, <1>5, <1>9
  <2>2. stack' = Base(Main)
    BY <1>2, <1>3, <2>1, ShapeIs
  <2>3. work_queue' \in Seq(UnitType)
    BY <1>3, <2>1
  <2>4. Control(stack', work_queue', life, calls)
    BY <1>3, <1>6, <1>7, <2>1, <2>2, QueueControl
  <2>5. RetainsBy(p, 1)
    BY <1>1, <1>2, <1>6, <2>1, ReturnRetains DEF MemInv
  <2>6. Leaving' = Leaving
    BY <1>1, <1>2, <1>3, <2>1, LeavingBecome
  <2>7. CountedBy(p, 1) /\ OnlyCounted
    BY <1>1, <2>5 DEF CountedBy, OnlyCounted
  <2> QED
    BY <1>3, <1>7, <2>2, <2>3, <2>4, <2>6, <2>7, CountedStep
<1> QED
  BY <1>8, <1>9

(* A worker takes a unit over from the queue: nothing is counted.          *)
LEMMA TakeStep ==
  ASSUME MemInv, NEW w \in Workers, Take(w)
  PROVE  MemInv'
<1> DEFINE u == Head(work_queue)
<1>1. /\ stack[w] = <<>> /\ work_queue # <<>> /\ work_queue' = Tail(work_queue)
      /\ Enter(w, IF u.scanner = NoScanner THEN Process(u.sbuf) ELSE Scan(u.sbuf, u.scanner))
      /\ UNCHANGED <<threading, life, reference_count, children, counters, dedupe,
                     disk_write_errors, fault, calls, abandoned>>
  BY DEF Take
<1>2. w \in Threads
  BY DEF Threads
<1>3. stack \in Stacks /\ work_queue \in Seq(UnitType) /\ Control(stack, work_queue, life, calls)
  BY TypedStacks DEF MemInv
<1>4. /\ Control(stack, Tail(work_queue), life, calls) /\ u \in UnitType
      /\ UnitRight(life, calls, u) /\ Soft(stack, Tail(work_queue), u.sbuf)
      /\ u.scanner = NoScanner => Absent(stack, Tail(work_queue), u.sbuf)
  BY <1>1, <1>3, TailControl
<1>5. u.sbuf \in Sbufs /\ u.scanner \in Scanners \union {NoScanner}
  BY <1>4 DEF UnitType
<1>6. PICK c \in CallType :
        c = IF u.scanner = NoScanner THEN Process(u.sbuf) ELSE Scan(u.sbuf, u.scanner)
  <2>1. Process(u.sbuf) \in CallType /\ Scan(u.sbuf, u.scanner) \in CallType
    BY <1>5 DEF CallType, Call, Process, Scan
  <2> QED
    BY <2>1
<1>7. /\ c.sbuf = u.sbuf /\ Weight(c) = 1 /\ c.fn \in {"process", "scan"}
      /\ c.fn = "process" <=> u.scanner = NoScanner
      /\ c.scanner = u.scanner
  BY <1>6 DEF Call, Process, Scan, Weight, RetainingCalls
<1>8. CallRight(life, calls, c)
  BY <1>4, <1>5, <1>7 DEF CallRight, UnitRight
<1>9. Enter(w, c)
  BY <1>1, <1>6
<1>10. stack' = PushOn(stack, w, c) /\ stack' \in Stacks
  BY <1>2, <1>3, <1>9, ShapeIs, PushIs
<1>11. Control(stack', work_queue', life, calls)
  BY <1>1, <1>2, <1>3, <1>4, <1>7, <1>8, <1>10, PushControl DEF SoleCalls
<1>12. work_queue' \in Seq(UnitType)
  BY <1>1, <1>3
<1>13. RetainsSame
  BY <1>1, <1>2, <1>7, <1>9, EnterRetains DEF MemInv
<1>14. Leaving' = Leaving
  BY <1>2, <1>3, <1>7, <1>9, LeavingEnter
<1>15. ReferencesExact' /\ StatsExact'
  BY <1>1, <1>13, <1>14, CountsSame DEF MemInv
<1>16. TypeOK'
  BY <1>1, <1>10, <1>12 DEF MemInv, TypeOK, Stacks, UnitType, dedupe, counters
<1>17. SharesRight' /\ Unborn' /\ fault' \notin {"children", "assert"}
  BY <1>1 DEF MemInv, SharesRight, Unborn, Local, Shares
<1>18. Control(stack, work_queue, life, calls)'
  BY <1>1, <1>11
<1> QED
  BY <1>15, <1>16, <1>17, <1>18 DEF MemInv

-----------------------------------------------------------------------------
(* An sbuf is made.                                                        *)
LEMMA NoRetains ==
  ASSUME TypeOK, NEW s, Absent(stack, work_queue, s),
         \A i \in 1..Len(abandoned) : abandoned[i] # s
  PROVE  Retains({s}) = 0
<1>1. stack \in Stacks /\ work_queue \in Seq(UnitType) /\ abandoned \in Seq(Sbufs)
  BY TypedStacks
<1>2. Held(stack, {s}) = {}
  <2>1. ASSUME NEW f \in Held(stack, {s}) PROVE FALSE
    <3>1. PICK t \in Threads : \E i \in 1..Len(stack[t]) : Retained(stack[t][i], {s})
      BY <1>1, HeldAre
    <3> QED
      BY <3>1 DEF Retained, Absent
  <2> QED
    BY <2>1
<1>3. Queued(work_queue, {s}) = {}
  <2>1. DOMAIN work_queue = 1..Len(work_queue)
    BY <1>1
  <2> QED
    BY <2>1 DEF Queued, Absent
<1>4. Lost(abandoned, {s}) = {}
  <2>1. DOMAIN abandoned = 1..Len(abandoned)
    BY <1>1
  <2> QED
    BY <2>1 DEF Lost
<1>5. Retains({s}) = Cardinality(Queued(work_queue, {s})) + Cardinality(Held(stack, {s}))
                     + Cardinality(Lost(abandoned, {s}))
  BY RetainsAre
<1>6. Cardinality({}) = 0
  BY FS_EmptySet
<1>7. Retains({s}) = 0 + 0 + 0
  BY <1>2, <1>3, <1>4, <1>5, <1>6, Zenon
<1> QED
  BY <1>7

(* What was not born is in no call and in no work unit.                    *)
LEMMA NotBorn ==
  ASSUME MemInv, NEW s \in Sbufs, life[s] = "unborn"
  PROVE  /\ Absent(stack, work_queue, s) /\ Retains({s}) = 0 /\ Slices(s) = {}
         /\ NotScanned(calls, s) /\ reference_count[s] = 0 /\ children[s] = 0
<1>1. Absent(stack, work_queue, s)
  BY DEF MemInv, Control, AllRight, CallRight, UnitRight, Absent
<1>2. /\ NotScanned(calls, s) /\ reference_count[s] = 0 /\ children[s] = 0
      /\ \A i \in 1..Len(abandoned) : abandoned[i] # s
  BY DEF MemInv, Unborn
<1>3. Retains({s}) = 0
  BY <1>1, <1>2, NoRetains DEF MemInv
<1>4. Slices(s) = {}
  BY DEF MemInv, SharesRight, Slices
<1> QED
  BY <1>1, <1>2, <1>3, <1>4

LEMMA ReadStep ==
  ASSUME MemInv, NEW p \in Pages, ReadPage(p)
  PROVE  MemInv'
<1>1. /\ stack[Main] = <<>> /\ life[p] = "unborn" /\ life' = [life EXCEPT ![p] = "alive"]
      /\ Enter(Main, Call("schedule", p, NoScanner, {}))
      /\ UNCHANGED <<threading, reference_count, children, counters, work_queue,
                     dedupe, disk_write_errors, fault, calls, abandoned>>
  BY DEF ReadPage
<1>2. Main \in Threads /\ p \in Sbufs /\ p \notin Derived
  BY SbufsAssumption DEF Threads, Sbufs
<1>3. /\ stack \in Stacks /\ work_queue \in Seq(UnitType)
      /\ Control(stack, work_queue, life, calls) /\ life \in [Sbufs -> {"unborn", "alive", "deleted"}]
  BY TypedStacks DEF MemInv, TypeOK
<1>4. /\ Absent(stack, work_queue, p) /\ Retains({p}) = 0 /\ Slices(p) = {}
      /\ NotScanned(calls, p) /\ reference_count[p] = 0 /\ children[p] = 0
  BY <1>1, <1>2, NotBorn
<1>5. life'[p] = "alive" /\ \A r \in Sbufs : r # p => life'[r] = life[r]
  BY <1>1, <1>2, <1>3
<1>6. \A d \in Derived : d \in Sbufs /\ life'[d] = life[d]
  BY <1>2, <1>5 DEF Sbufs
<1>7. Control(stack, work_queue, life', calls)
  <2>1. \A r \in Sbufs : life[r] = "alive" => life'[r] = "alive"
    BY <1>5
  <2> QED
    BY <1>3, <1>6, <2>1, AgeControl
<1>8. PICK c \in CallType : c = Call("schedule", p, NoScanner, {})
  BY <1>2 DEF Call, CallType
<1>9. c.sbuf = p /\ c.fn = "schedule" /\ Weight(c) = 0
  BY <1>8 DEF Call, Weight, RetainingCalls
<1>10. CallRight(life', calls, c)
  BY <1>2, <1>4, <1>5, <1>9 DEF CallRight, Local
<1>11. Soft(stack, work_queue, p)
  BY <1>4 DEF Soft, Absent
<1>12. Enter(Main, c)
  BY <1>1, <1>8
<1>13. stack' = PushOn(stack, Main, c) /\ stack' \in Stacks
  BY <1>2, <1>3, <1>12, ShapeIs, PushIs
<1>14. Control(stack', work_queue, life', calls)
  BY <1>1, <1>2, <1>3, <1>4, <1>7, <1>9, <1>10, <1>11, <1>13, PushControl
<1>15. Control(stack, work_queue, life, calls)'
  BY <1>1, <1>14
<1>16. RetainsSame
  <2>1. RetainsBy(p, 0)
    BY <1>1, <1>2, <1>9, <1>12, EnterRetains DEF MemInv
  <2>2. \A S : Retains(S) \in Nat
    BY RetainsFinite DEF MemInv
  <2> QED
    BY <2>1, <2>2 DEF RetainsBy, RetainsSame
<1>17. Leaving' = Leaving
  BY <1>2, <1>3, <1>9, <1>12, LeavingEnter
<1>18. \A s : Slices(s)' = Slices(s)
  BY <1>6 DEF Slices, Shares
<1>19. ReferencesExact'
  <2>1. ASSUME NEW r \in Sbufs, life'[r] = "alive"
        PROVE  /\ reference_count[r] = Retains({r}) + Cardinality(Slices(r))
               /\ children[r] = Cardinality(Slices(r) \ Leaving)
    <3>1. CASE r = p
      <4>1. Cardinality(Slices(r)) = 0 /\ Cardinality(Slices(r) \ Leaving) = 0
        BY <1>4, <3>1, FS_EmptySet
      <4> QED
        BY <1>4, <3>1, <4>1
    <3>2. CASE r # p
      BY <1>5, <2>1, <3>2 DEF MemInv, ReferencesExact
    <3> QED
      BY <3>1, <3>2
  <2> QED
    BY <1>1, <1>16, <1>17, <1>18, <2>1 DEF ReferencesExact, RetainsSame
<1>20. StatsExact'
  BY <1>1, <1>16 DEF MemInv, StatsExact, RetainsSame, counters
<1>21. TypeOK'
  BY <1>1, <1>2, <1>13 DEF MemInv, TypeOK, Stacks, counters, dedupe
<1>22. SharesRight'
  <2>1. \A d \in Derived : Shares(d) => Parent[d] \in Sbufs
    BY SbufsAssumption
  <2> QED
    BY <1>1, <1>5, <1>6, <2>1 DEF MemInv, SharesRight, Local, Shares
<1>23. Unborn'
  BY <1>1, <1>5 DEF MemInv, Unborn
<1>24. fault' \notin {"children", "assert"}
  BY <1>1 DEF MemInv
<1> QED
  BY <1>15, <1>19, <1>20, <1>21, <1>22, <1>23, <1>24 DEF MemInv

(* The memory an sbuf is to share is there, and nobody is deleting it.     *)
NotEnding(s) == \A t \in Threads : \A i \in 1..Len(stack[t]) :
                  stack[t][i].sbuf = s => stack[t][i].fn \notin {"del", "unref"}

LEMMA ParentFit ==
  ASSUME MemInv, NEW th \in Threads, stack[th] # <<>>, Top(th).fn = "scanning",
         NEW d \in Top(th).todo, Shares(d)
  PROVE  /\ Parent[d] \in Sbufs /\ life[Parent[d]] = "alive"
         /\ ~NotScanned(calls, Parent[d]) /\ NotEnding(Parent[d])
<1> DEFINE s == Top(th).sbuf
           S == {r \in Sbufs : life[r] = "alive" /\ ~NotScanned(calls, r) /\ NotEnding(r)}
<1>1. /\ Top(th) \in CallType /\ s \in Sbufs /\ CallRight(life, calls, Top(th))
      /\ stack \in Stacks
  BY TopIs
<1>2. /\ life[s] = "alive" /\ Top(th).scanner \in Scanners
      /\ calls[s][Top(th).scanner] > 0 /\ d \in MadeBy(s, Top(th).scanner)
  BY <1>1 DEF CallRight
<1>3. d \in Derived /\ Maker[d] = s
  BY <1>2 DEF MadeBy
<1>4. Control(stack, work_queue, life, calls)
  BY DEF MemInv
<1>5. NotEnding(s)
  <2>1. ASSUME NEW t \in Threads, NEW i \in 1..Len(stack[t]), stack[t][i].sbuf = s,
               stack[t][i].fn \in {"del", "unref"}
        PROVE  FALSE
    <3>1. Len(stack[th]) \in 1..Len(stack[th]) /\ Top(th) = stack[th][Len(stack[th])]
      BY <1>1, BelowIs
    <3>2. th = t /\ Len(stack[th]) = i
      BY <1>4, <2>1, <3>1 DEF Control, Sole, SoleCalls
    <3> QED
      BY <2>1, <3>1, <3>2
  <2> QED
    BY <2>1 DEF NotEnding
<1>6. s \in S
  <2>1. ~NotScanned(calls, s)
    BY <1>1, <1>2 DEF NotScanned
  <2> QED
    BY <1>1, <1>2, <1>5, <2>1
<1>7. ASSUME NEW e \in S \intersect Derived, Shares(e) PROVE Parent[e] \in S
  <2>1. Parent[e] \in Sbufs /\ life[e] = "alive"
    BY SbufsAssumption
  <2>2. life[Parent[e]] = "alive" /\ ~NotScanned(calls, Parent[e])
    BY <1>7, <2>1 DEF MemInv, SharesRight
  <2>3. NotEnding(Parent[e])
    BY <1>4, <1>7, <2>1 DEF Control, AllRight, CallRight, Sliceless, NotEnding
  <2> QED
    BY <2>1, <2>2, <2>3
<1>8. Parent[d] \in S
  <2>1. S \in SUBSET Sbufs
    OBVIOUS
  <2> HIDE DEF S
  <2> QED
    BY <1>3, <1>6, <1>7, <2>1, MemoryAssumption
<1> QED
  BY <1>8

(* The counts of an sbuf that was made and is retained w times.            *)
Born(d, w) ==
  /\ life' = [life EXCEPT ![d] = "alive"] /\ children' = AddChild(d, children)
  /\ reference_count' = [AddRef(d, reference_count) EXCEPT ![d] = @ + w]

LEMMA BornCounts ==
  ASSUME MemInv, NEW d \in Derived, life[d] = "unborn", NEW w \in {0, 1},
         Shares(d) => Parent[d] \in Sbufs /\ life[Parent[d]] = "alive",
         Born(d, w), RetainsBy(d, w), UpdateQueueStats(d, w), Leaving' = Leaving
  PROVE  /\ ReferencesExact' /\ StatsExact'
         /\ reference_count' \in [Sbufs -> Nat] /\ children' \in [Sbufs -> Nat]
         /\ sbufs_in_queue' \in Nat /\ depth0_sbufs_in_queue' \in Nat
         /\ \A r \in Sbufs : life'[r] = "unborn" =>
              reference_count'[r] = reference_count[r] /\ children'[r] = children[r]
<1> DEFINE one(r) == IF Shares(d) /\ Parent[d] = r THEN 1 ELSE 0
<1>1. /\ life \in [Sbufs -> {"unborn", "alive", "deleted"}] /\ reference_count \in [Sbufs -> Nat]
      /\ children \in [Sbufs -> Nat] /\ sbufs_in_queue \in Nat /\ depth0_sbufs_in_queue \in Nat
  BY DEF MemInv, TypeOK
<1>2. d \in Sbufs
  BY DEF Sbufs
<1>3. /\ Absent(stack, work_queue, d) /\ Retains({d}) = 0 /\ Slices(d) = {}
      /\ reference_count[d] = 0 /\ children[d] = 0
  BY <1>2, NotBorn
<1>4. life'[d] = "alive" /\ \A r \in Sbufs : r # d => life'[r] = life[r]
  BY <1>1, <1>2 DEF Born
<1>5. Shares(d) => Parent[d] # d
  OBVIOUS
<1>6. /\ children' \in [Sbufs -> Nat]
      /\ \A r \in Sbufs : children'[r] = children[r] + one(r)
  <2>1. CASE Shares(d)
    <3>1. children' = [children EXCEPT ![Parent[d]] = @ + 1] /\ Parent[d] \in Sbufs
      BY <2>1 DEF AddChild, Born
    <3>2. \A r \in Sbufs : one(r) = IF r = Parent[d] THEN 1 ELSE 0
      BY <2>1
    <3> QED
      BY <1>1, <3>1, <3>2
  <2>2. CASE ~Shares(d)
    BY <1>1, <2>2 DEF AddChild, Born
  <2> QED
    BY <2>1, <2>2
<1>7. /\ reference_count' \in [Sbufs -> Nat]
      /\ \A r \in Sbufs : reference_count'[r] =
           IF r = d THEN w ELSE reference_count[r] + one(r)
  <2>1. CASE Shares(d)
    <3>1. PICK rc : rc = [reference_count EXCEPT ![Parent[d]] = @ + 1]
      OBVIOUS
    <3>2. reference_count' = [rc EXCEPT ![d] = @ + w]
      BY <2>1, <3>1 DEF AddRef, Born
    <3>3. /\ rc \in [Sbufs -> Nat] /\ rc[d] = 0
          /\ \A r \in Sbufs : rc[r] = reference_count[r] + one(r)
      BY <1>1, <1>2, <1>3, <1>5, <2>1, <3>1
    <3> QED
      BY <1>2, <1>5, <2>1, <3>2, <3>3
  <2>2. CASE ~Shares(d)
    <3>1. reference_count' = [reference_count EXCEPT ![d] = @ + w]
      BY <2>2 DEF AddRef, Born
    <3> QED
      BY <1>1, <1>2, <1>3, <2>2, <3>1
  <2> QED
    BY <2>1, <2>2
<1>8. d \notin Leaving
  BY <1>3, LeavingAre, TypedStacks DEF Absent, MemInv
<1>9. \A r : Slices(r)' = IF Shares(d) /\ Parent[d] = r THEN Slices(r) \union {d} ELSE Slices(r)
  <2>1. \A e \in Derived : e \in Sbufs
    BY DEF Sbufs
  <2> QED
    BY <1>4, <2>1 DEF Slices, Shares
<1>10. \A r : d \notin Slices(r)
  BY DEF Slices
<1>11. ASSUME NEW r \in Sbufs
       PROVE  /\ Cardinality(Slices(r)') = Cardinality(Slices(r)) + one(r)
              /\ Cardinality(Slices(r)' \ Leaving) = Cardinality(Slices(r) \ Leaving) + one(r)
  <2>1. /\ IsFiniteSet(Slices(r)) /\ Cardinality(Slices(r)) \in Nat
        /\ IsFiniteSet(Slices(r) \ Leaving) /\ Cardinality(Slices(r) \ Leaving) \in Nat
    BY SlicesFinite
  <2>2. CASE Shares(d) /\ Parent[d] = r
    <3>1. Slices(r)' = Slices(r) \union {d} /\ Slices(r)' \ Leaving = (Slices(r) \ Leaving) \union {d}
      BY <1>8, <1>9, <2>2
    <3>2. Cardinality(Slices(r) \union {d}) = Cardinality(Slices(r)) + 1
      BY <1>10, <2>1, FS_AddElement
    <3>3. Cardinality((Slices(r) \ Leaving) \union {d}) = Cardinality(Slices(r) \ Leaving) + 1
      BY <1>10, <2>1, FS_AddElement
    <3> QED
      BY <2>2, <3>1, <3>2, <3>3
  <2>3. CASE ~(Shares(d) /\ Parent[d] = r)
    <3>1. Slices(r)' = Slices(r)
      BY <1>9, <2>3
    <3> QED
      BY <2>1, <2>3, <3>1
  <2> QED
    BY <2>2, <2>3
<1> HIDE DEF one
<1>12. ASSUME NEW r \in Sbufs, life'[r] = "alive"
       PROVE  /\ reference_count'[r] = Retains({r})' + Cardinality(Slices(r)')
              /\ children'[r] = Cardinality(Slices(r)' \ Leaving)
  <2>1. CASE r = d
    <3>1. Retains({r})' = w
      BY <1>3, <2>1 DEF RetainsBy
    <3>2. Slices(r)' = {} /\ one(r) = 0
      BY <1>3, <1>5, <1>9, <2>1 DEF one
    <3>3. Cardinality(Slices(r)') = 0 /\ Cardinality(Slices(r)' \ Leaving) = 0
      BY <3>2, FS_EmptySet
    <3> QED
      BY <1>3, <1>6, <1>7, <2>1, <3>1, <3>2, <3>3
  <2>2. CASE r # d
    <3>1. /\ reference_count[r] = Retains({r}) + Cardinality(Slices(r))
          /\ children[r] = Cardinality(Slices(r) \ Leaving)
      BY <1>4, <2>2, <1>12 DEF MemInv, ReferencesExact
    <3>2. Retains({r})' = Retains({r}) /\ Retains({r}) \in Nat
      <4>1. Retains({r}) \in Nat
        BY RetainsFinite DEF MemInv
      <4> QED
        BY <2>2, <4>1 DEF RetainsBy
    <3>3. Cardinality(Slices(r)) \in Nat /\ Cardinality(Slices(r) \ Leaving) \in Nat /\ one(r) \in Nat
      BY SlicesFinite DEF one
    <3>4. /\ Cardinality(Slices(r)') = Cardinality(Slices(r)) + one(r)
          /\ Cardinality(Slices(r)' \ Leaving) = Cardinality(Slices(r) \ Leaving) + one(r)
      BY <1>11
    <3>5. reference_count'[r] = reference_count[r] + one(r) /\ children'[r] = children[r] + one(r)
      BY <1>6, <1>7, <2>2
    <3> QED
      BY <3>1, <3>2, <3>3, <3>4, <3>5
  <2> QED
    BY <2>1, <2>2
<1>13. ReferencesExact'
  BY <1>12 DEF ReferencesExact
<1>14. StatsExact' /\ sbufs_in_queue' \in Nat /\ depth0_sbufs_in_queue' \in Nat
  <2>1. StatsExact
    BY DEF MemInv
  <2> QED
    BY <1>1, <1>2, <2>1 DEF StatsExact, RetainsBy, UpdateQueueStats
<1>15. ASSUME NEW r \in Sbufs, life'[r] = "unborn"
       PROVE  reference_count'[r] = reference_count[r] /\ children'[r] = children[r]
  <2>1. r # d /\ one(r) = 0
    BY <1>4, <1>15 DEF one
  <2> QED
    BY <1>1, <1>6, <1>7, <2>1
<1> QED
  BY <1>6, <1>7, <1>13, <1>14, <1>15

LEMMA BornStep ==
  ASSUME MemInv, NEW d \in Derived, life[d] = "unborn", NEW w \in {0, 1},
         Shares(d) => /\ Parent[d] \in Sbufs /\ life[Parent[d]] = "alive"
                      /\ ~NotScanned(calls, Parent[d]),
         Born(d, w), RetainsBy(d, w), UpdateQueueStats(d, w), Leaving' = Leaving,
         UNCHANGED <<threading, dedupe, disk_write_errors, fault, calls, abandoned>>,
         stack' \in Stacks, work_queue' \in Seq(UnitType),
         Control(stack', work_queue', life', calls)
  PROVE  MemInv'
<1>0. UNCHANGED <<threading, dedupe, disk_write_errors, fault, calls, abandoned>>
  OBVIOUS
<1>1. /\ ReferencesExact' /\ StatsExact'
      /\ reference_count' \in [Sbufs -> Nat] /\ children' \in [Sbufs -> Nat]
      /\ sbufs_in_queue' \in Nat /\ depth0_sbufs_in_queue' \in Nat
      /\ \A r \in Sbufs : life'[r] = "unborn" =>
           reference_count'[r] = reference_count[r] /\ children'[r] = children[r]
  BY BornCounts
<1>2. d \in Sbufs /\ life \in [Sbufs -> {"unborn", "alive", "deleted"}]
  BY DEF Sbufs, MemInv, TypeOK
<1>3. /\ life' \in [Sbufs -> {"unborn", "alive", "deleted"}]
      /\ life'[d] = "alive" /\ \A r \in Sbufs : r # d => life'[r] = life[r]
  BY <1>2 DEF Born
<1>4. TypeOK'
  BY <1>0, <1>1, <1>3 DEF MemInv, TypeOK, Stacks, UnitType, dedupe
<1>5. SharesRight'
  <2>1. \A e \in Derived : e \in Sbufs
    BY DEF Sbufs
  <2>2. \A e \in Derived : Parent[e] \in Sbufs
    BY SbufsAssumption
  <2>3. ASSUME NEW e \in Derived, Shares(e), life'[e] # "unborn"
        PROVE  ~NotScanned(calls, Parent[e]) /\ (life'[e] = "alive" => life'[Parent[e]] = "alive")
    BY <1>3, <2>1, <2>2, <2>3 DEF MemInv, SharesRight
  <2> QED
    BY <1>0, <2>3 DEF MemInv, SharesRight, Local, Shares
<1>6. Unborn'
  <2>1. ASSUME NEW r \in Sbufs, life'[r] = "unborn"
        PROVE  /\ NotScanned(calls, r) /\ reference_count'[r] = 0 /\ children'[r] = 0
               /\ \A i \in 1..Len(abandoned) : abandoned[i] # r
    <3>1. life[r] = "unborn"
      BY <1>3, <2>1
    <3>2. /\ NotScanned(calls, r) /\ reference_count[r] = 0 /\ children[r] = 0
          /\ \A i \in 1..Len(abandoned) : abandoned[i] # r
      BY <3>1 DEF MemInv, Unborn
    <3> QED
      BY <1>1, <2>1, <3>2
  <2>2. calls' = calls /\ abandoned' = abandoned
    BY <1>0
  <2> QED
    BY <2>1, <2>2 DEF Unborn
<1>7. Control(stack, work_queue, life, calls)' /\ fault' \notin {"children", "assert"}
  BY <1>0 DEF MemInv
<1> QED
  BY <1>1, <1>4, <1>5, <1>6, <1>7 DEF MemInv

LEMMA MakesStep ==
  ASSUME MemInv, NEW th \in Threads, ScanMakes(th)
  PROVE  MemInv'
<1> DEFINE s == Top(th).sbuf
           sc == Top(th).scanner
<1>1. /\ stack[th] # <<>> /\ Top(th).fn = "scanning"
      /\ UNCHANGED <<threading, dedupe, disk_write_errors, fault, calls, abandoned>>
  BY DEF ScanMakes, In
<1>2. PICK d \in Top(th).todo :
        /\ life[d] = "unborn"
        /\ life' = [life EXCEPT ![d] = "alive"]
        /\ children' = AddChild(d, children)
        /\ IF Kind[d] = "local"
           THEN /\ reference_count' = AddRef(d, reference_count)
                /\ stack' = [stack EXCEPT ![th] = Below(th) \o
                               <<[Top(th) EXCEPT !.todo = @ \ {d}],
                                 Call("local", d, NoScanner, {})>>]
                /\ UNCHANGED <<counters, work_queue>>
           ELSE /\ reference_count' = [AddRef(d, reference_count) EXCEPT ![d] = @ + 1]
                /\ UpdateQueueStats(d, 1)
                /\ IF RunsInSameThread(d)
                   THEN /\ stack' = [stack EXCEPT ![th] = Below(th) \o
                                       <<[Top(th) EXCEPT !.todo = @ \ {d}], Process(d)>>]
                        /\ UNCHANGED work_queue
                   ELSE /\ work_queue' = Append(work_queue, Unit(d, NoScanner))
                        /\ Become(th, [Top(th) EXCEPT !.todo = @ \ {d}])
  BY DEF ScanMakes
<1>3. /\ stack \in Stacks /\ work_queue \in Seq(UnitType)
      /\ Top(th) \in CallType /\ s \in Sbufs /\ CallRight(life, calls, Top(th))
      /\ Base(th) \in Stacks /\ Fewer(Base(th), stack)
      /\ Control(Base(th), work_queue, life, calls)
      /\ Soft(Base(th), work_queue, s)
      /\ Base(th)[th] # <<>> => Base(th)[th][Len(Base(th)[th])].fn \in WaitingCalls
  BY <1>1, TopIs
<1>4. /\ life[s] = "alive" /\ ~Local(s) /\ sc \in Scanners /\ calls[s][sc] > 0
      /\ Top(th).todo \subseteq MadeBy(s, sc)
  BY <1>1, <1>3 DEF CallRight
<1>5. d \in Derived /\ d \in Sbufs /\ d # s
  BY <1>2, <1>4 DEF MadeBy, Sbufs
<1>6. Shares(d) => /\ Parent[d] \in Sbufs /\ life[Parent[d]] = "alive"
                   /\ ~NotScanned(calls, Parent[d]) /\ NotEnding(Parent[d])
  BY <1>1, ParentFit
<1>7. Absent(stack, work_queue, d) /\ NotScanned(calls, d)
  BY <1>2, <1>5, NotBorn
<1>8. /\ life \in [Sbufs -> {"unborn", "alive", "deleted"}] /\ reference_count \in [Sbufs -> Nat]
  BY DEF MemInv, TypeOK
<1>9. life'[d] = "alive" /\ \A r \in Sbufs : r # d => life'[r] = life[r]
  BY <1>2, <1>5, <1>8
<1>10. Control(Base(th), work_queue, life', calls) /\ Absent(Base(th), work_queue, d)
  <2>1. \A r \in Sbufs : life[r] = "alive" => life'[r] = "alive"
    BY <1>9
  <2>2. ASSUME NEW e \in Derived, Shares(e), life'[e] = "alive", life[e] # "alive",
               NEW t \in Threads, NEW i \in 1..Len(Base(th)[t]), Base(th)[t][i].sbuf = Parent[e]
        PROVE  Base(th)[t][i].fn \notin {"del", "unref"}
    <3>1. e = d
      BY <1>9, <2>2 DEF Sbufs
    <3> QED
      BY <1>3, <1>6, <2>2, <3>1 DEF NotEnding, Fewer
  <2>3. Absent(Base(th), work_queue, d)
    BY <1>3, <1>7 DEF Absent, Fewer
  <2>4. Control(Base(th), work_queue, life', calls)
    BY <1>3, <2>1, <2>2, AgeControl
  <2> QED
    BY <2>3, <2>4
<1>11. PICK c \in CallType : c = [Top(th) EXCEPT !.todo = @ \ {d}]
  BY <1>3 DEF CallType
<1>12. /\ c.sbuf = s /\ c.fn = "scanning" /\ c.scanner = sc /\ c.todo = Top(th).todo \ {d}
       /\ Weight(c) = Weight(Top(th))
  BY <1>1, <1>3, <1>11 DEF CallType, Weight
<1>13. CallRight(life', calls, c)
  BY <1>4, <1>5, <1>3, <1>9, <1>12 DEF CallRight
<1>14. PICK b \in Stacks : b = PushOn(Base(th), th, c)
  BY <1>3, PushIs
<1>15. /\ Control(b, work_queue, life', calls) /\ Absent(b, work_queue, d)
       /\ Soft(b, work_queue, d)
       /\ b[th] # <<>> => b[th][Len(b[th])].fn \in WaitingCalls
  <2>1. Control(b, work_queue, life', calls)
    BY <1>3, <1>10, <1>12, <1>13, <1>14, PushControl DEF SoleCalls
  <2>2. Absent(b, work_queue, d)
    BY <1>3, <1>5, <1>10, <1>12, <1>14, PushUses
  <2>3. Len(b[th]) = Len(Base(th)[th]) + 1 /\ b[th][Len(Base(th)[th]) + 1] = c
    BY <1>3, <1>14, PushIs
  <2> QED
    BY <1>12, <2>1, <2>2, <2>3 DEF WaitingCalls, Soft, Absent
<1>16. Top(th).fn # "unref" /\ c.fn # "unref"
  BY <1>1, <1>12
<1>17. CASE Kind[d] = "local"
  <2>1. PICK e \in CallType : e = Call("local", d, NoScanner, {})
    BY <1>5 DEF CallType, Call
  <2>2. e.sbuf = d /\ e.fn = "local" /\ Weight(e) = 0
    BY <2>1 DEF Call, Weight, RetainingCalls
  <2>3. CallRight(life', calls, e)
    BY <1>5, <1>9, <1>17, <2>2 DEF CallRight, Local, Shares
  <2>4. stack' = [stack EXCEPT ![th] = Below(th) \o <<c, e>>] /\ work_queue' = work_queue
    BY <1>2, <1>11, <1>17, <2>1
  <2>5. stack' = PushOn(b, th, e)
    <3>1. stack' = PushOn(PushOn(Base(th), th, c), th, e)
      BY <1>1, <1>3, <2>4, TwoShape
    <3> QED
      BY <1>14, <3>1
  <2>6. stack' \in Stacks
    BY <2>5, PushIs
  <2>7. Control(stack', work_queue, life', calls)
    BY <1>15, <2>2, <2>3, <2>5, PushControl
  <2>8. RetainsBy(d, 0)
    BY <1>1, <1>12, <2>2, <2>4, TwoRetain DEF MemInv
  <2>9. Leaving' = Leaving
    BY <1>3, <1>1, <1>16, <2>2, <2>4, LeavingBecome
  <2>10. Born(d, 0)
    <3>1. PICK rc : rc = AddRef(d, reference_count)
      OBVIOUS
    <3>2. rc \in [Sbufs -> Nat]
      BY <1>6, <1>8, <3>1 DEF AddRef
    <3>3. reference_count' = rc
      BY <1>2, <1>17, <3>1
    <3>4. [rc EXCEPT ![d] = @ + 0] = rc
      BY <1>5, <3>2
    <3> QED
      BY <1>2, <3>1, <3>3, <3>4, Zenon DEF Born
  <2>11. UpdateQueueStats(d, 0)
    BY <1>2, <1>17 DEF UpdateQueueStats, counters, MemInv, TypeOK
  <2>12. work_queue' \in Seq(UnitType) /\ Control(stack', work_queue', life', calls)
    BY <1>3, <2>4, <2>7, Zenon
  <2>13. 0 \in {0, 1}
    OBVIOUS
  <2> QED
    BY <1>1, <1>2, <1>5, <1>6, <2>6, <2>8, <2>9, <2>10, <2>11, <2>12, <2>13, BornStep, Zenon
<1>18. CASE Kind[d] # "local"
  <2>1. PICK e \in CallType : e = Process(d)
    BY <1>5 DEF CallType, Call, Process
  <2>2. e.sbuf = d /\ e.fn = "process" /\ Weight(e) = 1
    BY <2>1 DEF Call, Process, Weight, RetainingCalls
  <2>3. PICK u \in UnitType : u = Unit(d, NoScanner)
    BY <1>5 DEF UnitType, Unit
  <2>4. u.sbuf = d /\ u.scanner = NoScanner
    BY <2>3 DEF Unit
  <2>5. CallRight(life', calls, e) /\ UnitRight(life', calls, u)
    BY <1>5, <1>7, <1>9, <1>18, <2>2, <2>4 DEF CallRight, UnitRight, Local
  <2>6. Born(d, 1)
    BY <1>2, <1>18 DEF Born
  <2>7. UpdateQueueStats(d, 1) /\ 1 \in {0, 1}
    BY <1>2, <1>18
  <2>8. CASE RunsInSameThread(d)
    <3>1. stack' = [stack EXCEPT ![th] = Below(th) \o <<c, e>>] /\ work_queue' = work_queue
      BY <1>2, <1>11, <1>18, <2>1, <2>8
    <3>2. stack' = PushOn(b, th, e)
      <4>1. stack' = PushOn(PushOn(Base(th), th, c), th, e)
        BY <1>1, <1>3, <3>1, TwoShape
      <4> QED
        BY <1>14, <4>1
    <3>3. stack' \in Stacks
      BY <3>2, PushIs
    <3>4. Control(stack', work_queue, life', calls)
      BY <1>15, <2>2, <2>5, <3>2, PushControl
    <3>5. RetainsBy(d, 1)
      BY <1>1, <1>12, <2>2, <3>1, TwoRetain DEF MemInv
    <3>6. Leaving' = Leaving
      BY <1>3, <1>1, <1>16, <2>2, <3>1, LeavingBecome
    <3>7. work_queue' \in Seq(UnitType) /\ Control(stack', work_queue', life', calls)
      BY <1>3, <3>1, <3>4, Zenon
    <3> QED
      BY <1>1, <1>2, <1>5, <1>6, <2>6, <2>7, <3>3, <3>5, <3>6, <3>7, BornStep, Zenon
  <2>9. CASE ~RunsInSameThread(d)
    <3>1. Become(th, c) /\ work_queue' = Append(work_queue, u)
      BY <1>2, <1>11, <1>18, <2>3, <2>9
    <3>2. stack' = b
      BY <1>3, <1>14, <3>1, ShapeIs
    <3>3. work_queue' \in Seq(UnitType) /\ stack' \in Stacks
      BY <1>3, <3>1, <3>2
    <3>4. Control(stack', work_queue', life', calls)
      BY <1>3, <1>15, <2>4, <2>5, <3>1, <3>2, QueueControl
    <3>5. RetainsBy(d, 1)
      BY <1>1, <1>12, <2>4, <3>1, BecomeRetains DEF MemInv
    <3>6. Leaving' = Leaving
      BY <1>3, <1>1, <1>16, <3>1, LeavingBecome
    <3> QED
      BY <1>1, <1>2, <1>5, <1>6, <2>6, <2>7, <3>3, <3>4, <3>5, <3>6, BornStep, Zenon
  <2> QED
    BY <2>8, <2>9
<1> QED
  BY <1>17, <1>18

-----------------------------------------------------------------------------
(* A released sbuf with memory of its own is deleted at once.              *)
LEMMA DeletedStep ==
  ASSUME MemInv, NEW th \in Threads, NEW s \in Sbufs, life[s] = "alive", ~Shares(s),
         Slices(s) = {}, Base(th) \in Stacks, Control(Base(th), work_queue, life, calls),
         Absent(Base(th), work_queue, s),
         stack' = Base(th), life' = [life EXCEPT ![s] = "deleted"],
         \A S : s \in S => Retains(S) \in Nat /\ Retains(S) >= 1,
         CountedBy(s, -1), Leaving' = Leaving,
         UNCHANGED <<threading, children, work_queue, dedupe, disk_write_errors,
                     calls, abandoned, fault>>
  PROVE  MemInv'
<1>0. /\ RetainsBy(s, -1) /\ UpdateQueueStats(s, -1)
      /\ reference_count' = [reference_count EXCEPT ![s] = @ + (-1)]
      /\ UNCHANGED <<threading, children, work_queue, dedupe, disk_write_errors,
                     calls, abandoned, fault>>
  BY DEF CountedBy
<1>1. /\ life \in [Sbufs -> {"unborn", "alive", "deleted"}] /\ reference_count \in [Sbufs -> Nat]
      /\ work_queue \in Seq(UnitType)
  BY TypedStacks DEF MemInv, TypeOK
<1>2. /\ life' \in [Sbufs -> {"unborn", "alive", "deleted"}] /\ life'[s] = "deleted"
      /\ \A r \in Sbufs : r # s => life'[r] = life[r]
  BY <1>1
<1>3. \A r \in Sbufs : r # s => reference_count'[r] = reference_count[r]
  BY <1>0, <1>1
<1>4. \A r : Slices(r)' = Slices(r)
  <2>1. \A d \in Derived : d \in Sbufs
    BY DEF Sbufs
  <2> QED
    BY <1>2, <2>1 DEF Slices, Shares
<1>5. ReferencesExact'
  <2>1. ASSUME NEW r \in Sbufs, life'[r] = "alive"
        PROVE  /\ reference_count'[r] = Retains({r})' + Cardinality(Slices(r))
               /\ children[r] = Cardinality(Slices(r) \ Leaving)
    <3>1. r # s /\ life[r] = "alive"
      BY <1>2, <2>1
    <3>2. /\ reference_count[r] = Retains({r}) + Cardinality(Slices(r))
          /\ children[r] = Cardinality(Slices(r) \ Leaving)
      BY <3>1 DEF MemInv, ReferencesExact
    <3>3. Retains({r}) \in Nat
      BY RetainsFinite DEF MemInv
    <3>4. Retains({r})' = Retains({r})
      BY <1>0, <3>1, <3>3 DEF RetainsBy
    <3> QED
      BY <1>3, <3>1, <3>2, <3>4
  <2> QED
    BY <1>0, <1>4, <2>1 DEF ReferencesExact
<1>6. StatsExact'
  <2>1. StatsExact
    BY DEF MemInv
  <2> QED
    BY <1>0, <2>1 DEF StatsExact, RetainsBy, UpdateQueueStats
<1>7. /\ reference_count' \in [Sbufs -> Nat]
      /\ sbufs_in_queue' \in Nat /\ depth0_sbufs_in_queue' \in Nat
  <2>1. -1 \in {1, -1}
    OBVIOUS
  <2> QED
    BY <2>1, CountedNat
<1>8. TypeOK'
  BY <1>0, <1>2, <1>7 DEF MemInv, TypeOK, Stacks, UnitType, dedupe
<1>9. Control(Base(th), work_queue, life', calls)
  <2>1. \A r \in Sbufs : life[r] = "alive" => life'[r] = "alive" \/ Absent(Base(th), work_queue, r)
    BY <1>2
  <2>2. \A d \in Derived : ~(life'[d] = "alive" /\ life[d] # "alive")
    BY <1>2 DEF Sbufs
  <2> QED
    BY <1>1, <2>1, <2>2, AgeControl
<1>10. Control(stack, work_queue, life, calls)'
  BY <1>0, <1>9
<1>11. SharesRight'
  <2>1. ASSUME NEW d \in Derived, Shares(d), life'[d] # "unborn"
        PROVE  ~NotScanned(calls, Parent[d]) /\ (life'[d] = "alive" => life'[Parent[d]] = "alive")
    <3>1. d \in Sbufs /\ Parent[d] \in Sbufs
      BY SbufsAssumption DEF Sbufs
    <3>2. d # s /\ life'[d] = life[d]
      BY <1>2, <2>1, <3>1
    <3>3. life[d] = "alive" => Parent[d] # s
      BY <2>1 DEF Slices
    <3> QED
      BY <1>2, <2>1, <3>1, <3>2, <3>3 DEF MemInv, SharesRight
  <2> QED
    BY <1>0, <2>1 DEF MemInv, SharesRight, Local, Shares
<1>12. Unborn'
  <2>1. ASSUME NEW r \in Sbufs, life'[r] = "unborn"
        PROVE  /\ NotScanned(calls, r) /\ reference_count'[r] = 0 /\ children[r] = 0
               /\ \A i \in 1..Len(abandoned) : abandoned[i] # r
    BY <1>2, <1>3, <2>1 DEF MemInv, Unborn
  <2> QED
    BY <1>0, <2>1 DEF Unborn
<1>13. fault' \notin {"children", "assert"}
  BY <1>0 DEF MemInv
<1> QED
  BY <1>5, <1>6, <1>8, <1>10, <1>11, <1>12, <1>13 DEF MemInv

(* ... which is so when it was held for the last time.                     *)
LEMMA LastRetain ==
  ASSUME MemInv, NEW th \in Threads, stack[th] # <<>>, Top(th).fn = "release",
         Retains({Top(th).sbuf}) = 1
  PROVE  Absent(Base(th), work_queue, Top(th).sbuf)
<1>s. PICK s : s = Top(th).sbuf
  OBVIOUS
<1>1. /\ stack \in Stacks /\ work_queue \in Seq(UnitType) /\ Base(th) \in Stacks
      /\ Soft(Base(th), work_queue, s)
  BY <1>s, TopIs
<1>k. PICK k : k = Len(stack[th]) - 1
  OBVIOUS
<1>2. k \in 0..Len(stack[th]) /\ Base(th) = CutTo(stack, th, k)
  BY <1>k, <1>1, BelowIs DEF Base
<1>3. Cut(stack, th, k, Base(th))
  <2>1. /\ Len(CutTo(stack, th, k)[th]) = k
        /\ \A i \in 1..k : CutTo(stack, th, k)[th][i] = stack[th][i]
        /\ \A t \in Threads \ {th} : CutTo(stack, th, k)[t] = stack[t]
    BY <1>1, <1>2, CutIs
  <2> QED
    BY <1>2, <2>1 DEF Cut
<1>4. /\ Cardinality(Held(stack, {s})) =
           Cardinality(Held(Base(th), {s})) + Cardinality(Above(stack[th], k, {s}))
  BY <1>1, <1>2, <1>3, HeldCut
<1>5. Cardinality(Above(stack[th], k, {s})) = 1
  <2>1. Cardinality(Above(stack[th], k, {s})) = One(Top(th), {s})
    BY <1>1, <1>k, OffTop
  <2>2. One(Top(th), {s}) = 1
    BY <1>s DEF One, Retained, RetainingCalls
  <2> QED
    BY <2>1, <2>2
<1>6. IsFiniteSet(Held(Base(th), {s})) /\ Cardinality(Held(Base(th), {s})) \in Nat
  BY <1>1, HeldFinite, FS_CardinalityType
<1>7. /\ Cardinality(Queued(work_queue, {s})) \in Nat
      /\ Cardinality(Held(stack, {s})) \in Nat
      /\ Cardinality(Lost(abandoned, {s})) \in Nat
  BY RetainsFinite DEF MemInv
<1>8. Retains({s}) = Cardinality(Queued(work_queue, {s})) + Cardinality(Held(stack, {s}))
                     + Cardinality(Lost(abandoned, {s}))
  BY RetainsAre
<1>9. Cardinality(Held(Base(th), {s})) = 0 /\ Cardinality(Queued(work_queue, {s})) = 0
  <2>1. Retains({s}) = 1
    BY <1>s
  <2> QED
    BY <1>4, <1>5, <1>6, <1>7, <1>8, <2>1
<1>10. Held(Base(th), {s}) = {} /\ Queued(work_queue, {s}) = {}
  <2>1. IsFiniteSet(Queued(work_queue, {s}))
    BY <1>1, QueuedFinite
  <2> QED
    BY <1>6, <1>9, <2>1, FS_EmptySet
<1>11. ASSUME NEW t \in Threads, NEW i \in 1..Len(Base(th)[t]), Base(th)[t][i].sbuf = s
       PROVE  FALSE
  <2>1. Base(th)[t][i].fn \notin SoleCalls /\ Base(th)[t][i] \in CallType
    BY <1>1, <1>11 DEF Soft, Stacks
  <2>2. Base(th)[t][i].fn \in RetainingCalls
    BY <2>1 DEF CallType, SoleCalls, RetainingCalls
  <2>3. <<t, i>> \in Held(Base(th), {s})
    BY <1>1, <1>11, <2>2, HeldAre DEF Retained
  <2> QED
    BY <1>10, <2>3
<1>12. ASSUME NEW j \in 1..Len(work_queue), work_queue[j].sbuf = s PROVE FALSE
  <2>1. j \in Queued(work_queue, {s})
    BY <1>1, <1>12 DEF Queued
  <2> QED
    BY <1>10, <2>1
<1> QED
  BY <1>s, <1>11, <1>12 DEF Absent

LEMMA ReleaseSbufStep ==
  ASSUME MemInv, NEW th \in Threads, Release(th)
  PROVE  MemInv'
<1>s. PICK s : s = Top(th).sbuf
  OBVIOUS
<1>1. /\ stack[th] # <<>> /\ Top(th).fn = "release"
      /\ UpdateQueueStats(s, -1)
      /\ reference_count' = [reference_count EXCEPT ![s] = @ - 1]
      /\ IF reference_count[s] = 1
         THEN Destroy(th, s)
         ELSE Return(th) /\ UNCHANGED <<life, fault>>
      /\ UNCHANGED <<threading, children, work_queue, dedupe, disk_write_errors,
                     calls, abandoned>>
  BY <1>s DEF Release, In
<1>2. /\ stack \in Stacks /\ work_queue \in Seq(UnitType)
      /\ Top(th) \in CallType /\ s \in Sbufs /\ CallRight(life, calls, Top(th))
      /\ Base(th) \in Stacks
      /\ Control(Base(th), work_queue, life, calls)
      /\ Soft(Base(th), work_queue, s)
      /\ Base(th)[th] # <<>> => Base(th)[th][Len(Base(th)[th])].fn \in WaitingCalls
  BY <1>s, <1>1, TopIs
<1>3. life[s] = "alive" /\ Weight(Top(th)) = 1
  BY <1>s, <1>1, <1>2 DEF CallRight, Weight, RetainingCalls
<1>4. \A S : s \in S => Retains(S) \in Nat /\ Retains(S) >= 1
  BY <1>s, <1>1, RetainsSome DEF MemInv, RetainingCalls
<1>5. reference_count' = [reference_count EXCEPT ![s] = @ + (-1)]
  BY <1>1, <1>2 DEF MemInv, TypeOK
<1>6. -1 \in {1, -1}
  OBVIOUS
<1>7. CASE reference_count[s] # 1
  <2>1. Return(th) /\ OnlyCounted /\ work_queue' = work_queue
    BY <1>1, <1>7 DEF OnlyCounted
  <2>2. stack' = Base(th)
    BY <1>2, <2>1, ShapeIs
  <2>3. RetainsBy(s, -1)
    <3>1. RetainsBy(s, - Weight(Top(th)))
      BY <1>s, <1>1, <2>1, ReturnRetains DEF MemInv
    <3> QED
      BY <1>3, <3>1
  <2>4. CountedBy(s, -1)
    BY <1>1, <1>5, <2>3, Zenon DEF CountedBy
  <2>5. Leaving' = Leaving
    BY <1>1, <1>2, <2>1, LeavingBecome
  <2>6. stack' \in Stacks /\ work_queue' \in Seq(UnitType)
        /\ Control(stack', work_queue', life, calls)
    BY <1>2, <2>1, <2>2, Zenon
  <2> QED
    BY <1>2, <1>3, <1>4, <1>6, <2>1, <2>4, <2>5, <2>6, CountedStep
<1>8. CASE reference_count[s] = 1
  <2>1. Retains({s}) = 1 /\ Slices(s) = {}
    <3>1. reference_count[s] = Retains({s}) + Cardinality(Slices(s))
      BY <1>2, <1>3 DEF MemInv, ReferencesExact
    <3>2. Retains({s}) \in Nat /\ Retains({s}) >= 1
      BY <1>4
    <3>3. IsFiniteSet(Slices(s)) /\ Cardinality(Slices(s)) \in Nat
      BY SlicesFinite
    <3>4. Retains({s}) = 1 /\ Cardinality(Slices(s)) = 0
      BY <1>8, <3>1, <3>2, <3>3
    <3> QED
      BY <3>3, <3>4, FS_EmptySet
  <2>2. children[s] = 0
    BY <1>2, <1>3, <2>1, NoSlices
  <2>3. Absent(Base(th), work_queue, s)
    BY <1>s, <1>1, <2>1, LastRetain
  <2>4. /\ fault' = fault /\ work_queue' = work_queue
        /\ IF Shares(s)
           THEN Become(th, Call("del", s, NoScanner, {})) /\ UNCHANGED life
           ELSE Return(th) /\ life' = [life EXCEPT ![s] = "deleted"]
    BY <1>1, <1>8, <2>2 DEF Destroy
  <2>5. CASE Shares(s)
    <3>1. PICK c \in CallType : c = Call("del", s, NoScanner, {})
      BY <1>2 DEF CallType, Call
    <3>2. c.sbuf = s /\ c.fn = "del" /\ Weight(c) = 0
      BY <3>1 DEF Call, Weight, RetainingCalls
    <3>3. Become(th, c) /\ OnlyCounted
      BY <1>1, <2>4, <2>5, <3>1 DEF OnlyCounted
    <3>4. CallRight(life, calls, c)
      <4>1. Sliceless(life, s)
        BY <2>1 DEF Slices, Sliceless
      <4> QED
        BY <1>3, <2>5, <3>2, <4>1 DEF CallRight
    <3>5. stack' = PushOn(Base(th), th, c)
      BY <1>2, <3>3, ShapeIs
    <3>6. stack' \in Stacks /\ Control(stack', work_queue, life, calls)
      BY <1>2, <2>3, <3>2, <3>4, <3>5, PushIs, PushControl
    <3>7. RetainsBy(s, -1)
      <4>1. RetainsBy(s, Weight(c) - Weight(Top(th)))
        BY <1>s, <1>1, <2>4, <3>2, <3>3, BecomeRetains DEF MemInv
      <4> QED
        BY <1>3, <3>2, <4>1
    <3>8. CountedBy(s, -1)
      BY <1>1, <1>5, <3>7, Zenon DEF CountedBy
    <3>9. Leaving' = Leaving
      BY <1>1, <1>2, <3>2, <3>3, LeavingBecome
    <3>10. work_queue' \in Seq(UnitType) /\ Control(stack', work_queue', life, calls)
      BY <1>2, <2>4, <3>6, Zenon
    <3> QED
      BY <1>2, <1>3, <1>4, <1>6, <3>3, <3>6, <3>8, <3>9, <3>10, CountedStep
  <2>6. CASE ~Shares(s)
    <3>1. Return(th) /\ life' = [life EXCEPT ![s] = "deleted"]
          /\ UNCHANGED <<threading, children, work_queue, dedupe, disk_write_errors,
                         calls, abandoned, fault>>
      BY <1>1, <2>4, <2>6
    <3>2. stack' = Base(th)
      BY <1>2, <3>1, ShapeIs
    <3>3. RetainsBy(s, -1)
      <4>1. RetainsBy(s, - Weight(Top(th)))
        BY <1>s, <1>1, <3>1, ReturnRetains DEF MemInv
      <4> QED
        BY <1>3, <4>1
    <3>4. CountedBy(s, -1)
      BY <1>1, <1>5, <3>3, Zenon DEF CountedBy
    <3>5. Leaving' = Leaving
      BY <1>1, <1>2, <3>1, LeavingBecome
    <3> QED
      BY <1>2, <1>3, <1>4, <1>6, <2>1, <2>3, <2>6, <3>1, <3>2, <3>4, <3>5, DeletedStep
  <2> QED
    BY <2>5, <2>6
<1> QED
  BY <1>7, <1>8

(* A step that counts nothing, and whose calls are in order.               *)
LEMMA QuietStep ==
  ASSUME MemInv, RetainsSame, Leaving' = Leaving,
         UNCHANGED <<threading, life, reference_count, children, counters, work_queue,
                     dedupe, disk_write_errors, fault, calls, abandoned>>,
         stack' \in Stacks, Control(stack', work_queue, life, calls)
  PROVE  MemInv'
<1>1. ReferencesExact' /\ StatsExact'
  BY CountsSame DEF MemInv
<1>2. TypeOK'
  BY DEF MemInv, TypeOK, Stacks, counters, dedupe
<1>3. Control(stack, work_queue, life, calls)'
  OBVIOUS
<1>4. SharesRight' /\ Unborn'
  BY DEF MemInv, SharesRight, Unborn, Local, Shares
<1> QED
  BY <1>1, <1>2, <1>3, <1>4 DEF MemInv

(* A local slice was never scanned, so nothing was cut from it: it leaves  *)
(* its parent.                                                             *)
LEMMA LocalEndsStep ==
  ASSUME MemInv, NEW th \in Threads, LocalEnds(th)
  PROVE  MemInv'
<1>s. PICK s : s = Top(th).sbuf
  OBVIOUS
<1>1. /\ stack[th] # <<>> /\ Top(th).fn = "local" /\ Destroy(th, s)
      /\ UNCHANGED <<threading, reference_count, children, counters, work_queue,
                     dedupe, disk_write_errors, calls, abandoned>>
  BY <1>s DEF LocalEnds, In
<1>2. /\ stack \in Stacks /\ work_queue \in Seq(UnitType)
      /\ s \in Sbufs /\ CallRight(life, calls, Top(th))
      /\ Base(th) \in Stacks
      /\ Control(Base(th), work_queue, life, calls)
      /\ Soft(Base(th), work_queue, s)
      /\ Top(th).fn \in SoleCalls => Absent(Base(th), work_queue, s)
      /\ Base(th)[th] # <<>> => Base(th)[th][Len(Base(th)[th])].fn \in WaitingCalls
  BY <1>s, <1>1, TopIs
<1>3. life[s] = "alive" /\ Local(s) /\ Shares(s)
  BY <1>s, <1>1, <1>2 DEF CallRight
<1>4. Slices(s) = {} /\ children[s] = 0
  <2>1. NotScanned(calls, s)
    BY <1>2, <1>3 DEF MemInv, SharesRight
  <2> QED
    BY <1>2, <1>3, <2>1, NoSlices
<1>5. PICK c \in CallType : c = Call("del", s, NoScanner, {})
  BY <1>2 DEF CallType, Call
<1>6. c.sbuf = s /\ c.fn = "del" /\ Weight(c) = 0 /\ Weight(Top(th)) = 0
  BY <1>1, <1>5 DEF Call, Weight, RetainingCalls
<1>7. Become(th, c) /\ UNCHANGED <<life, fault>>
  BY <1>1, <1>3, <1>4, <1>5 DEF Destroy
<1>8. CallRight(life, calls, c)
  <2>1. Sliceless(life, s)
    BY <1>4 DEF Slices, Sliceless
  <2> QED
    BY <1>3, <1>6, <2>1 DEF CallRight
<1>9. stack' = PushOn(Base(th), th, c)
  BY <1>2, <1>7, ShapeIs
<1>10. stack' \in Stacks /\ Control(stack', work_queue, life, calls)
  <2>1. Absent(Base(th), work_queue, s)
    BY <1>1, <1>2 DEF SoleCalls
  <2> QED
    BY <1>2, <1>6, <1>8, <1>9, <2>1, PushIs, PushControl
<1>11. RetainsSame
  <2>1. RetainsBy(s, Weight(c) - Weight(Top(th)))
    BY <1>s, <1>1, <1>6, <1>7, BecomeRetains DEF MemInv
  <2>2. \A S : Retains(S) \in Nat
    BY RetainsFinite DEF MemInv
  <2> QED
    BY <1>6, <2>1, <2>2 DEF RetainsBy, RetainsSame
<1>12. Leaving' = Leaving
  BY <1>1, <1>2, <1>6, <1>7, LeavingBecome
<1> QED
  BY <1>1, <1>7, <1>10, <1>11, <1>12, QuietStep

(* What leaves its parent, when the top call is replaced or returns.       *)
LEMMA LeavingMoved ==
  ASSUME stack \in Stacks, NEW th \in Threads, stack[th] # <<>>, Base(th) \in Stacks, NEW x
  PROVE  /\ x \in Leaving <=>
              x \in LeavingOf(Base(th)) \/ (Top(th).fn = "unref" /\ x = Top(th).sbuf)
         /\ \A c \in CallType : stack' = PushOn(Base(th), th, c) =>
              (x \in Leaving' <=> x \in LeavingOf(Base(th)) \/ (c.fn = "unref" /\ x = c.sbuf))
         /\ stack' = Base(th) => (x \in Leaving' <=> x \in LeavingOf(Base(th)))
<1>k. PICK k : k = Len(stack[th]) - 1
  OBVIOUS
<1>1. /\ Len(stack[th]) \in Nat \ {0} /\ Len(stack[th]) \in 1..Len(stack[th])
      /\ k \in 0..Len(stack[th]) /\ k + 1 = Len(stack[th]) /\ Base(th) = CutTo(stack, th, k)
      /\ Top(th) = stack[th][Len(stack[th])]
  BY <1>k, BelowIs DEF Base
<1>2. /\ Len(Base(th)[th]) = k
      /\ \A i \in 1..k : Base(th)[th][i] = stack[th][i]
      /\ \A t \in Threads \ {th} : Base(th)[t] = stack[t]
  BY <1>1, CutIs
<1>3. x \in LeavingOf(Base(th)) <=> \E t \in Threads : \E i \in 1..Len(Base(th)[t]) :
        Base(th)[t][i].fn = "unref" /\ Base(th)[t][i].sbuf = x
  BY LeavingIn
<1>4. x \in Leaving <=> x \in LeavingOf(Base(th)) \/ (Top(th).fn = "unref" /\ x = Top(th).sbuf)
  <2>1. x \in Leaving <=> \E t \in Threads : \E i \in 1..Len(stack[t]) :
          stack[t][i].fn = "unref" /\ stack[t][i].sbuf = x
    BY LeavingAre
  <2>2. ASSUME NEW t \in Threads, NEW i \in 1..Len(stack[t])
        PROVE  \/ t = th /\ i = Len(stack[th])
               \/ i \in 1..Len(Base(th)[t]) /\ Base(th)[t][i] = stack[t][i]
    <3>1. CASE t = th
      <4>1. i = Len(stack[th]) \/ i \in 1..k
        BY <1>1, <3>1
      <4> QED
        BY <1>2, <3>1, <4>1
    <3>2. CASE t # th
      BY <1>2, <3>2
    <3> QED
      BY <3>1, <3>2
  <2>3. ASSUME NEW t \in Threads, NEW i \in 1..Len(Base(th)[t])
        PROVE  i \in 1..Len(stack[t]) /\ Base(th)[t][i] = stack[t][i]
    <3>1. CASE t = th
      BY <1>1, <1>2, <3>1
    <3>2. CASE t # th
      BY <1>2, <3>2
    <3> QED
      BY <3>1, <3>2
  <2>4. ASSUME x \in Leaving
        PROVE  x \in LeavingOf(Base(th)) \/ (Top(th).fn = "unref" /\ x = Top(th).sbuf)
    <3>1. PICK t \in Threads :
            \E i \in 1..Len(stack[t]) : stack[t][i].fn = "unref" /\ stack[t][i].sbuf = x
      BY <2>1, <2>4
    <3>2. PICK i \in 1..Len(stack[t]) : stack[t][i].fn = "unref" /\ stack[t][i].sbuf = x
      BY <3>1
    <3>3. CASE t = th /\ i = Len(stack[th])
      BY <1>1, <3>2, <3>3
    <3>4. CASE i \in 1..Len(Base(th)[t]) /\ Base(th)[t][i] = stack[t][i]
      BY <1>3, <3>2, <3>4
    <3> QED
      BY <2>2, <3>3, <3>4
  <2>5. ASSUME x \in LeavingOf(Base(th)) PROVE x \in Leaving
    <3>1. PICK t \in Threads :
            \E i \in 1..Len(Base(th)[t]) : Base(th)[t][i].fn = "unref" /\ Base(th)[t][i].sbuf = x
      BY <1>3, <2>5
    <3> QED
      BY <2>1, <2>3, <3>1
  <2>6. ASSUME Top(th).fn = "unref", x = Top(th).sbuf PROVE x \in Leaving
    BY <1>1, <2>1, <2>6
  <2> QED
    BY <2>4, <2>5, <2>6
<1>5. ASSUME NEW c \in CallType, stack' = PushOn(Base(th), th, c)
      PROVE  x \in Leaving' <=> x \in LeavingOf(Base(th)) \/ (c.fn = "unref" /\ x = c.sbuf)
  <2>1. /\ stack' \in Stacks /\ Len(stack'[th]) = k + 1
        /\ \A i \in 1..k : stack'[th][i] = Base(th)[th][i]
        /\ stack'[th][k + 1] = c
        /\ \A t \in Threads \ {th} : stack'[t] = Base(th)[t]
    BY <1>2, <1>5, PushIs
  <2>2. x \in Leaving' <=> \E t \in Threads : \E i \in 1..Len(stack'[t]) :
          stack'[t][i].fn = "unref" /\ stack'[t][i].sbuf = x
    BY <2>1, LeavingAre
  <2>3. ASSUME NEW t \in Threads, NEW i \in 1..Len(stack'[t])
        PROVE  \/ t = th /\ i = k + 1
               \/ i \in 1..Len(Base(th)[t]) /\ Base(th)[t][i] = stack'[t][i]
    <3>1. CASE t = th
      <4>1. i = k + 1 \/ i \in 1..k
        BY <1>1, <2>1, <3>1
      <4> QED
        BY <1>2, <2>1, <3>1, <4>1
    <3>2. CASE t # th
      BY <2>1, <3>2
    <3> QED
      BY <3>1, <3>2
  <2>4. ASSUME NEW t \in Threads, NEW i \in 1..Len(Base(th)[t])
        PROVE  i \in 1..Len(stack'[t]) /\ Base(th)[t][i] = stack'[t][i]
    <3>1. CASE t = th
      BY <1>1, <1>2, <2>1, <3>1
    <3>2. CASE t # th
      BY <2>1, <3>2
    <3> QED
      BY <3>1, <3>2
  <2>5. k + 1 \in 1..Len(stack'[th])
    BY <1>1, <2>1
  <2> QED
    BY <1>3, <2>1, <2>2, <2>3, <2>4, <2>5
<1>6. ASSUME stack' = Base(th) PROVE x \in Leaving' <=> x \in LeavingOf(Base(th))
  <2>1. x \in Leaving' <=> \E t \in Threads : \E i \in 1..Len(stack'[t]) :
          stack'[t][i].fn = "unref" /\ stack'[t][i].sbuf = x
    BY <1>6, LeavingAre
  <2> QED
    BY <1>3, <1>6, <2>1
<1> QED
  BY <1>4, <1>5, <1>6

LEMMA NotLeaving ==
  ASSUME NEW st \in Stacks, NEW q, NEW s, Absent(st, q, s)
  PROVE  s \notin LeavingOf(st)
BY LeavingIn DEF Absent

(* A slice takes itself off its parent's children ...                      *)
LEMMA DelChildStep ==
  ASSUME MemInv, NEW th \in Threads, DelChild(th)
  PROVE  MemInv'
<1>s. PICK s : s = Top(th).sbuf
  OBVIOUS
<1>p. PICK p : p = Parent[s]
  OBVIOUS
<1>1. /\ stack[th] # <<>> /\ Top(th).fn = "del"
      /\ children' = [children EXCEPT ![p] = @ - 1]
      /\ Become(th, [Top(th) EXCEPT !.fn = "unref"])
      /\ UNCHANGED <<threading, life, reference_count, counters, work_queue,
                     dedupe, disk_write_errors, fault, calls, abandoned>>
  BY <1>s, <1>p DEF DelChild, In
<1>2. /\ stack \in Stacks /\ work_queue \in Seq(UnitType) /\ Top(th) \in CallType
      /\ s \in Sbufs /\ CallRight(life, calls, Top(th))
      /\ Base(th) \in Stacks
      /\ Control(Base(th), work_queue, life, calls)
      /\ Soft(Base(th), work_queue, s)
      /\ Top(th).fn \in SoleCalls => Absent(Base(th), work_queue, s)
      /\ Base(th)[th] # <<>> => Base(th)[th][Len(Base(th)[th])].fn \in WaitingCalls
  BY <1>s, <1>1, TopIs
<1>3. /\ life[s] = "alive" /\ Shares(s) /\ Sliceless(life, s)
      /\ Absent(Base(th), work_queue, s)
  BY <1>s, <1>1, <1>2 DEF CallRight, SoleCalls
<1>4. s \in Derived /\ p \in Sbufs /\ life[p] = "alive" /\ ~NotScanned(calls, p)
  <2>1. s \in Derived
    BY <1>3 DEF Shares
  <2> QED
    BY <1>p, <1>3, <2>1, SbufsAssumption DEF MemInv, SharesRight
<1>5. PICK c : c = [Top(th) EXCEPT !.fn = "unref"]
  OBVIOUS
<1>6. /\ c \in CallType /\ c.sbuf = s /\ c.fn = "unref"
      /\ Weight(c) = 0 /\ Weight(Top(th)) = 0
  <2>1. c \in CallType /\ c.sbuf = s /\ c.fn = "unref"
    BY <1>s, <1>2, <1>5 DEF CallType
  <2> QED
    BY <1>1, <2>1 DEF Weight, RetainingCalls
<1>7. Become(th, c) /\ stack' = PushOn(Base(th), th, c)
  BY <1>1, <1>2, <1>5, ShapeIs
<1>8. CallRight(life, calls, c)
  BY <1>3, <1>6 DEF CallRight
<1>9. stack' \in Stacks /\ Control(stack', work_queue, life, calls)
  BY <1>2, <1>3, <1>6, <1>7, <1>8, PushIs, PushControl
<1>10. RetainsSame
  <2>1. RetainsBy(s, Weight(c) - Weight(Top(th)))
    BY <1>s, <1>1, <1>6, <1>7, BecomeRetains DEF MemInv
  <2>2. \A S : Retains(S) \in Nat
    BY RetainsFinite DEF MemInv
  <2> QED
    BY <1>6, <2>1, <2>2 DEF RetainsBy, RetainsSame
<1>11. s \notin Leaving /\ \A x : x \in Leaving' <=> x \in Leaving \/ x = s
  <2>1. s \notin LeavingOf(Base(th))
    BY <1>2, <1>3, NotLeaving
  <2>2. \A x : x \in Leaving <=> x \in LeavingOf(Base(th))
    BY <1>1, <1>2, LeavingMoved
  <2>3. \A x : x \in Leaving' <=> x \in LeavingOf(Base(th)) \/ x = s
    BY <1>1, <1>2, <1>6, <1>7, LeavingMoved
  <2> QED
    BY <2>1, <2>2, <2>3
<1>12. /\ \A r : Slices(r)' = Slices(r) /\ (s \in Slices(r) => r = p)
       /\ s \in Slices(p)
  BY <1>p, <1>1, <1>3, <1>4 DEF Slices, Shares
<1>13. /\ children[p] = Cardinality(Slices(p) \ Leaving) /\ children[p] \in Nat
       /\ children[p] >= 1 /\ Cardinality(Slices(p) \ Leaving') = children[p] - 1
  <2>1. children[p] = Cardinality(Slices(p) \ Leaving)
    BY <1>4 DEF MemInv, ReferencesExact
  <2>2. IsFiniteSet(Slices(p) \ Leaving)
    BY SlicesFinite
  <2>3. s \in Slices(p) \ Leaving /\ Slices(p) \ Leaving' = (Slices(p) \ Leaving) \ {s}
    BY <1>11, <1>12
  <2>4. Cardinality((Slices(p) \ Leaving) \ {s}) = Cardinality(Slices(p) \ Leaving) - 1
    BY <2>2, <2>3, FS_RemoveElement
  <2>5. Cardinality(Slices(p) \ Leaving) \in Nat /\ Cardinality(Slices(p) \ Leaving) # 0
    BY <2>2, <2>3, FS_CardinalityType, FS_EmptySet
  <2>6. Cardinality(Slices(p) \ Leaving') = Cardinality((Slices(p) \ Leaving) \ {s})
    BY <2>3, Zenon
  <2> QED
    BY <2>1, <2>4, <2>5, <2>6
<1>14. children \in [Sbufs -> Nat]
  BY DEF MemInv, TypeOK
<1>15. /\ children' \in [Sbufs -> Nat] /\ children'[p] = children[p] - 1
       /\ \A r \in Sbufs : r # p => children'[r] = children[r]
  <2>1. children[p] - 1 \in Nat
    BY <1>13
  <2> QED
    BY <1>1, <1>4, <1>14, <2>1
<1>16. ReferencesExact'
  <2>1. ASSUME NEW r \in Sbufs, life[r] = "alive"
        PROVE  /\ reference_count[r] = Retains({r})' + Cardinality(Slices(r))
               /\ children'[r] = Cardinality(Slices(r) \ Leaving')
    <3>1. /\ reference_count[r] = Retains({r}) + Cardinality(Slices(r))
          /\ children[r] = Cardinality(Slices(r) \ Leaving)
      BY <2>1 DEF MemInv, ReferencesExact
    <3>2. Retains({r})' = Retains({r})
      BY <1>10 DEF RetainsSame
    <3>3. r # p => Slices(r) \ Leaving' = Slices(r) \ Leaving
      BY <1>11, <1>12
    <3>4. children'[r] = Cardinality(Slices(r) \ Leaving')
      <4>1. CASE r = p
        BY <1>13, <1>15, <4>1
      <4>2. CASE r # p
        BY <1>15, <3>1, <3>3, <4>2
      <4> QED
        BY <4>1, <4>2
    <3> QED
      BY <3>1, <3>2, <3>4
  <2>2. \A r : Slices(r)' = Slices(r)
    BY <1>12
  <2> QED
    BY <1>1, <2>1, <2>2 DEF ReferencesExact
<1>17. StatsExact'
  <2>1. StatsExact /\ \A S : Retains(S)' = Retains(S)
    BY <1>10 DEF MemInv, RetainsSame
  <2> QED
    BY <1>1, <2>1 DEF StatsExact, counters
<1>18. TypeOK'
  BY <1>1, <1>9, <1>15 DEF MemInv, TypeOK, Stacks, counters, dedupe
<1>19. Control(stack, work_queue, life, calls)'
  BY <1>1, <1>9
<1>20. SharesRight' /\ Unborn'
  <2>1. SharesRight'
    BY <1>1 DEF MemInv, SharesRight, Local, Shares
  <2>2. \A r \in Sbufs : life[r] = "unborn" => children'[r] = children[r]
    BY <1>4, <1>15
  <2>3. Unborn'
    BY <1>1, <2>2 DEF MemInv, Unborn
  <2> QED
    BY <2>1, <2>3
<1>21. fault' \notin {"children", "assert"}
  BY <1>1 DEF MemInv
<1> QED
  BY <1>16, <1>17, <1>18, <1>19, <1>20, <1>21 DEF MemInv

(* ... and then off the parent's references, and is gone.                  *)
LEMMA UnrefStep ==
  ASSUME MemInv, NEW th \in Threads, UnrefParent(th)
  PROVE  MemInv'
<1>s. PICK s : s = Top(th).sbuf
  OBVIOUS
<1>p. PICK p : p = Parent[s]
  OBVIOUS
<1>1. /\ stack[th] # <<>> /\ Top(th).fn = "unref" /\ Return(th)
      /\ reference_count' = [reference_count EXCEPT ![p] = @ - 1]
      /\ life' = [life EXCEPT ![s] = "deleted"]
      /\ UNCHANGED <<threading, children, counters, work_queue, dedupe,
                     disk_write_errors, fault, calls, abandoned>>
  BY <1>s, <1>p DEF UnrefParent, In
<1>2. /\ stack \in Stacks /\ work_queue \in Seq(UnitType) /\ Top(th) \in CallType
      /\ s \in Sbufs /\ CallRight(life, calls, Top(th))
      /\ Base(th) \in Stacks
      /\ Control(Base(th), work_queue, life, calls)
      /\ Top(th).fn \in SoleCalls => Absent(Base(th), work_queue, s)
  BY <1>s, <1>1, TopIs
<1>3. /\ life[s] = "alive" /\ Shares(s) /\ Sliceless(life, s)
      /\ Absent(Base(th), work_queue, s)
  BY <1>s, <1>1, <1>2 DEF CallRight, SoleCalls
<1>4. s \in Derived /\ p \in Sbufs /\ life[p] = "alive" /\ p # s
  <2>1. s \in Derived
    BY <1>3 DEF Shares
  <2>2. p \in Sbufs /\ life[p] = "alive"
    BY <1>p, <1>3, <2>1, SbufsAssumption DEF MemInv, SharesRight
  <2> QED
    BY <1>p, <1>3, <2>1, <2>2 DEF Sliceless
<1>5. stack' = Base(th)
  BY <1>1, <1>2, ShapeIs
<1>6. life \in [Sbufs -> {"unborn", "alive", "deleted"}] /\ reference_count \in [Sbufs -> Nat]
  BY DEF MemInv, TypeOK
<1>7. /\ life' \in [Sbufs -> {"unborn", "alive", "deleted"}] /\ life'[s] = "deleted"
      /\ \A r \in Sbufs : r # s => life'[r] = life[r]
  BY <1>1, <1>2, <1>6
<1>8. RetainsSame
  <2>1. RetainsBy(s, - Weight(Top(th)))
    BY <1>s, <1>1, ReturnRetains DEF MemInv
  <2>2. Weight(Top(th)) = 0
    BY <1>1 DEF Weight, RetainingCalls
  <2>3. \A S : Retains(S) \in Nat
    BY RetainsFinite DEF MemInv
  <2> QED
    BY <2>1, <2>2, <2>3 DEF RetainsBy, RetainsSame
<1>9. \A x : x \in Leaving' <=> x \in Leaving /\ x # s
  <2>1. s \notin LeavingOf(Base(th))
    BY <1>2, <1>3, NotLeaving
  <2>2. \A x : x \in Leaving <=> x \in LeavingOf(Base(th)) \/ x = s
    BY <1>s, <1>1, <1>2, LeavingMoved
  <2>3. \A x : x \in Leaving' <=> x \in LeavingOf(Base(th))
    BY <1>1, <1>2, <1>5, LeavingMoved
  <2> QED
    BY <2>1, <2>2, <2>3
<1>10. s \in Leaving
  BY <1>s, <1>1, <1>2, LeavingMoved
<1>11. \A r : Slices(r)' = Slices(r) \ {s}
  <2>1. \A d \in Derived : d \in Sbufs
    BY DEF Sbufs
  <2> QED
    BY <1>7, <2>1 DEF Slices, Shares
<1>12. \A r : r # p => Slices(r)' = Slices(r)
  <2>1. \A r : r # p => s \notin Slices(r)
    BY <1>p DEF Slices
  <2> QED
    BY <1>11, <2>1
<1>13. \A r : Slices(r)' \ Leaving' = Slices(r) \ Leaving
  BY <1>9, <1>10, <1>11
<1>14. /\ Cardinality(Slices(p)') = Cardinality(Slices(p)) - 1
       /\ Cardinality(Slices(p)) \in Nat /\ Cardinality(Slices(p)) >= 1
  <2>1. s \in Slices(p) /\ IsFiniteSet(Slices(p))
    BY <1>p, <1>3, <1>4, SlicesFinite DEF Slices
  <2>2. Cardinality(Slices(p) \ {s}) = Cardinality(Slices(p)) - 1
    BY <2>1, FS_RemoveElement
  <2>3. Cardinality(Slices(p)) \in Nat /\ Cardinality(Slices(p)) # 0
    BY <2>1, FS_CardinalityType, FS_EmptySet
  <2>4. Cardinality(Slices(p)') = Cardinality(Slices(p) \ {s})
    BY <1>11, Zenon
  <2> QED
    BY <2>2, <2>3, <2>4
<1>15. /\ reference_count[p] = Retains({p}) + Cardinality(Slices(p))
       /\ Retains({p}) \in Nat /\ reference_count[p] - 1 \in Nat
  <2>1. reference_count[p] = Retains({p}) + Cardinality(Slices(p))
    BY <1>4 DEF MemInv, ReferencesExact
  <2>2. Retains({p}) \in Nat
    BY RetainsFinite DEF MemInv
  <2> QED
    BY <1>14, <2>1, <2>2
<1>16. /\ reference_count' \in [Sbufs -> Nat] /\ reference_count'[p] = reference_count[p] - 1
       /\ \A r \in Sbufs : r # p => reference_count'[r] = reference_count[r]
  BY <1>1, <1>4, <1>6, <1>15
<1>17. ReferencesExact'
  <2>1. ASSUME NEW r \in Sbufs, life'[r] = "alive"
        PROVE  /\ reference_count'[r] = Retains({r})' + Cardinality(Slices(r)')
               /\ children[r] = Cardinality(Slices(r)' \ Leaving')
    <3>1. life[r] = "alive"
      BY <1>7, <2>1
    <3>2. /\ reference_count[r] = Retains({r}) + Cardinality(Slices(r))
          /\ children[r] = Cardinality(Slices(r) \ Leaving)
      BY <3>1 DEF MemInv, ReferencesExact
    <3>3. Retains({r})' = Retains({r})
      BY <1>8 DEF RetainsSame
    <3>4. children[r] = Cardinality(Slices(r)' \ Leaving')
      BY <1>13, <3>2, Zenon
    <3>5. CASE r = p
      BY <1>14, <1>15, <1>16, <3>3, <3>4, <3>5
    <3>6. CASE r # p
      <4>1. Cardinality(Slices(r)') = Cardinality(Slices(r))
        BY <1>12, <3>6, Zenon
      <4> QED
        BY <1>16, <3>2, <3>3, <3>4, <3>6, <4>1
    <3> QED
      BY <3>5, <3>6
  <2> QED
    BY <1>1, <2>1 DEF ReferencesExact
<1>18. StatsExact'
  <2>1. StatsExact /\ \A S : Retains(S)' = Retains(S)
    BY <1>8 DEF MemInv, RetainsSame
  <2> QED
    BY <1>1, <2>1 DEF StatsExact, counters
<1>19. TypeOK'
  BY <1>1, <1>2, <1>5, <1>7, <1>16 DEF MemInv, TypeOK, Stacks, counters, dedupe
<1>20. Control(Base(th), work_queue, life', calls)
  <2>1. \A r \in Sbufs : life[r] = "alive" => life'[r] = "alive" \/ Absent(Base(th), work_queue, r)
    BY <1>3, <1>7
  <2>2. \A d \in Derived : ~(life'[d] = "alive" /\ life[d] # "alive")
    BY <1>7 DEF Sbufs
  <2> QED
    BY <1>2, <2>1, <2>2, AgeControl
<1>21. Control(stack, work_queue, life, calls)'
  BY <1>1, <1>5, <1>20
<1>22. SharesRight'
  <2>1. ASSUME NEW d \in Derived, Shares(d), life'[d] # "unborn"
        PROVE  ~NotScanned(calls, Parent[d]) /\ (life'[d] = "alive" => life'[Parent[d]] = "alive")
    <3>1. d \in Sbufs /\ Parent[d] \in Sbufs
      BY SbufsAssumption DEF Sbufs
    <3>2. life[d] # "unborn" /\ (life'[d] = "alive" => life[d] = "alive")
      BY <1>3, <1>7, <2>1, <3>1
    <3>3. life[d] = "alive" => Parent[d] # s
      BY <1>3, <2>1 DEF Sliceless
    <3> QED
      BY <1>7, <2>1, <3>1, <3>2, <3>3 DEF MemInv, SharesRight
  <2> QED
    BY <1>1, <2>1 DEF MemInv, SharesRight, Local, Shares
<1>23. Unborn'
  <2>1. ASSUME NEW r \in Sbufs, life'[r] = "unborn"
        PROVE  /\ NotScanned(calls, r) /\ reference_count'[r] = 0 /\ children[r] = 0
               /\ \A i \in 1..Len(abandoned) : abandoned[i] # r
    <3>1. r # s /\ life[r] = "unborn" /\ r # p
      BY <1>4, <1>7, <2>1
    <3> QED
      BY <1>16, <3>1 DEF MemInv, Unborn
  <2> QED
    BY <1>1, <2>1 DEF Unborn
<1>24. fault' \notin {"children", "assert"}
  BY <1>1 DEF MemInv
<1> QED
  BY <1>17, <1>18, <1>19, <1>21, <1>22, <1>23, <1>24 DEF MemInv

-----------------------------------------------------------------------------
(* What a DiskWriteError leaves behind.                                    *)

(* A call above the catcher retains its sbuf.                              *)
LEMMA AboveNext ==
  ASSUME NEW q \in Seq(CallType), NEW k \in 1..Len(q), NEW S
  PROVE  Cardinality(Above(q, k - 1, S)) = One(q[k], S) + Cardinality(Above(q, k, S))
<1>1. Len(q) \in Nat /\ k \in Nat
  OBVIOUS
<1>2. IsFiniteSet(Above(q, k, S)) /\ Cardinality(Above(q, k, S)) \in Nat
  <2>1. Above(q, k, S) \in SUBSET ((k + 1)..Len(q)) /\ IsFiniteSet((k + 1)..Len(q))
    BY <1>1, FS_Interval DEF Above
  <2> QED
    BY <2>1, FS_Subset, FS_CardinalityType
<1>3. k \notin Above(q, k, S)
  BY <1>1 DEF Above
<1>4. \A j : j \in Above(q, k - 1, S) <=> j \in Above(q, k, S) \/ (j = k /\ Retained(q[k], S))
  <2>1. \A j : j \in ((k - 1) + 1)..Len(q) <=> j \in (k + 1)..Len(q) \/ j = k
    BY <1>1
  <2> QED
    BY <2>1 DEF Above
<1>5. CASE Retained(q[k], S)
  <2>1. Above(q, k - 1, S) = Above(q, k, S) \union {k}
    BY <1>4, <1>5
  <2>2. Cardinality(Above(q, k, S) \union {k}) = Cardinality(Above(q, k, S)) + 1
    BY <1>2, <1>3, FS_AddElement
  <2>3. Cardinality(Above(q, k - 1, S)) = Cardinality(Above(q, k, S) \union {k})
    BY <2>1, Zenon
  <2> QED
    BY <1>2, <1>5, <2>2, <2>3 DEF One
<1>6. CASE ~Retained(q[k], S)
  <2>1. Above(q, k - 1, S) = Above(q, k, S)
    BY <1>4, <1>6
  <2>2. Cardinality(Above(q, k - 1, S)) = Cardinality(Above(q, k, S))
    BY <2>1, Zenon
  <2> QED
    BY <1>2, <1>6, <2>2 DEF One
<1> QED
  BY <1>5, <1>6

SbufsAbove(q, k) == [j \in 1..(Len(q) - k) |-> q[k + j].sbuf]

(* So as many sbufs are abandoned as calls are left.                       *)
LEMMA LostAbove ==
  ASSUME NEW q \in Seq(CallType), NEW k \in 0..Len(q), NEW S,
         \A j \in (k + 1)..Len(q) : q[j].fn \in RetainingCalls
  PROVE  /\ SbufsAbove(q, k) \in Seq(Sbufs)
         /\ Cardinality(Lost(SbufsAbove(q, k), S)) = Cardinality(Above(q, k, S))
<1>r. PICK r : r = SbufsAbove(q, k)
  OBVIOUS
<1>n. PICK n \in Nat : n = Len(q) - k /\ Len(q) = k + n
  <2>1. Len(q) - k \in Nat /\ Len(q) = k + (Len(q) - k)
    OBVIOUS
  <2> QED
    BY <2>1
<1>1. k \in Nat /\ \A j \in 1..n : k + j \in (k + 1)..Len(q) /\ k + j \in 1..Len(q)
  BY <1>n
<1>2. \A j \in 1..Len(q) : q[j] \in CallType
  OBVIOUS
<1>3. /\ r = [j \in 1..n |-> q[k + j].sbuf]
      /\ r \in Seq(Sbufs) /\ DOMAIN r = 1..n /\ \A j \in 1..n : r[j] = q[k + j].sbuf
  <2>1. r = [j \in 1..n |-> q[k + j].sbuf]
    BY <1>r, <1>n DEF SbufsAbove
  <2>2. \A j \in 1..n : q[k + j].sbuf \in Sbufs
    BY <1>1, <1>2 DEF CallType
  <2> QED
    BY <2>1, <2>2
<1> DEFINE f == [j \in Lost(r, S) |-> k + j]
<1>4. \A j \in Lost(r, S) : j \in 1..n /\ f[j] = k + j /\ f[j] \in Above(q, k, S)
  <2>1. \A j : j \in Lost(r, S) => j \in 1..n /\ q[k + j].sbuf \in S
    BY <1>3 DEF Lost
  <2> QED
    BY <1>1, <2>1 DEF Above, Retained
<1>5. ASSUME NEW i \in Above(q, k, S) PROVE i - k \in Lost(r, S) /\ f[i - k] = i
  <2>1. i \in (k + 1)..Len(q) /\ q[i].sbuf \in S
    BY <1>5 DEF Above, Retained
  <2>2. i - k \in 1..n /\ k + (i - k) = i
    BY <1>n, <2>1
  <2>3. i - k \in Lost(r, S)
    BY <1>3, <2>1, <2>2 DEF Lost
  <2> QED
    BY <2>2, <2>3
<1>6. \A i, j \in Lost(r, S) : f[i] = f[j] => i = j
  BY <1>1, <1>4
<1>7. f \in Bijection(Lost(r, S), Above(q, k, S))
  <2>1. f \in [Lost(r, S) -> Above(q, k, S)]
    BY <1>4
  <2> QED
    BY <1>5, <1>6, <2>1 DEF Bijection, Injection, Surjection, IsInjective
<1>8. IsFiniteSet(Lost(r, S))
  BY <1>3, LostMore
<1>9. Cardinality(Lost(r, S)) = Cardinality(Above(q, k, S))
  <2> HIDE DEF f
  <2> QED
    BY <1>7, <1>8, FS_Bijection DEF ExistsBijection
<1> QED
  BY <1>r, <1>3, <1>9

(* A step that leaves calls counts them as abandoned.                      *)
LEMMA AbandonRetains ==
  ASSUME TypeOK, NEW th \in Threads, NEW k \in 0..Len(stack[th]),
         \A j \in (k + 1)..Len(stack[th]) : stack[th][j].fn \in RetainingCalls,
         abandoned' = abandoned \o SbufsAbove(stack[th], k), work_queue' = work_queue,
         \/ Changed(th, k, 0)
         \/ /\ k > 0 /\ Changed(th, k - 1, 1) /\ stack'[th][k].sbuf = stack[th][k].sbuf
            /\ Weight(stack'[th][k]) = 1 /\ Weight(stack[th][k]) = 1
  PROVE  RetainsSame /\ abandoned' \in Seq(Sbufs)
<1>1. stack \in Stacks /\ stack[th] \in Seq(CallType) /\ abandoned \in Seq(Sbufs)
  BY TypedStacks DEF Stacks
<1>r. PICK r : r = SbufsAbove(stack[th], k)
  OBVIOUS
<1>2. r \in Seq(Sbufs)
  BY <1>r, <1>1, LostAbove
<1>3. abandoned' \in Seq(Sbufs)
  BY <1>r, <1>1, <1>2
<1>4. ASSUME NEW S PROVE Retains(S)' = Retains(S)
  <2>1. /\ Cardinality(Lost(abandoned', S)) =
             Cardinality(Lost(abandoned, S)) + Cardinality(Above(stack[th], k, S))
    <3>1. Cardinality(Lost(r, S)) = Cardinality(Above(stack[th], k, S))
      BY <1>r, <1>1, LostAbove
    <3>2. Cardinality(Lost(abandoned \o r, S)) =
            Cardinality(Lost(abandoned, S)) + Cardinality(Lost(r, S))
      BY <1>1, <1>2, LostMore
    <3>3. abandoned' = abandoned \o r
      BY <1>r
    <3> QED
      BY <3>1, <3>2, <3>3, Zenon
  <2>2. /\ Cardinality(Held(stack', S)) + Cardinality(Above(stack[th], k, S)) =
             Cardinality(Held(stack, S))
        /\ Cardinality(Held(stack', S)) \in Nat
        /\ Cardinality(Above(stack[th], k, S)) \in Nat
    <3>1. CASE Changed(th, k, 0)
      <4>1. /\ Cardinality(Held(stack', S)) \in Nat
            /\ Cardinality(Held(stack', S)) + Cardinality(Above(stack[th], k, S)) =
                 Cardinality(Held(stack, S)) + Cardinality(Above(stack'[th], k, S))
            /\ Cardinality(Above(stack[th], k, S)) \in Nat
            /\ Cardinality(Held(stack, S)) \in Nat
        BY <1>1, <3>1, HeldChanged
      <4>2. Cardinality(Above(stack'[th], k, S)) = 0
        BY <1>1, <3>1, OnTop DEF OnTopOf
      <4> QED
        BY <4>1, <4>2
    <3>2. CASE /\ k > 0 /\ Changed(th, k - 1, 1) /\ stack'[th][k].sbuf = stack[th][k].sbuf
               /\ Weight(stack'[th][k]) = 1 /\ Weight(stack[th][k]) = 1
      <4>m. PICK m : m = k - 1
        OBVIOUS
      <4>0. k \in 1..Len(stack[th]) /\ m + 1 = k /\ Changed(th, m, 1)
        BY <1>1, <3>2, <4>m
      <4>1. /\ Cardinality(Held(stack', S)) \in Nat
            /\ Cardinality(Held(stack', S)) + Cardinality(Above(stack[th], m, S)) =
                 Cardinality(Held(stack, S)) + Cardinality(Above(stack'[th], m, S))
            /\ Cardinality(Held(stack, S)) \in Nat
        BY <1>1, <4>0, HeldChanged
      <4>2. Cardinality(Above(stack'[th], m, S)) = One(stack'[th][k], S)
        <5>1. OnTopOf(th, m, 1, S)
          BY <1>1, <4>0, OnTop
        <5> QED
          BY <4>0, <5>1 DEF OnTopOf
      <4>3. Cardinality(Above(stack[th], m, S)) =
              One(stack[th][k], S) + Cardinality(Above(stack[th], k, S))
        BY <1>1, <4>m, <4>0, AboveNext
      <4>4. One(stack'[th][k], S) = One(stack[th][k], S) /\ One(stack[th][k], S) \in Nat
        BY <3>2 DEF One, Retained, Weight
      <4>5. Cardinality(Above(stack[th], k, S)) \in Nat
        <5>1. Above(stack[th], k, S) \in SUBSET ((k + 1)..Len(stack[th]))
          BY DEF Above
        <5>2. IsFiniteSet((k + 1)..Len(stack[th]))
          <6>1. k + 1 \in Int /\ Len(stack[th]) \in Int
            BY <1>1
          <6> QED
            BY <6>1, FS_Interval
        <5> QED
          BY <5>1, <5>2, FS_Subset, FS_CardinalityType
      <4>o. PICK o \in Nat : o = One(stack[th][k], S)
        BY <4>4
      <4>h. PICK h \in Nat : h = Cardinality(Held(stack', S))
        BY <4>1
      <4>a. PICK a \in Nat : a = Cardinality(Above(stack[th], k, S))
        BY <4>5
      <4>6. h + (o + a) = Cardinality(Held(stack, S)) + o
        BY <4>1, <4>2, <4>3, <4>4, <4>o, <4>h, <4>a, Zenon
      <4>7. h + a = Cardinality(Held(stack, S))
        BY <4>1, <4>6
      <4> QED
        BY <4>7, <4>h, <4>a, Zenon
    <3> QED
      BY <3>1, <3>2
  <2>3. /\ Cardinality(Queued(work_queue, S)) \in Nat
        /\ Cardinality(Held(stack, S)) \in Nat
        /\ Cardinality(Lost(abandoned, S)) \in Nat
    BY RetainsFinite
  <2>4. /\ Retains(S) = Cardinality(Queued(work_queue, S)) + Cardinality(Held(stack, S))
                        + Cardinality(Lost(abandoned, S))
        /\ Retains(S)' = Cardinality(Queued(work_queue', S)) + Cardinality(Held(stack', S))
                         + Cardinality(Lost(abandoned', S))
    BY RetainsAre
  <2>5. Cardinality(Queued(work_queue', S)) = Cardinality(Queued(work_queue, S))
    OBVIOUS
  <2> QED
    BY <2>1, <2>2, <2>3, <2>4, <2>5
<1> QED
  BY <1>3, <1>4 DEF RetainsSame

(* What is left of a thread's calls by an exception.                       *)
LEMMA ThrowStep ==
  ASSUME MemInv, NEW th \in Threads, stack[th] # <<>>, Top(th).fn \in {"process", "scanning"},
         Throw(th)
  PROVE  MemInv'
<1>1. /\ stack \in Stacks /\ work_queue \in Seq(UnitType) /\ abandoned \in Seq(Sbufs)
      /\ stack[th] \in Seq(CallType) /\ Len(stack[th]) \in Nat \ {0}
      /\ Top(th) = stack[th][Len(stack[th])]
  BY TypedStacks, BelowIs DEF MemInv
<1>2. \A j \in 1..Len(stack[th]) : /\ stack[th][j].fn \in RetainingCalls
                                   /\ stack[th][j].fn # "unref"
                                   /\ stack[th][j].sbuf \in Sbufs
  <2> SUFFICES ASSUME NEW j \in 1..Len(stack[th])
               PROVE  /\ stack[th][j].fn \in RetainingCalls
                      /\ stack[th][j].fn # "unref"
                      /\ stack[th][j].sbuf \in Sbufs
    OBVIOUS
  <2>1. stack[th][j].fn \in {"process", "each", "scanning"}
    <3>1. CASE j = Len(stack[th])
      BY <1>1, <3>1
    <3>2. CASE j # Len(stack[th])
      <4>1. j \in 1..(Len(stack[th]) - 1)
        BY <1>1, <3>2
      <4> QED
        BY <4>1 DEF MemInv, Control, Waiting, WaitingCalls
    <3> QED
      BY <3>1, <3>2
  <2>2. stack[th][j].sbuf \in Sbufs
    <3>1. stack[th][j] \in CallType
      BY <1>1
    <3> QED
      BY <3>1 DEF CallType
  <2> QED
    BY <2>1, <2>2 DEF RetainingCalls
<1>3. \A j \in 1..Len(stack[th]) : life[stack[th][j].sbuf] = "alive"
  BY DEF MemInv, Control, AllRight, CallRight
<1>4. disk_write_errors' \in 0..MaxDiskErrors
  BY ModeAssumption DEF Throw, MemInv, TypeOK
<1>5. UNCHANGED <<threading, life, reference_count, children, counters,
                  work_queue, dedupe, calls>>
  BY DEF Throw
<1>6. ASSUME NEW k \in 0..Len(stack[th]), abandoned' = abandoned \o SbufsAbove(stack[th], k),
             UNCHANGED fault, RetainsSame, abandoned' \in Seq(Sbufs), Leaving' = Leaving,
             stack' \in Stacks, Control(stack', work_queue, life, calls)
      PROVE  MemInv'
  <2>1. ReferencesExact' /\ StatsExact'
    BY <1>5, <1>6, CountsSame DEF MemInv
  <2>2. TypeOK'
    BY <1>4, <1>5, <1>6 DEF MemInv, TypeOK, Stacks, counters, dedupe
  <2>3. Control(stack, work_queue, life, calls)'
    BY <1>5, <1>6
  <2>4. SharesRight'
    BY <1>5 DEF MemInv, SharesRight, Local, Shares
  <2>5. Unborn'
    <3>r. PICK r : r = SbufsAbove(stack[th], k)
      OBVIOUS
    <3>n. PICK n \in Nat : n = Len(stack[th]) - k
      <4>1. Len(stack[th]) - k \in Nat
        BY <1>1
      <4> QED
        BY <4>1
    <3>1. \A i \in 1..n : k + i \in 1..Len(stack[th])
      BY <1>1, <3>n
    <3>2. r \in Seq(Sbufs) /\ Len(r) = n /\ \A i \in 1..n : life[r[i]] = "alive"
      <4>1. r = [i \in 1..n |-> stack[th][k + i].sbuf]
        BY <3>r, <3>n, Zenon DEF SbufsAbove
      <4>2. \A j \in (k + 1)..Len(stack[th]) : stack[th][j].fn \in RetainingCalls
        BY <1>1, <1>2
      <4>3. r \in Seq(Sbufs)
        BY <1>1, <3>r, <4>2, LostAbove
      <4>4. \A i \in 1..n : life[r[i]] = "alive"
        BY <1>3, <3>1, <4>1
      <4>5. Len(r) = n
        BY <4>1
      <4> QED
        BY <4>3, <4>4, <4>5
    <3>3. \A i \in 1..Len(abandoned') :
            \/ i \in 1..Len(abandoned) /\ abandoned'[i] = abandoned[i]
            \/ life[abandoned'[i]] = "alive"
      <4>0. abandoned \in Seq(Sbufs) /\ r \in Seq(Sbufs)
        BY <1>1, <3>2
      <4>1. /\ DOMAIN (abandoned \o r) = 1..(Len(abandoned) + Len(r))
            /\ \A i \in 1..Len(abandoned) : (abandoned \o r)[i] = abandoned[i]
            /\ \A i \in (Len(abandoned) + 1)..(Len(abandoned) + Len(r)) :
                 (abandoned \o r)[i] = r[i - Len(abandoned)] /\ i - Len(abandoned) \in 1..Len(r)
        BY <4>0, ConcatProperties
      <4>2. \A i \in 1..(Len(abandoned) + Len(r)) :
              i \in 1..Len(abandoned) \/ i \in (Len(abandoned) + 1)..(Len(abandoned) + Len(r))
        BY <1>1, <3>2
      <4>3. abandoned' = abandoned \o r
        BY <1>6, <3>r
      <4>4. DOMAIN abandoned' = 1..Len(abandoned')
        BY <1>6
      <4>5. 1..Len(abandoned') = 1..(Len(abandoned) + Len(r))
        BY <4>1, <4>3, <4>4, Zenon
      <4> QED
        BY <3>2, <4>1, <4>2, <4>3, <4>5
    <3> QED
      BY <1>5, <3>3 DEF MemInv, Unborn
  <2>6. fault' \notin {"children", "assert"}
    BY <1>6 DEF MemInv
  <2> QED
    BY <2>1, <2>2, <2>3, <2>4, <2>5, <2>6 DEF MemInv
<1>7. CASE Catchers(th) # {}
  <2>1. PICK i \in Catchers(th) :
          /\ stack' = [stack EXCEPT ![th] =
                         Append(SubSeq(stack[th], 1, i - 1),
                                Call("release", stack[th][i].sbuf, NoScanner, {}))]
          /\ abandoned' = abandoned \o SbufsAbove(stack[th], i) /\ UNCHANGED fault
    BY <1>7, Zenon DEF Throw, Unwind, SbufsAbove
  <2>2. /\ i \in 1..Len(stack[th]) /\ i - 1 \in 0..Len(stack[th]) /\ i \in 0..Len(stack[th])
        /\ i > 0 /\ stack[th][i].fn = "scanning" /\ i \in 1..(Len(stack[th]) - 1)
    BY <1>1 DEF Catchers
  <2>s. PICK s : s = stack[th][i].sbuf
    OBVIOUS
  <2>m. PICK m : m = i - 1
    OBVIOUS
  <2>c. PICK c \in CallType : c = Call("release", s, NoScanner, {})
    BY <1>2, <2>2, <2>s DEF CallType, Call
  <2>3. c.fn = "release" /\ c.sbuf = s /\ Weight(c) = 1 /\ Weight(stack[th][i]) = 1
    BY <2>2, <2>c DEF Call, Weight, RetainingCalls
  <2>4. CallRight(life, calls, c)
    <3>1. CallRight(life, calls, stack[th][i])
      BY <2>2 DEF MemInv, Control, AllRight
    <3> QED
      BY <2>2, <2>3, <2>s, <3>1 DEF CallRight
  <2>5. /\ m \in 0..Len(stack[th]) /\ m + 1 = i
        /\ CutTo(stack, th, m) \in Stacks /\ Fewer(CutTo(stack, th, m), stack)
        /\ Len(CutTo(stack, th, m)[th]) = m
        /\ \A j \in 1..m : CutTo(stack, th, m)[th][j] = stack[th][j]
        /\ \A t \in Threads \ {th} : CutTo(stack, th, m)[t] = stack[t]
    BY <1>1, <2>2, <2>m, CutIs
  <2>r. PICK rest : rest = CutTo(stack, th, m)
    OBVIOUS
  <2>6. stack' = PushOn(rest, th, c)
    <3>1. CutTo(stack, th, m)[th] = SubSeq(stack[th], 1, m)
      BY <1>1 DEF CutTo, Stacks
    <3> QED
      BY <1>1, <2>1, <2>m, <2>s, <2>c, <2>r, <3>1 DEF CutTo, PushOn
  <2>7. Control(rest, work_queue, life, calls)
    BY <1>1, <2>5, <2>r, FewerControl DEF MemInv
  <2>8. Soft(rest, work_queue, s)
    <3>1. Sole(stack, work_queue)
      BY DEF MemInv, Control
    <3>2. ASSUME NEW t \in Threads, NEW j \in 1..Len(rest[t]), rest[t][j].sbuf = s
          PROVE  rest[t][j].fn \notin SoleCalls
      <4>1. j \in 1..Len(stack[t]) /\ rest[t][j] = stack[t][j]
        BY <2>5, <2>r, <3>2 DEF Fewer
      <4>2. stack[t][j].fn \in SoleCalls => t = th /\ j = i
        BY <2>2, <2>s, <3>1, <3>2, <4>1 DEF Sole
      <4> QED
        BY <2>2, <4>1, <4>2 DEF SoleCalls
    <3>3. \A j \in 1..Len(work_queue) :
            work_queue[j].sbuf = s => work_queue[j].scanner # NoScanner
      BY <2>2, <2>s, <3>1 DEF Sole
    <3> QED
      BY <3>2, <3>3 DEF Soft
  <2>9. rest[th] # <<>> => rest[th][Len(rest[th])].fn \in WaitingCalls
    <3>1. ASSUME rest[th] # <<>> PROVE rest[th][Len(rest[th])].fn \in WaitingCalls
      <4>1. rest[th] \in Seq(CallType)
        BY <2>5, <2>r DEF Stacks
      <4>2. Len(rest[th]) = m /\ m \in 1..m /\ m \in 1..(Len(stack[th]) - 1)
        BY <1>1, <2>2, <2>5, <2>r, <3>1, <4>1
      <4>3. rest[th][m] = stack[th][m]
        BY <2>5, <2>r, <4>2
      <4>4. stack[th][m].fn \in WaitingCalls
        BY <4>2 DEF MemInv, Control, Waiting
      <4> QED
        BY <4>2, <4>3, <4>4
    <3> QED
      BY <3>1
  <2>10. stack' \in Stacks /\ Control(stack', work_queue, life, calls)
    <3>1. c.fn \notin SoleCalls
      BY <2>3 DEF SoleCalls
    <3>2. rest \in Stacks
      BY <2>5, <2>r
    <3> QED
      BY <2>3, <2>4, <2>6, <2>7, <2>8, <2>9, <3>1, <3>2, PushIs, PushControl
  <2>11. /\ Changed(th, m, 1) /\ stack'[th][i] = c
    <3>0. rest \in Stacks /\ Len(rest[th]) = m
      BY <2>5, <2>r
    <3>1. /\ stack' \in Stacks /\ Len(stack'[th]) = m + 1
          /\ \A j \in 1..m : stack'[th][j] = rest[th][j]
          /\ stack'[th][m + 1] = c
          /\ \A t \in Threads \ {th} : stack'[t] = rest[t]
      <4>1. /\ PushOn(rest, th, c) \in Stacks /\ Len(PushOn(rest, th, c)[th]) = Len(rest[th]) + 1
            /\ \A j \in 1..Len(rest[th]) : PushOn(rest, th, c)[th][j] = rest[th][j]
            /\ PushOn(rest, th, c)[th][Len(rest[th]) + 1] = c
            /\ \A t \in Threads \ {th} : PushOn(rest, th, c)[t] = rest[t]
        BY <3>0, PushIs
      <4> QED
        BY <2>6, <3>0, <4>1, Zenon
    <3> QED
      BY <2>5, <2>r, <3>1 DEF Changed
  <2>12. RetainsSame /\ abandoned' \in Seq(Sbufs)
    <3>1. \A j \in (i + 1)..Len(stack[th]) : stack[th][j].fn \in RetainingCalls
      BY <1>1, <1>2, <2>2
    <3>2. Changed(th, i - 1, 1)
      BY <2>11, <2>m
    <3>3. /\ i > 0 /\ Changed(th, i - 1, 1) /\ stack'[th][i].sbuf = stack[th][i].sbuf
          /\ Weight(stack'[th][i]) = 1 /\ Weight(stack[th][i]) = 1
      BY <2>2, <2>3, <2>s, <2>11, <3>2
    <3>4. TypeOK /\ work_queue' = work_queue
      BY <1>5 DEF MemInv
    <3> QED
      BY <2>1, <2>2, <3>1, <3>3, <3>4, AbandonRetains
  <2>13. Leaving' = Leaving
    <3>1. \A j \in (m + 1)..Len(stack[th]) : stack[th][j].fn # "unref"
      BY <1>1, <1>2, <2>2, <2>5
    <3>2. \A j \in (m + 1)..(m + 1) : stack'[th][j].fn # "unref"
      <4>1. \A j \in (m + 1)..(m + 1) : j = i
        BY <2>2, <2>5
      <4> QED
        BY <2>3, <2>11, <4>1
    <3> QED
      BY <1>1, <2>11, <3>1, <3>2, LeavingSame
  <2> QED
    BY <1>6, <2>1, <2>2, <2>10, <2>12, <2>13
<1>8. CASE Catchers(th) = {} /\ th = Main
  <2>1. /\ stack' = [stack EXCEPT ![th] = <<>>]
        /\ abandoned' = abandoned \o SbufsAbove(stack[th], 0) /\ UNCHANGED fault
    BY <1>8, Zenon DEF Throw, Unwind, SbufsAbove
  <2>2. 0 \in 0..Len(stack[th])
    BY <1>1
  <2>3. /\ CutTo(stack, th, 0) \in Stacks /\ Fewer(CutTo(stack, th, 0), stack)
        /\ Len(CutTo(stack, th, 0)[th]) = 0
        /\ \A t \in Threads \ {th} : CutTo(stack, th, 0)[t] = stack[t]
    BY <1>1, <2>2, CutIs
  <2>4. stack' = CutTo(stack, th, 0)
    <3>1. SubSeq(stack[th], 1, 0) = <<>>
      BY <1>1
    <3> QED
      BY <2>1, <3>1 DEF CutTo
  <2>5. Changed(th, 0, 0)
    BY <2>2, <2>3, <2>4 DEF Changed
  <2>6. stack' \in Stacks /\ Control(stack', work_queue, life, calls)
    BY <1>1, <2>3, <2>4, FewerControl DEF MemInv
  <2>7. RetainsSame /\ abandoned' \in Seq(Sbufs)
    <3>1. \A j \in (0 + 1)..Len(stack[th]) : stack[th][j].fn \in RetainingCalls
      BY <1>2
    <3>2. TypeOK /\ work_queue' = work_queue
      BY <1>5 DEF MemInv
    <3> QED
      BY <2>1, <2>2, <2>5, <3>1, <3>2, AbandonRetains
  <2>8. Leaving' = Leaving
    <3>1. \A j \in (0 + 1)..Len(stack[th]) : stack[th][j].fn # "unref"
      BY <1>2
    <3>2. \A j \in (0 + 1)..(0 + 0) : stack'[th][j].fn # "unref"
      OBVIOUS
    <3> QED
      BY <1>1, <2>5, <3>1, <3>2, LeavingSame
  <2> QED
    BY <1>6, <2>1, <2>2, <2>6, <2>7, <2>8
<1>9. CASE Catchers(th) = {} /\ th # Main
  <2>1. fault' = "uncaught" /\ UNCHANGED <<stack, abandoned>>
    BY <1>9 DEF Throw
  <2>2. RetainsSame /\ Leaving' = Leaving
    <3>1. RetainsSame
      BY <1>5, <2>1 DEF RetainsSame, Retains, Frames, Frame
    <3> QED
      BY <2>1, <3>1 DEF Leaving, Frames, Frame
  <2>3. ReferencesExact' /\ StatsExact'
    BY <1>5, <2>2, CountsSame DEF MemInv
  <2>4. TypeOK'
    BY <1>4, <1>5, <2>1 DEF MemInv, TypeOK, counters, dedupe
  <2>5. Control(stack, work_queue, life, calls)'
    BY <1>5, <2>1 DEF MemInv
  <2>6. SharesRight' /\ Unborn'
    BY <1>5, <2>1 DEF MemInv, SharesRight, Unborn, Local, Shares
  <2>7. fault' \notin {"children", "assert"}
    BY <2>1
  <2> QED
    BY <2>3, <2>4, <2>5, <2>6, <2>7 DEF MemInv
<1> QED
  BY <1>7, <1>8, <1>9

-----------------------------------------------------------------------------
LEMMA StutterStep ==
  ASSUME MemInv, UNCHANGED vars
  PROVE  MemInv'
<1>1. /\ UNCHANGED <<threading, life, reference_count, children, work_queue, stack,
                     previously_processed, seen_before, disk_write_errors, fault, calls,
                     abandoned, sbufs_in_queue, depth0_sbufs_in_queue>>
  BY DEF vars, counters, dedupe
<1>2. RetainsSame /\ Leaving' = Leaving
  BY <1>1 DEF RetainsSame, Retains, Leaving, Frames, Frame
<1>3. stack' \in Stacks
  BY <1>1, TypedStacks DEF MemInv
<1>4. Control(stack', work_queue, life, calls)
  BY <1>1 DEF MemInv
<1> QED
  BY <1>1, <1>2, <1>3, <1>4, QuietStep DEF counters, dedupe

LEMMA MemInit ==
  ASSUME Init
  PROVE  MemInv
<1>1. /\ threading \in BOOLEAN
      /\ life = [s \in Sbufs |-> "unborn"]
      /\ reference_count = [s \in Sbufs |-> 0]
      /\ children = [s \in Sbufs |-> 0]
      /\ sbufs_in_queue = 0 /\ depth0_sbufs_in_queue = 0
      /\ work_queue = <<>> /\ stack = [th \in Threads |-> <<>>]
      /\ previously_processed = {} /\ seen_before = {} /\ disk_write_errors = 0
      /\ fault = "none" /\ calls = [s \in Sbufs |-> [sc \in Scanners |-> 0]]
      /\ abandoned = <<>>
  BY ThreadsAssumption DEF Init
<1>2. TypeOK
  BY <1>1, ModeAssumption DEF TypeOK
<1>3. Control(stack, work_queue, life, calls)
  <2>1. \A t \in Threads : Len(stack[t]) = 0
    BY <1>1
  <2>2. Len(work_queue) = 0
    BY <1>1
  <2>3. AllRight(stack, work_queue, life, calls)
    BY <2>1, <2>2 DEF AllRight
  <2>4. Waiting(stack)
    BY <2>1 DEF Waiting
  <2>5. Sole(stack, work_queue)
    BY <2>1, <2>2 DEF Sole
  <2> QED
    BY <2>3, <2>4, <2>5 DEF Control
<1>4. \A s \in Sbufs : NotScanned(calls, s)
  BY <1>1 DEF NotScanned
<1>5. SharesRight
  BY <1>1, <1>4 DEF SharesRight, Sbufs
<1>6. Unborn
  BY <1>1, <1>4 DEF Unborn
<1>7. \A S : Retains(S) = 0
  <2>1. Frames = {}
    BY <1>1 DEF Frames
  <2>2. ASSUME NEW S PROVE Retains(S) = 0
    <3>1. /\ {i \in DOMAIN work_queue : work_queue[i].sbuf \in S} = {}
          /\ {f \in Frames : Frame(f).sbuf \in S /\ Frame(f).fn \in RetainingCalls} = {}
          /\ {i \in DOMAIN abandoned : abandoned[i] \in S} = {}
      BY <1>1, <2>1
    <3>2. Cardinality({}) = 0
      BY FS_EmptySet
    <3>3. Retains(S) = Cardinality({}) + Cardinality({}) + Cardinality({})
      BY <3>1, Zenon DEF Retains
    <3> QED
      BY <3>2, <3>3
  <2> QED
    BY <2>2
<1>8. ReferencesExact
  BY <1>1 DEF ReferencesExact
<1>9. StatsExact
  BY <1>1, <1>7 DEF StatsExact
<1> QED
  BY <1>1, <1>2, <1>3, <1>5, <1>6, <1>8, <1>9 DEF MemInv

LEMMA MemStep ==
  ASSUME MemInv, [Next]_vars
  PROVE  MemInv'
<1>1. ASSUME NEW p \in Pages, ReadPage(p) PROVE MemInv'
  BY <1>1, ReadStep
<1>2. CASE SchedulePage
  BY <1>2, ScheduleStep
<1>3. ASSUME NEW w \in Workers, Take(w) PROVE MemInv'
  BY <1>3, TakeStep
<1>4. ASSUME NEW th \in Threads, ThreadStep(th) PROVE MemInv'
  <2>1. CASE ProcessTooDeep(th)
    BY <2>1, TooDeepStep
  <2>2. CASE ProcessAlertFails(th) \/ ScanAlertFails(th)
    <3>1. stack[th] # <<>> /\ Top(th).fn \in {"process", "scanning"} /\ Throw(th)
      BY <2>2 DEF ProcessAlertFails, ScanAlertFails, In
    <3> QED
      BY <3>1, ThrowStep
  <2>3. CASE ProcessBegin(th)
    BY <2>3, BeginStep
  <2>4. CASE EachScanner(th)
    BY <2>4, EachScannerStep
  <2>5. CASE EachDone(th)
    BY <2>5, EachDoneStep
  <2>6. CASE ScanBypassed(th)
    BY <2>6, BypassedStep
  <2>7. CASE ScanBegin(th)
    BY <2>7, ScanBeginStep
  <2>8. CASE ScanMakes(th)
    BY <2>8, MakesStep
  <2>9. CASE ScanEnds(th)
    BY <2>9, ScanEndsStep
  <2>10. CASE Release(th)
    BY <2>10, ReleaseSbufStep
  <2>11. CASE LocalEnds(th)
    BY <2>11, LocalEndsStep
  <2>12. CASE DelChild(th)
    BY <2>12, DelChildStep
  <2>13. CASE UnrefParent(th)
    BY <2>13, UnrefStep
  <2> QED
    BY <1>4, <2>1, <2>2, <2>3, <2>4, <2>5, <2>6, <2>7, <2>8, <2>9, <2>10, <2>11, <2>12,
       <2>13 DEF ThreadStep
<1>5. CASE Done \/ UNCHANGED vars
  BY <1>5, StutterStep DEF Done
<1> QED
  BY <1>1, <1>2, <1>3, <1>4, <1>5 DEF Next

(* The invariant says that no call touches what is gone.                   *)
LEMMA MemMeans ==
  ASSUME MemInv
  PROVE  MemorySafe
<1>1. stack \in Stacks /\ work_queue \in Seq(UnitType)
  BY TypedStacks DEF MemInv
<1>2. ASSUME NEW f \in Frames PROVE life[Frame(f).sbuf] = "alive"
  <2>1. PICK t \in Threads : f \in {t} \X DOMAIN stack[t]
    BY DEF Frames
  <2>2. DOMAIN stack[t] = 1..Len(stack[t])
    BY <1>1 DEF Stacks
  <2>3. f[1] = t /\ f[2] \in 1..Len(stack[t])
    BY <2>1, <2>2
  <2>4. life[stack[t][f[2]].sbuf] = "alive"
    BY <2>3 DEF MemInv, Control, AllRight, CallRight
  <2> QED
    BY <2>3, <2>4 DEF Frame
<1>3. ASSUME NEW i \in DOMAIN work_queue PROVE life[work_queue[i].sbuf] = "alive"
  <2>1. i \in 1..Len(work_queue)
    BY <1>1
  <2> QED
    BY <2>1 DEF MemInv, Control, AllRight, UnitRight
<1>4. NoUseAfterFree
  BY <1>2, <1>3 DEF MemInv, SharesRight, NoUseAfterFree
<1> QED
  BY <1>4 DEF MemInv, MemorySafe, CountsExact

(* In the middle of every call of every thread, whatever scanners make from*)
(* what and whichever write fails, no thread touches an sbuf that was      *)
(* deleted or whose parent's memory was, and reference_count, children and *)
(* the queue statistics are exactly the uses they stand for                *)
(* (scanner_set.cpp:748-776, sbuf.cpp:150-240).                            *)
THEOREM MemorySafeHolds == Spec => []MemorySafe
<1>1. Init => MemInv
  BY MemInit
<1>2. MemInv /\ [Next]_vars => MemInv'
  BY MemStep
<1>3. MemInv => MemorySafe
  BY MemMeans
<1> QED
  BY <1>1, <1>2, <1>3, PTL DEF Spec

-----------------------------------------------------------------------------
(* What is left behind.                                                    *)

OnStack(st, s) == \E t \in Threads : \E i \in 1..Len(st[t]) : st[t][i].sbuf = s
InQueue(q, s)  == \E j \in 1..Len(q) : q[j].sbuf = s
LeftIn(ab, s)  == \E i \in 1..Len(ab) : ab[i] = s

(* s may be left behind: it was sliced, and its slices may outlive it.     *)
Sliced(lf, s) == \E d \in Derived : Kind[d] = "slice" /\ lf[d] # "unborn" /\ Parent[d] = s
Excused(ab, lf, tr, s) == (tr \/ Len(ab) > 0) /\ Sliced(lf, s)

(* What is alive is somewhere, or excused.                                 *)
Keeps(st, q, ab, lf, tr, s) ==
  OnStack(st, s) \/ (~Local(s) /\ (InQueue(q, s) \/ LeftIn(ab, s) \/ Excused(ab, lf, tr, s)))
Kept(st, q, ab, lf, tr) == \A s \in Sbufs : lf[s] = "alive" => Keeps(st, q, ab, lf, tr, s)

(* A local slice is used by the scanner that made it.                      *)
OnMaker(st) ==
  \A t \in Threads : \A i \in 1..Len(st[t]) : Local(st[t][i].sbuf) =>
    /\ i > 1 /\ st[t][i - 1].fn = "scanning"
    /\ st[t][i - 1].sbuf = Maker[st[t][i].sbuf]
(* Without workers a slice is used inside a call on its parent.            *)
Nested(st) ==
  \A i \in 1..Len(st[Main]) : Shares(st[Main][i].sbuf) =>
    \E j \in 1..(i - 1) : st[Main][j].sbuf = Parent[st[Main][i].sbuf]
Ordered(st, q, tr) ==
  /\ OnMaker(st)
  /\ ~tr => Nested(st) /\ q = <<>> /\ \A w \in Workers : st[w] = <<>>

LeakInv ==
  /\ MemInv
  /\ Ordered(stack, work_queue, threading)
  /\ Kept(stack, work_queue, abandoned, life, threading)

LEMMA FewerOrdered ==
  ASSUME NEW st \in Stacks, NEW st2 \in Stacks, Fewer(st2, st), NEW q, NEW tr, Ordered(st, q, tr)
  PROVE  Ordered(st2, q, tr)
<1>1. \A t \in Threads : \A i \in 1..Len(st2[t]) : i \in 1..Len(st[t]) /\ st2[t][i] = st[t][i]
  BY DEF Fewer
<1>2. \A t \in Threads : Len(st2[t]) \in Nat /\ Len(st[t]) \in Nat /\ st2[t] \in Seq(CallType)
  BY DEF Stacks
<1>3. OnMaker(st2)
  <2> SUFFICES ASSUME NEW t \in Threads, NEW i \in 1..Len(st2[t]), Local(st2[t][i].sbuf)
               PROVE  /\ i > 1 /\ st2[t][i - 1].fn = "scanning"
                      /\ st2[t][i - 1].sbuf = Maker[st2[t][i].sbuf]
    BY DEF OnMaker
  <2>1. /\ i > 1 /\ st[t][i - 1].fn = "scanning"
        /\ st[t][i - 1].sbuf = Maker[st2[t][i].sbuf]
    BY <1>1 DEF Ordered, OnMaker
  <2>2. i - 1 \in 1..Len(st2[t])
    BY <1>2, <2>1
  <2> QED
    BY <1>1, <2>1, <2>2
<1>4. ASSUME ~tr PROVE Nested(st2) /\ \A w \in Workers : st2[w] = <<>>
  <2>1. Nested(st) /\ \A w \in Workers : st[w] = <<>>
    BY <1>4 DEF Ordered
  <2>2. Main \in Threads /\ \A w \in Workers : w \in Threads
    BY DEF Threads
  <2>3. Nested(st2)
    <3> SUFFICES ASSUME NEW i \in 1..Len(st2[Main]), Shares(st2[Main][i].sbuf)
                 PROVE  \E j \in 1..(i - 1) : st2[Main][j].sbuf = Parent[st2[Main][i].sbuf]
      BY DEF Nested
    <3>1. PICK j \in 1..(i - 1) : st[Main][j].sbuf = Parent[st2[Main][i].sbuf]
      BY <1>1, <2>1, <2>2 DEF Nested
    <3>2. j \in 1..Len(st2[Main])
      BY <1>2, <2>2
    <3> QED
      BY <1>1, <2>2, <3>1, <3>2
  <2>4. ASSUME NEW w \in Workers PROVE st2[w] = <<>>
    <3>1. Len(st[w]) = 0
      BY <2>1
    <3>2. Len(st2[w]) = 0
      <4>1. Len(st2[w]) # 0 => 1 \in 1..Len(st2[w])
        BY <1>2, <2>2
      <4> QED
        BY <1>1, <2>2, <3>1, <4>1
    <3> QED
      BY <1>2, <2>2, <3>2
  <2> QED
    BY <2>3, <2>4
<1> QED
  BY <1>3, <1>4 DEF Ordered

(* A call may be made there.                                               *)
Bears(st, th, c, tr) ==
  /\ Local(c.sbuf) => /\ st[th] # <<>> /\ st[th][Len(st[th])].fn = "scanning"
                      /\ st[th][Len(st[th])].sbuf = Maker[c.sbuf]
  /\ ~tr => th = Main
  /\ ~tr /\ Shares(c.sbuf) => \E j \in 1..Len(st[Main]) : st[Main][j].sbuf = Parent[c.sbuf]

LEMMA PushOrdered ==
  ASSUME NEW st \in Stacks, NEW th \in Threads, NEW c \in CallType, NEW q, NEW tr,
         Ordered(st, q, tr), Bears(st, th, c, tr)
  PROVE  Ordered(PushOn(st, th, c), q, tr)
<1>s. PICK st2 : st2 = PushOn(st, th, c)
  OBVIOUS
<1>1. /\ st2 \in Stacks /\ Len(st2[th]) = Len(st[th]) + 1 /\ Len(st[th]) \in Nat
      /\ \A i \in 1..Len(st[th]) : st2[th][i] = st[th][i]
      /\ st2[th][Len(st[th]) + 1] = c
      /\ \A t \in Threads \ {th} : st2[t] = st[t]
  BY <1>s, PushIs
<1>2. ASSUME NEW t \in Threads, NEW i \in 1..Len(st2[t])
      PROVE  \/ t = th /\ i = Len(st[th]) + 1
             \/ i \in 1..Len(st[t])
    <2>1. t = th => i = Len(st[th]) + 1 \/ i \in 1..Len(st[th])
      BY <1>1
    <2> QED
      BY <1>1, <2>1
<1>3. \A t \in Threads : \A i \in 1..Len(st[t]) : i \in 1..Len(st2[t]) /\ st2[t][i] = st[t][i]
  <2> SUFFICES ASSUME NEW t \in Threads, NEW i \in 1..Len(st[t])
               PROVE  i \in 1..Len(st2[t]) /\ st2[t][i] = st[t][i]
    OBVIOUS
  <2>1. CASE t = th
    BY <1>1, <2>1
  <2>2. CASE t # th
    BY <1>1, <2>2
  <2> QED
    BY <2>1, <2>2
<1>4. \A t \in Threads : Len(st[t]) \in Nat /\ st[t] \in Seq(CallType)
  BY DEF Stacks
<1>5. OnMaker(st2)
  <2> SUFFICES ASSUME NEW t \in Threads, NEW i \in 1..Len(st2[t]), Local(st2[t][i].sbuf)
               PROVE  /\ i > 1 /\ st2[t][i - 1].fn = "scanning"
                      /\ st2[t][i - 1].sbuf = Maker[st2[t][i].sbuf]
    BY DEF OnMaker
  <2>1. CASE t = th /\ i = Len(st[th]) + 1
    <3>1. /\ st[th] # <<>> /\ st[th][Len(st[th])].fn = "scanning"
          /\ st[th][Len(st[th])].sbuf = Maker[c.sbuf]
      BY <1>1, <2>1 DEF Bears
    <3>2. Len(st[th]) \in 1..Len(st[th]) /\ i > 1 /\ i - 1 = Len(st[th])
      BY <1>4, <2>1, <3>1
    <3> QED
      BY <1>1, <2>1, <3>1, <3>2
  <2>2. CASE i \in 1..Len(st[t])
    <3>1. /\ i > 1 /\ st[t][i - 1].fn = "scanning"
          /\ st[t][i - 1].sbuf = Maker[st[t][i].sbuf]
      BY <1>3, <2>2 DEF Ordered, OnMaker
    <3>2. i - 1 \in 1..Len(st[t])
      BY <1>4, <2>2, <3>1
    <3> QED
      BY <1>3, <2>2, <3>1, <3>2
  <2> QED
    BY <1>2, <2>1, <2>2
<1>6. ASSUME ~tr PROVE Nested(st2) /\ q = <<>> /\ \A w \in Workers : st2[w] = <<>>
  <2>1. /\ Nested(st) /\ q = <<>> /\ th = Main
        /\ \A w \in Workers : st[w] = <<>>
        /\ Shares(c.sbuf) => \E j \in 1..Len(st[Main]) : st[Main][j].sbuf = Parent[c.sbuf]
    BY <1>6 DEF Ordered, Bears
  <2>2. Nested(st2)
    <3> SUFFICES ASSUME NEW i \in 1..Len(st2[Main]), Shares(st2[Main][i].sbuf)
                 PROVE  \E j \in 1..(i - 1) : st2[Main][j].sbuf = Parent[st2[Main][i].sbuf]
      BY DEF Nested
    <3>1. CASE i = Len(st[Main]) + 1
      <4>1. PICK j \in 1..Len(st[Main]) : st[Main][j].sbuf = Parent[st2[Main][i].sbuf]
        BY <1>1, <2>1, <3>1
      <4>2. j \in 1..(i - 1)
        BY <1>1, <2>1, <3>1
      <4> QED
        BY <1>3, <2>1, <4>1, <4>2
    <3>2. CASE i \in 1..Len(st[Main])
      <4>1. PICK j \in 1..(i - 1) : st[Main][j].sbuf = Parent[st2[Main][i].sbuf]
        BY <1>3, <2>1, <3>2 DEF Nested
      <4>2. j \in 1..Len(st[Main])
        BY <1>1, <2>1, <3>2
      <4> QED
        BY <1>3, <2>1, <4>1, <4>2
    <3> QED
      BY <1>2, <2>1, <3>1, <3>2
  <2>3. \A w \in Workers : st2[w] = <<>>
    BY <1>1, <2>1, ThreadsAssumption DEF Threads
  <2> QED
    BY <2>1, <2>2, <2>3
<1> QED
  BY <1>s, <1>5, <1>6 DEF Ordered

(* The top call may be replaced by one on the same sbuf.                   *)
LEMMA TopBears ==
  ASSUME MemInv, Ordered(stack, work_queue, threading), NEW th \in Threads, stack[th] # <<>>
  PROVE  /\ Ordered(Base(th), work_queue, threading) /\ Base(th) \in Stacks
         /\ \A c : c.sbuf = Top(th).sbuf => Bears(Base(th), th, c, threading)
         /\ ~threading => th = Main
<1>1. stack \in Stacks /\ Base(th) \in Stacks /\ Fewer(Base(th), stack)
  BY TopIs
<1>k. PICK k : k = Len(stack[th]) - 1
  OBVIOUS
<1>2. /\ Len(stack[th]) \in Nat \ {0} /\ Len(stack[th]) \in 1..Len(stack[th])
      /\ k \in 0..Len(stack[th]) /\ k + 1 = Len(stack[th]) /\ Base(th) = CutTo(stack, th, k)
      /\ Top(th) = stack[th][Len(stack[th])]
  BY <1>k, <1>1, BelowIs DEF Base
<1>3. /\ Len(Base(th)[th]) = k
      /\ \A i \in 1..k : Base(th)[th][i] = stack[th][i]
  BY <1>1, <1>2, CutIs
<1>4. Ordered(Base(th), work_queue, threading)
  BY <1>1, FewerOrdered
<1>5. ~threading => th = Main
  BY DEF Ordered, Threads
<1>6. ASSUME NEW c, c.sbuf = Top(th).sbuf PROVE Bears(Base(th), th, c, threading)
  <2>1. ASSUME Local(c.sbuf)
        PROVE  /\ Base(th)[th] # <<>> /\ Base(th)[th][Len(Base(th)[th])].fn = "scanning"
               /\ Base(th)[th][Len(Base(th)[th])].sbuf = Maker[c.sbuf]
    <3>1. /\ Len(stack[th]) > 1 /\ stack[th][Len(stack[th]) - 1].fn = "scanning"
          /\ stack[th][Len(stack[th]) - 1].sbuf = Maker[c.sbuf]
      BY <1>2, <1>6, <2>1 DEF Ordered, OnMaker
    <3>2. k \in 1..k /\ Base(th)[th] # <<>>
      BY <1>2, <1>3, <3>1
    <3> QED
      BY <1>k, <1>3, <3>1, <3>2
  <2>2. ASSUME ~threading, Shares(c.sbuf)
        PROVE  \E j \in 1..Len(Base(th)[Main]) : Base(th)[Main][j].sbuf = Parent[c.sbuf]
    <3>1. th = Main
      BY <1>5, <2>2
    <3>2. PICK j \in 1..(Len(stack[th]) - 1) : stack[th][j].sbuf = Parent[c.sbuf]
      BY <1>2, <1>6, <2>2, <3>1 DEF Ordered, Nested
    <3> QED
      BY <1>k, <1>3, <3>1, <3>2
  <2> QED
    BY <1>5, <2>1, <2>2 DEF Bears
<1> QED
  BY <1>1, <1>4, <1>5, <1>6

LEMMA OnStackPush ==
  ASSUME NEW st \in Stacks, NEW th \in Threads, NEW c \in CallType, NEW s
  PROVE  OnStack(PushOn(st, th, c), s) <=> OnStack(st, s) \/ s = c.sbuf
<1>s. PICK st2 : st2 = PushOn(st, th, c)
  OBVIOUS
<1>1. /\ st2 \in Stacks /\ Len(st2[th]) = Len(st[th]) + 1 /\ Len(st[th]) \in Nat
      /\ \A i \in 1..Len(st[th]) : st2[th][i] = st[th][i]
      /\ st2[th][Len(st[th]) + 1] = c
      /\ \A t \in Threads \ {th} : st2[t] = st[t]
  BY <1>s, PushIs
<1>2. ASSUME OnStack(st2, s) PROVE OnStack(st, s) \/ s = c.sbuf
  <2>1. PICK t \in Threads : \E i \in 1..Len(st2[t]) : st2[t][i].sbuf = s
    BY <1>2 DEF OnStack
  <2>2. PICK i \in 1..Len(st2[t]) : st2[t][i].sbuf = s
    BY <2>1
  <2>3. CASE t = th /\ i = Len(st[th]) + 1
    BY <1>1, <2>2, <2>3
  <2>4. CASE t = th /\ i \in 1..Len(st[th])
    <3>1. st[t][i].sbuf = s /\ i \in 1..Len(st[t])
      BY <1>1, <2>2, <2>4
    <3> QED
      BY <3>1 DEF OnStack
  <2>5. CASE t # th
    <3>1. st[t][i].sbuf = s /\ i \in 1..Len(st[t])
      BY <1>1, <2>2, <2>5
    <3> QED
      BY <3>1 DEF OnStack
  <2> QED
    BY <1>1, <2>3, <2>4, <2>5
<1>3. ASSUME OnStack(st, s) PROVE OnStack(st2, s)
  <2>1. PICK t \in Threads : \E i \in 1..Len(st[t]) : st[t][i].sbuf = s
    BY <1>3 DEF OnStack
  <2>2. PICK i \in 1..Len(st[t]) : st[t][i].sbuf = s
    BY <2>1
  <2>3. i \in 1..Len(st2[t]) /\ st2[t][i] = st[t][i]
    <3>1. CASE t = th
      BY <1>1, <3>1
    <3>2. CASE t # th
      BY <1>1, <3>2
    <3> QED
      BY <3>1, <3>2
  <2>4. st2[t][i].sbuf = s
    BY <2>2, <2>3
  <2> QED
    BY <2>3, <2>4 DEF OnStack
<1>4. ASSUME s = c.sbuf PROVE OnStack(st2, s)
  <2>1. Len(st[th]) + 1 \in 1..Len(st2[th]) /\ st2[th][Len(st[th]) + 1].sbuf = s
    BY <1>1, <1>4
  <2> QED
    BY <2>1 DEF OnStack
<1> QED
  BY <1>s, <1>2, <1>3, <1>4

LEMMA OnStackTop ==
  ASSUME stack \in Stacks, NEW th \in Threads, stack[th] # <<>>, Base(th) \in Stacks, NEW s
  PROVE  OnStack(stack, s) <=> OnStack(Base(th), s) \/ s = Top(th).sbuf
<1>1. Top(th) \in CallType /\ Len(stack[th]) \in Nat \ {0}
      /\ Top(th) = stack[th][Len(stack[th])]
  BY BelowIs
<1>k. PICK k \in Nat : k = Len(stack[th]) - 1
  BY <1>1
<1>2. k \in 0..Len(stack[th]) /\ k + 1 = Len(stack[th]) /\ Base(th) = CutTo(stack, th, k)
  BY <1>k, <1>1 DEF Base
<1>3. /\ Len(Base(th)[th]) = k
      /\ \A i \in 1..k : Base(th)[th][i] = stack[th][i]
      /\ \A t \in Threads \ {th} : Base(th)[t] = stack[t]
  BY <1>2, CutIs
<1>4. ASSUME OnStack(stack, s) PROVE OnStack(Base(th), s) \/ s = Top(th).sbuf
  <2>1. PICK t \in Threads : \E i \in 1..Len(stack[t]) : stack[t][i].sbuf = s
    BY <1>4 DEF OnStack
  <2>2. PICK i \in 1..Len(stack[t]) : stack[t][i].sbuf = s
    BY <2>1
  <2>3. CASE t = th /\ i = k + 1
    BY <1>1, <1>2, <2>2, <2>3
  <2>4. CASE t = th /\ i \in 1..k
    <3>1. i \in 1..Len(Base(th)[t]) /\ Base(th)[t][i].sbuf = s
      BY <1>3, <2>2, <2>4
    <3> QED
      BY <3>1 DEF OnStack
  <2>5. CASE t # th
    <3>1. i \in 1..Len(Base(th)[t]) /\ Base(th)[t][i].sbuf = s
      BY <1>3, <2>2, <2>5
    <3> QED
      BY <3>1 DEF OnStack
  <2>6. t = th => i = k + 1 \/ i \in 1..k
    BY <1>2
  <2> QED
    BY <2>3, <2>4, <2>5, <2>6
<1>5. ASSUME OnStack(Base(th), s) PROVE OnStack(stack, s)
  <2>1. PICK t \in Threads : \E i \in 1..Len(Base(th)[t]) : Base(th)[t][i].sbuf = s
    BY <1>5 DEF OnStack
  <2>2. PICK i \in 1..Len(Base(th)[t]) : Base(th)[t][i].sbuf = s
    BY <2>1
  <2>3. i \in 1..Len(stack[t]) /\ stack[t][i] = Base(th)[t][i]
    <3>1. CASE t = th
      BY <1>2, <1>3, <3>1
    <3>2. CASE t # th
      BY <1>3, <3>2
    <3> QED
      BY <3>1, <3>2
  <2>4. stack[t][i].sbuf = s
    BY <2>2, <2>3
  <2> QED
    BY <2>3, <2>4 DEF OnStack
<1>6. ASSUME s = Top(th).sbuf PROVE OnStack(stack, s)
  <2>1. Len(stack[th]) \in 1..Len(stack[th]) /\ stack[th][Len(stack[th])].sbuf = s
    BY <1>1, <1>6
  <2> QED
    BY <2>1 DEF OnStack
<1> QED
  BY <1>4, <1>5, <1>6

LEMMA InQueueIs ==
  ASSUME NEW q \in Seq(UnitType), NEW s
  PROVE  /\ \A u \in UnitType : InQueue(Append(q, u), s) <=> InQueue(q, s) \/ s = u.sbuf
         /\ q # <<>> => (InQueue(q, s) <=> InQueue(Tail(q), s) \/ s = Head(q).sbuf)
<1>1. ASSUME NEW u \in UnitType
      PROVE  InQueue(Append(q, u), s) <=> InQueue(q, s) \/ s = u.sbuf
  <2>r. PICK r : r = Append(q, u)
    OBVIOUS
  <2>1. /\ Len(q) \in Nat /\ r \in Seq(UnitType)
        /\ Len(r) = Len(q) + 1
        /\ \A i \in 1..Len(q) : r[i] = q[i]
        /\ r[Len(q) + 1] = u
    BY <2>r, AppendProperties
  <2>2. \A i \in 1..Len(r) : i \in 1..Len(q) \/ i = Len(q) + 1
    BY <2>1
  <2>3. Len(q) + 1 \in 1..Len(r) /\ \A i \in 1..Len(q) : i \in 1..Len(r)
    BY <2>1
  <2>4. InQueue(r, s) <=> InQueue(q, s) \/ s = u.sbuf
    BY <2>1, <2>2, <2>3 DEF InQueue
  <2> QED
    BY <2>r, <2>4
<1>2. ASSUME q # <<>> PROVE InQueue(q, s) <=> InQueue(Tail(q), s) \/ s = Head(q).sbuf
  <2>r. PICK r : r = Tail(q)
    OBVIOUS
  <2>1. /\ Len(q) \in Nat \ {0} /\ r \in Seq(UnitType)
        /\ Len(r) = Len(q) - 1
        /\ Head(q) = q[1] /\ \A i \in 1..Len(r) : r[i] = q[i + 1] /\ i + 1 \in 1..Len(q)
    BY <1>2, <2>r, HeadTailProperties
  <2>2. \A i \in 1..Len(q) : i = 1 \/ (i - 1 \in 1..Len(r) /\ (i - 1) + 1 = i)
    BY <2>1
  <2>3. ASSUME InQueue(q, s) PROVE InQueue(r, s) \/ s = Head(q).sbuf
    <3>1. PICK i \in 1..Len(q) : q[i].sbuf = s
      BY <2>3 DEF InQueue
    <3>2. CASE i = 1
      BY <2>1, <3>1, <3>2
    <3>3. CASE i - 1 \in 1..Len(r) /\ (i - 1) + 1 = i
      <4>1. r[i - 1].sbuf = s
        BY <2>1, <3>1, <3>3
      <4> QED
        BY <3>3, <4>1 DEF InQueue
    <3> QED
      BY <2>2, <3>2, <3>3
  <2>4. InQueue(r, s) => InQueue(q, s)
    BY <2>1 DEF InQueue
  <2>5. s = Head(q).sbuf => InQueue(q, s)
    <3>1. 1 \in 1..Len(q)
      BY <2>1
    <3> QED
      BY <2>1, <3>1 DEF InQueue
  <2> QED
    BY <2>r, <2>3, <2>4, <2>5
<1> QED
  BY <1>1, <1>2

StillKept == /\ Ordered(stack', work_queue', threading')
             /\ Kept(stack', work_queue', abandoned', life', threading')

(* A sbuf stays where it is, or goes on to another place.                  *)
LEMMA StaysKept ==
  ASSUME LeakInv, UNCHANGED <<threading, abandoned>>,
         \A s \in Sbufs : life[s] # "unborn" => life'[s] # "unborn",
         \A s \in Sbufs : life'[s] = "alive" =>
           \/ OnStack(stack', s)
           \/ ~Local(s) /\ InQueue(work_queue', s)
           \/ Keeps(stack', work_queue', abandoned, life, threading, s)
           \/ /\ life[s] = "alive"
              /\ OnStack(stack, s) => OnStack(stack', s)
              /\ InQueue(work_queue, s) => InQueue(work_queue', s)
  PROVE  Kept(stack', work_queue', abandoned', life', threading')
<1>1. \A s : Sliced(life, s) => Sliced(life', s)
  BY DEF Sliced, Sbufs
<1>2. \A s \in Sbufs : life[s] = "alive" => Keeps(stack, work_queue, abandoned, life, threading, s)
  BY DEF LeakInv, Kept
<1>3. ASSUME NEW s \in Sbufs, life'[s] = "alive"
      PROVE  Keeps(stack', work_queue', abandoned', life', threading', s)
  <2>1. CASE OnStack(stack', s) \/ (~Local(s) /\ InQueue(work_queue', s))
    BY <2>1 DEF Keeps
  <2>2. CASE Keeps(stack', work_queue', abandoned, life, threading, s)
    BY <1>1, <2>2 DEF Keeps, Excused
  <2>3. CASE /\ life[s] = "alive"
             /\ OnStack(stack, s) => OnStack(stack', s)
             /\ InQueue(work_queue, s) => InQueue(work_queue', s)
    BY <1>1, <1>2, <2>3 DEF Keeps, Excused
  <2> QED
    BY <1>3, <2>1, <2>2, <2>3
<1> QED
  BY <1>3 DEF Kept

(* With workers the queue is free.                                         *)
LEMMA QueueOrdered ==
  ASSUME NEW st, NEW q, NEW q2, NEW tr, Ordered(st, q, tr), q2 = q \/ tr
  PROVE  Ordered(st, q2, tr)
BY DEF Ordered

LEMMA SameSbufLeak ==
  ASSUME LeakInv, NEW th \in Threads, stack[th] # <<>>, NEW c \in CallType, Become(th, c),
         c.sbuf = Top(th).sbuf, UNCHANGED <<threading, abandoned>>,
         \/ work_queue' = work_queue /\ life' = life
         \/ threading /\ \E u \in UnitType :
              /\ work_queue' = Append(work_queue, u)
              /\ \/ life' = life
                 \/ ~Local(u.sbuf) /\ life' = [life EXCEPT ![u.sbuf] = "alive"]
  PROVE  StillKept
<1>1. /\ stack \in Stacks /\ Base(th) \in Stacks /\ work_queue \in Seq(UnitType)
      /\ MemInv /\ Ordered(stack, work_queue, threading)
  BY TopIs DEF LeakInv
<1>2. stack' = PushOn(Base(th), th, c)
  BY <1>1, ShapeIs
<1>3. Ordered(stack', work_queue, threading)
  BY <1>1, <1>2, TopBears, PushOrdered
<1>4. Ordered(stack', work_queue', threading')
  BY <1>3, QueueOrdered
<1>5. \A s : OnStack(stack, s) => OnStack(stack', s)
  <2>1. \A s : OnStack(stack, s) <=> OnStack(Base(th), s) \/ s = Top(th).sbuf
    BY <1>1, OnStackTop
  <2>2. \A s : OnStack(stack', s) <=> OnStack(Base(th), s) \/ s = c.sbuf
    BY <1>1, <1>2, OnStackPush
  <2> QED
    BY <2>1, <2>2
<1>6. CASE work_queue' = work_queue /\ life' = life
  <2>1. Kept(stack', work_queue', abandoned', life', threading')
    BY <1>5, <1>6, StaysKept
  <2> QED
    BY <1>4, <2>1 DEF StillKept
<1>7. ASSUME NEW u \in UnitType, work_queue' = Append(work_queue, u),
             \/ life' = life
             \/ ~Local(u.sbuf) /\ life' = [life EXCEPT ![u.sbuf] = "alive"]
      PROVE  StillKept
  <2>1. \A s : InQueue(work_queue', s) <=> InQueue(work_queue, s) \/ s = u.sbuf
    BY <1>1, <1>7, InQueueIs
  <2>2. life \in [Sbufs -> {"unborn", "alive", "deleted"}] /\ u.sbuf \in Sbufs
    BY <1>1 DEF MemInv, TypeOK, UnitType
  <2>3. /\ \A s \in Sbufs : life[s] # "unborn" => life'[s] # "unborn"
        /\ \A s \in Sbufs : life'[s] = "alive" =>
             life[s] = "alive" \/ (s = u.sbuf /\ ~Local(s))
    BY <1>7, <2>2
  <2>4. Kept(stack', work_queue', abandoned', life', threading')
    BY <1>5, <2>1, <2>3, StaysKept
  <2> QED
    BY <1>4, <2>4 DEF StillKept
<1> QED
  BY <1>6, <1>7

LEMMA TwoLeak ==
  ASSUME LeakInv, NEW th \in Threads, stack[th] # <<>>,
         NEW c \in CallType, NEW e \in CallType,
         stack' = [stack EXCEPT ![th] = Below(th) \o <<c, e>>],
         c.sbuf = Top(th).sbuf, Bears(PushOn(Base(th), th, c), th, e, threading),
         UNCHANGED <<threading, abandoned, work_queue>>,
         life' = life \/ life' = [life EXCEPT ![e.sbuf] = "alive"]
  PROVE  StillKept
<1>1. /\ stack \in Stacks /\ Base(th) \in Stacks /\ work_queue \in Seq(UnitType)
      /\ MemInv /\ Ordered(stack, work_queue, threading)
  BY TopIs DEF LeakInv
<1>m. PICK mid : mid = PushOn(Base(th), th, c)
  OBVIOUS
<1>2m. mid \in Stacks
  <2>1. PushOn(Base(th), th, c) \in Stacks
    BY <1>1, PushIs
  <2> QED
    BY <1>m, <2>1
<1>2. stack' = PushOn(mid, th, e)
  <2>0. stack \in Stacks
    BY <1>1
  <2>1. stack' = PushOn(PushOn(Base(th), th, c), th, e)
    BY <2>0, TwoShape
  <2> QED
    BY <1>m, <2>1
<1>3. Ordered(mid, work_queue, threading)
  BY <1>1, <1>m, TopBears, PushOrdered
<1>4. Ordered(stack', work_queue', threading')
  <2>0. Bears(mid, th, e, threading)
    BY <1>m
  <2>1. Ordered(PushOn(mid, th, e), work_queue, threading)
    BY <1>2m, <1>3, <2>0, PushOrdered
  <2>2. Ordered(stack', work_queue, threading)
    BY <1>2, <2>1, Zenon
  <2> QED
    BY <2>2
<1>5. \A s : OnStack(stack', s) <=> OnStack(stack, s) \/ s = e.sbuf
  <2>1. \A s : OnStack(stack, s) <=> OnStack(Base(th), s) \/ s = Top(th).sbuf
    BY <1>1, OnStackTop
  <2>2. \A s : OnStack(mid, s) <=> OnStack(Base(th), s) \/ s = c.sbuf
    BY <1>1, <1>m, OnStackPush
  <2>3. \A s : OnStack(stack', s) <=> OnStack(mid, s) \/ s = e.sbuf
    <3>1. \A s : OnStack(PushOn(mid, th, e), s) <=> OnStack(mid, s) \/ s = e.sbuf
      BY <1>2m, OnStackPush
    <3> QED
      BY <1>2, <3>1, Zenon
  <2> QED
    BY <2>1, <2>2, <2>3
<1>6. life \in [Sbufs -> {"unborn", "alive", "deleted"}] /\ e.sbuf \in Sbufs
  BY <1>1 DEF MemInv, TypeOK, CallType
<1>7. /\ \A s \in Sbufs : life[s] # "unborn" => life'[s] # "unborn"
      /\ \A s \in Sbufs : life'[s] = "alive" => life[s] = "alive" \/ s = e.sbuf
  BY <1>6
<1>8. Kept(stack', work_queue', abandoned', life', threading')
  BY <1>5, <1>7, StaysKept
<1> QED
  BY <1>4, <1>8 DEF StillKept

LEMMA ReturnLeak ==
  ASSUME LeakInv, NEW th \in Threads, stack[th] # <<>>, Return(th),
         UNCHANGED <<threading, abandoned>>, work_queue' = work_queue \/ threading,
         \A s : InQueue(work_queue, s) => InQueue(work_queue', s),
         \/ life' = life /\ Keeps(Base(th), work_queue', abandoned, life, threading, Top(th).sbuf)
         \/ life' = [life EXCEPT ![Top(th).sbuf] = "deleted"]
  PROVE  StillKept
<1>1. /\ stack \in Stacks /\ Base(th) \in Stacks /\ Top(th).sbuf \in Sbufs
      /\ MemInv /\ Ordered(stack, work_queue, threading)
  BY TopIs DEF LeakInv
<1>2. stack' = Base(th)
  BY <1>1, ShapeIs
<1>3. Ordered(stack', work_queue', threading')
  <2>1. Ordered(Base(th), work_queue, threading)
    BY <1>1, TopBears
  <2>2. Ordered(Base(th), work_queue', threading)
    BY <2>1, QueueOrdered
  <2> QED
    BY <1>2, <2>2
<1>4. \A s : OnStack(stack, s) => OnStack(stack', s) \/ s = Top(th).sbuf
  BY <1>1, <1>2, OnStackTop
<1>5. life \in [Sbufs -> {"unborn", "alive", "deleted"}]
  BY <1>1 DEF MemInv, TypeOK
<1>6. /\ \A s \in Sbufs : life[s] # "unborn" => life'[s] # "unborn"
      /\ \A s \in Sbufs : life'[s] = "alive" =>
           \/ life[s] = "alive" /\ s # Top(th).sbuf
           \/ Keeps(stack', work_queue', abandoned, life, threading, s)
  <2>1. CASE life' = life /\ Keeps(Base(th), work_queue', abandoned, life, threading, Top(th).sbuf)
    BY <1>2, <2>1
  <2>2. CASE life' = [life EXCEPT ![Top(th).sbuf] = "deleted"]
    BY <1>1, <1>5, <2>2
  <2> QED
    BY <2>1, <2>2
<1>7. Kept(stack', work_queue', abandoned', life', threading')
  BY <1>4, <1>6, StaysKept
<1> QED
  BY <1>3, <1>7 DEF StillKept

LEMMA EnterLeak ==
  ASSUME LeakInv, NEW th \in Threads, NEW c \in CallType, Enter(th, c),
         Bears(stack, th, c, threading), UNCHANGED <<threading, abandoned>>,
         \/ /\ work_queue' = work_queue
            /\ life' = [life EXCEPT ![c.sbuf] = "alive"]
         \/ /\ threading /\ life' = life
            /\ work_queue # <<>> /\ work_queue' = Tail(work_queue)
            /\ c.sbuf = Head(work_queue).sbuf
  PROVE  StillKept
<1>1. /\ stack \in Stacks /\ work_queue \in Seq(UnitType)
      /\ MemInv /\ Ordered(stack, work_queue, threading)
  BY TypedStacks DEF LeakInv, MemInv
<1>2. stack' = PushOn(stack, th, c)
  BY <1>1, ShapeIs
<1>3. Ordered(stack', work_queue', threading')
  <2>1. Ordered(stack', work_queue, threading)
    BY <1>1, <1>2, PushOrdered
  <2>2. Ordered(stack', work_queue', threading)
    BY <2>1, QueueOrdered
  <2> QED
    BY <2>2
<1>4. \A s : OnStack(stack', s) <=> OnStack(stack, s) \/ s = c.sbuf
  BY <1>1, <1>2, OnStackPush
<1>5. life \in [Sbufs -> {"unborn", "alive", "deleted"}] /\ c.sbuf \in Sbufs
  BY <1>1 DEF MemInv, TypeOK, CallType
<1>6. \A s : InQueue(work_queue, s) => InQueue(work_queue', s) \/ s = c.sbuf
  BY <1>1, InQueueIs
<1>7. /\ \A s \in Sbufs : life[s] # "unborn" => life'[s] # "unborn"
      /\ \A s \in Sbufs : life'[s] = "alive" => life[s] = "alive" \/ s = c.sbuf
  BY <1>5
<1>8. Kept(stack', work_queue', abandoned', life', threading')
  BY <1>4, <1>6, <1>7, StaysKept
<1> QED
  BY <1>3, <1>8 DEF StillKept

LEMMA NothingMoves ==
  ASSUME LeakInv, UNCHANGED <<threading, life, work_queue, stack, abandoned>>
  PROVE  StillKept
BY DEF LeakInv, StillKept, Ordered, OnMaker, Nested, Kept, Keeps, OnStack, InQueue, LeftIn,
       Excused, Sliced

(* Without another use, a call of release_sbuf is what retains its sbuf.   *)
LEMMA RetainsAlone ==
  ASSUME MemInv, NEW th \in Threads, stack[th] # <<>>, Top(th).fn = "release",
         ~OnStack(Base(th), Top(th).sbuf), ~InQueue(work_queue, Top(th).sbuf),
         ~LeftIn(abandoned, Top(th).sbuf)
  PROVE  Retains({Top(th).sbuf}) = 1
<1>s. PICK s : s = Top(th).sbuf
  OBVIOUS
<1>1. /\ stack \in Stacks /\ work_queue \in Seq(UnitType) /\ Base(th) \in Stacks
      /\ abandoned \in Seq(Sbufs)
  BY TopIs
<1>k. PICK k : k = Len(stack[th]) - 1
  OBVIOUS
<1>2. k \in 0..Len(stack[th]) /\ Base(th) = CutTo(stack, th, k)
  BY <1>k, <1>1, BelowIs DEF Base
<1>3. Cut(stack, th, k, Base(th))
  <2>1. /\ Len(CutTo(stack, th, k)[th]) = k
        /\ \A i \in 1..k : CutTo(stack, th, k)[th][i] = stack[th][i]
        /\ \A t \in Threads \ {th} : CutTo(stack, th, k)[t] = stack[t]
    BY <1>1, <1>2, CutIs
  <2> QED
    BY <1>2, <2>1 DEF Cut
<1>4. Cardinality(Held(stack, {s})) =
        Cardinality(Held(Base(th), {s})) + Cardinality(Above(stack[th], k, {s}))
  BY <1>1, <1>2, <1>3, HeldCut
<1>5. Cardinality(Above(stack[th], k, {s})) = 1
  <2>1. Cardinality(Above(stack[th], k, {s})) = One(Top(th), {s})
    BY <1>1, <1>k, OffTop
  <2>2. One(Top(th), {s}) = 1
    BY <1>s DEF One, Retained, RetainingCalls
  <2> QED
    BY <2>1, <2>2
<1>6. Held(Base(th), {s}) = {}
  <2>1. \A f : f \notin Held(Base(th), {s})
    BY <1>s, <1>1, HeldAre DEF OnStack, Retained
  <2> QED
    BY <2>1
<1>7. Queued(work_queue, {s}) = {} /\ Lost(abandoned, {s}) = {}
  BY <1>s, <1>1 DEF Queued, Lost, InQueue, LeftIn
<1>8. /\ Cardinality(Held(Base(th), {s})) = 0 /\ Cardinality(Queued(work_queue, {s})) = 0
      /\ Cardinality(Lost(abandoned, {s})) = 0
  BY <1>6, <1>7, FS_EmptySet
<1>9. Retains({s}) = Cardinality(Queued(work_queue, {s})) + Cardinality(Held(stack, {s}))
                     + Cardinality(Lost(abandoned, {s}))
  BY RetainsAre
<1> QED
  BY <1>s, <1>4, <1>5, <1>8, <1>9

(* What is cut from what a scanner was called on.                          *)
LEMMA SlicedBy ==
  ASSUME MemInv, NEW d \in Derived, Local(d), life[d] = "alive", Maker[d] \in Sbufs,
         life[Maker[d]] = "alive", ~Local(Maker[d])
  PROVE  Parent[d] = Maker[d] \/ Sliced(life, Parent[d])
<1>s. PICK S : S = {Maker[d]} \union {x \in Sbufs : Sliced(life, x)}
  OBVIOUS
<1>1. S \in SUBSET Sbufs /\ Maker[d] \in S
  BY <1>s
<1>2. ASSUME NEW e \in S \intersect Derived, Shares(e) PROVE Parent[e] \in S
  <2>0. Parent[e] \in Sbufs
    BY SbufsAssumption
  <2>1. life[e] # "unborn" /\ ~Local(e)
    <3>1. CASE e = Maker[d]
      BY <3>1
    <3>2. CASE e # Maker[d]
      <4>1. Sliced(life, e)
        BY <1>s, <3>2
      <4>2. PICK g \in Derived : Kind[g] = "slice" /\ life[g] # "unborn" /\ Parent[g] = e
        BY <4>1 DEF Sliced
      <4>3. ~NotScanned(calls, e)
        BY <4>2 DEF MemInv, SharesRight, Shares
      <4> QED
        BY <4>3 DEF MemInv, SharesRight, Unborn, Sbufs
    <3> QED
      BY <3>1, <3>2
  <2>2. Kind[e] = "slice"
    BY <1>2, <2>1 DEF Shares, Local
  <2>3. Sliced(life, Parent[e])
    BY <2>1, <2>2 DEF Sliced
  <2> QED
    BY <1>s, <2>0, <2>3
<1>3. Shares(d)
  BY DEF Local, Shares
<1>4. Parent[d] \in S
  BY <1>1, <1>2, <1>3, MemoryAssumption
<1> QED
  BY <1>s, <1>4

(* The sbuf of a call that is left waiting is used below the top.          *)
LEMMA WaitsBelow ==
  ASSUME stack \in Stacks, NEW th \in Threads, stack[th] # <<>>,
         NEW t \in Threads, NEW i \in 1..(Len(stack[t]) - 1)
  PROVE  OnStack(Base(th), stack[t][i].sbuf)
<1>k. PICK k : k = Len(stack[th]) - 1
  OBVIOUS
<1>1. /\ Len(stack[th]) \in Nat \ {0} /\ Len(stack[t]) \in Nat
      /\ k \in 0..Len(stack[th]) /\ Base(th) = CutTo(stack, th, k)
  BY <1>k, BelowIs DEF Base, Stacks
<1>2. /\ Len(Base(th)[th]) = k /\ \A j \in 1..k : Base(th)[th][j] = stack[th][j]
      /\ \A u \in Threads \ {th} : Base(th)[u] = stack[u]
  BY <1>1, CutIs
<1>3. i \in 1..Len(Base(th)[t]) /\ Base(th)[t][i] = stack[t][i]
  <2>1. CASE t = th
    BY <1>k, <1>1, <1>2, <2>1
  <2>2. CASE t # th
    BY <1>1, <1>2, <2>2
  <2> QED
    BY <2>1, <2>2
<1> QED
  BY <1>3 DEF OnStack

(* A release that is not the last leaves the sbuf to another use, or to its*)
(* slices.                                                                 *)
LEMMA StaysSomewhere ==
  ASSUME LeakInv, NEW th \in Threads, stack[th] # <<>>, Top(th).fn = "release",
         reference_count[Top(th).sbuf] # 1
  PROVE  Keeps(Base(th), work_queue, abandoned, life, threading, Top(th).sbuf)
<1>s. PICK s : s = Top(th).sbuf
  OBVIOUS
<1>1. /\ MemInv /\ stack \in Stacks /\ s \in Sbufs /\ life[s] = "alive" /\ ~Local(s)
      /\ Base(th) \in Stacks
  <2>1. MemInv
    BY DEF LeakInv
  <2>2. CallRight(life, calls, Top(th)) /\ stack \in Stacks /\ s \in Sbufs /\ Base(th) \in Stacks
    BY <1>s, <2>1, TopIs
  <2> QED
    BY <1>s, <2>1, <2>2 DEF CallRight
<1> SUFFICES ASSUME ~OnStack(Base(th), s), ~InQueue(work_queue, s), ~LeftIn(abandoned, s)
             PROVE  Excused(abandoned, life, threading, s)
  BY <1>s, <1>1 DEF Keeps
<1>2. Slices(s) # {}
  <2>1. Retains({s}) = 1
    BY <1>s, <1>1, RetainsAlone
  <2>2. reference_count[s] = Retains({s}) + Cardinality(Slices(s))
    BY <1>1 DEF MemInv, ReferencesExact
  <2>3. Slices(s) = {} => Cardinality(Slices(s)) = 0
    BY FS_EmptySet
  <2> QED
    BY <1>s, <2>1, <2>2, <2>3
<1>3. PICK d \in Derived : Shares(d) /\ Parent[d] = s /\ life[d] = "alive"
  BY <1>2 DEF Slices
<1>4. Keeps(stack, work_queue, abandoned, life, threading, d)
  BY <1>3 DEF LeakInv, Kept, Sbufs
<1>5. threading \/ Len(abandoned) > 0
  <2> SUFFICES ASSUME ~threading, ~(Len(abandoned) > 0) PROVE FALSE
    OBVIOUS
  <2>1. /\ Nested(stack) /\ work_queue = <<>> /\ \A w \in Workers : stack[w] = <<>>
    BY DEF LeakInv, Ordered
  <2>2. Len(abandoned) \in Nat
    BY <1>1 DEF MemInv, TypeOK
  <2>3. ~InQueue(work_queue, d) /\ ~LeftIn(abandoned, d)
    BY <2>1, <2>2 DEF InQueue, LeftIn
  <2>4. OnStack(stack, d)
    BY <1>4, <2>3 DEF Keeps, Excused
  <2>5. PICK t \in Threads : \E i \in 1..Len(stack[t]) : stack[t][i].sbuf = d
    BY <2>4 DEF OnStack
  <2>6. t = Main
    BY <2>1, <2>5 DEF Threads
  <2>7. PICK i \in 1..Len(stack[Main]) : stack[Main][i].sbuf = d
    BY <2>5, <2>6
  <2>8. PICK j \in 1..(i - 1) : stack[Main][j].sbuf = s
    BY <1>3, <2>1, <2>7 DEF Nested
  <2>9. Main \in Threads /\ j \in 1..(Len(stack[Main]) - 1)
    <3>1. Main \in Threads /\ Len(stack[Main]) \in Nat
      BY <1>1 DEF Threads, Stacks
    <3> QED
      BY <3>1
  <2> QED
    BY <1>1, <2>8, <2>9, WaitsBelow
<1>6. Sliced(life, s)
  <2>1. CASE Kind[d] = "slice"
    BY <1>3, <2>1 DEF Sliced
  <2>2. CASE Kind[d] # "slice"
    <3>1. Local(d)
      BY <1>3, <2>2 DEF Shares, Local
    <3>2. OnStack(stack, d)
      BY <1>4, <3>1 DEF Keeps
    <3>3. PICK t \in Threads : \E i \in 1..Len(stack[t]) : stack[t][i].sbuf = d
      BY <3>2 DEF OnStack
    <3>4. PICK i \in 1..Len(stack[t]) : stack[t][i].sbuf = d
      BY <3>3
    <3>5. i > 1 /\ stack[t][i - 1].fn = "scanning" /\ stack[t][i - 1].sbuf = Maker[d]
      BY <3>1, <3>4 DEF LeakInv, Ordered, OnMaker
    <3>6. i - 1 \in 1..(Len(stack[t]) - 1) /\ i - 1 \in 1..Len(stack[t])
      <4>1. Len(stack[t]) \in Nat
        BY <1>1 DEF Stacks
      <4> QED
        BY <3>5, <4>1
    <3>7. CallRight(life, calls, stack[t][i - 1])
      BY <1>1, <3>6 DEF MemInv, Control, AllRight
    <3>8. Maker[d] \in Sbufs /\ life[Maker[d]] = "alive" /\ ~Local(Maker[d])
      BY <3>5, <3>7, SbufsAssumption DEF CallRight
    <3>9. s = Maker[d] \/ Sliced(life, s)
      BY <1>1, <1>3, <3>1, <3>8, SlicedBy
    <3>10. s # Maker[d]
      BY <1>1, <3>5, <3>6, WaitsBelow
    <3> QED
      BY <3>9, <3>10
  <2> QED
    BY <2>1, <2>2
<1> QED
  BY <1>5, <1>6 DEF Excused

LEMMA ReleaseLeak ==
  ASSUME LeakInv, NEW th \in Threads, Release(th)
  PROVE  StillKept
<1>s. PICK s : s = Top(th).sbuf
  OBVIOUS
<1>1. /\ stack[th] # <<>> /\ Top(th).fn = "release"
      /\ IF reference_count[s] = 1
         THEN Destroy(th, s)
         ELSE Return(th) /\ UNCHANGED <<life, fault>>
      /\ UNCHANGED <<threading, work_queue, abandoned>>
  BY <1>s DEF Release, In
<1>2. s \in Sbufs
  BY <1>s, <1>1, TopIs DEF LeakInv
<1>3. CASE reference_count[s] # 1
  <2>1. Keeps(Base(th), work_queue, abandoned, life, threading, s)
    BY <1>s, <1>1, <1>3, StaysSomewhere
  <2>2. Return(th) /\ life' = life /\ UNCHANGED <<threading, abandoned>>
        /\ work_queue' = work_queue
        /\ Keeps(Base(th), work_queue', abandoned, life, threading, Top(th).sbuf)
    BY <1>s, <1>1, <1>3, <2>1
  <2> QED
    BY <1>1, <2>2, ReturnLeak
<1>4. CASE reference_count[s] = 1
  <2>1. CASE children[s] # 0
    BY <1>1, <1>4, <2>1, NothingMoves DEF Destroy
  <2>2. CASE children[s] = 0 /\ Shares(s)
    <3>1. PICK c \in CallType : c = Call("del", s, NoScanner, {})
      BY <1>2 DEF CallType, Call
    <3>2. Become(th, c) /\ life' = life /\ work_queue' = work_queue
          /\ UNCHANGED <<threading, abandoned>> /\ c.sbuf = Top(th).sbuf
      BY <1>s, <1>1, <1>4, <2>2, <3>1 DEF Destroy, Call
    <3> QED
      BY <1>1, <3>2, SameSbufLeak
  <2>3. CASE children[s] = 0 /\ ~Shares(s)
    <3>1. Return(th) /\ life' = [life EXCEPT ![Top(th).sbuf] = "deleted"]
          /\ work_queue' = work_queue /\ UNCHANGED <<threading, abandoned>>
      BY <1>s, <1>1, <1>4, <2>3 DEF Destroy
    <3> QED
      BY <1>1, <3>1, ReturnLeak
  <2> QED
    BY <2>1, <2>2, <2>3
<1> QED
  BY <1>3, <1>4

(* A throw moves what it leaves on the stack to what is abandoned.         *)
LEMMA AbandonedAre ==
  ASSUME stack \in Stacks, abandoned \in Seq(Sbufs),
         NEW th \in Threads, NEW k \in 0..Len(stack[th]),
         abandoned' = abandoned \o SbufsAbove(stack[th], k)
  PROVE  /\ \A s : LeftIn(abandoned', s) <=>
                 \/ LeftIn(abandoned, s)
                 \/ \E j \in (k + 1)..Len(stack[th]) : stack[th][j].sbuf = s
         /\ Len(abandoned) > 0 => Len(abandoned') > 0
<1>1. Len(stack[th]) \in Nat /\ stack[th] \in Seq(CallType)
  BY DEF Stacks
<1>r. PICK r : r = SbufsAbove(stack[th], k)
  OBVIOUS
<1>n. PICK n \in Nat : n = Len(stack[th]) - k /\ Len(stack[th]) = k + n
  <2>1. Len(stack[th]) - k \in Nat /\ Len(stack[th]) = k + (Len(stack[th]) - k)
    BY <1>1
  <2> QED
    BY <2>1
<1>2. r = [j \in 1..n |-> stack[th][k + j].sbuf] /\ r \in Seq(Sbufs)
  <2>1. r = [j \in 1..n |-> stack[th][k + j].sbuf]
    BY <1>r, <1>n DEF SbufsAbove
  <2>2. r \in Seq(Sbufs)
    <3>1. \A j \in 1..n : k + j \in 1..Len(stack[th])
      BY <1>1, <1>n
    <3>2. \A j \in 1..n : stack[th][k + j] \in CallType
      <4>1. \A i \in 1..Len(stack[th]) : stack[th][i] \in CallType
        BY <1>1
      <4> QED
        BY <3>1, <4>1
    <3>3. \A j \in 1..n : stack[th][k + j].sbuf \in Sbufs
      BY <3>2 DEF CallType
    <3> QED
      BY <2>1, <3>3
  <2> QED
    BY <2>1, <2>2
<1>3. Len(r) = n /\ \A j \in 1..n : r[j] = stack[th][k + j].sbuf
  BY <1>2
<1>4. /\ Len(abandoned) \in Nat /\ Len(abandoned') = Len(abandoned) + n
      /\ \A i \in 1..Len(abandoned) : abandoned'[i] = abandoned[i]
      /\ \A i \in 1..n : abandoned'[Len(abandoned) + i] = r[i]
  <2>a. PICK b : b = abandoned \o r
    OBVIOUS
  <2>1. /\ b \in Seq(Sbufs) /\ DOMAIN b = 1..(Len(abandoned) + n)
        /\ \A i \in 1..Len(abandoned) : b[i] = abandoned[i]
        /\ \A i \in (Len(abandoned) + 1)..(Len(abandoned) + n) : b[i] = r[i - Len(abandoned)]
    BY <1>1, <1>2, <1>3, <2>a, ConcatProperties
  <2>2. Len(abandoned) \in Nat /\ Len(b) = Len(abandoned) + n
    BY <1>1, <2>1
  <2>3. ASSUME NEW i \in 1..n PROVE b[Len(abandoned) + i] = r[i]
    <3>1. /\ Len(abandoned) + i \in (Len(abandoned) + 1)..(Len(abandoned) + n)
          /\ (Len(abandoned) + i) - Len(abandoned) = i
      BY <2>2
    <3> QED
      BY <2>1, <3>1
  <2>4. abandoned' = b
    BY <1>r, <2>a
  <2> QED
    BY <2>1, <2>2, <2>3, <2>4
<1>5. \A s : LeftIn(abandoned, s) => LeftIn(abandoned', s)
  <2>1. \A i \in 1..Len(abandoned) : i \in 1..Len(abandoned')
    BY <1>4
  <2> QED
    BY <1>4, <2>1 DEF LeftIn
<1>6. \A j \in (k + 1)..Len(stack[th]) : LeftIn(abandoned', stack[th][j].sbuf)
  <2> SUFFICES ASSUME NEW j \in (k + 1)..Len(stack[th])
               PROVE  LeftIn(abandoned', stack[th][j].sbuf)
    OBVIOUS
  <2>1. j - k \in 1..n /\ k + (j - k) = j
    BY <1>n
  <2>2. Len(abandoned) + (j - k) \in 1..Len(abandoned')
    BY <1>4, <2>1
  <2>3. abandoned'[Len(abandoned) + (j - k)] = stack[th][j].sbuf
    BY <1>3, <1>4, <2>1
  <2> QED
    BY <2>2, <2>3 DEF LeftIn
<1>7. ASSUME NEW s, LeftIn(abandoned', s)
      PROVE  \/ LeftIn(abandoned, s)
             \/ \E j \in (k + 1)..Len(stack[th]) : stack[th][j].sbuf = s
  <2>1. PICK i \in 1..Len(abandoned') : abandoned'[i] = s
    BY <1>7 DEF LeftIn
  <2>2. CASE i \in 1..Len(abandoned)
    BY <1>4, <2>1, <2>2 DEF LeftIn
  <2>3. CASE i \notin 1..Len(abandoned)
    <3>1. PICK j : j = i - Len(abandoned)
      OBVIOUS
    <3>2. j \in 1..n /\ Len(abandoned) + j = i
      BY <1>4, <2>3, <3>1
    <3>3. stack[th][k + j].sbuf = s
      BY <1>3, <1>4, <2>1, <3>2
    <3>4. k + j \in (k + 1)..Len(stack[th])
      BY <1>n, <3>2
    <3> QED
      BY <3>3, <3>4
  <2> QED
    BY <2>2, <2>3
<1>8. Len(abandoned) > 0 => Len(abandoned') > 0
  BY <1>4
<1> QED
  BY <1>5, <1>6, <1>7, <1>8

LEMMA AbandonsAll ==
  ASSUME LeakInv, NEW th \in Threads, NEW k \in 0..Len(stack[th]),
         \A j \in (k + 1)..Len(stack[th]) :
           stack[th][j].fn \in RetainingCalls /\ ~Local(stack[th][j].sbuf),
         abandoned' = abandoned \o SbufsAbove(stack[th], k),
         UNCHANGED <<threading, work_queue, life>>,
         \A s : (\E j \in 1..k : stack[th][j].sbuf = s) => OnStack(stack', s),
         \A t \in Threads \ {th} : stack'[t] = stack[t]
  PROVE  Kept(stack', work_queue', abandoned', life', threading')
<1>1. stack \in Stacks /\ abandoned \in Seq(Sbufs) /\ Len(stack[th]) \in Nat
      /\ stack[th] \in Seq(CallType)
  BY TypedStacks DEF LeakInv, MemInv, Stacks
<1>2. /\ \A s : LeftIn(abandoned', s) <=>
              \/ LeftIn(abandoned, s)
              \/ \E j \in (k + 1)..Len(stack[th]) : stack[th][j].sbuf = s
      /\ Len(abandoned) > 0 => Len(abandoned') > 0
  BY <1>1, AbandonedAre
<1>5. \A s : LeftIn(abandoned, s) => LeftIn(abandoned', s)
  BY <1>2
<1>6. \A j \in (k + 1)..Len(stack[th]) : LeftIn(abandoned', stack[th][j].sbuf)
  BY <1>2
<1>7. ASSUME NEW s \in Sbufs, OnStack(stack, s)
      PROVE  OnStack(stack', s) \/ (~Local(s) /\ LeftIn(abandoned', s))
  <2>1. PICK t \in Threads : \E i \in 1..Len(stack[t]) : stack[t][i].sbuf = s
    BY <1>7 DEF OnStack
  <2>2. PICK i \in 1..Len(stack[t]) : stack[t][i].sbuf = s
    BY <2>1
  <2>3. CASE t # th
    BY <2>2, <2>3 DEF OnStack
  <2>4. CASE t = th /\ i \in 1..k
    BY <2>2, <2>4
  <2>5. CASE t = th /\ i \in (k + 1)..Len(stack[th])
    BY <1>6, <2>2, <2>5
  <2>6. t = th => i \in 1..k \/ i \in (k + 1)..Len(stack[th])
    BY <1>1
  <2> QED
    BY <2>3, <2>4, <2>5, <2>6
<1>8. \A s : Excused(abandoned, life, threading, s) => Excused(abandoned', life, threading, s)
  BY <1>2 DEF Excused
<1>9. ASSUME NEW s \in Sbufs, life[s] = "alive"
      PROVE  Keeps(stack', work_queue, abandoned', life, threading, s)
  <2>1. Keeps(stack, work_queue, abandoned, life, threading, s)
    BY <1>9 DEF LeakInv, Kept
  <2> QED
    BY <1>5, <1>7, <1>8, <2>1 DEF Keeps
<1> QED
  BY <1>9 DEF Kept

LEMMA ThrowLeak ==
  ASSUME LeakInv, NEW th \in Threads, stack[th] # <<>>, Top(th).fn \in {"process", "scanning"},
         Throw(th)
  PROVE  StillKept
<1>0. MemInv /\ Ordered(stack, work_queue, threading)
  BY DEF LeakInv
<1>1. /\ stack \in Stacks /\ work_queue \in Seq(UnitType)
      /\ stack[th] \in Seq(CallType) /\ Len(stack[th]) \in Nat \ {0}
      /\ Top(th) = stack[th][Len(stack[th])]
  BY <1>0, TypedStacks, BelowIs DEF MemInv
<1>2. \A j \in 1..Len(stack[th]) : /\ stack[th][j].fn \in RetainingCalls
                                   /\ ~Local(stack[th][j].sbuf)
                                   /\ stack[th][j].sbuf \in Sbufs
  <2> SUFFICES ASSUME NEW j \in 1..Len(stack[th])
               PROVE  /\ stack[th][j].fn \in RetainingCalls
                      /\ ~Local(stack[th][j].sbuf)
                      /\ stack[th][j].sbuf \in Sbufs
    OBVIOUS
  <2>1. stack[th][j].fn \in {"process", "each", "scanning"}
    <3>1. CASE j = Len(stack[th])
      BY <1>1, <3>1
    <3>2. CASE j # Len(stack[th])
      <4>1. j \in 1..(Len(stack[th]) - 1)
        BY <1>1, <3>2
      <4> QED
        BY <1>0, <4>1 DEF MemInv, Control, Waiting, WaitingCalls
    <3> QED
      BY <3>1, <3>2
  <2>2. stack[th][j].sbuf \in Sbufs /\ CallRight(life, calls, stack[th][j])
    <3>1. stack[th][j] \in CallType
      BY <1>1
    <3>2. CallRight(life, calls, stack[th][j])
      BY <1>0 DEF MemInv, Control, AllRight
    <3> QED
      BY <3>1, <3>2 DEF CallType
  <2> QED
    BY <2>1, <2>2 DEF RetainingCalls, CallRight
<1>3. UNCHANGED <<threading, life, work_queue>>
  BY DEF Throw
<1>7. CASE Catchers(th) # {}
  <2>1. PICK i \in Catchers(th) :
          /\ stack' = [stack EXCEPT ![th] =
                         Append(SubSeq(stack[th], 1, i - 1),
                                Call("release", stack[th][i].sbuf, NoScanner, {}))]
          /\ abandoned' = abandoned \o SbufsAbove(stack[th], i)
    BY <1>7, Zenon DEF Throw, Unwind, SbufsAbove
  <2>2. /\ i \in 1..Len(stack[th]) /\ i \in 0..Len(stack[th]) /\ i > 0
    BY <1>1 DEF Catchers
  <2>s. PICK s : s = stack[th][i].sbuf
    OBVIOUS
  <2>m. PICK m \in Nat : m = i - 1 /\ m + 1 = i /\ m \in 0..Len(stack[th])
    <3>1. i - 1 \in Nat /\ (i - 1) + 1 = i /\ i - 1 \in 0..Len(stack[th])
      BY <1>1, <2>2
    <3> QED
      BY <3>1
  <2>c. PICK c \in CallType : c = Call("release", s, NoScanner, {})
    BY <1>2, <2>2, <2>s DEF CallType, Call
  <2>3. c.sbuf = s /\ ~Local(s)
    BY <1>2, <2>2, <2>s, <2>c DEF Call
  <2>r. PICK rest : rest = CutTo(stack, th, m)
    OBVIOUS
  <2>5. /\ rest \in Stacks /\ Fewer(rest, stack)
        /\ Len(rest[th]) = m
        /\ \A j \in 1..m : rest[th][j] = stack[th][j]
        /\ \A t \in Threads \ {th} : rest[t] = stack[t]
    <3>1. /\ CutTo(stack, th, m) \in Stacks /\ Fewer(CutTo(stack, th, m), stack)
          /\ Len(CutTo(stack, th, m)[th]) = m
          /\ \A j \in 1..m : CutTo(stack, th, m)[th][j] = stack[th][j]
          /\ \A t \in Threads \ {th} : CutTo(stack, th, m)[t] = stack[t]
      BY <1>1, <2>m, CutIs
    <3> QED
      BY <2>r, <3>1, Zenon
  <2>6. stack' = PushOn(rest, th, c)
    <3>1. CutTo(stack, th, m)[th] = SubSeq(stack[th], 1, m)
      BY <1>1 DEF CutTo, Stacks
    <3> QED
      BY <1>1, <2>1, <2>m, <2>s, <2>c, <2>r, <3>1 DEF CutTo, PushOn
  <2>7. Bears(rest, th, c, threading)
    <3>1. ~threading => th = Main
      BY <1>0 DEF Ordered, Threads
    <3>2. ASSUME ~threading, Shares(c.sbuf)
          PROVE  \E j \in 1..Len(rest[Main]) : rest[Main][j].sbuf = Parent[c.sbuf]
      <4>1. Nested(stack) /\ th = Main
        BY <1>0, <3>1, <3>2 DEF Ordered
      <4>2. PICK j \in 1..(i - 1) : stack[Main][j].sbuf = Parent[c.sbuf]
        BY <2>2, <2>3, <2>s, <3>2, <4>1 DEF Nested
      <4>3. j \in 1..m
        BY <2>m
      <4> QED
        BY <2>5, <4>1, <4>2, <4>3
    <3> QED
      BY <2>3, <3>1, <3>2 DEF Bears
  <2>8. Ordered(stack', work_queue', threading')
    <3>1. Ordered(rest, work_queue, threading)
      BY <1>0, <1>1, <2>5, FewerOrdered
    <3>2. Ordered(PushOn(rest, th, c), work_queue, threading)
      BY <2>5, <2>7, <3>1, PushOrdered
    <3> QED
      BY <1>3, <2>6, <3>2, Zenon
  <2>9. \A x : OnStack(stack', x) <=> OnStack(rest, x) \/ x = c.sbuf
    <3>1. \A x : OnStack(PushOn(rest, th, c), x) <=> OnStack(rest, x) \/ x = c.sbuf
      BY <2>5, OnStackPush
    <3> QED
      BY <2>6, <3>1, Zenon
  <2>10. \A x : (\E j \in 1..i : stack[th][j].sbuf = x) => OnStack(stack', x)
    <3>1. ASSUME NEW j \in 1..i PROVE OnStack(stack', stack[th][j].sbuf)
      <4>1. CASE j = i
        BY <2>3, <2>s, <2>9, <4>1
      <4>2. CASE j # i
        <5>1. j \in 1..Len(rest[th]) /\ rest[th][j] = stack[th][j]
          BY <2>5, <2>m, <4>2
        <5> QED
          BY <2>9, <5>1 DEF OnStack
      <4> QED
        BY <4>1, <4>2
    <3> QED
      BY <3>1
  <2>11. \A t \in Threads \ {th} : stack'[t] = stack[t]
    BY <2>1
  <2>12. \A j \in (i + 1)..Len(stack[th]) :
           stack[th][j].fn \in RetainingCalls /\ ~Local(stack[th][j].sbuf)
    BY <1>1, <1>2, <2>2
  <2>13. Kept(stack', work_queue', abandoned', life', threading')
    BY <1>3, <2>1, <2>2, <2>10, <2>11, <2>12, AbandonsAll
  <2> QED
    BY <2>8, <2>13 DEF StillKept
<1>8. CASE Catchers(th) = {} /\ th = Main
  <2>1. /\ stack' = [stack EXCEPT ![th] = <<>>]
        /\ abandoned' = abandoned \o SbufsAbove(stack[th], 0)
    BY <1>8, Zenon DEF Throw, Unwind, SbufsAbove
  <2>2. 0 \in 0..Len(stack[th])
    BY <1>1
  <2>3. stack' = CutTo(stack, th, 0)
    <3>1. SubSeq(stack[th], 1, 0) = <<>>
      BY <1>1
    <3> QED
      BY <2>1, <3>1 DEF CutTo
  <2>4. Ordered(stack', work_queue', threading')
    <3>1. CutTo(stack, th, 0) \in Stacks /\ Fewer(CutTo(stack, th, 0), stack)
      BY <1>1, <2>2, CutIs
    <3>2. Ordered(CutTo(stack, th, 0), work_queue, threading)
      BY <1>0, <1>1, <3>1, FewerOrdered
    <3> QED
      BY <1>3, <2>3, <3>2, Zenon
  <2>5. \A j \in (0 + 1)..Len(stack[th]) :
          stack[th][j].fn \in RetainingCalls /\ ~Local(stack[th][j].sbuf)
    BY <1>2
  <2>6. \A x : (\E j \in 1..0 : stack[th][j].sbuf = x) => OnStack(stack', x)
    OBVIOUS
  <2>7. \A t \in Threads \ {th} : stack'[t] = stack[t]
    BY <2>1
  <2>8. Kept(stack', work_queue', abandoned', life', threading')
    BY <1>3, <2>1, <2>2, <2>5, <2>6, <2>7, AbandonsAll
  <2> QED
    BY <2>4, <2>8 DEF StillKept
<1>9. CASE Catchers(th) = {} /\ th # Main
  <2>1. UNCHANGED <<stack, abandoned>>
    BY <1>9 DEF Throw
  <2> QED
    BY <1>3, <2>1, NothingMoves
<1> QED
  BY <1>7, <1>8, <1>9

(* The steps, one by one.                                                  *)
LEMMA ReadLeak ==
  ASSUME LeakInv, NEW p \in Pages, ReadPage(p)
  PROVE  StillKept
<1>1. p \in Sbufs /\ p \notin Derived /\ Main \in Threads
  BY SbufsAssumption DEF Sbufs, Threads
<1>2. PICK c \in CallType : c = Call("schedule", p, NoScanner, {})
  BY <1>1 DEF CallType, Call
<1>3. c.sbuf = p /\ ~Local(p) /\ ~Shares(p)
  BY <1>1, <1>2 DEF Call, Local, Shares
<1>4. Bears(stack, Main, c, threading)
  BY <1>3 DEF Bears
<1>5. /\ Enter(Main, c) /\ UNCHANGED <<threading, abandoned>>
      /\ work_queue' = work_queue /\ life' = [life EXCEPT ![c.sbuf] = "alive"]
  BY <1>2, <1>3 DEF ReadPage
<1> QED
  BY <1>1, <1>4, <1>5, EnterLeak

LEMMA TakeLeak ==
  ASSUME LeakInv, NEW w \in Workers, Take(w)
  PROVE  StillKept
<1>0. MemInv /\ work_queue \in Seq(UnitType) /\ w \in Threads /\ threading /\ work_queue # <<>>
  BY TypedStacks DEF LeakInv, MemInv, Take, Threads
<1>u. PICK u : u = Head(work_queue)
  OBVIOUS
<1>1. u \in UnitType /\ ~Local(u.sbuf)
  <2>1. u = work_queue[1] /\ u \in UnitType /\ 1 \in 1..Len(work_queue)
    BY <1>0, <1>u
  <2> QED
    BY <1>0, <2>1 DEF MemInv, Control, AllRight, UnitRight
<1>2. PICK c : c = IF u.scanner = NoScanner THEN Process(u.sbuf) ELSE Scan(u.sbuf, u.scanner)
  OBVIOUS
<1>3. c \in CallType /\ c.sbuf = u.sbuf
  BY <1>1, <1>2 DEF CallType, UnitType, Process, Scan, Call
<1>4. Bears(stack, w, c, threading)
  BY <1>0, <1>1, <1>3 DEF Bears
<1>5. /\ Enter(w, c) /\ UNCHANGED <<threading, abandoned>>
      /\ life' = life /\ work_queue' = Tail(work_queue)
  BY <1>u, <1>2 DEF Take
<1>6. c.sbuf = Head(work_queue).sbuf
  BY <1>u, <1>3
<1> QED
  BY <1>0, <1>3, <1>4, <1>5, <1>6, EnterLeak

LEMMA ScheduleLeak ==
  ASSUME LeakInv, SchedulePage
  PROVE  StillKept
<1>p. PICK p : p = Top(Main).sbuf
  OBVIOUS
<1>1. /\ stack[Main] # <<>> /\ Top(Main).fn = "schedule" /\ Main \in Threads
      /\ IF RunsInSameThread(p)
         THEN Become(Main, Process(p)) /\ UNCHANGED work_queue
         ELSE Return(Main) /\ work_queue' = Append(work_queue, Unit(p, NoScanner))
      /\ UNCHANGED <<threading, life, abandoned>>
  BY <1>p DEF SchedulePage, In, Threads
<1>2. MemInv /\ work_queue \in Seq(UnitType) /\ p \in Sbufs /\ ~Local(p)
  <2>1. MemInv
    BY DEF LeakInv
  <2>2. CallRight(life, calls, Top(Main)) /\ work_queue \in Seq(UnitType) /\ p \in Sbufs
    BY <1>p, <1>1, <2>1, TopIs
  <2> QED
    BY <1>p, <1>1, <2>1, <2>2 DEF CallRight
<1>3. CASE RunsInSameThread(p)
  <2>1. PICK c \in CallType : c = Process(p)
    BY <1>2 DEF CallType, Process, Call
  <2>2. Become(Main, c) /\ c.sbuf = Top(Main).sbuf /\ work_queue' = work_queue /\ life' = life
        /\ UNCHANGED <<threading, abandoned>>
    BY <1>p, <1>1, <1>3, <2>1 DEF Process, Call
  <2> QED
    BY <1>1, <2>2, SameSbufLeak
<1>4. CASE ~RunsInSameThread(p)
  <2>1. PICK u \in UnitType : u = Unit(p, NoScanner)
    BY <1>2 DEF UnitType, Unit
  <2>2. /\ threading /\ Return(Main) /\ work_queue' = Append(work_queue, u) /\ u.sbuf = p
        /\ life' = life /\ UNCHANGED <<threading, abandoned>>
    BY <1>1, <1>4, <2>1 DEF RunsInSameThread, Inline, Unit
  <2>3. \A s : InQueue(work_queue', s) <=> InQueue(work_queue, s) \/ s = u.sbuf
    BY <1>2, <2>2, InQueueIs
  <2>4. Keeps(Base(Main), work_queue', abandoned, life, threading, Top(Main).sbuf)
    BY <1>p, <1>2, <2>2, <2>3 DEF Keeps
  <2> QED
    BY <1>1, <2>2, <2>3, <2>4, ReturnLeak
<1> QED
  BY <1>3, <1>4

(* The steps in which one call goes on with its sbuf.                      *)
LEMMA GoesOnLeak ==
  ASSUME LeakInv, NEW th \in Threads, stack[th] # <<>>, NEW c, Become(th, c),
         c \in CallType, c.sbuf = Top(th).sbuf,
         UNCHANGED <<threading, life, work_queue, abandoned>>
  PROVE  StillKept
BY SameSbufLeak

LEMMA ReleasesLeak ==
  ASSUME LeakInv, NEW th \in Threads, stack[th] # <<>>, BecomeRelease(th),
         UNCHANGED <<threading, life, work_queue, abandoned>>
  PROVE  StillKept
<1>1. Top(th).sbuf \in Sbufs
  BY TopIs DEF LeakInv
<1>2. PICK c \in CallType : c = Call("release", Top(th).sbuf, NoScanner, {})
  BY <1>1 DEF CallType, Call
<1>3. Become(th, c) /\ c.sbuf = Top(th).sbuf
  BY <1>2 DEF BecomeRelease, Call
<1> QED
  BY <1>3, GoesOnLeak

LEMMA BeginLeak ==
  ASSUME LeakInv, NEW th \in Threads, ProcessBegin(th)
  PROVE  StillKept
<1>1. stack[th] # <<>> /\ UNCHANGED <<threading, life, work_queue, abandoned>>
  BY DEF ProcessBegin, In
<1>2. Top(th).sbuf \in Sbufs
  BY <1>1, TopIs DEF LeakInv
<1>3. CASE UNCHANGED stack
  BY <1>1, <1>3, NothingMoves
<1>4. CASE BecomeRelease(th)
  BY <1>1, <1>4, ReleasesLeak
<1>5. CASE Become(th, Call("each", Top(th).sbuf, NoScanner, Scanners))
  <2>1. PICK c \in CallType : c = Call("each", Top(th).sbuf, NoScanner, Scanners)
    BY <1>2 DEF CallType, Call
  <2>2. Become(th, c) /\ c.sbuf = Top(th).sbuf
    BY <1>5, <2>1 DEF Call
  <2> QED
    BY <1>1, <2>2, GoesOnLeak
<1> QED
  BY <1>3, <1>4, <1>5 DEF ProcessBegin

LEMMA ScanBeginLeak ==
  ASSUME LeakInv, NEW th \in Threads, ScanBegin(th)
  PROVE  StillKept
<1>1. stack[th] # <<>> /\ UNCHANGED <<threading, life, work_queue, abandoned>>
  BY DEF ScanBegin, In
<1>2. Top(th) \in CallType /\ Top(th).sbuf \in Sbufs
  BY <1>1, TopIs DEF LeakInv
<1>3. PICK c \in CallType : c = Call("scanning", Top(th).sbuf, Top(th).scanner,
                                     MadeBy(Top(th).sbuf, Top(th).scanner))
  BY <1>2 DEF CallType, Call, MadeBy
<1>4. Become(th, c) /\ c.sbuf = Top(th).sbuf
  BY <1>3 DEF ScanBegin, Call
<1> QED
  BY <1>1, <1>4, GoesOnLeak

LEMMA DelChildLeak ==
  ASSUME LeakInv, NEW th \in Threads, DelChild(th)
  PROVE  StillKept
<1>1. stack[th] # <<>> /\ UNCHANGED <<threading, life, work_queue, abandoned>>
  BY DEF DelChild, In
<1>2. Top(th) \in CallType
  BY <1>1, TopIs DEF LeakInv
<1>3. PICK c \in CallType : c = [Top(th) EXCEPT !.fn = "unref"]
  BY <1>2 DEF CallType
<1>4. Become(th, c) /\ c.sbuf = Top(th).sbuf
  BY <1>2, <1>3 DEF DelChild, CallType
<1> QED
  BY <1>1, <1>4, GoesOnLeak

LEMMA LocalEndsLeak ==
  ASSUME LeakInv, NEW th \in Threads, LocalEnds(th)
  PROVE  StillKept
<1>s. PICK s : s = Top(th).sbuf
  OBVIOUS
<1>1. /\ stack[th] # <<>> /\ Destroy(th, s) /\ UNCHANGED <<threading, work_queue, abandoned>>
  BY <1>s DEF LocalEnds, In
<1>2. s \in Sbufs
  BY <1>s, <1>1, TopIs DEF LeakInv
<1>3. CASE children[s] # 0
  BY <1>1, <1>3, NothingMoves DEF Destroy
<1>4. CASE children[s] = 0 /\ Shares(s)
  <2>1. PICK c \in CallType : c = Call("del", s, NoScanner, {})
    BY <1>2 DEF CallType, Call
  <2>2. Become(th, c) /\ c.sbuf = Top(th).sbuf /\ UNCHANGED life
    BY <1>s, <1>1, <1>4, <2>1 DEF Destroy, Call
  <2> QED
    BY <1>1, <2>2, GoesOnLeak
<1>5. CASE children[s] = 0 /\ ~Shares(s)
  <2>1. Return(th) /\ life' = [life EXCEPT ![Top(th).sbuf] = "deleted"]
        /\ work_queue' = work_queue
    BY <1>s, <1>1, <1>5 DEF Destroy
  <2> QED
    BY <1>1, <2>1, ReturnLeak
<1> QED
  BY <1>3, <1>4, <1>5

LEMMA UnrefLeak ==
  ASSUME LeakInv, NEW th \in Threads, UnrefParent(th)
  PROVE  StillKept
<1>1. /\ stack[th] # <<>> /\ Return(th) /\ UNCHANGED <<threading, abandoned>>
      /\ work_queue' = work_queue /\ life' = [life EXCEPT ![Top(th).sbuf] = "deleted"]
  BY DEF UnrefParent, In
<1> QED
  BY <1>1, ReturnLeak

(* Over a call on the sbuf of the top call, the calls below are as before. *)
LEMMA OverTop ==
  ASSUME stack \in Stacks, NEW th \in Threads, stack[th] # <<>>, Base(th) \in Stacks,
         NEW c \in CallType, c.sbuf = Top(th).sbuf, NEW mid, mid = PushOn(Base(th), th, c)
  PROVE  /\ mid[th] # <<>> /\ mid[th][Len(mid[th])] = c
         /\ Len(mid[th]) = Len(stack[th])
         /\ \A j \in 1..Len(stack[th]) : mid[th][j].sbuf = stack[th][j].sbuf
<1>k. PICK k : k = Len(stack[th]) - 1
  OBVIOUS
<1>1. /\ Len(stack[th]) \in Nat \ {0} /\ k \in 0..Len(stack[th]) /\ Len(stack[th]) = k + 1
      /\ Base(th) = CutTo(stack, th, k) /\ Top(th) = stack[th][Len(stack[th])]
  BY <1>k, BelowIs DEF Base
<1>2. Len(Base(th)[th]) = k /\ \A j \in 1..k : Base(th)[th][j] = stack[th][j]
  BY <1>1, CutIs
<1>3. /\ Len(mid[th]) = Len(Base(th)[th]) + 1
      /\ \A j \in 1..Len(Base(th)[th]) : mid[th][j] = Base(th)[th][j]
      /\ mid[th][Len(Base(th)[th]) + 1] = c
  BY PushIs
<1>4. Len(mid[th]) = Len(stack[th]) /\ mid[th][Len(mid[th])] = c
      /\ \A j \in 1..k : mid[th][j] = stack[th][j]
  BY <1>1, <1>2, <1>3
<1>5. \A j \in 1..Len(stack[th]) : mid[th][j].sbuf = stack[th][j].sbuf
  <2>1. \A j \in 1..Len(stack[th]) : j \in 1..k \/ j = Len(stack[th])
    BY <1>1
  <2> QED
    BY <1>1, <1>4, <2>1
<1>6. mid[th] # <<>>
  <2>1. Len(mid[th]) # 0
    BY <1>1, <1>4
  <2> QED
    BY <2>1
<1> QED
  BY <1>4, <1>5, <1>6

LEMMA EachScannerLeak ==
  ASSUME LeakInv, NEW th \in Threads, EachScanner(th)
  PROVE  StillKept
<1>s. PICK s : s = Top(th).sbuf
  OBVIOUS
<1>0. /\ stack[th] # <<>> /\ Top(th).fn = "each" /\ UNCHANGED <<threading, life, abandoned>>
  BY DEF EachScanner, In
<1>1. PICK sc \in Top(th).todo :
        IF Inline
        THEN /\ stack' = [stack EXCEPT ![th] = Below(th) \o
                  <<Call("each", s, NoScanner, Top(th).todo \ {sc}), Scan(s, sc)>>]
             /\ UNCHANGED work_queue
        ELSE /\ work_queue' = Append(work_queue, Unit(s, sc))
             /\ Become(th, Call("each", s, NoScanner, Top(th).todo \ {sc}))
  BY <1>s DEF EachScanner
<1>2. /\ MemInv /\ Ordered(stack, work_queue, threading) /\ stack \in Stacks
      /\ Top(th) \in CallType /\ s \in Sbufs /\ ~Local(s) /\ sc \in Scanners
      /\ Base(th) \in Stacks
  <2>1. MemInv /\ Ordered(stack, work_queue, threading)
    BY DEF LeakInv
  <2>2. /\ stack \in Stacks /\ Top(th) \in CallType /\ s \in Sbufs /\ Base(th) \in Stacks
        /\ CallRight(life, calls, Top(th))
    BY <1>s, <1>0, <2>1, TopIs
  <2> QED
    BY <1>s, <1>0, <2>1, <2>2 DEF CallRight
<1>3. PICK c \in CallType : c = Call("each", s, NoScanner, Top(th).todo \ {sc})
  BY <1>2 DEF CallType, Call
<1>4. c.sbuf = Top(th).sbuf
  BY <1>s, <1>3 DEF Call
<1>5. CASE Inline
  <2>1. PICK e \in CallType : e = Scan(s, sc)
    BY <1>2 DEF CallType, Call, Scan
  <2>2. e.sbuf = s
    BY <2>1 DEF Scan, Call
  <2>3. stack' = [stack EXCEPT ![th] = Below(th) \o <<c, e>>] /\ work_queue' = work_queue
    BY <1>1, <1>3, <1>5, <2>1
  <2>4. Bears(Base(th), th, e, threading)
    BY <1>s, <1>0, <1>2, <2>2, TopBears
  <2>5. Bears(PushOn(Base(th), th, c), th, e, threading)
    <3>m. PICK mid : mid = PushOn(Base(th), th, c)
      OBVIOUS
    <3>1. /\ Len(mid[th]) = Len(Base(th)[th]) + 1 /\ Len(Base(th)[th]) \in Nat
          /\ \A j \in 1..Len(Base(th)[th]) : mid[th][j] = Base(th)[th][j]
      BY <1>2, <3>m, PushIs
    <3>2. ASSUME ~threading, Shares(e.sbuf)
          PROVE  \E j \in 1..Len(mid[Main]) : mid[Main][j].sbuf = Parent[e.sbuf]
      <4>1. th = Main
        BY <2>4, <3>2 DEF Bears
      <4>2. PICK j \in 1..Len(Base(th)[th]) : Base(th)[th][j].sbuf = Parent[e.sbuf]
        BY <2>4, <3>2, <4>1 DEF Bears
      <4>3. j \in 1..Len(mid[th])
        BY <3>1
      <4> QED
        BY <3>1, <4>1, <4>2, <4>3
    <3>3. Bears(mid, th, e, threading)
      BY <1>2, <2>2, <2>4, <3>2 DEF Bears
    <3> QED
      BY <3>m, <3>3
  <2> QED
    BY <1>0, <1>4, <2>3, <2>5, TwoLeak
<1>6. CASE ~Inline
  <2>1. PICK u \in UnitType : u = Unit(s, sc)
    BY <1>2 DEF UnitType, Unit
  <2>2. threading /\ Become(th, c) /\ work_queue' = Append(work_queue, u)
    BY <1>1, <1>3, <1>6, <2>1 DEF Inline
  <2> QED
    BY <1>0, <1>4, <2>2, SameSbufLeak
<1> QED
  BY <1>5, <1>6

(* Without workers, what a scanner cuts from is used by the calls it is in.*)
LEMMA CutsFromBelow ==
  ASSUME LeakInv, ~threading, stack[Main] # <<>>, NEW d \in Derived, Shares(d),
         Maker[d] = Top(Main).sbuf
  PROVE  \E j \in 1..Len(stack[Main]) : stack[Main][j].sbuf = Parent[d]
<1>1. /\ Main \in Threads /\ stack \in Stacks /\ stack[Main] \in Seq(CallType)
      /\ Nested(stack)
  BY TypedStacks DEF Threads, LeakInv, MemInv, Stacks, Ordered
<1>2. \A j \in 1..Len(stack[Main]) : stack[Main][j].sbuf \in Sbufs
  <2>1. \A j \in 1..Len(stack[Main]) : stack[Main][j] \in CallType
    BY <1>1
  <2> QED
    BY <2>1 DEF CallType
<1>s. PICK S : S = {x \in Sbufs : \E j \in 1..Len(stack[Main]) : stack[Main][j].sbuf = x}
  OBVIOUS
<1>3. S \in SUBSET Sbufs /\ Maker[d] \in S
  <2>1. Len(stack[Main]) \in 1..Len(stack[Main]) /\ Top(Main) = stack[Main][Len(stack[Main])]
    BY <1>1, BelowIs
  <2> QED
    BY <1>2, <1>s, <2>1
<1>4. ASSUME NEW e \in S \intersect Derived, Shares(e) PROVE Parent[e] \in S
  <2>1. PICK i \in 1..Len(stack[Main]) : stack[Main][i].sbuf = e
    BY <1>s
  <2>2. PICK j \in 1..(i - 1) : stack[Main][j].sbuf = Parent[e]
    BY <1>1, <1>4, <2>1 DEF Nested
  <2>3. j \in 1..Len(stack[Main])
    BY <1>1
  <2> QED
    BY <1>2, <1>s, <2>2, <2>3
<1>5. Parent[d] \in S
  BY <1>3, <1>4, MemoryAssumption
<1> QED
  BY <1>s, <1>5

LEMMA MakesLeak ==
  ASSUME LeakInv, NEW th \in Threads, ScanMakes(th)
  PROVE  StillKept
<1>s. PICK s : s = Top(th).sbuf
  OBVIOUS
<1>1. /\ stack[th] # <<>> /\ Top(th).fn = "scanning" /\ UNCHANGED <<threading, abandoned>>
  BY DEF ScanMakes, In
<1>2. PICK d \in Top(th).todo :
        /\ life' = [life EXCEPT ![d] = "alive"]
        /\ IF Kind[d] = "local"
           THEN /\ stack' = [stack EXCEPT ![th] = Below(th) \o
                               <<[Top(th) EXCEPT !.todo = @ \ {d}],
                                 Call("local", d, NoScanner, {})>>]
                /\ UNCHANGED work_queue
           ELSE IF RunsInSameThread(d)
                THEN /\ stack' = [stack EXCEPT ![th] = Below(th) \o
                                    <<[Top(th) EXCEPT !.todo = @ \ {d}], Process(d)>>]
                     /\ UNCHANGED work_queue
                ELSE /\ work_queue' = Append(work_queue, Unit(d, NoScanner))
                     /\ Become(th, [Top(th) EXCEPT !.todo = @ \ {d}])
  BY DEF ScanMakes
<1>3. /\ MemInv /\ Ordered(stack, work_queue, threading) /\ stack \in Stacks
      /\ Top(th) \in CallType /\ s \in Sbufs
      /\ Base(th) \in Stacks /\ d \in Derived /\ d \in Sbufs /\ Maker[d] = s
  <2>1. MemInv /\ Ordered(stack, work_queue, threading)
    BY DEF LeakInv
  <2>2. /\ stack \in Stacks /\ Top(th) \in CallType /\ s \in Sbufs /\ Base(th) \in Stacks
        /\ CallRight(life, calls, Top(th))
    BY <1>s, <1>1, <2>1, TopIs
  <2>3. d \in Derived /\ Maker[d] = s
    BY <1>s, <1>1, <2>2 DEF CallRight, MadeBy
  <2> QED
    BY <2>1, <2>2, <2>3 DEF Sbufs
<1>4. PICK c \in CallType : c = [Top(th) EXCEPT !.todo = @ \ {d}]
  BY <1>3 DEF CallType
<1>5. c.sbuf = Top(th).sbuf /\ c.fn = "scanning"
  BY <1>1, <1>3, <1>4 DEF CallType
<1>m. PICK mid : mid = PushOn(Base(th), th, c)
  OBVIOUS
<1>6. ASSUME NEW e \in CallType, e.sbuf = d PROVE Bears(mid, th, e, threading)
  <2>1. /\ mid[th] # <<>> /\ mid[th][Len(mid[th])] = c
        /\ Len(mid[th]) = Len(stack[th])
        /\ \A j \in 1..Len(stack[th]) : mid[th][j].sbuf = stack[th][j].sbuf
    BY <1>1, <1>3, <1>5, <1>m, OverTop
  <2>2. ~threading => th = Main
    BY <1>1, <1>3, TopBears
  <2>3. ASSUME ~threading, Shares(d)
        PROVE  \E j \in 1..Len(mid[Main]) : mid[Main][j].sbuf = Parent[d]
    <3>1. th = Main
      BY <2>2, <2>3
    <3>2. PICK j \in 1..Len(stack[Main]) : stack[Main][j].sbuf = Parent[d]
      BY <1>s, <1>1, <1>3, <2>3, <3>1, CutsFromBelow
    <3> QED
      BY <2>1, <3>1, <3>2
  <2> QED
    BY <1>s, <1>3, <1>5, <1>6, <2>1, <2>2, <2>3 DEF Bears
<1>7. ASSUME NEW e \in CallType, e.sbuf = d, work_queue' = work_queue,
             stack' = [stack EXCEPT ![th] = Below(th) \o <<c, e>>]
      PROVE  StillKept
  <2>1. Bears(PushOn(Base(th), th, c), th, e, threading)
    BY <1>6, <1>7, <1>m
  <2>2. life' = [life EXCEPT ![e.sbuf] = "alive"]
    BY <1>2, <1>7
  <2> QED
    BY <1>1, <1>5, <1>7, <2>1, <2>2, TwoLeak
<1>8. CASE Kind[d] = "local"
  <2>1. PICK e \in CallType : e = Call("local", d, NoScanner, {})
    BY <1>3 DEF CallType, Call
  <2> QED
    BY <1>2, <1>4, <1>7, <1>8, <2>1 DEF Call
<1>9. CASE Kind[d] # "local" /\ RunsInSameThread(d)
  <2>1. PICK e \in CallType : e = Process(d)
    BY <1>3 DEF CallType, Call, Process
  <2> QED
    BY <1>2, <1>4, <1>7, <1>9, <2>1 DEF Call, Process
<1>10. CASE Kind[d] # "local" /\ ~RunsInSameThread(d)
  <2>1. PICK u \in UnitType : u = Unit(d, NoScanner)
    BY <1>3 DEF UnitType, Unit
  <2>2. u.sbuf = d /\ ~Local(u.sbuf)
    BY <1>10, <2>1 DEF Unit, Local
  <2>3. /\ threading /\ Become(th, c) /\ work_queue' = Append(work_queue, u)
        /\ life' = [life EXCEPT ![u.sbuf] = "alive"]
    BY <1>2, <1>4, <1>10, <2>1, <2>2 DEF RunsInSameThread, Inline
  <2> QED
    BY <1>1, <1>5, <2>2, <2>3, SameSbufLeak
<1> QED
  BY <1>8, <1>9, <1>10

LEMMA LeakInit ==
  ASSUME Init
  PROVE  LeakInv
<1>1. MemInv
  BY MemInit
<1>2. \A t \in Threads : stack[t] = <<>>
  BY DEF Init
<1>3. Ordered(stack, work_queue, threading)
  <2>1. Main \in Threads /\ work_queue = <<>>
    BY DEF Init, Threads
  <2>2. \A t \in Threads : Len(stack[t]) = 0
    BY <1>2
  <2>3. OnMaker(stack) /\ Nested(stack)
    BY <2>1, <2>2 DEF OnMaker, Nested
  <2>4. \A w \in Workers : stack[w] = <<>>
    BY <1>2 DEF Threads
  <2> QED
    BY <2>1, <2>3, <2>4 DEF Ordered
<1>4. Kept(stack, work_queue, abandoned, life, threading)
  BY DEF Init, Kept
<1> QED
  BY <1>1, <1>3, <1>4 DEF LeakInv

LEMMA LeakStep ==
  ASSUME LeakInv, [Next]_vars
  PROVE  LeakInv'
<1>0. MemInv'
  BY MemStep DEF LeakInv
<1>1. ASSUME NEW p \in Pages, ReadPage(p) PROVE StillKept
  BY <1>1, ReadLeak
<1>2. ASSUME SchedulePage PROVE StillKept
  BY <1>2, ScheduleLeak
<1>3. ASSUME NEW w \in Workers, Take(w) PROVE StillKept
  BY <1>3, TakeLeak
<1>4. ASSUME NEW th \in Threads, ThreadStep(th) PROVE StillKept
  <2>1. CASE ProcessTooDeep(th)
    BY <2>1, ReleasesLeak DEF ProcessTooDeep, In
  <2>2. CASE ProcessAlertFails(th) \/ ScanAlertFails(th)
    <3>1. stack[th] # <<>> /\ Top(th).fn \in {"process", "scanning"} /\ Throw(th)
      BY <2>2 DEF ProcessAlertFails, ScanAlertFails, In
    <3> QED
      BY <3>1, ThrowLeak
  <2>3. CASE ProcessBegin(th)
    BY <2>3, BeginLeak
  <2>4. CASE EachScanner(th)
    BY <2>4, EachScannerLeak
  <2>5. CASE EachDone(th)
    BY <2>5, ReleasesLeak DEF EachDone, In
  <2>6. CASE ScanBypassed(th)
    BY <2>6, ReleasesLeak DEF ScanBypassed, In
  <2>7. CASE ScanBegin(th)
    BY <2>7, ScanBeginLeak
  <2>8. CASE ScanMakes(th)
    BY <2>8, MakesLeak
  <2>9. CASE ScanEnds(th)
    BY <2>9, ReleasesLeak DEF ScanEnds, In
  <2>10. CASE Release(th)
    BY <2>10, ReleaseLeak
  <2>11. CASE LocalEnds(th)
    BY <2>11, LocalEndsLeak
  <2>12. CASE DelChild(th)
    BY <2>12, DelChildLeak
  <2>13. CASE UnrefParent(th)
    BY <2>13, UnrefLeak
  <2> QED
    BY <1>4, <2>1, <2>2, <2>3, <2>4, <2>5, <2>6, <2>7, <2>8, <2>9, <2>10, <2>11, <2>12,
       <2>13 DEF ThreadStep
<1>5. ASSUME Done \/ UNCHANGED vars PROVE StillKept
  <2>1. UNCHANGED <<threading, life, work_queue, stack, abandoned>>
    BY <1>5 DEF Done, vars
  <2> QED
    BY <2>1, NothingMoves
<1>6. StillKept
  BY <1>1, <1>2, <1>3, <1>4, <1>5 DEF Next
<1> QED
  BY <1>0, <1>6 DEF LeakInv, StillKept

LEMMA LeakMeans ==
  ASSUME LeakInv
  PROVE  /\ OnlySlicedLeak
         /\ (\A d \in Derived : Kind[d] # "slice") => NoLeak
<1>1. abandoned \in Seq(Sbufs) /\ stack \in Stacks
  BY TypedStacks DEF LeakInv, MemInv
<1>2. ASSUME Quiet, NEW s \in Sbufs, life[s] = "alive", s \notin Range(abandoned)
      PROVE  Excused(abandoned, life, threading, s)
  <2>1. work_queue = <<>> /\ \A t \in Threads : stack[t] = <<>>
    BY <1>2 DEF Quiet
  <2>2. ~OnStack(stack, s) /\ ~InQueue(work_queue, s)
    BY <2>1 DEF OnStack, InQueue
  <2>3. ~LeftIn(abandoned, s)
    <3>1. DOMAIN abandoned = 1..Len(abandoned)
      BY <1>1
    <3> QED
      BY <1>2, <3>1 DEF LeftIn, Range
  <2> QED
    BY <1>2, <2>2, <2>3 DEF LeakInv, Kept, Keeps
<1>3. Len(abandoned) > 0 => abandoned # <<>>
  BY <1>1
<1>4. OnlySlicedLeak
  BY <1>2, <1>3 DEF OnlySlicedLeak, Excused, Sliced
<1>5. ASSUME \A d \in Derived : Kind[d] # "slice" PROVE NoLeak
  BY <1>2, <1>5 DEF NoLeak, Excused, Sliced
<1> QED
  BY <1>4, <1>5

(* When nothing is queued and no thread is in a call, every sbuf has been  *)
(* deleted, unless a failed write left it unreleased, or it is one of which*)
(* slices were recursed into: release_sbuf deletes an sbuf at its last     *)
(* release and ~sbuf_t lets go of its parent without a look at what is left*)
(* of it (scanner_set.cpp:748-776, sbuf.cpp:150-240).                      *)
THEOREM OnlySlicedLeakHolds == Spec => []OnlySlicedLeak
<1>1. Init => LeakInv
  BY LeakInit
<1>2. LeakInv /\ [Next]_vars => LeakInv'
  BY LeakStep
<1>3. LeakInv => OnlySlicedLeak
  BY LeakMeans
<1> QED
  BY <1>1, <1>2, <1>3, PTL DEF Spec

(* If the scanners recurse into memory of its own only, and use their      *)
(* slices themselves, nothing is left but what a failed write has left, in *)
(* any number of threads: the "sbufs unaccounted" of the end of the run     *)
(* (bulk_extractor.cpp:818) are then about failed writes only.             *)
THEOREM NoLeakHolds ==
  ASSUME \A d \in Derived : Kind[d] # "slice"
  PROVE  Spec => []NoLeak
<1>1. Init => LeakInv
  BY LeakInit
<1>2. LeakInv /\ [Next]_vars => LeakInv'
  BY LeakStep
<1>3. LeakInv => NoLeak
  BY LeakMeans
<1> QED
  BY <1>1, <1>2, <1>3, PTL DEF Spec

-----------------------------------------------------------------------------
(* Every scanner once.                                                     *)

(* A call of C is on a stack, or a unit of U in the queue; and only one is.*)
Has(st, q, C, U) == (\E t \in Threads : \E i \in 1..Len(st[t]) : st[t][i] \in C)
                    \/ (\E j \in 1..Len(q) : q[j] \in U)
Single(st, q, C, U) ==
  /\ \A t, u \in Threads : \A i \in 1..Len(st[t]) : \A j \in 1..Len(st[u]) :
       st[t][i] \in C /\ st[u][j] \in C => u = t /\ j = i
  /\ \A t \in Threads : \A i \in 1..Len(st[t]) : \A j \in 1..Len(q) :
       ~(st[t][i] \in C /\ q[j] \in U)
  /\ \A i, j \in 1..Len(q) : q[i] \in U /\ q[j] \in U => j = i

(* What will lead to a call of scanner sc on s, and to process_sbuf(s).    *)
NewCalls(s) == {c \in CallType : c.sbuf = s /\ c.fn \in {"schedule", "process"}}
NewUnits(s) == {u \in UnitType : u.sbuf = s /\ u.scanner = NoScanner}
Awaits(c, sc) == \/ c.fn \in {"schedule", "process"}
                 \/ c.fn = "each" /\ sc \in c.todo
                 \/ c.fn = "scan" /\ c.scanner = sc
AwaitCalls(s, sc) == {c \in CallType : c.sbuf = s /\ Awaits(c, sc)}
AwaitUnits(s, sc) == {u \in UnitType : u.sbuf = s /\ u.scanner \in {NoScanner, sc}}
New(st, q, s) == Has(st, q, NewCalls(s), NewUnits(s))
Waits(st, q, s, sc) == Has(st, q, AwaitCalls(s, sc), AwaitUnits(s, sc))

Alone(st, q) ==
  \A s \in Sbufs, sc \in Scanners : Single(st, q, AwaitCalls(s, sc), AwaitUnits(s, sc))

(* Each scanner is still to be called on an sbuf, has been, or will not be.*)
Settled(cl, sn, s, sc) == cl[s][sc] = 1 \/ (s \in sn /\ sc \notin OptIn)
CalledRight(st, q, lf, cl, sn, ab) ==
  \A s \in Sbufs, sc \in Scanners :
    /\ cl[s][sc] \in {0, 1}
    /\ Waits(st, q, s, sc) => cl[s][sc] = 0
    /\ cl[s][sc] = 1 => ~TooDeep(s) /\ (s \notin sn \/ sc \in OptIn)
    /\ TooDeep(s) /\ Waits(st, q, s, sc) => New(st, q, s)
    /\ lf[s] # "unborn" /\ ~TooDeep(s) /\ ~Local(s) /\ ~LeftIn(ab, s) =>
         Waits(st, q, s, sc) \/ Settled(cl, sn, s, sc)

(* What was abandoned is never deleted.                                    *)
LeftRight(st, lf, ab) ==
  \A s \in Sbufs : LeftIn(ab, s) =>
    /\ lf[s] = "alive" /\ ~Local(s)
    /\ \A t \in Threads : \A i \in 1..Len(st[t]) :
         st[t][i].sbuf = s => st[t][i].fn \notin {"del", "unref"}

(* Of the contents process_sbuf has met one sbuf each is no duplicate.     *)
Past(st, q, lf, s) == lf[s] # "unborn" /\ ~New(st, q, s)
Scannable(s) == ~TooDeep(s) /\ ~Local(s)
DedupeRight(st, q, lf, pp, sn) ==
  /\ \A s \in Sbufs : Past(st, q, lf, s) /\ Scannable(s) => Content[s] \in pp
  /\ \A s \in sn : Past(st, q, lf, s) /\ Content[s] \in pp
  /\ \A x \in pp : \E r \in Sbufs \ sn : Past(st, q, lf, r) /\ Content[r] = x
  /\ Legacy => \A r, s \in Sbufs \ sn :
       /\ Past(st, q, lf, r) /\ Scannable(r) /\ Past(st, q, lf, s) /\ Scannable(s)
       /\ Content[r] = Content[s]
       => r = s

OnceInv ==
  /\ MemInv /\ Alone(stack, work_queue)
  /\ CalledRight(stack, work_queue, life, calls, seen_before, abandoned)
  /\ LeftRight(stack, life, abandoned)
  /\ DedupeRight(stack, work_queue, life, previously_processed, seen_before)

LEMMA PushHas ==
  ASSUME NEW st \in Stacks, NEW th \in Threads, NEW c \in CallType, NEW q, NEW C, NEW U
  PROVE  /\ Has(PushOn(st, th, c), q, C, U) <=> Has(st, q, C, U) \/ c \in C
         /\ Single(st, q, C, U) /\ (c \in C => ~Has(st, q, C, U)) =>
              Single(PushOn(st, th, c), q, C, U)
<1>s. PICK st2 : st2 = PushOn(st, th, c)
  OBVIOUS
<1>1. /\ st2 \in Stacks /\ Len(st2[th]) = Len(st[th]) + 1 /\ Len(st[th]) \in Nat
      /\ \A i \in 1..Len(st[th]) : st2[th][i] = st[th][i]
      /\ st2[th][Len(st[th]) + 1] = c
      /\ \A t \in Threads \ {th} : st2[t] = st[t]
  BY <1>s, PushIs
<1>2. \A t \in Threads : \A i \in 1..Len(st[t]) : i \in 1..Len(st2[t]) /\ st2[t][i] = st[t][i]
  <2> SUFFICES ASSUME NEW t \in Threads, NEW i \in 1..Len(st[t])
               PROVE  i \in 1..Len(st2[t]) /\ st2[t][i] = st[t][i]
    OBVIOUS
  <2>1. CASE t = th
    BY <1>1, <2>1
  <2>2. CASE t # th
    BY <1>1, <2>2
  <2> QED
    BY <2>1, <2>2
<1>3. \A t \in Threads : \A i \in 1..Len(st2[t]) :
        \/ t = th /\ i = Len(st[th]) + 1 /\ st2[t][i] = c
        \/ i \in 1..Len(st[t]) /\ st2[t][i] = st[t][i]
  <2> SUFFICES ASSUME NEW t \in Threads, NEW i \in 1..Len(st2[t])
               PROVE  \/ t = th /\ i = Len(st[th]) + 1 /\ st2[t][i] = c
                      \/ i \in 1..Len(st[t]) /\ st2[t][i] = st[t][i]
    OBVIOUS
  <2>1. CASE t = th
    <3>1. i = Len(st[th]) + 1 \/ i \in 1..Len(st[th])
      BY <1>1, <2>1
    <3> QED
      BY <1>1, <2>1, <3>1
  <2>2. CASE t # th
    BY <1>1, <2>2
  <2> QED
    BY <2>1, <2>2
<1>4. Len(st[th]) + 1 \in 1..Len(st2[th])
  BY <1>1
<1>5. Has(st2, q, C, U) <=> Has(st, q, C, U) \/ c \in C
  <2>1. Has(st2, q, C, U) => Has(st, q, C, U) \/ c \in C
    BY <1>3 DEF Has
  <2>2. Has(st, q, C, U) => Has(st2, q, C, U)
    BY <1>2 DEF Has
  <2>3. c \in C => Has(st2, q, C, U)
    BY <1>1, <1>4 DEF Has
  <2> QED
    BY <2>1, <2>2, <2>3
<1>6. ASSUME Single(st, q, C, U), c \in C => ~Has(st, q, C, U) PROVE Single(st2, q, C, U)
  <2>1. ASSUME NEW t \in Threads, NEW u \in Threads,
               NEW i \in 1..Len(st2[t]), NEW j \in 1..Len(st2[u]),
               st2[t][i] \in C, st2[u][j] \in C
        PROVE  u = t /\ j = i
    <3>1. CASE i \in 1..Len(st[t]) /\ st2[t][i] = st[t][i]
      <4>1. Has(st, q, C, U)
        BY <2>1, <3>1 DEF Has
      <4>2. j \in 1..Len(st[u]) /\ st2[u][j] = st[u][j]
        BY <1>3, <1>6, <2>1, <4>1
      <4> QED
        BY <1>6, <2>1, <3>1, <4>2 DEF Single
    <3>2. CASE t = th /\ i = Len(st[th]) + 1 /\ st2[t][i] = c
      <4>1. ~Has(st, q, C, U)
        BY <1>6, <2>1, <3>2
      <4>2. ~(j \in 1..Len(st[u]) /\ st2[u][j] = st[u][j])
        BY <2>1, <4>1 DEF Has
      <4> QED
        BY <1>3, <3>2, <4>2
    <3> QED
      BY <1>3, <3>1, <3>2
  <2>2. ASSUME NEW t \in Threads, NEW i \in 1..Len(st2[t]), NEW j \in 1..Len(q),
               st2[t][i] \in C, q[j] \in U
        PROVE  FALSE
    <3>1. Has(st, q, C, U)
      BY <2>2 DEF Has
    <3>2. i \in 1..Len(st[t]) /\ st2[t][i] = st[t][i]
      BY <1>3, <1>6, <2>2, <3>1
    <3> QED
      BY <1>6, <2>2, <3>2 DEF Single
  <2>3. \A i, j \in 1..Len(q) : q[i] \in U /\ q[j] \in U => j = i
    BY <1>6 DEF Single
  <2> QED
    BY <2>1, <2>2, <2>3 DEF Single
<1> QED
  BY <1>s, <1>5, <1>6

(* Fewer calls.                                                            *)
LEMMA FewerHas ==
  ASSUME NEW st \in Stacks, NEW st2 \in Stacks, Fewer(st2, st), NEW q, NEW C, NEW U
  PROVE  /\ Has(st2, q, C, U) => Has(st, q, C, U)
         /\ Single(st, q, C, U) => Single(st2, q, C, U)
<1>1. \A t \in Threads : \A i \in 1..Len(st2[t]) : i \in 1..Len(st[t]) /\ st2[t][i] = st[t][i]
  BY DEF Fewer
<1>2. Has(st2, q, C, U) => Has(st, q, C, U)
  BY <1>1 DEF Has
<1>3. ASSUME Single(st, q, C, U) PROVE Single(st2, q, C, U)
  <2>1. ASSUME NEW t \in Threads, NEW u \in Threads,
               NEW i \in 1..Len(st2[t]), NEW j \in 1..Len(st2[u]),
               st2[t][i] \in C, st2[u][j] \in C
        PROVE  u = t /\ j = i
    <3>1. /\ i \in 1..Len(st[t]) /\ st[t][i] \in C
          /\ j \in 1..Len(st[u]) /\ st[u][j] \in C
      BY <1>1, <2>1
    <3> QED
      BY <1>3, <3>1 DEF Single
  <2>2. ASSUME NEW t \in Threads, NEW i \in 1..Len(st2[t]), NEW j \in 1..Len(q),
               st2[t][i] \in C, q[j] \in U
        PROVE  FALSE
    <3>1. i \in 1..Len(st[t]) /\ st[t][i] \in C
      BY <1>1, <2>2
    <3> QED
      BY <1>3, <2>2, <3>1 DEF Single
  <2>3. \A i, j \in 1..Len(q) : q[i] \in U /\ q[j] \in U => j = i
    BY <1>3 DEF Single
  <2> QED
    BY <2>1, <2>2, <2>3 DEF Single
<1> QED
  BY <1>2, <1>3

(* The top call is one of those, or the others are as before.              *)
LEMMA TopHas ==
  ASSUME stack \in Stacks, NEW th \in Threads, stack[th] # <<>>, Base(th) \in Stacks,
         Fewer(Base(th), stack), NEW q, NEW C, NEW U
  PROVE  /\ Has(stack, q, C, U) <=> Has(Base(th), q, C, U) \/ Top(th) \in C
         /\ Single(stack, q, C, U) => /\ Single(Base(th), q, C, U)
                                      /\ Top(th) \in C => ~Has(Base(th), q, C, U)
<1>k. PICK k : k = Len(stack[th]) - 1
  OBVIOUS
<1>1. /\ Len(stack[th]) \in Nat \ {0} /\ k \in 0..Len(stack[th]) /\ Len(stack[th]) = k + 1
      /\ Base(th) = CutTo(stack, th, k) /\ Top(th) = stack[th][Len(stack[th])]
      /\ Len(stack[th]) \in 1..Len(stack[th])
  BY <1>k, BelowIs DEF Base
<1>2. /\ Len(Base(th)[th]) = k /\ \A j \in 1..k : Base(th)[th][j] = stack[th][j]
      /\ \A u \in Threads \ {th} : Base(th)[u] = stack[u]
  BY <1>1, CutIs
<1>3. \A t \in Threads : \A i \in 1..Len(stack[t]) :
        \/ t = th /\ i = Len(stack[th])
        \/ i \in 1..Len(Base(th)[t]) /\ Base(th)[t][i] = stack[t][i]
  <2> SUFFICES ASSUME NEW t \in Threads, NEW i \in 1..Len(stack[t])
               PROVE  \/ t = th /\ i = Len(stack[th])
                      \/ i \in 1..Len(Base(th)[t]) /\ Base(th)[t][i] = stack[t][i]
    OBVIOUS
  <2>1. CASE t = th
    <3>1. i = Len(stack[th]) \/ i \in 1..k
      BY <1>1, <2>1
    <3> QED
      BY <1>2, <2>1, <3>1
  <2>2. CASE t # th
    BY <1>2, <2>2
  <2> QED
    BY <2>1, <2>2
<1>4. \A t \in Threads : \A i \in 1..Len(Base(th)[t]) :
        /\ i \in 1..Len(stack[t]) /\ Base(th)[t][i] = stack[t][i]
        /\ ~(t = th /\ i = Len(stack[th]))
  <2>1. \A i \in 1..Len(Base(th)[th]) : i # Len(stack[th])
    BY <1>1, <1>2
  <2> QED
    BY <2>1 DEF Fewer
<1>5. Has(stack, q, C, U) <=> Has(Base(th), q, C, U) \/ Top(th) \in C
  <2>1. Has(stack, q, C, U) => Has(Base(th), q, C, U) \/ Top(th) \in C
    BY <1>1, <1>3 DEF Has
  <2>2. Has(Base(th), q, C, U) => Has(stack, q, C, U)
    BY <1>4 DEF Has
  <2>3. Top(th) \in C => Has(stack, q, C, U)
    BY <1>1 DEF Has
  <2> QED
    BY <2>1, <2>2, <2>3
<1>6. ASSUME Single(stack, q, C, U), Top(th) \in C, Has(Base(th), q, C, U) PROVE FALSE
  <2>1. CASE \E j \in 1..Len(q) : q[j] \in U
    BY <1>1, <1>6, <2>1 DEF Single
  <2>2. CASE \E t \in Threads : \E i \in 1..Len(Base(th)[t]) : Base(th)[t][i] \in C
    <3>1. PICK t \in Threads : \E i \in 1..Len(Base(th)[t]) : Base(th)[t][i] \in C
      BY <2>2
    <3>2. PICK i \in 1..Len(Base(th)[t]) : Base(th)[t][i] \in C
      BY <3>1
    <3>3. i \in 1..Len(stack[t]) /\ stack[t][i] \in C /\ ~(t = th /\ i = Len(stack[th]))
      BY <1>4, <3>2
    <3> QED
      BY <1>1, <1>6, <3>3 DEF Single
  <2> QED
    BY <1>6, <2>1, <2>2 DEF Has
<1> QED
  BY <1>5, <1>6, FewerHas

(* What a step takes away from the calls and units, and what it adds.      *)
Leaves(st, q, st0, q0, C, U, was) ==
  /\ Has(st, q, C, U) <=> Has(st0, q0, C, U) \/ was
  /\ Single(st, q, C, U) => Single(st0, q0, C, U) /\ (was => ~Has(st0, q0, C, U))
Enters(st0, q0, st, q, C, U, is) ==
  /\ Has(st, q, C, U) <=> Has(st0, q0, C, U) \/ is
  /\ Single(st0, q0, C, U) /\ (is => ~Has(st0, q0, C, U)) => Single(st, q, C, U)
Flows(C, U, was, is) ==
  /\ Has(stack', work_queue', C, U) => Has(stack, work_queue, C, U) \/ is
  /\ Has(stack, work_queue, C, U) => Has(stack', work_queue', C, U) \/ was
  /\ is => Has(stack', work_queue', C, U)
  /\ was => Has(stack, work_queue, C, U)
  /\ Single(stack, work_queue, C, U) /\ (is => was \/ ~Has(stack, work_queue, C, U)) =>
       /\ Single(stack', work_queue', C, U)
       /\ was /\ ~is => ~Has(stack', work_queue', C, U)

LEMMA AppendHas ==
  ASSUME NEW st, NEW q \in Seq(UnitType), NEW u \in UnitType, NEW C, NEW U
  PROVE  Enters(st, q, st, Append(q, u), C, U, u \in U)
<1>r. PICK r : r = Append(q, u)
  OBVIOUS
<1>1. /\ Len(q) \in Nat /\ Len(r) = Len(q) + 1
      /\ \A i \in 1..Len(q) : r[i] = q[i]
      /\ r[Len(q) + 1] = u
  BY <1>r, AppendProperties
<1>2. /\ \A i \in 1..Len(r) : i \in 1..Len(q) \/ i = Len(q) + 1
      /\ Len(q) + 1 \in 1..Len(r) /\ \A i \in 1..Len(q) : i \in 1..Len(r)
  BY <1>1
<1>3. Has(st, r, C, U) <=> Has(st, q, C, U) \/ u \in U
  BY <1>1, <1>2 DEF Has
<1>4. ASSUME Single(st, q, C, U), u \in U => ~Has(st, q, C, U) PROVE Single(st, r, C, U)
  <2>1. ASSUME NEW t \in Threads, NEW i \in 1..Len(st[t]), NEW j \in 1..Len(r),
               st[t][i] \in C, r[j] \in U
        PROVE  FALSE
    <3>1. Has(st, q, C, U)
      BY <2>1 DEF Has
    <3>2. j \in 1..Len(q) /\ q[j] \in U
      BY <1>1, <1>2, <1>4, <2>1, <3>1
    <3> QED
      BY <1>4, <2>1, <3>2 DEF Single
  <2>2. ASSUME NEW i \in 1..Len(r), NEW j \in 1..Len(r), r[i] \in U, r[j] \in U
        PROVE  j = i
    <3>1. CASE u \in U
      <4>1. \A m \in 1..Len(q) : q[m] \notin U
        BY <1>4, <3>1 DEF Has
      <4>2. i = Len(q) + 1 /\ j = Len(q) + 1
        BY <1>1, <1>2, <2>2, <4>1
      <4> QED
        BY <4>2
    <3>2. CASE u \notin U
      <4>1. i \in 1..Len(q) /\ j \in 1..Len(q) /\ q[i] \in U /\ q[j] \in U
        BY <1>1, <1>2, <2>2, <3>2
      <4> QED
        BY <1>4, <4>1 DEF Single
    <3> QED
      BY <3>1, <3>2
  <2>3. \A t, w \in Threads : \A i \in 1..Len(st[t]) : \A j \in 1..Len(st[w]) :
          st[t][i] \in C /\ st[w][j] \in C => w = t /\ j = i
    BY <1>4 DEF Single
  <2> QED
    BY <2>1, <2>2, <2>3 DEF Single
<1> QED
  BY <1>r, <1>3, <1>4, Zenon DEF Enters

LEMMA TailHas ==
  ASSUME NEW st, NEW q \in Seq(UnitType), q # <<>>, NEW C, NEW U
  PROVE  Leaves(st, q, st, Tail(q), C, U, Head(q) \in U)
<1>r. PICK r : r = Tail(q)
  OBVIOUS
<1>1. /\ Len(q) \in Nat \ {0} /\ Len(r) = Len(q) - 1
      /\ Head(q) = q[1] /\ \A i \in 1..Len(r) : r[i] = q[i + 1] /\ i + 1 \in 1..Len(q)
  BY <1>r, HeadTailProperties
<1>2. /\ \A i \in 1..Len(q) : i = 1 \/ (i - 1 \in 1..Len(r) /\ (i - 1) + 1 = i)
      /\ 1 \in 1..Len(q)
  BY <1>1
<1>3. Has(st, q, C, U) <=> Has(st, r, C, U) \/ Head(q) \in U
  <2>1. ASSUME NEW i \in 1..Len(q), q[i] \in U PROVE Has(st, r, C, U) \/ Head(q) \in U
    <3>1. CASE i = 1
      BY <1>1, <2>1, <3>1
    <3>2. CASE i - 1 \in 1..Len(r) /\ (i - 1) + 1 = i
      <4>1. r[i - 1] \in U
        BY <1>1, <2>1, <3>2
      <4> QED
        BY <3>2, <4>1 DEF Has
    <3> QED
      BY <1>2, <3>1, <3>2
  <2>2. Has(st, r, C, U) => Has(st, q, C, U)
    BY <1>1 DEF Has
  <2>3. Head(q) \in U => Has(st, q, C, U)
    BY <1>1, <1>2 DEF Has
  <2>4. Has(st, q, C, U) => Has(st, r, C, U) \/ \E i \in 1..Len(q) : q[i] \in U
    BY DEF Has
  <2> QED
    BY <2>1, <2>2, <2>3, <2>4
<1>4. ASSUME Single(st, q, C, U) PROVE Single(st, r, C, U)
  <2>1. ASSUME NEW i \in 1..Len(r), NEW j \in 1..Len(r), r[i] \in U, r[j] \in U
        PROVE  j = i
    <3>1. i + 1 \in 1..Len(q) /\ j + 1 \in 1..Len(q) /\ q[i + 1] \in U /\ q[j + 1] \in U
      BY <1>1, <2>1
    <3>2. j + 1 = i + 1
      BY <1>4, <3>1 DEF Single
    <3> QED
      BY <3>2
  <2>2. ASSUME NEW t \in Threads, NEW i \in 1..Len(st[t]), NEW j \in 1..Len(r),
               st[t][i] \in C, r[j] \in U
        PROVE  FALSE
    <3>1. j + 1 \in 1..Len(q) /\ q[j + 1] \in U
      BY <1>1, <2>2
    <3> QED
      BY <1>4, <2>2, <3>1 DEF Single
  <2>3. \A t, w \in Threads : \A i \in 1..Len(st[t]) : \A j \in 1..Len(st[w]) :
          st[t][i] \in C /\ st[w][j] \in C => w = t /\ j = i
    BY <1>4 DEF Single
  <2> QED
    BY <2>1, <2>2, <2>3 DEF Single
<1>5. ASSUME Single(st, q, C, U), Head(q) \in U, Has(st, r, C, U) PROVE FALSE
  <2>1. q[1] \in U
    BY <1>1, <1>5
  <2>2. ASSUME NEW j \in 1..Len(r), r[j] \in U PROVE FALSE
    <3>1. j + 1 \in 1..Len(q) /\ q[j + 1] \in U /\ j + 1 # 1
      BY <1>1, <2>2
    <3> QED
      BY <1>2, <1>5, <2>1, <3>1 DEF Single
  <2>3. ASSUME NEW t \in Threads, NEW i \in 1..Len(st[t]), st[t][i] \in C PROVE FALSE
    BY <1>2, <1>5, <2>1, <2>3 DEF Single
  <2> QED
    BY <1>5, <2>2, <2>3 DEF Has
<1> QED
  BY <1>r, <1>3, <1>4, <1>5, Zenon DEF Leaves

(* The steps of one thread: its top call becomes another, which may have   *)
(* made a call of its own or queued a unit;                                *)
LEMMA BecomeFlows ==
  ASSUME MemInv, NEW th \in Threads, stack[th] # <<>>, NEW c \in CallType, NEW C, NEW U,
         stack' = PushOn(Base(th), th, c), work_queue' = work_queue
  PROVE  Flows(C, U, Top(th) \in C, c \in C)
<1>1. stack \in Stacks /\ Base(th) \in Stacks /\ Fewer(Base(th), stack)
  BY TopIs
<1>2. Leaves(stack, work_queue, Base(th), work_queue, C, U, Top(th) \in C)
  BY <1>1, TopHas DEF Leaves
<1>3. Enters(Base(th), work_queue, PushOn(Base(th), th, c), work_queue, C, U, c \in C)
  BY <1>1, PushHas, Zenon DEF Enters
<1>4. Enters(Base(th), work_queue, stack', work_queue', C, U, c \in C)
  BY <1>3, Zenon
<1> QED
  BY <1>2, <1>4, Zenon DEF Leaves, Enters, Flows

LEMMA TwoFlows ==
  ASSUME MemInv, NEW th \in Threads, stack[th] # <<>>, NEW c \in CallType, NEW e \in CallType,
         NEW C, NEW U, ~(c \in C /\ e \in C),
         stack' = PushOn(PushOn(Base(th), th, c), th, e), work_queue' = work_queue
  PROVE  Flows(C, U, Top(th) \in C, c \in C \/ e \in C)
<1>1. stack \in Stacks /\ Base(th) \in Stacks /\ Fewer(Base(th), stack)
  BY TopIs
<1>2. Leaves(stack, work_queue, Base(th), work_queue, C, U, Top(th) \in C)
  BY <1>1, TopHas DEF Leaves
<1>m. PICK mid : mid = PushOn(Base(th), th, c)
  OBVIOUS
<1>3. mid \in Stacks /\ Enters(Base(th), work_queue, mid, work_queue, C, U, c \in C)
  <2>1. PushOn(Base(th), th, c) \in Stacks
    BY <1>1, PushIs
  <2>2. Enters(Base(th), work_queue, PushOn(Base(th), th, c), work_queue, C, U, c \in C)
    BY <1>1, PushHas, Zenon DEF Enters
  <2> QED
    BY <1>m, <2>1, <2>2, Zenon
<1>4. Enters(mid, work_queue, stack', work_queue', C, U, e \in C)
  <2>1. Enters(mid, work_queue, PushOn(mid, th, e), work_queue, C, U, e \in C)
    BY <1>3, PushHas, Zenon DEF Enters
  <2> QED
    BY <1>m, <2>1, Zenon
<1>5. Enters(Base(th), work_queue, stack', work_queue', C, U, c \in C \/ e \in C)
  BY <1>3, <1>4, Zenon DEF Enters
<1> QED
  BY <1>2, <1>5, Zenon DEF Leaves, Enters, Flows

LEMMA SendFlows ==
  ASSUME MemInv, NEW th \in Threads, stack[th] # <<>>, NEW c \in CallType, NEW u \in UnitType,
         NEW C, NEW U, ~(c \in C /\ u \in U),
         stack' = PushOn(Base(th), th, c), work_queue' = Append(work_queue, u)
  PROVE  Flows(C, U, Top(th) \in C, c \in C \/ u \in U)
<1>1. stack \in Stacks /\ Base(th) \in Stacks /\ Fewer(Base(th), stack)
      /\ work_queue \in Seq(UnitType)
  BY TopIs
<1>2. Leaves(stack, work_queue, Base(th), work_queue, C, U, Top(th) \in C)
  BY <1>1, TopHas DEF Leaves
<1>3. Enters(Base(th), work_queue, stack', work_queue, C, U, c \in C)
  <2>1. Enters(Base(th), work_queue, PushOn(Base(th), th, c), work_queue, C, U, c \in C)
    BY <1>1, PushHas, Zenon DEF Enters
  <2> QED
    BY <2>1, Zenon
<1>4. Enters(stack', work_queue, stack', work_queue', C, U, u \in U)
  BY <1>1, AppendHas, Zenon
<1>5. Enters(Base(th), work_queue, stack', work_queue', C, U, c \in C \/ u \in U)
  BY <1>3, <1>4, Zenon DEF Enters
<1> QED
  BY <1>2, <1>5, Zenon DEF Leaves, Enters, Flows

(* it returns, and may have queued a unit;                                 *)
LEMMA ReturnFlows ==
  ASSUME MemInv, NEW th \in Threads, stack[th] # <<>>, NEW C, NEW U, stack' = Base(th)
  PROVE  /\ work_queue' = work_queue => Flows(C, U, Top(th) \in C, FALSE)
         /\ \A u \in UnitType : work_queue' = Append(work_queue, u) =>
              Flows(C, U, Top(th) \in C, u \in U)
<1>1. stack \in Stacks /\ Base(th) \in Stacks /\ Fewer(Base(th), stack)
      /\ work_queue \in Seq(UnitType)
  BY TopIs
<1>2. Leaves(stack, work_queue, Base(th), work_queue, C, U, Top(th) \in C)
  BY <1>1, TopHas DEF Leaves
<1>3. ASSUME work_queue' = work_queue PROVE Flows(C, U, Top(th) \in C, FALSE)
  <2>1. Enters(Base(th), work_queue, Base(th), work_queue, C, U, FALSE)
    BY Zenon DEF Enters
  <2>2. Enters(Base(th), work_queue, stack', work_queue', C, U, FALSE)
    BY <1>3, <2>1, Zenon
  <2> QED
    BY <1>2, <2>2, Zenon DEF Leaves, Enters, Flows
<1>4. ASSUME NEW u \in UnitType, work_queue' = Append(work_queue, u)
      PROVE  Flows(C, U, Top(th) \in C, u \in U)
  <2>1. Enters(stack', work_queue, stack', work_queue', C, U, u \in U)
    BY <1>1, <1>4, AppendHas, Zenon
  <2>2. Leaves(stack, work_queue, stack', work_queue, C, U, Top(th) \in C)
    BY <1>2, Zenon
  <2> QED
    BY <2>1, <2>2, Zenon DEF Leaves, Enters, Flows
<1> QED
  BY <1>3, <1>4

(* it begins one, with a unit of the queue or without.                     *)
LEMMA EnterFlows ==
  ASSUME MemInv, NEW th \in Threads, NEW c \in CallType, NEW C, NEW U,
         stack' = PushOn(stack, th, c)
  PROVE  /\ work_queue' = work_queue => Flows(C, U, FALSE, c \in C)
         /\ work_queue # <<>> /\ work_queue' = Tail(work_queue) =>
              Flows(C, U, Head(work_queue) \in U, c \in C)
<1>1. stack \in Stacks /\ work_queue \in Seq(UnitType)
  BY TypedStacks DEF MemInv
<1>2. \A q : Enters(stack, q, stack', q, C, U, c \in C)
  <2>1. \A q : Enters(stack, q, PushOn(stack, th, c), q, C, U, c \in C)
    BY <1>1, PushHas, Zenon DEF Enters
  <2> QED
    BY <2>1, Zenon
<1>3. ASSUME work_queue' = work_queue PROVE Flows(C, U, FALSE, c \in C)
  <2>1. Leaves(stack, work_queue, stack, work_queue, C, U, FALSE)
    BY Zenon DEF Leaves
  <2>2. Enters(stack, work_queue, stack', work_queue', C, U, c \in C)
    BY <1>2, <1>3, Zenon
  <2> QED
    BY <2>1, <2>2, Zenon DEF Leaves, Enters, Flows
<1>4. ASSUME work_queue # <<>>, work_queue' = Tail(work_queue)
      PROVE  Flows(C, U, Head(work_queue) \in U, c \in C)
  <2>1. Leaves(stack, work_queue, stack, Tail(work_queue), C, U, Head(work_queue) \in U)
    BY <1>1, <1>4, TailHas
  <2>2. Leaves(stack, work_queue, stack, work_queue', C, U, Head(work_queue) \in U)
    BY <1>4, <2>1, Zenon
  <2>3. Enters(stack, work_queue', stack', work_queue', C, U, c \in C)
    BY <1>2, Zenon
  <2> QED
    BY <2>2, <2>3, Zenon DEF Leaves, Enters, Flows
<1> QED
  BY <1>3, <1>4

StillOnce ==
  /\ Alone(stack', work_queue')
  /\ CalledRight(stack', work_queue', life', calls', seen_before', abandoned')
  /\ LeftRight(stack', life', abandoned')
  /\ DedupeRight(stack', work_queue', life', previously_processed', seen_before')

(* An sbuf is born to be processed, and goes on to be called by every      *)
(* scanner, unless it is too deep or left by a throw.                      *)
Onward(s) ==
  /\ New(stack', work_queue', s) => New(stack, work_queue, s) \/ life[s] = "unborn"
  /\ New(stack, work_queue, s) =>
       \/ New(stack', work_queue', s)
       \/ TooDeep(s) /\ \A sc \in Scanners : ~Waits(stack', work_queue', s, sc)
  /\ life[s] # "unborn" => life'[s] # "unborn"
  /\ life'[s] # "unborn" =>
       \/ life[s] # "unborn" \/ Local(s)
       \/ /\ New(stack', work_queue', s)
          /\ \A sc \in Scanners : Waits(stack', work_queue', s, sc)
  /\ LeftIn(abandoned, s) => LeftIn(abandoned', s)
  /\ \A sc \in Scanners :
       /\ Waits(stack', work_queue', s, sc) =>
            \/ Waits(stack, work_queue, s, sc)
            \/ life[s] = "unborn" /\ New(stack', work_queue', s)
       /\ Waits(stack, work_queue, s, sc) =>
            \/ Waits(stack', work_queue', s, sc)
            \/ TooDeep(s) \/ LeftIn(abandoned', s) \/ Settled(calls, seen_before, s, sc)

LEMMA OnwardOnce ==
  ASSUME OnceInv, UNCHANGED <<calls, dedupe>>,
         Alone(stack', work_queue'), LeftRight(stack', life', abandoned'),
         \A s \in Sbufs : Onward(s)
  PROVE  StillOnce
<1>1. /\ CalledRight(stack, work_queue, life, calls, seen_before, abandoned)
      /\ DedupeRight(stack, work_queue, life, previously_processed, seen_before)
      /\ \A s \in Sbufs : life[s] = "unborn" => NotScanned(calls, s)
      /\ previously_processed' = previously_processed /\ seen_before' = seen_before
      /\ calls' = calls
  BY DEF OnceInv, MemInv, Unborn, dedupe
<1>2. CalledRight(stack', work_queue', life', calls, seen_before, abandoned')
  <2> SUFFICES ASSUME NEW s \in Sbufs, NEW sc \in Scanners
               PROVE  /\ calls[s][sc] \in {0, 1}
                      /\ Waits(stack', work_queue', s, sc) => calls[s][sc] = 0
                      /\ calls[s][sc] = 1 => ~TooDeep(s) /\ (s \notin seen_before \/ sc \in OptIn)
                      /\ TooDeep(s) /\ Waits(stack', work_queue', s, sc) =>
                           New(stack', work_queue', s)
                      /\ life'[s] # "unborn" /\ ~TooDeep(s) /\ ~Local(s)
                           /\ ~LeftIn(abandoned', s) =>
                           \/ Waits(stack', work_queue', s, sc)
                           \/ Settled(calls, seen_before, s, sc)
    BY DEF CalledRight
  <2>1. /\ calls[s][sc] \in {0, 1}
        /\ Waits(stack, work_queue, s, sc) => calls[s][sc] = 0
        /\ calls[s][sc] = 1 => ~TooDeep(s) /\ (s \notin seen_before \/ sc \in OptIn)
        /\ TooDeep(s) /\ Waits(stack, work_queue, s, sc) => New(stack, work_queue, s)
        /\ life[s] # "unborn" /\ ~TooDeep(s) /\ ~Local(s) /\ ~LeftIn(abandoned, s) =>
             Waits(stack, work_queue, s, sc) \/ Settled(calls, seen_before, s, sc)
    BY <1>1 DEF CalledRight
  <2>2. Onward(s)
    OBVIOUS
  <2>3. life[s] = "unborn" => calls[s][sc] = 0
    BY <1>1 DEF NotScanned
  <2>4. Waits(stack', work_queue', s, sc) => calls[s][sc] = 0
    BY <2>1, <2>2, <2>3, Zenon DEF Onward
  <2>5. TooDeep(s) /\ Waits(stack', work_queue', s, sc) => New(stack', work_queue', s)
    BY <2>1, <2>2, Zenon DEF Onward
  <2>6. life'[s] # "unborn" /\ ~TooDeep(s) /\ ~Local(s) /\ ~LeftIn(abandoned', s) =>
          Waits(stack', work_queue', s, sc) \/ Settled(calls, seen_before, s, sc)
    BY <2>1, <2>2, Zenon DEF Onward
  <2> QED
    BY <2>1, <2>4, <2>5, <2>6
<1>3. \A s \in Sbufs :
        /\ Past(stack, work_queue, life, s) => Past(stack', work_queue', life', s)
        /\ Past(stack', work_queue', life', s) /\ Scannable(s) => Past(stack, work_queue, life, s)
  <2> SUFFICES ASSUME NEW s \in Sbufs
               PROVE  /\ Past(stack, work_queue, life, s) => Past(stack', work_queue', life', s)
                      /\ Past(stack', work_queue', life', s) /\ Scannable(s) =>
                           Past(stack, work_queue, life, s)
    OBVIOUS
  <2>1. Onward(s)
    OBVIOUS
  <2> QED
    BY <2>1, Zenon DEF Onward, Past, Scannable
<1>4. DedupeRight(stack', work_queue', life', previously_processed, seen_before)
  <2>1. \A s \in Sbufs : Past(stack', work_queue', life', s) /\ Scannable(s) =>
          Content[s] \in previously_processed
    BY <1>1, <1>3, Zenon DEF DedupeRight
  <2>2. \A s \in seen_before : s \in Sbufs
    BY DEF OnceInv, MemInv, TypeOK
  <2>3. \A s \in seen_before : Past(stack', work_queue', life', s)
                               /\ Content[s] \in previously_processed
    BY <1>1, <1>3, <2>2, Zenon DEF DedupeRight
  <2>4. \A x \in previously_processed : \E r \in Sbufs \ seen_before :
          Past(stack', work_queue', life', r) /\ Content[r] = x
    BY <1>1, <1>3 DEF DedupeRight
  <2>5. Legacy => \A r, s \in Sbufs \ seen_before :
          /\ Past(stack', work_queue', life', r) /\ Scannable(r)
          /\ Past(stack', work_queue', life', s) /\ Scannable(s)
          /\ Content[r] = Content[s]
          => r = s
    BY <1>1, <1>3 DEF DedupeRight
  <2> QED
    BY <2>1, <2>3, <2>4, <2>5 DEF DedupeRight
<1> QED
  BY <1>1, <1>2, <1>4 DEF StillOnce

(* What was abandoned stays so when calls go, or come that do not end it.  *)
LEMMA LeftFewer ==
  ASSUME NEW st \in Stacks, NEW st2 \in Stacks, Fewer(st2, st), NEW lf, NEW lf2, NEW ab,
         LeftRight(st, lf, ab), \A s \in Sbufs : LeftIn(ab, s) => lf2[s] = "alive"
  PROVE  LeftRight(st2, lf2, ab)
BY DEF LeftRight, Fewer

LEMMA LeftPush ==
  ASSUME NEW st \in Stacks, NEW th \in Threads, NEW c \in CallType, NEW lf, NEW lf2, NEW ab,
         LeftRight(st, lf, ab), \A s \in Sbufs : LeftIn(ab, s) => lf2[s] = "alive",
         c.fn \in {"del", "unref"} => ~LeftIn(ab, c.sbuf)
  PROVE  LeftRight(PushOn(st, th, c), lf2, ab)
<1>s. PICK st2 : st2 = PushOn(st, th, c)
  OBVIOUS
<1>1. /\ st2 \in Stacks /\ Len(st2[th]) = Len(st[th]) + 1 /\ Len(st[th]) \in Nat
      /\ \A i \in 1..Len(st[th]) : st2[th][i] = st[th][i]
      /\ st2[th][Len(st[th]) + 1] = c
      /\ \A t \in Threads \ {th} : st2[t] = st[t]
  BY <1>s, PushIs
<1>2. \A t \in Threads : \A i \in 1..Len(st2[t]) :
        st2[t][i] = c \/ (i \in 1..Len(st[t]) /\ st2[t][i] = st[t][i])
  <2> SUFFICES ASSUME NEW t \in Threads, NEW i \in 1..Len(st2[t])
               PROVE  st2[t][i] = c \/ (i \in 1..Len(st[t]) /\ st2[t][i] = st[t][i])
    OBVIOUS
  <2>1. CASE t = th
    <3>1. i = Len(st[th]) + 1 \/ i \in 1..Len(st[th])
      BY <1>1, <2>1
    <3> QED
      BY <1>1, <2>1, <3>1
  <2>2. CASE t # th
    BY <1>1, <2>2
  <2> QED
    BY <2>1, <2>2
<1>3. LeftRight(st2, lf2, ab)
  BY <1>2 DEF LeftRight
<1> QED
  BY <1>s, <1>3

(* The last call that retains an sbuf, if no slice of it is left either.   *)
LEMMA LastIsUnabandoned ==
  ASSUME MemInv, NEW th \in Threads, stack[th] # <<>>, Top(th).fn = "release",
         reference_count[Top(th).sbuf] = 1
  PROVE  ~LeftIn(abandoned, Top(th).sbuf)
<1>s. PICK s : s = Top(th).sbuf
  OBVIOUS
<1>1. /\ stack \in Stacks /\ work_queue \in Seq(UnitType) /\ abandoned \in Seq(Sbufs)
      /\ stack[th] \in Seq(CallType) /\ Len(stack[th]) \in 1..Len(stack[th])
      /\ Top(th) = stack[th][Len(stack[th])] /\ s \in Sbufs /\ life[s] = "alive"
  <2>1. stack \in Stacks /\ CallRight(life, calls, Top(th)) /\ s \in Sbufs
        /\ work_queue \in Seq(UnitType) /\ abandoned \in Seq(Sbufs)
    BY <1>s, TopIs
  <2> QED
    BY <1>s, <2>1, BelowIs DEF CallRight, Stacks
<1>2. /\ Cardinality(Queued(work_queue, {s})) \in Nat
      /\ Cardinality(Held(stack, {s})) \in Nat
      /\ Cardinality(Lost(abandoned, {s})) \in Nat
  BY RetainsFinite DEF MemInv
<1>3. Retains({s}) = Cardinality(Queued(work_queue, {s})) + Cardinality(Held(stack, {s}))
                     + Cardinality(Lost(abandoned, {s}))
  BY RetainsAre
<1>4. Cardinality(Held(stack, {s})) # 0
  <2>1. Retained(stack[th][Len(stack[th])], {s})
    BY <1>s, <1>1 DEF Retained, RetainingCalls
  <2>2. <<th, Len(stack[th])>> \in Held(stack, {s})
    BY <1>1, <2>1, HeldAre
  <2>3. IsFiniteSet(Held(stack, {s}))
    BY <1>1, HeldFinite
  <2> QED
    BY <2>2, <2>3, FS_EmptySet
<1>5. Retains({s}) <= 1
  <2>1. reference_count[s] = Retains({s}) + Cardinality(Slices(s))
    BY <1>1 DEF MemInv, ReferencesExact
  <2>2. Cardinality(Slices(s)) \in Nat
    BY <1>1, SlicesFinite, FS_CardinalityType
  <2>3. Retains({s}) \in Nat
    BY <1>2, <1>3
  <2> QED
    BY <1>s, <2>1, <2>2, <2>3
<1>6. Cardinality(Lost(abandoned, {s})) = 0
  BY <1>2, <1>3, <1>4, <1>5
<1>7. Lost(abandoned, {s}) = {}
  <2>1. IsFiniteSet(1..Len(abandoned)) /\ Lost(abandoned, {s}) \in SUBSET (1..Len(abandoned))
    <3>1. Len(abandoned) \in Nat /\ DOMAIN abandoned = 1..Len(abandoned)
      BY <1>1
    <3> QED
      BY <3>1, FS_Interval DEF Lost
  <2> QED
    BY <1>6, <2>1, FS_Subset, FS_EmptySet
<1> QED
  BY <1>s, <1>1, <1>7 DEF LeftIn, Lost

(* A step after which the same sbufs wait for the same.                    *)
LEMMA SameOnce ==
  ASSUME OnceInv, UNCHANGED <<calls, dedupe, abandoned>>, LeftRight(stack', life', abandoned),
         \A s \in Sbufs : life'[s] = "unborn" <=> life[s] = "unborn",
         \A s \in Sbufs : New(stack', work_queue', s) <=> New(stack, work_queue, s),
         \A s \in Sbufs, sc \in Scanners :
           /\ Waits(stack', work_queue', s, sc) <=> Waits(stack, work_queue, s, sc)
           /\ Single(stack', work_queue', AwaitCalls(s, sc), AwaitUnits(s, sc))
  PROVE  StillOnce
<1>1. \A s \in Sbufs : Onward(s)
  BY DEF Onward
<1>2. Alone(stack', work_queue')
  BY DEF Alone
<1>3. abandoned' = abandoned /\ UNCHANGED <<calls, dedupe>>
  BY DEF dedupe
<1> QED
  BY <1>1, <1>2, <1>3, OnwardOnce

LEMMA NothingOnce ==
  ASSUME OnceInv, UNCHANGED <<stack, work_queue, life, calls, dedupe, abandoned>>
  PROVE  StillOnce
BY DEF OnceInv, StillOnce, Alone, Single, CalledRight, LeftRight, DedupeRight, Past, New, Waits,
       Has, LeftIn, Settled, dedupe

(* The calls that lead to process_sbuf, and to a call of a scanner.        *)
LEMMA CallsAre ==
  ASSUME NEW c \in CallType, NEW s
  PROVE  /\ c \in NewCalls(s) <=> c.sbuf = s /\ c.fn \in {"schedule", "process"}
         /\ \A sc : c \in AwaitCalls(s, sc) <=> c.sbuf = s /\ Awaits(c, sc)
BY DEF NewCalls, AwaitCalls

LEMMA UnitsAre ==
  ASSUME NEW u \in UnitType, NEW s
  PROVE  /\ u \in NewUnits(s) <=> u.sbuf = s /\ u.scanner = NoScanner
         /\ \A sc : u \in AwaitUnits(s, sc) <=> u.sbuf = s /\ u.scanner \in {NoScanner, sc}
BY DEF NewUnits, AwaitUnits

(* The top call goes on with its sbuf, and awaits what it did.             *)
LEMMA GoesOnOnce ==
  ASSUME OnceInv, NEW th \in Threads, stack[th] # <<>>, NEW c \in CallType, Become(th, c),
         c.sbuf = Top(th).sbuf, UNCHANGED <<work_queue, life, calls, dedupe, abandoned>>,
         c.fn \in {"del", "unref"} => ~LeftIn(abandoned, Top(th).sbuf),
         c.fn \in {"schedule", "process"} <=> Top(th).fn \in {"schedule", "process"},
         \A sc \in Scanners : Awaits(c, sc) <=> Awaits(Top(th), sc)
  PROVE  StillOnce
<1>1. /\ MemInv /\ stack \in Stacks /\ Base(th) \in Stacks /\ Fewer(Base(th), stack)
      /\ Top(th) \in CallType /\ LeftRight(stack, life, abandoned)
      /\ Alone(stack, work_queue)
  <2>1. MemInv /\ LeftRight(stack, life, abandoned) /\ Alone(stack, work_queue)
    BY DEF OnceInv
  <2> QED
    BY <2>1, TopIs
<1>2. stack' = PushOn(Base(th), th, c)
  BY <1>1, ShapeIs
<1>3. ASSUME NEW s \in Sbufs
      PROVE  New(stack', work_queue', s) <=> New(stack, work_queue, s)
  <2>1. Flows(NewCalls(s), NewUnits(s), Top(th) \in NewCalls(s), c \in NewCalls(s))
    BY <1>1, <1>2, BecomeFlows
  <2>2. Top(th) \in NewCalls(s) <=> c \in NewCalls(s)
    BY <1>1, CallsAre
  <2> QED
    BY <2>1, <2>2, Zenon DEF Flows, New
<1>4. ASSUME NEW s \in Sbufs, NEW sc \in Scanners
      PROVE  /\ Waits(stack', work_queue', s, sc) <=> Waits(stack, work_queue, s, sc)
             /\ Single(stack', work_queue', AwaitCalls(s, sc), AwaitUnits(s, sc))
  <2>1. Flows(AwaitCalls(s, sc), AwaitUnits(s, sc), Top(th) \in AwaitCalls(s, sc),
              c \in AwaitCalls(s, sc))
    BY <1>1, <1>2, BecomeFlows
  <2>2. Top(th) \in AwaitCalls(s, sc) <=> c \in AwaitCalls(s, sc)
    BY <1>1, CallsAre
  <2>3. Single(stack, work_queue, AwaitCalls(s, sc), AwaitUnits(s, sc))
    BY <1>1 DEF Alone
  <2> QED
    BY <2>1, <2>2, <2>3, Zenon DEF Flows, Waits
<1>5. LeftRight(stack', life', abandoned)
  <2>1. \A s \in Sbufs : LeftIn(abandoned, s) => life[s] = "alive"
    BY <1>1 DEF LeftRight
  <2>2. LeftRight(Base(th), life, abandoned)
    BY <1>1, <2>1, LeftFewer
  <2>3. LeftRight(PushOn(Base(th), th, c), life, abandoned)
    BY <1>1, <2>1, <2>2, LeftPush
  <2> QED
    BY <1>2, <2>3, Zenon
<1> QED
  BY <1>3, <1>4, <1>5, SameOnce

(* It returns, and awaited nothing.                                        *)
LEMMA ReturnOnce ==
  ASSUME OnceInv, NEW th \in Threads, stack[th] # <<>>, Return(th),
         Top(th).fn \notin {"schedule", "process", "each", "scan"},
         UNCHANGED <<work_queue, calls, dedupe, abandoned>>,
         \/ life' = life
         \/ /\ life' = [life EXCEPT ![Top(th).sbuf] = "deleted"]
            /\ ~LeftIn(abandoned, Top(th).sbuf)
  PROVE  StillOnce
<1>1. /\ MemInv /\ stack \in Stacks /\ Base(th) \in Stacks /\ Fewer(Base(th), stack)
      /\ Top(th) \in CallType /\ LeftRight(stack, life, abandoned)
      /\ Top(th).sbuf \in Sbufs /\ life[Top(th).sbuf] = "alive"
      /\ Alone(stack, work_queue) /\ life \in [Sbufs -> {"unborn", "alive", "deleted"}]
  <2>1. MemInv /\ LeftRight(stack, life, abandoned) /\ Alone(stack, work_queue)
    BY DEF OnceInv
  <2>2. CallRight(life, calls, Top(th))
    BY <2>1, TopIs
  <2> QED
    BY <2>1, <2>2, TopIs DEF CallRight, MemInv, TypeOK
<1>2. stack' = Base(th)
  BY <1>1, ShapeIs
<1>3. ASSUME NEW s \in Sbufs
      PROVE  New(stack', work_queue', s) <=> New(stack, work_queue, s)
  <2>1. Flows(NewCalls(s), NewUnits(s), Top(th) \in NewCalls(s), FALSE)
    BY <1>1, <1>2, ReturnFlows
  <2>2. Top(th) \notin NewCalls(s)
    BY <1>1, CallsAre
  <2> QED
    BY <2>1, <2>2, Zenon DEF Flows, New
<1>4. ASSUME NEW s \in Sbufs, NEW sc \in Scanners
      PROVE  /\ Waits(stack', work_queue', s, sc) <=> Waits(stack, work_queue, s, sc)
             /\ Single(stack', work_queue', AwaitCalls(s, sc), AwaitUnits(s, sc))
  <2>1. Flows(AwaitCalls(s, sc), AwaitUnits(s, sc), Top(th) \in AwaitCalls(s, sc), FALSE)
    BY <1>1, <1>2, ReturnFlows
  <2>2. Top(th) \notin AwaitCalls(s, sc)
    BY <1>1, CallsAre DEF Awaits
  <2>3. Single(stack, work_queue, AwaitCalls(s, sc), AwaitUnits(s, sc))
    BY <1>1 DEF Alone
  <2> QED
    BY <2>1, <2>2, <2>3, Zenon DEF Flows, Waits
<1>5. \A s \in Sbufs : /\ life'[s] = "unborn" <=> life[s] = "unborn"
                       /\ LeftIn(abandoned, s) => life'[s] = "alive"
  <2>1. \A s \in Sbufs : LeftIn(abandoned, s) => life[s] = "alive"
    BY <1>1 DEF LeftRight
  <2> QED
    BY <1>1, <2>1
<1>6. LeftRight(stack', life', abandoned)
  <2>1. LeftRight(Base(th), life', abandoned)
    BY <1>1, <1>5, LeftFewer
  <2> QED
    BY <1>2, <2>1, Zenon
<1> QED
  BY <1>3, <1>4, <1>5, <1>6, SameOnce

(* It drops what it awaited: too deep, or a duplicate.                     *)
LEMMA DropsOnce ==
  ASSUME OnceInv, NEW th \in Threads, stack[th] # <<>>, BecomeRelease(th),
         UNCHANGED <<work_queue, life, calls, dedupe, abandoned>>,
         \/ Top(th).fn = "process" /\ TooDeep(Top(th).sbuf)
         \/ Top(th).fn = "scan" /\ Settled(calls, seen_before, Top(th).sbuf, Top(th).scanner)
  PROVE  StillOnce
<1>1. /\ MemInv /\ stack \in Stacks /\ Base(th) \in Stacks /\ Fewer(Base(th), stack)
      /\ Top(th) \in CallType /\ LeftRight(stack, life, abandoned)
      /\ Top(th).sbuf \in Sbufs /\ life[Top(th).sbuf] = "alive"
      /\ Alone(stack, work_queue)
  <2>1. MemInv /\ LeftRight(stack, life, abandoned) /\ Alone(stack, work_queue)
    BY DEF OnceInv
  <2>2. CallRight(life, calls, Top(th))
    BY <2>1, TopIs
  <2> QED
    BY <2>1, <2>2, TopIs DEF CallRight
<1>c. PICK c \in CallType : c = Call("release", Top(th).sbuf, NoScanner, {})
  BY <1>1 DEF CallType, Call
<1>2. stack' = PushOn(Base(th), th, c)
  BY <1>1, <1>c, ShapeIs DEF BecomeRelease
<1>3. ASSUME NEW s \in Sbufs
      PROVE  /\ New(stack', work_queue', s) => New(stack, work_queue, s)
             /\ New(stack, work_queue, s) =>
                  \/ New(stack', work_queue', s)
                  \/ s = Top(th).sbuf /\ Top(th).fn = "process"
  <2>1. Flows(NewCalls(s), NewUnits(s), Top(th) \in NewCalls(s), c \in NewCalls(s))
    BY <1>1, <1>2, BecomeFlows
  <2>2. c \notin NewCalls(s)
        /\ (Top(th) \in NewCalls(s) => s = Top(th).sbuf /\ Top(th).fn = "process")
    BY <1>1, <1>c, CallsAre DEF Call
  <2> QED
    BY <2>1, <2>2, Zenon DEF Flows, New
<1>4. ASSUME NEW s \in Sbufs, NEW sc \in Scanners
      PROVE  /\ Waits(stack', work_queue', s, sc) => Waits(stack, work_queue, s, sc)
             /\ Waits(stack, work_queue, s, sc) =>
                  \/ Waits(stack', work_queue', s, sc)
                  \/ s = Top(th).sbuf /\ Awaits(Top(th), sc)
             /\ s = Top(th).sbuf /\ Awaits(Top(th), sc) => ~Waits(stack', work_queue', s, sc)
             /\ Single(stack', work_queue', AwaitCalls(s, sc), AwaitUnits(s, sc))
  <2>1. Flows(AwaitCalls(s, sc), AwaitUnits(s, sc), Top(th) \in AwaitCalls(s, sc),
              c \in AwaitCalls(s, sc))
    BY <1>1, <1>2, BecomeFlows
  <2>2. c \notin AwaitCalls(s, sc)
        /\ (Top(th) \in AwaitCalls(s, sc) <=> s = Top(th).sbuf /\ Awaits(Top(th), sc))
    BY <1>1, <1>c, CallsAre DEF Call, Awaits
  <2>3. Single(stack, work_queue, AwaitCalls(s, sc), AwaitUnits(s, sc))
    BY <1>1 DEF Alone
  <2> QED
    BY <2>1, <2>2, <2>3, Zenon DEF Flows, Waits
<1>5. ASSUME NEW s \in Sbufs PROVE Onward(s)
  <2>1. ASSUME NEW sc \in Scanners, Waits(stack, work_queue, s, sc)
        PROVE  \/ Waits(stack', work_queue', s, sc)
               \/ TooDeep(s) \/ Settled(calls, seen_before, s, sc)
    <3>1. Waits(stack', work_queue', s, sc) \/ (s = Top(th).sbuf /\ Awaits(Top(th), sc))
      BY <1>4, <2>1
    <3>2. Awaits(Top(th), sc) /\ Top(th).fn = "scan" => Top(th).scanner = sc
      BY DEF Awaits
    <3> QED
      BY <3>1, <3>2
  <2>2. New(stack, work_queue, s) =>
          \/ New(stack', work_queue', s)
          \/ TooDeep(s) /\ \A sc \in Scanners : ~Waits(stack', work_queue', s, sc)
    <3>1. ASSUME s = Top(th).sbuf, Top(th).fn = "process"
          PROVE  TooDeep(s) /\ \A sc \in Scanners : ~Waits(stack', work_queue', s, sc)
      <4>1. TooDeep(s) /\ \A sc \in Scanners : Awaits(Top(th), sc)
        BY <3>1 DEF Awaits
      <4> QED
        BY <1>4, <3>1, <4>1
    <3> QED
      BY <1>3, <3>1
  <2>3. life' = life /\ abandoned' = abandoned
    OBVIOUS
  <2> QED
    BY <1>3, <1>4, <2>1, <2>2, <2>3, Zenon DEF Onward
<1>6. Alone(stack', work_queue')
  BY <1>4 DEF Alone
<1>7. LeftRight(stack', life', abandoned')
  <2>1. \A s \in Sbufs : LeftIn(abandoned, s) => life[s] = "alive"
    BY <1>1 DEF LeftRight
  <2>2. LeftRight(Base(th), life, abandoned)
    BY <1>1, <2>1, LeftFewer
  <2>3. c.fn = "release"
    BY <1>c DEF Call
  <2>4. LeftRight(PushOn(Base(th), th, c), life, abandoned)
    BY <1>1, <2>1, <2>2, <2>3, LeftPush
  <2> QED
    BY <1>2, <2>4, Zenon
<1> QED
  BY <1>5, <1>6, <1>7, OnwardOnce

(* What no call and no unit is about does not wait.                        *)
LEMMA AbsentHas ==
  ASSUME NEW st, NEW q, NEW s, Absent(st, q, s)
  PROVE  /\ ~Has(st, q, NewCalls(s), NewUnits(s))
         /\ \A sc : ~Has(st, q, AwaitCalls(s, sc), AwaitUnits(s, sc))
BY DEF Absent, Has, NewCalls, NewUnits, AwaitCalls, AwaitUnits

(* An sbuf is born to be processed, or for its maker only.                 *)
LEMMA BornOnce ==
  ASSUME OnceInv, NEW d \in Sbufs, life[d] = "unborn", life' = [life EXCEPT ![d] = "alive"],
         UNCHANGED <<calls, dedupe, abandoned>>, LeftRight(stack', life, abandoned),
         \A s \in Sbufs : s # d => (New(stack', work_queue', s) <=> New(stack, work_queue, s)),
         \A s \in Sbufs, sc \in Scanners :
           /\ s # d => (Waits(stack', work_queue', s, sc) <=> Waits(stack, work_queue, s, sc))
           /\ Single(stack', work_queue', AwaitCalls(s, sc), AwaitUnits(s, sc)),
         \/ /\ New(stack', work_queue', d)
            /\ \A sc \in Scanners : Waits(stack', work_queue', d, sc)
         \/ /\ Local(d) /\ ~New(stack', work_queue', d)
            /\ \A sc \in Scanners : ~Waits(stack', work_queue', d, sc)
  PROVE  StillOnce
<1>1. MemInv /\ life \in [Sbufs -> {"unborn", "alive", "deleted"}]
  BY DEF OnceInv, MemInv, TypeOK
<1>2. Absent(stack, work_queue, d)
  BY <1>1, NotBorn
<1>3. ~New(stack, work_queue, d) /\ \A sc \in Scanners : ~Waits(stack, work_queue, d, sc)
  BY <1>2, AbsentHas DEF New, Waits
<1>4. /\ life'[d] = "alive" /\ \A s \in Sbufs : s # d => life'[s] = life[s]
      /\ abandoned' = abandoned
  BY <1>1
<1>5. ASSUME NEW s \in Sbufs PROVE Onward(s)
  <2>1. CASE s = d
    BY <1>3, <1>4, <2>1 DEF Onward
  <2>2. CASE s # d
    BY <1>4, <2>2 DEF Onward
  <2> QED
    BY <2>1, <2>2
<1>6. Alone(stack', work_queue')
  BY DEF Alone
<1>7. LeftRight(stack', life', abandoned')
  <2>1. \A s \in Sbufs : life[s] = "alive" => life'[s] = "alive"
    BY <1>1, <1>4
  <2> QED
    BY <1>4, <2>1 DEF LeftRight
<1> QED
  BY <1>5, <1>6, <1>7, OnwardOnce

LEMMA ReadOnce ==
  ASSUME OnceInv, NEW p \in Pages, ReadPage(p)
  PROVE  StillOnce
<1>0. MemInv /\ LeftRight(stack, life, abandoned) /\ Alone(stack, work_queue)
  BY DEF OnceInv
<1>1. /\ p \in Sbufs /\ Main \in Threads /\ stack \in Stacks
      /\ life[p] = "unborn" /\ life' = [life EXCEPT ![p] = "alive"]
      /\ work_queue' = work_queue
      /\ UNCHANGED <<calls, dedupe, abandoned>>
  BY <1>0, TypedStacks DEF Sbufs, Threads, ReadPage, MemInv, dedupe
<1>2. PICK c \in CallType : c = Call("schedule", p, NoScanner, {})
  BY <1>1 DEF CallType, Call
<1>3. c.sbuf = p /\ c.fn = "schedule"
  BY <1>2 DEF Call
<1>4. stack' = PushOn(stack, Main, c)
  BY <1>1, <1>2, ShapeIs DEF ReadPage
<1>5. Absent(stack, work_queue, p)
  BY <1>0, <1>1, NotBorn
<1>6. ASSUME NEW s \in Sbufs
      PROVE  /\ s # p => (New(stack', work_queue', s) <=> New(stack, work_queue, s))
             /\ New(stack', work_queue', p)
  <2>1. \A r : Flows(NewCalls(r), NewUnits(r), FALSE, c \in NewCalls(r))
    BY <1>0, <1>1, <1>4, EnterFlows
  <2>2. \A r : c \in NewCalls(r) <=> r = p
    BY <1>3, CallsAre
  <2> QED
    BY <2>1, <2>2, Zenon DEF Flows, New
<1>7. ASSUME NEW s \in Sbufs, NEW sc \in Scanners
      PROVE  /\ s # p => (Waits(stack', work_queue', s, sc) <=> Waits(stack, work_queue, s, sc))
             /\ s = p => Waits(stack', work_queue', s, sc)
             /\ Single(stack', work_queue', AwaitCalls(s, sc), AwaitUnits(s, sc))
  <2>1. Flows(AwaitCalls(s, sc), AwaitUnits(s, sc), FALSE, c \in AwaitCalls(s, sc))
    BY <1>0, <1>1, <1>4, EnterFlows
  <2>2. c \in AwaitCalls(s, sc) <=> s = p
    BY <1>3, CallsAre DEF Awaits
  <2>3. Single(stack, work_queue, AwaitCalls(s, sc), AwaitUnits(s, sc))
    BY <1>0 DEF Alone
  <2>4. s = p => ~Has(stack, work_queue, AwaitCalls(s, sc), AwaitUnits(s, sc))
    BY <1>5, AbsentHas
  <2> QED
    BY <2>1, <2>2, <2>3, <2>4, Zenon DEF Flows, Waits
<1>8. LeftRight(stack', life, abandoned)
  <2>1. \A s \in Sbufs : LeftIn(abandoned, s) => life[s] = "alive"
    BY <1>0 DEF LeftRight
  <2>2. LeftRight(PushOn(stack, Main, c), life, abandoned)
    BY <1>0, <1>1, <1>3, <2>1, LeftPush
  <2> QED
    BY <1>4, <2>2, Zenon
<1> QED
  BY <1>1, <1>6, <1>7, <1>8, BornOnce

LEMMA ScheduleOnce ==
  ASSUME OnceInv, SchedulePage
  PROVE  StillOnce
<1>p. PICK p : p = Top(Main).sbuf
  OBVIOUS
<1>0. MemInv /\ LeftRight(stack, life, abandoned) /\ Alone(stack, work_queue)
  BY DEF OnceInv
<1>1. /\ stack[Main] # <<>> /\ Top(Main).fn = "schedule" /\ Main \in Threads
      /\ IF RunsInSameThread(p)
         THEN Become(Main, Process(p)) /\ UNCHANGED work_queue
         ELSE Return(Main) /\ work_queue' = Append(work_queue, Unit(p, NoScanner))
      /\ UNCHANGED <<life, calls, dedupe, abandoned>>
  BY <1>p DEF SchedulePage, In, Threads, dedupe
<1>2. /\ Top(Main) \in CallType /\ p \in Sbufs /\ stack \in Stacks
      /\ Base(Main) \in Stacks /\ Fewer(Base(Main), stack)
  BY <1>0, <1>1, <1>p, TopIs
<1>3. CASE RunsInSameThread(p)
  <2>1. PICK c \in CallType : c = Process(p)
    BY <1>2 DEF CallType, Process, Call
  <2>2. c.sbuf = p /\ c.fn = "process" /\ Become(Main, c) /\ work_queue' = work_queue
    BY <1>1, <1>3, <2>1 DEF Process, Call
  <2>3. \A sc \in Scanners : Awaits(c, sc) /\ Awaits(Top(Main), sc)
    BY <1>1, <2>2 DEF Awaits
  <2>4. UNCHANGED <<work_queue, life, calls, dedupe, abandoned>>
    BY <1>1, <2>2
  <2> QED
    BY <1>1, <1>p, <2>2, <2>3, <2>4, GoesOnOnce
<1>4. CASE ~RunsInSameThread(p)
  <2>u. PICK u \in UnitType : u = Unit(p, NoScanner)
    BY <1>2 DEF UnitType, Unit
  <2>1. u.sbuf = p /\ u.scanner = NoScanner /\ Return(Main) /\ work_queue' = Append(work_queue, u)
    BY <1>1, <1>4, <2>u DEF Unit
  <2>2. stack' = Base(Main)
    BY <1>2, <2>1, <1>1, ShapeIs
  <2>3. ASSUME NEW s \in Sbufs
        PROVE  New(stack', work_queue', s) <=> New(stack, work_queue, s)
    <3>1. Flows(NewCalls(s), NewUnits(s), Top(Main) \in NewCalls(s), u \in NewUnits(s))
      BY <1>0, <1>1, <2>1, <2>2, ReturnFlows
    <3>2. Top(Main) \in NewCalls(s) <=> u \in NewUnits(s)
      BY <1>1, <1>2, <1>p, <2>1, CallsAre, UnitsAre
    <3> QED
      BY <3>1, <3>2, Zenon DEF Flows, New
  <2>4. ASSUME NEW s \in Sbufs, NEW sc \in Scanners
        PROVE  /\ Waits(stack', work_queue', s, sc) <=> Waits(stack, work_queue, s, sc)
               /\ Single(stack', work_queue', AwaitCalls(s, sc), AwaitUnits(s, sc))
    <3>1. Flows(AwaitCalls(s, sc), AwaitUnits(s, sc), Top(Main) \in AwaitCalls(s, sc),
                u \in AwaitUnits(s, sc))
      BY <1>0, <1>1, <2>1, <2>2, ReturnFlows
    <3>2. Top(Main) \in AwaitCalls(s, sc) <=> u \in AwaitUnits(s, sc)
      BY <1>1, <1>2, <1>p, <2>1, CallsAre, UnitsAre DEF Awaits
    <3>3. Single(stack, work_queue, AwaitCalls(s, sc), AwaitUnits(s, sc))
      BY <1>0 DEF Alone
    <3> QED
      BY <3>1, <3>2, <3>3, Zenon DEF Flows, Waits
  <2>5. LeftRight(stack', life', abandoned)
    <3>1. \A s \in Sbufs : LeftIn(abandoned, s) => life[s] = "alive"
      BY <1>0 DEF LeftRight
    <3>2. LeftRight(Base(Main), life, abandoned)
      BY <1>0, <1>2, <3>1, LeftFewer
    <3>3. life' = life
      BY <1>1
    <3> QED
      BY <2>2, <3>2, <3>3, Zenon
  <2>6. life' = life /\ UNCHANGED <<calls, dedupe, abandoned>>
    BY <1>1
  <2> QED
    BY <2>3, <2>4, <2>5, <2>6, SameOnce
<1> QED
  BY <1>3, <1>4

LEMMA TakeOnce ==
  ASSUME OnceInv, NEW w \in Workers, Take(w)
  PROVE  StillOnce
<1>0. MemInv /\ LeftRight(stack, life, abandoned) /\ Alone(stack, work_queue)
  BY DEF OnceInv
<1>1. /\ stack \in Stacks /\ work_queue \in Seq(UnitType) /\ w \in Threads
      /\ work_queue # <<>> /\ work_queue' = Tail(work_queue)
      /\ UNCHANGED <<life, calls, dedupe, abandoned>>
  BY <1>0, TypedStacks DEF MemInv, Take, Threads, dedupe
<1>u. PICK u : u = Head(work_queue)
  OBVIOUS
<1>2. u \in UnitType
  BY <1>u, <1>1
<1>c. PICK c : c = IF u.scanner = NoScanner THEN Process(u.sbuf) ELSE Scan(u.sbuf, u.scanner)
  OBVIOUS
<1>3. /\ c \in CallType /\ c.sbuf = u.sbuf
      /\ u.scanner = NoScanner => c.fn = "process"
      /\ u.scanner # NoScanner => c.fn = "scan" /\ c.scanner = u.scanner
  BY <1>2, <1>c DEF CallType, UnitType, Process, Scan, Call
<1>4. stack' = PushOn(stack, w, c)
  BY <1>1, <1>u, <1>c, ShapeIs DEF Take
<1>5. ASSUME NEW s \in Sbufs
      PROVE  New(stack', work_queue', s) <=> New(stack, work_queue, s)
  <2>1. Flows(NewCalls(s), NewUnits(s), u \in NewUnits(s), c \in NewCalls(s))
    BY <1>0, <1>1, <1>3, <1>4, <1>u, EnterFlows
  <2>2. u \in NewUnits(s) <=> c \in NewCalls(s)
    BY <1>2, <1>3, CallsAre, UnitsAre
  <2> QED
    BY <2>1, <2>2, Zenon DEF Flows, New
<1>6. ASSUME NEW s \in Sbufs, NEW sc \in Scanners
      PROVE  /\ Waits(stack', work_queue', s, sc) <=> Waits(stack, work_queue, s, sc)
             /\ Single(stack', work_queue', AwaitCalls(s, sc), AwaitUnits(s, sc))
  <2>1. Flows(AwaitCalls(s, sc), AwaitUnits(s, sc), u \in AwaitUnits(s, sc),
              c \in AwaitCalls(s, sc))
    BY <1>0, <1>1, <1>3, <1>4, <1>u, EnterFlows
  <2>2. u \in AwaitUnits(s, sc) <=> c \in AwaitCalls(s, sc)
    BY <1>2, <1>3, CallsAre, UnitsAre, ScannersAssumption DEF Awaits
  <2>3. Single(stack, work_queue, AwaitCalls(s, sc), AwaitUnits(s, sc))
    BY <1>0 DEF Alone
  <2> QED
    BY <2>1, <2>2, <2>3, Zenon DEF Flows, Waits
<1>7. LeftRight(stack', life', abandoned)
  <2>1. \A s \in Sbufs : LeftIn(abandoned, s) => life[s] = "alive"
    BY <1>0 DEF LeftRight
  <2>2. c.fn \notin {"del", "unref"}
    BY <1>3
  <2>3. LeftRight(PushOn(stack, w, c), life, abandoned)
    BY <1>0, <1>1, <1>3, <2>1, <2>2, LeftPush
  <2>4. life' = life
    BY <1>1
  <2> QED
    BY <1>4, <2>3, <2>4, Zenon
<1> QED
  BY <1>1, <1>5, <1>6, <1>7, SameOnce

LEMMA TooDeepOnce ==
  ASSUME OnceInv, NEW th \in Threads, ProcessTooDeep(th)
  PROVE  StillOnce
<1>1. /\ stack[th] # <<>> /\ BecomeRelease(th) /\ Top(th).fn = "process"
      /\ TooDeep(Top(th).sbuf)
      /\ UNCHANGED <<work_queue, life, calls, dedupe, abandoned>>
  BY DEF ProcessTooDeep, In, dedupe
<1> QED
  BY <1>1, DropsOnce

LEMMA BypassedOnce ==
  ASSUME OnceInv, NEW th \in Threads, ScanBypassed(th)
  PROVE  StillOnce
<1>1. /\ stack[th] # <<>> /\ BecomeRelease(th) /\ Top(th).fn = "scan"
      /\ Settled(calls, seen_before, Top(th).sbuf, Top(th).scanner)
      /\ UNCHANGED <<work_queue, life, calls, dedupe, abandoned>>
  BY DEF ScanBypassed, In, dedupe, Settled
<1> QED
  BY <1>1, DropsOnce

(* A call that has done all it awaited is released.                        *)
LEMMA ReleasedOnce ==
  ASSUME OnceInv, NEW th \in Threads, stack[th] # <<>>, BecomeRelease(th),
         Top(th).fn \notin {"schedule", "process"}, \A sc \in Scanners : ~Awaits(Top(th), sc),
         UNCHANGED <<work_queue, life, calls, dedupe, abandoned>>
  PROVE  StillOnce
<1>1. Top(th).sbuf \in Sbufs
  BY TopIs DEF OnceInv
<1>2. PICK c \in CallType : c = Call("release", Top(th).sbuf, NoScanner, {})
  BY <1>1 DEF CallType, Call
<1>3. Become(th, c) /\ c.sbuf = Top(th).sbuf /\ c.fn = "release"
  BY <1>2 DEF BecomeRelease, Call
<1>4. \A sc \in Scanners : ~Awaits(c, sc)
  BY <1>3 DEF Awaits
<1> QED
  BY <1>3, <1>4, GoesOnOnce

LEMMA EachDoneOnce ==
  ASSUME OnceInv, NEW th \in Threads, EachDone(th)
  PROVE  StillOnce
<1>1. /\ stack[th] # <<>> /\ BecomeRelease(th) /\ Top(th).fn = "each" /\ Top(th).todo = {}
      /\ UNCHANGED <<work_queue, life, calls, dedupe, abandoned>>
  BY DEF EachDone, In, dedupe
<1>2. \A sc \in Scanners : ~Awaits(Top(th), sc)
  BY <1>1 DEF Awaits
<1> QED
  BY <1>1, <1>2, ReleasedOnce

LEMMA ScanEndsOnce ==
  ASSUME OnceInv, NEW th \in Threads, ScanEnds(th)
  PROVE  StillOnce
<1>1. /\ stack[th] # <<>> /\ BecomeRelease(th) /\ Top(th).fn = "scanning"
      /\ UNCHANGED <<work_queue, life, calls, dedupe, abandoned>>
  BY DEF ScanEnds, In, dedupe
<1>2. \A sc \in Scanners : ~Awaits(Top(th), sc)
  BY <1>1 DEF Awaits
<1> QED
  BY <1>1, <1>2, ReleasedOnce

(* What is destroyed was not abandoned.                                    *)
LEMMA DestroyOnce ==
  ASSUME OnceInv, NEW th \in Threads, stack[th] # <<>>, Top(th).fn \in {"release", "local"},
         Destroy(th, Top(th).sbuf), ~LeftIn(abandoned, Top(th).sbuf),
         UNCHANGED <<work_queue, calls, dedupe, abandoned>>
  PROVE  StillOnce
<1>s. PICK s : s = Top(th).sbuf
  OBVIOUS
<1>1. s \in Sbufs
  BY <1>s, TopIs DEF OnceInv
<1>2. CASE children[s] # 0
  <2>1. UNCHANGED <<stack, work_queue, life, calls, dedupe, abandoned>>
    BY <1>s, <1>2 DEF Destroy
  <2> QED
    BY <2>1, NothingOnce
<1>3. CASE children[s] = 0 /\ Shares(s)
  <2>1. PICK c \in CallType : c = Call("del", s, NoScanner, {})
    BY <1>1 DEF CallType, Call
  <2>2. Become(th, c) /\ c.sbuf = Top(th).sbuf /\ c.fn = "del" /\ life' = life
    BY <1>s, <1>3, <2>1 DEF Destroy, Call
  <2>3. \A sc \in Scanners : ~Awaits(c, sc) /\ ~Awaits(Top(th), sc)
    BY <2>2 DEF Awaits
  <2>4. UNCHANGED <<work_queue, life, calls, dedupe, abandoned>>
    BY <2>2
  <2>5. c.fn \notin {"schedule", "process"} /\ Top(th).fn \notin {"schedule", "process"}
    BY <2>2
  <2> QED
    BY <2>2, <2>3, <2>4, <2>5, GoesOnOnce
<1>4. CASE children[s] = 0 /\ ~Shares(s)
  <2>1. Return(th) /\ life' = [life EXCEPT ![Top(th).sbuf] = "deleted"]
    BY <1>s, <1>4 DEF Destroy
  <2> QED
    BY <2>1, ReturnOnce
<1> QED
  BY <1>2, <1>3, <1>4

LEMMA ReleaseOnce ==
  ASSUME OnceInv, NEW th \in Threads, Release(th)
  PROVE  StillOnce
<1>1. /\ stack[th] # <<>> /\ Top(th).fn = "release"
      /\ IF reference_count[Top(th).sbuf] = 1
         THEN Destroy(th, Top(th).sbuf)
         ELSE Return(th) /\ UNCHANGED <<life, fault>>
      /\ UNCHANGED <<work_queue, calls, dedupe, abandoned>>
  BY DEF Release, In, dedupe
<1>2. CASE reference_count[Top(th).sbuf] = 1
  <2>1. ~LeftIn(abandoned, Top(th).sbuf)
    BY <1>1, <1>2, LastIsUnabandoned DEF OnceInv
  <2> QED
    BY <1>1, <1>2, <2>1, DestroyOnce
<1>3. CASE reference_count[Top(th).sbuf] # 1
  <2>1. Return(th) /\ life' = life
    BY <1>1, <1>3
  <2> QED
    BY <1>1, <2>1, ReturnOnce
<1> QED
  BY <1>2, <1>3

(* Nor were local slices, and what is being destroyed.                     *)
LEMMA UnabandonedTop ==
  ASSUME OnceInv, NEW th \in Threads, stack[th] # <<>>, Top(th).fn \in {"local", "del", "unref"}
  PROVE  ~LeftIn(abandoned, Top(th).sbuf)
<1>1. /\ MemInv /\ LeftRight(stack, life, abandoned)
  BY DEF OnceInv
<1>2. stack \in Stacks /\ CallRight(life, calls, Top(th)) /\ Top(th).sbuf \in Sbufs
  BY <1>1, TopIs
<1>3. Len(stack[th]) \in 1..Len(stack[th]) /\ Top(th) = stack[th][Len(stack[th])]
  BY <1>2, BelowIs
<1>4. Top(th).fn = "local" => Local(Top(th).sbuf)
  BY <1>2 DEF CallRight
<1> QED
  BY <1>1, <1>2, <1>3, <1>4 DEF LeftRight

LEMMA LocalEndsOnce ==
  ASSUME OnceInv, NEW th \in Threads, LocalEnds(th)
  PROVE  StillOnce
<1>1. /\ stack[th] # <<>> /\ Top(th).fn = "local" /\ Destroy(th, Top(th).sbuf)
      /\ UNCHANGED <<work_queue, calls, dedupe, abandoned>>
  BY DEF LocalEnds, In, dedupe
<1>2. ~LeftIn(abandoned, Top(th).sbuf)
  BY <1>1, UnabandonedTop
<1> QED
  BY <1>1, <1>2, DestroyOnce

LEMMA DelChildOnce ==
  ASSUME OnceInv, NEW th \in Threads, DelChild(th)
  PROVE  StillOnce
<1>1. /\ stack[th] # <<>> /\ Top(th).fn = "del"
      /\ UNCHANGED <<work_queue, life, calls, dedupe, abandoned>>
  BY DEF DelChild, In, dedupe
<1>2. Top(th) \in CallType /\ ~LeftIn(abandoned, Top(th).sbuf)
  BY <1>1, TopIs, UnabandonedTop DEF OnceInv
<1>3. PICK c \in CallType : c = [Top(th) EXCEPT !.fn = "unref"]
  BY <1>2 DEF CallType
<1>4. Become(th, c) /\ c.sbuf = Top(th).sbuf /\ c.fn = "unref"
  BY <1>2, <1>3 DEF DelChild, CallType
<1>5. \A sc \in Scanners : ~Awaits(c, sc) /\ ~Awaits(Top(th), sc)
  BY <1>1, <1>4 DEF Awaits
<1>6. c.fn \notin {"schedule", "process"} /\ Top(th).fn \notin {"schedule", "process"}
  BY <1>1, <1>4
<1> QED
  BY <1>1, <1>2, <1>4, <1>5, <1>6, GoesOnOnce

LEMMA UnrefOnce ==
  ASSUME OnceInv, NEW th \in Threads, UnrefParent(th)
  PROVE  StillOnce
<1>1. /\ stack[th] # <<>> /\ Top(th).fn = "unref" /\ Return(th)
      /\ life' = [life EXCEPT ![Top(th).sbuf] = "deleted"]
      /\ UNCHANGED <<work_queue, calls, dedupe, abandoned>>
  BY DEF UnrefParent, In, dedupe
<1>2. ~LeftIn(abandoned, Top(th).sbuf)
  BY <1>1, UnabandonedTop
<1> QED
  BY <1>1, <1>2, ReturnOnce

(* One scanner is told apart from those that are still to be called.       *)
LEMMA EachScannerOnce ==
  ASSUME OnceInv, NEW th \in Threads, EachScanner(th)
  PROVE  StillOnce
<1>0. MemInv /\ LeftRight(stack, life, abandoned) /\ Alone(stack, work_queue)
  BY DEF OnceInv
<1>s. PICK s : s = Top(th).sbuf
  OBVIOUS
<1>1. /\ stack[th] # <<>> /\ Top(th).fn = "each"
      /\ UNCHANGED <<life, calls, dedupe, abandoned>>
  BY DEF EachScanner, In, dedupe
<1>2. PICK sc \in Top(th).todo :
        IF Inline
        THEN /\ stack' = [stack EXCEPT ![th] =
                            Below(th) \o <<Call("each", s, NoScanner, Top(th).todo \ {sc}),
                                           Scan(s, sc)>>]
             /\ UNCHANGED work_queue
        ELSE /\ work_queue' = Append(work_queue, Unit(s, sc))
             /\ Become(th, Call("each", s, NoScanner, Top(th).todo \ {sc}))
  BY <1>s DEF EachScanner
<1>3. /\ Top(th) \in CallType /\ s \in Sbufs /\ stack \in Stacks /\ Base(th) \in Stacks
      /\ Fewer(Base(th), stack) /\ Top(th).todo \subseteq Scanners /\ sc \in Scanners
  <2>1. CallRight(life, calls, Top(th))
    BY <1>0, <1>1, TopIs
  <2>2. Top(th).todo \subseteq Scanners
    BY <1>1, <2>1 DEF CallRight
  <2> QED
    BY <1>0, <1>1, <1>2, <1>s, <2>2, TopIs
<1>c. PICK c \in CallType : c = Call("each", s, NoScanner, Top(th).todo \ {sc})
  <2>1. Top(th).todo \ {sc} \subseteq Scanners
    BY <1>3
  <2> QED
    BY <1>3, <2>1 DEF CallType, Call
<1>e. PICK e \in CallType : e = Scan(s, sc)
  BY <1>3 DEF CallType, Scan, Call
<1>u. PICK u \in UnitType : u = Unit(s, sc)
  BY <1>3 DEF UnitType, Unit
<1>4. /\ c.sbuf = s /\ c.fn = "each" /\ c.todo = Top(th).todo \ {sc}
      /\ e.sbuf = s /\ e.fn = "scan" /\ e.scanner = sc
      /\ u.sbuf = s /\ u.scanner = sc /\ sc # NoScanner
  BY <1>3, <1>c, <1>e, <1>u, ScannersAssumption DEF Call, Scan, Unit
<1>5. /\ \A r : Top(th) \notin NewCalls(r) /\ c \notin NewCalls(r) /\ e \notin NewCalls(r)
                /\ u \notin NewUnits(r)
      /\ \A r : \A x \in Scanners :
           /\ Top(th) \in AwaitCalls(r, x) <=> r = s /\ x \in Top(th).todo
           /\ c \in AwaitCalls(r, x) <=> r = s /\ x \in Top(th).todo \ {sc}
           /\ e \in AwaitCalls(r, x) <=> r = s /\ x = sc
           /\ u \in AwaitUnits(r, x) <=> r = s /\ x = sc
  <2>1. \A r : Top(th) \notin NewCalls(r) /\ c \notin NewCalls(r) /\ e \notin NewCalls(r)
               /\ u \notin NewUnits(r)
    BY <1>1, <1>3, <1>4, CallsAre, UnitsAre
  <2>2. \A x : /\ Awaits(Top(th), x) <=> x \in Top(th).todo
               /\ Awaits(c, x) <=> x \in Top(th).todo \ {sc}
               /\ Awaits(e, x) <=> x = sc
    BY <1>1, <1>4 DEF Awaits
  <2>3. \A r : \A x :
           /\ Top(th) \in AwaitCalls(r, x) <=> Top(th).sbuf = r /\ Awaits(Top(th), x)
           /\ c \in AwaitCalls(r, x) <=> c.sbuf = r /\ Awaits(c, x)
           /\ e \in AwaitCalls(r, x) <=> e.sbuf = r /\ Awaits(e, x)
           /\ u \in AwaitUnits(r, x) <=> u.sbuf = r /\ u.scanner \in {NoScanner, x}
    BY <1>3, CallsAre, UnitsAre
  <2>4. \A x \in Scanners : u.scanner \in {NoScanner, x} <=> x = sc
    BY <1>4
  <2> QED
    BY <1>4, <1>s, <2>1, <2>2, <2>3, <2>4, Zenon
<1>6. \A r \in Sbufs : LeftIn(abandoned, r) => life[r] = "alive"
  BY <1>0 DEF LeftRight
<1>7. LeftRight(Base(th), life, abandoned)
  BY <1>0, <1>3, <1>6, LeftFewer
<1>m. PICK mid : mid = PushOn(Base(th), th, c)
  OBVIOUS
<1>8. mid \in Stacks /\ LeftRight(mid, life, abandoned)
  <2>1. PushOn(Base(th), th, c) \in Stacks
    BY <1>3, PushIs
  <2>2. LeftRight(PushOn(Base(th), th, c), life, abandoned)
    BY <1>3, <1>4, <1>6, <1>7, LeftPush
  <2> QED
    BY <1>m, <2>1, <2>2
<1>9. CASE Inline
  <2>1. stack' = PushOn(PushOn(Base(th), th, c), th, e) /\ work_queue' = work_queue
    BY <1>1, <1>2, <1>3, <1>9, <1>c, <1>e, TwoShape
  <2>2. ASSUME NEW r \in Sbufs
        PROVE  New(stack', work_queue', r) <=> New(stack, work_queue, r)
    <3>1. ~(c \in NewCalls(r) /\ e \in NewCalls(r))
      BY <1>5
    <3>2. Flows(NewCalls(r), NewUnits(r), Top(th) \in NewCalls(r),
                c \in NewCalls(r) \/ e \in NewCalls(r))
      BY <1>0, <1>1, <2>1, <3>1, TwoFlows
    <3> QED
      BY <1>5, <3>2, Zenon DEF Flows, New
  <2>3. ASSUME NEW r \in Sbufs, NEW x \in Scanners
        PROVE  /\ Waits(stack', work_queue', r, x) <=> Waits(stack, work_queue, r, x)
               /\ Single(stack', work_queue', AwaitCalls(r, x), AwaitUnits(r, x))
    <3>1. ~(c \in AwaitCalls(r, x) /\ e \in AwaitCalls(r, x))
          /\ (Top(th) \in AwaitCalls(r, x) <=> c \in AwaitCalls(r, x) \/ e \in AwaitCalls(r, x))
      BY <1>2, <1>5
    <3>2. Flows(AwaitCalls(r, x), AwaitUnits(r, x), Top(th) \in AwaitCalls(r, x),
                c \in AwaitCalls(r, x) \/ e \in AwaitCalls(r, x))
      BY <1>0, <1>1, <2>1, <3>1, TwoFlows
    <3>3. Single(stack, work_queue, AwaitCalls(r, x), AwaitUnits(r, x))
      BY <1>0 DEF Alone
    <3> QED
      BY <3>1, <3>2, <3>3, Zenon DEF Flows, Waits
  <2>4. LeftRight(stack', life', abandoned)
    <3>1. e.fn \notin {"del", "unref"}
      BY <1>4
    <3>2. LeftRight(PushOn(mid, th, e), life, abandoned)
      BY <1>6, <1>8, <3>1, LeftPush
    <3>3. life' = life
      BY <1>1
    <3> QED
      BY <1>m, <2>1, <3>2, <3>3, Zenon
  <2>5. life' = life
    BY <1>1
  <2> QED
    BY <1>1, <2>2, <2>3, <2>4, <2>5, SameOnce
<1>10. CASE ~Inline
  <2>1. Become(th, c) /\ work_queue' = Append(work_queue, u)
    BY <1>2, <1>10, <1>c, <1>u
  <2>2. stack' = PushOn(Base(th), th, c)
    BY <1>3, <2>1, ShapeIs
  <2>3. ASSUME NEW r \in Sbufs
        PROVE  New(stack', work_queue', r) <=> New(stack, work_queue, r)
    <3>1. ~(c \in NewCalls(r) /\ u \in NewUnits(r))
      BY <1>5
    <3>2. Flows(NewCalls(r), NewUnits(r), Top(th) \in NewCalls(r),
                c \in NewCalls(r) \/ u \in NewUnits(r))
      BY <1>0, <1>1, <2>1, <2>2, <3>1, SendFlows
    <3> QED
      BY <1>5, <3>2, Zenon DEF Flows, New
  <2>4. ASSUME NEW r \in Sbufs, NEW x \in Scanners
        PROVE  /\ Waits(stack', work_queue', r, x) <=> Waits(stack, work_queue, r, x)
               /\ Single(stack', work_queue', AwaitCalls(r, x), AwaitUnits(r, x))
    <3>1. ~(c \in AwaitCalls(r, x) /\ u \in AwaitUnits(r, x))
          /\ (Top(th) \in AwaitCalls(r, x) <=> c \in AwaitCalls(r, x) \/ u \in AwaitUnits(r, x))
      BY <1>2, <1>5
    <3>2. Flows(AwaitCalls(r, x), AwaitUnits(r, x), Top(th) \in AwaitCalls(r, x),
                c \in AwaitCalls(r, x) \/ u \in AwaitUnits(r, x))
      BY <1>0, <1>1, <2>1, <2>2, <3>1, SendFlows
    <3>3. Single(stack, work_queue, AwaitCalls(r, x), AwaitUnits(r, x))
      BY <1>0 DEF Alone
    <3> QED
      BY <3>1, <3>2, <3>3, Zenon DEF Flows, Waits
  <2>5. LeftRight(stack', life', abandoned) /\ life' = life
    <3>1. life' = life
      BY <1>1
    <3> QED
      BY <1>8, <1>m, <2>2, <3>1, Zenon
  <2> QED
    BY <1>1, <2>3, <2>4, <2>5, SameOnce
<1> QED
  BY <1>9, <1>10

(* A scanner makes an sbuf.                                                *)
LEMMA MakesOnce ==
  ASSUME OnceInv, NEW th \in Threads, ScanMakes(th)
  PROVE  StillOnce
<1>0. MemInv /\ LeftRight(stack, life, abandoned) /\ Alone(stack, work_queue)
  BY DEF OnceInv
<1>1. /\ stack[th] # <<>> /\ Top(th).fn = "scanning"
      /\ UNCHANGED <<calls, dedupe, abandoned>>
  BY DEF ScanMakes, In, dedupe
<1>2. PICK d \in Top(th).todo :
        /\ life[d] = "unborn"
        /\ life' = [life EXCEPT ![d] = "alive"]
        /\ IF Kind[d] = "local"
           THEN /\ stack' = [stack EXCEPT ![th] = Below(th) \o
                               <<[Top(th) EXCEPT !.todo = @ \ {d}],
                                 Call("local", d, NoScanner, {})>>]
                /\ UNCHANGED work_queue
           ELSE IF RunsInSameThread(d)
                THEN /\ stack' = [stack EXCEPT ![th] = Below(th) \o
                                    <<[Top(th) EXCEPT !.todo = @ \ {d}], Process(d)>>]
                     /\ UNCHANGED work_queue
                ELSE /\ work_queue' = Append(work_queue, Unit(d, NoScanner))
                     /\ Become(th, [Top(th) EXCEPT !.todo = @ \ {d}])
  BY DEF ScanMakes
<1>3. /\ Top(th) \in CallType /\ stack \in Stacks /\ Base(th) \in Stacks
      /\ Fewer(Base(th), stack) /\ d \in Derived /\ d \in Sbufs
  <2>1. CallRight(life, calls, Top(th))
    BY <1>0, <1>1, TopIs
  <2>2. d \in Derived
    BY <1>1, <1>2, <2>1 DEF CallRight, MadeBy
  <2> QED
    BY <1>0, <1>1, <2>2, TopIs DEF Sbufs
<1>c. PICK c \in CallType : c = [Top(th) EXCEPT !.todo = @ \ {d}]
  BY <1>3 DEF CallType
<1>4. c.fn = "scanning"
  BY <1>1, <1>3, <1>c DEF CallType
<1>e. PICK e \in CallType : e = IF Kind[d] = "local" THEN Call("local", d, NoScanner, {})
                                                     ELSE Process(d)
  BY <1>3 DEF CallType, Call, Process
<1>u. PICK u \in UnitType : u = Unit(d, NoScanner)
  BY <1>3 DEF UnitType, Unit
<1>5. /\ e.sbuf = d /\ u.sbuf = d /\ u.scanner = NoScanner
      /\ e.fn = IF Kind[d] = "local" THEN "local" ELSE "process"
  BY <1>e, <1>u DEF Call, Process, Unit
<1>6. \A r : \A x :
        /\ Top(th) \notin NewCalls(r) /\ c \notin NewCalls(r)
        /\ Top(th) \notin AwaitCalls(r, x) /\ c \notin AwaitCalls(r, x)
  <2>1. \A x : ~Awaits(Top(th), x) /\ ~Awaits(c, x)
    BY <1>1, <1>4 DEF Awaits
  <2> QED
    BY <1>1, <1>3, <1>4, <2>1, CallsAre
<1>7. /\ Kind[d] = "local" => \A r : \A x : e \notin NewCalls(r) /\ e \notin AwaitCalls(r, x)
      /\ Kind[d] # "local" => \A r : \A x : /\ e \in NewCalls(r) <=> r = d
                                            /\ e \in AwaitCalls(r, x) <=> r = d
      /\ \A r : \A x : /\ u \in NewUnits(r) <=> r = d
                       /\ u \in AwaitUnits(r, x) <=> r = d
  <2>1. ASSUME Kind[d] = "local"
        PROVE  \A r : \A x : e \notin NewCalls(r) /\ e \notin AwaitCalls(r, x)
    <3>1. \A x : ~Awaits(e, x)
      BY <1>5, <2>1 DEF Awaits
    <3> QED
      BY <1>5, <2>1, <3>1, CallsAre
  <2>2. ASSUME Kind[d] # "local"
        PROVE  \A r : \A x : /\ e \in NewCalls(r) <=> r = d
                             /\ e \in AwaitCalls(r, x) <=> r = d
    <3>1. \A x : Awaits(e, x)
      BY <1>5, <2>2 DEF Awaits
    <3> QED
      BY <1>5, <2>2, <3>1, CallsAre
  <2>3. \A r : \A x : /\ u \in NewUnits(r) <=> r = d
                      /\ u \in AwaitUnits(r, x) <=> r = d
    BY <1>5, UnitsAre
  <2> QED
    BY <2>1, <2>2, <2>3
<1>8. Absent(stack, work_queue, d)
  BY <1>0, <1>2, <1>3, NotBorn
<1>9. /\ ~Has(stack, work_queue, NewCalls(d), NewUnits(d))
      /\ \A x : ~Has(stack, work_queue, AwaitCalls(d, x), AwaitUnits(d, x))
  BY <1>8, AbsentHas
<1>10. \A r \in Sbufs : LeftIn(abandoned, r) => life[r] = "alive"
  BY <1>0 DEF LeftRight
<1>m. PICK mid : mid = PushOn(Base(th), th, c)
  OBVIOUS
<1>11. mid \in Stacks /\ LeftRight(mid, life, abandoned)
  <2>1. PushOn(Base(th), th, c) \in Stacks
    BY <1>3, PushIs
  <2>2. LeftRight(Base(th), life, abandoned)
    BY <1>0, <1>3, <1>10, LeftFewer
  <2>3. LeftRight(PushOn(Base(th), th, c), life, abandoned)
    BY <1>3, <1>4, <1>10, <2>2, LeftPush
  <2> QED
    BY <1>m, <2>1, <2>3
<1>12. \A r \in Sbufs : \A x \in Scanners :
         Single(stack, work_queue, AwaitCalls(r, x), AwaitUnits(r, x))
  BY <1>0 DEF Alone
<1>13. CASE Kind[d] = "local" \/ RunsInSameThread(d)
  <2>1. stack' = PushOn(PushOn(Base(th), th, c), th, e) /\ work_queue' = work_queue
    <3>1. stack' = [stack EXCEPT ![th] = Below(th) \o <<c, e>>] /\ work_queue' = work_queue
      BY <1>2, <1>13, <1>c, <1>e
    <3> QED
      BY <1>1, <1>3, <3>1, TwoShape
  <2>2. LeftRight(stack', life, abandoned)
    <3>1. e.fn \notin {"del", "unref"}
      BY <1>5
    <3>2. LeftRight(PushOn(mid, th, e), life, abandoned)
      BY <1>10, <1>11, <3>1, LeftPush
    <3> QED
      BY <1>m, <2>1, <3>2, Zenon
  <2>3. ASSUME NEW r \in Sbufs
        PROVE  Flows(NewCalls(r), NewUnits(r), FALSE, e \in NewCalls(r))
    <3>1. ~(c \in NewCalls(r) /\ e \in NewCalls(r))
      BY <1>6
    <3>2. Flows(NewCalls(r), NewUnits(r), Top(th) \in NewCalls(r),
                c \in NewCalls(r) \/ e \in NewCalls(r))
      BY <1>0, <1>1, <2>1, <3>1, TwoFlows
    <3> QED
      BY <1>6, <3>2, Zenon DEF Flows
  <2>4. ASSUME NEW r \in Sbufs, NEW x \in Scanners
        PROVE  Flows(AwaitCalls(r, x), AwaitUnits(r, x), FALSE, e \in AwaitCalls(r, x))
    <3>1. ~(c \in AwaitCalls(r, x) /\ e \in AwaitCalls(r, x))
      BY <1>6
    <3>2. Flows(AwaitCalls(r, x), AwaitUnits(r, x), Top(th) \in AwaitCalls(r, x),
                c \in AwaitCalls(r, x) \/ e \in AwaitCalls(r, x))
      BY <1>0, <1>1, <2>1, <3>1, TwoFlows
    <3> QED
      BY <1>6, <3>2, Zenon DEF Flows
  <2>5. CASE Kind[d] = "local"
    <3>1. \A r \in Sbufs : New(stack', work_queue', r) <=> New(stack, work_queue, r)
      BY <1>7, <2>3, <2>5, Zenon DEF Flows, New
    <3>2. \A r \in Sbufs : \A x \in Scanners :
            /\ Waits(stack', work_queue', r, x) <=> Waits(stack, work_queue, r, x)
            /\ Single(stack', work_queue', AwaitCalls(r, x), AwaitUnits(r, x))
      BY <1>7, <1>12, <2>4, <2>5, Zenon DEF Flows, Waits
    <3>3. /\ Local(d) /\ ~New(stack', work_queue', d)
          /\ \A x \in Scanners : ~Waits(stack', work_queue', d, x)
      BY <1>3, <1>9, <2>5, <3>1, <3>2 DEF Local, New, Waits
    <3> QED
      BY <1>1, <1>2, <1>3, <2>2, <3>1, <3>2, <3>3, BornOnce
  <2>6. CASE Kind[d] # "local"
    <3>1. \A r \in Sbufs : /\ r # d => (New(stack', work_queue', r) <=> New(stack, work_queue, r))
                           /\ r = d => New(stack', work_queue', r)
      BY <1>7, <2>3, <2>6, Zenon DEF Flows, New
    <3>2. \A r \in Sbufs : \A x \in Scanners :
            /\ r # d => (Waits(stack', work_queue', r, x) <=> Waits(stack, work_queue, r, x))
            /\ r = d => Waits(stack', work_queue', r, x)
            /\ Single(stack', work_queue', AwaitCalls(r, x), AwaitUnits(r, x))
      BY <1>7, <1>9, <1>12, <2>4, <2>6, Zenon DEF Flows, Waits
    <3> QED
      BY <1>1, <1>2, <1>3, <2>2, <3>1, <3>2, BornOnce
  <2> QED
    BY <2>5, <2>6
<1>14. CASE Kind[d] # "local" /\ ~RunsInSameThread(d)
  <2>1. stack' = PushOn(Base(th), th, c) /\ work_queue' = Append(work_queue, u)
    <3>1. Become(th, c) /\ work_queue' = Append(work_queue, u)
      BY <1>2, <1>14, <1>c, <1>u
    <3> QED
      BY <1>3, <3>1, ShapeIs
  <2>2. LeftRight(stack', life, abandoned)
    BY <1>11, <1>m, <2>1, Zenon
  <2>3. ASSUME NEW r \in Sbufs
        PROVE  /\ r # d => (New(stack', work_queue', r) <=> New(stack, work_queue, r))
               /\ r = d => New(stack', work_queue', r)
    <3>1. ~(c \in NewCalls(r) /\ u \in NewUnits(r))
      BY <1>6
    <3>2. Flows(NewCalls(r), NewUnits(r), Top(th) \in NewCalls(r),
                c \in NewCalls(r) \/ u \in NewUnits(r))
      BY <1>0, <1>1, <2>1, <3>1, SendFlows
    <3> QED
      BY <1>6, <1>7, <3>2, Zenon DEF Flows, New
  <2>4. ASSUME NEW r \in Sbufs, NEW x \in Scanners
        PROVE  /\ r # d => (Waits(stack', work_queue', r, x) <=> Waits(stack, work_queue, r, x))
               /\ r = d => Waits(stack', work_queue', r, x)
               /\ Single(stack', work_queue', AwaitCalls(r, x), AwaitUnits(r, x))
    <3>1. ~(c \in AwaitCalls(r, x) /\ u \in AwaitUnits(r, x))
      BY <1>6
    <3>2. Flows(AwaitCalls(r, x), AwaitUnits(r, x), Top(th) \in AwaitCalls(r, x),
                c \in AwaitCalls(r, x) \/ u \in AwaitUnits(r, x))
      BY <1>0, <1>1, <2>1, <3>1, SendFlows
    <3> QED
      BY <1>6, <1>7, <1>9, <1>12, <3>2, Zenon DEF Flows, Waits
  <2> QED
    BY <1>1, <1>2, <1>3, <2>2, <2>3, <2>4, BornOnce
<1> QED
  BY <1>13, <1>14

(* A scanner is called.                                                    *)
LEMMA ScanBeginOnce ==
  ASSUME OnceInv, NEW th \in Threads, ScanBegin(th)
  PROVE  StillOnce
<1>0. /\ MemInv /\ LeftRight(stack, life, abandoned) /\ Alone(stack, work_queue)
      /\ CalledRight(stack, work_queue, life, calls, seen_before, abandoned)
      /\ DedupeRight(stack, work_queue, life, previously_processed, seen_before)
  BY DEF OnceInv
<1>s. PICK s : s = Top(th).sbuf
  OBVIOUS
<1>c. PICK sc : sc = Top(th).scanner
  OBVIOUS
<1>1. /\ stack[th] # <<>> /\ Top(th).fn = "scan"
      /\ s \notin seen_before \/ sc \in OptIn
      /\ calls' = [calls EXCEPT ![s][sc] = @ + 1]
      /\ Become(th, Call("scanning", s, sc, MadeBy(s, sc)))
      /\ UNCHANGED <<work_queue, life, abandoned>>
      /\ previously_processed' = previously_processed /\ seen_before' = seen_before
  BY <1>s, <1>c DEF ScanBegin, In, dedupe
<1>2. /\ Top(th) \in CallType /\ s \in Sbufs /\ sc \in Scanners /\ stack \in Stacks
      /\ Base(th) \in Stacks /\ Fewer(Base(th), stack) /\ Soft(Base(th), work_queue, s)
      /\ calls \in [Sbufs -> [Scanners -> Nat]]
  <2>1. CallRight(life, calls, Top(th))
    BY <1>0, <1>1, TopIs
  <2>2. sc \in Scanners
    BY <1>1, <1>c, <2>1 DEF CallRight
  <2>3. calls \in [Sbufs -> [Scanners -> Nat]]
    BY <1>0 DEF MemInv, TypeOK
  <2> QED
    BY <1>0, <1>1, <1>s, <2>2, <2>3, TopIs
<1>k. PICK c \in CallType : c = Call("scanning", s, sc, MadeBy(s, sc))
  BY <1>2 DEF CallType, Call, MadeBy
<1>3. c.sbuf = s /\ c.fn = "scanning" /\ stack' = PushOn(Base(th), th, c)
  <2>1. Become(th, c)
    BY <1>1, <1>k
  <2> QED
    BY <1>2, <1>k, <2>1, ShapeIs DEF Call
<1>4. ASSUME NEW r \in Sbufs
      PROVE  New(stack', work_queue', r) <=> New(stack, work_queue, r)
  <2>1. Flows(NewCalls(r), NewUnits(r), Top(th) \in NewCalls(r), c \in NewCalls(r))
    BY <1>0, <1>1, <1>3, BecomeFlows
  <2>2. Top(th) \notin NewCalls(r) /\ c \notin NewCalls(r)
    BY <1>1, <1>2, <1>3, CallsAre
  <2> QED
    BY <2>1, <2>2, Zenon DEF Flows, New
<1>5. ASSUME NEW r \in Sbufs, NEW x \in Scanners
      PROVE  /\ r # s \/ x # sc =>
                  (Waits(stack', work_queue', r, x) <=> Waits(stack, work_queue, r, x))
             /\ r = s /\ x = sc => /\ Waits(stack, work_queue, r, x)
                                   /\ ~Waits(stack', work_queue', r, x)
             /\ Single(stack', work_queue', AwaitCalls(r, x), AwaitUnits(r, x))
  <2>1. Flows(AwaitCalls(r, x), AwaitUnits(r, x), Top(th) \in AwaitCalls(r, x),
              c \in AwaitCalls(r, x))
    BY <1>0, <1>1, <1>3, BecomeFlows
  <2>2. c \notin AwaitCalls(r, x) /\ (Top(th) \in AwaitCalls(r, x) <=> r = s /\ x = sc)
    <3>1. ~Awaits(c, x) /\ (Awaits(Top(th), x) <=> x = sc)
      BY <1>1, <1>3, <1>c DEF Awaits
    <3> QED
      BY <1>2, <1>3, <1>s, <3>1, CallsAre
  <2>3. Single(stack, work_queue, AwaitCalls(r, x), AwaitUnits(r, x))
    BY <1>0 DEF Alone
  <2> QED
    BY <2>1, <2>2, <2>3, Zenon DEF Flows, Waits
<1>6. ~New(stack, work_queue, s)
  <2>1. ~Has(Base(th), work_queue, NewCalls(s), NewUnits(s))
    BY <1>2 DEF Soft, Has, NewCalls, NewUnits, SoleCalls
  <2>2. Top(th) \notin NewCalls(s)
    BY <1>1, <1>2, CallsAre
  <2> QED
    BY <1>1, <1>2, <2>1, <2>2, TopHas DEF New
<1>7. calls[s][sc] = 0 /\ ~TooDeep(s)
  <2>1. Waits(stack, work_queue, s, sc)
    BY <1>2, <1>5
  <2> QED
    BY <1>0, <1>2, <1>6, <2>1 DEF CalledRight
<1>8. /\ calls'[s][sc] = 1
      /\ \A r \in Sbufs : \A x \in Scanners : r # s \/ x # sc => calls'[r][x] = calls[r][x]
  BY <1>1, <1>2, <1>7
<1>9. CalledRight(stack', work_queue', life', calls', seen_before', abandoned')
  <2>1. ASSUME NEW r \in Sbufs, NEW x \in Scanners
        PROVE  /\ calls'[r][x] \in {0, 1}
               /\ Waits(stack', work_queue', r, x) => calls'[r][x] = 0
               /\ calls'[r][x] = 1 => ~TooDeep(r) /\ (r \notin seen_before \/ x \in OptIn)
               /\ TooDeep(r) /\ Waits(stack', work_queue', r, x) => New(stack', work_queue', r)
               /\ life[r] # "unborn" /\ ~TooDeep(r) /\ ~Local(r) /\ ~LeftIn(abandoned, r) =>
                    Waits(stack', work_queue', r, x) \/ Settled(calls', seen_before, r, x)
    <3>1. CASE r = s /\ x = sc
      BY <1>1, <1>5, <1>7, <1>8, <3>1 DEF Settled
    <3>2. CASE r # s \/ x # sc
      <4>1. /\ calls[r][x] \in {0, 1}
            /\ Waits(stack, work_queue, r, x) => calls[r][x] = 0
            /\ calls[r][x] = 1 => ~TooDeep(r) /\ (r \notin seen_before \/ x \in OptIn)
            /\ TooDeep(r) /\ Waits(stack, work_queue, r, x) => New(stack, work_queue, r)
            /\ life[r] # "unborn" /\ ~TooDeep(r) /\ ~Local(r) /\ ~LeftIn(abandoned, r) =>
                 Waits(stack, work_queue, r, x) \/ Settled(calls, seen_before, r, x)
        BY <1>0 DEF CalledRight
      <4>2. Settled(calls', seen_before, r, x) <=> Settled(calls, seen_before, r, x)
        BY <1>8, <3>2 DEF Settled
      <4> QED
        BY <1>4, <1>5, <1>8, <3>2, <4>1, <4>2
    <3> QED
      BY <3>1, <3>2
  <2>2. CalledRight(stack', work_queue', life, calls', seen_before, abandoned)
    BY <2>1 DEF CalledRight
  <2> QED
    BY <1>1, <2>2
<1>10. DedupeRight(stack', work_queue', life', previously_processed', seen_before')
  <2>1. \A r \in Sbufs : Past(stack', work_queue', life, r) <=> Past(stack, work_queue, life, r)
    BY <1>4 DEF Past
  <2>2. seen_before \subseteq Sbufs
    BY <1>0 DEF MemInv, TypeOK
  <2>3. DedupeRight(stack', work_queue', life, previously_processed, seen_before)
    BY <1>0, <2>1, <2>2 DEF DedupeRight
  <2> QED
    BY <1>1, <2>3
<1>11. Alone(stack', work_queue')
  BY <1>5 DEF Alone
<1>12. LeftRight(stack', life', abandoned')
  <2>1. \A r \in Sbufs : LeftIn(abandoned, r) => life[r] = "alive"
    BY <1>0 DEF LeftRight
  <2>2. LeftRight(Base(th), life, abandoned)
    BY <1>0, <1>2, <2>1, LeftFewer
  <2>3. LeftRight(PushOn(Base(th), th, c), life, abandoned)
    BY <1>2, <1>3, <2>1, <2>2, LeftPush
  <2> QED
    BY <1>1, <1>3, <2>3, Zenon
<1> QED
  BY <1>9, <1>10, <1>11, <1>12 DEF StillOnce

(* An exception leaves what it passes, or the thread is out of calls.      *)
LEMMA ThrowDrops ==
  ASSUME OnceInv, NEW th \in Threads, stack[th] # <<>>,
         Top(th).fn = "scanning" \/ (Top(th).fn = "process" /\ TooDeep(Top(th).sbuf)),
         NEW k \in 0..(Len(stack[th]) - 1), NEW m \in 0..k,
         \A j \in (m + 1)..k : stack[th][j].fn = "scanning",
         NEW rest, rest = CutTo(stack, th, m),
         \/ stack' = rest
         \/ \E c \in CallType : c.fn = "release" /\ stack' = PushOn(rest, th, c),
         abandoned' = abandoned \o SbufsAbove(stack[th], k),
         UNCHANGED <<work_queue, life, calls, dedupe>>
  PROVE  StillOnce
<1>0. /\ MemInv /\ LeftRight(stack, life, abandoned) /\ Alone(stack, work_queue)
  BY DEF OnceInv
<1>1. /\ stack \in Stacks /\ abandoned \in Seq(Sbufs) /\ work_queue \in Seq(UnitType)
      /\ Len(stack[th]) \in Nat \ {0} /\ stack[th] \in Seq(CallType)
      /\ Top(th) = stack[th][Len(stack[th])] /\ Top(th) \in CallType
      /\ Base(th) \in Stacks /\ Fewer(Base(th), stack)
      /\ k \in 0..Len(stack[th]) /\ m \in 0..Len(stack[th])
  <2>1. /\ stack \in Stacks /\ abandoned \in Seq(Sbufs) /\ work_queue \in Seq(UnitType)
        /\ Base(th) \in Stacks /\ Fewer(Base(th), stack) /\ Top(th) \in CallType
    BY <1>0, TopIs
  <2>2. /\ Len(stack[th]) \in Nat \ {0} /\ stack[th] \in Seq(CallType)
        /\ Top(th) = stack[th][Len(stack[th])]
    BY <2>1, BelowIs DEF Stacks
  <2> QED
    BY <2>1, <2>2
<1>2. /\ rest \in Stacks /\ Fewer(rest, stack) /\ Len(rest[th]) = m
      /\ \A i \in 1..m : rest[th][i] = stack[th][i]
      /\ \A t \in Threads \ {th} : rest[t] = stack[t]
  BY <1>1, CutIs
<1>3. Fewer(rest, Base(th))
  <2>k. PICK n : n = Len(stack[th]) - 1
    OBVIOUS
  <2>1. n \in 0..Len(stack[th]) /\ Base(th) = CutTo(stack, th, n) /\ m <= n
    BY <1>1, <2>k DEF Base
  <2>2. /\ Len(Base(th)[th]) = n /\ \A i \in 1..n : Base(th)[th][i] = stack[th][i]
        /\ \A t \in Threads \ {th} : Base(th)[t] = stack[t]
    BY <1>1, <2>1, CutIs
  <2>3. ASSUME NEW t \in Threads, NEW i \in 1..Len(rest[t])
        PROVE  i \in 1..Len(Base(th)[t]) /\ rest[t][i] = Base(th)[t][i]
    <3>1. CASE t = th
      <4>1. i \in 1..m /\ i \in 1..n
        BY <1>2, <2>1, <3>1
      <4> QED
        BY <1>2, <2>2, <3>1, <4>1
    <3>2. CASE t # th
      BY <1>2, <2>2, <3>2
    <3> QED
      BY <3>1, <3>2
  <2> QED
    BY <2>3 DEF Fewer
<1>4. ASSUME NEW C, NEW U, \A c \in C : c.fn \notin {"release", "scanning"}
      PROVE  /\ Has(stack', work_queue', C, U) => Has(stack, work_queue, C, U)
             /\ Has(stack, work_queue, C, U) =>
                  \/ Has(stack', work_queue', C, U)
                  \/ \E j \in (k + 1)..Len(stack[th]) : stack[th][j] \in C
             /\ Single(stack, work_queue, C, U) =>
                  /\ Single(stack', work_queue', C, U)
                  /\ Top(th) \in C => ~Has(stack', work_queue', C, U)
  <2>1. /\ Has(stack', work_queue, C, U) <=> Has(rest, work_queue, C, U)
        /\ Single(rest, work_queue, C, U) => Single(stack', work_queue, C, U)
    <3>1. CASE stack' = rest
      BY <3>1
    <3>2. ASSUME NEW c \in CallType, c.fn = "release", stack' = PushOn(rest, th, c)
          PROVE  /\ Has(stack', work_queue, C, U) <=> Has(rest, work_queue, C, U)
                 /\ Single(rest, work_queue, C, U) => Single(stack', work_queue, C, U)
      <4>1. c \notin C
        BY <1>4, <3>2
      <4>2. /\ Has(PushOn(rest, th, c), work_queue, C, U) <=> Has(rest, work_queue, C, U)
            /\ Single(rest, work_queue, C, U) => Single(PushOn(rest, th, c), work_queue, C, U)
        BY <1>2, <4>1, PushHas
      <4> QED
        BY <3>2, <4>2, Zenon
    <3> QED
      BY <3>1, <3>2
  <2>2. /\ Has(rest, work_queue, C, U) => Has(stack, work_queue, C, U)
        /\ Single(stack, work_queue, C, U) => Single(rest, work_queue, C, U)
    BY <1>1, <1>2, FewerHas
  <2>3. Single(stack, work_queue, C, U) /\ Top(th) \in C => ~Has(rest, work_queue, C, U)
    <3>1. Has(rest, work_queue, C, U) => Has(Base(th), work_queue, C, U)
      BY <1>1, <1>2, <1>3, FewerHas
    <3>2. Single(stack, work_queue, C, U) /\ Top(th) \in C => ~Has(Base(th), work_queue, C, U)
      BY <1>1, TopHas
    <3> QED
      BY <3>1, <3>2
  <2>4. ASSUME NEW t \in Threads, NEW i \in 1..Len(stack[t]), stack[t][i] \in C
        PROVE  \/ Has(rest, work_queue, C, U)
               \/ \E j \in (k + 1)..Len(stack[th]) : stack[th][j] \in C
    <3>1. CASE t # th
      BY <1>2, <2>4, <3>1 DEF Has
    <3>2. CASE t = th /\ i \in 1..m
      BY <1>2, <2>4, <3>2 DEF Has
    <3>3. CASE t = th /\ i \in (m + 1)..k
      BY <1>4, <2>4, <3>3
    <3>4. CASE t = th /\ i \in (k + 1)..Len(stack[th])
      BY <2>4, <3>4
    <3>5. t = th => i \in 1..m \/ i \in (m + 1)..k \/ i \in (k + 1)..Len(stack[th])
      BY <1>1
    <3> QED
      BY <3>1, <3>2, <3>3, <3>4, <3>5
  <2>5. Has(stack, work_queue, C, U) =>
          \/ Has(rest, work_queue, C, U)
          \/ \E j \in (k + 1)..Len(stack[th]) : stack[th][j] \in C
    BY <2>4 DEF Has
  <2>6. work_queue' = work_queue
    OBVIOUS
  <2> QED
    BY <2>1, <2>2, <2>3, <2>5, <2>6, Zenon
<1>5. ASSUME NEW j \in (k + 1)..Len(stack[th])
      PROVE  /\ stack[th][j].fn \in {"process", "each", "scanning"}
             /\ stack[th][j].fn = "process" => j = Len(stack[th])
             /\ stack[th][j] \in CallType /\ CallRight(life, calls, stack[th][j])
             /\ j \in 1..Len(stack[th])
  <2>1. j \in 1..Len(stack[th])
    BY <1>1
  <2>2. stack[th][j] \in CallType /\ CallRight(life, calls, stack[th][j])
    BY <1>0, <1>1, <2>1 DEF MemInv, Control, AllRight
  <2>3. CASE j = Len(stack[th])
    BY <1>1, <2>1, <2>2, <2>3
  <2>4. CASE j # Len(stack[th])
    <3>1. j \in 1..(Len(stack[th]) - 1)
      BY <1>1, <2>1, <2>4
    <3>2. stack[th][j].fn \in WaitingCalls
      BY <1>0, <3>1 DEF MemInv, Control, Waiting
    <3> QED
      BY <2>1, <2>2, <3>2 DEF WaitingCalls
  <2> QED
    BY <2>3, <2>4
<1>6. \A s : LeftIn(abandoned', s) <=>
               \/ LeftIn(abandoned, s)
               \/ \E j \in (k + 1)..Len(stack[th]) : stack[th][j].sbuf = s
  BY <1>1, AbandonedAre
<1>7. /\ \A s : \A c \in NewCalls(s) : c.fn \notin {"release", "scanning"} /\ c.sbuf = s
                                       /\ c.fn \in {"schedule", "process"}
      /\ \A s : \A sc : \A c \in AwaitCalls(s, sc) :
           c.fn \notin {"release", "scanning"} /\ c.sbuf = s
  BY DEF NewCalls, AwaitCalls, Awaits
<1>8. ASSUME NEW s \in Sbufs PROVE Onward(s)
  <2>1. New(stack', work_queue', s) => New(stack, work_queue, s)
    BY <1>4, <1>7 DEF New
  <2>2. ASSUME New(stack, work_queue, s)
        PROVE  \/ New(stack', work_queue', s)
               \/ TooDeep(s) /\ \A sc \in Scanners : ~Waits(stack', work_queue', s, sc)
    <3> SUFFICES ASSUME ~New(stack', work_queue', s)
                 PROVE  TooDeep(s) /\ \A sc \in Scanners : ~Waits(stack', work_queue', s, sc)
      OBVIOUS
    <3>1. \E j \in (k + 1)..Len(stack[th]) : stack[th][j] \in NewCalls(s)
      BY <1>4, <1>7, <2>2 DEF New
    <3>2. PICK j \in (k + 1)..Len(stack[th]) : stack[th][j] \in NewCalls(s)
      BY <3>1
    <3>3. stack[th][j].fn = "process" /\ stack[th][j].sbuf = s
      BY <1>5, <1>7, <3>2
    <3>4. stack[th][j] = Top(th)
      BY <1>1, <1>5, <3>3
    <3>5. TooDeep(s)
      BY <3>3, <3>4
    <3>6. ASSUME NEW sc \in Scanners PROVE ~Waits(stack', work_queue', s, sc)
      <4>1. Top(th) \in AwaitCalls(s, sc)
        BY <1>1, <3>3, <3>4, CallsAre DEF Awaits
      <4>2. Single(stack, work_queue, AwaitCalls(s, sc), AwaitUnits(s, sc))
        BY <1>0 DEF Alone
      <4>3. \A c \in AwaitCalls(s, sc) : c.fn \notin {"release", "scanning"}
        BY <1>7
      <4> QED
        BY <1>4, <4>1, <4>2, <4>3 DEF Waits
    <3> QED
      BY <3>5, <3>6
  <2>3. ASSUME NEW sc \in Scanners
        PROVE  /\ Waits(stack', work_queue', s, sc) => Waits(stack, work_queue, s, sc)
               /\ Waits(stack, work_queue, s, sc) =>
                    Waits(stack', work_queue', s, sc) \/ LeftIn(abandoned', s)
    <3>1. \A c \in AwaitCalls(s, sc) : c.fn \notin {"release", "scanning"} /\ c.sbuf = s
      BY <1>7
    <3>2. /\ Waits(stack', work_queue', s, sc) => Waits(stack, work_queue, s, sc)
          /\ Waits(stack, work_queue, s, sc) =>
               \/ Waits(stack', work_queue', s, sc)
               \/ \E j \in (k + 1)..Len(stack[th]) : stack[th][j] \in AwaitCalls(s, sc)
      BY <1>4, <3>1 DEF Waits
    <3> QED
      BY <1>6, <3>1, <3>2
  <2>4. (LeftIn(abandoned, s) => LeftIn(abandoned', s)) /\ life' = life
    BY <1>6
  <2> QED
    BY <2>1, <2>2, <2>3, <2>4 DEF Onward
<1>9. Alone(stack', work_queue')
  <2>1. ASSUME NEW s \in Sbufs, NEW sc \in Scanners
        PROVE  Single(stack', work_queue', AwaitCalls(s, sc), AwaitUnits(s, sc))
    <3>1. Single(stack, work_queue, AwaitCalls(s, sc), AwaitUnits(s, sc))
      BY <1>0 DEF Alone
    <3>2. \A c \in AwaitCalls(s, sc) : c.fn \notin {"release", "scanning"}
      BY <1>7
    <3> QED
      BY <1>4, <3>1, <3>2
  <2> QED
    BY <2>1 DEF Alone
<1>10. LeftRight(stack, life, abandoned')
  <2>1. ASSUME NEW s \in Sbufs, NEW j \in (k + 1)..Len(stack[th]), stack[th][j].sbuf = s
        PROVE  /\ life[s] = "alive" /\ ~Local(s)
               /\ \A t \in Threads : \A i \in 1..Len(stack[t]) :
                    stack[t][i].sbuf = s => stack[t][i].fn \notin {"del", "unref"}
    <3>1. life[s] = "alive" /\ ~Local(s)
      BY <1>5, <2>1 DEF CallRight
    <3>2. ASSUME NEW t \in Threads, NEW i \in 1..Len(stack[t]), stack[t][i].sbuf = s,
                 stack[t][i].fn \in {"del", "unref"}
          PROVE  FALSE
      <4>1. th = t /\ j = i
        BY <1>0, <1>5, <2>1, <3>2 DEF MemInv, Control, Sole, SoleCalls
      <4> QED
        BY <1>5, <3>2, <4>1
    <3> QED
      BY <3>1, <3>2
  <2>2. ASSUME NEW s \in Sbufs, LeftIn(abandoned', s)
        PROVE  /\ life[s] = "alive" /\ ~Local(s)
               /\ \A t \in Threads : \A i \in 1..Len(stack[t]) :
                    stack[t][i].sbuf = s => stack[t][i].fn \notin {"del", "unref"}
    <3>1. CASE LeftIn(abandoned, s)
      BY <1>0, <3>1 DEF LeftRight
    <3>2. CASE \E j \in (k + 1)..Len(stack[th]) : stack[th][j].sbuf = s
      BY <2>1, <3>2
    <3> QED
      BY <1>6, <2>2, <3>1, <3>2
  <2> QED
    BY <2>2 DEF LeftRight
<1>11. LeftRight(stack', life', abandoned')
  <2>1. \A s \in Sbufs : LeftIn(abandoned', s) => life[s] = "alive"
    BY <1>10 DEF LeftRight
  <2>2. LeftRight(rest, life, abandoned')
    BY <1>1, <1>2, <1>10, <2>1, LeftFewer
  <2>3. CASE stack' = rest
    BY <2>2, <2>3
  <2>4. ASSUME NEW c \in CallType, c.fn = "release", stack' = PushOn(rest, th, c)
        PROVE  LeftRight(stack', life', abandoned')
    <3>1. LeftRight(PushOn(rest, th, c), life, abandoned')
      BY <1>2, <2>1, <2>2, <2>4, LeftPush
    <3>2. life' = life
      OBVIOUS
    <3> QED
      BY <2>4, <3>1, <3>2, Zenon
  <2> QED
    BY <2>3, <2>4
<1>12. UNCHANGED <<calls, dedupe>>
  OBVIOUS
<1> QED
  BY <1>8, <1>9, <1>11, <1>12, OnwardOnce

LEMMA ThrowOnce ==
  ASSUME OnceInv, NEW th \in Threads, stack[th] # <<>>,
         Top(th).fn = "scanning" \/ (Top(th).fn = "process" /\ TooDeep(Top(th).sbuf)),
         Throw(th)
  PROVE  StillOnce
<1>1. /\ stack \in Stacks /\ stack[th] \in Seq(CallType) /\ Len(stack[th]) \in Nat \ {0}
      /\ UNCHANGED <<work_queue, life, calls, dedupe>>
  <2>1. stack \in Stacks
    BY TypedStacks DEF OnceInv, MemInv
  <2>2. stack[th] \in Seq(CallType) /\ Len(stack[th]) \in Nat \ {0}
    BY <2>1, BelowIs DEF Stacks
  <2> QED
    BY <2>1, <2>2 DEF Throw, dedupe
<1>2. CASE Catchers(th) # {}
  <2>1. PICK i \in Catchers(th) :
          /\ stack' = [stack EXCEPT ![th] =
                         Append(SubSeq(stack[th], 1, i - 1),
                                Call("release", stack[th][i].sbuf, NoScanner, {}))]
          /\ abandoned' = abandoned \o SbufsAbove(stack[th], i)
    BY <1>2, Zenon DEF Throw, Unwind, SbufsAbove
  <2>2. /\ i \in 1..Len(stack[th]) /\ i \in 0..(Len(stack[th]) - 1) /\ i > 0
        /\ stack[th][i].fn = "scanning"
    BY <1>1, <2>1 DEF Catchers
  <2>m. PICK m \in Nat : m = i - 1 /\ m + 1 = i /\ m \in 0..i
    <3>1. i - 1 \in Nat /\ (i - 1) + 1 = i /\ i - 1 \in 0..i
      BY <1>1, <2>2
    <3> QED
      BY <3>1
  <2>c. PICK c : c = Call("release", stack[th][i].sbuf, NoScanner, {})
    OBVIOUS
  <2>3. c \in CallType /\ c.fn = "release"
    <3>1. stack[th][i] \in CallType
      BY <1>1, <2>2
    <3>2. stack[th][i].sbuf \in Sbufs
      BY <3>1 DEF CallType
    <3> QED
      BY <2>c, <3>2 DEF CallType, Call
  <2>r. PICK rest : rest = CutTo(stack, th, m)
    OBVIOUS
  <2>4. stack' = PushOn(rest, th, c)
    <3>1. CutTo(stack, th, m)[th] = SubSeq(stack[th], 1, m)
      BY <1>1 DEF CutTo, Stacks
    <3> QED
      BY <1>1, <2>1, <2>m, <2>c, <2>r, <3>1 DEF CutTo, PushOn
  <2>5. \A j \in (m + 1)..i : stack[th][j].fn = "scanning"
    <3>1. \A j \in (m + 1)..i : j = i
      BY <2>2, <2>m
    <3> QED
      BY <2>2, <3>1
  <2>6. \E c1 \in CallType : c1.fn = "release" /\ stack' = PushOn(rest, th, c1)
    BY <2>3, <2>4
  <2>7. i \in 0..(Len(stack[th]) - 1) /\ m \in 0..i
    BY <2>2, <2>m
  <2>8. abandoned' = abandoned \o SbufsAbove(stack[th], i)
    BY <2>1
  <2> HIDE DEF Catchers
  <2> QED
    BY <1>1, <2>r, <2>5, <2>6, <2>7, <2>8, ThrowDrops
<1>3. CASE Catchers(th) = {} /\ th = Main
  <2>1. /\ stack' = [stack EXCEPT ![th] = <<>>]
        /\ abandoned' = abandoned \o SbufsAbove(stack[th], 0)
    BY <1>3, Zenon DEF Throw, Unwind, SbufsAbove
  <2>2. 0 \in 0..(Len(stack[th]) - 1) /\ 0 \in 0..0
        /\ \A j \in (0 + 1)..0 : stack[th][j].fn = "scanning"
    BY <1>1
  <2>r. PICK rest : rest = CutTo(stack, th, 0)
    OBVIOUS
  <2>3. stack' = rest
    <3>1. SubSeq(stack[th], 1, 0) = <<>>
      BY <1>1
    <3> QED
      BY <2>1, <2>r, <3>1 DEF CutTo
  <2> QED
    BY <1>1, <2>1, <2>2, <2>r, <2>3, ThrowDrops
<1>4. CASE Catchers(th) = {} /\ th # Main
  <2>1. UNCHANGED <<stack, work_queue, life, calls, dedupe, abandoned>>
    BY <1>1, <1>4 DEF Throw
  <2> QED
    BY <2>1, NothingOnce
<1> QED
  BY <1>2, <1>3, <1>4

(* process_sbuf remembers the contents it meets.                           *)
LEMMA BeginOnce ==
  ASSUME OnceInv, NEW th \in Threads, ProcessBegin(th)
  PROVE  StillOnce
<1>0. /\ MemInv /\ LeftRight(stack, life, abandoned) /\ Alone(stack, work_queue)
      /\ CalledRight(stack, work_queue, life, calls, seen_before, abandoned)
      /\ DedupeRight(stack, work_queue, life, previously_processed, seen_before)
      /\ seen_before \subseteq Sbufs
  BY DEF OnceInv, MemInv, TypeOK
<1>s. PICK s : s = Top(th).sbuf
  OBVIOUS
<1>d. PICK dup \in BOOLEAN : dup <=> (Legacy /\ Seen(s))
  OBVIOUS
<1>1. /\ stack[th] # <<>> /\ Top(th).fn = "process"
      /\ UNCHANGED <<work_queue, life, calls, abandoned>>
  BY DEF ProcessBegin, In
<1>2. /\ Top(th) \in CallType /\ s \in Sbufs /\ stack \in Stacks
      /\ Base(th) \in Stacks /\ Fewer(Base(th), stack) /\ CallRight(life, calls, Top(th))
      /\ Absent(Base(th), work_queue, s)
  BY <1>0, <1>1, <1>s, TopIs DEF SoleCalls
<1>3. ~TooDeep(s) /\ life[s] = "alive" /\ NotScanned(calls, s) /\ ~Local(s)
  <2>1. Asserted(s)
    BY <1>0, <1>1, <1>s, ProcessAsserted
  <2> QED
    BY <1>1, <1>2, <1>s, <2>1 DEF ProcessBegin, CallRight
<1>4. /\ previously_processed' = previously_processed \union {Content[s]}
      /\ seen_before' = seen_before \union IF dup THEN {s} ELSE {}
      /\ IF dup /\ OptIn = {} THEN BecomeRelease(th)
                              ELSE Become(th, Call("each", s, NoScanner, Scanners))
  <2>1. Asserted(s)
    BY <1>0, <1>1, <1>s, ProcessAsserted
  <2> QED
    BY <1>d, <1>s, <2>1 DEF ProcessBegin, Recall
<1>c. PICK c : c = IF dup /\ OptIn = {} THEN Call("release", s, NoScanner, {})
                                        ELSE Call("each", s, NoScanner, Scanners)
  OBVIOUS
<1>5. /\ c \in CallType /\ c.sbuf = s /\ c.fn \in {"release", "each"}
      /\ c.fn = "each" <=> ~(dup /\ OptIn = {})
      /\ c.fn = "each" => c.todo = Scanners
  BY <1>2, <1>c DEF CallType, Call
<1>6. stack' = PushOn(Base(th), th, c)
  <2>1. Become(th, c)
    BY <1>4, <1>c, <1>s DEF BecomeRelease
  <2> QED
    BY <1>2, <2>1, ShapeIs
<1>7. /\ New(stack, work_queue, s) /\ ~New(stack', work_queue', s)
      /\ \A r \in Sbufs : r # s => (New(stack', work_queue', r) <=> New(stack, work_queue, r))
  <2>1. \A r : Flows(NewCalls(r), NewUnits(r), Top(th) \in NewCalls(r), c \in NewCalls(r))
    BY <1>0, <1>1, <1>5, <1>6, BecomeFlows
  <2>2. \A r : c \notin NewCalls(r) /\ (Top(th) \in NewCalls(r) <=> r = s)
    BY <1>1, <1>2, <1>s, <1>5, CallsAre
  <2>3. ~Has(stack', work_queue', NewCalls(s), NewUnits(s))
    <3>1. ~Has(Base(th), work_queue, NewCalls(s), NewUnits(s))
      BY <1>2, AbsentHas
    <3>2. ~Has(PushOn(Base(th), th, c), work_queue, NewCalls(s), NewUnits(s))
      BY <1>2, <1>5, <2>2, <3>1, PushHas
    <3>3. work_queue' = work_queue
      BY <1>1
    <3> QED
      BY <1>6, <3>2, <3>3, Zenon
  <2>4. Has(stack, work_queue, NewCalls(s), NewUnits(s))
    BY <2>1, <2>2, Zenon DEF Flows
  <2>5. ASSUME NEW r \in Sbufs, r # s
        PROVE  New(stack', work_queue', r) <=> New(stack, work_queue, r)
    BY <2>1, <2>2, <2>5, Zenon DEF Flows, New
  <2> QED
    BY <2>3, <2>4, <2>5 DEF New
<1>8. ASSUME NEW r \in Sbufs, NEW x \in Scanners
      PROVE  /\ r # s => (Waits(stack', work_queue', r, x) <=> Waits(stack, work_queue, r, x))
             /\ r = s => (Waits(stack', work_queue', r, x) <=> c.fn = "each")
             /\ Single(stack', work_queue', AwaitCalls(r, x), AwaitUnits(r, x))
  <2>1. Flows(AwaitCalls(r, x), AwaitUnits(r, x), Top(th) \in AwaitCalls(r, x),
              c \in AwaitCalls(r, x))
    BY <1>0, <1>1, <1>5, <1>6, BecomeFlows
  <2>2. /\ Top(th) \in AwaitCalls(r, x) <=> r = s
        /\ c \in AwaitCalls(r, x) <=> r = s /\ c.fn = "each"
    <3>1. Awaits(Top(th), x) /\ (Awaits(c, x) <=> c.fn = "each")
      BY <1>1, <1>5 DEF Awaits
    <3> QED
      BY <1>2, <1>s, <1>5, <3>1, CallsAre
  <2>3. Single(stack, work_queue, AwaitCalls(r, x), AwaitUnits(r, x))
    BY <1>0 DEF Alone
  <2> QED
    BY <2>1, <2>2, <2>3, Zenon DEF Flows, Waits
<1>9. s \notin seen_before /\ ~Past(stack, work_queue, life, s)
  <2>1. ~Past(stack, work_queue, life, s)
    BY <1>7 DEF Past
  <2> QED
    BY <1>0, <2>1 DEF DedupeRight
<1>10. /\ \A r \in Sbufs : r # s => (r \in seen_before' <=> r \in seen_before)
       /\ s \in seen_before' <=> dup
  BY <1>4, <1>9
<1>11. CalledRight(stack', work_queue', life, calls, seen_before', abandoned)
  <2>1. ASSUME NEW r \in Sbufs, NEW x \in Scanners
        PROVE  /\ calls[r][x] \in {0, 1}
               /\ Waits(stack', work_queue', r, x) => calls[r][x] = 0
               /\ calls[r][x] = 1 => ~TooDeep(r) /\ (r \notin seen_before' \/ x \in OptIn)
               /\ TooDeep(r) /\ Waits(stack', work_queue', r, x) => New(stack', work_queue', r)
               /\ life[r] # "unborn" /\ ~TooDeep(r) /\ ~Local(r) /\ ~LeftIn(abandoned, r) =>
                    Waits(stack', work_queue', r, x) \/ Settled(calls, seen_before', r, x)
    <3>1. /\ calls[r][x] \in {0, 1}
          /\ Waits(stack, work_queue, r, x) => calls[r][x] = 0
          /\ calls[r][x] = 1 => ~TooDeep(r) /\ (r \notin seen_before \/ x \in OptIn)
          /\ TooDeep(r) /\ Waits(stack, work_queue, r, x) => New(stack, work_queue, r)
          /\ life[r] # "unborn" /\ ~TooDeep(r) /\ ~Local(r) /\ ~LeftIn(abandoned, r) =>
               Waits(stack, work_queue, r, x) \/ Settled(calls, seen_before, r, x)
      BY <1>0 DEF CalledRight
    <3>2. CASE r = s
      <4>1. calls[s][x] = 0
        BY <1>3 DEF NotScanned
      <4>2. Waits(stack', work_queue', s, x) \/ Settled(calls, seen_before', s, x)
        BY <1>2, <1>5, <1>8, <1>10 DEF Settled
      <4> QED
        BY <1>3, <3>2, <4>1, <4>2
    <3>3. CASE r # s
      <4>1. Settled(calls, seen_before', r, x) <=> Settled(calls, seen_before, r, x)
        BY <1>10, <3>3 DEF Settled
      <4> QED
        BY <1>7, <1>8, <1>10, <3>1, <3>3, <4>1
    <3> QED
      BY <3>2, <3>3
  <2> QED
    BY <2>1 DEF CalledRight
<1>12. \A r \in Sbufs : Past(stack', work_queue', life, r) <=>
                          Past(stack, work_queue, life, r) \/ r = s
  BY <1>3, <1>7 DEF Past
<1>13. DedupeRight(stack', work_queue', life, previously_processed', seen_before')
  <2>1. \A r \in Sbufs : Past(stack', work_queue', life, r) /\ Scannable(r) =>
          Content[r] \in previously_processed'
    BY <1>0, <1>4, <1>12 DEF DedupeRight
  <2>2. \A r \in seen_before' : Past(stack', work_queue', life, r)
                                /\ Content[r] \in previously_processed'
    <3>1. ASSUME NEW r \in seen_before', r # s
          PROVE  Past(stack', work_queue', life, r) /\ Content[r] \in previously_processed'
      <4>1. r \in seen_before /\ r \in Sbufs
        BY <1>0, <1>4, <3>1
      <4> QED
        BY <1>0, <1>4, <1>12, <4>1 DEF DedupeRight
    <3>2. Past(stack', work_queue', life, s) /\ Content[s] \in previously_processed'
      BY <1>2, <1>4, <1>12
    <3> QED
      BY <3>1, <3>2
  <2>3. ASSUME NEW y \in previously_processed'
        PROVE  \E r \in Sbufs \ seen_before' :
                 Past(stack', work_queue', life, r) /\ Content[r] = y
    <3>1. CASE y \in previously_processed
      <4>1. PICK r \in Sbufs \ seen_before :
              Past(stack, work_queue, life, r) /\ Content[r] = y
        BY <1>0, <3>1 DEF DedupeRight
      <4>2. r # s
        BY <1>9, <4>1
      <4> QED
        BY <1>10, <1>12, <4>1, <4>2
    <3>2. CASE y \notin previously_processed
      <4>1. y = Content[s] /\ ~Seen(s)
        BY <1>4, <3>2 DEF Seen
      <4>2. s \notin seen_before'
        BY <1>d, <1>10, <4>1
      <4> QED
        BY <1>2, <1>12, <4>1, <4>2
    <3> QED
      BY <3>1, <3>2
  <2>4. ASSUME Legacy, NEW r \in Sbufs \ seen_before', NEW q \in Sbufs \ seen_before',
               Past(stack', work_queue', life, r), Scannable(r),
               Past(stack', work_queue', life, q), Scannable(q), Content[r] = Content[q]
        PROVE  r = q
    <3>1. ASSUME NEW z \in Sbufs, z # s, Past(stack', work_queue', life, z), Scannable(z),
                 Content[z] = Content[s]
          PROVE  s \in seen_before'
      <4>1. Past(stack, work_queue, life, z)
        BY <1>12, <3>1
      <4>2. Content[s] \in previously_processed
        BY <1>0, <3>1, <4>1 DEF DedupeRight
      <4> QED
        BY <1>d, <1>10, <2>4, <4>2 DEF Seen
    <3>2. CASE r # s /\ q # s
      <4>1. r \in Sbufs \ seen_before /\ q \in Sbufs \ seen_before
        BY <1>10, <3>2
      <4> QED
        BY <1>0, <1>12, <2>4, <3>2, <4>1 DEF DedupeRight
    <3>3. CASE r = s \/ q = s
      BY <2>4, <3>1, <3>3
    <3> QED
      BY <3>2, <3>3
  <2> QED
    BY <2>1, <2>2, <2>3, <2>4 DEF DedupeRight
<1>14. Alone(stack', work_queue')
  BY <1>8 DEF Alone
<1>15. LeftRight(stack', life, abandoned)
  <2>1. \A r \in Sbufs : LeftIn(abandoned, r) => life[r] = "alive"
    BY <1>0 DEF LeftRight
  <2>2. LeftRight(Base(th), life, abandoned)
    BY <1>0, <1>2, <2>1, LeftFewer
  <2>3. c.fn \notin {"del", "unref"}
    BY <1>5
  <2>4. LeftRight(PushOn(Base(th), th, c), life, abandoned)
    BY <1>2, <1>5, <2>1, <2>2, <2>3, LeftPush
  <2> QED
    BY <1>6, <2>4, Zenon
<1>16. life' = life /\ calls' = calls /\ abandoned' = abandoned
  BY <1>1
<1> QED
  BY <1>11, <1>13, <1>14, <1>15, <1>16 DEF StillOnce

LEMMA OnceInit ==
  ASSUME Init
  PROVE  OnceInv
<1>1. MemInv
  BY MemInit
<1>2. /\ \A t \in Threads : Len(stack[t]) = 0
      /\ Len(work_queue) = 0 /\ Len(abandoned) = 0
      /\ seen_before = {} /\ previously_processed = {}
      /\ \A s \in Sbufs : life[s] = "unborn"
      /\ \A s \in Sbufs, sc \in Scanners : calls[s][sc] = 0
  BY DEF Init
<1>3. \A C, U : ~Has(stack, work_queue, C, U) /\ Single(stack, work_queue, C, U)
  BY <1>2 DEF Has, Single
<1>4. Alone(stack, work_queue)
  BY <1>3, Zenon DEF Alone
<1>5. LeftRight(stack, life, abandoned)
  BY <1>2 DEF LeftRight, LeftIn
<1>6. CalledRight(stack, work_queue, life, calls, seen_before, abandoned)
  <2>1. \A s, sc : ~Waits(stack, work_queue, s, sc)
    BY <1>3, Zenon DEF Waits
  <2> QED
    BY <1>2, <2>1 DEF CalledRight
<1>7. DedupeRight(stack, work_queue, life, previously_processed, seen_before)
  <2>1. \A s \in Sbufs : ~Past(stack, work_queue, life, s)
    BY <1>2 DEF Past
  <2> QED
    BY <1>2, <2>1 DEF DedupeRight
<1> QED
  BY <1>1, <1>4, <1>5, <1>6, <1>7 DEF OnceInv

LEMMA OnceStep ==
  ASSUME OnceInv, [Next]_vars
  PROVE  OnceInv'
<1>0. MemInv'
  BY MemStep DEF OnceInv
<1>1. ASSUME NEW p \in Pages, ReadPage(p) PROVE StillOnce
  BY <1>1, ReadOnce
<1>2. ASSUME SchedulePage PROVE StillOnce
  BY <1>2, ScheduleOnce
<1>3. ASSUME NEW w \in Workers, Take(w) PROVE StillOnce
  BY <1>3, TakeOnce
<1>4. ASSUME NEW th \in Threads, ThreadStep(th) PROVE StillOnce
  <2>1. CASE ProcessTooDeep(th)
    BY <2>1, TooDeepOnce
  <2>2. CASE ProcessAlertFails(th) \/ ScanAlertFails(th)
    <3>1. /\ stack[th] # <<>> /\ Throw(th)
          /\ Top(th).fn = "scanning" \/ (Top(th).fn = "process" /\ TooDeep(Top(th).sbuf))
      BY <2>2 DEF ProcessAlertFails, ScanAlertFails, In
    <3> QED
      BY <3>1, ThrowOnce
  <2>3. CASE ProcessBegin(th)
    BY <2>3, BeginOnce
  <2>4. CASE EachScanner(th)
    BY <2>4, EachScannerOnce
  <2>5. CASE EachDone(th)
    BY <2>5, EachDoneOnce
  <2>6. CASE ScanBypassed(th)
    BY <2>6, BypassedOnce
  <2>7. CASE ScanBegin(th)
    BY <2>7, ScanBeginOnce
  <2>8. CASE ScanMakes(th)
    BY <2>8, MakesOnce
  <2>9. CASE ScanEnds(th)
    BY <2>9, ScanEndsOnce
  <2>10. CASE Release(th)
    BY <2>10, ReleaseOnce
  <2>11. CASE LocalEnds(th)
    BY <2>11, LocalEndsOnce
  <2>12. CASE DelChild(th)
    BY <2>12, DelChildOnce
  <2>13. CASE UnrefParent(th)
    BY <2>13, UnrefOnce
  <2> QED
    BY <1>4, <2>1, <2>2, <2>3, <2>4, <2>5, <2>6, <2>7, <2>8, <2>9, <2>10, <2>11, <2>12,
       <2>13 DEF ThreadStep
<1>5. ASSUME Done \/ UNCHANGED vars PROVE StillOnce
  <2>1. UNCHANGED <<stack, work_queue, life, calls, dedupe, abandoned>>
    BY <1>5 DEF Done, vars
  <2> QED
    BY <2>1, NothingOnce
<1>6. StillOnce
  BY <1>1, <1>2, <1>3, <1>4, <1>5 DEF Next
<1> QED
  BY <1>0, <1>6 DEF OnceInv, StillOnce

LEMMA OnceMeans ==
  ASSUME OnceInv
  PROVE  ScannedOnce
<1>0. /\ MemInv /\ LeftRight(stack, life, abandoned)
      /\ CalledRight(stack, work_queue, life, calls, seen_before, abandoned)
      /\ DedupeRight(stack, work_queue, life, previously_processed, seen_before)
      /\ life \in [Sbufs -> {"unborn", "alive", "deleted"}]
      /\ calls \in [Sbufs -> [Scanners -> Nat]] /\ seen_before \subseteq Sbufs
  BY DEF OnceInv, MemInv, TypeOK
<1>1. \A s \in Sbufs, sc \in Scanners : calls[s][sc] \in {0, 1}
  BY <1>0 DEF CalledRight
<1>2. ASSUME NEW s \in Sbufs, NEW C, NEW U, life[s] # "alive",
             \A c \in C : c.sbuf = s, \A u \in U : u.sbuf = s
      PROVE  ~Has(stack, work_queue, C, U)
  <2>1. \A t \in Threads : \A i \in 1..Len(stack[t]) : stack[t][i].sbuf # s
    BY <1>0, <1>2 DEF MemInv, Control, AllRight, CallRight
  <2>2. \A j \in 1..Len(work_queue) : work_queue[j].sbuf # s
    BY <1>0, <1>2 DEF MemInv, Control, AllRight, UnitRight
  <2> QED
    BY <1>2, <2>1, <2>2, Zenon DEF Has
<1>3. ASSUME NEW s \in Sbufs, NEW sc \in Scanners, Processed(s)
      PROVE  calls[s][sc] = 1 <=> s \notin seen_before \/ sc \in OptIn
  <2>1. life[s] = "deleted" /\ ~TooDeep(s) /\ ~Local(s)
    BY <1>3 DEF Processed, Local
  <2>2. ~LeftIn(abandoned, s)
    BY <1>0, <2>1 DEF LeftRight
  <2>3. ~Waits(stack, work_queue, s, sc)
    <3>1. (\A c \in AwaitCalls(s, sc) : c.sbuf = s) /\ (\A u \in AwaitUnits(s, sc) : u.sbuf = s)
      BY DEF AwaitCalls, AwaitUnits
    <3> QED
      BY <1>2, <2>1, <3>1 DEF Waits
  <2>4. Settled(calls, seen_before, s, sc)
    BY <1>0, <2>1, <2>2, <2>3 DEF CalledRight
  <2> QED
    BY <1>0, <2>4 DEF CalledRight, Settled
<1>4. ASSUME NEW s \in Sbufs, NEW sc \in Scanners, calls[s][sc] > 0
      PROVE  /\ Past(stack, work_queue, life, s) /\ Scannable(s)
             /\ s \notin seen_before \/ sc \in OptIn
  <2>1. calls[s][sc] = 1 /\ ~NotScanned(calls, s)
    BY <1>1, <1>4 DEF NotScanned
  <2>2. ~TooDeep(s) /\ (s \notin seen_before \/ sc \in OptIn)
    BY <1>0, <2>1 DEF CalledRight
  <2>3. life[s] # "unborn" /\ ~Local(s)
    BY <1>0, <2>1 DEF MemInv, Unborn, SharesRight
  <2>4. ~New(stack, work_queue, s)
    <3>1. \A t \in Threads : \A i \in 1..Len(stack[t]) : stack[t][i] \notin NewCalls(s)
      BY <1>0, <2>1 DEF MemInv, Control, AllRight, CallRight, NewCalls
    <3>2. \A j \in 1..Len(work_queue) : work_queue[j] \notin NewUnits(s)
      BY <1>0, <2>1 DEF MemInv, Control, AllRight, UnitRight, NewUnits
    <3> QED
      BY <3>1, <3>2, Zenon DEF New, Has
  <2> QED
    BY <2>2, <2>3, <2>4 DEF Past, Scannable
<1>5. ASSUME NEW sc \in Scanners \ OptIn, NEW r \in Sbufs, NEW s \in Sbufs,
             Legacy, calls[r][sc] > 0, calls[s][sc] > 0, Content[r] = Content[s]
      PROVE  r = s
  <2>1. /\ Past(stack, work_queue, life, r) /\ Scannable(r) /\ r \in Sbufs \ seen_before
        /\ Past(stack, work_queue, life, s) /\ Scannable(s) /\ s \in Sbufs \ seen_before
    BY <1>4, <1>5
  <2> QED
    BY <1>0, <1>5, <2>1 DEF DedupeRight
<1>6. \A s \in seen_before : \E r \in Sbufs \ seen_before :
        Content[r] = Content[s] /\ life[r] # "unborn"
  BY <1>0 DEF DedupeRight, Past
<1> QED
  BY <1>1, <1>3, <1>5, <1>6 DEF ScannedOnce

(* However the threads take turns, whatever is made from what and whichever*)
(* writes fail: process_sbuf calls no scanner twice on an sbuf, an sbuf is *)
(* deleted only after every enabled scanner has been called on it, or has  *)
(* been passed over as one that does not want duplicates, and of the sbufs *)
(* of one content, met by any number of threads at a time, LEGACY mode     *)
(* scans exactly one (scanner_set.cpp:967-1091, and 1183-1190 for the      *)
(* count-and-insert of previously_processed_count).                        *)
THEOREM ScannedOnceHolds == Spec => []ScannedOnce
<1>1. Init => OnceInv
  BY OnceInit
<1>2. OnceInv /\ [Next]_vars => OnceInv'
  BY OnceStep
<1>3. OnceInv => ScannedOnce
  BY OnceMeans
<1> QED
  BY <1>1, <1>2, <1>3, PTL DEF Spec

=============================================================================
