---------------------------- MODULE JsonGrammar ----------------------------
(***************************************************************************)
(* JSON by its grammar, and what the scanner of JsonScanner must find.     *)
(***************************************************************************)
EXTENDS JsonScanner

Drop(s, n) == SubSeq(s, n + 1, Len(s))
Take(s, n) == SubSeq(s, 1, n)
Inner(s) == SubSeq(s, 2, Len(s) - 1)
AllIn(s, set) == \A n \in DOMAIN s : s[n] \in set

(* The inside of a string.                                                 *)
RECURSIVE IsCharacters(_)
IsCharacters(s) ==
  \/ s = <<>>
  \/ s[1] \in Chars \ {"\n", "\"", "\\"} /\ IsCharacters(Tail(s))
  \/ /\ Len(s) > 1 /\ s[1] = "\\" /\ s[2] \in {"\"", "\\", "/", "b", "f", "n", "r", "t"}
     /\ IsCharacters(Drop(s, 2))
  \/ /\ Len(s) > 5 /\ s[1] = "\\" /\ s[2] = "u" /\ AllIn(SubSeq(s, 3, 6), Hex)
     /\ IsCharacters(Drop(s, 6))
IsString(s) == Len(s) > 1 /\ s[1] = "\"" /\ s[Len(s)] = "\"" /\ IsCharacters(Inner(s))

IsNatural(s) == s # <<>> /\ AllIn(s, Digit) /\ (s[1] = "0" => Len(s) = 1)
IsFraction(s) == s = <<>> \/ (Len(s) > 1 /\ s[1] = "." /\ AllIn(Tail(s), Digit))
IsExponent(s) ==
  \/ s = <<>>
  \/ /\ Len(s) > 1 /\ s[1] \in {"e", "E"}
     /\ LET digits == IF s[2] \in {"+", "-"} THEN Drop(s, 2) ELSE Tail(s) IN
          digits # <<>> /\ AllIn(digits, Digit)
IsUnsigned(s) ==
  \E m, n \in 0..Len(s) :
    /\ m <= n
    /\ IsNatural(Take(s, m)) /\ IsFraction(SubSeq(s, m + 1, n)) /\ IsExponent(Drop(s, n))
IsNumber(s) == IsUnsigned(s) \/ (s # <<>> /\ s[1] = "-" /\ IsUnsigned(Tail(s)))
IsLiteral(s) ==
  s \in {<<"t", "r", "u", "e">>, <<"f", "a", "l", "s", "e">>, <<"n", "u", "l", "l">>}

RECURSIVE IsValue(_), IsList(_, _)
Padded(s, Is(_)) ==
  \E m, n \in 0..Len(s) :
    /\ m <= n /\ AllIn(Take(s, m), Blank) /\ AllIn(Drop(s, n), Blank)
    /\ Is(SubSeq(s, m + 1, n))
IsMember(s) ==
  \E n \in DOMAIN s :
    /\ s[n] = ":" /\ Padded(Take(s, n - 1), IsString)
    /\ Padded(Drop(s, n), IsValue)
IsItem(s, close) == IF close = "]" THEN Padded(s, IsValue) ELSE IsMember(s)
IsList(s, close) ==
  \/ IsItem(s, close)
  \/ \E n \in DOMAIN s :
       s[n] = "," /\ IsItem(Take(s, n - 1), close) /\ IsList(Drop(s, n), close)
IsContainer(s) ==
  /\ Len(s) > 1
  /\ \E pair \in {<<"[", "]">>, <<"{", "}">>} :
       /\ s[1] = pair[1] /\ s[Len(s)] = pair[2]
       /\ AllIn(Inner(s), Blank) \/ IsList(Inner(s), pair[2])
IsValue(s) == IsString(s) \/ IsNumber(s) \/ IsLiteral(s) \/ IsContainer(s)

-----------------------------------------------------------------------------
Part(first, last) == SubSeq(sbuf.text, first + 1, last + 1)
(* A quotation mark that no backslash precedes begins or ends a string; in *)
(* JSON text, that is.                                                     *)
RECURSIVE Escaped(_, _)
Escaped(s, n) == n > 1 /\ s[n - 1] = "\\" /\ ~Escaped(s, n - 1)
Outside(s, n) ==
  Cardinality({m \in 1..(n - 1) : s[m] = "\"" /\ ~Escaped(s, m)}) % 2 = 0
Count(s, set) == Cardinality({n \in DOMAIN s : s[n] \in set /\ Outside(s, n)})
Commas(s) == Count(s, {","})
Depth(s, n) == Count(Take(s, n), {"[", "{"}) - Count(Take(s, n), {"]", "}"})
Shallow(s) == \A n \in DOMAIN s : Depth(s, n) < stacksize

Objects ==
  {[pos |-> a, last |-> b] : a \in 0..(bufsize - 1), b \in 0..(bufsize - 1)}
Valid(o) == o.pos < o.last /\ IsContainer(Part(o.pos, o.last)) /\ Shallow(Part(o.pos, o.last))
HasCommas(o) == Commas(Part(o.pos, o.last)) >= MinCommas
Opening(n) == At(n) \in {"{", "["} /\ At(n + 1) \in SecondChars
(* From n on the scanner comes to p: what opens on the way is an object    *)
(* that ends before p, and that is skipped as a whole, whether it has the  *)
(* commas or not.  A bracket that opens none draws the checker on to where *)
(* it fails, which may be anywhere.                                        *)
RECURSIVE Clear(_, _)
Clear(n, p) ==
  \/ n = p
  \/ n < p /\ ~Opening(n) /\ Clear(n + 1, p)
  \/ /\ n < p /\ Opening(n)
     /\ \E e \in n + 1..p - 1 : Valid([pos |-> n, last |-> e]) /\ Clear(e + 1, p)
Reached(o) == Opening(o.pos) /\ Clear(0, o.pos)
(* Exceptions of the automaton: a fraction without digits is taken, an     *)
(* exponent behind a single zero is not.                                   *)
NumbersPlain ==
  \A n \in 1..(Len(sbuf.text) - 1) :
    /\ sbuf.text[n] = "." => sbuf.text[n + 1] \in Digit
    /\ sbuf.text[n] = "0" => sbuf.text[n + 1] \notin {"e", "E"}

(* Whatever is written is a JSON object or array as the grammar has it,    *)
(* with at least MinCommas commas outside of its strings, nested no deeper *)
(* than the stack goes, and begins in the page.                            *)
FoundIsJson ==
  \A f \in found : Valid(f) /\ HasCommas(f) /\ f.pos < sbuf.pagesize

(* Every such object that the scanner comes to before the last byte of the *)
(* page is written, also if it ends in the margin.                         *)
NothingMissed ==
  \A o \in Objects :
    Valid(o) /\ HasCommas(o) /\ Reached(o) /\ o.pos + 1 < sbuf.pagesize => o \in found

(* An object that the scanner comes to is skipped as a whole, also if it   *)
(* has too few commas: nothing inside it is written, be it JSON in one of  *)
(* its strings; and what is written does not overlap.                      *)
NothingInside ==
  \A f \in found :
    /\ \A o \in Objects : Valid(o) /\ Reached(o) /\ o.pos < f.pos => o.last < f.pos
    /\ \A g \in found : f # g => f.last < g.pos \/ g.last < f.pos

(* What is written of a page is its JSON with at least MinCommas commas,   *)
(* exactly, by the grammar, each object once and whole.                    *)
JsonFound ==
  pc = "done" /\ NumbersPlain => FoundIsJson /\ NothingMissed /\ NothingInside

(* The end of the scan of a buffer.                                        *)
Over == pc = "done"
=============================================================================
