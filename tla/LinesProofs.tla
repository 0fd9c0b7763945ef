---------------------------- MODULE LinesProofs ----------------------------
(***************************************************************************)
(* Proofs about what becomes of what is typed: how a line is cut into      *)
(* commands (CommandLine), how a command is found in the bank              *)
(* (CommandBank), what OK means (Execution), and that the parser of        *)
(* characters is a line editor (Parser).                                   *)
(***************************************************************************)
EXTENDS Lines, FiniteSetTheorems, SequenceTheorems, WellFoundedInduction, TLAPS

-----------------------------------------------------------------------------
(***************************************************************************)
(* Every set of numbers that is not empty has a least one. A claim about   *)
(* all positions of a line or of a name is proved by the least position at *)
(* which it fails.                                                         *)
(***************************************************************************)
Below == {ss \in Nat \X Nat : ss[1] < ss[2]}

LEMMA BelowIsWellFounded == IsWellFoundedOn(Below, Nat)
  BY NatLessThanWellFounded DEF OpToRel, Below

LEMMA LeastIs ==
  ASSUME NEW S \in SUBSET Nat, S # {}
  PROVE  Least(S) \in S /\ \A j \in S : Least(S) <= j
  <1>1. PICK i \in S : \A j \in S : <<j, i>> \notin Below
    BY WFMin, BelowIsWellFounded
  <1>2. \A j \in S : ~(j < i)
    BY <1>1 DEF Below
  <1>3. \A j \in S : i <= j
    BY <1>2
  <1>. QED
    BY <1>3 DEF Least

-----------------------------------------------------------------------------
(***************************************************************************)
(* The scanners of CommandLine stay inside the line.                       *)
(***************************************************************************)
LineOK == line \in Seq(Chars)

LEMMA PastIs ==
  ASSUME LineOK, NEW set, NEW i \in 1..(n + 1)
  PROVE  /\ Past(set, i) \in i..(n + 1)
         /\ \A j \in i..(Past(set, i) - 1) : line[j] \in set
         /\ Past(set, i) <= n => line[Past(set, i)] \notin set
  <1>. DEFINE S == {j \in i..(n + 1) : j = n + 1 \/ line[j] \notin set}
  <1>1. n \in Nat
    BY DEF LineOK, n
  <1>2. S \in SUBSET Nat /\ n + 1 \in S
    BY <1>1
  <1>3. Least(S) \in S /\ \A j \in S : Least(S) <= j
    BY <1>2, LeastIs
  <1>. QED
    BY <1>1, <1>3 DEF Past

LEMMA StartIs ==
  ASSUME LineOK, NEW i \in 1..(n + 1)
  PROVE  /\ CommandStart(i) \in i..(n + 1)
         /\ \A j \in i..(CommandStart(i) - 1) : line[j] \in Skipped(j)
  <1>. DEFINE S == {j \in i..(n + 1) : j = n + 1 \/ line[j] \notin Skipped(j)}
  <1>1. n \in Nat
    BY DEF LineOK, n
  <1>2. S \in SUBSET Nat /\ n + 1 \in S
    BY <1>1
  <1>3. Least(S) \in S /\ \A j \in S : Least(S) <= j
    BY <1>2, LeastIs
  <1>4. CommandStart(i) = Least(S)
    BY DEF CommandStart
  <1>. HIDE DEF S
  <1>5. CommandStart(i) \in i..(n + 1)
    BY <1>3, <1>4 DEF S
  <1>6. ASSUME NEW j \in i..(CommandStart(i) - 1)
        PROVE  line[j] \in Skipped(j)
    <2>1. j \in i..(n + 1) /\ j # n + 1 /\ ~(Least(S) <= j)
      BY <1>1, <1>4, <1>5
    <2>2. j \notin S
      BY <1>3, <2>1
    <2>. QED
      BY <2>1, <2>2 DEF S
  <1>. QED
    BY <1>5, <1>6

LEMMA PastDigitsIs ==
  ASSUME LineOK, NEW i \in 1..(n + 1)
  PROVE  PastDigits(i) \in i..(n + 1)
  <1>1. n \in Nat
    BY DEF LineOK, n
  <1>2. Past(Spaces, i) \in i..(n + 1)
    BY PastIs
  <1>3. Past(Digits, Past(Spaces, i)) \in Past(Spaces, i)..(n + 1)
    BY <1>1, <1>2, PastIs
  <1>. QED
    BY <1>1, <1>2, <1>3 DEF PastDigits

LEMMA BasicEndIs ==
  ASSUME LineOK, NEW i \in 1..(n + 1)
  PROVE  BasicEnd(i) \in i..(n + 1)
  <1>1. n \in Nat
    BY DEF LineOK, n
  <1>. SUFFICES ASSUME i <= n PROVE BasicEnd(i) \in i..(n + 1)
    BY <1>1 DEF BasicEnd
  <1>. DEFINE arg == Past(Spaces, PastDigits(i + 1))
              name == IF At(i, "&") THEN i + 1 ELSE i
  <1>2. PastDigits(i + 1) \in (i + 1)..(n + 1)
    BY <1>1, PastDigitsIs
  <1>3. arg \in (i + 1)..(n + 1)
    <2>1. arg \in PastDigits(i + 1)..(n + 1)
      BY <1>1, <1>2, PastIs
    <2>. QED
      BY <1>1, <1>2, <2>1
  <1>4. At(arg, "=") \/ At(arg, "?") => arg <= n
    BY DEF At
  <1>5. At(arg, "=") => PastDigits(arg + 1) \in (arg + 1)..(n + 1)
    BY <1>1, <1>3, <1>4, PastDigitsIs
  <1>6. name <= n => PastDigits(name + 1) \in (name + 1)..(n + 1)
    BY <1>1, PastDigitsIs
  <1>7. name \in {i, i + 1}
    OBVIOUS
  <1>8. BasicEnd(i) =
          IF line[i] = "D" THEN n + 1
          ELSE IF line[i] = "S"
               THEN IF At(arg, "=") THEN PastDigits(arg + 1)
                    ELSE IF At(arg, "?") THEN arg + 1 ELSE arg
          ELSE IF name <= n /\ line[name] \in Letters THEN PastDigits(name + 1) ELSE i
    BY <1>1 DEF BasicEnd
  <1>. HIDE DEF arg, name
  <1>. QED
    BY <1>1, <1>3, <1>4, <1>5, <1>6, <1>7, <1>8

-----------------------------------------------------------------------------
(***************************************************************************)
(* Scan is defined by recursion on the rest of the line. That there is     *)
(* such a function is proved by the shortest rest for which there is none. *)
(***************************************************************************)
ScanOf(f, j) ==
  IF j = n + 1 \/ line[j] = ";" THEN j
  ELSE IF line[j] # Quote THEN f[j + 1]
  ELSE IF Closing(j) > n THEN 0 ELSE f[Closing(j) + 1]

\* A function that scans the last m characters of the line.
Scans(f, m) == \A j \in (n + 1 - m)..(n + 1) : f[j] = ScanOf(f, j)

LEMMA ClosingIs ==
  ASSUME LineOK, NEW j \in 1..n
  PROVE  /\ Closing(j) \in (j + 1)..(n + 1)
         /\ \A k \in (j + 1)..(Closing(j) - 1) : line[k] # Quote
         /\ Closing(j) <= n => line[Closing(j)] = Quote
  <1>1. n \in Nat /\ \A k \in 1..n : line[k] \in Chars
    BY DEF LineOK, n
  <1>2. j + 1 \in 1..(n + 1)
    BY <1>1
  <1>. DEFINE set == Chars \ {Quote}
  <1>3. /\ Past(set, j + 1) \in (j + 1)..(n + 1)
        /\ \A k \in (j + 1)..(Past(set, j + 1) - 1) : line[k] \in set
        /\ Past(set, j + 1) <= n => line[Past(set, j + 1)] \notin set
    <2>. HIDE DEF set
    <2>. QED
      BY <1>2, PastIs
  <1>4. Closing(j) = Past(set, j + 1)
    BY DEF Closing
  <1>5. \A c \in Chars : c \notin set <=> c = Quote
    OBVIOUS
  <1>. HIDE DEF set
  <1>6. Closing(j) \in (j + 1)..(n + 1)
    BY <1>3, <1>4
  <1>7. ASSUME NEW k \in (j + 1)..(Closing(j) - 1)
        PROVE  line[k] # Quote
    <2>1. line[k] \in set /\ k \in 1..n
      BY <1>1, <1>3, <1>4, <1>6
    <2>. QED
      BY <1>1, <1>5, <2>1
  <1>8. ASSUME Closing(j) <= n
        PROVE  line[Closing(j)] = Quote
    <2>1. line[Closing(j)] \notin set /\ Closing(j) \in 1..n
      BY <1>1, <1>3, <1>4, <1>6, <1>8
    <2>. QED
      BY <1>1, <1>5, <2>1
  <1>. QED
    BY <1>6, <1>7, <1>8

LEMMA ScansLonger ==
  ASSUME LineOK, NEW m \in Nat, m < n, NEW f \in [(n + 1 - m)..(n + 1) -> 0..(n + 1)], Scans(f, m)
  PROVE  \E g \in [(n - m)..(n + 1) -> 0..(n + 1)] : Scans(g, m + 1)
  <1>1. n \in Nat
    BY DEF LineOK, n
  <1>. DEFINE g == [j \in (n - m)..(n + 1) |-> IF j = n - m THEN ScanOf(f, j) ELSE f[j]]
  <1>2. n - m \in 1..n
    BY <1>1
  <1>3. \A j \in 1..n : Closing(j) \in (j + 1)..(n + 1)
    BY ClosingIs
  <1>4. ASSUME NEW j \in 1..n, j = n - m
        PROVE  ScanOf(f, j) \in 0..(n + 1)
    <2>1. f[j + 1] \in 0..(n + 1)
      BY <1>1, <1>4
    <2>2. Closing(j) \in (j + 1)..(n + 1)
      BY <1>3
    <2>3. Closing(j) <= n => f[Closing(j) + 1] \in 0..(n + 1)
      BY <1>1, <1>4, <2>2
    <2>4. j \in 0..(n + 1) /\ (Closing(j) > n <=> ~(Closing(j) <= n))
      BY <1>1, <2>2
    <2>. QED
      <3>1. ScanOf(f, j) \in {j, 0, f[j + 1]} \/ (Closing(j) <= n /\ ScanOf(f, j) = f[Closing(j) + 1])
        BY <1>1, <2>4 DEF ScanOf
      <3>. HIDE DEF ScanOf
      <3>. QED
        BY <1>1, <2>1, <2>3, <2>4, <3>1
  <1>5. g \in [(n - m)..(n + 1) -> 0..(n + 1)]
    BY <1>1, <1>2, <1>4
  <1>6. ASSUME NEW j \in (n - m)..(n + 1)
        PROVE  ScanOf(g, j) = ScanOf(f, j)
    <2>1. j # n + 1 => g[j + 1] = f[j + 1]
      BY <1>1, <1>2
    <2>2. (j # n + 1 /\ ~(Closing(j) > n)) => g[Closing(j) + 1] = f[Closing(j) + 1]
      <3>1. SUFFICES ASSUME j # n + 1, Closing(j) <= n
            PROVE  g[Closing(j) + 1] = f[Closing(j) + 1]
        BY <1>1, <1>2, <1>3
      <3>2. Closing(j) \in (j + 1)..(n + 1)
        BY <1>1, <1>2, <1>3, <3>1
      <3>. QED
        BY <1>1, <1>2, <3>1, <3>2, SMTT(30)
    <2>. HIDE DEF g
    <2>. QED
      BY <2>1, <2>2 DEF ScanOf
  <1>7. ASSUME NEW j \in (n - m)..(n + 1)
        PROVE  g[j] = ScanOf(g, j)
    <2>1. CASE j = n - m
      BY <1>6, <2>1
    <2>2. CASE j # n - m
      <3>1. j \in (n + 1 - m)..(n + 1)
        BY <1>1, <2>2
      <3>2. g[j] = f[j]
        BY <2>2
      <3>. HIDE DEF g
      <3>. QED
        BY <1>6, <3>1, <3>2 DEF Scans
    <2>. QED
      BY <2>1, <2>2
  <1>8. n + 1 - (m + 1) = n - m
    BY <1>1
  <1>. HIDE DEF g
  <1>9. Scans(g, m + 1)
    BY <1>7, <1>8 DEF Scans
  <1>. QED
    BY <1>5, <1>9

LEMMA ScanIs ==
  ASSUME LineOK
  PROVE  \A j \in 1..(n + 1) : Scan[j] = ScanOf(Scan, j)
  <1>1. n \in Nat
    BY DEF LineOK, n
  <1>. DEFINE Has(m) == \E f \in [(n + 1 - m)..(n + 1) -> 0..(n + 1)] : Scans(f, m)
              Missing == {m \in 0..n : ~Has(m)}
  <1>2. Has(0)
    <2>. DEFINE f == [j \in (n + 1)..(n + 1) |-> n + 1]
    <2>1. f \in [(n + 1 - 0)..(n + 1) -> 0..(n + 1)]
      BY <1>1
    <2>2. Scans(f, 0)
      BY <1>1 DEF Scans, ScanOf
    <2>. HIDE DEF f
    <2>. QED
      BY <2>1, <2>2
  <1>3. \A m \in Nat : m < n /\ Has(m) => Has(m + 1)
    <2>1. SUFFICES ASSUME NEW m \in Nat, m < n, Has(m) PROVE Has(m + 1)
      OBVIOUS
    <2>2. PICK f \in [(n + 1 - m)..(n + 1) -> 0..(n + 1)] : Scans(f, m)
      BY <2>1
    <2>3. \E g \in [(n - m)..(n + 1) -> 0..(n + 1)] : Scans(g, m + 1)
      BY <2>1, <2>2, ScansLonger
    <2>4. n + 1 - (m + 1) = n - m
      BY <1>1
    <2>. QED
      BY <2>3, <2>4
  <1>4. Missing = {}
    <2>. HIDE DEF Has
    <2>1. SUFFICES ASSUME Missing # {} PROVE FALSE
      OBVIOUS
    <2>2. Missing \in SUBSET Nat
      BY <1>1
    <2>3. Least(Missing) \in Missing /\ \A j \in Missing : Least(Missing) <= j
      BY <2>1, <2>2, LeastIs
    <2>. DEFINE least == Least(Missing)
    <2>4. least \in 1..n /\ ~Has(least)
      BY <1>1, <1>2, <2>3
    <2>5. Has(least - 1)
      BY <1>1, <2>3, <2>4
    <2>6. least - 1 \in Nat /\ least - 1 < n /\ (least - 1) + 1 = least
      BY <1>1, <2>4
    <2>. HIDE DEF least, Missing
    <2>. QED
      BY <1>3, <2>4, <2>5, <2>6
  <1>5. Has(n)
    <2>. HIDE DEF Has
    <2>. QED
      BY <1>1, <1>4
  <1>6. PICK f \in [1..(n + 1) -> 0..(n + 1)] : \A j \in 1..(n + 1) : f[j] = ScanOf(f, j)
    <2>1. n + 1 - n = 1
      BY <1>1
    <2>. QED
      BY <1>5, <2>1 DEF Scans
  <1>7. f = [j \in 1..(n + 1) |-> ScanOf(f, j)]
    BY <1>6
  <1>8. Scan = [j \in 1..(n + 1) |-> ScanOf(Scan, j)]
    BY <1>7 DEF Scan, ScanOf
  <1>. QED
    BY <1>8

-----------------------------------------------------------------------------
(***************************************************************************)
(* What Scan finds is not inside a string: there is an even number of      *)
(* quotes before it.                                                       *)
(***************************************************************************)
Quoted(i, j) == {q \in i..(j - 1) : line[q] = Quote}

LEMMA QuotedIsFinite ==
  ASSUME NEW i \in Int, NEW j \in Int
  PROVE  IsFiniteSet(Quoted(i, j)) /\ Cardinality(Quoted(i, j)) \in Nat
  <1>1. IsFiniteSet(i..(j - 1))
    BY FS_Interval
  <1>2. Quoted(i, j) \subseteq i..(j - 1)
    BY DEF Quoted
  <1>3. IsFiniteSet(Quoted(i, j))
    BY <1>1, <1>2, FS_Subset
  <1>. QED
    BY <1>3, FS_CardinalityType

LEMMA StringAdded ==
  ASSUME NEW j \in Nat, NEW c \in Nat, NEW d \in Nat, NEW e \in Nat, j < c, d = c + 1, d <= e,
         line[j] = Quote, line[c] = Quote, \A k \in (j + 1)..(c - 1) : line[k] # Quote,
         Cardinality(Quoted(d, e)) % 2 = 0
  PROVE  Cardinality(Quoted(j, e)) % 2 = 0
  <1>. DEFINE rest == Quoted(d, e)
  <1>1. IsFiniteSet(rest) /\ Cardinality(rest) \in Nat
    BY QuotedIsFinite
  <1>2. c \notin rest /\ j \notin rest \cup {c}
    BY DEF Quoted
  <1>3. Quoted(j, e) = (rest \cup {c}) \cup {j}
    <2>1. ASSUME NEW q \in Quoted(j, e)
          PROVE  q \in (rest \cup {c}) \cup {j}
      BY DEF Quoted
    <2>2. rest \subseteq Quoted(j, e) /\ c \in Quoted(j, e) /\ j \in Quoted(j, e)
      BY DEF Quoted
    <2>. QED
      BY <2>1, <2>2
  <1>. HIDE DEF rest
  <1>4. IsFiniteSet(rest \cup {c}) /\ Cardinality(rest \cup {c}) = Cardinality(rest) + 1
    BY <1>1, <1>2, FS_AddElement
  <1>5. Cardinality((rest \cup {c}) \cup {j}) = Cardinality(rest \cup {c}) + 1
    BY <1>2, <1>4, FS_AddElement
  <1>6. Cardinality(Quoted(j, e)) = Cardinality(rest) + 2
    BY <1>1, <1>3, <1>4, <1>5
  <1>7. Cardinality(rest) % 2 = 0
    BY DEF rest
  <1>. QED
    BY <1>1, <1>6, <1>7

\* What Scan gives at a position is a position outside of strings, or 0.
ScansWell(j) == Scan[j] = 0 \/ (Scan[j] \in j..(n + 1) /\ Cardinality(Quoted(j, Scan[j])) % 2 = 0)

LEMMA ScanStep ==
  ASSUME LineOK, NEW j \in 1..(n + 1), \A k \in (j + 1)..(n + 1) : ScansWell(k)
  PROVE  ScansWell(j)
  <1>1. n \in Nat
    BY DEF LineOK, n
  <1>2. Scan[j] = ScanOf(Scan, j)
    BY ScanIs
  <1>3. CASE j = n + 1 \/ line[j] = ";"
    <2>1. Scan[j] = j
      BY <1>2, <1>3 DEF ScanOf
    <2>2. \A q \in Quoted(j, j) : FALSE
      BY <1>1 DEF Quoted
    <2>3. Cardinality(Quoted(j, j)) = 0
      BY <2>2, FS_EmptySet
    <2>. QED
      BY <1>1, <2>1, <2>3 DEF ScansWell
  <1>4. CASE ~(j = n + 1 \/ line[j] = ";") /\ line[j] # Quote
    <2>0. j # n + 1
      BY <1>4
    <2>1. PICK k \in (j + 1)..(n + 1) : k = j + 1
      BY <1>1, <2>0
    <2>2. Scan[j] = Scan[k] /\ ScansWell(k)
      BY <1>2, <1>4, <2>1 DEF ScanOf
    <2>3. ASSUME NEW e \in k..(n + 1)
          PROVE  Quoted(j, e) = Quoted(k, e)
      <3>1. \A q \in j..(e - 1) : q = j \/ q \in k..(e - 1)
        BY <1>1, <2>1
      <3>2. k..(e - 1) \subseteq j..(e - 1)
        BY <1>1, <2>1
      <3>. QED
        BY <1>4, <3>1, <3>2 DEF Quoted
    <2>4. CASE Scan[k] = 0
      BY <2>2, <2>4 DEF ScansWell
    <2>5. CASE Scan[k] # 0
      <3>1. Scan[k] \in k..(n + 1) /\ Cardinality(Quoted(k, Scan[k])) % 2 = 0
        BY <2>2, <2>5 DEF ScansWell
      <3>2. Scan[j] \in j..(n + 1)
        BY <1>1, <2>1, <2>2, <3>1
      <3>3. Quoted(j, Scan[j]) = Quoted(k, Scan[k])
        BY <2>2, <2>3, <3>1
      <3>. QED
        BY <3>1, <3>2, <3>3 DEF ScansWell
    <2>. QED
      BY <2>4, <2>5
  <1>5. CASE ~(j = n + 1 \/ line[j] = ";") /\ ~(line[j] # Quote)
    <2>. SUFFICES ASSUME Scan[j] # 0 PROVE ScansWell(j)
      BY DEF ScansWell
    <2>1. ~(Closing(j) > n) /\ Scan[j] = Scan[Closing(j) + 1]
      BY <1>2, <1>5 DEF ScanOf
    <2>0. j # n + 1 /\ line[j] = Quote
      BY <1>5
    <2>2. j \in 1..n
      BY <1>1, <2>0
    <2>3. PICK c \in (j + 1)..(n + 1) : c = Closing(j)
      BY <2>2, ClosingIs
    <2>4. /\ \A k \in (j + 1)..(c - 1) : line[k] # Quote
          /\ line[c] = Quote /\ c <= n
      BY <1>1, <2>1, <2>2, <2>3, ClosingIs
    <2>5. PICK d \in (j + 1)..(n + 1) : d = c + 1
      BY <1>1, <2>3, <2>4
    <2>6. Scan[j] = Scan[d] /\ ScansWell(d)
      BY <2>1, <2>3, <2>5
    <2>7. Scan[d] \in d..(n + 1) /\ Cardinality(Quoted(d, Scan[d])) % 2 = 0
      BY <2>6 DEF ScansWell
    <2>8. PICK e \in d..(n + 1) : e = Scan[d]
      BY <2>7
    <2>9. Cardinality(Quoted(j, e)) % 2 = 0
      <3>1. /\ j \in Nat /\ c \in Nat /\ d \in Nat /\ e \in Nat /\ j < c /\ d <= e
            /\ line[j] = Quote /\ Cardinality(Quoted(d, e)) % 2 = 0
        BY <1>1, <2>0, <2>3, <2>5, <2>7, <2>8
      <3>. QED
        BY <2>4, <2>5, <3>1, StringAdded
    <2>10. Scan[j] \in j..(n + 1)
      BY <1>1, <2>5, <2>6, <2>7
    <2>. QED
      BY <2>6, <2>8, <2>9, <2>10 DEF ScansWell
  <1>. QED
    BY <1>3, <1>4, <1>5

LEMMA ScanIsWell ==
  ASSUME LineOK
  PROVE  \A j \in 1..(n + 1) : ScansWell(j)
  <1>1. n \in Nat
    BY DEF LineOK, n
  <1>. DEFINE Wrong == {m \in Nat : \E j \in 1..(n + 1) : j = n + 1 - m /\ ~ScansWell(j)}
  <1>2. SUFFICES ASSUME Wrong # {} PROVE FALSE
    <2>1. SUFFICES ASSUME NEW j \in 1..(n + 1), ~ScansWell(j) PROVE Wrong # {}
      BY <1>2
    <2>2. n + 1 - j \in Nat /\ j = n + 1 - (n + 1 - j)
      BY <1>1
    <2>. QED
      BY <2>1, <2>2
  <1>3. Least(Wrong) \in Wrong /\ \A m \in Wrong : Least(Wrong) <= m
    BY <1>2, LeastIs
  <1>4. PICK m \in Wrong : \A k \in Wrong : m <= k
    BY <1>3
  <1>5. PICK j \in 1..(n + 1) : j = n + 1 - m /\ ~ScansWell(j)
    BY <1>4
  <1>6. ASSUME NEW k \in (j + 1)..(n + 1)
        PROVE  ScansWell(k)
    <2>1. n + 1 - k \in Nat /\ ~(m <= n + 1 - k) /\ k = n + 1 - (n + 1 - k) /\ k \in 1..(n + 1)
      BY <1>1, <1>5
    <2>2. n + 1 - k \notin Wrong
      BY <1>4, <2>1
    <2>. QED
      BY <2>1, <2>2
  <1>. QED
    BY <1>5, <1>6, ScanStep

LEMMA CommandEndIs ==
  ASSUME LineOK, NEW i \in 1..(n + 1)
  PROVE  /\ CommandEnd(i) \in i..(n + 1)
         /\ BasicEnd(i) = i => Cardinality(Quoted(i, CommandEnd(i))) % 2 = 0
  <1>1. n \in Nat
    BY DEF LineOK, n
  <1>2. BasicEnd(i) \in i..(n + 1)
    BY BasicEndIs
  <1>3. ScansWell(i)
    BY ScanIsWell
  <1>4. CASE BasicEnd(i) > i
    BY <1>1, <1>2, <1>4 DEF CommandEnd
  <1>5. CASE ~(BasicEnd(i) > i)
    <2>1. CommandEnd(i) = ExtendedEnd(i)
      BY <1>5 DEF CommandEnd
    <2>2. CASE Scan[i] = 0
      <3>1. CommandEnd(i) = i
        BY <2>1, <2>2 DEF ExtendedEnd
      <3>2. \A q \in Quoted(i, i) : FALSE
        BY <1>1 DEF Quoted
      <3>. QED
        BY <1>1, <3>1, <3>2, FS_EmptySet
    <2>3. CASE Scan[i] # 0
      BY <1>3, <2>1, <2>3 DEF ExtendedEnd, ScansWell
    <2>. QED
      BY <2>2, <2>3
  <1>. QED
    BY <1>4, <1>5

-----------------------------------------------------------------------------
(***************************************************************************)
(* The commands of a line, from its beginning to the cursor.               *)
(***************************************************************************)
\* A command from first to last, if it is an extended one, has whole strings.
Whole(first, last) == BasicEnd(first) = first => Cardinality(Quoted(first, last + 1)) % 2 = 0

RanType ==
  /\ LineOK /\ pos \in 0..n
  /\ ran \in Seq(Nat \X Nat) /\ phase \in {"run", "busy", "over"}

InPlace ==
  \A k \in 1..Len(ran) :
    /\ 1 <= ran[k][1] /\ ran[k][1] <= ran[k][2] /\ ran[k][2] <= pos
    /\ Whole(ran[k][1], ran[k][2])

InOrder == \A k \in 1..(Len(ran) - 1) : ran[k][2] < ran[k + 1][1]

LineInv == RanType /\ InPlace /\ InOrder

LEMMA LineStays ==
  ASSUME line' = line, NEW i, NEW j
  PROVE  Whole(i, j)' = Whole(i, j)
  BY DEF Whole, Quoted, BasicEnd, PastDigits, Past, At, n

\* What a step that cuts out a command does.
LEMMA RunIs ==
  ASSUME LineInv, Run
  PROVE  \E first \in (pos + 1)..n : \E last \in first..n :
           /\ ran' = Append(ran, <<first, last>>) /\ pos' = last
           /\ \A j \in (pos + 1)..(first - 1) : line[j] \in Skipped(j)
           /\ Whole(first, last)
           /\ phase = "run" /\ res = "OK" /\ phase' = "busy" /\ line' = line /\ res' = res
  <1>1. n \in Nat /\ LineOK /\ pos \in 0..n
    BY DEF LineInv, RanType, LineOK, n
  <1>2. PICK start \in 1..(n + 1) : start = pos + 1
    BY <1>1
  <1>3. PICK first \in start..(n + 1) : first = CommandStart(start)
    BY <1>1, <1>2, StartIs
  <1>4. PICK end \in first..(n + 1) : end = CommandEnd(first)
    BY <1>1, <1>2, <1>3, CommandEndIs
  <1>5. /\ end > first /\ pos' = end - 1 /\ ran' = Append(ran, <<first, end - 1>>)
        /\ phase = "run" /\ res = "OK" /\ phase' = "busy" /\ line' = line /\ res' = res
    BY <1>2, <1>3, <1>4 DEF Run
  <1>6. PICK last \in first..n : last = end - 1
    BY <1>1, <1>2, <1>3, <1>4, <1>5
  <1>7. \A j \in (pos + 1)..(first - 1) : line[j] \in Skipped(j)
    BY <1>1, <1>2, <1>3, StartIs
  <1>8. Whole(first, last)
    <2>1. last + 1 = end /\ first \in 1..(n + 1)
      BY <1>1, <1>2, <1>3, <1>4, <1>6
    <2>2. BasicEnd(first) = first => Cardinality(Quoted(first, end)) % 2 = 0
      BY <1>1, <1>4, <2>1, CommandEndIs
    <2>. QED
      BY <2>1, <2>2 DEF Whole
  <1>. QED
    BY <1>1, <1>2, <1>3, <1>5, <1>6, <1>7, <1>8

LEMMA RunKeeps ==
  ASSUME LineInv, Run
  PROVE  LineInv'
  <1>1. PICK first \in (pos + 1)..n : \E last \in first..n :
           /\ ran' = Append(ran, <<first, last>>) /\ pos' = last /\ Whole(first, last)
           /\ phase' = "busy" /\ line' = line
    BY RunIs
  <1>2. PICK last \in first..n :
           /\ ran' = Append(ran, <<first, last>>) /\ pos' = last /\ Whole(first, last)
           /\ phase' = "busy" /\ line' = line
    BY <1>1
  <1>3. n \in Nat /\ LineOK /\ pos \in 0..n /\ ran \in Seq(Nat \X Nat)
    BY DEF LineInv, RanType, LineOK, n
  <1>4. first \in Nat /\ last \in Nat /\ pos < first /\ first <= last /\ last <= n
    BY <1>3
  <1>5. <<first, last>> \in Nat \X Nat
    BY <1>4
  <1>6. ran' \in Seq(Nat \X Nat) /\ Len(ran) \in Nat /\ Len(ran') = Len(ran) + 1
        /\ (\A k \in 1..Len(ran) : ran'[k] = ran[k]) /\ ran'[Len(ran) + 1] = <<first, last>>
    BY <1>2, <1>3, <1>5, AppendProperties
  <1>7. RanType'
    BY <1>2, <1>3, <1>4, <1>6 DEF RanType, LineOK, n
  <1>8. InPlace'
    <2>1. ASSUME NEW k \in 1..Len(ran')
          PROVE  /\ 1 <= ran'[k][1] /\ ran'[k][1] <= ran'[k][2] /\ ran'[k][2] <= pos'
                 /\ Whole(ran'[k][1], ran'[k][2])
      <3>1. CASE k = Len(ran) + 1
        <4>1. ran'[k] = <<first, last>> /\ ran'[k][1] = first /\ ran'[k][2] = last
          BY <1>6, <3>1
        <4>2. 1 <= first /\ first <= last /\ last <= pos'
          BY <1>2, <1>3, <1>4
        <4>. QED
          BY <1>2, <4>1, <4>2
      <3>2. CASE k # Len(ran) + 1
        <4>1. k \in 1..Len(ran) /\ ran'[k] = ran[k] /\ ran[k] \in Nat \X Nat
          <5>1. k \in 1..Len(ran)
            BY <1>6, <3>2
          <5>2. ran[k] \in Nat \X Nat
            BY <1>3, <5>1
          <5>3. ran'[k] = ran[k]
            BY <1>6, <5>1
          <5>. QED
            BY <5>1, <5>2, <5>3
        <4>2. /\ 1 <= ran[k][1] /\ ran[k][1] <= ran[k][2] /\ ran[k][2] <= pos
              /\ Whole(ran[k][1], ran[k][2])
          BY <4>1 DEF LineInv, InPlace
        <4>. QED
          BY <1>2, <1>3, <1>4, <4>1, <4>2
      <3>. QED
        BY <3>1, <3>2
    <2>2. \A a, b : Whole(a, b)' = Whole(a, b)
      BY <1>2, LineStays
    <2>. QED
      BY <2>1, <2>2 DEF InPlace
  <1>9. InOrder'
    <2>1. ASSUME NEW k \in 1..(Len(ran') - 1)
          PROVE  ran'[k][2] < ran'[k + 1][1]
      <3>0. k \in 1..Len(ran) /\ ran'[k] = ran[k] /\ ran[k] \in Nat \X Nat
        BY <1>3, <1>6
      <3>1. CASE k = Len(ran)
        <4>1. ran'[k + 1] = <<first, last>> /\ ran[k][2] <= pos
          BY <1>6, <3>0, <3>1 DEF LineInv, InPlace
        <4>. QED
          BY <1>3, <1>4, <3>0, <4>1
      <3>2. CASE k # Len(ran)
        <4>1. k \in 1..(Len(ran) - 1) /\ ran'[k + 1] = ran[k + 1]
          <5>1. k \in 1..(Len(ran) - 1) /\ k + 1 \in 1..Len(ran)
            BY <1>6, <3>0, <3>2
          <5>. QED
            BY <1>6, <5>1
        <4>. QED
          BY <3>0, <4>1 DEF LineInv, InOrder
      <3>. QED
        BY <3>1, <3>2
    <2>. QED
      BY <2>1 DEF InOrder
  <1>. QED
    BY <1>7, <1>8, <1>9 DEF LineInv

LEMMA LineKeeps ==
  ASSUME LineInv, line' = line, ran' = ran, pos' \in pos..n, phase' \in {"run", "busy", "over"}
  PROVE  LineInv'
  <1>1. n \in Nat /\ LineOK /\ pos \in 0..n /\ ran \in Seq(Nat \X Nat)
    BY DEF LineInv, RanType, LineOK, n
  <1>2. RanType'
    BY <1>1 DEF LineInv, RanType, LineOK, n
  <1>3. InOrder'
    BY DEF LineInv, InOrder
  <1>4. \A a, b : Whole(a, b)' = Whole(a, b)
    BY LineStays
  <1>5. ASSUME NEW k \in 1..Len(ran)
        PROVE  /\ 1 <= ran[k][1] /\ ran[k][1] <= ran[k][2] /\ ran[k][2] <= pos'
               /\ Whole(ran[k][1], ran[k][2])
    <2>1. ran[k] \in Nat \X Nat
      BY <1>1
    <2>2. /\ 1 <= ran[k][1] /\ ran[k][1] <= ran[k][2] /\ ran[k][2] <= pos
          /\ Whole(ran[k][1], ran[k][2])
      BY DEF LineInv, InPlace
    <2>. QED
      BY <1>1, <2>1, <2>2
  <1>6. InPlace'
    BY <1>4, <1>5 DEF InPlace
  <1>. QED
    BY <1>2, <1>3, <1>6 DEF LineInv

\* What is left at the end of a line is separators, or no command.
LEMMA OverIs ==
  ASSUME LineInv, Over
  PROVE  /\ pos' \in pos..n /\ \A j \in (pos + 1)..pos' : line[j] \in Skipped(j)
         /\ line' = line /\ ran' = ran /\ phase' = "over" /\ (res' = "OK" => res = "OK" /\ pos' = n)
  <1>1. n \in Nat /\ LineOK /\ pos \in 0..n
    BY DEF LineInv, RanType, LineOK, n
  <1>2. PICK start \in 1..(n + 1) : start = pos + 1
    BY <1>1
  <1>3. PICK first \in start..(n + 1) : first = CommandStart(start)
    BY <1>1, <1>2, StartIs
  <1>4. /\ pos' = first - 1 /\ line' = line /\ ran' = ran /\ phase' = "over" /\ res = "OK"
        /\ res' = IF pos' < n THEN "ERROR" ELSE "OK"
    BY <1>2, <1>3 DEF Over
  <1>5. pos' \in pos..n
    BY <1>1, <1>2, <1>3, <1>4
  <1>6. \A j \in (pos + 1)..pos' : line[j] \in Skipped(j)
    BY <1>1, <1>2, <1>3, <1>4, StartIs
  <1>. QED
    BY <1>1, <1>4, <1>5, <1>6

-----------------------------------------------------------------------------
(***************************************************************************)
(* Nothing but separators is passed over, if what follows the literal in   *)
(* memory is nothing but separators.                                       *)
(***************************************************************************)
Separators == {" ", ";"}

Harmless == \A k \in DOMAIN Adjacent : Adjacent[k] \in Separators

GapsInv == \A i \in 1..pos : line[i] \in Separators \/ \E k \in 1..Len(ran) : ran[k][1] <= i /\ i <= ran[k][2]

LEMMA SkippedAre ==
  ASSUME Harmless, NEW j
  PROVE  Skipped(j) \subseteq Separators
  BY DEF Harmless, Skipped, Spaces, Separators

LEMMA GapsFollow ==
  ASSUME Harmless, LineInv, GapsInv
  PROVE  /\ Run \/ Over => GapsInv'
         /\ line' = line /\ ran' = ran /\ pos' = pos => GapsInv'
  <1>1. n \in Nat /\ pos \in 0..n /\ ran \in Seq(Nat \X Nat) /\ Len(ran) \in Nat
    BY DEF LineInv, RanType, LineOK, n
  <1>2. ASSUME Run PROVE GapsInv'
    <2>1. PICK first \in (pos + 1)..n : \E last \in first..n :
             /\ ran' = Append(ran, <<first, last>>) /\ pos' = last
             /\ \A j \in (pos + 1)..(first - 1) : line[j] \in Skipped(j)
             /\ line' = line
      BY <1>2, RunIs
    <2>2. PICK last \in first..n :
             /\ ran' = Append(ran, <<first, last>>) /\ pos' = last
             /\ \A j \in (pos + 1)..(first - 1) : line[j] \in Skipped(j)
             /\ line' = line
      BY <2>1
    <2>3. <<first, last>> \in Nat \X Nat
      BY <1>1
    <2>4. Len(ran') = Len(ran) + 1
          /\ (\A k \in 1..Len(ran) : ran'[k] = ran[k]) /\ ran'[Len(ran) + 1] = <<first, last>>
      BY <1>1, <2>2, <2>3, AppendProperties
    <2>5. ASSUME NEW i \in 1..pos'
          PROVE  line[i] \in Separators \/ \E k \in 1..Len(ran') : ran'[k][1] <= i /\ i <= ran'[k][2]
      <3>1. CASE i <= pos
        <4>1. line[i] \in Separators \/ \E k \in 1..Len(ran) : ran[k][1] <= i /\ i <= ran[k][2]
          BY <1>1, <3>1 DEF GapsInv
        <4>2. ASSUME NEW k \in 1..Len(ran), ran[k][1] <= i, i <= ran[k][2]
              PROVE  k \in 1..Len(ran') /\ ran'[k][1] <= i /\ i <= ran'[k][2]
          <5>1. k \in 1..Len(ran') /\ ran'[k] = ran[k]
            BY <1>1, <2>4
          <5>. QED
            BY <4>2, <5>1
        <4>. QED
          BY <4>1, <4>2
      <3>2. CASE pos < i /\ i < first
        <4>1. line[i] \in Skipped(i)
          BY <1>1, <2>2, <3>2
        <4>. QED
          BY <4>1, SkippedAre
      <3>3. CASE first <= i
        <4>1. Len(ran) + 1 \in 1..Len(ran') /\ i <= last
          BY <1>1, <2>2, <2>4
        <4>2. ran'[Len(ran) + 1][1] = first /\ ran'[Len(ran) + 1][2] = last
          BY <2>4
        <4>. QED
          BY <3>3, <4>1, <4>2
      <3>. QED
        BY <1>1, <2>2, <3>1, <3>2, <3>3
    <2>. QED
      BY <2>2, <2>5 DEF GapsInv
  <1>3. ASSUME Over PROVE GapsInv'
    <2>1. /\ pos' \in pos..n /\ \A j \in (pos + 1)..pos' : line[j] \in Skipped(j)
          /\ line' = line /\ ran' = ran
      BY <1>3, OverIs
    <2>2. ASSUME NEW i \in 1..pos'
          PROVE  line[i] \in Separators \/ \E k \in 1..Len(ran) : ran[k][1] <= i /\ i <= ran[k][2]
      <3>1. CASE i <= pos
        BY <1>1, <3>1 DEF GapsInv
      <3>2. CASE pos < i
        <4>1. line[i] \in Skipped(i)
          BY <1>1, <2>1, <3>2
        <4>. QED
          BY <4>1, SkippedAre
      <3>. QED
        BY <1>1, <2>1, <3>1, <3>2
    <2>. QED
      BY <2>1, <2>2 DEF GapsInv
  <1>4. ASSUME line' = line, ran' = ran, pos' = pos PROVE GapsInv'
    BY <1>4 DEF GapsInv
  <1>. QED
    BY <1>2, <1>3, <1>4

LEMMA GapsMean ==
  ASSUME LineInv, GapsInv
  PROVE  OnlySeparatorsSkipped
  <1>1. n \in Nat /\ pos \in 0..n /\ ran \in Seq(Nat \X Nat) /\ Len(ran) \in Nat /\ DOMAIN ran = 1..Len(ran)
    BY DEF LineInv, RanType, LineOK, n
  <1>2. ASSUME NEW i \in Gaps
        PROVE  line[i] \in Separators
    <2>1. i \in 1..pos /\ \A k \in 1..Len(ran) : i < ran[k][1] \/ i > ran[k][2]
      BY <1>1 DEF Gaps
    <2>2. \A k \in 1..Len(ran) : ran[k][1] \in Nat /\ ran[k][2] \in Nat
      BY <1>1
    <2>3. ASSUME NEW k \in 1..Len(ran), ran[k][1] <= i, i <= ran[k][2]
          PROVE  FALSE
      <3>1. ran[k][1] \in Nat /\ ran[k][2] \in Nat /\ i \in Nat
        BY <1>1, <2>1, <2>2
      <3>2. ~(i < ran[k][1]) /\ ~(i > ran[k][2])
        BY <2>3, <3>1
      <3>. QED
        BY <2>1, <3>2
    <2>. QED
      BY <2>1, <2>3 DEF GapsInv
  <1>. QED
    BY <1>2 DEF OnlySeparatorsSkipped, LineInv, InOrder, Separators

LEMMA PlacesMean ==
  ASSUME LineInv
  PROVE  StringsWhole
  <1>1. ran \in Seq(Nat \X Nat) /\ DOMAIN ran = 1..Len(ran)
    BY DEF LineInv, RanType
  <1>2. ASSUME NEW k \in DOMAIN ran, Extended(k)
        PROVE  Cardinality(Quotes(k)) % 2 = 0
    <2>1. ran[k] \in Nat \X Nat /\ Whole(ran[k][1], ran[k][2])
      BY <1>1 DEF LineInv, InPlace
    <2>2. PICK first \in Nat, last \in Nat : first = ran[k][1] /\ last = ran[k][2]
      BY <2>1
    <2>3. Cardinality(Quoted(first, last + 1)) % 2 = 0
      BY <1>2, <2>1, <2>2 DEF Whole, Extended
    <2>4. (last + 1) - 1 = last
      BY <2>2
    <2>5. Quoted(first, last + 1) = Quotes(k)
      BY <2>2, <2>4 DEF Quoted, Quotes
    <2>. QED
      BY <2>3, <2>5
  <1>. QED
    BY <1>2 DEF StringsWhole

-----------------------------------------------------------------------------
(***************************************************************************)
(* The order of characters in the bank. (The SMT solver is not given the   *)
(* characters of separators, which its encoding does not take.)            *)
(***************************************************************************)
LEMMA OrderIs ==
  /\ DOMAIN Bank!Order = 1..11
  /\ Bank!Order[2] = Quote /\ Bank!Order[3] = "&" /\ Bank!Order[4] = "+"
  /\ Bank!Order[5] = "1" /\ Bank!Order[7] = "=" /\ Bank!Order[8] = "?"
  /\ Bank!Order[9] = "D" /\ Bank!Order[10] = "S" /\ Bank!Order[11] = "Z"
  BY DEF Bank!Order, Quote

LEMMA SeparatorsOrder == Bank!Order[1] = " " /\ Bank!Order[6] = ";"
  BY DEF Bank!Order

\* (The SMT solver is not given the characters of separators.)
LEMMA OrderHas ==
  ASSUME NEW c \in Chars
  PROVE  \E i \in 1..11 : Bank!Order[i] = c
  <1>. DEFINE Ordered == {Bank!Order[i] : i \in 1..11}
  <1>0. \A i \in 1..11 : Bank!Order[i] \in Ordered
    OBVIOUS
  <1>. HIDE DEF Ordered
  <1>1. \A d \in {"D", "S", "Z", "1", "&", "+", "=", "?", Quote} : d \in Ordered
    BY <1>0, OrderIs
  <1>2. Bank!Order[1] \in Ordered /\ Bank!Order[6] \in Ordered
    BY <1>0
  <1>3. " " \in Ordered /\ ";" \in Ordered
    BY <1>2, SeparatorsOrder, Zenon
  <1>4. c \in {"D", "S", "Z", "1", "&", "+", "=", "?", Quote} \/ c = " " \/ c = ";"
    BY Zenon DEF Chars, Letters, Digits, Spaces
  <1>5. c \in Ordered
    BY <1>1, <1>3, <1>4, Zenon
  <1>. QED
    BY <1>5 DEF Ordered

LEMMA AlnumAre ==
  ASSUME NEW i \in 1..11
  PROVE  Bank!Order[i] \in Bank!Alnum <=> i = 5 \/ i >= 9
  <1>1. i = 5 \/ i = 9 \/ i = 10 \/ i = 11 => Bank!Order[i] \in Bank!Alnum
    BY OrderIs DEF Bank!Alnum
  <1>2. i = 3 \/ i = 4 \/ i = 7 \/ i = 8 => Bank!Order[i] \notin Bank!Alnum
    BY OrderIs DEF Bank!Alnum
  <1>3. Bank!Order[2] \notin Bank!Alnum
    BY OrderIs, Zenon DEF Bank!Alnum, Quote
  <1>4. Bank!Order[1] \notin Bank!Alnum /\ Bank!Order[6] \notin Bank!Alnum
    BY SeparatorsOrder, Zenon DEF Bank!Alnum
  <1>. QED
    BY <1>1, <1>2, <1>3, <1>4

LEMMA AlnumIs == Bank!Alnum = Letters \cup {"1"} /\ Bank!Alnum \subseteq Chars
  BY DEF Bank!Alnum, Letters, Digits, Chars

LEMMA RankIs ==
  ASSUME NEW c \in Chars
  PROVE  /\ Bank!Rank(c) \in 1..11 /\ Bank!Order[Bank!Rank(c)] = c
         /\ c \in Bank!Alnum <=> Bank!Rank(c) = 5 \/ Bank!Rank(c) >= 9
         /\ c \in Bank!Alnum /\ c # "1" => Bank!Rank(c) >= 9
  <1>1. \E i \in DOMAIN Bank!Order : Bank!Order[i] = c
    BY OrderHas, OrderIs
  <1>2. Bank!Rank(c) \in DOMAIN Bank!Order /\ Bank!Order[Bank!Rank(c)] = c
    BY <1>1 DEF Bank!Rank
  <1>3. PICK i \in 1..11 : i = Bank!Rank(c)
    BY <1>2, OrderIs
  <1>4. Bank!Order[i] \in Bank!Alnum <=> i = 5 \/ i >= 9
    BY AlnumAre
  <1>5. Bank!Order[5] = "1"
    BY OrderIs
  <1>. QED
    BY <1>2, <1>3, <1>4, <1>5

\* strncasecmp() is decided by the first difference.
LEMMA CharAtIs ==
  ASSUME NEW s \in Seq(Chars), NEW i \in Nat \ {0}
  PROVE  /\ Bank!CharAt(s, i) \in 0..11
         /\ Bank!CharAt(s, i) = 0 <=> i > Len(s)
         /\ i <= Len(s) => Bank!CharAt(s, i) = Bank!Rank(s[i]) /\ s[i] \in Chars
  <1>1. CASE i <= Len(s)
    <2>1. s[i] \in Chars
      BY <1>1
    <2>2. Bank!CharAt(s, i) = Bank!Rank(s[i])
      BY <1>1 DEF Bank!CharAt
    <2>3. Bank!Rank(s[i]) \in 1..11
      BY <2>1, RankIs
    <2>. QED
      BY <1>1, <2>1, <2>2, <2>3
  <1>2. CASE ~(i <= Len(s))
    BY <1>2 DEF Bank!CharAt
  <1>. QED
    BY <1>1, <1>2

LEMMA SameCharacter ==
  ASSUME NEW s \in Seq(Chars), NEW t \in Seq(Chars), NEW i \in Nat \ {0},
         i <= Len(s), Bank!CharAt(s, i) = Bank!CharAt(t, i)
  PROVE  i <= Len(t) /\ s[i] = t[i]
  <1>1. i <= Len(t)
    BY CharAtIs
  <1>2. /\ s[i] \in Chars /\ t[i] \in Chars
        /\ Bank!CharAt(s, i) = Bank!Rank(s[i]) /\ Bank!CharAt(t, i) = Bank!Rank(t[i])
    BY <1>1, CharAtIs
  <1>3. Bank!Order[Bank!Rank(s[i])] = s[i] /\ Bank!Order[Bank!Rank(t[i])] = t[i]
    BY <1>2, RankIs
  <1>. QED
    BY <1>1, <1>2, <1>3

\* The strings are the same up to a position, and differ there.
FirstDifference(a, b, i) ==
  /\ \A j \in 1..(i - 1) : Bank!CharAt(a, j) = Bank!CharAt(b, j)
  /\ Bank!CharAt(a, i) # Bank!CharAt(b, i)

LEMMA CompareIs ==
  ASSUME NEW a \in Seq(Chars), NEW b \in Seq(Chars), NEW k \in Nat
  PROVE  \/ Bank!Compare(a, b, k) = 0 /\ \A i \in 1..k : Bank!CharAt(a, i) = Bank!CharAt(b, i)
         \/ \E i \in 1..k : /\ FirstDifference(a, b, i)
                            /\ Bank!Compare(a, b, k) = Bank!CharAt(a, i) - Bank!CharAt(b, i)
  <1>. DEFINE diff == {i \in 1..k : Bank!CharAt(a, i) # Bank!CharAt(b, i)}
  <1>1. CASE diff = {}
    BY <1>1 DEF Bank!Compare
  <1>2. CASE diff # {}
    <2>1. diff \in SUBSET Nat
      OBVIOUS
    <2>2. Least(diff) \in diff /\ \A j \in diff : Least(diff) <= j
      BY <1>2, <2>1, LeastIs
    <2>3. PICK i \in diff : i = Least(diff)
      BY <2>2
    <2>4. Bank!Compare(a, b, k) = Bank!CharAt(a, i) - Bank!CharAt(b, i)
      BY <1>2, <2>3 DEF Bank!Compare, Least
    <2>5. ASSUME NEW j \in 1..(i - 1)
          PROVE  Bank!CharAt(a, j) = Bank!CharAt(b, j)
      <3>1. j \in 1..k /\ ~(i <= j)
        BY <2>3
      <3>. QED
        BY <2>2, <2>3, <3>1
    <2>. QED
      BY <2>3, <2>4, <2>5 DEF FirstDifference
  <1>. QED
    BY <1>1, <1>2

LEMMA CompareAt ==
  ASSUME NEW a \in Seq(Chars), NEW b \in Seq(Chars), NEW k \in Nat, NEW i \in 1..k,
         FirstDifference(a, b, i)
  PROVE  Bank!Compare(a, b, k) = Bank!CharAt(a, i) - Bank!CharAt(b, i)
  <1>1. ~\A j \in 1..k : Bank!CharAt(a, j) = Bank!CharAt(b, j)
    BY DEF FirstDifference
  <1>2. PICK j \in 1..k : /\ FirstDifference(a, b, j)
                          /\ Bank!Compare(a, b, k) = Bank!CharAt(a, j) - Bank!CharAt(b, j)
    BY <1>1, CompareIs
  <1>3. ~(i < j) /\ ~(j < i)
    BY <1>2 DEF FirstDifference
  <1>4. i = j
    BY <1>3
  <1>. QED
    BY <1>2, <1>4

\* The character after a name in a request is none that a name continues with.
Stops(c) == c # 5 /\ c < 9

LEMMA StopsIs ==
  ASSUME NEW s \in Seq(Chars), NEW i \in Nat \ {0}
  PROVE  Stops(Bank!CharAt(s, i)) <=> (Len(s) >= i => s[i] \notin Bank!Alnum)
  <1>1. CASE i <= Len(s)
    <2>1. s[i] \in Chars /\ Bank!CharAt(s, i) = Bank!Rank(s[i])
      BY <1>1, CharAtIs
    <2>2. PICK k \in 1..11 : k = Bank!Rank(s[i]) /\ (s[i] \in Bank!Alnum <=> k = 5 \/ k >= 9)
      BY <2>1, RankIs
    <2>3. k # 5 /\ k < 9 <=> s[i] \notin Bank!Alnum
      BY <2>2
    <2>4. Stops(Bank!CharAt(s, i)) <=> k # 5 /\ k < 9
      BY <2>1, <2>2 DEF Stops
    <2>. QED
      BY <1>1, <2>3, <2>4
  <1>2. CASE ~(i <= Len(s))
    BY <1>2 DEF Stops, Bank!CharAt
  <1>. QED
    BY <1>1, <1>2

Agree(s, t, k) == \A i \in 1..k : Bank!CharAt(s, i) = Bank!CharAt(t, i)

\* That one string begins with another.
LEMMA BeginsIs ==
  ASSUME NEW s \in Seq(Chars), NEW x \in Seq(Chars)
  PROVE  Len(x) <= Len(s) /\ SubSeq(s, 1, Len(x)) = x <=> Agree(s, x, Len(x))
  <1>1. ASSUME Len(x) <= Len(s), SubSeq(s, 1, Len(x)) = x
        PROVE  Agree(s, x, Len(x))
    <2>1. ASSUME NEW i \in 1..Len(x)
          PROVE  Bank!CharAt(s, i) = Bank!CharAt(x, i)
      <3>1. SubSeq(s, 1, Len(x))[i] = s[i]
        BY <1>1
      <3>. QED
        BY <1>1, <3>1 DEF Bank!CharAt
    <2>. QED
      BY <2>1 DEF Agree
  <1>2. ASSUME Agree(s, x, Len(x))
        PROVE  Len(x) <= Len(s) /\ SubSeq(s, 1, Len(x)) = x
    <2>1. ASSUME NEW i \in 1..Len(x)
          PROVE  i <= Len(s) /\ x[i] = s[i]
      <3>1. Bank!CharAt(x, i) = Bank!CharAt(s, i) /\ i \in Nat \ {0} /\ i <= Len(x)
        BY <1>2 DEF Agree
      <3>. QED
        BY <3>1, SameCharacter
    <2>2. Len(x) <= Len(s)
      <3>1. CASE Len(x) = 0
        BY <3>1
      <3>2. CASE Len(x) # 0
        BY <2>1, <3>2
      <3>. QED
        BY <3>1, <3>2
    <2>3. /\ SubSeq(s, 1, Len(x)) \in Seq(Chars) /\ Len(SubSeq(s, 1, Len(x))) = Len(x)
          /\ \A i \in 1..Len(x) : SubSeq(s, 1, Len(x))[i] = s[i]
      BY <2>2
    <2>. QED
      BY <2>1, <2>2, <2>3
  <1>. QED
    BY <1>1, <1>2

RequestOK == request \in Seq(Chars)

LEMMA NamedIs ==
  ASSUME RequestOK, NEW x \in Seq(Chars)
  PROVE  Bank!Named(x) <=> Agree(request, x, Len(x)) /\ Stops(Bank!CharAt(request, Len(x) + 1))
  <1>1. Len(x) <= Len(request) /\ SubSeq(request, 1, Len(x)) = x <=> Agree(request, x, Len(x))
    BY BeginsIs DEF RequestOK
  <1>2. PICK i \in Nat \ {0} : i = Len(x) + 1
    OBVIOUS
  <1>3. Stops(Bank!CharAt(request, i)) <=> (Len(request) >= i => request[i] \notin Bank!Alnum)
    BY StopsIs DEF RequestOK
  <1>4. Len(request) >= i <=> Len(request) > Len(x)
    BY <1>2 DEF RequestOK
  <1>. QED
    BY <1>1, <1>2, <1>3, <1>4 DEF Bank!Named

LEMMA MatchIs ==
  ASSUME RequestOK, NEW name \in Seq(Chars)
  PROVE  \/ Bank!ext_match(request, name) = 0 /\ Bank!Named(name)
         \/ /\ Bank!ext_match(request, name) = 1 /\ Agree(request, name, Len(name))
            /\ ~Stops(Bank!CharAt(request, Len(name) + 1))
         \/ \E i \in 1..Len(name) :
              /\ FirstDifference(request, name, i)
              /\ Bank!ext_match(request, name) = Bank!CharAt(request, i) - Bank!CharAt(name, i)
  <1>. DEFINE val == Bank!Compare(request, name, Len(name))
              longer == Len(request) > Len(name) /\ request[Len(name) + 1] \in Bank!Alnum
  <1>1. Bank!ext_match(request, name) = IF val # 0 THEN val ELSE IF longer THEN 1 ELSE 0
    BY DEF Bank!ext_match
  <1>2. PICK i \in Nat \ {0} : i = Len(name) + 1
    OBVIOUS
  <1>3. Stops(Bank!CharAt(request, i)) <=> (Len(request) >= i => request[i] \notin Bank!Alnum)
    BY StopsIs DEF RequestOK
  <1>4. Len(request) >= i <=> Len(request) > Len(name)
    BY <1>2 DEF RequestOK
  <1>5. longer <=> ~Stops(Bank!CharAt(request, Len(name) + 1))
    BY <1>2, <1>3, <1>4
  <1>6. \/ val = 0 /\ Agree(request, name, Len(name))
        \/ \E k \in 1..Len(name) :
             FirstDifference(request, name, k) /\ val = Bank!CharAt(request, k) - Bank!CharAt(name, k)
    BY CompareIs DEF RequestOK, Agree
  <1>. HIDE DEF longer, val
  <1>7. CASE val = 0 /\ Agree(request, name, Len(name)) /\ longer
    BY <1>1, <1>5, <1>7
  <1>8. CASE val = 0 /\ Agree(request, name, Len(name)) /\ ~longer
    BY <1>1, <1>5, <1>8, NamedIs
  <1>9. CASE \E k \in 1..Len(name) :
               FirstDifference(request, name, k) /\ val = Bank!CharAt(request, k) - Bank!CharAt(name, k)
    <2>1. PICK k \in 1..Len(name) :
            FirstDifference(request, name, k) /\ val = Bank!CharAt(request, k) - Bank!CharAt(name, k)
      BY <1>9
    <2>2. PICK j \in Nat \ {0} : j = k
      OBVIOUS
    <2>3. Bank!CharAt(request, j) \in 0..11 /\ Bank!CharAt(name, j) \in 0..11
      BY CharAtIs DEF RequestOK
    <2>4. val # 0
      BY <2>1, <2>2, <2>3, SMTT(30) DEF FirstDifference
    <2>. QED
      BY <1>1, <2>1, <2>4
  <1>. QED
    BY <1>6, <1>7, <1>8, <1>9

\* The order of the tree, by the first difference or by the length.
LEMMA CmpIs ==
  ASSUME NEW a \in Seq(Chars), NEW b \in Seq(Chars)
  PROVE  /\ \A i \in 1..Len(a) : i <= Len(b) /\ FirstDifference(a, b, i) =>
              Bank!ext_cmp(a, b) = Bank!CharAt(a, i) - Bank!CharAt(b, i)
         /\ Len(a) <= Len(b) /\ Agree(a, b, Len(a)) => Bank!ext_cmp(a, b) = Len(a) - Len(b)
         /\ Len(b) <= Len(a) /\ Agree(a, b, Len(b)) => Bank!ext_cmp(a, b) = Len(a) - Len(b)
  <1>1. PICK k \in Nat : k = Bank!Smaller(Len(a), Len(b))
    BY DEF Bank!Smaller
  <1>2. k = (IF Len(a) < Len(b) THEN Len(a) ELSE Len(b))
    BY <1>1 DEF Bank!Smaller
  <1>3. Bank!ext_cmp(a, b) = IF Bank!Compare(a, b, k) # 0 THEN Bank!Compare(a, b, k) ELSE Len(a) - Len(b)
    BY <1>1 DEF Bank!ext_cmp
  <1>4. ASSUME NEW i \in 1..Len(a), i <= Len(b), FirstDifference(a, b, i)
        PROVE  Bank!ext_cmp(a, b) = Bank!CharAt(a, i) - Bank!CharAt(b, i)
    <2>1. i \in 1..k /\ i \in Nat \ {0}
      BY <1>2, <1>4
    <2>2. Bank!Compare(a, b, k) = Bank!CharAt(a, i) - Bank!CharAt(b, i)
      BY <1>4, <2>1, CompareAt
    <2>3. Bank!CharAt(a, i) \in 0..11 /\ Bank!CharAt(b, i) \in 0..11
      BY <2>1, CharAtIs
    <2>4. Bank!CharAt(a, i) # Bank!CharAt(b, i)
      BY <1>4 DEF FirstDifference
    <2>5. PICK p \in 0..11, q \in 0..11 : p = Bank!CharAt(a, i) /\ q = Bank!CharAt(b, i)
      BY <2>3
    <2>6. p - q # 0
      BY <2>4, <2>5
    <2>7. Bank!Compare(a, b, k) # 0
      BY <2>2, <2>5, <2>6
    <2>. QED
      BY <1>3, <2>2, <2>7
  <1>5. ASSUME Agree(a, b, k)
        PROVE  Bank!ext_cmp(a, b) = Len(a) - Len(b)
    <2>1. Bank!Compare(a, b, k) = 0
      BY <1>5, CompareIs DEF Agree, FirstDifference
    <2>. QED
      BY <1>3, <2>1
  <1>6. Len(a) <= Len(b) => k = Len(a)
    BY <1>2
  <1>7. Len(b) <= Len(a) => k = Len(b)
    BY <1>2
  <1>. QED
    BY <1>4, <1>5, <1>6, <1>7

\* A longer name continues a shorter one with a letter.
LEMMA ContinuesIs ==
  ASSUME BankAssumption, NEW x \in Names, NEW name \in Names,
         Len(x) < Len(name), Agree(name, x, Len(x))
  PROVE  Bank!CharAt(name, Len(x) + 1) >= 9
  <1>1. x \in Seq(Chars) /\ name \in Seq(Chars) /\ x # <<>>
    BY DEF BankAssumption
  <1>2. PICK k \in 2..Len(name) : k = Len(x) + 1
    BY <1>1
  <1>3. SubSeq(name, 1, Len(x)) = x
    BY <1>1, BeginsIs
  <1>4. name[k] # "1" /\ name[k] \in Letters \cup {"1"}
    <2>1. name[Len(x) + 1] # "1"
      BY <1>1, <1>3 DEF BankAssumption
    <2>2. name[k] \in Letters \cup {"1"}
      BY <1>2 DEF BankAssumption
    <2>. QED
      BY <1>2, <2>1, <2>2
  <1>5. name[k] \in Bank!Alnum
    BY <1>4, AlnumIs
  <1>6. name[k] \in Chars /\ Bank!CharAt(name, k) = Bank!Rank(name[k])
    BY <1>1, <1>2, CharAtIs
  <1>7. Bank!Rank(name[k]) >= 9
    BY <1>4, <1>5, <1>6, RankIs
  <1>. QED
    BY <1>2, <1>6, <1>7

\* A search goes where the named handler is, from any node.
LEMMA SearchFollows ==
  ASSUME BankAssumption, RequestOK, NEW x \in Names, NEW name \in Names, Bank!Named(x)
  PROVE  /\ Bank!ext_match(request, name) < 0 => Bank!ext_cmp(x, name) < 0
         /\ Bank!ext_match(request, name) > 0 => Bank!ext_cmp(x, name) > 0
  <1>1. x \in Seq(Chars) /\ name \in Seq(Chars) /\ x # <<>>
    BY DEF BankAssumption
  <1>2. Agree(request, x, Len(x)) /\ Stops(Bank!CharAt(request, Len(x) + 1))
    BY <1>1, NamedIs
  <1>3. ASSUME Len(x) < Len(name), Agree(request, name, Len(x))
        PROVE  /\ Bank!CharAt(request, Len(x) + 1) < Bank!CharAt(name, Len(x) + 1)
               /\ Agree(x, name, Len(x))
    <2>1. Agree(name, x, Len(x)) /\ Agree(x, name, Len(x))
      BY <1>2, <1>3 DEF Agree
    <2>2. PICK k \in Nat \ {0} : k = Len(x) + 1
      BY <1>1
    <2>3. Bank!CharAt(request, k) \in 0..11 /\ Bank!CharAt(name, k) \in 0..11
      BY <1>1, CharAtIs DEF RequestOK
    <2>4. Bank!CharAt(name, k) >= 9
      BY <1>3, <2>1, <2>2, ContinuesIs
    <2>. QED
      BY <1>2, <2>1, <2>2, <2>3, <2>4 DEF Stops
  <1>4. CASE \E i \in 1..Len(name) :
               /\ FirstDifference(request, name, i)
               /\ Bank!ext_match(request, name) = Bank!CharAt(request, i) - Bank!CharAt(name, i)
    <2>1. PICK i \in 1..Len(name) :
               /\ FirstDifference(request, name, i)
               /\ Bank!ext_match(request, name) = Bank!CharAt(request, i) - Bank!CharAt(name, i)
      BY <1>4
    <2>2. CASE i <= Len(x)
      <3>1. i \in 1..Len(x)
        BY <1>1, <2>2
      <3>2. \A j \in 1..i : Bank!CharAt(x, j) = Bank!CharAt(request, j)
        BY <1>1, <1>2, <3>1 DEF Agree
      <3>3. FirstDifference(x, name, i)
        BY <2>1, <3>1, <3>2 DEF FirstDifference
      <3>4. Bank!ext_cmp(x, name) = Bank!CharAt(x, i) - Bank!CharAt(name, i)
        BY <1>1, <3>1, <3>3, CmpIs
      <3>5. Bank!CharAt(x, i) = Bank!CharAt(request, i)
        BY <3>1, <3>2
      <3>. QED
        BY <2>1, <3>4, <3>5
    <2>3. CASE ~(i <= Len(x))
      <3>1. Len(x) < Len(name) /\ Agree(request, name, Len(x))
        BY <1>1, <2>1, <2>3 DEF FirstDifference, Agree
      <3>2. Bank!CharAt(request, Len(x) + 1) < Bank!CharAt(name, Len(x) + 1)
        BY <1>3, <3>1
      <3>3. Bank!ext_cmp(x, name) = Len(x) - Len(name)
        BY <1>1, <1>3, <3>1, CmpIs
      <3>4. i = Len(x) + 1
        <4>1. SUFFICES ASSUME i # Len(x) + 1 PROVE FALSE
          OBVIOUS
        <4>2. Len(x) + 1 \in 1..(i - 1)
          BY <1>1, <2>3, <4>1
        <4>3. Bank!CharAt(request, Len(x) + 1) = Bank!CharAt(name, Len(x) + 1)
          BY <2>1, <4>2 DEF FirstDifference
        <4>4. PICK k \in Nat \ {0} : k = Len(x) + 1
          BY <1>1
        <4>5. Bank!CharAt(request, k) \in 0..11
          BY CharAtIs DEF RequestOK
        <4>. QED
          BY <3>2, <4>3, <4>4, <4>5
      <3>5. Bank!ext_match(request, name) = Bank!CharAt(request, Len(x) + 1) - Bank!CharAt(name, Len(x) + 1)
        BY <2>1, <3>4
      <3>6. PICK k \in Nat \ {0} : k = Len(x) + 1
        BY <1>1
      <3>7. Bank!CharAt(request, k) \in 0..11 /\ Bank!CharAt(name, k) \in 0..11
        BY <1>1, CharAtIs DEF RequestOK
      <3>8. Bank!ext_match(request, name) < 0
        <4>1. \A a \in 0..11, b \in 0..11 : a < b => a - b < 0
          OBVIOUS
        <4>2. Bank!CharAt(request, k) < Bank!CharAt(name, k)
          BY <3>2, <3>6, Zenon
        <4>3. Bank!ext_match(request, name) = Bank!CharAt(request, k) - Bank!CharAt(name, k)
          BY <3>5, <3>6, Zenon
        <4>. QED
          BY <3>7, <4>1, <4>2, <4>3, Zenon
      <3>9. Bank!ext_cmp(x, name) < 0
        BY <1>1, <3>1, <3>3
      <3>10. ~(Bank!ext_match(request, name) > 0)
        <4>1. \A a \in 0..11, b \in 0..11 : a < b => ~(a - b > 0)
          OBVIOUS
        <4>2. Bank!CharAt(request, k) < Bank!CharAt(name, k)
          BY <3>2, <3>6, Zenon
        <4>3. Bank!ext_match(request, name) = Bank!CharAt(request, k) - Bank!CharAt(name, k)
          BY <3>5, <3>6, Zenon
        <4>. QED
          BY <3>7, <4>1, <4>2, <4>3, Zenon
      <3>. QED
        BY <3>8, <3>9, <3>10, Zenon
    <2>. QED
      BY <2>2, <2>3
  <1>5. CASE /\ Bank!ext_match(request, name) = 1 /\ Agree(request, name, Len(name))
             /\ ~Stops(Bank!CharAt(request, Len(name) + 1))
    <2>1. CASE Len(name) < Len(x)
      <3>1. Agree(x, name, Len(name))
        BY <1>1, <1>2, <1>5, <2>1 DEF Agree
      <3>2. Bank!ext_cmp(x, name) = Len(x) - Len(name)
        BY <1>1, <2>1, <3>1, CmpIs
      <3>. QED
        BY <1>1, <1>5, <2>1, <3>2
    <2>2. CASE Len(name) = Len(x)
      BY <1>2, <1>5, <2>2
    <2>3. CASE Len(x) < Len(name)
      <3>1. Agree(request, name, Len(x)) /\ Len(x) + 1 \in 1..Len(name)
        BY <1>1, <1>5, <2>3 DEF Agree
      <3>2. Bank!CharAt(request, Len(x) + 1) < Bank!CharAt(name, Len(x) + 1)
        BY <1>3, <2>3, <3>1
      <3>3. Bank!CharAt(request, Len(x) + 1) = Bank!CharAt(name, Len(x) + 1)
        BY <1>5, <3>1 DEF Agree
      <3>4. PICK k \in Nat \ {0} : k = Len(x) + 1
        BY <1>1
      <3>5. Bank!CharAt(request, k) \in 0..11
        BY CharAtIs DEF RequestOK
      <3>. QED
        BY <3>2, <3>3, <3>4, <3>5
    <2>. QED
      BY <1>1, <2>1, <2>2, <2>3
  <1>6. CASE Bank!ext_match(request, name) = 0
    BY <1>6
  <1>. QED
    BY <1>1, <1>4, <1>5, <1>6, MatchIs

-----------------------------------------------------------------------------
(***************************************************************************)
(* The invariant of the execution of a line.                               *)
(***************************************************************************)
BankType == DOMAIN bank \subseteq Names /\ RequestOK /\ subtree \subseteq DOMAIN bank

\* After its name, and what is attached to it, a command asks, sets or ends.
WellFormed(cmd) ==
  \E i \in 1..(Len(cmd) + 1) : (\A k \in 1..(i - 1) : cmd[k] \notin {"?", "=", " "}) /\ Asks(cmd, i)

\* What the search has excluded is not what the request names.
SearchInv ==
  /\ request = <<>> => node = <<>> /\ call = "none"
  /\ node # <<>> => node \in DOMAIN bank /\ Bank!Named(node)
  /\ request # <<>> /\ node = <<>> => \A x \in DOMAIN bank : Bank!Named(x) => x \in subtree
  /\ call # "none" => request # <<>> /\ (node # <<>> \/ (subtree = {} /\ call = "error"))
  /\ call \notin {"none", "error"} => WellFormed(request)

BankInv == BankType /\ SearchInv

\* The command that runs is the last one; an extended one is the bank's request.
BusyInv ==
  /\ phase = "busy" => /\ res = "OK" /\ Len(ran) >= 1
                       /\ IF request = <<>> THEN Basic(Command) ELSE request = Command
  /\ phase # "busy" => request = <<>>

\* As long as no command failed, all but the one that runs are known.
Handled(k) == Known(SubSeq(line, ran[k][1], ran[k][2]))
HandledInv == res = "OK" => \A k \in 1..Len(ran) : (phase = "busy" /\ k = Len(ran)) \/ Handled(k)

OverInv == phase = "over" /\ res = "OK" => pos = n

ExecInv == LineInv /\ BankInv /\ BusyInv /\ HandledInv /\ OverInv

\* What is registered is known as a command.
LEMMA KnownBasic ==
  ASSUME NEW cmd \in Seq(Chars), cmd # <<>>, Slot(cmd) \in Basics
  PROVE  Known(cmd)
  <1>. DEFINE voice == \E i \in DOMAIN cmd : cmd[i] = ";"
              voiceSlot == <<"D", ";">>
              slotted == \E slot \in Basics : Len(slot) <= Len(cmd) /\ SubSeq(cmd, 1, Len(slot)) = slot
  <1>1. Slot(cmd) = CASE cmd[1] = "D" -> IF voice THEN voiceSlot ELSE <<"D">>
                      [] cmd[1] = "&" /\ Len(cmd) > 1 -> SubSeq(cmd, 1, 2)
                      [] OTHER -> <<cmd[1]>>
    BY DEF Slot
  <1>2. slotted \/ (cmd[1] = "D" /\ voiceSlot \in Basics /\ voice) => Known(cmd)
    BY Zenon DEF Known
  <1>. HIDE DEF voice, voiceSlot
  <1>3. Len(cmd) \in Nat /\ Len(cmd) >= 1 /\ cmd[1] \in Chars
    BY EmptySeq
  <1>4. CASE cmd[1] = "D" /\ voice
    BY <1>1, <1>2, <1>4
  <1>5. CASE Slot(cmd) = <<cmd[1]>>
    <2>0. PICK c \in Chars : c = cmd[1]
      BY <1>3
    <2>1. /\ SubSeq(cmd, 1, 1) \in Seq(Chars) /\ Len(SubSeq(cmd, 1, 1)) = 1
          /\ SubSeq(cmd, 1, 1)[1] = c
      BY <1>3, <2>0
    <2>2. <<c>> \in Seq(Chars) /\ Len(<<c>>) = 1 /\ <<c>>[1] = c
      OBVIOUS
    <2>3. PICK slot \in Basics : slot = <<c>>
      BY <1>5, <2>0
    <2>4. SubSeq(cmd, 1, 1) = slot
      <3>. DEFINE one == SubSeq(cmd, 1, 1)
      <3>1. slot \in Seq(Chars) /\ Len(slot) = 1 /\ slot[1] = c
        BY <2>2, <2>3
      <3>2. one \in Seq(Chars) /\ Len(one) = 1 /\ one[1] = c
        BY <2>1
      <3>. HIDE DEF one
      <3>3. Len(one) = Len(slot) /\ \A i \in 1..Len(one) : one[i] = slot[i]
        BY <3>1, <3>2
      <3>4. one = slot
        BY <3>1, <3>2, <3>3, SeqEqual
      <3>. QED
        BY <3>4 DEF one
    <2>5. slotted
      BY <1>3, <2>2, <2>3, <2>4
    <2>. QED
      BY <1>2, <2>5
  <1>6. CASE Len(cmd) > 1 /\ Slot(cmd) = SubSeq(cmd, 1, 2)
    <2>1. Len(SubSeq(cmd, 1, 2)) = 2
      BY <1>6
    <2>2. PICK slot \in Basics : slot = SubSeq(cmd, 1, 2)
      BY <1>6
    <2>3. Len(slot) = 2
      BY <2>1, <2>2
    <2>4. Len(slot) <= Len(cmd) /\ SubSeq(cmd, 1, Len(slot)) = slot
      BY <1>3, <1>6, <2>2, <2>3
    <2>5. slotted
      BY <2>4
    <2>. QED
      BY <1>2, <2>5
  <1>7. CASE cmd[1] = "D" /\ ~voice
    <2>1. Slot(cmd) = <<cmd[1]>>
      BY <1>1, <1>7
    <2>. QED
      BY <1>5, <2>1
  <1>8. CASE cmd[1] # "D" /\ (cmd[1] = "&" /\ Len(cmd) > 1)
    BY <1>1, <1>6, <1>8
  <1>9. CASE cmd[1] # "D" /\ ~(cmd[1] = "&" /\ Len(cmd) > 1)
    <2>1. Slot(cmd) = <<cmd[1]>>
      BY <1>1, <1>9
    <2>. QED
      BY <1>5, <2>1
  <1>. QED
    BY <1>4, <1>7, <1>8, <1>9

LEMMA KnownExtended ==
  ASSUME NEW name \in DOMAIN bank, Bank!Named(name), WellFormed(request)
  PROVE  Known(request)
  <1>1. Bank!Alnum = Letters \cup {"1"}
    BY AlnumIs
  <1>2. Starts(request, name)
    BY <1>1 DEF Bank!Named, Starts
  <1>. QED
    BY <1>2, Zenon DEF Known, WellFormed

LEMMA KnownStays ==
  ASSUME bank' = bank, NEW cmd
  PROVE  Known(cmd)' <=> Known(cmd)
  BY Zenon DEF Known

-----------------------------------------------------------------------------
(***************************************************************************)
(* The search keeps its invariant.                                         *)
(***************************************************************************)
LEMMA NamedStays ==
  ASSUME request' = request, NEW x
  PROVE  Bank!Named(x)' <=> Bank!Named(x)
  BY DEF Bank!Named

LEMMA MatchInt ==
  ASSUME RequestOK, NEW name \in Seq(Chars)
  PROVE  Bank!ext_match(request, name) \in Int
  <1>1. ASSUME NEW i \in 1..Len(name)
        PROVE  Bank!CharAt(request, i) - Bank!CharAt(name, i) \in Int
    <2>1. i \in Nat \ {0}
      OBVIOUS
    <2>2. Bank!CharAt(request, i) \in 0..11 /\ Bank!CharAt(name, i) \in 0..11
      BY <2>1, CharAtIs DEF RequestOK
    <2>3. PICK p \in 0..11, q \in 0..11 : p = Bank!CharAt(request, i) /\ q = Bank!CharAt(name, i)
      BY <2>2
    <2>. QED
      BY <2>3
  <1>. QED
    BY <1>1, MatchIs

LEMMA SearchKeeps ==
  ASSUME BankAssumption, BankInv, NEW name \in Names, Bank!Search(name)
  PROVE  BankInv'
  <1>1. /\ request # <<>> /\ call = "none" /\ node = <<>> /\ name \in subtree
        /\ bank' = bank /\ request' = request /\ call' = call
    BY DEF Bank!Search
  <1>2. /\ name \in Seq(Chars) /\ name # <<>> /\ RequestOK /\ name \in DOMAIN bank
        /\ DOMAIN bank \subseteq Names /\ subtree \subseteq DOMAIN bank
    BY <1>1 DEF BankAssumption, BankInv, BankType
  <1>3. PICK val \in Int : val = Bank!ext_match(request, name)
    BY <1>2, MatchInt
  <1>4. CASE val = 0
    <2>1. node' = name /\ subtree' = subtree
      BY <1>3, <1>4 DEF Bank!Search
    <2>2. Bank!Named(name)
      <3>1. ASSUME NEW i \in 1..Len(name), FirstDifference(request, name, i),
                   val = Bank!CharAt(request, i) - Bank!CharAt(name, i)
            PROVE  FALSE
        <4>1. i \in Nat \ {0}
          OBVIOUS
        <4>2. PICK p \in 0..11, q \in 0..11 : p = Bank!CharAt(request, i) /\ q = Bank!CharAt(name, i)
          BY <1>2, <4>1, CharAtIs DEF RequestOK
        <4>. QED
          BY <1>4, <3>1, <4>2 DEF FirstDifference
      <3>2. \/ Bank!ext_match(request, name) = 0 /\ Bank!Named(name)
            \/ Bank!ext_match(request, name) = 1
            \/ \E i \in 1..Len(name) :
                 /\ FirstDifference(request, name, i)
                 /\ Bank!ext_match(request, name) = Bank!CharAt(request, i) - Bank!CharAt(name, i)
        BY <1>2, MatchIs
      <3>. QED
        BY <1>3, <1>4, <3>1, <3>2
    <2>3. Bank!Named(name)'
      BY <1>1, <2>2, NamedStays
    <2>4. BankType'
      BY <1>1, <1>2, <2>1 DEF BankType, RequestOK
    <2>5. SearchInv'
      BY <1>1, <1>2, <2>1, <2>3 DEF SearchInv
    <2>. QED
      BY <2>4, <2>5 DEF BankInv
  <1>5. CASE val # 0
    <2>1. /\ node' = node
          /\ subtree' = {x \in subtree : IF val < 0 THEN Bank!ext_cmp(x, name) < 0
                                                    ELSE Bank!ext_cmp(x, name) > 0}
      BY <1>3, <1>5 DEF Bank!Search
    <2>2. ASSUME NEW x \in DOMAIN bank, Bank!Named(x)'
          PROVE  x \in subtree'
      <3>1. Bank!Named(x)
        BY <1>1, <2>2, NamedStays
      <3>2. x \in subtree /\ x \in Names
        BY <1>1, <1>2, <3>1 DEF BankInv, SearchInv
      <3>3. /\ val < 0 => Bank!ext_cmp(x, name) < 0
            /\ val > 0 => Bank!ext_cmp(x, name) > 0
        BY <1>2, <1>3, <3>1, <3>2, SearchFollows
      <3>. QED
        BY <1>5, <2>1, <3>2, <3>3
    <2>3. BankType'
      BY <1>1, <1>2, <2>1 DEF BankType, RequestOK
    <2>4. SearchInv'
      BY <1>1, <2>1, <2>2 DEF SearchInv
    <2>. QED
      BY <2>3, <2>4 DEF BankInv
  <1>. QED
    BY <1>4, <1>5

\* The scan of sscanf() stops at the first character that is not in the set.
LEMMA BankPast ==
  ASSUME RequestOK, NEW set, NEW i \in 1..(Len(request) + 1)
  PROVE  /\ Bank!Past(set, i) \in i..(Len(request) + 1)
         /\ Bank!Past(set, i) = Len(request) + 1 \/ request[Bank!Past(set, i)] \notin set
         /\ \A k \in i..(Bank!Past(set, i) - 1) : request[k] \in set
  <1>. DEFINE Places == {j \in i..(Len(request) + 1) : j = Len(request) + 1 \/ request[j] \notin set}
  <1>1. Len(request) \in Nat
    BY DEF RequestOK
  <1>2. Places \in SUBSET Nat /\ Len(request) + 1 \in Places
    BY <1>1
  <1>3. PICK j \in Places : \A k \in Places : j <= k
    BY <1>2, LeastIs
  <1>4. \A k \in i..(j - 1) : request[k] \in set
    BY <1>1, <1>3
  <1>5. \E k \in i..(Len(request) + 1) : /\ k = Len(request) + 1 \/ request[k] \notin set
                                       /\ \A l \in i..(k - 1) : request[l] \in set
    BY <1>3, <1>4
  <1>. QED
    BY <1>5 DEF Bank!Past

\* A request that is not an error asks, sets or ends after its name.
LEMMA FormIs ==
  ASSUME RequestOK, Bank!Form # "error"
  PROVE  WellFormed(request)
  <1>. DEFINE others == {Bank!Order[i] : i \in DOMAIN Bank!Order} \ {"?", "=", " "}
              length1 == Len(request) + 1
  <1>1. Len(request) \in Nat
    BY DEF RequestOK
  <1>2. PICK a \in 1..length1 : a = Bank!Past(others, 1) /\ \A k \in 1..(a - 1) : request[k] \in others
    <2>1. 1 \in 1..length1
      BY <1>1
    <2>. HIDE DEF others
    <2>. QED
      BY <2>1, BankPast
  <1>3. \A k \in 1..(a - 1) : request[k] \notin {"?", "=", " "}
    BY <1>2
  <1>4. PICK b \in a..length1 : b = Bank!Past({" "}, a) /\ \A k \in a..(b - 1) : request[k] \in {" "}
    <2>1. Bank!Past({" "}, a) \in a..length1 /\ \A k \in a..(Bank!Past({" "}, a) - 1) : request[k] \in {" "}
      BY BankPast
    <2>. QED
      BY <2>1
  <1>5. b > Len(request) \/ request[b] \in {"?", "="}
    BY <1>2, <1>4 DEF Bank!Form, Bank!Operator
  <1>6. Asks(request, a)
    <2>. HIDE DEF others
    <2>1. b = length1 \/ request[b] \in {"?", "="}
      <3>1. a \in Nat /\ b \in Nat /\ b <= length1
        BY <1>1
      <3>. QED
        BY <1>1, <1>5, <3>1
    <2>2. \A k \in a..(b - 1) : request[k] = " "
      BY <1>4
    <2>. QED
      BY <2>1, <2>2, Zenon DEF Asks
  <1>. QED
    BY <1>3, <1>6 DEF WellFormed

LEMMA BankKeeps ==
  ASSUME BankInv
  PROVE  /\ UNCHANGED bankVars => BankInv'
         /\ \A p \in Plugins, name \in Names : Bank!at_register_ext(p, name) => BankInv'
         /\ \A req \in Seq(Chars) : Bank!Execute(req) => BankInv'
         /\ Bank!Call => BankInv'
         /\ Bank!Return => BankInv'
  <1>1. ASSUME UNCHANGED bankVars PROVE BankInv'
    <2>1. bank' = bank /\ request' = request /\ subtree' = subtree /\ node' = node /\ call' = call
      BY <1>1 DEF bankVars
    <2>2. \A x : Bank!Named(x)' <=> Bank!Named(x)
      BY <2>1, NamedStays
    <2>. QED
      BY <2>1, <2>2 DEF BankInv, BankType, SearchInv, RequestOK
  <1>2. ASSUME NEW p \in Plugins, NEW name \in Names, Bank!at_register_ext(p, name) PROVE BankInv'
    <2>1. /\ request = <<>> /\ bank' = [x \in DOMAIN bank \cup {name} |-> IF x = name THEN p ELSE bank[x]]
          /\ request' = request /\ subtree' = subtree /\ node' = node /\ call' = call
      BY <1>2 DEF Bank!at_register_ext
    <2>2. DOMAIN bank' = DOMAIN bank \cup {name}
      BY <2>1
    <2>3. BankType'
      BY <2>1, <2>2 DEF BankInv, BankType, RequestOK
    <2>4. SearchInv'
      BY <2>1, <2>2 DEF BankInv, SearchInv
    <2>. QED
      BY <2>3, <2>4 DEF BankInv
  <1>3. ASSUME NEW req \in Seq(Chars), Bank!Execute(req) PROVE BankInv'
    <2>1. /\ request = <<>> /\ request' = req /\ subtree' = DOMAIN bank
          /\ bank' = bank /\ node' = node /\ call' = call
      BY <1>3 DEF Bank!Execute
    <2>2. node = <<>> /\ call = "none"
      BY <2>1 DEF BankInv, SearchInv
    <2>3. BankType'
      BY <2>1 DEF BankInv, BankType, RequestOK
    <2>4. SearchInv'
      BY <2>1, <2>2 DEF SearchInv
    <2>. QED
      BY <2>3, <2>4 DEF BankInv
  <1>4. ASSUME Bank!Call PROVE BankInv'
    <2>1. /\ request # <<>> /\ (node # <<>> \/ subtree = {}) /\ (node = <<>> => call' = "error")
          /\ bank' = bank /\ request' = request /\ subtree' = subtree /\ node' = node
          /\ call' \in {"error", Bank!Form}
      BY <1>4 DEF Bank!Call
    <2>2. call' # "error" => WellFormed(request)'
      BY <2>1, FormIs DEF BankInv, BankType, WellFormed, Asks
    <2>3. \A x : Bank!Named(x)' <=> Bank!Named(x)
      BY <2>1, NamedStays
    <2>. QED
      BY <2>1, <2>2, <2>3 DEF BankInv, BankType, SearchInv, RequestOK
  <1>5. ASSUME Bank!Return PROVE BankInv'
    <2>1. request' = <<>> /\ subtree' = {} /\ node' = <<>> /\ call' = "none" /\ bank' = bank
      BY <1>5 DEF Bank!Return
    <2>2. <<>> \in Seq(Chars)
      OBVIOUS
    <2>. QED
      BY <2>1, <2>2 DEF BankInv, BankType, SearchInv, RequestOK
  <1>. QED
    BY <1>1, <1>2, <1>3, <1>4, <1>5

-----------------------------------------------------------------------------
(***************************************************************************)
(* The execution of a line keeps its invariant.                            *)
(***************************************************************************)
LEMMA HandledStays ==
  ASSUME line' = line, bank' = bank, NEW k, ran'[k] = ran[k]
  PROVE  Handled(k)' <=> Handled(k)
  BY Zenon DEF Handled, Known

\* A command that is cut out is a string of the line.
LEMMA CommandIs ==
  ASSUME LineOK, NEW first \in 1..n, NEW last \in first..n
  PROVE  SubSeq(line, first, last) \in Seq(Chars) /\ SubSeq(line, first, last) # <<>>
  <1>1. n \in Nat /\ first \in Int /\ last \in Int /\ first <= last
    BY DEF LineOK, n
  <1>2. \A i \in first..last : line[i] \in Chars
    BY <1>1 DEF LineOK, n
  <1>3. /\ SubSeq(line, first, last) \in Seq(Chars)
        /\ Len(SubSeq(line, first, last)) = IF first <= last THEN last - first + 1 ELSE 0
    BY <1>1, <1>2, SubSeqProperties
  <1>4. Len(SubSeq(line, first, last)) # 0
    BY <1>1, <1>3
  <1>. QED
    BY <1>3, <1>4

LEMMA RunHandles ==
  ASSUME LineInv, BusyInv, HandledInv, Run
  PROVE  /\ request = <<>> /\ Command' \in Seq(Chars) /\ Command' # <<>> /\ Len(ran') >= 1
         /\ phase' = "busy" /\ (bank' = bank => HandledInv')
  <1>1. PICK first \in (pos + 1)..n : \E last \in first..n :
           /\ ran' = Append(ran, <<first, last>>)
           /\ phase = "run" /\ res = "OK" /\ phase' = "busy" /\ line' = line /\ res' = res
    BY RunIs
  <1>2. PICK last \in first..n :
           /\ ran' = Append(ran, <<first, last>>)
           /\ phase = "run" /\ res = "OK" /\ phase' = "busy" /\ line' = line /\ res' = res
    BY <1>1
  <1>3. n \in Nat /\ LineOK /\ pos \in 0..n /\ ran \in Seq(Nat \X Nat)
    BY DEF LineInv, RanType, LineOK, n
  <1>4. <<first, last>> \in Nat \X Nat /\ first \in 1..n
    BY <1>3
  <1>5. Len(ran) \in Nat /\ Len(ran') = Len(ran) + 1
        /\ (\A k \in 1..Len(ran) : ran'[k] = ran[k]) /\ ran'[Len(ran) + 1] = <<first, last>>
    BY <1>2, <1>3, <1>4, AppendProperties
  <1>6. Command' = SubSeq(line, first, last)
    <2>1. Last' = <<first, last>>
      BY <1>5 DEF Last
    <2>. QED
      BY <1>2, <2>1 DEF Command
  <1>7. Command' \in Seq(Chars) /\ Command' # <<>>
    BY <1>3, <1>4, <1>6, CommandIs
  <1>8. ASSUME bank' = bank
        PROVE  HandledInv'
    <2>1. ASSUME NEW k \in 1..Len(ran'), k # Len(ran')
          PROVE  Handled(k)'
      <3>1. k \in 1..Len(ran) /\ ran'[k] = ran[k]
        <4>1. k \in 1..Len(ran)
          BY <1>5, <2>1
        <4>. QED
          BY <1>5, <4>1
      <3>2. Handled(k)
        BY <1>2, <3>1 DEF HandledInv
      <3>. QED
        BY <1>2, <1>8, <3>1, <3>2, HandledStays
    <2>. QED
      BY <1>2, <2>1 DEF HandledInv
  <1>. QED
    BY <1>2, <1>5, <1>7, <1>8 DEF BusyInv

LEMMA LastIs ==
  ASSUME LineInv, BusyInv, phase = "busy"
  PROVE  Command \in Seq(Chars) /\ Command # <<>>
  <1>1. n \in Nat /\ LineOK /\ pos \in 0..n /\ ran \in Seq(Nat \X Nat)
    BY DEF LineInv, RanType, LineOK, n
  <1>2. Len(ran) \in 1..Len(ran)
    BY <1>1 DEF BusyInv
  <1>3. Last \in Nat \X Nat /\ 1 <= Last[1] /\ Last[1] <= Last[2] /\ Last[2] <= pos
    BY <1>1, <1>2 DEF Last, LineInv, InPlace
  <1>4. PICK first \in 1..n : first = Last[1]
    BY <1>1, <1>3
  <1>5. PICK last \in first..n : last = Last[2]
    BY <1>1, <1>3, <1>4
  <1>6. SubSeq(line, first, last) \in Seq(Chars) /\ SubSeq(line, first, last) # <<>>
    BY <1>1, CommandIs
  <1>. QED
    BY <1>4, <1>5, <1>6 DEF Command

LEMMA ReturnHandles ==
  ASSUME LineInv, BusyInv, HandledInv, Return, bank' = bank, res' = "OK" => Known(Command)
  PROVE  HandledInv' /\ LineInv' /\ OverInv'
  <1>1. phase = "busy" /\ phase' = "run" /\ line' = line /\ pos' = pos /\ ran' = ran
    BY DEF Return
  <1>2. n \in Nat /\ pos \in 0..n
    BY DEF LineInv, RanType, LineOK, n
  <1>3. LineInv'
    BY <1>1, <1>2, LineKeeps
  <1>4. ASSUME NEW k \in 1..Len(ran), res' = "OK"
        PROVE  Handled(k)'
    <2>1. CASE k = Len(ran)
      <3>1. Handled(k)
        BY <1>4, <2>1 DEF Handled, Command, Last
      <3>. QED
        BY <1>1, <3>1, HandledStays
    <2>2. CASE k # Len(ran)
      <3>1. Handled(k)
        BY <1>1, <2>2 DEF HandledInv, BusyInv
      <3>. QED
        BY <1>1, <3>1, HandledStays
    <2>. QED
      BY <2>1, <2>2
  <1>5. HandledInv'
    BY <1>1, <1>4 DEF HandledInv
  <1>6. OverInv'
    BY <1>1 DEF OverInv
  <1>. QED
    BY <1>3, <1>5, <1>6

LEMMA LineSame ==
  ASSUME ExecInv, UNCHANGED lineVars, request' = request, bank' = bank \/ ran = <<>>
  PROVE  LineInv' /\ BusyInv' /\ HandledInv' /\ OverInv'
  <1>1. line' = line /\ pos' = pos /\ ran' = ran /\ res' = res /\ phase' = phase
    BY DEF lineVars, vars
  <1>2. n \in Nat /\ pos \in 0..n /\ phase \in {"run", "busy", "over"}
    BY DEF ExecInv, LineInv, RanType, LineOK, n
  <1>3. LineInv'
    BY <1>1, <1>2, LineKeeps DEF ExecInv
  <1>4. BusyInv'
    <2>1. Command' = Command
      BY <1>1 DEF Command, Last
    <2>. QED
      BY <1>1, <2>1 DEF ExecInv, BusyInv, Basic
  <1>5. HandledInv'
    <2>1. ASSUME NEW k \in 1..Len(ran), res = "OK"
          PROVE  (phase = "busy" /\ k = Len(ran)) \/ Handled(k)'
      <3>1. bank' = bank
        BY <2>1
      <3>2. (phase = "busy" /\ k = Len(ran)) \/ Handled(k)
        BY <2>1 DEF ExecInv, HandledInv
      <3>. QED
        BY <1>1, <3>1, <3>2, HandledStays
    <2>. QED
      BY <1>1, <2>1 DEF HandledInv
  <1>6. OverInv'
    BY <1>1 DEF ExecInv, OverInv, n
  <1>. QED
    BY <1>3, <1>4, <1>5, <1>6

LEMMA ExecStarts ==
  ASSUME AllInit
  PROVE  ExecInv
  <1>1. /\ line \in UNION {[1..k -> Chars] : k \in 0..MaxLine}
        /\ pos = 0 /\ ran = <<>> /\ res = "OK" /\ phase = "run"
        /\ bank = [x \in {} |-> "none"] /\ request = <<>> /\ subtree = {} /\ node = <<>> /\ call = "none"
    BY DEF AllInit, Init, Bank!Init
  <1>2. LineOK
    <2>1. PICK k \in 0..MaxLine : line \in [1..k -> Chars]
      BY <1>1
    <2>2. k \in Nat
      BY <2>1
    <2>. QED
      BY <2>1, <2>2 DEF LineOK
  <1>3. n \in Nat
    BY <1>2 DEF LineOK, n
  <1>4. LineInv
    BY <1>1, <1>2, <1>3 DEF LineInv, RanType, InPlace, InOrder
  <1>5. BankInv
    BY <1>1 DEF BankInv, BankType, SearchInv, RequestOK
  <1>6. BusyInv /\ HandledInv /\ OverInv
    BY <1>1 DEF BusyInv, HandledInv, OverInv
  <1>. QED
    BY <1>4, <1>5, <1>6 DEF ExecInv

LEMMA ExecKeeps ==
  ASSUME BankAssumption, ExecInv, [AllNext]_allVars
  PROVE  ExecInv'
  <1>0. LineInv /\ BankInv /\ BusyInv /\ HandledInv /\ OverInv
    BY DEF ExecInv
  <1>1. ASSUME NEW p \in Plugins, NEW name \in Names, Register(p, name) PROVE ExecInv'
    <2>1. ran = <<>> /\ Bank!at_register_ext(p, name) /\ UNCHANGED lineVars
      BY <1>1 DEF Register
    <2>2. request' = request
      BY <2>1 DEF Bank!at_register_ext
    <2>3. LineInv' /\ BusyInv' /\ HandledInv' /\ OverInv'
      BY <2>1, <2>2, LineSame
    <2>. QED
      BY <1>0, <2>1, <2>3, BankKeeps DEF ExecInv
  <1>2. ASSUME ExecuteBasic PROVE ExecInv'
    <2>1. Run /\ Basic(Command') /\ UNCHANGED bankVars
      BY <1>2 DEF ExecuteBasic
    <2>2. bank' = bank /\ request' = request
      BY <2>1 DEF bankVars
    <2>3. request = <<>> /\ Len(ran') >= 1 /\ phase' = "busy" /\ HandledInv'
      BY <1>0, <2>1, <2>2, RunHandles
    <2>4. res' = "OK"
      BY <2>1 DEF Run
    <2>5. BusyInv'
      BY <2>1, <2>2, <2>3, <2>4 DEF BusyInv, Basic
    <2>6. LineInv' /\ BankInv'
      BY <1>0, <2>1, RunKeeps, BankKeeps
    <2>7. OverInv'
      BY <2>3 DEF OverInv
    <2>. QED
      BY <2>3, <2>5, <2>6, <2>7 DEF ExecInv
  <1>3. ASSUME ExecuteExtended PROVE ExecInv'
    <2>1. Run /\ Bank!Execute(Command')
      BY <1>3 DEF ExecuteExtended
    <2>2. bank' = bank /\ request' = Command'
      BY <2>1 DEF Bank!Execute
    <2>3. Command' \in Seq(Chars) /\ Command' # <<>> /\ Len(ran') >= 1 /\ phase' = "busy" /\ HandledInv'
      BY <1>0, <2>1, <2>2, RunHandles
    <2>4. res' = "OK"
      BY <2>1 DEF Run
    <2>5. BusyInv'
      BY <2>2, <2>3, <2>4 DEF BusyInv
    <2>6. LineInv' /\ BankInv'
      <3>1. PICK req \in Seq(Chars) : req = Command'
        BY <2>3
      <3>. QED
        BY <1>0, <2>1, <3>1, RunKeeps, BankKeeps
    <2>7. OverInv'
      BY <2>3 DEF OverInv
    <2>. QED
      BY <2>3, <2>5, <2>6, <2>7 DEF ExecInv
  <1>4. ASSUME NEW name \in Names, Search(name) PROVE ExecInv'
    <2>1. Bank!Search(name) /\ UNCHANGED lineVars
      BY <1>4 DEF Search
    <2>2. bank' = bank /\ request' = request
      BY <2>1 DEF Bank!Search
    <2>3. LineInv' /\ BusyInv' /\ HandledInv' /\ OverInv'
      BY <2>1, <2>2, LineSame
    <2>. QED
      BY <1>0, <2>1, <2>3, SearchKeeps DEF ExecInv
  <1>5. ASSUME Call PROVE ExecInv'
    <2>1. Bank!Call /\ UNCHANGED lineVars
      BY <1>5 DEF Call
    <2>2. bank' = bank /\ request' = request
      BY <2>1 DEF Bank!Call
    <2>3. LineInv' /\ BusyInv' /\ HandledInv' /\ OverInv'
      BY <2>1, <2>2, LineSame
    <2>. QED
      BY <1>0, <2>1, <2>3, BankKeeps DEF ExecInv
  <1>6. ASSUME ReturnBasic PROVE ExecInv'
    <2>1. /\ request = <<>> /\ Return /\ UNCHANGED bankVars
          /\ res' = "OK" => Slot(Command) \in Basics
      BY <1>6 DEF ReturnBasic
    <2>2. bank' = bank /\ request' = request /\ phase = "busy" /\ phase' = "run"
      BY <2>1 DEF bankVars, Return
    <2>3. Command \in Seq(Chars) /\ Command # <<>>
      BY <1>0, <2>2, LastIs
    <2>4. res' = "OK" => Known(Command)
      BY <2>1, <2>3, KnownBasic
    <2>5. HandledInv' /\ LineInv' /\ OverInv'
      BY <1>0, <2>1, <2>2, <2>4, ReturnHandles
    <2>6. BankInv' /\ BusyInv'
      BY <1>0, <2>1, <2>2, BankKeeps DEF BusyInv
    <2>. QED
      BY <2>5, <2>6 DEF ExecInv
  <1>7. ASSUME ReturnExtended PROVE ExecInv'
    <2>1. Return /\ Bank!Return /\ (call = "error" => res' = "ERROR")
      BY <1>7 DEF ReturnExtended
    <2>2. bank' = bank /\ request' = <<>> /\ phase = "busy" /\ phase' = "run" /\ call # "none"
      BY <2>1 DEF Bank!Return, Return
    <2>3. request # <<>> /\ request = Command
      BY <1>0, <2>2 DEF BusyInv, BankInv, SearchInv
    <2>4. ASSUME res' = "OK" PROVE Known(Command)
      <3>1. node # <<>>
        BY <1>0, <2>1, <2>2, <2>4 DEF BankInv, SearchInv
      <3>2. node \in DOMAIN bank /\ Bank!Named(node)
        BY <1>0, <3>1 DEF BankInv, SearchInv
      <3>3. WellFormed(request)
        BY <1>0, <2>1, <2>2, <2>4 DEF BankInv, SearchInv
      <3>. QED
        BY <2>3, <3>2, <3>3, KnownExtended
    <2>5. HandledInv' /\ LineInv' /\ OverInv'
      BY <1>0, <2>1, <2>2, <2>4, ReturnHandles
    <2>6. BankInv' /\ BusyInv'
      BY <1>0, <2>1, <2>2, BankKeeps DEF BusyInv
    <2>. QED
      BY <2>5, <2>6 DEF ExecInv
  <1>8. ASSUME (Failed \/ Over) /\ UNCHANGED bankVars PROVE ExecInv'
    <2>1. n \in Nat /\ pos \in 0..n
      BY <1>0 DEF LineInv, RanType, LineOK, n
    <2>2. /\ phase = "run" /\ phase' = "over" /\ line' = line /\ ran' = ran /\ pos' \in pos..n
          /\ res' = "OK" => res = "OK" /\ pos' = n
      <3>1. CASE Failed
        BY <2>1, <3>1 DEF Failed
      <3>2. CASE Over
        <4>1. phase = "run"
          BY <3>2 DEF Over
        <4>. QED
          BY <1>0, <3>2, <4>1, OverIs
      <3>. QED
        BY <1>8, <3>1, <3>2
    <2>3. bank' = bank /\ request' = request
      BY <1>8 DEF bankVars
    <2>4. LineInv'
      BY <1>0, <2>2, LineKeeps
    <2>5. HandledInv'
      <3>1. ASSUME NEW k \in 1..Len(ran), res' = "OK"
            PROVE  Handled(k)'
        <4>1. Handled(k)
          BY <1>0, <2>2, <3>1 DEF HandledInv
        <4>. QED
          BY <2>2, <2>3, <4>1, HandledStays
      <3>. QED
        BY <2>2, <3>1 DEF HandledInv
    <2>6. OverInv' /\ BusyInv'
      BY <1>0, <2>2, <2>3 DEF OverInv, BusyInv, n
    <2>7. BankInv'
      BY <1>0, <1>8, BankKeeps
    <2>. QED
      BY <2>4, <2>5, <2>6, <2>7 DEF ExecInv
  <1>9. ASSUME UNCHANGED allVars PROVE ExecInv'
    <2>1. UNCHANGED lineVars /\ UNCHANGED bankVars
      BY <1>9 DEF allVars
    <2>2. bank' = bank /\ request' = request
      BY <2>1 DEF bankVars
    <2>3. LineInv' /\ BusyInv' /\ HandledInv' /\ OverInv'
      BY <2>1, <2>2, LineSame
    <2>. QED
      BY <1>0, <2>1, <2>3, BankKeeps DEF ExecInv
  <1>. QED
    BY <1>1, <1>2, <1>3, <1>4, <1>5, <1>6, <1>7, <1>8, <1>9 DEF AllNext

-----------------------------------------------------------------------------
(***************************************************************************)
(* What holds of every line that is executed.                              *)
(***************************************************************************)
\* A behaviour of Lines is one of the execution and one of the parser.
LEMMA LinesAreBoth == LinesSpec => AllSpec /\ Typing!Spec
  <1>1. LinesInit => AllInit /\ Typing!Init
    BY DEF LinesInit
  <1>2. [LinesNext]_<<stage, typingVars, allVars>> => [AllNext]_allVars /\ [Typing!Next]_(Typing!vars)
    BY DEF LinesNext, typingVars, Typing!vars
  <1>. QED
    BY <1>1, <1>2, PTL DEF LinesSpec, AllSpec, Typing!Spec

\* However a line is cut and whatever is registered, the invariant is kept.
LEMMA ExecInvariance == AllSpec => []ExecInv
  <1>1. BankAssumption
    BY LinesAssumption
  <1>. QED
    BY <1>1, ExecStarts, ExecKeeps, PTL DEF AllSpec

\* No character of a line is lost or run twice (parser.c:305-309), as long as the linker has
\* put nothing but separators after the literal that memchr() reads.
THEOREM NothingIsLost ==
  ASSUME Harmless
  PROVE  LinesSpec => []OnlySeparatorsSkipped
  <1>1. AllInit => GapsInv
    BY DEF AllInit, Init, GapsInv
  <1>2. ExecInv /\ GapsInv /\ [AllNext]_allVars => GapsInv'
    <2>. SUFFICES ASSUME ExecInv, GapsInv, [AllNext]_allVars PROVE GapsInv'
      OBVIOUS
    <2>1. LineInv
      BY DEF ExecInv
    <2>2. Run \/ Over \/ (line' = line /\ ran' = ran /\ pos' = pos)
      BY DEF AllNext, allVars, lineVars, vars, Register, ExecuteBasic, ExecuteExtended, Search, Call,
             ReturnBasic, ReturnExtended, Return, Failed
    <2>. QED
      BY <2>1, <2>2, GapsFollow
  <1>3. ExecInv /\ GapsInv => OnlySeparatorsSkipped
    BY GapsMean DEF ExecInv
  <1>. QED
    BY <1>1, <1>2, <1>3, ExecInvariance, LinesAreBoth, PTL DEF AllSpec

\* No string of an extended command is cut in two (parser.c:257-281).
THEOREM StringsStayWhole == LinesSpec => []StringsWhole
  <1>1. ExecInv => StringsWhole
    BY PlacesMean DEF ExecInv
  <1>. QED
    BY <1>1, ExecInvariance, LinesAreBoth, PTL

\* Whatever the shape of the tree, a request finds the handler that it names, and none only
\* if there is none: ext_match() agrees with ext_cmp() (commands.c:159-202).
THEOREM SearchFinds == LinesSpec => []LookupFinds
  <1>1. ExecInv => LookupFinds
    <2>. SUFFICES ASSUME ExecInv, call # "none"
                  PROVE  IF node # <<>> THEN Bank!Named(node) ELSE \A x \in DOMAIN bank : ~Bank!Named(x)
      BY DEF LookupFinds, Bank!LookupFinds
    <2>1. SearchInv
      BY DEF ExecInv, BankInv
    <2>. QED
      BY <2>1 DEF SearchInv
  <1>. QED
    BY <1>1, ExecInvariance, LinesAreBoth, PTL

\* OK is answered only if the whole line was run and each command starts with what somebody has
\* registered, is not continued by a letter or a digit into another name, and, if it is extended,
\* asks, sets or ends after that name and what is attached to it (at_modem.c:551-576,
\* commands.c:403-441). Junk attached to a name is let through, as
\* commands.c:412 does against the comment at 436.
THEOREM AllIsHandled == LinesSpec => []OkIsHandled
  <1>1. ExecInv => OkIsHandled
    <2>. SUFFICES ASSUME ExecInv, phase = "over", res = "OK"
                  PROVE  pos = n /\ \A k \in DOMAIN ran : Known(SubSeq(line, ran[k][1], ran[k][2]))
      BY DEF OkIsHandled
    <2>1. pos = n
      BY DEF ExecInv, OverInv
    <2>2. DOMAIN ran = 1..Len(ran)
      BY DEF ExecInv, LineInv, RanType
    <2>3. ASSUME NEW k \in DOMAIN ran PROVE Handled(k)
      BY <2>2 DEF ExecInv, HandledInv
    <2>. QED
      BY <2>1, <2>3 DEF Handled
  <1>. QED
    BY <1>1, ExecInvariance, LinesAreBoth, PTL

-----------------------------------------------------------------------------
(***************************************************************************)
(* The parser of characters: for buffers of any size, the lines that it    *)
(* returns are well formed, and it implements the line editor.             *)
(***************************************************************************)
LEMMA SizeIs ==
  BufferSize \in Nat /\ BufferSize >= 3 /\ MaxLength \in BufferSize..(2 * BufferSize)
  BY LinesAssumption DEF Typing!SizeAssumption

LEMMA CharIs ==
  /\ {"A", "T", "/"} \subseteq Printable
  /\ {"BS", "DEL", "CR", "LF", "ctl", "nul", "junk", "lost"} \cap Printable = {}
  BY LinesAssumption DEF Typing!CharAssumption

\* What has been typed is in buf, as far as it fits.
TypedInv == \A i \in 0..(length - 1) : i < BufferSize => memory[i] \in Printable

\* The previous line in old is a command line with its nul.
OldInv ==
  oldlength # 0 =>
    /\ oldlength >= 2
    /\ memory[BufferSize] = "A" /\ memory[BufferSize + 1] = "T"
    /\ \A i \in 0..(oldlength - 1) : memory[BufferSize + i] \in Printable
    /\ memory[BufferSize + oldlength] = "nul"

\* So is the line that is returned.
RetInv ==
  ret # Typing!Null =>
    /\ plen >= 2
    /\ ret + plen < 2 * BufferSize
    /\ ret < BufferSize => ret + plen < BufferSize
    /\ memory[ret] = "A" /\ memory[ret + 1] = "T"
    /\ \A i \in 0..(plen - 1) : memory[ret + i] \in Printable
    /\ memory[ret + plen] = "nul"

TypingInv == Typing!TypeOK /\ TypedInv /\ OldInv /\ RetInv

-----------------------------------------------------------------------------
\* At first nothing has been typed, saved or returned.
LEMMA TypingStarts == Typing!Init => TypingInv
  BY SizeIs, CharIs
  DEF Typing!Init, TypingInv, Typing!TypeOK, TypedInv, OldInv, RetInv, Typing!Cells, Typing!Null

\* A line that is terminated in buf and saved in old is well formed in both.
LEMMA EnterKeeps ==
  ASSUME TypingInv, NEW c \in Typing!Chars, Typing!Enter(c)
  PROVE  TypingInv'
  <1> USE SizeIs, CharIs
  <1>1. PICK start \in Typing!Prefixes :
          /\ memory' = Typing!Saved(start, length - start)
          /\ oldlength' = length - start
          /\ ret' = start /\ plen' = length - start
    BY DEF Typing!Enter
  <1>2. /\ start \in Nat /\ start + 2 <= length /\ length < BufferSize
        /\ length \in Nat
        /\ memory[start] = "A" /\ memory[start + 1] = "T" /\ length' = 0
    BY DEF Typing!Enter, Typing!Prefixes, TypingInv, Typing!TypeOK
  <1>3. /\ memory'[length] = "nul"
        /\ \A i \in 0..(length - 1) : memory'[i] = memory[i]
        /\ memory'[BufferSize + (length - start)] = "nul"
        /\ \A i \in 0..(length - start - 1) : memory'[BufferSize + i] = memory[start + i]
    BY <1>1, <1>2 DEF Typing!Saved, Typing!Cells
  <1>4. \A i \in 0..(length - 1) : memory[i] \in Printable
    BY <1>2 DEF TypingInv, TypedInv
  <1>5. Typing!TypeOK'
    <2>1. memory' \in [Typing!Cells -> Printable \cup {"nul", "junk"}]
      BY <1>1, <1>2 DEF Typing!Saved, Typing!Cells, TypingInv, Typing!TypeOK
    <2> QED
      BY <1>1, <1>2, <2>1 DEF Typing!TypeOK, Typing!Cells
  <1>6. TypedInv'
    BY <1>2 DEF TypedInv
  <1>7. OldInv'
    BY <1>1, <1>2, <1>3, <1>4 DEF OldInv
  <1>8. RetInv'
    BY <1>1, <1>2, <1>3, <1>4 DEF RetInv
  <1> QED
    BY <1>5, <1>6, <1>7, <1>8 DEF TypingInv

\* The other characters touch buf only, and return nothing or what is in old.
LEMMA PushKeeps ==
  ASSUME TypingInv, NEW c \in Typing!Chars, Typing!Push(c)
  PROVE  TypingInv'
  <1> USE SizeIs, CharIs DEF TypingInv, Typing!TypeOK, TypedInv, OldInv, RetInv, Typing!Cells,
        Typing!Null, Typing!NoLine
  <1>1. CASE Typing!Backspace(c)
    BY <1>1 DEF Typing!Backspace
  <1>2. CASE Typing!Repeat(c)
    <2>1. CASE oldlength = 0
      BY <1>2, <2>1 DEF Typing!Repeat
    <2>2. CASE oldlength # 0
      <3>1. /\ ret' = BufferSize /\ plen' = oldlength /\ length' = 0
            /\ UNCHANGED <<oldlength, memory>>
        BY <1>2, <2>2 DEF Typing!Repeat
      <3>2. Typing!TypeOK' /\ TypedInv' /\ OldInv'
        BY <3>1
      <3>3. RetInv'
        BY <2>2, <3>1
      <3> QED
        BY <3>2, <3>3
    <2> QED
      BY <2>1, <2>2
  <1>3. CASE Typing!Control(c)
    BY <1>3 DEF Typing!Control
  <1>4. CASE Typing!Store(c)
    <2>1. /\ c \in Printable /\ length < MaxLength /\ length' = length + 1
          /\ ret' = Typing!Null /\ UNCHANGED <<plen, oldlength>>
          /\ memory' = IF length < BufferSize THEN [memory EXCEPT ![length] = c] ELSE memory
      BY <1>4 DEF Typing!Store
    <2>2. /\ \A i \in Typing!Cells : i # length \/ length >= BufferSize => memory'[i] = memory[i]
          /\ length < BufferSize => memory'[length] = c
          /\ memory' \in [Typing!Cells -> Printable \cup {"nul", "junk"}]
      BY <2>1
    <2>3. Typing!TypeOK' /\ RetInv'
      BY <2>1, <2>2
    <2>4. TypedInv'
      BY <2>1, <2>2
    <2>5. OldInv'
      <3>1. \A i \in 0..oldlength : BufferSize + i \in Typing!Cells /\ memory'[BufferSize + i] = memory[BufferSize + i]
        BY <2>1, <2>2
      <3>2. ASSUME oldlength # 0
            PROVE  /\ memory'[BufferSize] = memory[BufferSize]
                   /\ memory'[BufferSize + 1] = memory[BufferSize + 1]
                   /\ memory'[BufferSize + oldlength] = memory[BufferSize + oldlength]
        BY <2>1, <2>2, <3>2
      <3>3. ASSUME oldlength # 0, NEW i \in 0..(oldlength - 1)
            PROVE  memory'[BufferSize + i] \in Printable
        <4>0. i \in 0..oldlength
          <5> HIDE DEF TypedInv, OldInv, RetInv
          <5> QED
            BY <3>3
        <4>1. memory'[BufferSize + i] = memory[BufferSize + i]
          <5> HIDE DEF Typing!TypeOK, TypedInv, OldInv, RetInv, Typing!Cells
          <5> QED
            BY <3>1, <4>0
        <4>2. memory[BufferSize + i] \in Printable
          <5> HIDE DEF Typing!TypeOK, TypedInv, RetInv
          <5> QED
            BY <3>3
        <4> QED
          BY <4>1, <4>2
      <3> HIDE DEF Typing!TypeOK, TypedInv, RetInv
      <3> QED
        BY <2>1, <3>2, <3>3
    <2> QED
      BY <2>3, <2>4, <2>5
  <1>5. CASE Typing!Overflow(c)
    BY <1>5 DEF Typing!Overflow
  <1>6. CASE Typing!Enter(c)
    BY <1>6, EnterKeeps
  <1>7. CASE Typing!EnterNothing(c)
    BY <1>7 DEF Typing!EnterNothing
  <1> QED
    BY <1>1, <1>2, <1>3, <1>4, <1>5, <1>6, <1>7 DEF Typing!Push

\* Whatever is typed, the invariant is kept.
LEMMA TypingInvariance == Typing!Spec => []TypingInv
  <1>1. TypingInv /\ [Typing!Next]_(Typing!vars) => TypingInv'
    <2> SUFFICES ASSUME TypingInv, [Typing!Next]_(Typing!vars) PROVE TypingInv'
      OBVIOUS
    <2>1. CASE Typing!Next
      BY <2>1, PushKeeps DEF Typing!Next
    <2>2. CASE UNCHANGED Typing!vars
      BY <2>2 DEF Typing!vars, TypingInv, Typing!TypeOK, TypedInv, OldInv, RetInv
    <2> QED
      BY <2>1, <2>2
  <1> QED
    BY TypingStarts, <1>1, PTL DEF Typing!Spec

\* Nothing is stored, saved or returned outside the buffers.
THEOREM TypeCorrect == LinesSpec => []Typing!TypeOK
  BY TypingInvariance, LinesAreBoth, PTL DEF TypingInv

\* Every line that at_parser_push() returns is a terminated command line.
THEOREM LinesAreTerminated == LinesSpec => []Typing!LineTerminated
  <1>1. TypingInv => Typing!LineTerminated
    <2> SUFFICES ASSUME TypingInv, ret # Typing!Null PROVE Typing!LineTerminated
      BY DEF Typing!LineTerminated
    <2>1. RetInv /\ ret \in Nat /\ plen \in Nat
      BY SizeIs DEF TypingInv, Typing!TypeOK, Typing!Cells
    <2>2. ASSUME NEW i \in ret..(ret + plen - 1) PROVE memory[i] # "nul"
      <3>1. i - ret \in 0..(plen - 1) /\ ret + (i - ret) = i
        BY <2>1
      <3> QED
        BY <2>1, <3>1, CharIs DEF RetInv
    <2> QED
      BY <2>1, <2>2 DEF RetInv, Typing!LineTerminated
  <1> QED
    BY TypingInvariance, LinesAreBoth, <1>1, PTL

-----------------------------------------------------------------------------
(***************************************************************************)
(* The parser implements the line editor: each character that is pushed is *)
(* one step of the editor.                                                 *)
(***************************************************************************)
\* A typed line is a sequence of the characters that are left of it.
LEMMA TypedLine ==
  ASSUME Typing!TypeOK
  PROVE  /\ Typing!Typed \in Seq(Printable \cup {"nul", "junk", "lost"})
         /\ Len(Typing!Typed) = length
         /\ \A k \in 1..length : Typing!Typed[k] = IF k <= BufferSize THEN memory[k - 1] ELSE "lost"
         /\ length = 0 => Typing!Typed = <<>>
  BY SizeIs DEF Typing!TypeOK, Typing!Typed, Typing!Cells

\* Append as a function.
LEMMA AppendIsFunction ==
  ASSUME NEW S, NEW s \in Seq(S), NEW e \in S
  PROVE  Append(s, e) = [k \in 1..(Len(s) + 1) |-> IF k = Len(s) + 1 THEN e ELSE s[k]]
  <1> DEFINE t == [k \in 1..(Len(s) + 1) |-> IF k = Len(s) + 1 THEN e ELSE s[k]]
  <1>1. t \in Seq(S) /\ Len(t) = Len(s) + 1
    <2>1. Len(s) + 1 \in Nat /\ \A k \in 1..(Len(s) + 1) : t[k] \in S
      OBVIOUS
    <2> QED
      BY <2>1, IsASeq
  <1>2. Append(s, e) \in Seq(S) /\ Len(Append(s, e)) = Len(s) + 1
    BY AppendProperties
  <1>3. \A k \in 1..(Len(s) + 1) : Append(s, e)[k] = t[k]
    BY AppendProperties
  <1> QED
    BY <1>1, <1>2, <1>3, SeqEqual

\* Erasing.
LEMMA BackspaceStep ==
  ASSUME TypingInv, NEW c \in Typing!Chars, Typing!Backspace(c)
  PROVE  Typing!Editor!Erase
  <1>1. Typing!Typed' = IF Typing!Typed = <<>> THEN <<>> ELSE [k \in 1..(Len(Typing!Typed) - 1) |-> Typing!Typed[k]]
    <2>1. CASE length = 0
      BY <2>1, TypedLine DEF Typing!Backspace, Typing!Typed, TypingInv
    <2>2. CASE length # 0
      <3>1. length' = length - 1 /\ memory' = memory /\ length \in Nat
        BY <2>2 DEF Typing!Backspace, TypingInv, Typing!TypeOK
      <3>2. Typing!Typed' = [k \in 1..(length - 1) |-> IF k <= BufferSize THEN memory[k - 1] ELSE "lost"]
        BY <3>1 DEF Typing!Typed
      <3>3. Len(Typing!Typed) = length /\ Typing!Typed # <<>>
        BY <2>2, TypedLine DEF TypingInv
      <3>4. [k \in 1..(length - 1) |-> IF k <= BufferSize THEN memory[k - 1] ELSE "lost"]
            = [k \in 1..(length - 1) |-> Typing!Typed[k]]
        BY <3>1, TypedLine DEF TypingInv
      <3> QED
        BY <3>2, <3>3, <3>4
    <2> QED
      BY <2>1, <2>2
  <1>2. Typing!Given' = <<>> /\ Typing!Previous' = Typing!Previous
    BY DEF Typing!Backspace, Typing!NoLine, Typing!Given, Typing!Previous
  <1> QED
    BY <1>1, <1>2 DEF Typing!Editor!Erase

\* Typing a character.
LEMMA StoreStep ==
  ASSUME TypingInv, NEW c \in Typing!Chars, Typing!Store(c)
  PROVE  Typing!Editor!Type(c)
  <1> USE SizeIs, CharIs
  <1>1. /\ length \in Nat /\ length' = length + 1 /\ length < 2 * BufferSize
        /\ memory' = IF length < BufferSize THEN [memory EXCEPT ![length] = c] ELSE memory
        /\ memory \in [Typing!Cells -> Printable \cup {"nul", "junk"}]
        /\ oldlength' = oldlength /\ oldlength \in 0..(BufferSize - 1)
    BY DEF Typing!Store, TypingInv, Typing!TypeOK
  <1>2. Typing!Typed' = Append(Typing!Typed, IF Len(Typing!Typed) < BufferSize THEN c ELSE "lost")
    <2>1. Len(Typing!Typed) = length /\ Typing!Typed \in Seq(Printable \cup {"nul", "junk", "lost"})
      BY TypedLine DEF TypingInv
    <2>2. Typing!Typed' = [k \in 1..(length + 1) |-> IF k <= BufferSize THEN memory'[k - 1] ELSE "lost"]
      BY <1>1 DEF Typing!Typed
    <2>3. \A k \in 1..length : k <= BufferSize => memory'[k - 1] = memory[k - 1]
      BY <1>1 DEF Typing!Cells
    <2>4. length < BufferSize => memory'[length] = c
      BY <1>1 DEF Typing!Cells
    <2>5. Append(Typing!Typed, IF Len(Typing!Typed) < BufferSize THEN c ELSE "lost")
          = [k \in 1..(length + 1) |-> IF k = length + 1
                                       THEN IF length < BufferSize THEN c ELSE "lost"
                                       ELSE Typing!Typed[k]]
      <3> DEFINE e == IF length < BufferSize THEN c ELSE "lost"
                 S == Printable \cup {"nul", "junk", "lost"}
      <3>1. e \in S
        BY DEF Typing!Store
      <3>2. Typing!Typed \in Seq(S)
        BY <2>1
      <3> HIDE DEF e, S
      <3>3. Append(Typing!Typed, e)
            = [k \in 1..(Len(Typing!Typed) + 1) |-> IF k = Len(Typing!Typed) + 1 THEN e ELSE Typing!Typed[k]]
        BY <3>1, <3>2, AppendIsFunction
      <3> QED
        BY <2>1, <3>3 DEF e
    <2>6. \A k \in 1..(length + 1) :
            (IF k <= BufferSize THEN memory'[k - 1] ELSE "lost")
            = IF k = length + 1 THEN IF length < BufferSize THEN c ELSE "lost" ELSE Typing!Typed[k]
      BY <1>1, <2>3, <2>4, TypedLine DEF TypingInv
    <2> QED
      BY <2>2, <2>5, <2>6
  <1>3. ~(c = "/" /\ Typing!Editor!EndsIn("A"))
    <2>1. c = "/" => ~(length >= 1 /\ memory[length - 1] = "A")
      BY DEF Typing!Store, Typing!AfterA
    <2> QED
      BY <1>1, <2>1, TypedLine DEF Typing!Editor!EndsIn, TypingInv
  <1>4. Typing!Given' = <<>>
    BY DEF Typing!Store, Typing!NoLine, Typing!Given
  <1>5. Typing!Previous' = Typing!Previous
    <2>1. \A k \in 1..oldlength : memory'[BufferSize + k - 1] = memory[BufferSize + k - 1]
      BY <1>1 DEF Typing!Cells
    <2> QED
      BY <1>1, <2>1 DEF Typing!Previous
  <1> QED
    BY <1>2, <1>3, <1>4, <1>5 DEF Typing!Editor!Type

\* Asking for the previous line.
LEMMA RepeatStep ==
  ASSUME TypingInv, NEW c \in Typing!Chars, Typing!Repeat(c)
  PROVE  Typing!Editor!Repeat
  <1> USE SizeIs
  <1>1. length \in Nat /\ length >= 1 /\ memory[length - 1] = "A" /\ length' = 0
        /\ UNCHANGED <<oldlength, memory>>
    BY DEF Typing!Repeat, Typing!AfterA, TypingInv, Typing!TypeOK
  <1>2. Typing!Editor!EndsIn("A") \/ Typing!Editor!EndsIn("lost")
    BY <1>1, TypedLine DEF Typing!Editor!EndsIn, TypingInv
  <1>3. Typing!Typed' = <<>>
    BY <1>1 DEF Typing!Typed
  <1>4. Typing!Previous' = Typing!Previous
    BY <1>1 DEF Typing!Previous
  <1>5. Typing!Given' = Typing!Previous
    <2>1. CASE oldlength = 0
      BY <2>1 DEF Typing!Repeat, Typing!NoLine, Typing!Given, Typing!Previous
    <2>2. CASE oldlength # 0
      BY <1>1, <2>2 DEF Typing!Repeat, Typing!Given, Typing!Previous, Typing!Null
    <2> QED
      BY <2>1, <2>2
  <1> QED
    BY <1>2, <1>3, <1>4, <1>5 DEF Typing!Editor!Repeat

\* Ending a line with a command in it.
LEMMA EnterStep ==
  ASSUME TypingInv, NEW c \in Typing!Chars, Typing!Enter(c)
  PROVE  Typing!Editor!EnterCommand
  <1> USE SizeIs
  <1>1. PICK start \in Typing!Prefixes :
          /\ \A i \in Typing!Prefixes : start <= i
          /\ memory' = Typing!Saved(start, length - start)
          /\ oldlength' = length - start
          /\ ret' = start /\ plen' = length - start
    BY DEF Typing!Enter
  <1>2. /\ start \in Nat /\ start + 2 <= length /\ length < BufferSize /\ length \in Nat
        /\ memory[start] = "A" /\ memory[start + 1] = "T" /\ length' = 0
    BY DEF Typing!Enter, Typing!Prefixes, TypingInv, Typing!TypeOK
  <1>3. /\ Len(Typing!Typed) = length
        /\ \A k \in 1..length : Typing!Typed[k] = memory[k - 1]
    BY <1>2, TypedLine DEF TypingInv
  <1>4. \A j : j \in Typing!Editor!Starts <=> j - 1 \in Typing!Prefixes /\ j \in 1..(length - 1)
    BY <1>2, <1>3 DEF Typing!Editor!Starts, Typing!Prefixes
  <1>5. start + 1 \in Typing!Editor!Starts /\ \A j \in Typing!Editor!Starts : start + 1 <= j
    BY <1>1, <1>2, <1>4
  <1>6. Typing!Editor!From(start + 1) = [k \in 1..(length - start) |-> memory[start + k - 1]]
    <2>1. Typing!Editor!From(start + 1) = [k \in 1..(length - start) |-> Typing!Typed[start + k]]
      BY <1>2, <1>3 DEF Typing!Editor!From
    <2>2. \A k \in 1..(length - start) : Typing!Typed[start + k] = memory[start + k - 1]
      BY <1>2, <1>3
    <2> QED
      BY <2>1, <2>2
  <1>7. Typing!Given' = [k \in 1..(length - start) |-> memory[start + k - 1]]
    <2>1. Typing!Given' = [k \in 1..(length - start) |-> memory'[start + k - 1]]
      BY <1>1, <1>2 DEF Typing!Given, Typing!Null
    <2>2. \A k \in 1..(length - start) : memory'[start + k - 1] = memory[start + k - 1]
      BY <1>1, <1>2 DEF Typing!Saved, Typing!Cells
    <2> QED
      BY <2>1, <2>2
  <1>8. Typing!Previous' = Typing!Given'
    <2>1. Typing!Previous' = [k \in 1..(length - start) |-> memory'[BufferSize + k - 1]]
      BY <1>1, <1>2 DEF Typing!Previous
    <2>2. \A k \in 1..(length - start) : memory'[BufferSize + k - 1] = memory[start + k - 1]
      BY <1>1, <1>2 DEF Typing!Saved, Typing!Cells
    <2> QED
      BY <1>7, <2>1, <2>2
  <1>9. Typing!Typed' = <<>>
    BY <1>2 DEF Typing!Typed
  <1> QED
    BY <1>2, <1>3, <1>5, <1>6, <1>7, <1>8, <1>9 DEF Typing!Editor!EnterCommand

\* Ending a line without a command, or one that is too long.
LEMMA EndStep ==
  ASSUME TypingInv, NEW c \in Typing!Chars
  PROVE  /\ Typing!EnterNothing(c) => Typing!Editor!EnterNothing
         /\ Typing!Overflow(c) => Typing!Editor!EnterTooLong
  <1> USE SizeIs
  <1>1. length \in Nat /\ Len(Typing!Typed) = length
    BY TypedLine DEF TypingInv, Typing!TypeOK
  <1>2. ASSUME Typing!EnterNothing(c) PROVE Typing!Editor!EnterNothing
    <2>1. length < BufferSize /\ length' = 0 /\ oldlength' = oldlength /\ ret' = Typing!Null
          /\ memory' = [memory EXCEPT ![length] = "nul"]
      BY <1>2 DEF Typing!EnterNothing
    <2>2. Typing!Editor!Starts = {}
      <3>1. \A k \in 1..length : Typing!Typed[k] = memory[k - 1]
        BY <1>1, <2>1, TypedLine DEF TypingInv
      <3>2. ASSUME NEW j \in Typing!Editor!Starts PROVE j - 1 \in Typing!Prefixes
        BY <1>1, <3>1, <3>2 DEF Typing!Editor!Starts, Typing!Prefixes
      <3> QED
        BY <1>2, <3>2 DEF Typing!EnterNothing
    <2>3. Typing!Previous' = Typing!Previous
      <3>1. \A k \in 1..oldlength : memory'[BufferSize + k - 1] = memory[BufferSize + k - 1]
        BY <1>1, <2>1 DEF TypingInv, Typing!TypeOK, Typing!Cells
      <3> QED
        BY <2>1, <3>1 DEF Typing!Previous
    <2> QED
      BY <1>1, <2>1, <2>2, <2>3 DEF Typing!Editor!EnterNothing, Typing!Typed, Typing!Given
  <1>3. ASSUME Typing!Overflow(c) PROVE Typing!Editor!EnterTooLong
    BY <1>1, <1>3 DEF Typing!Overflow, Typing!NoLine, Typing!Editor!EnterTooLong, Typing!Typed, Typing!Given, Typing!Previous
  <1> QED
    BY <1>2, <1>3

\* What at_parser_push() returns is what the line editor returns, for every input.
LEMMA TypingIsEditor == Typing!Spec => EditorSpec
  <1>1. Typing!Init => Typing!Editor!Init
    BY DEF Typing!Init, Typing!Editor!Init, Typing!Typed, Typing!Previous, Typing!Given
  <1>2. TypingInv /\ [Typing!Next]_(Typing!vars) => [Typing!Editor!Next]_(Typing!Editor!vars)
    <2> SUFFICES ASSUME TypingInv, [Typing!Next]_(Typing!vars) PROVE [Typing!Editor!Next]_(Typing!Editor!vars)
      OBVIOUS
    <2>1. ASSUME NEW c \in Typing!Chars, Typing!Push(c) PROVE Typing!Editor!Next
      <3>1. CASE Typing!Backspace(c)
        BY <3>1, BackspaceStep DEF Typing!Editor!Next
      <3>2. CASE Typing!Repeat(c)
        BY <3>2, RepeatStep DEF Typing!Editor!Next
      <3>3. CASE Typing!Control(c)
        BY <3>3 DEF Typing!Control, Typing!NoLine, Typing!Editor!Next, Typing!Editor!Ignore, Typing!Typed, Typing!Previous, Typing!Given
      <3>4. CASE Typing!Store(c)
        <4>1. c \in Printable
          BY <3>4 DEF Typing!Store
        <4> QED
          BY <3>4, <4>1, StoreStep DEF Typing!Editor!Next
      <3>5. CASE Typing!Overflow(c)
        BY <3>5, EndStep DEF Typing!Editor!Next
      <3>6. CASE Typing!Enter(c)
        BY <3>6, EnterStep DEF Typing!Editor!Next
      <3>7. CASE Typing!EnterNothing(c)
        BY <3>7, EndStep DEF Typing!Editor!Next
      <3> QED
        BY <2>1, <3>1, <3>2, <3>3, <3>4, <3>5, <3>6, <3>7 DEF Typing!Push
    <2>2. CASE UNCHANGED Typing!vars
      BY <2>2 DEF Typing!vars, Typing!Editor!vars, Typing!Typed, Typing!Previous, Typing!Given
    <2> QED
      BY <2>1, <2>2 DEF Typing!Next
  <1> QED
    BY TypingInvariance, <1>1, <1>2, PTL DEF Typing!Spec, EditorSpec, Typing!EditorSpec, Typing!Editor!Spec

\* The same for lines that are typed and executed.
THEOREM ParserIsEditor == LinesSpec => EditorSpec
  BY TypingIsEditor, LinesAreBoth, PTL
=============================================================================
