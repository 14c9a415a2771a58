--------------------------- MODULE CompoundProofs ---------------------------
(***************************************************************************)
(* What the operators of Compound compute, for every size and content: the *)
(* names a file has, what is stored under each of them, and that the size  *)
(* listed for a file is the size it was stored with.                       *)
(***************************************************************************)
EXTENDS Compound, SequenceTheorems, FiniteSetTheorems, TLAPS

LEMMA Monotone == \A m, n, c \in Nat : m <= n => m * c <= n * c
OBVIOUS

-----------------------------------------------------------------------------
(* Names. *)

LEMMA LenDomain ==
    ASSUME NEW S, NEW n \in Nat, NEW f \in [1..n -> S]
    PROVE  f \in Seq(S) /\ Len(f) = n
<1>1. f \in Seq(S)
  BY SeqDef
<1>2. Len(f) \in Nat /\ DOMAIN f = 1..Len(f)
  BY <1>1, LenProperties
<1>3. 1..Len(f) = 1..n
  BY <1>2
<1> QED
  BY <1>1, <1>2, <1>3

(***************************************************************************)
(* The names in use are those upload counts.                               *)
(***************************************************************************)
LEMMA NamesInUse ==
    ASSUME NEW s, Len(s) \in Nat
    PROVE  /\ Count(Len(s)) \in Nat \ {0}
           /\ IsCompound(Len(s)) => DOMAIN StoredAs(s) = 0..(Count(Len(s)) - 1)
           /\ ~IsCompound(Len(s)) => DOMAIN StoredAs(s) = {Whole} /\ Count(Len(s)) = 1
<1>1. MaxFileSize \in Nat \ {0}
  BY CompoundAssumption
<1>2. CASE IsCompound(Len(s))
  <2> DEFINE m == Len(s) \div MaxFileSize
  <2>1. m \in Nat /\ m * MaxFileSize <= Len(s) /\ Len(s) < (m + 1) * MaxFileSize
    BY <1>1
  <2>2. DOMAIN StoredAs(s) = {x \in 0..Len(s) : x * MaxFileSize <= Len(s)}
    BY <1>2 DEF StoredAs, IsCompound
  <2>3. ASSUME NEW x \in Nat PROVE x <= m <=> x <= Len(s) /\ x * MaxFileSize <= Len(s)
    <3>1. \A a, b, c \in Nat : a <= b => a * c <= b * c
      OBVIOUS
    <3>2. x <= m => x * MaxFileSize <= m * MaxFileSize
      BY <1>1, <2>1, <3>1
    <3>3. m + 1 <= x => (m + 1) * MaxFileSize <= x * MaxFileSize
      BY <1>1, <2>1, <3>1
    <3>4. x * 1 <= x * MaxFileSize
      BY <1>1
    <3>5. x * MaxFileSize \in Nat /\ m * MaxFileSize \in Nat /\ (m + 1) * MaxFileSize \in Nat
      BY <1>1, <2>1
    <3> QED
      BY <2>1, <3>2, <3>3, <3>4, <3>5
  <2>4. Count(Len(s)) = m + 1
    BY <1>2 DEF Count, PartCount
  <2> HIDE DEF m
  <2> QED
    BY <1>2, <2>1, <2>2, <2>3, <2>4
<1>3. CASE ~IsCompound(Len(s))
  BY <1>3 DEF StoredAs, IsCompound, Count
<1> QED
  BY <1>2, <1>3

LEMMA DivisionBounds ==
    ASSUME NEW a \in Nat, NEW d \in Nat \ {0}, NEW x \in Nat
    PROVE  a \div d = x <=> x * d <= a /\ a < x * d + d
<1> DEFINE q == a \div d
<1>1. q \in Nat /\ q * d <= a /\ a < q * d + d
  OBVIOUS
<1> HIDE DEF q
<1>2. \A m, n, c \in Nat : m <= n => m * c <= n * c
  OBVIOUS
<1>3. (q + 1) * d = q * d + d /\ (x + 1) * d = x * d + d /\ q * d \in Nat /\ x * d \in Nat
  BY <1>1
<1>4. q + 1 <= x => q * d + d <= x * d
  BY <1>1, <1>2, <1>3
<1>5. x + 1 <= q => x * d + d <= q * d
  BY <1>1, <1>2, <1>3
<1>6. q = x <=> x * d <= a /\ a < x * d + d
  BY <1>1, <1>3, <1>4, <1>5
<1> QED
  BY <1>6 DEF q

LEMMA CountType ==
    ASSUME NEW size \in Nat
    PROVE  Count(size) \in Nat \ {0} /\ \A i \in Nat : NameAt(size, i) \in Names
<1>1. size \div MaxFileSize \in Nat
  BY CompoundAssumption
<1> QED
  BY <1>1 DEF Count, PartCount, NameAt, Names


(* The names of a file of this size from the i-th on, and all of them. *)
NamesFrom(size, i) == {NameAt(size, k) : k \in i..(Count(size) - 1)}
NamesOf(size) == NamesFrom(size, 0)

LEMMA InLoop ==
    ASSUME NEW size \in Nat, NEW i \in Nat, i < Count(size)
    PROVE  /\ i \in 0..(Count(size) - 1) /\ Count(size) \in Nat \ {0}
           /\ i + 1 # Count(size) => i + 1 < Count(size)
BY CountType

LEMMA StoredWhole ==
    ASSUME NEW s, ~IsCompound(Len(s)) PROVE StoredAs(s) = [x \in {Whole} |-> s]
BY Zenon DEF StoredAs, IsCompound

LEMMA StoredNames ==
    ASSUME NEW s, Len(s) \in Nat
    PROVE  DOMAIN StoredAs(s) = NamesOf(Len(s))
<1>1. CASE IsCompound(Len(s))
  BY <1>1, NamesInUse DEF NamesOf, NamesFrom, NameAt
<1>2. CASE ~IsCompound(Len(s))
  BY <1>2, NamesInUse DEF NamesOf, NamesFrom, NameAt
<1> QED
  BY <1>1, <1>2

(***************************************************************************)
(* A loop over the names leaves one behind with each request.              *)
(***************************************************************************)
LEMMA NamesLeft ==
    ASSUME NEW size \in Nat, NEW i \in Nat, i < Count(size)
    PROVE  /\ NameAt(size, i) \in NamesFrom(size, i)
           /\ NamesFrom(size, i + 1) = NamesFrom(size, i) \ {NameAt(size, i)}
           /\ NamesFrom(size, i) \subseteq NamesOf(size)
           /\ i + 1 = Count(size) => NamesFrom(size, i + 1) = {}
<1>1. Count(size) \in Nat
  BY CountType
<1>2. CASE IsCompound(size)
  BY <1>1, <1>2 DEF NamesFrom, NamesOf, NameAt
<1>3. CASE ~IsCompound(size)
  <2>1. Count(size) = 1 /\ i = 0
    BY <1>3 DEF Count
  <2> QED
    BY <1>3, <2>1 DEF NamesFrom, NamesOf, NameAt
<1> QED
  BY <1>2, <1>3

(***************************************************************************)
(* A file that has grown has the names it had before, unless it was whole. *)
(***************************************************************************)
LEMMA NamesGrow ==
    ASSUME NEW a \in Nat, NEW b \in Nat, a <= b
    PROVE  NamesOf(a) \subseteq NamesOf(b) \/ NamesOf(a) = {Whole}
<1>1. CASE ~IsCompound(a)
  BY <1>1 DEF NamesOf, NamesFrom, NameAt, Count
<1>2. CASE IsCompound(a)
  <2>1. IsCompound(b)
    BY <1>2, CompoundAssumption DEF IsCompound
  <2>2. /\ a \div MaxFileSize <= b \div MaxFileSize
        /\ a \div MaxFileSize \in Nat /\ b \div MaxFileSize \in Nat
    <3> DEFINE p == a \div MaxFileSize
               q == b \div MaxFileSize
    <3>1. /\ p \in Nat /\ p * MaxFileSize <= a /\ a < p * MaxFileSize + MaxFileSize
          /\ q \in Nat /\ q * MaxFileSize <= b /\ b < q * MaxFileSize + MaxFileSize
      BY CompoundAssumption
    <3> HIDE DEF p, q
    <3>2. q + 1 <= p => (q + 1) * MaxFileSize <= p * MaxFileSize
      BY <3>1, Monotone, CompoundAssumption
    <3>3. (q + 1) * MaxFileSize = q * MaxFileSize + MaxFileSize
      BY <3>1, CompoundAssumption
    <3>4. q * MaxFileSize \in Nat /\ p * MaxFileSize \in Nat
      BY <3>1, CompoundAssumption
    <3>5. p <= q
      BY <3>1, <3>2, <3>3, <3>4, CompoundAssumption
    <3> QED
      BY <3>1, <3>5 DEF p, q
  <2>3. Count(a) <= Count(b) /\ Count(a) \in Nat /\ Count(b) \in Nat
    BY <1>2, <2>1, <2>2, CountType DEF Count, PartCount
  <2> QED
    BY <1>2, <2>1, <2>3 DEF NamesOf, NamesFrom, NameAt
<1> QED
  BY <1>1, <1>2

LEMMA NamesStay ==
    ASSUME NEW a \in Nat, NEW b \in Nat, NEW c \in Nat, a <= b, b <= c
    PROVE  NamesOf(b) \subseteq NamesOf(a) \cup NamesOf(c)
<1>1. NamesOf(b) \subseteq NamesOf(c) \/ NamesOf(b) = {Whole}
  BY NamesGrow
<1>2. NamesOf(a) \subseteq NamesOf(b) \/ NamesOf(a) = {Whole}
  BY NamesGrow
<1>3. NameAt(a, 0) \in NamesOf(a)
  <2>1. 0 < Count(a)
    BY CountType
  <2> QED
    BY <2>1, NamesLeft DEF NamesOf
<1> QED
  BY <1>1, <1>2, <1>3

-----------------------------------------------------------------------------
(* Contents. *)

(***************************************************************************)
(* The i-th slice of s, and all slices before it.                          *)
(***************************************************************************)
SliceEnd(n, i) == IF n < i * MaxFileSize + MaxFileSize THEN n
                                                       ELSE i * MaxFileSize + MaxFileSize
Slice(s, i) == IF IsCompound(Len(s))
               THEN SubSeq(s, i * MaxFileSize + 1, SliceEnd(Len(s), i)) ELSE s
Taken(s, i) == SubSeq(s, 1, IF i * MaxFileSize < Len(s) THEN i * MaxFileSize ELSE Len(s))

LEMMA SubSeqOf ==
    ASSUME NEW S, NEW s \in Seq(S), NEW a \in Nat, NEW b \in Nat, a <= b, b <= Len(s)
    PROVE  /\ SubSeq(s, a + 1, b) \in Seq(S) /\ Len(SubSeq(s, a + 1, b)) = b - a
           /\ \A j \in 1..(b - a) : SubSeq(s, a + 1, b)[j] = s[a + j]
<1>1. Len(s) \in Nat /\ \A k \in (a + 1)..b : k \in 1..Len(s)
  BY LenProperties
<1>2. \A k \in (a + 1)..b : s[k] \in S
  BY <1>1, ElementOfSeq
<1>3. /\ SubSeq(s, a + 1, b) \in Seq(S)
      /\ Len(SubSeq(s, a + 1, b)) = IF a + 1 <= b THEN b - (a + 1) + 1 ELSE 0
      /\ \A j \in 1..(b - (a + 1) + 1) : SubSeq(s, a + 1, b)[j] = s[a + 1 + j - 1]
  BY <1>2, SubSeqProperties
<1> QED
  BY <1>1, <1>3

(***************************************************************************)
(* Where the slices of a compound file begin and end.                      *)
(***************************************************************************)
LEMMA SliceBounds ==
    ASSUME NEW n \in Nat, IsCompound(n), NEW i \in Nat, i < Count(n)
    PROVE  /\ i * MaxFileSize \in Nat /\ SliceEnd(n, i) \in Nat
           /\ i * MaxFileSize <= SliceEnd(n, i) /\ SliceEnd(n, i) <= n
           /\ SliceEnd(n, i) <= i * MaxFileSize + MaxFileSize
           /\ i + 1 = Count(n) => SliceEnd(n, i) = n
           /\ i + 1 < Count(n) => SliceEnd(n, i) = i * MaxFileSize + MaxFileSize
<1> DEFINE m == n \div MaxFileSize
           start == i * MaxFileSize
<1>1. /\ m \in Nat /\ m * MaxFileSize <= n /\ n < m * MaxFileSize + MaxFileSize
      /\ Count(n) = m + 1
  BY CompoundAssumption DEF Count, PartCount
<1> HIDE DEF m
<1>2. /\ start \in Nat /\ start <= m * MaxFileSize /\ m * MaxFileSize \in Nat
      /\ i + 1 <= m => (i + 1) * MaxFileSize <= m * MaxFileSize
  BY <1>1, Monotone, CompoundAssumption
<1>3. (i + 1) * MaxFileSize = start + MaxFileSize
  BY CompoundAssumption
<1>4. i = m => start = m * MaxFileSize
  OBVIOUS
<1> HIDE DEF start
<1>5. SliceEnd(n, i) = IF n < start + MaxFileSize THEN n ELSE start + MaxFileSize
  BY DEF SliceEnd, start
<1>6. /\ start \in Nat /\ SliceEnd(n, i) \in Nat
      /\ start <= SliceEnd(n, i) /\ SliceEnd(n, i) <= n
      /\ SliceEnd(n, i) <= start + MaxFileSize
      /\ i + 1 = Count(n) => SliceEnd(n, i) = n
      /\ i + 1 < Count(n) => SliceEnd(n, i) = start + MaxFileSize
  BY <1>1, <1>2, <1>3, <1>4, <1>5, CompoundAssumption
<1> QED
  BY <1>6 DEF start

LEMMA SliceType ==
    ASSUME NEW S, NEW s \in Seq(S), NEW i \in 0..(Count(Len(s)) - 1)
    PROVE  Slice(s, i) \in Seq(S)
<1>1. Len(s) \in Nat /\ i \in Nat /\ i < Count(Len(s))
  BY LenProperties, CountType
<1> QED
  BY <1>1, SliceBounds, SubSeqOf DEF Slice

(***************************************************************************)
(* What the cloud should store under the i-th name is the i-th slice, an   *)
(* empty last one included.                                                *)
(***************************************************************************)
LEMMA StoredSlice ==
    ASSUME NEW S, NEW s \in Seq(S), NEW i \in 0..(Count(Len(s)) - 1)
    PROVE  /\ NameAt(Len(s), i) \in DOMAIN StoredAs(s)
           /\ StoredAs(s)[NameAt(Len(s), i)] = Slice(s, i)
<1>1. Len(s) \in Nat /\ DOMAIN s = 1..Len(s) /\ i \in Nat /\ i < Count(Len(s))
  BY LenProperties, CountType
<1>2. NameAt(Len(s), i) \in DOMAIN StoredAs(s)
  BY <1>1, StoredNames DEF NamesOf, NamesFrom
<1>3. CASE ~IsCompound(Len(s))
  <2>1. StoredAs(s) = [x \in {Whole} |-> s]
    BY <1>3, StoredWhole
  <2> QED
    BY <1>2, <1>3, <2>1 DEF NameAt, Slice
<1>4. CASE IsCompound(Len(s))
  <2> DEFINE start == i * MaxFileSize
             top == SliceEnd(Len(s), i)
             From(x) == {k \in 1..Len(s) : (k - 1) \div MaxFileSize = x}
  <2>1. /\ start \in Nat /\ top \in Nat /\ start <= top /\ top <= Len(s)
        /\ Slice(s, i) = SubSeq(s, start + 1, top)
    BY <1>1, <1>4, SliceBounds DEF Slice
  <2>2. NameAt(Len(s), i) = i
    BY <1>4 DEF NameAt
  <2>3. StoredAs(s)[i] = [j \in 1..Cardinality(From(i)) |-> s[start + j]]
    <3>1. i \in {x \in 0..Len(s) : x * MaxFileSize <= Len(s)}
      BY <1>2, <1>4, <2>2 DEF StoredAs, IsCompound
    <3> QED
      BY <1>4, <3>1 DEF StoredAs, IsCompound
  <2>4. From(i) = (start + 1)..top
    <3>1. ASSUME NEW k \in 1..Len(s)
          PROVE  (k - 1) \div MaxFileSize = i <=> start <= k - 1 /\ k - 1 < start + MaxFileSize
      <4>1. k - 1 \in Nat
        BY <1>1
      <4> QED
        BY <1>1, <4>1, DivisionBounds, CompoundAssumption
    <3>2. top = IF Len(s) < start + MaxFileSize THEN Len(s) ELSE start + MaxFileSize
      BY DEF SliceEnd
    <3>3. From(i) = {k \in 1..Len(s) : start <= k - 1 /\ k - 1 < start + MaxFileSize}
      BY <3>1
    <3> DEFINE F == From(i)
    <3> HIDE DEF start, top, F
    <3>4. /\ start \in Nat /\ top \in Nat /\ start <= top /\ top <= Len(s)
          /\ MaxFileSize \in Nat /\ Len(s) \in Nat
      BY <1>1, <2>1, CompoundAssumption
    <3>5. \A k : k \in F <=> k \in (start + 1)..top
      BY <3>2, <3>3, <3>4 DEF F
    <3> QED
      BY <3>5 DEF F
  <2> HIDE DEF start, top
  <2>5. Cardinality((start + 1)..top) = top - start
    <3>1. Cardinality((start + 1)..top) =
              IF start + 1 > top THEN 0 ELSE top - (start + 1) + 1
      BY <2>1, FS_Interval
    <3> QED
      BY <2>1, <3>1
  <2>6. StoredAs(s)[i] = [j \in 1..(top - start) |-> s[start + j]]
    BY <2>3, <2>4, <2>5
  <2>7. /\ Slice(s, i) \in Seq(S) /\ Len(Slice(s, i)) = top - start
        /\ \A j \in 1..(top - start) : Slice(s, i)[j] = s[start + j]
    BY <2>1, SubSeqOf
  <2>8. StoredAs(s)[i] \in Seq(S) /\ Len(StoredAs(s)[i]) = top - start
    <3>1. \A j \in 1..(top - start) : s[start + j] \in S
      BY <2>7, ElementOfSeq
    <3>2. [j \in 1..(top - start) |-> s[start + j]] \in [1..(top - start) -> S]
      BY <3>1
    <3>3. top - start \in Nat
      BY <2>1
    <3> QED
      BY <2>6, <3>2, <3>3, LenDomain
  <2>9. StoredAs(s)[i] = Slice(s, i)
    BY <2>6, <2>7, <2>8, SeqEqual
  <2> QED
    BY <1>2, <2>2, <2>9
<1> QED
  BY <1>3, <1>4

(***************************************************************************)
(* A layout is the file's when it has the file's names and slices.         *)
(***************************************************************************)
LEMMA LayoutOfFile ==
    ASSUME NEW S, NEW s \in Seq(S), NEW f, f = [x \in NamesOf(Len(s)) |-> f[x]],
           \A k \in 0..(Count(Len(s)) - 1) : f[NameAt(Len(s), k)] = Slice(s, k)
    PROVE  f = StoredAs(s)
<1>1. StoredAs(s) = [x \in DOMAIN StoredAs(s) |-> StoredAs(s)[x]]
  BY DEF StoredAs
<1>2. DOMAIN StoredAs(s) = NamesOf(Len(s))
  BY StoredNames, LenProperties
<1>3. ASSUME NEW x \in NamesOf(Len(s)) PROVE f[x] = StoredAs(s)[x]
  <2>1. PICK k \in 0..(Count(Len(s)) - 1) : x = NameAt(Len(s), k)
    BY DEF NamesOf, NamesFrom
  <2> QED
    BY <2>1, StoredSlice
<1> QED
  BY <1>1, <1>2, <1>3

(***************************************************************************)
(* Slices taken one after the other give the content back.                 *)
(***************************************************************************)
LEMMA SlicesJoin ==
    ASSUME NEW S, NEW s \in Seq(S), NEW i \in 0..(Count(Len(s)) - 1)
    PROVE  /\ Taken(s, i) \in Seq(S) /\ Taken(s, 0) = <<>>
           /\ Taken(s, i) \o Slice(s, i) = Taken(s, i + 1)
           /\ i + 1 = Count(Len(s)) => Taken(s, i + 1) = s
<1> DEFINE M == MaxFileSize
           start == i * M
           n == Len(s)
           End(k) == IF k * M < n THEN k * M ELSE n
<1>1. n \in Nat /\ i \in Nat /\ i < Count(n) /\ M \in Nat \ {0}
  BY LenProperties, CountType, CompoundAssumption
<1>2. start \in Nat /\ (i + 1) * M = start + M /\ 0 * M = 0
  BY <1>1
<1>3. /\ Taken(s, 0) = SubSeq(s, 0 + 1, End(0)) /\ Taken(s, 1) = SubSeq(s, 0 + 1, End(1))
      /\ Taken(s, i) = SubSeq(s, 0 + 1, End(i))
      /\ Taken(s, i + 1) = SubSeq(s, 0 + 1, End(i + 1))
  BY DEF Taken
<1>4. ASSUME NEW e \in 0..n
      PROVE  /\ SubSeq(s, 0 + 1, e) \in Seq(S) /\ Len(SubSeq(s, 0 + 1, e)) = e
             /\ \A j \in 1..e : SubSeq(s, 0 + 1, e)[j] = s[j]
  BY <1>1, SubSeqOf
<1>5. SubSeq(s, 0 + 1, n) = s
  BY <1>1, <1>4, SeqEqual
<1>6. Taken(s, 0) = <<>>
  <2>1. End(0) = 0
    BY <1>1, <1>2
  <2>2. Len(SubSeq(s, 0 + 1, 0)) = 0 /\ SubSeq(s, 0 + 1, 0) \in Seq(S)
    BY <1>1, <1>4
  <2>3. SubSeq(s, 0 + 1, 0) = <<>>
    BY <2>2, EmptySeq
  <2> QED
    BY <1>3, <2>1, <2>3
<1>7. CASE ~IsCompound(n)
  <2>1. i = 0 /\ Count(n) = 1 /\ Slice(s, i) = s
    BY <1>1, <1>7 DEF Count, Slice
  <2>2. End(1) = n
    BY <1>1, <1>7 DEF IsCompound
  <2>3. Taken(s, 1) = s
    BY <1>3, <1>5, <2>2
  <2> QED
    <3>1. <<>> \o s = s /\ <<>> \in Seq(S)
      BY ConcatEmptySeq, EmptySeq
    <3>2. Taken(s, i) = <<>> /\ Taken(s, i + 1) = s
      BY <1>6, <2>1, <2>3
    <3> QED
      BY <1>6, <2>1, <3>1, <3>2
<1>8. CASE IsCompound(n)
  <2> DEFINE top == SliceEnd(n, i)
  <2>1. /\ top \in Nat /\ start <= top /\ top <= n
        /\ i + 1 = Count(n) => top = n
        /\ Slice(s, i) = SubSeq(s, start + 1, top)
        /\ top = IF n < start + M THEN n ELSE start + M
    BY <1>1, <1>8, SliceBounds DEF Slice, SliceEnd
  <2>2. End(i) = start /\ End(i + 1) = top
    <3> HIDE DEF start, top
    <3>1. End(i + 1) = IF start + M < n THEN start + M ELSE n
      BY <1>2
    <3>2. End(i) = IF start < n THEN start ELSE n
      BY DEF start
    <3> QED
      BY <1>1, <1>2, <2>1, <3>1, <3>2
  <2> HIDE DEF start, top
  <2> HIDE DEF End, n
  <2>3. Taken(s, i) = SubSeq(s, 0 + 1, start) /\ Taken(s, i + 1) = SubSeq(s, 0 + 1, top)
    BY <1>3, <2>2
  <2>4. /\ Taken(s, i) \in Seq(S) /\ Len(Taken(s, i)) = start
        /\ \A j \in 1..start : Taken(s, i)[j] = s[j]
        /\ Taken(s, i + 1) \in Seq(S) /\ Len(Taken(s, i + 1)) = top
        /\ \A j \in 1..top : Taken(s, i + 1)[j] = s[j]
    <3>1. start \in 0..n /\ top \in 0..n
      BY <1>1, <1>2, <2>1
    <3> QED
      BY <1>4, <2>3, <3>1
  <2>5. /\ Slice(s, i) \in Seq(S) /\ Len(Slice(s, i)) = top - start
        /\ \A j \in 1..(top - start) : Slice(s, i)[j] = s[start + j]
    BY <1>2, <2>1, SubSeqOf DEF n
  <2>6. Taken(s, i) \o Slice(s, i) = Taken(s, i + 1)
    <3> DEFINE t == Taken(s, i) \o Slice(s, i)
    <3>1. /\ t \in Seq(S) /\ Len(t) = start + (top - start)
          /\ \A j \in 1..(start + (top - start)) :
                t[j] = IF j <= start THEN Taken(s, i)[j] ELSE Slice(s, i)[j - start]
      BY <2>4, <2>5, ConcatProperties
    <3> HIDE DEF t
    <3>2. Len(t) = top
      BY <1>2, <2>1, <3>1
    <3>3. ASSUME NEW j \in 1..top PROVE t[j] = Taken(s, i + 1)[j]
      <4>1. j <= start => t[j] = s[j]
        BY <1>2, <2>1, <2>4, <3>1
      <4>2. ASSUME ~(j <= start) PROVE t[j] = s[j]
        <5>1. j - start \in 1..(top - start) /\ start + (j - start) = j
          BY <1>2, <2>1, <4>2
        <5>2. t[j] = Slice(s, i)[j - start]
          <6>1. j \in 1..(start + (top - start))
            BY <1>2, <2>1
          <6>2. t[j] = IF j <= start THEN Taken(s, i)[j] ELSE Slice(s, i)[j - start]
            BY <3>1, <6>1, Zenon
          <6> QED
            BY <4>2, <6>2, Zenon
        <5>3. \A k \in 1..(top - start) : Slice(s, i)[k] = s[start + k]
          BY <2>5
        <5>4. Slice(s, i)[j - start] = s[start + (j - start)]
          BY <5>1, <5>3, Zenon
        <5>5. s[start + (j - start)] = s[j]
          BY <5>1, Zenon
        <5> QED
          BY <5>2, <5>4, <5>5
      <4> QED
        BY <2>4, <4>1, <4>2
    <3>4. t = Taken(s, i + 1)
      BY <2>4, <3>1, <3>2, <3>3, SeqEqual
    <3> QED
      BY <3>4 DEF t
  <2>7. i + 1 = Count(n) => Taken(s, i + 1) = s
    BY <1>5, <2>1, <2>3
  <2> QED
    BY <1>6, <2>4, <2>6, <2>7 DEF n
<1> QED
  BY <1>7, <1>8, <1>6

(***************************************************************************)
(* handleCompounds lists a file with the size it was stored with: the      *)
(* bytes of all parts are as many as those of the content.                 *)
(***************************************************************************)
THEOREM ListedIsStored ==
    ASSUME NEW S, NEW s \in Seq(S)
    PROVE  ListedSize(StoredAs(s)) = Len(s)
<1> DEFINE n == Len(s)
           M == MaxFileSize
           cl == StoredAs(s)
           parts == DOMAIN cl \ {Whole}
           bytes == UNION {{x} \X DOMAIN cl[x] : x \in parts}
<1>1. n \in Nat /\ M \in Nat \ {0}
  BY LenProperties, CompoundAssumption
<1>2. CASE ~IsCompound(n)
  <2>1. cl = [x \in {Whole} |-> s]
    BY <1>2, StoredWhole
  <2>2. parts = {} /\ Whole \in DOMAIN cl /\ cl[Whole] = s
    BY <2>1
  <2> QED
    BY <2>2 DEF ListedSize
<1>3. CASE IsCompound(n)
  <2>1. parts = 0..(Count(n) - 1) /\ Count(n) \in Nat \ {0}
    BY <1>1, <1>3, NamesInUse DEF Whole
  <2>2. ASSUME NEW x \in parts
        PROVE  /\ x \in Nat /\ x * M \in Nat /\ x * M <= n
               /\ DOMAIN cl[x] = {j \in 1..M : x * M + j <= n}
    <3>1. x \in Nat /\ x < Count(n) /\ x \in 0..(Count(n) - 1)
      BY <2>1
    <3> DEFINE start == x * M
               top == SliceEnd(n, x)
    <3>2. /\ start \in Nat /\ top \in Nat /\ start <= top /\ top <= n
          /\ Slice(s, x) = SubSeq(s, start + 1, top)
      BY <1>1, <1>3, <3>1, SliceBounds DEF Slice
    <3>3. cl[x] = Slice(s, x)
      BY <1>3, <3>1, StoredSlice DEF NameAt
    <3>4. top = IF n < start + M THEN n ELSE start + M
      BY DEF SliceEnd
    <3> HIDE DEF start, top, n, M, cl
    <3>5. Slice(s, x) \in Seq(S) /\ Len(Slice(s, x)) = top - start
      BY <3>2, SubSeqOf DEF n
    <3>6. DOMAIN cl[x] = 1..(top - start)
      BY <3>3, <3>5, LenProperties
    <3>7. \A j : j \in 1..(top - start) <=> j \in 1..M /\ start + j <= n
      BY <1>1, <3>2, <3>4
    <3>8. DOMAIN cl[x] = {j \in 1..M : start + j <= n} /\ start <= n
      BY <1>1, <3>2, <3>6, <3>7
    <3> QED
      BY <3>1, <3>2, <3>8 DEF start
  <2> HIDE DEF parts, cl
  <2> DEFINE Q(k) == (k - 1) \div M
             At(k) == <<Q(k), k - Q(k) * M>>
             g == [k \in 1..n |-> At(k)]
  <2>3. ASSUME NEW k \in 1..n
        PROVE  /\ Q(k) \in parts /\ Q(k) * M \in Nat
               /\ k - Q(k) * M \in DOMAIN cl[Q(k)]
    <3> DEFINE q == Q(k)
    <3>1. k - 1 \in Nat /\ q \in Nat
      BY <1>1
    <3> HIDE DEF q
    <3>2. q * M <= k - 1 /\ k - 1 < q * M + M /\ q * M \in Nat
      <4>1. (k - 1) \div M = q
        BY DEF q
      <4> QED
        BY <1>1, <3>1, <4>1, DivisionBounds
    <3>3. q \in parts
      <4>1. DOMAIN cl = {x \in 0..n : x * M <= n} /\ parts = DOMAIN cl \ {Whole}
        BY <1>3 DEF StoredAs, IsCompound, cl, parts
      <4>2. q <= q * M
        BY <1>1, <3>1, Monotone
      <4>3. q \in 0..n /\ q * M <= n /\ q # Whole
        BY <1>1, <3>1, <3>2, <4>2 DEF Whole
      <4> QED
        BY <4>1, <4>3
    <3>4. k - q * M \in 1..M /\ q * M + (k - q * M) <= n
      BY <1>1, <3>1, <3>2
    <3> QED
      BY <2>2, <3>2, <3>3, <3>4 DEF q
  <2>4. g \in Injection(1..n, bytes)
    <3>1. \A k \in 1..n : At(k) \in bytes
      <4> HIDE DEF Q
      <4> QED
        BY <2>3
    <3>2. ASSUME NEW k \in 1..n, NEW l \in 1..n, At(k) = At(l) PROVE k = l
      <4> HIDE DEF Q
      <4>1. Q(k) = Q(l) /\ k - Q(k) * M = l - Q(l) * M
        BY <3>2
      <4>2. Q(k) * M \in Nat
        BY <2>3
      <4> QED
        BY <1>1, <4>1, <4>2
    <3> HIDE DEF At, bytes
    <3> QED
      BY <3>1, <3>2 DEF Injection, IsInjective
  <2>5. g \in Surjection(1..n, bytes)
    <3>1. ASSUME NEW b \in bytes PROVE \E k \in 1..n : At(k) = b
      <4>1. PICK x \in parts : b \in {x} \X DOMAIN cl[x]
        BY <3>1
      <4>2. PICK j \in DOMAIN cl[x] : b = <<x, j>>
        BY <4>1
      <4> DEFINE k == x * M + j
      <4>3. /\ j \in 1..M /\ k <= n /\ x \in Nat /\ x * M \in Nat
        BY <2>2
      <4>4. k \in 1..n /\ k - 1 \in Nat /\ x * M <= k - 1 /\ k - 1 < x * M + M
        BY <1>1, <4>3
      <4> HIDE DEF k
      <4>5. Q(k) = x
        BY <1>1, <4>3, <4>4, DivisionBounds
      <4> HIDE DEF Q
      <4>6. k - Q(k) * M = j
        BY <1>1, <4>3, <4>5 DEF k
      <4> QED
        BY <4>2, <4>4, <4>5, <4>6
    <3>2. g \in [1..n -> bytes]
      BY <2>4 DEF Injection
    <3> HIDE DEF At, bytes
    <3> QED
      BY <3>1, <3>2 DEF Surjection
  <2>6. ExistsBijection(1..n, bytes)
    BY <2>4, <2>5, Zenon DEF ExistsBijection, Bijection
  <2>7. IsFiniteSet(1..n) /\ Cardinality(1..n) = n
    BY <1>1, FS_Interval
  <2>8. Cardinality(bytes) = n
    <3> HIDE DEF bytes, n
    <3> QED
      BY <2>6, <2>7, FS_Bijection
  <2>9. 0 \in parts
    BY <2>1
  <2> QED
    BY <2>8, <2>9 DEF ListedSize, parts, cl
<1> QED
  BY <1>2, <1>3

LEMMA ListedEmpty ==
    ASSUME NEW cl, DOMAIN cl = {} PROVE ListedSize(cl) = NoEntry
BY DEF ListedSize

LEMMA ListedSizeType ==
    ASSUME NEW S, NEW cl, IsFiniteSet(DOMAIN cl), \A x \in DOMAIN cl : cl[x] \in Seq(S)
    PROVE  /\ ListedSize(cl) \in Nat \cup {NoEntry}
           /\ ListedSize(cl) = NoEntry <=> DOMAIN cl = {}
<1> DEFINE parts == DOMAIN cl \ {Whole}
           pieces == {{x} \X DOMAIN cl[x] : x \in parts}
           f == [x \in parts |-> {x} \X DOMAIN cl[x]]
<1>1. IsFiniteSet(parts)
  BY FS_Subset
<1>2. IsFiniteSet(pieces)
  <2>1. f \in Surjection(parts, pieces)
    BY DEF Surjection
  <2> HIDE DEF parts, pieces, f
  <2> QED
    BY <1>1, <2>1, FS_Surjection
<1>3. \A T \in pieces : IsFiniteSet(T)
  <2> SUFFICES ASSUME NEW x \in parts PROVE IsFiniteSet({x} \X DOMAIN cl[x])
    OBVIOUS
  <2>1. Len(cl[x]) \in Nat /\ DOMAIN cl[x] = 1..Len(cl[x])
    BY LenProperties
  <2>2. IsFiniteSet(1..Len(cl[x]))
    BY <2>1, FS_Interval
  <2>3. IsFiniteSet({x})
    BY FS_Singleton
  <2> QED
    BY <2>1, <2>2, <2>3, FS_Product
<1>4. Cardinality(UNION pieces) \in Nat
  <2> HIDE DEF pieces
  <2> QED
    BY <1>2, <1>3, FS_UNION, FS_CardinalityType
<1>5. ListedSize(cl) = IF parts # {} THEN Cardinality(UNION pieces)
                       ELSE IF Whole \in DOMAIN cl THEN Len(cl[Whole]) ELSE NoEntry
  BY DEF ListedSize
<1>6. Whole \in DOMAIN cl => Len(cl[Whole]) \in Nat
  BY LenProperties
<1> HIDE DEF pieces
<1> QED
  BY <1>4, <1>5, <1>6, CompoundAssumption
=============================================================================
