------------------------------ MODULE Compound ------------------------------
(***************************************************************************)
(* How one file is laid out in the cloud.  A file above MaxFileSize is     *)
(* stored as parts with numbers in their names, any other under its own    *)
(* name.  A layout is a function from the names in use to their contents.  *)
(***************************************************************************)
EXTENDS Integers, Sequences, FiniteSets

CONSTANTS MaxFileSize,  \* MARCFS_MAX_FILE_SIZE
          NoEntry       \* no such file

ASSUME CompoundAssumption == MaxFileSize \in Nat \ {0} /\ NoEntry \notin Nat

IsCompound(size) == size > MaxFileSize
PartCount(size) == size \div MaxFileSize + 1

Whole == -1
Names == {Whole} \cup Nat

(***************************************************************************)
(* A file of this size has Count(size) names, the i-th of them             *)
(* NameAt(size, i); parts are numbered from 0.                             *)
(***************************************************************************)
Count(size) == IF IsCompound(size) THEN PartCount(size) ELSE 1
NameAt(size, i) == IF IsCompound(size) THEN i ELSE Whole

(***************************************************************************)
(* The cloud when it stores s and nothing else for this path.              *)
(***************************************************************************)
StoredAs(s) ==
    IF Len(s) > MaxFileSize
    THEN LET Slice(x) == {i \in 1..Len(s) : (i - 1) \div MaxFileSize = x}
             parts == {x \in 0..Len(s) : x * MaxFileSize <= Len(s)}
         IN  [x \in parts |-> [j \in 1..Cardinality(Slice(x)) |->
                                  s[x * MaxFileSize + j]]]
    ELSE [x \in {Whole} |-> s]

(* Faulty variant: an off-by-one in the size of a listed file. *)
SizeMinusOne(cl) == IF Whole \in DOMAIN cl THEN Len(cl[Whole]) - 1 ELSE NoEntry

(***************************************************************************)
(* handleCompounds: the parts in a listing collapse into one entry, as     *)
(* large as all of them, which is put in the cache after the plain one.    *)
(***************************************************************************)
ListedSize(cl) ==
    LET parts == DOMAIN cl \ {Whole}
        partBytes == UNION {{x} \X DOMAIN cl[x] : x \in parts}
    IN  IF parts # {} THEN Cardinality(partBytes)
        ELSE IF Whole \in DOMAIN cl THEN Len(cl[Whole])
        ELSE NoEntry
=============================================================================
