-------------------------- MODULE RestClientProofs --------------------------
(***************************************************************************)
(* What the operators of RestClient compute, for every body and every      *)
(* value of the constants: the options of a request, the hash of a small   *)
(* body, the parts of a large one, and what is left of an operation.       *)
(***************************************************************************)
EXTENDS RestClient, CompoundProofs

-----------------------------------------------------------------------------
(* The options. *)

OwnNames == {"URL", "POSTFIELDS", "HTTPPOST", "UPLOAD", "READDATA"}

LEMMA OwnNamed ==
    ASSUME NEW kind, NEW o \in Own(kind) PROVE o[1] \in OwnNames
BY DEF Own, OwnNames

LEMMA GeneralNamed ==
    ASSUME NEW f, NEW kind, NEW o \in General(f, kind) PROVE o[1] \notin OwnNames
BY DEF General, PerformAction, PerformGet, If, OwnNames

(***************************************************************************)
(* On a handle that was reset, the general options replace none of the     *)
(* operation's own.                                                        *)
(***************************************************************************)
LEMMA FreshOptions ==
    ASSUME NEW f, NEW kind
    PROVE  Add(Add({}, Own(kind)), General(f, kind)) = Own(kind) \cup General(f, kind)
<1>1. Add({}, Own(kind)) = Own(kind)
  BY DEF Add
<1>2. \A o \in Own(kind) : \A n \in General(f, kind) : n[1] # o[1]
  BY OwnNamed, GeneralNamed
<1>3. {o \in Own(kind) : \A n \in General(f, kind) : n[1] # o[1]} = Own(kind)
  BY <1>2
<1> QED
  BY <1>1, <1>3 DEF Add

LEMMA OptionsTyped ==
    ASSUME NEW f \in Fields, NEW kind \in Kinds
    PROVE  Own(kind) \cup General(f, kind) \in OptionSets
<1>1. Own(kind) \in OptionSets
  BY DEF Own, OptionSets
<1>2. /\ f.proxyUrl \in Int /\ f.maxUploadRate \in Int /\ f.maxDownloadRate \in Int
      /\ f.csrfToken \in Int
  BY DEF Fields
<1>3. General(f, kind) \in OptionSets
  BY <1>2 DEF General, PerformAction, PerformGet, If, OptionSets, Kinds
<1> QED
  BY <1>1, <1>3 DEF OptionSets

-----------------------------------------------------------------------------
(* The hash of a small body. *)

LEMMA HexEndType ==
    ASSUME NEW s, NEW k \in Nat PROVE HexEnd(s, k) \in Nat
<1> DEFINE high == {j \in 1..k : s[j] > 127}
<1>1. IsFiniteSet(1..k) /\ high \in SUBSET (1..k)
  BY FS_Interval
<1>2. Cardinality(high) \in Nat
  BY <1>1, FS_Subset, FS_CardinalityType
<1>3. \A a, b \in Nat : a * b \in Nat
  OBVIOUS
<1>4. IntBytes - 1 \in Nat
  BY RestClientAssumption
<1> HIDE DEF high
<1>5. (IntBytes - 1) * Cardinality(high) \in Nat
  BY <1>2, <1>3, <1>4
<1> QED
  BY <1>5 DEF HexEnd, high

LEMMA HexType ==
    ASSUME NEW s \in Seq(0..255)
    PROVE  /\ ToPaddedHex(s) \in Seq(0..255)
           /\ Len(ToPaddedHex(s)) = HexLength(s)
<1>1. Len(s) \in Nat /\ HexEnd(s, Len(s)) \in Nat /\ s \in [1..Len(s) -> 0..255]
  BY HexEndType, LenProperties
<1>2. HexLength(s) \in Nat
  BY <1>1, RestClientAssumption DEF HexLength
<1>3. ASSUME NEW i \in 1..HexLength(s) PROVE HexByte(s, i) \in 0..255
  <2>1. CASE i > HexEnd(s, Len(s))
    BY <2>1 DEF HexByte
  <2>2. CASE i <= HexEnd(s, Len(s)) /\ \E k \in DOMAIN s : HexEnd(s, k) = i
    <3> DEFINE k == CHOOSE k \in DOMAIN s : HexEnd(s, k) = i
    <3>1. k \in DOMAIN s
      BY <2>2
    <3>2. ~(i > HexEnd(s, Len(s)))
      BY <1>1, <1>2, <2>2
    <3>3. HexByte(s, i) = s[k]
      BY <2>2, <3>2 DEF HexByte
    <3> HIDE DEF k
    <3> QED
      BY <1>1, <3>1, <3>3
  <2>3. CASE i <= HexEnd(s, Len(s)) /\ ~\E k \in DOMAIN s : HexEnd(s, k) = i
    <3>1. ~(i > HexEnd(s, Len(s)))
      BY <1>1, <1>2, <2>3
    <3>2. HexByte(s, i) = 255
      BY <2>3, <3>1 DEF HexByte
    <3> QED
      BY <3>2
  <2>4. i > HexEnd(s, Len(s)) \/ i <= HexEnd(s, Len(s))
    BY <1>1, <1>2
  <2> QED
    BY <2>1, <2>2, <2>3, <2>4, Zenon
<1>4. ToPaddedHex(s) \in [1..HexLength(s) -> 0..255]
  BY <1>3 DEF ToPaddedHex
<1> QED
  BY <1>2, <1>4, LenDomain

(***************************************************************************)
(* A body of chars that are not negative is the beginning of its hash.     *)
(***************************************************************************)
Ascii(s) == \A i \in DOMAIN s : s[i] < 128

LEMMA AsciiHexEnd ==
    ASSUME NEW s \in Seq(0..255), Ascii(s), NEW k \in 0..Len(s)
    PROVE  HexEnd(s, k) = k
<1>0. s \in [1..Len(s) -> 0..255] /\ Len(s) \in Nat
  BY LenProperties
<1>1. {j \in 1..k : s[j] > 127} = {}
  <2>1. ASSUME NEW j \in 1..k PROVE ~(s[j] > 127)
    <3>1. j \in 1..Len(s)
      BY <1>0
    <3>2. s[j] \in 0..255
      BY <3>1, ElementOfSeq
    <3>3. DOMAIN s = 1..Len(s)
      BY LenProperties
    <3>4. s[j] < 128
      BY <3>1, <3>3 DEF Ascii
    <3>5. \A b \in 0..255 : b < 128 => ~(b > 127)
      OBVIOUS
    <3> QED
      BY <3>2, <3>4, <3>5, Zenon
  <2> QED
    BY <2>1
<1>2. Cardinality({}) = 0
  BY FS_EmptySet
<1>3. HexEnd(s, k) = k + (IntBytes - 1) * Cardinality({})
  BY <1>1, Zenon DEF HexEnd
<1>4. HexEnd(s, k) = k + (IntBytes - 1) * 0
  BY <1>2, <1>3
<1> QED
  BY <1>4, RestClientAssumption

LEMMA AsciiHex ==
    ASSUME NEW s \in Seq(0..255), Ascii(s), Len(s) <= HashBytes
    PROVE  /\ Len(ToPaddedHex(s)) = HashBytes
           /\ SubSeq(ToPaddedHex(s), 1, Len(s)) = s
<1>1. Len(s) \in Nat /\ HexEnd(s, Len(s)) = Len(s)
  BY AsciiHexEnd
<1>2. HexLength(s) = HashBytes
  BY <1>1, RestClientAssumption DEF HexLength
<1>3. Len(ToPaddedHex(s)) = HashBytes
  BY <1>2, HexType
<1>4. ASSUME NEW i \in 1..Len(s) PROVE ToPaddedHex(s)[i] = s[i]
  <2>1. \A k \in DOMAIN s : HexEnd(s, k) = k
    BY AsciiHexEnd
  <2>2. i \in DOMAIN s /\ HexEnd(s, i) = i
    BY <2>1
  <2>3. (CHOOSE k \in DOMAIN s : HexEnd(s, k) = i) = i
    BY <2>1, <2>2
  <2>4. ~(i > HexEnd(s, Len(s)))
    BY <1>1
  <2>5. HexByte(s, i) = s[CHOOSE k \in DOMAIN s : HexEnd(s, k) = i]
    BY <2>2, <2>4 DEF HexByte
  <2>6. HexByte(s, i) = s[i]
    BY <2>3, <2>5
  <2> QED
    BY <1>1, <1>2, <2>6, RestClientAssumption DEF ToPaddedHex
<1>5. /\ SubSeq(ToPaddedHex(s), 1, Len(s)) \in Seq(0..255)
      /\ Len(SubSeq(ToPaddedHex(s), 1, Len(s))) = Len(s)
      /\ \A i \in 1..Len(s) : SubSeq(ToPaddedHex(s), 1, Len(s))[i] = ToPaddedHex(s)[i]
  <2>1. \A i \in 1..Len(s) : ToPaddedHex(s)[i] \in 0..255
    BY <1>4, ElementOfSeq
  <2> HIDE DEF ToPaddedHex
  <2> QED
    BY <1>1, <2>1, SubSeqProperties
<1> QED
  BY <1>3, <1>4, <1>5, SeqEqual

-----------------------------------------------------------------------------
(* The parts of a large body. *)

Slices(s) == {StoredAs(s)[x] : x \in DOMAIN StoredAs(s)}

(***************************************************************************)
(* What upload sends for the i-th name is what the cloud should store      *)
(* under it, an empty last part included.                                  *)
(***************************************************************************)
LEMMA PartIsSlice ==
    ASSUME NEW s \in Seq(0..255), NEW i \in 0..(Count(Len(s)) - 1)
    PROVE  Part(s, i) \in Slices(s) /\ Part(s, i) \in Seq(0..255)
<1>1. Len(s) \in Nat /\ i \in Nat
  BY LenProperties, CountType
<1>2. Part(s, i) = Slice(s, i)
  BY <1>1, CompoundAssumption DEF Part, Slice, SliceEnd
<1> QED
  BY <1>2, StoredSlice, SliceType DEF Slices

-----------------------------------------------------------------------------
(* Operations, and what is left of one. *)

OpNames == {"login", "upload", "create", "download", "rename", "remove", "mkdir",
            "ls", "df", "share"}
OpType == [name : OpNames, todo : Seq(Kinds), data : Seq(0..255), small : BOOLEAN,
           result : Results]

(***************************************************************************)
(* Every operation makes requests, only the login those of a login; an     *)
(* upload ends with adding the file, and what it adds is a part of a body, *)
(* all of it when that is small.                                           *)
(***************************************************************************)
Sends(o) ==
    /\ o.data = <<>> \/ \E s \in Bodies : o.data \in Slices(s)
    /\ o.small => Len(o.data) <= HashBytes /\ (o.data = <<>> \/ o.data \in Bodies)

Sound(o) ==
    /\ o \in OpType /\ o.todo # <<>>
    /\ Sends(o)
    /\ o.name = "upload" => o.todo[Len(o.todo)] = "add"
    /\ o.name # "login" => \A i \in DOMAIN o.todo : o.todo[i] \notin Logins

LEMMA RecordIsOp ==
    ASSUME NEW name \in OpNames, NEW todo \in Seq(Kinds), NEW data \in Seq(0..255),
           NEW small \in BOOLEAN, NEW result \in Results
    PROVE  [name |-> name, todo |-> todo, data |-> data, small |-> small,
            result |-> result] \in OpType
BY DEF OpType

LEMMA OperationFields ==
    ASSUME NEW name \in OpNames, NEW kinds \in Seq(Kinds), kinds # <<>>
    PROVE  /\ Operation(name, kinds).name = name /\ Operation(name, kinds).todo = kinds
           /\ Operation(name, kinds) \in OpType /\ Sends(Operation(name, kinds))
<1> DEFINE o == Operation(name, kinds)
<1>1. <<>> \in Seq(0..255) /\ Len(<<>>) = 0 /\ TRUE \in BOOLEAN /\ "none" \in Results
  BY EmptySeq DEF Results
<1>2. o \in OpType
  BY <1>1, RecordIsOp DEF Operation
<1>3. o.name = name /\ o.todo = kinds /\ o.data = <<>>
  BY DEF Operation
<1> HIDE DEF o
<1>4. Sends(o)
  BY <1>1, <1>3, RestClientAssumption DEF Sends
<1> QED
  BY <1>2, <1>3, <1>4 DEF o

LEMMA OperationIsSound ==
    ASSUME NEW name \in OpNames \ {"login", "upload"}, NEW kinds \in Seq(Kinds \ Logins),
           kinds # <<>>
    PROVE  Sound(Operation(name, kinds)) /\ Operation(name, kinds).name # "login"
<1>1. kinds \in Seq(Kinds) /\ \A i \in DOMAIN kinds : kinds[i] \notin Logins
  <2>1. kinds \in Seq(Kinds)
    BY SeqMonotonic
  <2>2. DOMAIN kinds = 1..Len(kinds)
    BY LenProperties
  <2> QED
    BY <2>1, <2>2, ElementOfSeq
<1> QED
  BY <1>1, OperationFields DEF Sound

LEMMA Scripts ==
    ASSUME NEW a \in Kinds \ Logins, NEW b \in Kinds \ Logins, NEW c \in Kinds \ Logins
    PROVE  /\ <<a>> \in Seq(Kinds \ Logins) /\ <<a>> # <<>> /\ Len(<<a>>) = 1
           /\ <<a, b>> \in Seq(Kinds \ Logins) /\ <<a, b>> # <<>>
           /\ <<a, b, c>> \in Seq(Kinds \ Logins) /\ <<a, b, c>> # <<>>
           /\ Len(<<a, b, c>>) = 3 /\ <<a, b, c>>[3] = c
OBVIOUS

LEMMA PlainIsSound ==
    ASSUME NEW o \in {Create, Download, RenameWithin, RenameAcross, RemovePath, Mkdir,
                      Ls, Df, Share}
    PROVE  Sound(o) /\ o.name # "login"
<1>1. {"dispatcher", "space", "publish", "folder", "add", "move", "remove", "rename",
       "mkdir", "get"} \subseteq Kinds \ Logins
  BY DEF Kinds, Json, Posts, Logins
<1> DEFINE Todos == Seq(Kinds \ Logins) \ {<<>>}
<1>2. /\ <<"add">> \in Todos /\ <<"rename">> \in Todos /\ <<"remove">> \in Todos
      /\ <<"mkdir">> \in Todos /\ <<"folder">> \in Todos /\ <<"space">> \in Todos
      /\ <<"publish">> \in Todos
  <2>1. \A a \in Kinds \ Logins : <<a>> \in Todos
    BY Scripts
  <2> QED
    BY <1>1, <2>1
<1>3. /\ <<"dispatcher", "get">> \in Todos /\ <<"rename", "move">> \in Todos
  <2>1. \A a, b \in Kinds \ Logins : <<a, b>> \in Todos
    BY Scripts
  <2> QED
    BY <1>1, <2>1
<1>4. \A name \in OpNames \ {"login", "upload"} : \A todo \in Todos :
          Sound(Operation(name, todo)) /\ Operation(name, todo).name # "login"
  BY OperationIsSound
<1>5. {"create", "download", "rename", "remove", "mkdir", "ls", "df", "share"}
          \subseteq OpNames \ {"login", "upload"}
  BY DEF OpNames
<1> HIDE DEF Todos
<1> QED
  BY <1>2, <1>3, <1>4, <1>5
  DEF Create, Download, RenameWithin, RenameAcross, RemovePath, Mkdir, Ls, Df, Share

LEMMA UploadIsSound ==
    ASSUME NEW s \in Bodies, NEW i \in 0..(Count(Len(s)) - 1)
    PROVE  Sound(Upload(s, i)) /\ Upload(s, i).name # "login"
<1> DEFINE o == Upload(s, i)
           todo == IF Small(s) THEN <<"add">> ELSE <<"dispatcher", "put", "add">>
<1>1. s \in Seq(0..255)
  BY RestClientAssumption
<1>2. /\ o.data = Part(s, i) /\ o.small = Small(s) /\ o.name = "upload" /\ o.todo = todo
      /\ o = [name |-> "upload", todo |-> todo, data |-> Part(s, i), small |-> Small(s),
              result |-> "none"]
  BY DEF Upload
<1>3. Part(s, i) \in Seq(0..255) /\ Part(s, i) \in Slices(s)
  BY <1>1, PartIsSlice
<1>4. Small(s) \in BOOLEAN
  BY DEF Small
<1>5. Small(s) => Part(s, i) = s /\ Len(s) <= HashBytes
  <2>1. Len(s) \in Nat
    BY <1>1
  <2>2. Small(s) => ~IsCompound(Len(s)) /\ Len(s) <= HashBytes
    BY <2>1, RestClientAssumption, CompoundAssumption DEF Small, IsCompound
  <2> QED
    BY <2>2 DEF Part
<1>6. todo \in Seq(Kinds \ Logins) /\ todo # <<>> /\ todo[Len(todo)] = "add"
  <2>1. "add" \in Kinds \ Logins /\ "dispatcher" \in Kinds \ Logins /\ "put" \in Kinds \ Logins
    BY DEF Kinds, Json, Posts, Logins
  <2>2. CASE Small(s)
    BY <2>1, <2>2, Scripts
  <2>3. CASE ~Small(s)
    BY <2>1, <2>3, Scripts
  <2> QED
    BY <2>2, <2>3
<1> HIDE DEF o, todo
<1>7. todo \in Seq(Kinds) /\ \A j \in DOMAIN todo : todo[j] \notin Logins
  <2>1. DOMAIN todo = 1..Len(todo)
    BY <1>6, LenProperties
  <2> QED
    BY <1>6, <2>1, SeqMonotonic, ElementOfSeq
<1>8. o \in OpType
  <2>1. "upload" \in OpNames /\ "none" \in Results
    BY DEF Results, OpNames
  <2> QED
    BY <1>2, <1>3, <1>4, <1>7, <2>1, RecordIsOp
<1>9. Sends(o)
  BY <1>2, <1>3, <1>5 DEF Sends
<1>10. Sound(o) /\ o.name # "login"
  BY <1>2, <1>6, <1>7, <1>8, <1>9 DEF Sound
<1> QED
  BY <1>10 DEF o

LEMMA LoginIsSound == Sound(Login) /\ Login.name = "login"
<1>1. <<"main", "auth", "cloud">> \in Seq(Kinds) /\ <<"main", "auth", "cloud">> # <<>>
  BY DEF Kinds, Logins
<1>2. "login" \in OpNames
  BY DEF OpNames
<1>3. Login \in OpType /\ Login.name = "login" /\ Login.todo # <<>> /\ Sends(Login)
  BY <1>1, <1>2, OperationFields DEF Login
<1> QED
  BY <1>3 DEF Sound

LEMMA OperationsAreSound ==
    /\ \A o \in Operations : Sound(o) /\ o.name # "login"
    /\ Sound(Login) /\ Login.name = "login"
BY PlainIsSound, UploadIsSound, LoginIsSound DEF Operations

LEMMA LeftFacts ==
    ASSUME NEW o, Sound(o), NEW k \in DOMAIN o.todo
    PROVE  /\ Sound(Left(o, k)) /\ Left(o, k).name = o.name
           /\ Left(o, k).data = o.data /\ Left(o, k).small = o.small
           /\ Left(o, k).todo = SubSeq(o.todo, k, Len(o.todo))
           /\ Head(Left(o, k).todo) = o.todo[k]
           /\ Tail(Left(o, k).todo) = SubSeq(o.todo, k + 1, Len(o.todo))
           /\ Tail(Left(o, k).todo) = <<>> <=> k = Len(o.todo)
<1> DEFINE t == o.todo
           n == Len(o.todo)
<1>1. t \in Seq(Kinds) /\ n \in Nat /\ DOMAIN t = 1..n /\ k \in 1..n
  <2>1. t \in Seq(Kinds)
    BY DEF Sound, OpType
  <2> QED
    BY <2>1, LenProperties
<1>2. \A i \in 1..n : t[i] \in Kinds
  BY <1>1, ElementOfSeq
<1>3. /\ SubSeq(t, k, n) \in Seq(Kinds) /\ Len(SubSeq(t, k, n)) = n - k + 1
      /\ \A i \in 1..(n - k + 1) : SubSeq(t, k, n)[i] = t[k + i - 1]
  <2> HIDE DEF t, n
  <2>1. k \in Int /\ n \in Int /\ k <= n /\ \A i \in k..n : t[i] \in Kinds
    BY <1>1, <1>2
  <2> QED
    BY <2>1, SubSeqProperties
<1>4. /\ Head(SubSeq(t, k, n)) = t[k]
      /\ Tail(SubSeq(t, k, n)) = SubSeq(t, k + 1, n)
  <2>1. n \in k..n
    BY <1>1
  <2> HIDE DEF t
  <2> QED
    BY <1>1, <2>1, HeadTailOfSubSeq DEF t
<1>5. SubSeq(t, k + 1, n) = <<>> <=> k = n
  <2> HIDE DEF t, n
  <2>1. k + 1 \in Int /\ n \in Int /\ \A i \in (k + 1)..n : t[i] \in Kinds
    BY <1>1, <1>2
  <2>2. /\ SubSeq(t, k + 1, n) \in Seq(Kinds)
        /\ Len(SubSeq(t, k + 1, n)) = IF k + 1 <= n THEN n - (k + 1) + 1 ELSE 0
    BY <2>1, SubSeqProperties
  <2>3. \A q \in Seq(Kinds) : q = <<>> <=> Len(q) = 0
    OBVIOUS
  <2> QED
    BY <1>1, <2>2, <2>3
<1>6. /\ Left(o, k).todo = SubSeq(t, k, n) /\ Left(o, k).name = o.name
      /\ Left(o, k).data = o.data /\ Left(o, k).small = o.small
      /\ Left(o, k) \in OpType
  BY <1>3 DEF Left, Sound, OpType
<1>7. Sends(Left(o, k))
  BY <1>6 DEF Sends, Sound
<1>8. SubSeq(t, k, n) # <<>> /\ SubSeq(t, k, n)[Len(SubSeq(t, k, n))] = t[n]
  <2> HIDE DEF t, n
  <2>1. Len(SubSeq(t, k, n)) = n - k + 1 /\ n - k + 1 \in 1..(n - k + 1)
    BY <1>1, <1>3
  <2>2. SubSeq(t, k, n)[n - k + 1] = t[k + (n - k + 1) - 1]
    BY <1>3, <2>1
  <2>3. k + (n - k + 1) - 1 = n /\ n - k + 1 # 0
    BY <1>1
  <2> QED
    BY <1>3, <2>1, <2>2, <2>3, EmptySeq
<1>9. o.name # "login" => \A i \in DOMAIN SubSeq(t, k, n) : SubSeq(t, k, n)[i] \notin Logins
  <2>1. o.name # "login" => \A i \in DOMAIN t : t[i] \notin Logins
    BY DEF Sound
  <2> HIDE DEF t, n
  <2>2. DOMAIN SubSeq(t, k, n) = 1..(n - k + 1)
    BY <1>3, LenProperties
  <2>3. \A i \in 1..(n - k + 1) : k + i - 1 \in 1..n
    BY <1>1
  <2> QED
    BY <1>1, <1>3, <2>1, <2>2, <2>3
<1>10. o.name = "upload" => t[n] = "add"
  BY DEF Sound
<1> HIDE DEF t, n
<1>11. Sound(Left(o, k))
  BY <1>6, <1>7, <1>8, <1>9, <1>10 DEF Sound
<1> QED
  BY <1>4, <1>5, <1>6, <1>11 DEF t, n

(***************************************************************************)
(* The states of a client between operations and in one.                   *)
(***************************************************************************)
LEMMA OpStateFacts ==
    ASSUME NEW x \in OpStates
    PROVE  \/ x.todo = <<>> /\ x.name = "none" /\ \E r \in Results : x = NoOp(r)
           \/ /\ x.todo # <<>> /\ x.name # "none"
              /\ Sound(x)
              /\ \E o \in Operations \cup {Login} : \E k \in DOMAIN o.todo : x = Left(o, k)
<1>1. CASE \E r \in Results : x = NoOp(r)
  <2>1. \A r \in Results : NoOp(r).todo = <<>> /\ NoOp(r).name = "none"
    BY DEF NoOp
  <2> QED
    BY <1>1, <2>1
<1>2. ASSUME NEW o \in Operations \cup {Login}, NEW k \in DOMAIN o.todo, x = Left(o, k)
      PROVE  x.todo # <<>> /\ x.name # "none" /\ Sound(x)
  <2>1. Sound(o)
    BY OperationsAreSound
  <2>2. Sound(x)
    BY <1>2, <2>1, LeftFacts
  <2>3. x.todo # <<>> /\ x.name \in OpNames
    BY <2>2 DEF Sound, OpType
  <2> QED
    BY <2>2, <2>3 DEF OpNames
<1>3. \/ \E r \in Results : x = NoOp(r)
      \/ \E o \in Operations \cup {Login} : \E k \in DOMAIN o.todo : x = Left(o, k)
  BY DEF OpStates
<1> QED
  BY <1>1, <1>2, <1>3

LEMMA WholeIsState ==
    ASSUME NEW o \in Operations \cup {Login}
    PROVE  /\ o \in OpStates /\ Sound(o) /\ o.todo # <<>> /\ Head(o.todo) \in Kinds
           /\ Head(o.todo) = o.todo[1] /\ 1 \in DOMAIN o.todo
<1>1. Sound(o)
  BY OperationsAreSound
<1>2. o.todo \in Seq(Kinds) /\ o.todo # <<>>
  BY <1>1 DEF Sound, OpType
<1>3. 1 \in DOMAIN o.todo /\ Head(o.todo) = o.todo[1] /\ Head(o.todo) \in Kinds
  BY <1>2
<1>4. SubSeq(o.todo, 1, Len(o.todo)) = o.todo
  BY <1>2, SubSeqFull
<1>5. Left(o, 1) = o
  <2>1. Left(o, 1) = [o EXCEPT !.todo = o.todo]
    BY <1>4 DEF Left
  <2>2. [o EXCEPT !.todo = o.todo] = o
    BY <1>1 DEF Sound, OpType
  <2> QED
    BY <2>1, <2>2
<1>6. o \in {Left(o, k) : k \in DOMAIN o.todo}
  BY <1>3, <1>5
<1> QED
  BY <1>1, <1>2, <1>3, <1>6 DEF OpStates

LEMMA RestIsState ==
    ASSUME NEW x \in OpStates, x.todo # <<>>
    PROVE  /\ Head(x.todo) \in Kinds
           /\ Tail(x.todo) # <<>> =>
                 /\ [x EXCEPT !.todo = Tail(x.todo)] \in OpStates
                 /\ Head(Tail(x.todo)) \in Kinds
                 /\ Head(Tail(x.todo)) = x.todo[2] /\ 2 \in DOMAIN x.todo
           /\ Tail(x.todo) = <<>> => Len(x.todo) = 1
<1>0. PICK o \in Operations \cup {Login} : \E k \in DOMAIN o.todo : x = Left(o, k)
  BY OpStateFacts
<1>1. PICK k \in DOMAIN o.todo : x = Left(o, k)
  BY <1>0
<1>2. Sound(o) /\ Sound(x)
  BY OperationsAreSound, OpStateFacts
<1>3. x.todo \in Seq(Kinds) /\ o.todo \in Seq(Kinds)
  BY <1>2 DEF Sound, OpType
<1>4. /\ Head(x.todo) \in Kinds
      /\ Tail(x.todo) # <<>> => /\ Head(Tail(x.todo)) \in Kinds
                               /\ Head(Tail(x.todo)) = x.todo[2] /\ 2 \in DOMAIN x.todo
      /\ Tail(x.todo) = <<>> => Len(x.todo) = 1
  <2> DEFINE t == x.todo
  <2>1. t \in Seq(Kinds) /\ t # <<>>
    BY <1>3
  <2> HIDE DEF t
  <2>2. /\ Head(t) \in Kinds /\ Tail(t) \in Seq(Kinds) /\ Len(Tail(t)) = Len(t) - 1
        /\ \A i \in 1..Len(Tail(t)) : Tail(t)[i] = t[i + 1]
    BY <2>1, HeadTailProperties
  <2>3. /\ Tail(t) = <<>> => Len(t) = 1
        /\ Tail(t) # <<>> => Len(Tail(t)) >= 1 /\ Len(t) >= 2
    <3>1. Len(t) \in Nat /\ Len(Tail(t)) \in Nat
      BY <2>1, <2>2, LenProperties
    <3>2. /\ Tail(t) = <<>> => Len(Tail(t)) = 0
          /\ Tail(t) # <<>> => Len(Tail(t)) # 0
      BY <2>2, EmptySeq
    <3> QED
      BY <2>2, <3>1, <3>2
  <2>4. Tail(t) # <<>> => Head(Tail(t)) = Tail(t)[1] /\ Tail(t)[1] = t[2]
    BY <2>2, <2>3
  <2>5. Tail(t) # <<>> => 2 \in DOMAIN t /\ t[2] \in Kinds
    BY <2>1, <2>3, ElementOfSeq
  <2> QED
    BY <2>2, <2>3, <2>4, <2>5 DEF t
<1>5. /\ Tail(x.todo) = SubSeq(o.todo, k + 1, Len(o.todo))
      /\ Tail(x.todo) = <<>> <=> k = Len(o.todo)
  BY <1>1, <1>2, LeftFacts
<1>6. Tail(x.todo) # <<>> => k + 1 \in DOMAIN o.todo
  <2>1. DOMAIN o.todo = 1..Len(o.todo) /\ Len(o.todo) \in Nat
    BY <1>3, LenProperties
  <2> QED
    BY <1>1, <1>5, <2>1
<1>7. [x EXCEPT !.todo = Tail(x.todo)] = Left(o, k + 1)
  <2>1. o = [name |-> o.name, todo |-> o.todo, data |-> o.data, small |-> o.small,
             result |-> o.result]
    BY <1>2 DEF Sound, OpType
  <2>2. [x EXCEPT !.todo = Tail(x.todo)] = [o EXCEPT !.todo = Tail(x.todo)]
    BY <1>1, <2>1, Zenon DEF Left
  <2> QED
    BY <1>5, <2>2 DEF Left
<1> QED
  BY <1>4, <1>6, <1>7 DEF OpStates

-----------------------------------------------------------------------------
(* What the cloud stores. *)

Contents == Seq(0..255) \cup {NoEntry}

LEMMA EffectType ==
    ASSUME NEW o, Sound(o), stored \in Contents PROVE Effect(o) \in Contents
<1>1. o.data \in Seq(0..255) /\ o.small \in BOOLEAN
  BY DEF Sound, OpType
<1>2. ASSUME Acceptable(o) PROVE Added(o) \in Contents
  <2>1. CASE ~o.small
    BY <1>1, <2>1 DEF Added, Contents
  <2>2. CASE o.small
    <3> DEFINE hex == ToPaddedHex(o.data)
               n == Len(o.data)
    <3>1. hex \in Seq(0..255) /\ Len(hex) = HashBytes /\ n \in Nat /\ n <= HashBytes
      BY <1>1, <1>2, <2>2, HexType DEF Acceptable, Sound, Sends
    <3>2. Added(o) = SubSeq(hex, 1, n)
      BY <2>2 DEF Added
    <3> HIDE DEF hex, n
    <3>3. \A i \in 1..n : hex[i] \in 0..255
      <4>1. \A i \in 1..n : i \in 1..Len(hex)
        BY <3>1, RestClientAssumption
      <4> QED
        BY <3>1, <4>1, ElementOfSeq
    <3>4. SubSeq(hex, 1, n) \in Seq(0..255)
      BY <3>1, <3>3, SubSeqProperties
    <3> QED
      BY <3>2, <3>4 DEF Contents
  <2> QED
    BY <1>1, <2>1, <2>2
<1> QED
  BY <1>2 DEF Effect, Contents

(***************************************************************************)
(* As long as no byte is a negative char, a file is added with the bytes   *)
(* it was to be given.                                                     *)
(***************************************************************************)
AsciiBodies == \A s \in Bodies : Ascii(s)

LEMMA AddedIsData ==
    ASSUME AsciiBodies, NEW o, Sound(o)
    PROVE  Acceptable(o) /\ Added(o) = o.data
<1>1. o.data \in Seq(0..255) /\ o.small \in BOOLEAN
  BY DEF Sound, OpType
<1>2. CASE ~o.small
  BY <1>2 DEF Acceptable, Added
<1>3. CASE o.small
  <2>1. Len(o.data) <= HashBytes /\ (o.data = <<>> \/ o.data \in Bodies)
    BY <1>3 DEF Sound, Sends
  <2>2. Ascii(o.data)
    BY <2>1 DEF AsciiBodies, Ascii
  <2>3. /\ Len(ToPaddedHex(o.data)) = HashBytes
        /\ SubSeq(ToPaddedHex(o.data), 1, Len(o.data)) = o.data
    BY <1>1, <2>1, <2>2, AsciiHex
  <2> QED
    BY <1>3, <2>3 DEF Acceptable, Added
<1> QED
  BY <1>1, <1>2, <1>3

LEMMA EffectIsWhole ==
    ASSUME AsciiBodies, NEW o, Sound(o), StoredIsWhole,
           stored' = stored \/ stored' = Effect(o)
    PROVE  StoredIsWhole'
<1>1. Added(o) = o.data
  BY AddedIsData
<1>2. stored' \in {stored, NoEntry, o.data}
  BY <1>1 DEF Effect
<1>3. CASE stored' = stored
  BY <1>3 DEF StoredIsWhole
<1>4. CASE stored' = NoEntry
  BY <1>4 DEF StoredIsWhole
<1>5. CASE stored' = o.data
  BY <1>5 DEF StoredIsWhole, Sound, Sends, Slices
<1> QED
  BY <1>2, <1>3, <1>4, <1>5

-----------------------------------------------------------------------------
(* The steps of a client. *)

(***************************************************************************)
(* The inductive part of RequestIsItsOwn: a handle has the options of the  *)
(* request it is about to make, from the fields of its client, and none    *)
(* between two operations.                                                 *)
(***************************************************************************)
HandleFits(c) ==
    /\ Idle(c) => options[c] = {}
    /\ ~Idle(c) => options[c] = Own(Request(c)) \cup General(fields[c], Request(c))
HandlesFit == running => \A c \in Clients : HandleFits(c)

LEMMA IdleState ==
    ASSUME NEW r \in Results
    PROVE  NoOp(r) \in OpStates /\ NoOp(r).todo = <<>> /\ NoOp(r).name = "none"
BY DEF OpStates, NoOp

LEMMA BusyClient ==
    ASSUME ClientTypeOK, NEW c \in Clients, ~Idle(c)
    PROVE  /\ op[c] \in OpStates /\ op[c].todo # <<>> /\ op[c].name # "none"
           /\ Sound(op[c]) /\ Request(c) \in Kinds
<1>1. op[c] \in OpStates /\ op[c].todo # <<>>
  BY DEF ClientTypeOK, Idle
<1> QED
  BY <1>1, OpStateFacts, RestIsState DEF Request

LEMMA SessionType ==
    ASSUME NEW f \in Fields, NEW kind PROVE Session(f, kind) \in Fields
BY DEF Session, OpenMainPage, Authenticate, OpenCloudPage, Fields, Logins

LEMMA StartKeeps ==
    ASSUME ClientTypeOK, HandlesFit, NEW c \in Clients, NEW o \in Operations \cup {Login},
           Start(c, o)
    PROVE  /\ ClientTypeOK' /\ HandlesFit'
           /\ op'[c] = o /\ op'[c].todo # <<>>
           /\ \A d \in Clients \ {c} : op'[d] = op[d]
<1>1. /\ o \in OpStates /\ o.todo # <<>> /\ Head(o.todo) \in Kinds
  BY WholeIsState
<1>2. /\ running /\ Idle(c) /\ op' = [op EXCEPT ![c] = o]
      /\ options' = [options EXCEPT ![c] = Add(Add(options[c], Own(Head(o.todo))),
                                               General(fields[c], Head(o.todo)))]
      /\ fields' = fields /\ stored' = stored /\ running' = running
  BY DEF Start, Prepared
<1>3. /\ op'[c] = o /\ op' \in [Clients -> OpStates]
      /\ \A d \in Clients \ {c} : op'[d] = op[d]
  BY <1>1, <1>2 DEF ClientTypeOK
<1>4. options[c] = {} /\ options \in [Clients -> OptionSets] /\ fields[c] \in Fields
  BY <1>2 DEF HandlesFit, HandleFits, ClientTypeOK
<1>5. options' = [options EXCEPT ![c] = Own(Head(o.todo)) \cup General(fields[c], Head(o.todo))]
  BY <1>2, <1>4, FreshOptions
<1>6. Own(Head(o.todo)) \cup General(fields[c], Head(o.todo)) \in OptionSets
  BY <1>1, <1>4, OptionsTyped
<1>7. /\ options'[c] = Own(Head(o.todo)) \cup General(fields[c], Head(o.todo))
      /\ options' \in [Clients -> OptionSets]
      /\ \A d \in Clients \ {c} : options'[d] = options[d]
  BY <1>4, <1>5, <1>6
<1>8. ClientTypeOK'
  BY <1>2, <1>3, <1>7 DEF ClientTypeOK
<1>9. ASSUME NEW d \in Clients PROVE HandleFits(d)'
  <2>1. CASE d = c
    BY <1>1, <1>2, <1>3, <1>7, <2>1 DEF HandleFits, Idle, Request
  <2>2. CASE d # c
    BY <1>2, <1>3, <1>7, <2>2 DEF HandlesFit, HandleFits, Idle, Request
  <2> QED
    BY <2>1, <2>2
<1> QED
  BY <1>1, <1>3, <1>8, <1>9 DEF HandlesFit

LEMMA AnsweredKeeps ==
    ASSUME ClientTypeOK, HandlesFit, NEW c \in Clients, Answered(c)
    PROVE  /\ ClientTypeOK' /\ HandlesFit'
           /\ \A d \in Clients \ {c} : op'[d] = op[d] /\ fields'[d] = fields[d]
           /\ fields'[c] = Session(fields[c], Request(c))
           /\ \/ Tail(op[c].todo) = <<>> /\ op'[c] = NoOp("ok")
              \/ Tail(op[c].todo) # <<>> /\ op'[c] = [op[c] EXCEPT !.todo = Tail(op[c].todo)]
<1> DEFINE rest == Tail(op[c].todo)
           f == Session(fields[c], Request(c))
           left == [op[c] EXCEPT !.todo = rest]
<1>1. /\ running /\ running' /\ ~Idle(c) /\ stored' = Effect(op[c])
      /\ fields' = [fields EXCEPT ![c] = f]
      /\ \/ /\ rest # <<>>
            /\ op' = [op EXCEPT ![c].todo = rest]
            /\ options' = [options EXCEPT ![c] = Add(Add({}, Own(Head(rest))),
                                                     General(f, Head(rest)))]
         \/ /\ rest = <<>>
            /\ op' = [op EXCEPT ![c] = NoOp("ok")]
            /\ options' = [options EXCEPT ![c] = {}]
  BY DEF Answered, Prepared, Reset
<1>2. /\ op[c] \in OpStates /\ op[c].todo # <<>> /\ Sound(op[c])
      /\ op \in [Clients -> OpStates] /\ options \in [Clients -> OptionSets]
      /\ fields \in [Clients -> Fields] /\ stored \in Contents
  BY <1>1, BusyClient DEF ClientTypeOK, Contents
<1>3. f \in Fields
  BY <1>2, SessionType
<1>4. stored' \in Contents
  BY <1>1, <1>2, EffectType
<1> HIDE DEF f
<1>5. /\ fields'[c] = f /\ fields' \in [Clients -> Fields]
      /\ \A d \in Clients \ {c} : fields'[d] = fields[d]
  BY <1>1, <1>2, <1>3
<1>6. CASE rest = <<>>
  <2>1. "ok" \in Results /\ {} \in OptionSets
    BY DEF Results, OptionSets
  <2>2. /\ op'[c] = NoOp("ok") /\ op' \in [Clients -> OpStates]
        /\ \A d \in Clients \ {c} : op'[d] = op[d]
    BY <1>1, <1>2, <1>6, <2>1, IdleState
  <2>3. /\ options'[c] = {} /\ options' \in [Clients -> OptionSets]
        /\ \A d \in Clients \ {c} : options'[d] = options[d]
    BY <1>1, <1>2, <1>6, <2>1
  <2>4. ClientTypeOK'
    BY <1>1, <1>4, <1>5, <2>2, <2>3 DEF ClientTypeOK, Contents
  <2>5. ASSUME NEW d \in Clients PROVE HandleFits(d)'
    <3>1. CASE d = c
      BY <2>1, <2>2, <2>3, <3>1, IdleState DEF HandleFits, Idle
    <3>2. CASE d # c
      BY <1>1, <1>5, <2>2, <2>3, <3>2 DEF HandlesFit, HandleFits, Idle, Request
    <3> QED
      BY <3>1, <3>2
  <2> QED
    BY <1>5, <1>6, <2>2, <2>4, <2>5 DEF HandlesFit, f
<1>7. CASE rest # <<>>
  <2>1. left \in OpStates /\ Head(rest) \in Kinds /\ left.todo = rest
    <3>1. left \in OpStates /\ Head(rest) \in Kinds
      BY <1>2, <1>7, RestIsState
    <3>2. left.todo = rest
      BY <1>2 DEF Sound, OpType
    <3> QED
      BY <3>1, <3>2
  <2>2. op' = [op EXCEPT ![c] = left]
    BY <1>1, <1>7
  <2> HIDE DEF left, rest
  <2>3. /\ op'[c] = left /\ op' \in [Clients -> OpStates]
        /\ \A d \in Clients \ {c} : op'[d] = op[d]
    BY <1>2, <2>1, <2>2
  <2>4. options' = [options EXCEPT ![c] = Own(Head(rest)) \cup General(f, Head(rest))]
    BY <1>1, <1>7, FreshOptions
  <2>5. Own(Head(rest)) \cup General(f, Head(rest)) \in OptionSets
    BY <1>3, <2>1, OptionsTyped
  <2>6. /\ options'[c] = Own(Head(rest)) \cup General(f, Head(rest))
        /\ options' \in [Clients -> OptionSets]
        /\ \A d \in Clients \ {c} : options'[d] = options[d]
    BY <1>2, <2>4, <2>5
  <2>7. ClientTypeOK'
    BY <1>1, <1>4, <1>5, <2>3, <2>6 DEF ClientTypeOK, Contents
  <2>8. ASSUME NEW d \in Clients PROVE HandleFits(d)'
    <3>1. CASE d = c
      BY <1>5, <1>7, <2>1, <2>3, <2>6, <3>1 DEF HandleFits, Idle, Request
    <3>2. CASE d # c
      BY <1>1, <1>5, <2>3, <2>6, <3>2 DEF HandlesFit, HandleFits, Idle, Request
    <3> QED
      BY <3>1, <3>2
  <2> QED
    BY <1>5, <1>7, <2>3, <2>7, <2>8 DEF HandlesFit, f, left, rest
<1> QED
  BY <1>6, <1>7

(***************************************************************************)
(* A request that ends an operation of c without an answer to it.          *)
(***************************************************************************)
LEMMA BrokenKeeps ==
    ASSUME ClientTypeOK, HandlesFit, NEW c \in Clients,
           Failed(c) \/ Garbled(c) \/ LateEffect(c)
    PROVE  /\ ClientTypeOK' /\ HandlesFit' /\ fields' = fields
           /\ \A d \in Clients \ {c} : op'[d] = op[d]
           /\ \E r \in Results \ {"ok"} : op'[c] = NoOp(r)
           /\ stored' = stored \/ stored' = Effect(op[c])
           /\ running' => op[c].name # "login"
           /\ running' => running
           /\ ~Idle(c) /\ Sound(op[c])
<1>1. PICK r \in Results \ {"ok"} : op' = [op EXCEPT ![c] = NoOp(r)]
  <2>1. {"server", "refused", "none"} \subseteq Results \ {"ok"}
    BY DEF Results
  <2>2. \E r \in {"server", "refused", "none"} : op' = [op EXCEPT ![c] = NoOp(r)]
    BY DEF Failed, Garbled, LateEffect
  <2> QED
    BY <2>1, <2>2
<1>2. /\ ~Idle(c) /\ fields' = fields
      /\ stored' = stored \/ stored' = Effect(op[c])
      /\ options' = options \/ options' = [options EXCEPT ![c] = {}]
      /\ running' \in BOOLEAN
      /\ running' => /\ running /\ op[c].name # "login"
                     /\ options' = [options EXCEPT ![c] = {}]
  <2>1. /\ ~Idle(c) /\ fields' = fields
        /\ stored' = stored \/ stored' = Effect(op[c])
        /\ options' = options \/ options' = [options EXCEPT ![c] = {}]
    BY DEF Failed, Garbled, LateEffect, Reset
  <2>2. CASE Failed(c)
    BY <2>1, <2>2, Zenon DEF Failed, Reset
  <2>3. CASE Garbled(c) \/ LateEffect(c)
    <3>1. running' = FALSE
      BY <2>3, Zenon DEF Garbled, LateEffect, ClientTypeOK
    <3> QED
      BY <2>1, <3>1
  <2> QED
    BY <2>2, <2>3
<1>3. /\ op[c] \in OpStates /\ Sound(op[c])
      /\ op \in [Clients -> OpStates] /\ options \in [Clients -> OptionSets]
      /\ stored \in Contents
  BY <1>2, BusyClient DEF ClientTypeOK, Contents
<1>4. stored' \in Contents
  BY <1>2, <1>3, EffectType
<1>5. /\ op'[c] = NoOp(r) /\ op' \in [Clients -> OpStates] /\ NoOp(r).todo = <<>>
      /\ \A d \in Clients \ {c} : op'[d] = op[d]
  BY <1>1, <1>3, IdleState
<1>6. {} \in OptionSets
  BY DEF OptionSets
<1>7. /\ options' \in [Clients -> OptionSets]
      /\ \A d \in Clients \ {c} : options'[d] = options[d]
      /\ running' => options'[c] = {}
  BY <1>2, <1>3, <1>6
<1>8. ClientTypeOK'
  BY <1>2, <1>4, <1>5, <1>7 DEF ClientTypeOK, Contents
<1>9. ASSUME running', NEW d \in Clients PROVE HandleFits(d)'
  <2>1. CASE d = c
    BY <1>5, <1>7, <1>9, <2>1 DEF HandleFits, Idle
  <2>2. CASE d # c
    BY <1>2, <1>5, <1>7, <1>9, <2>2 DEF HandlesFit, HandleFits, Idle, Request
  <2> QED
    BY <2>1, <2>2
<1> QED
  BY <1>2, <1>3, <1>5, <1>8, <1>9 DEF HandlesFit

LEMMA CopyKeeps ==
    ASSUME ClientTypeOK, HandlesFit, running, NEW seed \in Clients, Idle(seed),
           NEW copies, \A c \in copies : c \in Clients => Idle(c), CopyClient(seed, copies)
    PROVE  /\ ClientTypeOK' /\ HandlesFit' /\ op' = op
           /\ \A c \in Clients : fields'[c] = IF c \in copies THEN fields[seed] ELSE fields[c]
<1>1. CopyOf(fields[seed]) = fields[seed] /\ fields[seed] \in Fields
  BY DEF CopyOf, ClientTypeOK, Fields
<1>2. /\ op' = op /\ stored' = stored /\ running' = running
      /\ fields' = [c \in Clients |-> IF c \in copies THEN fields[seed] ELSE fields[c]]
      /\ options' = [c \in Clients |-> IF c \in copies THEN options[seed] ELSE options[c]]
  BY <1>1, Zenon DEF CopyClient
<1>3. fields \in [Clients -> Fields] /\ options \in [Clients -> OptionSets]
  BY DEF ClientTypeOK
<1>4. fields' \in [Clients -> Fields] /\ options' \in [Clients -> OptionSets]
  BY <1>2, <1>3
<1>5. ClientTypeOK'
  BY <1>2, <1>4 DEF ClientTypeOK
<1>6. ASSUME NEW c \in Clients PROVE HandleFits(c)'
  <2>1. options[seed] = {} /\ HandleFits(c)
    BY DEF HandlesFit, HandleFits
  <2>2. CASE c \in copies
    BY <1>2, <2>1, <2>2 DEF HandleFits, Idle, Request
  <2>3. CASE c \notin copies
    BY <1>2, <2>1, <2>3 DEF HandleFits, Idle, Request
  <2> QED
    BY <2>2, <2>3
<1> QED
  BY <1>2, <1>5, <1>6 DEF HandlesFit
=============================================================================
