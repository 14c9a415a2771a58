------------------------- MODULE FileStorageProofs --------------------------
(***************************************************************************)
(* The storage in a file for every number of threads, every size of the    *)
(* contents and every width of an int, with every overlap the code allows: *)
(* reads and writes keep their seek from each other, a call that no call   *)
(* without the mutex has come between answers what the storage in memory   *)
(* would answer, and one that was disturbed is misplaced and nothing else. *)
(***************************************************************************)
EXTENDS FileStorage, TLAPS

(***************************************************************************)
(* The inductive invariant.  A transfer owns the mutex and starts where    *)
(* SeekIsKept says, a write has room for its buffer at the place it asked  *)
(* for, a probe that was not disturbed stands at the end of the file and a *)
(* copy at its beginning; a stream is closed only by the one truncate      *)
(* under way, or when nobody uses it, and then it has no contents.         *)
(***************************************************************************)
TransfersOwnMutex ==
    \A t \in Threads : call[t].name \in Transfers => rw_mutex = t

WritesFit ==
    \A t \in Threads : call[t].name = "write" =>
        /\ call[t].buf \in Memory!Buffers
        /\ call[t].off + Len(call[t].buf) <= MaxSize

ReadsAsk == \A t \in Threads : call[t].name = "read" => call[t].len \in 1..MaxLen

ProbesAtEnd ==
    \A t \in Threads : call[t].name \in Probes /\ t \notin disturbed =>
        isOpen /\ pos = Len(file)

CopiesFromStart ==
    \A t \in Threads : call[t].name = "readFully" /\ t \notin disturbed =>
        isOpen /\ pos = 0 /\ file # <<>>

OneTruncate ==
    \A t, u \in Threads :
        call[t].name = "truncate" /\ call[u].name = "truncate" => t = u

ClosedForAReason ==
    /\ Reopening => ~isOpen
    /\ ~isOpen => Reopening \/ (Quiet /\ file = <<>>)

StorageInv ==
    /\ TypeOK
    /\ SeekIsKept
    /\ TransfersOwnMutex /\ WritesFit /\ ReadsAsk
    /\ ProbesAtEnd /\ CopiesFromStart
    /\ OneTruncate /\ ClosedForAReason

CallType == [name : Calls, off : 0..MaxSize, len : 0..MaxLen,
             buf : Memory!Buffers \cup {<<>>}]

-----------------------------------------------------------------------------
(* Arithmetic of int. *)

(***************************************************************************)
(* A multiple of m strictly between -m and m is zero.                      *)
(***************************************************************************)
LEMMA SmallMultiple ==
    ASSUME NEW m \in Nat, NEW k \in Int, -m < m * k, m * k < m
    PROVE  m * k = 0
<1>1. CASE k >= 1
  BY <1>1
<1>2. CASE k <= -1
  BY <1>2
<1> QED
  BY <1>1, <1>2

(***************************************************************************)
(* A cast moves a number by a multiple of the width, into the range.       *)
(***************************************************************************)
LEMMA CastMoves ==
    ASSUME IntHalf > 0, NEW x \in Int
    PROVE  /\ CastInt(x) \in (-IntHalf)..(IntHalf - 1)
           /\ \E q \in Int : CastInt(x) = x - (2 * IntHalf) * q
<1> DEFINE m == 2 * IntHalf
           y == x + IntHalf
<1>1. m \in Nat /\ m > 0 /\ y \in Int
  BY FileStorageAssumption
<1>2. y % m \in 0..(m - 1) /\ y \div m \in Int /\ y = m * (y \div m) + (y % m)
  <2> HIDE DEF m, y
  <2> QED
    BY <1>1
<1>3. CastInt(x) = (y % m) - IntHalf
  BY DEF CastInt
<1>4. CastInt(x) = x - m * (y \div m)
  <2>1. m * (y \div m) \in Int
    BY <1>1, <1>2
  <2> QED
    BY <1>2, <1>3, <2>1, FileStorageAssumption
<1>5. CastInt(x) \in (-IntHalf)..(IntHalf - 1)
  BY <1>2, <1>3, FileStorageAssumption
<1>6. \E q \in Int : CastInt(x) = x - m * q
  <2> HIDE DEF m, y
  <2> QED
    BY <1>2, <1>4
<1> QED
  BY <1>5, <1>6

(***************************************************************************)
(* write subtracts two positions that were cut down to an int: the result  *)
(* is right as long as the transfer itself fits an int, however far into   *)
(* the file it is.                                                         *)
(***************************************************************************)
LEMMA CastDifference ==
    ASSUME NEW a \in Nat, NEW n \in Nat, n < IntHalf
    PROVE  CastInt(CastInt(a + n) - CastInt(a)) = n
<1> DEFINE m == 2 * IntHalf
           d == CastInt(a + n) - CastInt(a)
<1>1. IntHalf \in Nat /\ IntHalf > 0 /\ m \in Nat
  BY FileStorageAssumption
<1>c. ASSUME NEW x \in Int
      PROVE  /\ CastInt(x) \in (-IntHalf)..(IntHalf - 1)
             /\ \E q \in Int : CastInt(x) = x - m * q
  BY <1>1, CastMoves
<1> HIDE DEF m, d
<1>2. PICK q1 \in Int : CastInt(a + n) = (a + n) - m * q1
  BY <1>c
<1>3. PICK q2 \in Int : CastInt(a) = a - m * q2
  BY <1>c
<1>4. d \in Int
  BY <1>1, <1>c DEF d
<1>5. PICK q3 \in Int : CastInt(d) = d - m * q3
  BY <1>4, <1>c
<1>6. CastInt(d) \in (-IntHalf)..(IntHalf - 1)
  BY <1>4, <1>c
<1> DEFINE k == q2 - q1 - q3
<1>7. k \in Int /\ CastInt(d) = n + m * k
  <2>1. m * k = m * q2 - m * q1 - m * q3
    BY <1>1
  <2> QED
    BY <1>1, <1>2, <1>3, <1>5, <2>1 DEF d
<1>8. -m < m * k /\ m * k < m
  <2>1. m * k \in Int
    BY <1>1, <1>7
  <2> HIDE DEF k
  <2> QED
    BY <1>1, <1>6, <1>7, <2>1 DEF m
<1>9. m * k = 0
  <2> HIDE DEF k
  <2> QED
    BY <1>1, <1>7, <1>8, SmallMultiple
<1> QED
  BY <1>7, <1>9 DEF d

-----------------------------------------------------------------------------
(* What a transfer does, next to what the storage in memory does. *)

LEMMA BufferFacts ==
    ASSUME NEW b \in Memory!Buffers
    PROVE  b \in Seq(Bytes) /\ Len(b) \in 1..MaxLen
<1>1. PICK n \in 1..MaxLen : b \in [1..n -> Bytes]
  BY DEF Memory!Buffers
<1> QED
  BY <1>1, FileStorageAssumption

LEMMA LengthOfFunction ==
    ASSUME NEW S, NEW n \in Nat, NEW f \in [1..n -> S]
    PROVE  f \in Seq(S) /\ Len(f) = n
OBVIOUS

(***************************************************************************)
(* A transfer into the stream, which leaves zeros in a gap, makes of the   *)
(* bytes what growing the vector and copying the buffer makes of them.     *)
(***************************************************************************)
LEMMA WriteOverwrites ==
    ASSUME NEW s \in Seq(Bytes), NEW off \in Nat, NEW b \in Seq(Bytes)
    PROVE  /\ StreamWrite(s, off, b) = Memory!Overwrite(s, off, b)
           /\ StreamWrite(s, off, b) \in Seq(Bytes)
           /\ Len(StreamWrite(s, off, b)) =
                  IF Len(s) < off + Len(b) THEN off + Len(b) ELSE Len(s)
<1> DEFINE end == off + Len(b)
           size == IF Len(s) < end THEN end ELSE Len(s)
           r == StreamWrite(s, off, b)
           room == IF end > Len(s) THEN Memory!Resize(s, end) ELSE s
<1>1. end \in Nat /\ Len(s) \in Nat /\ size \in Nat
  OBVIOUS
<1>2. DOMAIN room = 1..size
  BY <1>1 DEF Memory!Resize
<1>3. ASSUME NEW i \in 1..size
      PROVE  /\ room[i] = IF i > Len(s) THEN Zero ELSE s[i]
             /\ i > off /\ i <= end => b[i - off] \in Bytes
             /\ i <= Len(s) => s[i] \in Bytes
  BY <1>1, <1>3 DEF Memory!Resize
<1>4. Memory!Overwrite(s, off, b) =
          [i \in 1..size |-> IF i > off /\ i <= end THEN b[i - off] ELSE room[i]]
  BY <1>2 DEF Memory!Overwrite
<1>5. ASSUME NEW i \in 1..size
      PROVE  /\ r[i] = IF i > off /\ i <= end THEN b[i - off] ELSE room[i]
             /\ r[i] \in Bytes
  <2>1. /\ i \in Nat
        /\ r[i] = IF i > off /\ i <= end THEN b[i - off]
                  ELSE IF i > Len(s) THEN Zero ELSE s[i]
    BY DEF StreamWrite
  <2> HIDE DEF end, room
  <2> QED
    BY <1>1, <1>3, <2>1, FileStorageAssumption
<1>6. r = Memory!Overwrite(s, off, b)
  <2>1. DOMAIN r = 1..size /\ r = [i \in DOMAIN r |-> r[i]]
    BY DEF StreamWrite
  <2> HIDE DEF end, room, size, r
  <2> QED
    BY <1>4, <1>5, <2>1
<1>7. r \in [1..size -> Bytes]
  BY <1>5 DEF StreamWrite
<1>8. r \in Seq(Bytes) /\ Len(r) = size
  <2> HIDE DEF r, size
  <2> QED
    BY <1>1, <1>7, LengthOfFunction
<1> QED
  BY <1>6, <1>8

(***************************************************************************)
(* A transfer out of the stream stops at the end of the file, with what    *)
(* the storage in memory hands out.                                        *)
(***************************************************************************)
LEMMA ReadStopsAtEnd ==
    ASSUME NEW s \in Seq(Bytes), NEW off \in Nat, NEW n \in Nat
    PROVE  /\ StreamRead(s, off, n) = Memory!BytesAt(s, off, n)
           /\ StreamRead(s, off, n) \in Seq(Bytes)
           /\ off <= Len(s) => off + Len(StreamRead(s, off, n)) <= Len(s)
           /\ off > Len(s) => Len(StreamRead(s, off, n)) = 0
<1> DEFINE left == IF off > Len(s) THEN 0
                   ELSE IF off + n > Len(s) THEN Len(s) - off ELSE n
           r == StreamRead(s, off, n)
<1>1. left \in Nat /\ n \in Nat /\ Len(s) \in Nat
  OBVIOUS
<1>2. {j \in 1..n : off + j <= Len(s)} = 1..left
  BY <1>1
<1>3. r = [i \in 1..left |-> s[off + i]]
  BY <1>2 DEF StreamRead
<1>4. ASSUME NEW i \in 1..left PROVE s[off + i] \in Bytes
  BY <1>1
<1>5. r \in [1..left -> Bytes]
  BY <1>3, <1>4
<1>6. r \in Seq(Bytes) /\ Len(r) = left
  <2> HIDE DEF left, r
  <2> QED
    BY <1>1, <1>5, LengthOfFunction
<1>7. r = Memory!BytesAt(s, off, n)
  BY <1>3 DEF Memory!BytesAt
<1>8. off <= Len(s) => off + left <= Len(s)
  BY <1>1
<1>9. off > Len(s) => left = 0
  OBVIOUS
<1> HIDE DEF left, r
<1> QED
  BY <1>6, <1>7, <1>8, <1>9 DEF r

LEMMA ResizeFacts ==
    ASSUME NEW s \in Seq(Bytes), NEW n \in Nat
    PROVE  /\ Memory!Resize(s, n) \in Seq(Bytes)
           /\ Len(Memory!Resize(s, n)) = n
<1>1. Memory!Resize(s, n) \in [1..n -> Bytes]
  BY FileStorageAssumption DEF Memory!Resize
<1> QED
  BY <1>1

-----------------------------------------------------------------------------
(* What is known of a call that begins or ends. *)

LEMMA StorageInit == Init => StorageInv
<1> SUFFICES ASSUME Init PROVE StorageInv
  OBVIOUS
<1>1. \A t \in Threads : call[t] = NoCall /\ call[t].name = "none"
  BY DEF Init, NoCall
<1>2. TypeOK
  <2>1. NoCall \in CallType
    BY FileStorageAssumption DEF NoCall, Calls, CallType
  <2>2. /\ file \in Seq(Bytes) /\ Len(file) <= MaxSize
        /\ pos \in 0..MaxSize /\ ret \in 0..MaxSize
    BY FileStorageAssumption DEF Init
  <2> QED
    BY <2>1, <2>2 DEF Init, TypeOK, CallType
<1>3. Quiet /\ ~Reopening
  BY <1>1 DEF Quiet, Reopening
<1> QED
  BY <1>1, <1>2, <1>3 DEF Init, StorageInv, SeekIsKept, TransfersOwnMutex,
     WritesFit, ReadsAsk, ProbesAtEnd, CopiesFromStart, OneTruncate,
     ClosedForAReason, Transfers, Probes

LEMMA Names ==
    /\ Transfers \cap Unlocked = {} /\ Probes \subseteq Unlocked
    /\ \A n \in Transfers \cup Unlocked : n # "none" /\ n # "truncate"
    /\ Transfers \cup Unlocked \cup {"none", "truncate"} = Calls
BY DEF Transfers, Unlocked, Probes, Calls

LEMMA CallBegins ==
    ASSUME TypeOK, NEW t \in Threads, NEW c \in CallType,
           call' = [call EXCEPT ![t] = c]
    PROVE  /\ call'[t] = c
           /\ \A u \in Threads : u # t => call'[u] = call[u]
           /\ call' \in [Threads -> CallType]
BY DEF TypeOK, CallType

(***************************************************************************)
(* A step that ends the call of t leaves one call less to speak of.        *)
(***************************************************************************)
LEMMA CallEnds ==
    ASSUME TypeOK, NEW t \in Threads, call' = [call EXCEPT ![t] = NoCall]
    PROVE  /\ call'[t] = NoCall /\ call'[t].name = "none"
           /\ \A u \in Threads : u # t => call'[u] = call[u]
           /\ call' \in [Threads -> CallType]
<1>1. NoCall \in CallType
  BY FileStorageAssumption DEF NoCall, Calls, CallType
<1> QED
  BY <1>1, CallBegins DEF NoCall

(***************************************************************************)
(* What ends: a read takes from where the stream stands.                   *)
(***************************************************************************)
LEMMA ReadFacts ==
    ASSUME TypeOK, NEW n \in Nat,
           NEW bytes, bytes = IF isOpen THEN StreamRead(file, pos, n) ELSE <<>>
    PROVE  /\ bytes \in Seq(Bytes) /\ Len(bytes) \in 0..MaxSize
           /\ pos + Len(bytes) \in 0..MaxSize
           /\ isOpen => bytes = Memory!BytesAt(file, pos, n)
           /\ ~isOpen => bytes = Memory!BytesAt(file, Len(file), n)
           /\ isOpen => pos + Len(bytes) \in {pos} \cup 0..Len(file)
<1>1. /\ file \in Seq(Bytes) /\ Len(file) <= MaxSize /\ Len(file) \in Nat
      /\ pos \in Nat /\ pos <= MaxSize /\ MaxSize \in Nat
  BY FileStorageAssumption DEF TypeOK
<1>2. CASE isOpen
  <2>1. /\ bytes = Memory!BytesAt(file, pos, n)
        /\ bytes \in Seq(Bytes)
        /\ pos <= Len(file) => pos + Len(bytes) <= Len(file)
        /\ pos > Len(file) => Len(bytes) = 0
    BY <1>1, <1>2, ReadStopsAtEnd
  <2>2. Len(bytes) \in Nat
    BY <2>1
  <2> QED
    BY <1>1, <1>2, <2>1, <2>2
<1>3. CASE ~isOpen
  <2> DEFINE r == StreamRead(file, Len(file), n)
  <2>1. /\ r = Memory!BytesAt(file, Len(file), n)
        /\ r \in Seq(Bytes)
        /\ Len(file) + Len(r) <= Len(file)
    <3>1. Len(file) <= Len(file)
      BY <1>1
    <3> QED
      BY <1>1, <3>1, ReadStopsAtEnd
  <2>2. Len(r) = 0
    <3> HIDE DEF r
    <3>1. Len(r) \in Nat
      BY <2>1
    <3> QED
      BY <1>1, <2>1, <3>1
  <2>3. r = <<>>
    <3> HIDE DEF r
    <3> QED
      BY <2>1, <2>2
  <2>4. bytes = <<>> /\ <<>> \in Seq(Bytes) /\ Len(<<>>) = 0
    BY <1>3
  <2> HIDE DEF r
  <2> QED
    BY <1>1, <1>3, <2>1, <2>3, <2>4
<1> QED
  BY <1>2, <1>3

(***************************************************************************)
(* A copy of the rest of the stream ends at its end, or does not move when *)
(* the position is beyond; from the beginning it is the whole file.        *)
(***************************************************************************)
LEMMA CopyEnds ==
    ASSUME NEW s \in Seq(Bytes), NEW p \in Nat
    PROVE  LET r == StreamRead(s, p, Len(s))
           IN  p + Len(r) = p \/ p + Len(r) = Len(s)
<1> DEFINE n == IF p < Len(s) THEN Len(s) - p ELSE 0
           r == StreamRead(s, p, Len(s))
<1>1. n \in Nat /\ {j \in 1..Len(s) : p + j <= Len(s)} = 1..n
  OBVIOUS
<1>2. r = [i \in 1..n |-> s[p + i]]
  BY <1>1 DEF StreamRead
<1>3. Len(r) = n
  <2> HIDE DEF n, r
  <2> QED
    BY <1>1, <1>2
<1> HIDE DEF r
<1> QED
  BY <1>3 DEF r

LEMMA WholeCopy ==
    ASSUME NEW s \in Seq(Bytes)
    PROVE  StreamRead(s, 0, Len(s)) = s
<1>1. {j \in 1..Len(s) : 0 + j <= Len(s)} = 1..Len(s)
  OBVIOUS
<1>2. StreamRead(s, 0, Len(s)) = [i \in 1..Len(s) |-> s[i]]
  BY <1>1 DEF StreamRead
<1> QED
  BY <1>2

LEMMA CastInRange ==
    ASSUME NEW x \in Int PROVE CastInt(x) \in Ints
BY CastMoves, FileStorageAssumption DEF Ints

LEMMA WriteFacts ==
    ASSUME StorageInv, NEW t \in Threads, pos + Len(call[t].buf) <= MaxSize,
           EndWrite(t)
    PROVE  /\ call[t].buf \in Memory!Buffers
           /\ file' \in Seq(Bytes) /\ Len(file') <= MaxSize
           /\ pos' \in 0..MaxSize
           /\ ret' \in Ints
           /\ isOpen => file' = Memory!Overwrite(file, pos, call[t].buf)
           /\ ~isOpen => file' = file
           /\ t \notin disturbed => ret' = Len(call[t].buf)
<1> DEFINE b == call[t].buf
           end == pos + Len(b)
<1>1. /\ call[t].name = "write"
      /\ b \in Memory!Buffers
      /\ t \notin disturbed => isOpen /\ pos = call[t].off
  BY DEF EndWrite, StorageInv, SeekIsKept, WritesFit, Transfers
<1>2. /\ file \in Seq(Bytes) /\ Len(file) <= MaxSize /\ pos \in Nat
      /\ Len(file) \in Nat /\ MaxSize \in Nat /\ call[t].off \in Nat
      /\ pos \in 0..MaxSize
  BY FileStorageAssumption DEF StorageInv, TypeOK
<1>3. b \in Seq(Bytes) /\ Len(b) \in Nat /\ Len(b) < IntHalf
  <2>1. b \in Seq(Bytes) /\ Len(b) \in 1..MaxLen
    BY <1>1, BufferFacts
  <2> QED
    BY <2>1, FileStorageAssumption
<1>4. end \in 0..MaxSize
  BY <1>2, <1>3
<1>5. /\ isOpen => file' = StreamWrite(file, pos, b) /\ pos' = end
      /\ ~isOpen => file' = file /\ pos' = pos
      /\ isOpen => ret' = CastInt(CastInt(end) - CastInt(call[t].off))
      /\ ~isOpen => ret' = CastInt(CastInt(-1) - CastInt(call[t].off))
  BY DEF EndWrite
<1>6. isOpen => /\ file' = Memory!Overwrite(file, pos, b)
                /\ file' \in Seq(Bytes)
                /\ Len(file') = IF Len(file) < end THEN end ELSE Len(file)
  <2> HIDE DEF b
  <2> QED
    BY <1>2, <1>3, <1>5, WriteOverwrites
<1>7. ret' \in Ints
  <2>1. ASSUME NEW x \in Int PROVE CastInt(x) \in Ints /\ CastInt(x) \in Int
    <3>1. CastInt(x) \in Ints
      BY CastInRange
    <3> QED
      BY <3>1, FileStorageAssumption DEF Ints
  <2>2. /\ CastInt(end) - CastInt(call[t].off) \in Int
        /\ CastInt(-1) - CastInt(call[t].off) \in Int
    <3>1. end \in Int /\ -1 \in Int /\ call[t].off \in Int
      BY <1>2, <1>4
    <3>2. /\ CastInt(end) \in Int /\ CastInt(-1) \in Int
          /\ CastInt(call[t].off) \in Int
      BY <2>1, <3>1
    <3> QED
      BY <3>2
  <2> QED
    BY <1>5, <2>1, <2>2
<1>8. t \notin disturbed => ret' = Len(b)
  <2> SUFFICES ASSUME t \notin disturbed PROVE ret' = Len(b)
    OBVIOUS
  <2>1. ret' = CastInt(CastInt(pos + Len(b)) - CastInt(pos))
    BY <1>1, <1>5
  <2> HIDE DEF b
  <2> QED
    BY <1>2, <1>3, <2>1, CastDifference
<1> HIDE DEF b
<1> QED
  BY <1>1, <1>2, <1>4, <1>5, <1>6, <1>7, <1>8 DEF b

-----------------------------------------------------------------------------
(* The inductive step: one lemma per call, for either of its halves. *)

LEMMA BeginTransferStep ==
    ASSUME StorageInv, NEW t \in Threads, NEW off \in 0..MaxSize,
           \/ \E n \in 1..MaxLen : BeginRead(t, off, n)
           \/ \E b \in Memory!Buffers :
                 off + Len(b) <= MaxSize /\ BeginWrite(t, off, b)
    PROVE  StorageInv'
<1>t. TypeOK /\ MaxSize \in Nat /\ MaxLen \in Nat
  BY FileStorageAssumption DEF StorageInv
<1>1. PICK c \in CallType :
          /\ call' = [call EXCEPT ![t] = c]
          /\ c.name \in Transfers /\ c.off = off
          /\ c.name = "read" => c.len \in 1..MaxLen
          /\ c.name = "write" => /\ c.buf \in Memory!Buffers
                                 /\ off + Len(c.buf) <= MaxSize
  <2>1. ASSUME NEW n \in 1..MaxLen, BeginRead(t, off, n)
        PROVE  [name |-> "read", off |-> off, len |-> n, buf |-> <<>>] \in CallType
    BY <1>t DEF CallType, Calls, Transfers
  <2>2. ASSUME NEW b \in Memory!Buffers, BeginWrite(t, off, b)
        PROVE  [name |-> "write", off |-> off, len |-> 0, buf |-> b] \in CallType
    BY <1>t DEF CallType, Calls, Transfers
  <2> QED
    BY <2>1, <2>2 DEF BeginRead, BeginWrite, Transfers
<1>2. /\ rw_mutex = Nobody /\ rw_mutex' = t /\ Seek(off)
      /\ call[t] = NoCall /\ (isOpen \/ Reopening)
      /\ disturbed' = disturbed \cup Met(t, Unlocked)
                         \cup (IF isOpen THEN {} ELSE {t})
      /\ UNCHANGED <<isOpen, file, got, ret>>
  BY DEF BeginRead, BeginWrite
<1>3. /\ call'[t] = c
      /\ \A u \in Threads : u # t => call'[u] = call[u]
      /\ call' \in [Threads -> CallType]
  BY <1>t, <1>1, CallBegins
<1>4. pos' \in 0..MaxSize /\ (isOpen => pos' = off)
  BY <1>t, <1>2 DEF Seek, TypeOK
<1>5. TypeOK'
  BY <1>t, <1>2, <1>3, <1>4 DEF TypeOK, Met, CallType
<1>6. \A u \in Threads : call[u].name \notin Transfers
  BY <1>2, FileStorageAssumption DEF StorageInv, TransfersOwnMutex
<1>7. \A u \in Threads : u # t /\ call[u].name \in Unlocked => u \in disturbed'
  BY <1>2 DEF Met
<1>8. ~isOpen => t \in disturbed'
  BY <1>2
<1>9. SeekIsKept' /\ TransfersOwnMutex'
  BY <1>1, <1>2, <1>3, <1>4, <1>6, <1>8 DEF SeekIsKept, TransfersOwnMutex
<1>10. WritesFit' /\ ReadsAsk'
  BY <1>1, <1>3, <1>6 DEF WritesFit, ReadsAsk, Transfers
<1>11. ProbesAtEnd' /\ CopiesFromStart'
  BY <1>1, <1>3, <1>7 DEF ProbesAtEnd, CopiesFromStart, Probes, Unlocked, Transfers
<1>12. OneTruncate'
  BY <1>1, <1>3, Names DEF StorageInv, OneTruncate
<1>13. (Reopening <=> Reopening')
  BY <1>1, <1>2, <1>3, Names DEF Reopening, NoCall
<1>14. ClosedForAReason'
  BY <1>2, <1>13 DEF StorageInv, ClosedForAReason
<1> QED
  BY <1>5, <1>9, <1>10, <1>11, <1>12, <1>14 DEF StorageInv

LEMMA EndTransferStep ==
    ASSUME StorageInv, NEW t \in Threads,
           \/ EndRead(t)
           \/ pos + Len(call[t].buf) <= MaxSize /\ EndWrite(t)
    PROVE  StorageInv'
<1>t. TypeOK /\ MaxSize \in Nat
  BY FileStorageAssumption DEF StorageInv
<1>1. /\ call[t].name \in Transfers
      /\ rw_mutex' = Nobody /\ UNCHANGED isOpen
      /\ call' = [call EXCEPT ![t] = NoCall]
      /\ disturbed' = (disturbed \cup Met(t, Unlocked)) \ {t}
  BY DEF EndRead, EndWrite, Transfers
<1>2. /\ call'[t] = NoCall /\ call'[t].name = "none"
      /\ \A u \in Threads : u # t => call'[u] = call[u]
      /\ call' \in [Threads -> CallType]
  BY <1>t, <1>1, CallEnds
<1>3. /\ file' \in Seq(Bytes) /\ Len(file') <= MaxSize
      /\ pos' \in 0..MaxSize
      /\ ret' \in (0..MaxSize) \cup Ints
      /\ got' \in Seq(Bytes)
      /\ ~isOpen => file' = file
  <2>1. CASE EndRead(t)
    <3>1. call[t].len \in Nat
      BY <1>t, FileStorageAssumption DEF TypeOK
    <3> DEFINE bytes == IF isOpen THEN StreamRead(file, pos, call[t].len) ELSE <<>>
    <3>2. /\ bytes \in Seq(Bytes) /\ Len(bytes) \in 0..MaxSize
          /\ pos + Len(bytes) \in 0..MaxSize
      BY <1>t, <3>1, ReadFacts
    <3>3. /\ got' = bytes /\ ret' = Len(bytes) /\ pos' = pos + Len(bytes)
          /\ file' = file
      BY <2>1 DEF EndRead
    <3> HIDE DEF bytes
    <3> QED
      BY <1>t, <3>2, <3>3 DEF TypeOK
  <2>2. CASE pos + Len(call[t].buf) <= MaxSize /\ EndWrite(t)
    <3>1. got' = got
      BY <2>2 DEF EndWrite
    <3> QED
      BY <1>t, <2>2, <3>1, WriteFacts DEF TypeOK
  <2> QED
    BY <2>1, <2>2
<1>4. TypeOK'
  BY <1>t, <1>1, <1>2, <1>3 DEF TypeOK, Met, CallType
<1>5. \A u \in Threads : u # t => call[u].name \notin Transfers
  BY <1>1 DEF StorageInv, TransfersOwnMutex
<1>6. \A u \in Threads : call'[u].name \notin Transfers
  BY <1>2, <1>5, Names
<1>7. \A u \in Threads : call'[u].name \in Unlocked => u \in disturbed'
  BY <1>1, <1>2, Names DEF Met
<1>8. SeekIsKept' /\ TransfersOwnMutex' /\ WritesFit' /\ ReadsAsk'
  BY <1>6 DEF SeekIsKept, TransfersOwnMutex, WritesFit, ReadsAsk, Transfers
<1>9. ProbesAtEnd' /\ CopiesFromStart'
  BY <1>7 DEF ProbesAtEnd, CopiesFromStart, Unlocked
<1>10. OneTruncate'
  BY <1>2 DEF StorageInv, OneTruncate
<1>11. Reopening <=> Reopening'
  BY <1>1, <1>2, Names DEF Reopening
<1>12. ~Quiet
  BY <1>1, Names DEF Quiet, NoCall
<1>13. ClosedForAReason'
  BY <1>1, <1>3, <1>11, <1>12 DEF StorageInv, ClosedForAReason
<1> QED
  BY <1>4, <1>8, <1>9, <1>10, <1>13 DEF StorageInv

LEMMA BeginUnlockedStep ==
    ASSUME StorageInv, NEW t \in Threads,
           BeginReadFully(t) \/ \E name \in Probes : BeginProbe(t, name)
    PROVE  StorageInv'
<1>t. TypeOK /\ MaxSize \in Nat /\ Len(file) \in Nat
  BY FileStorageAssumption DEF StorageInv, TypeOK
<1>1. PICK name \in Unlocked :
          /\ call' = [call EXCEPT ![t] = [NoCall EXCEPT !.name = name]]
          /\ name \in Probes => isOpen /\ Seek(Len(file))
          /\ name = "readFully" => file # <<>> /\ Seek(0)
  BY DEF BeginReadFully, BeginProbe, Unlocked, Probes
<1>2. /\ call[t] = NoCall /\ (isOpen \/ Reopening)
      /\ disturbed \cup Met(t, Transfers \cup Unlocked) \subseteq disturbed'
      /\ ~isOpen => t \in disturbed'
      /\ disturbed' \subseteq Threads
      /\ UNCHANGED <<isOpen, file, rw_mutex, got, ret>>
  BY <1>t DEF BeginReadFully, BeginProbe, Met, TypeOK
<1> DEFINE c == [NoCall EXCEPT !.name = name]
<1>3. c \in CallType /\ c.name = name
  BY <1>t, FileStorageAssumption, Names DEF CallType, NoCall
<1>4. /\ call'[t] = c
      /\ \A u \in Threads : u # t => call'[u] = call[u]
      /\ call' \in [Threads -> CallType]
  <2> HIDE DEF c
  <2> QED
    BY <1>t, <1>1, <1>3, CallBegins DEF c
<1> HIDE DEF c
<1>5. /\ pos' \in 0..MaxSize
      /\ isOpen => pos' \in {0, Len(file)}
      /\ isOpen /\ name \in Probes => pos' = Len(file)
      /\ isOpen /\ name = "readFully" => pos' = 0
  BY <1>t, <1>1 DEF Seek, TypeOK, Unlocked
<1>6. TypeOK'
  BY <1>t, <1>2, <1>4, <1>5 DEF TypeOK, CallType
<1>7. \A u \in Threads :
          u # t /\ call[u].name \in Transfers \cup Unlocked => u \in disturbed'
  BY <1>2 DEF Met
<1>8. SeekIsKept'
  BY <1>2, <1>3, <1>4, <1>5, <1>7, Names DEF StorageInv, SeekIsKept
<1>9. TransfersOwnMutex' /\ WritesFit' /\ ReadsAsk'
  BY <1>2, <1>3, <1>4, Names
     DEF StorageInv, TransfersOwnMutex, WritesFit, ReadsAsk, Transfers
<1>10. ProbesAtEnd'
  BY <1>1, <1>2, <1>3, <1>4, <1>5, <1>7 DEF ProbesAtEnd, Unlocked
<1>11. CopiesFromStart'
  BY <1>1, <1>2, <1>3, <1>4, <1>5, <1>7 DEF CopiesFromStart, Unlocked, Probes
<1>12. OneTruncate'
  BY <1>3, <1>4, Names DEF StorageInv, OneTruncate
<1>13. Reopening <=> Reopening'
  BY <1>2, <1>3, <1>4, Names DEF Reopening, NoCall
<1>14. ClosedForAReason'
  BY <1>2, <1>13 DEF StorageInv, ClosedForAReason
<1> QED
  BY <1>6, <1>8, <1>9, <1>10, <1>11, <1>12, <1>14 DEF StorageInv

LEMMA EndProbeStep ==
    ASSUME StorageInv, NEW t \in Threads, EndProbe(t)
    PROVE  StorageInv'
<1>t. TypeOK /\ MaxSize \in Nat /\ IntHalf \in Nat /\ IntHalf > 0
  BY FileStorageAssumption DEF StorageInv
<1>1. /\ call[t].name \in Probes
      /\ call' = [call EXCEPT ![t] = NoCall]
      /\ disturbed' = disturbed \ {t}
      /\ UNCHANGED <<isOpen, file, pos, rw_mutex, got>>
  BY DEF EndProbe
<1>2. /\ call'[t] = NoCall /\ call'[t].name = "none"
      /\ \A u \in Threads : u # t => call'[u] = call[u]
      /\ call' \in [Threads -> CallType]
  BY <1>t, <1>1, CallEnds
<1>3. ret' \in (0..MaxSize) \cup {1} \cup Ints
  BY <1>t DEF EndProbe, TypeOK, Ints
<1>4. TypeOK'
  BY <1>t, <1>1, <1>2, <1>3 DEF TypeOK, CallType
<1>5. \A u \in Threads : u # t /\ u \notin disturbed' => u \notin disturbed
  BY <1>1
<1>6. SeekIsKept' /\ TransfersOwnMutex' /\ WritesFit' /\ ReadsAsk'
  BY <1>1, <1>2, <1>5, Names
     DEF StorageInv, SeekIsKept, TransfersOwnMutex, WritesFit, ReadsAsk, Transfers
<1>7. ProbesAtEnd' /\ CopiesFromStart'
  BY <1>1, <1>2, <1>5 DEF StorageInv, ProbesAtEnd, CopiesFromStart, Probes
<1>8. OneTruncate'
  BY <1>2 DEF StorageInv, OneTruncate
<1>9. Reopening <=> Reopening'
  BY <1>1, <1>2, Names DEF Reopening
<1>10. ~Quiet
  BY <1>1, Names DEF Quiet, NoCall
<1>11. ClosedForAReason'
  BY <1>1, <1>9, <1>10 DEF StorageInv, ClosedForAReason
<1> QED
  BY <1>4, <1>6, <1>7, <1>8, <1>11 DEF StorageInv

LEMMA EndReadFullyStep ==
    ASSUME StorageInv, NEW t \in Threads, EndReadFully(t)
    PROVE  StorageInv'
<1>t. TypeOK /\ MaxSize \in Nat /\ Len(file) \in Nat
  BY FileStorageAssumption DEF StorageInv, TypeOK
<1>1. /\ call[t].name = "readFully"
      /\ call' = [call EXCEPT ![t] = NoCall]
      /\ disturbed' = (disturbed \cup Met(t, Transfers \cup Unlocked)) \ {t}
      /\ UNCHANGED <<isOpen, file, rw_mutex, ret>>
  BY DEF EndReadFully
<1>2. /\ call'[t] = NoCall /\ call'[t].name = "none"
      /\ \A u \in Threads : u # t => call'[u] = call[u]
      /\ call' \in [Threads -> CallType]
  BY <1>t, <1>1, CallEnds
<1> DEFINE bytes == IF isOpen THEN StreamRead(file, pos, Len(file)) ELSE <<>>
<1>3. /\ got' \in Seq(Bytes) /\ pos' \in 0..MaxSize
      /\ isOpen => pos' = pos \/ pos' = Len(file)
  <2>1. /\ bytes \in Seq(Bytes) /\ Len(bytes) \in 0..MaxSize
        /\ pos + Len(bytes) \in 0..MaxSize
    BY <1>t, ReadFacts
  <2>2. got' = bytes /\ pos' = pos + Len(bytes)
    BY DEF EndReadFully
  <2>3. isOpen => pos + Len(bytes) = pos \/ pos + Len(bytes) = Len(file)
    BY <1>t, CopyEnds DEF TypeOK
  <2> HIDE DEF bytes
  <2> QED
    BY <2>1, <2>2, <2>3
<1>4. TypeOK'
  BY <1>t, <1>1, <1>2, <1>3 DEF TypeOK, Met, CallType
<1>5. \A u \in Threads : call'[u].name \in Transfers \cup Unlocked =>
          u # t /\ u \in disturbed' /\ call'[u] = call[u]
  BY <1>1, <1>2, Names DEF Met
<1>6. SeekIsKept'
  BY <1>1, <1>3, <1>5 DEF StorageInv, SeekIsKept
<1>7. TransfersOwnMutex' /\ WritesFit' /\ ReadsAsk'
  BY <1>1, <1>5 DEF StorageInv, TransfersOwnMutex, WritesFit, ReadsAsk, Transfers
<1>8. ProbesAtEnd' /\ CopiesFromStart'
  BY <1>5 DEF ProbesAtEnd, CopiesFromStart, Unlocked
<1>9. OneTruncate'
  BY <1>2 DEF StorageInv, OneTruncate
<1>10. Reopening <=> Reopening'
  BY <1>1, <1>2 DEF Reopening
<1>11. ~Quiet
  BY <1>1 DEF Quiet, NoCall
<1>12. ClosedForAReason'
  BY <1>1, <1>10, <1>11 DEF StorageInv, ClosedForAReason
<1> QED
  BY <1>4, <1>6, <1>7, <1>8, <1>9, <1>12 DEF StorageInv

LEMMA BeginTruncateStep ==
    ASSUME StorageInv, NEW t \in Threads, NEW n \in 0..MaxSize,
           BeginTruncate(t, n)
    PROVE  StorageInv'
<1> DEFINE c == [name |-> "truncate", off |-> n, len |-> 0, buf |-> <<>>]
<1>t. TypeOK
  BY DEF StorageInv
<1>1. /\ ~Reopening /\ isOpen' = FALSE
      /\ call' = [call EXCEPT ![t] = c]
      /\ disturbed' = disturbed \cup Met(t, Transfers \cup Unlocked)
      /\ UNCHANGED <<file, pos, rw_mutex, got, ret>>
  BY DEF BeginTruncate
<1>2. c \in CallType /\ c.name = "truncate"
  BY FileStorageAssumption DEF CallType, Calls
<1>3. /\ call'[t] = c
      /\ \A u \in Threads : u # t => call'[u] = call[u]
      /\ call' \in [Threads -> CallType]
  <2> HIDE DEF c
  <2> QED
    BY <1>t, <1>1, <1>2, CallBegins
<1> HIDE DEF c
<1>4. TypeOK'
  BY <1>t, <1>1, <1>3 DEF TypeOK, Met, CallType
<1>5. \A u \in Threads : call'[u].name \in Transfers \cup Unlocked =>
          u # t /\ u \in disturbed' /\ call'[u] = call[u]
  BY <1>1, <1>2, <1>3, Names DEF Met
<1>6. SeekIsKept' /\ TransfersOwnMutex' /\ WritesFit' /\ ReadsAsk'
  BY <1>1, <1>5 DEF StorageInv, SeekIsKept, TransfersOwnMutex, WritesFit, ReadsAsk,
     Transfers
<1>7. ProbesAtEnd' /\ CopiesFromStart'
  BY <1>5 DEF ProbesAtEnd, CopiesFromStart, Unlocked
<1>8. OneTruncate' /\ Reopening'
  BY <1>1, <1>2, <1>3 DEF OneTruncate, Reopening
<1> QED
  BY <1>1, <1>4, <1>6, <1>7, <1>8 DEF StorageInv, ClosedForAReason

LEMMA EndTruncateStep ==
    ASSUME StorageInv, NEW t \in Threads, EndTruncate(t)
    PROVE  /\ StorageInv'
           /\ file' = Memory!Resize(file, call[t].off)
<1>t. TypeOK /\ MaxSize \in Nat /\ call[t].off \in 0..MaxSize
  BY FileStorageAssumption DEF StorageInv, TypeOK
<1>1. /\ call[t].name = "truncate"
      /\ isOpen' = TRUE /\ pos' = 0
      /\ call' = [call EXCEPT ![t] = NoCall]
      /\ disturbed' = (disturbed \cup Met(t, Transfers \cup Unlocked)) \ {t}
      /\ UNCHANGED <<rw_mutex, got, ret>>
  BY DEF EndTruncate
<1>2. file' = Memory!Resize(file, call[t].off)
  BY DEF EndTruncate, Memory!Resize
<1>3. file' \in Seq(Bytes) /\ Len(file') = call[t].off
  BY <1>t, <1>2, ResizeFacts DEF TypeOK
<1>4. /\ call'[t] = NoCall /\ call'[t].name = "none"
      /\ \A u \in Threads : u # t => call'[u] = call[u]
      /\ call' \in [Threads -> CallType]
  BY <1>t, <1>1, CallEnds
<1>5. TypeOK'
  BY <1>t, <1>1, <1>3, <1>4 DEF TypeOK, Met, CallType
<1>6. \A u \in Threads : call'[u].name \in Transfers \cup Unlocked =>
          u # t /\ u \in disturbed' /\ call'[u] = call[u]
  BY <1>1, <1>4, Names DEF Met
<1>7. SeekIsKept' /\ TransfersOwnMutex' /\ WritesFit' /\ ReadsAsk'
  BY <1>1, <1>6 DEF StorageInv, SeekIsKept, TransfersOwnMutex, WritesFit, ReadsAsk,
     Transfers
<1>8. ProbesAtEnd' /\ CopiesFromStart'
  BY <1>6 DEF ProbesAtEnd, CopiesFromStart, Unlocked
<1>9. OneTruncate' /\ ~Reopening'
  BY <1>1, <1>4 DEF StorageInv, OneTruncate, Reopening
<1> QED
  BY <1>1, <1>2, <1>5, <1>7, <1>8, <1>9 DEF StorageInv, ClosedForAReason

LEMMA QuietStep ==
    ASSUME StorageInv, Quiet, UNCHANGED <<rw_mutex, call, disturbed, got, ret>>,
           isOpen' \in BOOLEAN, file' \in Seq(Bytes), Len(file') <= MaxSize,
           pos' \in 0..MaxSize, ~isOpen' => file' = <<>>
    PROVE  StorageInv'
<1>1. \A u \in Threads : call'[u].name = "none"
  BY DEF Quiet, NoCall
<1>2. TypeOK'
  BY DEF StorageInv, TypeOK
<1>3. Quiet' /\ ~Reopening'
  BY <1>1 DEF Quiet, Reopening
<1> QED
  BY <1>1, <1>2, <1>3 DEF StorageInv, SeekIsKept, TransfersOwnMutex, WritesFit,
     ReadsAsk, ProbesAtEnd, CopiesFromStart, OneTruncate, ClosedForAReason,
     Transfers, Probes

LEMMA StorageStep == StorageInv /\ [Next]_vars => StorageInv'
<1> SUFFICES ASSUME StorageInv, [Next]_vars PROVE StorageInv'
  OBVIOUS
<1>t. TypeOK /\ MaxSize \in Nat
  BY FileStorageAssumption DEF StorageInv
<1>e. <<>> \in Seq(Bytes) /\ Len(<<>>) = 0
  OBVIOUS
<1>1. CASE Open
  BY <1>1, <1>t, <1>e, QuietStep DEF Open
<1>2. ASSUME NEW t \in Threads, NEW off \in 0..MaxSize, NEW n \in 1..MaxLen,
             BeginRead(t, off, n)
      PROVE  StorageInv'
  BY <1>2, BeginTransferStep
<1>3. ASSUME NEW t \in Threads, NEW off \in 0..MaxSize, NEW b \in Memory!Buffers,
             off + Len(b) <= MaxSize, BeginWrite(t, off, b)
      PROVE  StorageInv'
  BY <1>3, BeginTransferStep
<1>4. ASSUME NEW t \in Threads,
             EndRead(t) \/ (pos + Len(call[t].buf) <= MaxSize /\ EndWrite(t))
      PROVE  StorageInv'
  BY <1>4, EndTransferStep
<1>5. ASSUME NEW t \in Threads, NEW name \in Probes, ProbeClosed(t, name)
      PROVE  StorageInv'
  <2>1. /\ ret' \in (0..MaxSize) \cup {1}
        /\ UNCHANGED <<isOpen, file, pos, rw_mutex, call, disturbed, got>>
    BY <1>5, <1>t DEF ProbeClosed
  <2>2. TypeOK'
    BY <1>t, <2>1 DEF TypeOK
  <2> QED
    BY <2>1, <2>2 DEF StorageInv, SeekIsKept, TransfersOwnMutex, WritesFit,
       ReadsAsk, ProbesAtEnd, CopiesFromStart, OneTruncate, ClosedForAReason,
       Reopening, Quiet
<1>6. ASSUME NEW t \in Threads,
             BeginReadFully(t) \/ \E name \in Probes : BeginProbe(t, name)
      PROVE  StorageInv'
  BY <1>6, BeginUnlockedStep
<1>7. ASSUME NEW t \in Threads, EndProbe(t) PROVE StorageInv'
  BY <1>7, EndProbeStep
<1>8. ASSUME NEW t \in Threads, EndReadFully(t) PROVE StorageInv'
  BY <1>8, EndReadFullyStep
<1>9. ASSUME NEW t \in Threads, NEW n \in 0..MaxSize, BeginTruncate(t, n)
      PROVE  StorageInv'
  BY <1>9, BeginTruncateStep
<1>10. ASSUME NEW t \in Threads, EndTruncate(t) PROVE StorageInv'
  BY <1>10, EndTruncateStep
<1>11. ASSUME NEW b \in Memory!Buffers, Len(file) + Len(b) <= MaxSize,
              AppendBytes(b)
       PROVE  StorageInv'
  <2>1. b \in Seq(Bytes) /\ Len(b) \in Nat
    BY BufferFacts
  <2>2. file' \in Seq(Bytes) /\ Len(file') = Len(file) + Len(b)
    BY <1>11, <1>t, <2>1 DEF AppendBytes, TypeOK
  <2>3. pos' \in 0..MaxSize
    BY <1>11, <1>t, <2>1 DEF AppendBytes, TypeOK
  <2> QED
    BY <1>11, <2>2, <2>3, QuietStep DEF AppendBytes
<1>12. CASE Clear
  <2>1. Quiet /\ UNCHANGED <<rw_mutex, call, disturbed, got, ret>>
    BY <1>12 DEF Clear
  <2>2. isOpen' \in BOOLEAN /\ file' = <<>> /\ pos' = 0
    BY <1>12 DEF Clear
  <2>3. file' \in Seq(Bytes) /\ Len(file') <= MaxSize /\ pos' \in 0..MaxSize
    BY <1>t, <1>e, <2>2
  <2> QED
    BY <2>1, <2>2, <2>3, QuietStep
<1>13. CASE UNCHANGED vars
  BY <1>13 DEF vars, StorageInv, TypeOK, SeekIsKept, TransfersOwnMutex, WritesFit,
     ReadsAsk, ProbesAtEnd, CopiesFromStart, OneTruncate, ClosedForAReason,
     Reopening, Quiet
<1> QED
  BY <1>1, <1>2, <1>3, <1>4, <1>5, <1>6, <1>7, <1>8, <1>9, <1>10, <1>11,
     <1>12, <1>13 DEF Next

-----------------------------------------------------------------------------
(***************************************************************************)
(* Every step is what the storage in memory promises for the call that     *)
(* ends, or the end of a disturbed call, or changes nothing that a caller  *)
(* can see: a call takes effect where its second half runs.                *)
(***************************************************************************)
Answers ==
    \/ \E t \in Threads : Promised(t) \/ Misplaced(t)
    \/ Quiet /\ Memory!MemoryNext
    \/ AskedWhileClosed

LEMMA MemoryStep ==
    StorageInv /\ [Next]_vars => [Answers]_(Memory!memoryVars)
<1> SUFFICES ASSUME StorageInv, [Next]_vars PROVE [Answers]_(Memory!memoryVars)
  OBVIOUS
<1>t. /\ TypeOK /\ file \in Seq(Bytes) /\ Len(file) \in Nat
      /\ call \in [Threads -> CallType]
  BY DEF StorageInv, TypeOK, CallType
<1>e. ASSUME NEW t \in Threads, call[t].name # "none",
             call' = [call EXCEPT ![t] = NoCall]
      PROVE  call[t] # NoCall /\ call'[t] = NoCall
  BY <1>e, <1>t, CallEnds DEF NoCall
<1>1. CASE Open
  <2>1. file = <<>>
    BY <1>1 DEF Open, StorageInv, ClosedForAReason, Reopening, Quiet, NoCall
  <2> QED
    BY <1>1, <2>1 DEF Open, Memory!memoryVars
<1>2. ASSUME NEW t \in Threads, NEW off \in 0..MaxSize, NEW n \in 1..MaxLen,
             BeginRead(t, off, n)
      PROVE  UNCHANGED Memory!memoryVars
  BY <1>2 DEF BeginRead, Memory!memoryVars
<1>3. ASSUME NEW t \in Threads, NEW off \in 0..MaxSize,
             NEW b \in Memory!Buffers, BeginWrite(t, off, b)
      PROVE  UNCHANGED Memory!memoryVars
  BY <1>3 DEF BeginWrite, Memory!memoryVars
<1>4. ASSUME NEW t \in Threads, EndRead(t) PROVE Answers
  <2> DEFINE n == call[t].len
             bytes == IF isOpen THEN StreamRead(file, pos, n) ELSE <<>>
  <2>1. /\ call[t].name = "read" /\ call[t] # NoCall /\ call'[t] = NoCall
        /\ got' = bytes /\ ret' = Len(bytes) /\ UNCHANGED file
    BY <1>4, <1>e DEF EndRead
  <2>2. /\ isOpen => bytes = Memory!BytesAt(file, pos, n)
        /\ ~isOpen => bytes = Memory!BytesAt(file, Len(file), n)
    <3>1. n \in Nat
      BY <1>t, FileStorageAssumption DEF CallType
    <3> QED
      BY <1>t, <3>1, ReadFacts
  <2>3. /\ t \notin disturbed => isOpen /\ pos = call[t].off
        /\ isOpen => pos \in {call[t].off, 0, Len(file)}
    BY <2>1 DEF StorageInv, SeekIsKept, Transfers
  <2> HIDE DEF bytes, n
  <2>4. CASE t \in disturbed
    <3>1. \E p \in {call[t].off, 0, Len(file)} : got' = Memory!BytesAt(file, p, n)
      BY <2>1, <2>2, <2>3
    <3>2. Misplaced(t)
      BY <2>1, <2>4, <3>1 DEF Misplaced, n
    <3> QED
      BY <3>2 DEF Answers
  <2>5. CASE t \notin disturbed
    <3>1. Memory!Read(call[t].off, n)
      BY <2>1, <2>2, <2>3, <2>5 DEF Memory!Read
    <3>2. Promised(t)
      BY <2>1, <3>1 DEF Promised, n
    <3> QED
      BY <3>2 DEF Answers
  <2> QED
    BY <2>4, <2>5
<1>5. ASSUME NEW t \in Threads, pos + Len(call[t].buf) <= MaxSize, EndWrite(t)
      PROVE  Answers
  <2>1. /\ call[t].name = "write" /\ call[t] # NoCall /\ call'[t] = NoCall
        /\ UNCHANGED got
    BY <1>5, <1>e DEF EndWrite
  <2>2. /\ t \notin disturbed => isOpen /\ pos = call[t].off
        /\ isOpen => pos \in {call[t].off, 0, Len(file)}
    BY <2>1 DEF StorageInv, SeekIsKept, Transfers
  <2>3. /\ isOpen => file' = Memory!Overwrite(file, pos, call[t].buf)
        /\ ~isOpen => file' = file
        /\ t \notin disturbed => ret' = Len(call[t].buf)
    BY <1>5, WriteFacts
  <2>4. CASE t \in disturbed
    <3>1. Misplaced(t)
      BY <2>1, <2>2, <2>3, <2>4 DEF Misplaced
    <3> QED
      BY <3>1 DEF Answers
  <2>5. CASE t \notin disturbed
    <3>1. Memory!Write(call[t].off, call[t].buf)
      BY <2>1, <2>2, <2>3, <2>5 DEF Memory!Write
    <3>2. Promised(t)
      BY <2>1, <3>1 DEF Promised
    <3> QED
      BY <3>2 DEF Answers
  <2> QED
    BY <2>4, <2>5
<1>6. ASSUME NEW t \in Threads, NEW name \in Probes, ProbeClosed(t, name)
      PROVE  Answers
  <2>1. CASE Reopening
    BY <1>6, <2>1 DEF ProbeClosed, AskedWhileClosed, Answers
  <2>2. CASE ~Reopening
    <3>1. Quiet /\ file = <<>> /\ Len(file) = 0
      BY <1>6, <2>2 DEF ProbeClosed, StorageInv, ClosedForAReason
    <3>2. Memory!Size \/ Memory!Empty
      BY <1>6, <3>1 DEF ProbeClosed, Memory!Size, Memory!Empty
    <3> QED
      BY <3>1, <3>2 DEF Memory!MemoryNext, Answers
  <2> QED
    BY <2>1, <2>2
<1>7. ASSUME NEW t \in Threads, NEW name \in Probes, BeginProbe(t, name)
      PROVE  UNCHANGED Memory!memoryVars
  BY <1>7 DEF BeginProbe, Memory!memoryVars
<1>8. ASSUME NEW t \in Threads, EndProbe(t) PROVE Answers
  <2>1. /\ call[t].name \in Probes /\ call[t] # NoCall /\ call'[t] = NoCall
        /\ UNCHANGED <<file, got>>
    BY <1>8, <1>e, Names DEF EndProbe
  <2>2. CASE t \in disturbed
    <3>1. Misplaced(t)
      BY <2>1, <2>2 DEF Misplaced
    <3> QED
      BY <3>1 DEF Answers
  <2>3. CASE t \notin disturbed
    <3>1. isOpen /\ pos = Len(file) /\ (pos = 0 <=> file = <<>>)
      BY <1>t, <2>1, <2>3 DEF StorageInv, ProbesAtEnd
    <3>2. \/ call[t].name = "size" /\ Memory!Size
          \/ call[t].name = "empty" /\ Memory!Empty
      BY <1>8, <2>1, <3>1 DEF EndProbe, Memory!Size, Memory!Empty, Probes
    <3>3. Promised(t)
      BY <2>1, <3>2 DEF Promised
    <3> QED
      BY <3>3 DEF Answers
  <2> QED
    BY <2>2, <2>3
<1>9. ASSUME NEW t \in Threads, BeginReadFully(t) PROVE UNCHANGED Memory!memoryVars
  BY <1>9 DEF BeginReadFully, Memory!memoryVars
<1>10. ASSUME NEW t \in Threads, EndReadFully(t) PROVE Answers
  <2> DEFINE bytes == IF isOpen THEN StreamRead(file, pos, Len(file)) ELSE <<>>
  <2>1. /\ call[t].name = "readFully" /\ call[t] # NoCall /\ call'[t] = NoCall
        /\ got' = bytes /\ UNCHANGED <<file, ret>>
    BY <1>10, <1>e DEF EndReadFully
  <2>2. CASE t \in disturbed
    <3>1. Misplaced(t)
      BY <2>1, <2>2 DEF Misplaced
    <3> QED
      BY <3>1 DEF Answers
  <2>3. CASE t \notin disturbed
    <3>1. isOpen /\ pos = 0 /\ file # <<>>
      BY <2>1, <2>3 DEF StorageInv, CopiesFromStart
    <3>2. bytes = file
      <4>1. bytes = StreamRead(file, 0, Len(file))
        BY <3>1
      <4> HIDE DEF bytes
      <4> QED
        BY <1>t, <4>1, WholeCopy
    <3>3. Promised(t)
      BY <2>1, <3>1, <3>2 DEF Promised, Memory!ReadFully
    <3> QED
      BY <3>3 DEF Answers
  <2> QED
    BY <2>2, <2>3
<1>11. ASSUME NEW t \in Threads, NEW n \in 0..MaxSize, BeginTruncate(t, n)
       PROVE  UNCHANGED Memory!memoryVars
  BY <1>11 DEF BeginTruncate, Memory!memoryVars
<1>12. ASSUME NEW t \in Threads, EndTruncate(t) PROVE Answers
  <2>1. /\ call[t].name = "truncate" /\ call[t] # NoCall /\ call'[t] = NoCall
        /\ UNCHANGED <<got, ret>>
    BY <1>12, <1>e DEF EndTruncate
  <2>2. Memory!Truncate(call[t].off)
    BY <1>12, <2>1, EndTruncateStep DEF Memory!Truncate
  <2>3. Promised(t)
    BY <2>1, <2>2 DEF Promised
  <2> QED
    BY <2>3 DEF Answers
<1>13. ASSUME NEW b \in Memory!Buffers, AppendBytes(b) PROVE Answers
  BY <1>13 DEF AppendBytes, Memory!AppendBytes, Memory!MemoryNext, Answers
<1>14. CASE Clear
  BY <1>14 DEF Clear, Memory!Clear, Memory!MemoryNext, Answers
<1>15. CASE UNCHANGED vars
  BY <1>15 DEF vars, Memory!memoryVars
<1> QED
  BY <1>1, <1>2, <1>3, <1>4, <1>5, <1>6, <1>7, <1>8, <1>9, <1>10, <1>11,
     <1>12, <1>13, <1>14, <1>15 DEF Next

-----------------------------------------------------------------------------
(***************************************************************************)
(* The stream, its position and the calls under way keep their types, with *)
(* every overlap; the count a write returns is an int whatever position it *)
(* was moved to.                                                           *)
(***************************************************************************)
THEOREM StorageTypeCorrect == Spec => []TypeOK
<1>1. StorageInv => TypeOK
  BY DEF StorageInv
<1> QED
  BY <1>1, StorageInit, StorageStep, PTL DEF Spec

(***************************************************************************)
(* rw_mutex keeps a transfer's seek from all reads and writes, for every   *)
(* number of threads; size, empty, readFully and truncate, which do not    *)
(* take it, move a transfer to the beginning or the end of the file, or    *)
(* have it find the stream closed.                                         *)
(***************************************************************************)
THEOREM TransfersKeepSeek == Spec => []SeekIsKept
<1>1. StorageInv => SeekIsKept
  BY DEF StorageInv
<1> QED
  BY <1>1, StorageInit, StorageStep, PTL DEF Spec

(***************************************************************************)
(* The storage in a file answers what the storage in memory would answer   *)
(* to every call that was not disturbed by one without the mutex, and a    *)
(* disturbed call is at worst misplaced.                                   *)
(***************************************************************************)
THEOREM FileRefinesMemory == Spec => ImplementsMemory
<1>1. Init => Memory!MemoryInit
  BY DEF Init, Memory!MemoryInit
<1>2. ImplementsMemory <=> Memory!MemoryInit /\ [][Answers]_(Memory!memoryVars)
  BY DEF ImplementsMemory, Answers
<1> QED
  BY <1>1, <1>2, StorageInit, StorageStep, MemoryStep, PTL DEF Spec
=============================================================================
