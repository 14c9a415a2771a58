--------------------------- MODULE FileNodeProofs ---------------------------
(***************************************************************************)
(* Proofs about the nodes of one path.  For any number of nodes, listers   *)
(* and files, with or without overlapping calls: the types, and that no    *)
(* healthy mount leaves a file in its cache directory.  For one node, and  *)
(* files of any size: what the cloud stores after a flush and an unlink,   *)
(* and the size the cache remembers.                                       *)
(***************************************************************************)
EXTENDS FileNode, CompoundProofs, FunctionTheorems

Roles == {"none", "handle", "truncate", "unlink"}
Open == {"handle", "truncate"}
Sizes == Nat \cup {NoEntry}

CloudOK(cl) ==
    /\ DOMAIN cl \subseteq Names /\ IsFiniteSet(DOMAIN cl)
    /\ \A x \in DOMAIN cl : cl[x] \in Seq(Bytes)

(* What a node does fits what it was made for. *)
RoleFits(r, p) ==
    /\ r = "none" => p = "idle"
    /\ r = "handle" => p # "unlink"
    /\ r = "truncate" => p \in {"open", "remove", "upload", "cleanup"}
    /\ r = "unlink" => p = "unlink"

NodesOK ==
    /\ role \in [Nodes -> Roles]
    /\ cachedContent \in [Nodes -> Seq(Bytes)]
    /\ dirty \in [Nodes -> BOOLEAN]
    /\ oldFileSize \in [Nodes -> Nat]
    /\ job \in [Nodes -> Jobs]
    /\ flushed \in [Nodes -> BOOLEAN]
    /\ \A h \in Nodes : RoleFits(role[h], job[h].phase)

RestOK ==
    /\ statSize \in Sizes /\ listing \in [Listers -> Sizes]
    /\ faults \in 0..MaxFaults /\ gaveUp \in BOOLEAN /\ halfDone \in BOOLEAN

(***************************************************************************)
(* There is a file for every node with an open storage, and no other       *)
(* before the first fault.                                                 *)
(***************************************************************************)
Holders == {h \in Nodes : role[h] \in Open}
FilesOK ==
    /\ tempFiles \in 0..MaxTempFiles
    /\ IsFiniteSet(Holders) /\ Cardinality(Holders) <= tempFiles
    /\ faults = 0 /\ ~gaveUp => Cardinality(Holders) = tempFiles

NodeInv == CloudOK(cloud) /\ NodesOK /\ RestOK /\ FilesOK

-----------------------------------------------------------------------------
(* Contents. *)

LEMMA ResizedType ==
    ASSUME NEW s \in Seq(Bytes), NEW n \in Nat
    PROVE  Resized(s, n) \in Seq(Bytes) /\ Len(Resized(s, n)) = n
<1>1. s \in [1..Len(s) -> Bytes] /\ Len(s) \in Nat
  BY LenProperties
<1>2. Resized(s, n) \in [1..n -> Bytes]
  BY <1>1, FileNodeAssumption DEF Resized
<1> QED
  BY <1>2, LenDomain

LEMMA WriteAtType ==
    ASSUME NEW s \in Seq(Bytes), NEW off \in Nat, NEW b \in Bytes
    PROVE  /\ WriteAt(s, off, b) \in Seq(Bytes)
           /\ Len(WriteAt(s, off, b)) = IF off < Len(s) THEN Len(s) ELSE off + 1
<1> DEFINE n == IF off < Len(s) THEN Len(s) ELSE off + 1
           t == Resized(s, n)
<1>1. n \in Nat /\ off + 1 \in 1..n
  BY LenProperties
<1> HIDE DEF n
<1>2. t \in Seq(Bytes) /\ Len(t) = n
  BY <1>1, ResizedType
<1>3. t \in [1..n -> Bytes]
  BY <1>2, LenProperties
<1> HIDE DEF t
<1>4. [t EXCEPT ![off + 1] = b] \in [1..n -> Bytes]
  BY <1>1, <1>3
<1>5. [t EXCEPT ![off + 1] = b] \in Seq(Bytes) /\ Len([t EXCEPT ![off + 1] = b]) = n
  BY <1>1, <1>4, LenDomain
<1> QED
  BY <1>5 DEF WriteAt, t, n

LEMMA PieceType ==
    ASSUME NEW s \in Seq(Bytes), NEW size, NEW i \in Nat
    PROVE  Piece(s, size, i) \in Seq(Bytes)
<1> DEFINE m == i * MaxFileSize + 1
           end == (i + 1) * MaxFileSize
           n == IF Len(s) < end THEN Len(s) ELSE end
<1>1. m \in Nat \ {0} /\ end \in Nat /\ Len(s) \in Nat
  BY CompoundAssumption, LenProperties
<1>2. n \in Nat /\ n <= Len(s)
  BY <1>1
<1> HIDE DEF m, end, n
<1>3. SubSeq(s, m, n) \in Seq(Bytes)
  BY <1>1, <1>2
<1> QED
  BY <1>3 DEF Piece, m, n, end

LEMMA StoredOK ==
    ASSUME CloudOK(cloud), NEW x \in Names, NEW s \in Seq(Bytes)
    PROVE  CloudOK(Stored(x, s))
<1>1. IsFiniteSet(DOMAIN cloud \cup {x})
  BY FS_AddElement DEF CloudOK
<1> QED
  BY <1>1 DEF CloudOK, Stored

LEMMA RemovedOK ==
    ASSUME CloudOK(cloud), NEW x PROVE CloudOK(Removed(x))
<1>1. IsFiniteSet(DOMAIN cloud \ {x})
  BY FS_RemoveElement DEF CloudOK
<1> QED
  BY <1>1 DEF CloudOK, Removed

LEMMA ListedType ==
    ASSUME NEW cl, CloudOK(cl) PROVE ListedSize(cl) \in Sizes
<1> DEFINE parts == DOMAIN cl \ {Whole}
           Of(x) == {x} \X DOMAIN cl[x]
           all == {Of(x) : x \in parts}
<1>1. IsFiniteSet(parts)
  BY FS_RemoveElement DEF CloudOK
<1>2. ASSUME NEW x \in DOMAIN cl
      PROVE  IsFiniteSet(Of(x)) /\ Len(cl[x]) \in Nat
  <2>1. DOMAIN cl[x] = 1..Len(cl[x]) /\ Len(cl[x]) \in Nat
    BY LenProperties DEF CloudOK
  <2>2. \A n \in Nat : IsFiniteSet(1..n)
    BY FS_Interval
  <2>3. IsFiniteSet({x})
    BY FS_Singleton, Zenon
  <2>4. IsFiniteSet(DOMAIN cl[x])
    BY <2>1, <2>2
  <2>5. IsFiniteSet({x} \X DOMAIN cl[x])
    BY <2>3, <2>4, FS_Product
  <2> QED
    BY <2>1, <2>5
<1>3. IsFiniteSet(all)
  <2> DEFINE f == [x \in parts |-> Of(x)]
  <2>1. f \in [parts -> all] /\ \A y \in all : \E x \in parts : f[x] = y
    BY Zenon
  <2>2. f \in Surjection(parts, all)
    BY <2>1, Zenon DEF Surjection
  <2> HIDE DEF f, all, parts
  <2> QED
    BY <1>1, <2>2, FS_Surjection
<1>4. IsFiniteSet(UNION all)
  <2>1. \A T \in all : IsFiniteSet(T)
    BY <1>2
  <2> HIDE DEF all
  <2> QED
    BY <1>3, <2>1, FS_UNION
<1>5. Cardinality(UNION all) \in Nat
  BY <1>4, FS_CardinalityType
<1> QED
  BY <1>2, <1>5 DEF ListedSize, Sizes

LEMMA NameType ==
    ASSUME NEW size \in Nat, NEW i \in Nat PROVE NameAt(size, i) \in Names
BY DEF NameAt, Names

-----------------------------------------------------------------------------
(* Jobs. *)

LEMMA JobTypes ==
    ASSUME NEW j \in Jobs
    PROVE  /\ j.phase \in Phases /\ j.idx \in Nat /\ j.size \in Nat
           /\ j.left \in 0..Retries /\ j.trunc \in Nat
BY DEF Jobs

LEMMA NewJobType ==
    ASSUME NEW p \in Phases, NEW size \in Nat, NEW n \in Nat
    PROVE  /\ NewJob(p, size, n) \in Jobs /\ NewJob(p, size, n).phase = p
           /\ NoJob \in Jobs /\ NoJob.phase = "idle"
BY FileNodeAssumption DEF NewJob, NoJob, Jobs, Phases

(* A job goes on with its next request, or with the next loop. *)
LEMMA NextRequestType ==
    ASSUME NodesOK, NEW h \in Nodes, job' = NextRequest(h)
    PROVE  /\ job' \in [Nodes -> Jobs]
           /\ \A g \in Nodes : job'[g].phase = job[g].phase
<1> DEFINE j == [job[h] EXCEPT !.idx = job[h].idx + 1]
<1>1. job \in [Nodes -> Jobs] /\ job[h] \in Jobs
  BY DEF NodesOK
<1>2. j \in Jobs /\ j.phase = job[h].phase
  BY <1>1 DEF Jobs
<1>3. job' = [job EXCEPT ![h] = j]
  BY <1>1, Zenon DEF NextRequest
<1> HIDE DEF j
<1> QED
  BY <1>1, <1>2, <1>3

LEMMA LoopType ==
    ASSUME NodesOK, NEW h \in Nodes, NEW p \in Phases, NEW n \in Nat, job' = Loop(h, p, n)
    PROVE  /\ job' \in [Nodes -> Jobs] /\ job'[h].phase = p
           /\ \A g \in Nodes \ {h} : job'[g].phase = job[g].phase
<1> DEFINE j == [job[h] EXCEPT !.phase = p, !.idx = 0, !.size = n]
<1>1. job \in [Nodes -> Jobs] /\ job[h] \in Jobs
  BY DEF NodesOK
<1>2. j \in Jobs /\ j.phase = p
  BY <1>1 DEF Jobs
<1>3. job' = [job EXCEPT ![h] = j]
  BY <1>1 DEF Loop
<1> HIDE DEF j
<1> QED
  BY <1>1, <1>2, <1>3

LEMMA JobSetType ==
    ASSUME NodesOK, NEW h \in Nodes, NEW j \in Jobs, job' = [job EXCEPT ![h] = j]
    PROVE  /\ job' \in [Nodes -> Jobs] /\ job'[h] = j
           /\ \A g \in Nodes \ {h} : job'[g] = job[g]
BY DEF NodesOK

-----------------------------------------------------------------------------
(* Files in the cache directory. *)

LEMMA HoldersChange ==
    ASSUME NodesOK, IsFiniteSet(Holders), NEW h \in Nodes, NEW r \in Roles,
           role' = [role EXCEPT ![h] = r]
    PROVE  /\ IsFiniteSet(Holders') /\ Cardinality(Holders) \in Nat
           /\ Cardinality(Holders') =
                 IF r \in Open
                 THEN IF h \in Holders THEN Cardinality(Holders) ELSE Cardinality(Holders) + 1
                 ELSE IF h \in Holders THEN Cardinality(Holders) - 1 ELSE Cardinality(Holders)
<1>1. \A g \in Nodes : role'[g] = IF g = h THEN r ELSE role[g]
  BY DEF NodesOK
<1>2. CASE r \in Open
  <2>1. Holders' = Holders \cup {h}
    BY <1>1, <1>2 DEF Holders
  <2> QED
    BY <1>2, <2>1, FS_AddElement, FS_CardinalityType
<1>3. CASE r \notin Open
  <2>1. Holders' = Holders \ {h}
    BY <1>1, <1>3 DEF Holders
  <2> QED
    BY <1>3, <2>1, FS_RemoveElement, FS_CardinalityType
<1> QED
  BY <1>2, <1>3

LEMMA FilesSame ==
    ASSUME FilesOK, role' = role, tempFiles' = tempFiles,
           faults' = 0 /\ ~gaveUp' => faults = 0 /\ ~gaveUp
    PROVE  FilesOK'
BY DEF FilesOK, Holders

LEMMA FileMade ==
    ASSUME NodesOK, FilesOK, NEW h \in Nodes, role[h] = "none", NEW r \in Open,
           role' = [role EXCEPT ![h] = r], tempFiles < MaxTempFiles,
           tempFiles' = tempFiles + 1, faults' = faults, gaveUp' = gaveUp
    PROVE  FilesOK'
<1>1. r \in Roles /\ h \notin Holders
  BY DEF Open, Roles, Holders
<1>2. /\ IsFiniteSet(Holders') /\ Cardinality(Holders) \in Nat
      /\ Cardinality(Holders') = Cardinality(Holders) + 1
  BY <1>1, HoldersChange DEF FilesOK
<1> QED
  BY <1>2, FileNodeAssumption DEF FilesOK

LEMMA FileDeleted ==
    ASSUME NodesOK, FilesOK, NEW h \in Nodes, role[h] \in Open,
           role' = [role EXCEPT ![h] = "none"],
           tempFiles' = tempFiles - 1, faults' = faults, gaveUp' = gaveUp
    PROVE  FilesOK'
<1>1. "none" \in Roles /\ "none" \notin Open /\ h \in Holders
  BY DEF Open, Roles, Holders
<1>2. /\ IsFiniteSet(Holders') /\ Cardinality(Holders) \in Nat
      /\ Cardinality(Holders') = Cardinality(Holders) - 1
  BY <1>1, HoldersChange DEF FilesOK
<1>3. Cardinality(Holders') \in Nat
  BY <1>2, FS_CardinalityType
<1> QED
  BY <1>2, <1>3, FileNodeAssumption DEF FilesOK

(* A node that never had a file, or one whose file is left behind. *)
LEMMA FileUntouched ==
    ASSUME NodesOK, FilesOK, NEW h \in Nodes, NEW r \in Roles \ Open,
           role' = [role EXCEPT ![h] = r], tempFiles' = tempFiles,
           faults' = 0 /\ ~gaveUp' => faults = 0 /\ ~gaveUp /\ role[h] \notin Open
    PROVE  FilesOK'
<1>1. h \in Holders <=> role[h] \in Open
  BY DEF Holders
<1>2. /\ IsFiniteSet(Holders') /\ Cardinality(Holders) \in Nat
      /\ Cardinality(Holders') =
            IF h \in Holders THEN Cardinality(Holders) - 1 ELSE Cardinality(Holders)
  BY HoldersChange DEF FilesOK
<1> QED
  BY <1>1, <1>2, FileNodeAssumption DEF FilesOK

LEMMA FileRepeated ==
    ASSUME FilesOK, role' = role, tempFiles < MaxTempFiles,
           tempFiles' = tempFiles + 1, faults' # 0
    PROVE  FilesOK'
<1>1. Holders' = Holders
  BY DEF Holders
<1>2. Cardinality(Holders) \in Nat
  BY FS_CardinalityType DEF FilesOK
<1> QED
  BY <1>1, <1>2, FileNodeAssumption DEF FilesOK

-----------------------------------------------------------------------------
(* The steps. *)

LEMMA DropNodeFits ==
    ASSUME NodesOK, NEW h \in Nodes, DropNode(h) PROVE NodesOK'
<1>1. <<>> \in Seq(Bytes) /\ "none" \in Roles /\ NoJob \in Jobs /\ NoJob.phase = "idle"
  BY FileNodeAssumption DEF Roles, NoJob, Jobs, Phases
<1>2. /\ role' = [role EXCEPT ![h] = "none"]
      /\ cachedContent' = [cachedContent EXCEPT ![h] = <<>>]
      /\ dirty' = [dirty EXCEPT ![h] = FALSE]
      /\ oldFileSize' = [oldFileSize EXCEPT ![h] = 0]
      /\ flushed' = [flushed EXCEPT ![h] = FALSE]
      /\ job' = [job EXCEPT ![h] = NoJob]
  BY DEF DropNode
<1>3. /\ role' \in [Nodes -> Roles] /\ cachedContent' \in [Nodes -> Seq(Bytes)]
      /\ dirty' \in [Nodes -> BOOLEAN] /\ oldFileSize' \in [Nodes -> Nat]
      /\ flushed' \in [Nodes -> BOOLEAN]
  BY <1>1, <1>2 DEF NodesOK
<1>4. job' \in [Nodes -> Jobs] /\ job'[h] = NoJob
  BY <1>1, <1>2, JobSetType
<1>5. \A g \in Nodes : RoleFits(role'[g], job'[g].phase)
  BY <1>1, <1>2, <1>4 DEF NodesOK, RoleFits
<1> QED
  BY <1>3, <1>4, <1>5 DEF NodesOK

LEMMA MknodFits ==
    ASSUME NodeInv, Mknod PROVE NodeInv'
<1>1. Whole \in Names /\ <<>> \in Seq(Bytes)
  BY DEF Names
<1>2. CloudOK(cloud')
  BY <1>1, StoredOK DEF Mknod, NodeInv
<1> QED
  BY <1>2 DEF Mknod, nodeVars, NodeInv, NodesOK, RestOK, FilesOK, Holders

LEMMA LsFits ==
    ASSUME NodeInv, NEW r \in Listers, Ls(r) \/ PutListing(r) PROVE NodeInv'
<1>1. ListedSize(cloud) \in Sizes /\ listing[r] \in Sizes /\ NoEntry \in Sizes
  BY ListedType DEF NodeInv, RestOK, Sizes
<1>2. RestOK'
  BY <1>1 DEF NodeInv, RestOK, Ls, PutListing
<1> QED
  BY <1>2 DEF Ls, PutListing, nodeVars, NodeInv, NodesOK, FilesOK, Holders

LEMMA BeginFits ==
    ASSUME NodeInv, NEW h \in Nodes,
           BeginOpen(h) \/ (\E n \in TruncateSizes : BeginTruncate(h, n))
    PROVE  NodeInv'
<1>1. PICK r \in Open, size \in Nat, n \in Nat :
         /\ role[h] = "none" /\ role' = [role EXCEPT ![h] = r]
         /\ job' = [job EXCEPT ![h] = NewJob("open", size, n)]
         /\ oldFileSize' \in [Nodes -> Nat]
  <2>1. CASE BeginOpen(h)
    <3>1. statSize \in Nat /\ "handle" \in Open /\ 0 \in Nat
      BY <2>1 DEF BeginOpen, NodeInv, RestOK, Sizes, Open
    <3> QED
      BY <2>1, <3>1 DEF BeginOpen, NodeInv, NodesOK
  <2>2. ASSUME NEW n \in TruncateSizes, BeginTruncate(h, n)
        PROVE  \E r \in Open, size \in Nat, k \in Nat :
                  /\ role[h] = "none" /\ role' = [role EXCEPT ![h] = r]
                  /\ job' = [job EXCEPT ![h] = NewJob("open", size, k)]
                  /\ oldFileSize' \in [Nodes -> Nat]
    <3>1. n \in Nat /\ "truncate" \in Open /\ 0 \in Nat
      BY FileNodeAssumption DEF Open
    <3> QED
      BY <2>2, <3>1 DEF BeginTruncate, NodeInv, NodesOK
  <2> QED
    BY <2>1, <2>2
<1>2. /\ cloud' = cloud /\ cachedContent' = cachedContent /\ dirty' = dirty
      /\ flushed' = flushed /\ statSize' = statSize /\ listing' = listing
      /\ faults' = faults /\ gaveUp' = gaveUp /\ halfDone' = halfDone
      /\ tempFiles < MaxTempFiles /\ tempFiles' = tempFiles + 1
  BY DEF BeginOpen, BeginTruncate
<1> DEFINE j == NewJob("open", size, n)
<1>3. j \in Jobs /\ j.phase = "open"
  BY NewJobType DEF Phases
<1> HIDE DEF j
<1>4. job' \in [Nodes -> Jobs] /\ job'[h] = j /\ \A g \in Nodes \ {h} : job'[g] = job[g]
  BY <1>1, <1>3, JobSetType DEF NodeInv, j
<1>5. role' \in [Nodes -> Roles] /\ role'[h] = r /\ \A g \in Nodes \ {h} : role'[g] = role[g]
  BY <1>1 DEF NodeInv, NodesOK, Open, Roles
<1>6. \A g \in Nodes : RoleFits(role'[g], job'[g].phase)
  BY <1>3, <1>4, <1>5 DEF NodeInv, NodesOK, RoleFits, Open
<1>7. NodesOK'
  BY <1>1, <1>2, <1>4, <1>5, <1>6 DEF NodeInv, NodesOK
<1>8. FilesOK'
  BY <1>1, <1>2, FileMade DEF NodeInv
<1> QED
  BY <1>2, <1>7, <1>8 DEF NodeInv, RestOK

LEMMA DownloadFits ==
    ASSUME NodeInv, NEW h \in Nodes, Download(h) PROVE NodeInv'
<1> DEFINE s == cachedContent[h] \o cloud[Name(h)]
           n == job[h].trunc
<1>0. NodesOK /\ CloudOK(cloud) /\ job[h].phase = "open" /\ Name(h) \in DOMAIN cloud
  BY DEF NodeInv, Download
<1>1. s \in Seq(Bytes)
  BY <1>0, ConcatProperties DEF NodesOK, CloudOK
<1>2. n \in Nat
  BY <1>0, JobTypes DEF NodesOK
<1>3. Resized(s, n) \in Seq(Bytes)
  BY <1>1, <1>2, ResizedType
<1>4. /\ cloud' = cloud /\ role' = role /\ flushed' = flushed /\ statSize' = statSize
      /\ listing' = listing /\ tempFiles' = tempFiles /\ faults' = faults
      /\ gaveUp' = gaveUp /\ halfDone' = halfDone
  BY DEF Download
<1>5. NodesOK'
  <2>1. CASE /\ cachedContent' = [cachedContent EXCEPT ![h] = s]
             /\ job' = NextRequest(h) /\ UNCHANGED <<dirty, oldFileSize>>
    <3> HIDE DEF s
    <3> QED
      BY <1>0, <1>1, <1>4, <2>1, NextRequestType DEF NodesOK
  <2>2. CASE /\ role[h] = "handle"
             /\ cachedContent' = [cachedContent EXCEPT ![h] = s]
             /\ job' = [job EXCEPT ![h] = NoJob] /\ UNCHANGED <<dirty, oldFileSize>>
    <3> HIDE DEF s
    <3>1. NoJob \in Jobs /\ NoJob.phase = "idle"
      BY FileNodeAssumption DEF NoJob, Jobs, Phases
    <3>2. /\ job' \in [Nodes -> Jobs] /\ job'[h] = NoJob
          /\ \A g \in Nodes \ {h} : job'[g] = job[g]
      BY <1>0, <2>2, <3>1, JobSetType
    <3>3. \A g \in Nodes : RoleFits(role[g], job'[g].phase)
      BY <1>0, <2>2, <3>1, <3>2 DEF NodesOK, RoleFits
    <3> QED
      BY <1>0, <1>1, <1>4, <2>2, <3>2, <3>3 DEF NodesOK
  <2>3. CASE /\ role[h] = "truncate"
             /\ cachedContent' = [cachedContent EXCEPT ![h] = Resized(s, n)]
             /\ oldFileSize' = [oldFileSize EXCEPT ![h] = n]
             /\ dirty' = [dirty EXCEPT ![h] = TRUE]
             /\ job' = Loop(h, "remove", n)
    <3> DEFINE t == Resized(s, n)
    <3> HIDE DEF s, n
    <3>1. /\ job' \in [Nodes -> Jobs] /\ job'[h].phase = "remove"
          /\ \A g \in Nodes \ {h} : job'[g].phase = job[g].phase
      BY <1>0, <1>2, <2>3, LoopType DEF Phases
    <3>2. \A g \in Nodes : RoleFits(role[g], job'[g].phase)
      BY <1>0, <2>3, <3>1 DEF NodesOK, RoleFits
    <3>3. t \in Seq(Bytes) /\ cachedContent' = [cachedContent EXCEPT ![h] = t]
      BY <1>3, <2>3
    <3> HIDE DEF t
    <3> QED
      BY <1>0, <1>2, <1>4, <2>3, <3>1, <3>2, <3>3 DEF NodesOK
  <2> QED
    BY <2>1, <2>2, <2>3 DEF Download
<1>6. FilesOK'
  BY <1>4, FilesSame DEF NodeInv
<1> QED
  BY <1>4, <1>5, <1>6 DEF NodeInv, RestOK

LEMMA UpdatedType ==
    ASSUME RestOK, NEW size \in Nat PROVE Updated(size) \in Sizes
BY DEF RestOK, Updated, Sizes

LEMMA WriteFits ==
    ASSUME NodeInv, NEW h \in Nodes, NEW off \in 0..(MaxSize - 1), NEW b \in Bytes,
           Write(h, off, b)
    PROVE  NodeInv'
<1> DEFINE s == WriteAt(cachedContent[h], off, b)
<1>1. cachedContent[h] \in Seq(Bytes) /\ off \in Nat
  BY FileNodeAssumption DEF NodeInv, NodesOK
<1>2. s \in Seq(Bytes) /\ cachedContent' = [cachedContent EXCEPT ![h] = s]
  BY <1>1, WriteAtType DEF Write
<1> HIDE DEF s
<1>3. NodesOK'
  BY <1>2 DEF NodeInv, NodesOK, Write
<1>4. FilesOK'
  BY FilesSame DEF Write, NodeInv
<1> QED
  BY <1>3, <1>4 DEF Write, NodeInv, RestOK

LEMMA TruncateOpenFits ==
    ASSUME NodeInv, NEW h \in Nodes, NEW n \in TruncateSizes, TruncateOpen(h, n)
    PROVE  NodeInv'
<1> DEFINE s == Resized(cachedContent[h], n)
<1>1. cachedContent[h] \in Seq(Bytes) /\ n \in Nat
  BY FileNodeAssumption DEF NodeInv, NodesOK
<1>2. s \in Seq(Bytes) /\ cachedContent' = [cachedContent EXCEPT ![h] = s]
  BY <1>1, ResizedType DEF TruncateOpen
<1> HIDE DEF s
<1>3. NodesOK'
  BY <1>1, <1>2 DEF NodeInv, NodesOK, TruncateOpen
<1>4. FilesOK'
  BY FilesSame DEF TruncateOpen, NodeInv
<1>5. RestOK'
  BY <1>1, UpdatedType DEF TruncateOpen, NodeInv, RestOK
<1> QED
  BY <1>3, <1>4, <1>5 DEF TruncateOpen, NodeInv

LEMMA FlushCleanFits ==
    ASSUME NodeInv, NEW h \in Nodes, FlushClean(h) PROVE NodeInv'
<1>1. GetSize(cachedContent[h], oldFileSize[h]) \in Nat
  BY LenProperties DEF GetSize, NodeInv, NodesOK
<1>2. NodesOK'
  BY DEF NodeInv, NodesOK, FlushClean
<1>3. FilesOK'
  BY FilesSame DEF FlushClean, NodeInv
<1>4. RestOK'
  BY <1>1, UpdatedType DEF FlushClean, NodeInv, RestOK
<1> QED
  BY <1>2, <1>3, <1>4 DEF FlushClean, NodeInv

LEMMA BeginFlushFits ==
    ASSUME NodeInv, NEW h \in Nodes, BeginFlush(h) PROVE NodeInv'
<1> DEFINE j == NewJob("remove", oldFileSize[h], 0)
<1>0. NodesOK /\ role[h] = "handle"
  BY DEF NodeInv, BeginFlush
<1>1. j \in Jobs /\ j.phase = "remove" /\ job' = [job EXCEPT ![h] = j]
  BY <1>0, NewJobType DEF NodesOK, Phases, BeginFlush
<1> HIDE DEF j
<1>2. /\ job' \in [Nodes -> Jobs] /\ job'[h] = j
      /\ \A g \in Nodes \ {h} : job'[g] = job[g]
  BY <1>0, <1>1, JobSetType
<1>3. \A g \in Nodes : RoleFits(role[g], job'[g].phase)
  BY <1>0, <1>1, <1>2 DEF NodesOK, RoleFits
<1>4. NodesOK'
  BY <1>0, <1>2, <1>3 DEF NodesOK, BeginFlush
<1>5. FilesOK'
  BY FilesSame DEF BeginFlush, NodeInv
<1> QED
  BY <1>4, <1>5 DEF BeginFlush, NodeInv, RestOK

(* The loop of removes goes over into the loop of uploads, and that into   *)
(* the end of flush.                                                       *)
LEMMA LoopsFit ==
    ASSUME NodeInv, NEW h \in Nodes, NEW p \in {"upload", "cleanup"}, NEW n \in Nat,
           job[h].phase \in {"remove", "upload"},
           job' = NextRequest(h) \/ job' = Loop(h, p, n),
           UNCHANGED <<nodeVars, statSize, listing, tempFiles, faults, gaveUp, halfDone>>
    PROVE  NodesOK' /\ RestOK' /\ FilesOK'
<1>0. NodesOK
  BY DEF NodeInv
<1>1. job' \in [Nodes -> Jobs] /\ \A g \in Nodes : RoleFits(role[g], job'[g].phase)
  <2>1. CASE job' = NextRequest(h)
    BY <1>0, <2>1, NextRequestType DEF NodesOK
  <2>2. CASE job' = Loop(h, p, n)
    <3>1. /\ job' \in [Nodes -> Jobs] /\ job'[h].phase = p
          /\ \A g \in Nodes \ {h} : job'[g].phase = job[g].phase
      BY <1>0, <2>2, LoopType DEF Phases
    <3> QED
      BY <1>0, <3>1 DEF NodesOK, RoleFits
  <2> QED
    BY <2>1, <2>2
<1>2. NodesOK'
  BY <1>0, <1>1 DEF NodesOK, nodeVars
<1> QED
  BY <1>2, FilesSame DEF NodeInv, RestOK, nodeVars

LEMMA NameOfJob ==
    ASSUME NodesOK, NEW h \in Nodes
    PROVE  /\ Name(h) \in Names /\ job[h].size \in Nat /\ job[h].idx \in Nat
           /\ Len(cachedContent[h]) \in Nat
           /\ Piece(cachedContent[h], job[h].size, job[h].idx) \in Seq(Bytes)
<1>1. job[h] \in Jobs /\ cachedContent[h] \in Seq(Bytes)
  BY DEF NodesOK
<1>2. job[h].size \in Nat /\ job[h].idx \in Nat
  BY <1>1, JobTypes
<1> QED
  BY <1>1, <1>2, NameType, PieceType, LenProperties DEF Name

LEMMA RemoveFits ==
    ASSUME NodeInv, NEW h \in Nodes, Remove(h) PROVE NodeInv'
<1>1. CloudOK(cloud')
  BY RemovedOK DEF NodeInv, Remove
<1>2. Len(cachedContent[h]) \in Nat
  BY NameOfJob DEF NodeInv
<1> QED
  BY <1>1, <1>2, LoopsFit DEF NodeInv, Remove

LEMMA UploadFits ==
    ASSUME NodeInv, NEW h \in Nodes, Upload(h) PROVE NodeInv'
<1>1. CloudOK(cloud')
  BY NameOfJob, StoredOK DEF NodeInv, Upload
<1> QED
  BY <1>1, LoopsFit DEF NodeInv, Upload

LEMMA CleanupFits ==
    ASSUME NodeInv, NEW h \in Nodes, Cleanup(h) PROVE NodeInv'
<1>0. NodesOK /\ Len(cachedContent[h]) \in Nat /\ job[h].phase = "cleanup"
  BY NameOfJob DEF NodeInv, Cleanup
<1>1. RestOK'
  BY <1>0, UpdatedType DEF NodeInv, RestOK, Cleanup
<1>2. CASE /\ role[h] = "handle"
           /\ dirty' = [dirty EXCEPT ![h] = FALSE]
           /\ oldFileSize' = [oldFileSize EXCEPT ![h] = Len(cachedContent[h])]
           /\ job' = [job EXCEPT ![h] = NoJob]
           /\ UNCHANGED <<role, cachedContent, flushed, tempFiles>>
  <2>1. NoJob \in Jobs /\ NoJob.phase = "idle"
    BY FileNodeAssumption DEF NoJob, Jobs, Phases
  <2>2. /\ job' \in [Nodes -> Jobs] /\ job'[h] = NoJob
        /\ \A g \in Nodes \ {h} : job'[g] = job[g]
    BY <1>0, <1>2, <2>1, JobSetType
  <2>3. \A g \in Nodes : RoleFits(role[g], job'[g].phase)
    BY <1>0, <1>2, <2>1, <2>2 DEF NodesOK, RoleFits
  <2>4. NodesOK'
    BY <1>0, <1>2, <2>2, <2>3 DEF NodesOK
  <2>5. FilesOK'
    BY <1>2, FilesSame DEF NodeInv, Cleanup
  <2> QED
    BY <1>1, <2>4, <2>5 DEF NodeInv, Cleanup
<1>3. CASE role[h] = "truncate" /\ DropNode(h) /\ tempFiles' = tempFiles - 1
  <2>1. NodesOK'
    BY <1>0, <1>3, DropNodeFits
  <2>2. FilesOK'
    BY <1>0, <1>3, FileDeleted DEF NodeInv, Cleanup, DropNode, Open
  <2> QED
    BY <1>1, <2>1, <2>2 DEF NodeInv, Cleanup
<1> QED
  BY <1>2, <1>3 DEF Cleanup

LEMMA ReleaseFits ==
    ASSUME NodeInv, NEW h \in Nodes, Release(h) PROVE NodeInv'
<1>1. NodesOK'
  BY DropNodeFits DEF NodeInv, Release
<1>2. FilesOK'
  BY FileDeleted DEF NodeInv, Release, DropNode, Open
<1> QED
  BY <1>1, <1>2 DEF NodeInv, Release, RestOK

LEMMA BeginUnlinkFits ==
    ASSUME NodeInv, NEW h \in Nodes, BeginUnlink(h) PROVE NodeInv'
<1> DEFINE j == NewJob("unlink", statSize, 0)
<1>0. NodesOK /\ role[h] = "none" /\ statSize \in Nat
  BY DEF NodeInv, RestOK, BeginUnlink, Unused, Sizes
<1>1. j \in Jobs /\ j.phase = "unlink" /\ job' = [job EXCEPT ![h] = j]
  BY <1>0, NewJobType DEF Phases, BeginUnlink
<1> HIDE DEF j
<1>2. /\ job' \in [Nodes -> Jobs] /\ job'[h] = j
      /\ \A g \in Nodes \ {h} : job'[g] = job[g]
  BY <1>0, <1>1, JobSetType
<1>3. role' \in [Nodes -> Roles] /\ role'[h] = "unlink" /\ \A g \in Nodes \ {h} : role'[g] = role[g]
  BY <1>0 DEF NodesOK, BeginUnlink, Roles
<1>4. \A g \in Nodes : RoleFits(role'[g], job'[g].phase)
  BY <1>0, <1>1, <1>2, <1>3 DEF NodesOK, RoleFits
<1>5. NodesOK'
  BY <1>0, <1>2, <1>3, <1>4 DEF NodesOK, BeginUnlink
<1>6. FilesOK'
  BY <1>0, FileUntouched DEF BeginUnlink, NodeInv, Roles, Open
<1> QED
  BY <1>5, <1>6 DEF BeginUnlink, NodeInv, RestOK

LEMMA UnlinkFits ==
    ASSUME NodeInv, NEW h \in Nodes, Unlink(h) PROVE NodeInv'
<1>0. NodesOK /\ job[h].phase = "unlink"
  BY DEF NodeInv, Unlink
<1>1. CloudOK(cloud')
  BY RemovedOK DEF NodeInv, Unlink
<1>2. RestOK'
  BY DEF NodeInv, RestOK, Unlink, Sizes
<1>3. CASE job' = NextRequest(h) /\ UNCHANGED <<nodeVars, statSize>>
  <2>1. NodesOK'
    BY <1>0, <1>3, NextRequestType DEF NodesOK, nodeVars
  <2>2. FilesOK'
    BY <1>3, FilesSame DEF NodeInv, Unlink, nodeVars
  <2> QED
    BY <1>1, <1>2, <2>1, <2>2 DEF NodeInv
<1>4. CASE DropNode(h)
  <2>1. NodesOK'
    BY <1>0, <1>4, DropNodeFits
  <2>2. role[h] \notin Open
    BY <1>0 DEF NodesOK, RoleFits, Open
  <2>3. FilesOK'
    BY <1>0, <1>4, <2>2, FileUntouched DEF NodeInv, Unlink, DropNode, Roles, Open
  <2> QED
    BY <1>1, <1>2, <2>1, <2>3 DEF NodeInv
<1> QED
  BY <1>3, <1>4 DEF Unlink

(* doWithRetry gives up: a node that goes leaves its file behind. *)
LEMMA GiveUpFits ==
    ASSUME NodeInv, NEW h \in Nodes, job[h].phase # "idle", GiveUp(h), tempFiles' = tempFiles
    PROVE  NodesOK' /\ FilesOK' /\ gaveUp' = TRUE /\ halfDone' \in BOOLEAN
<1>0. NodesOK /\ gaveUp' = TRUE /\ halfDone' \in BOOLEAN
  BY DEF NodeInv, GiveUp
<1>1. CASE /\ role[h] = "handle" /\ job' = [job EXCEPT ![h] = NoJob] /\ UNCHANGED nodeVars
  <2>1. NoJob \in Jobs /\ NoJob.phase = "idle"
    BY FileNodeAssumption DEF NoJob, Jobs, Phases
  <2>2. /\ job' \in [Nodes -> Jobs] /\ job'[h] = NoJob
        /\ \A g \in Nodes \ {h} : job'[g] = job[g]
    BY <1>0, <1>1, <2>1, JobSetType
  <2>3. \A g \in Nodes : RoleFits(role[g], job'[g].phase)
    BY <1>0, <1>1, <2>1, <2>2 DEF NodesOK, RoleFits
  <2>4. NodesOK'
    BY <1>0, <1>1, <2>2, <2>3 DEF NodesOK, nodeVars
  <2>5. FilesOK'
    BY <1>0, <1>1, FilesSame DEF NodeInv, nodeVars
  <2> QED
    BY <1>0, <2>4, <2>5
<1>2. CASE DropNode(h)
  <2>1. NodesOK'
    BY <1>0, <1>2, DropNodeFits
  <2>2. FilesOK'
    BY <1>0, <1>2, FileUntouched DEF NodeInv, DropNode, Roles, Open
  <2> QED
    BY <1>0, <2>1, <2>2
<1> QED
  BY <1>1, <1>2 DEF GiveUp

(* doWithRetry repeats the call. *)
LEMMA RetryFits ==
    ASSUME NodeInv, NEW h \in Nodes, job[h].phase # "idle", Retry(h),
           faults' # 0, gaveUp' = gaveUp
    PROVE  NodesOK' /\ FilesOK'
<1> DEFINE Again(p, size) == [job[h] EXCEPT !.left = job[h].left - 1, !.idx = 0,
                                            !.phase = p, !.size = size]
<1>0. NodesOK /\ FilesOK /\ job[h] \in Jobs
  BY DEF NodeInv, NodesOK
<1>1. job[h].left - 1 \in 0..Retries
  <2>1. job[h].left \in 0..Retries /\ job[h].left > 1 /\ Retries \in Nat
    BY <1>0, JobTypes, FileNodeAssumption DEF Retry
  <2> QED
    BY <2>1
<1>2. ASSUME NEW p \in Phases, NEW size \in Nat
      PROVE  Again(p, size) \in Jobs /\ Again(p, size).phase = p
  BY <1>0, <1>1 DEF Jobs
<1> DEFINE again == [job[h] EXCEPT !.left = job[h].left - 1, !.idx = 0]
           OpenAgain ==
              /\ role[h] = "handle" /\ job[h].phase = "open" /\ statSize # NoEntry
              /\ cachedContent' = [cachedContent EXCEPT ![h] = <<>>]
              /\ oldFileSize' = [oldFileSize EXCEPT ![h] = statSize]
              /\ job' = [job EXCEPT ![h] = [again EXCEPT !.size = statSize]]
              /\ role' = role /\ dirty' = dirty /\ flushed' = flushed
           TruncateAgain ==
              /\ role[h] = "truncate"
              /\ cachedContent' = [cachedContent EXCEPT ![h] = <<>>]
              /\ oldFileSize' = [oldFileSize EXCEPT ![h] = 0]
              /\ dirty' = [dirty EXCEPT ![h] = FALSE]
              /\ job' = [job EXCEPT ![h] = [again EXCEPT !.phase = "open", !.size = 0]]
              /\ role' = role /\ flushed' = flushed
           FlushAgain ==
              /\ role[h] = "handle"
              /\ job' = [job EXCEPT ![h] =
                            [again EXCEPT !.phase = "remove", !.size = oldFileSize[h]]]
              /\ UNCHANGED nodeVars
           UnlinkAgain ==
              /\ role[h] = "unlink" /\ job' = [job EXCEPT ![h] = again]
              /\ UNCHANGED nodeVars
<1>3. (statSize # NoEntry => statSize \in Nat) /\ oldFileSize[h] \in Nat
  BY <1>0 DEF NodeInv, RestOK, Sizes, NodesOK
<1>4. OpenAgain \/ TruncateAgain \/ FlushAgain \/ UnlinkAgain
  BY Zenon DEF Retry
<1> HIDE DEF OpenAgain, TruncateAgain, FlushAgain, UnlinkAgain
<1>5. PICK p \in Phases, size \in Nat : /\ job' = [job EXCEPT ![h] = Again(p, size)]
                                       /\ RoleFits(role[h], p)
  <2>1. job[h].phase \in Phases /\ job[h].size \in Nat /\ RoleFits(role[h], job[h].phase)
    BY <1>0, JobTypes DEF NodesOK
  <2>2. /\ "open" \in Phases /\ "remove" \in Phases /\ "unlink" \in Phases /\ 0 \in Nat
        /\ RoleFits("handle", "open") /\ RoleFits("truncate", "open")
        /\ RoleFits("handle", "remove")
    BY DEF Phases, RoleFits
  <2>3. \A s : [[job[h] EXCEPT !.left = job[h].left - 1, !.idx = 0] EXCEPT !.size = s]
               = Again(job[h].phase, s)
    BY <1>0 DEF Jobs
  <2>4. \A q, s : [[job[h] EXCEPT !.left = job[h].left - 1, !.idx = 0]
                       EXCEPT !.phase = q, !.size = s] = Again(q, s)
    BY <1>0 DEF Jobs
  <2>5. [job[h] EXCEPT !.left = job[h].left - 1, !.idx = 0]
           = Again(job[h].phase, job[h].size)
    BY <1>0 DEF Jobs
  <2> HIDE DEF Again
  <2>6. CASE OpenAgain
    BY <2>1, <2>2, <2>3, <2>6, <1>3 DEF OpenAgain
  <2>7. CASE TruncateAgain
    BY <2>2, <2>4, <2>7 DEF TruncateAgain
  <2>8. CASE FlushAgain
    BY <2>2, <2>4, <2>8, <1>3 DEF FlushAgain
  <2>9. CASE UnlinkAgain
    BY <2>1, <2>5, <2>9 DEF UnlinkAgain
  <2> QED
    BY <1>4, <2>6, <2>7, <2>8, <2>9
<1>6. /\ job' \in [Nodes -> Jobs]
      /\ \A g \in Nodes : RoleFits(role[g], job'[g].phase)
  <2> DEFINE j == Again(p, size)
  <2>1. j \in Jobs /\ j.phase = p
    BY <1>2
  <2>2. job' = [job EXCEPT ![h] = j]
    BY <1>5
  <2> HIDE DEF j, Again
  <2>3. /\ job' \in [Nodes -> Jobs] /\ job'[h] = j
        /\ \A g \in Nodes \ {h} : job'[g] = job[g]
    BY <1>0, <2>1, <2>2, JobSetType
  <2> QED
    BY <1>0, <1>5, <2>1, <2>3 DEF NodesOK
<1>7. /\ role' = role /\ flushed' = flushed
      /\ cachedContent' \in [Nodes -> Seq(Bytes)] /\ dirty' \in [Nodes -> BOOLEAN]
      /\ oldFileSize' \in [Nodes -> Nat]
  <2>1. <<>> \in Seq(Bytes)
    OBVIOUS
  <2>2. CASE OpenAgain
    BY <1>0, <1>3, <2>1, <2>2 DEF OpenAgain, NodesOK
  <2>3. CASE TruncateAgain
    BY <1>0, <2>1, <2>3 DEF TruncateAgain, NodesOK
  <2>4. CASE FlushAgain \/ UnlinkAgain
    BY <1>0, <2>4 DEF FlushAgain, UnlinkAgain, NodesOK, nodeVars
  <2> QED
    BY <1>4, <2>2, <2>3, <2>4
<1>8. NodesOK'
  BY <1>0, <1>6, <1>7 DEF NodesOK
<1>9. \/ tempFiles' = tempFiles
      \/ tempFiles < MaxTempFiles /\ tempFiles' = tempFiles + 1
  BY DEF Retry
<1>10. FilesOK'
  BY <1>0, <1>7, <1>9, FilesSame, FileRepeated
<1> QED
  BY <1>8, <1>10

LEMMA RefusedFits ==
    ASSUME NodeInv, NEW h \in Nodes, Refused(h) PROVE NodeInv'
<1>1. NodesOK' /\ FilesOK' /\ gaveUp' = TRUE /\ halfDone' \in BOOLEAN
  BY GiveUpFits DEF Refused
<1> QED
  BY <1>1 DEF NodeInv, RestOK, Refused

LEMMA FaultFits ==
    ASSUME NodeInv, NEW h \in Nodes, Fault(h) PROVE NodeInv'
<1>1. CloudOK(cloud')
  <2>1. CloudOK(Effect(h))
    BY NameOfJob, StoredOK, RemovedOK DEF Effect, NodeInv
  <2> QED
    BY <2>1 DEF Fault, NodeInv
<1>2. faults' \in 0..MaxFaults /\ faults' # 0
  BY FileNodeAssumption DEF Fault, NodeInv, RestOK
<1>3. NodesOK' /\ FilesOK' /\ gaveUp' \in BOOLEAN /\ halfDone' \in BOOLEAN
  <2>1. CASE Retry(h) /\ gaveUp' = gaveUp /\ halfDone' = halfDone
    BY <1>2, <2>1, RetryFits DEF Fault, NodeInv, RestOK
  <2>2. CASE GiveUp(h) /\ tempFiles' = tempFiles
    BY <2>2, GiveUpFits DEF Fault
  <2> QED
    BY <2>1, <2>2 DEF Fault
<1> QED
  BY <1>1, <1>2, <1>3 DEF NodeInv, RestOK, Fault

-----------------------------------------------------------------------------
LEMMA InitFits == Init => NodeInv
<1> SUFFICES ASSUME Init PROVE NodeInv
  OBVIOUS
<1>1. NoJob \in Jobs /\ NoJob.phase = "idle" /\ <<>> \in Seq(Bytes)
  BY FileNodeAssumption DEF NoJob, Jobs, Phases
<1>2. CloudOK(cloud)
  BY FS_EmptySet DEF Init, CloudOK
<1>3. NodesOK
  BY <1>1 DEF Init, NodesOK, Roles, RoleFits
<1>4. Holders = {}
  BY DEF Init, Holders, Open
<1>5. FilesOK
  BY <1>4, FS_EmptySet, FileNodeAssumption DEF FilesOK, Init
<1> QED
  <2>1. NoEntry \in Sizes /\ 0 \in 0..MaxFaults
    BY FileNodeAssumption DEF Sizes
  <2>2. RestOK
    BY <2>1 DEF Init, RestOK
  <2> QED
    BY <1>2, <1>3, <1>5, <2>2 DEF NodeInv

LEMMA StepFits ==
    ASSUME NodeInv, [Next]_vars PROVE NodeInv'
<1>1. CASE UNCHANGED vars
  BY <1>1 DEF vars, NodeInv, NodesOK, RestOK, FilesOK, Holders
<1>2. CASE Mknod \/ \E r \in Listers : Ls(r) \/ PutListing(r)
  BY <1>2, MknodFits, LsFits
<1>3. ASSUME NEW h \in Nodes,
             \/ BeginOpen(h) \/ FlushClean(h) \/ BeginFlush(h) \/ Release(h)
             \/ BeginUnlink(h) \/ Request(h) \/ Fault(h)
             \/ \E n \in TruncateSizes : BeginTruncate(h, n) \/ TruncateOpen(h, n)
             \/ \E off \in 0..(MaxSize - 1), b \in Bytes : Write(h, off, b)
      PROVE  NodeInv'
  BY <1>3, BeginFits, FlushCleanFits, BeginFlushFits, ReleaseFits, BeginUnlinkFits,
     DownloadFits, RemoveFits, UploadFits, CleanupFits, UnlinkFits, RefusedFits,
     FaultFits, TruncateOpenFits, WriteFits, Zenon DEF Request
<1> QED
  BY <1>1, <1>2, <1>3, Zenon DEF Next

THEOREM NodeInvariant == Spec => []NodeInv
BY InitFits, StepFits, PTL DEF Spec, Safety

(***************************************************************************)
(* Types: whatever overlaps, fails or is given up, the cloud and the nodes *)
(* hold bytes, a listing gives a size, the attempts left never fall below  *)
(* zero, and no node deletes a file of the cache directory that is not     *)
(* there (openCallback, truncateCallback, releaseCallback).                *)
(***************************************************************************)
THEOREM NodesTypeCorrect == Spec => []TypeOK
<1>1. NodeInv => TypeOK
  BY DEF NodeInv, CloudOK, NodesOK, RestOK, FilesOK, TypeOK, Roles, Sizes
<1> QED
  BY <1>1, NodeInvariant, PTL

(***************************************************************************)
(* As long as nothing failed, the cache directory has one file for each    *)
(* node with an open storage and no other, for any number of handles and   *)
(* truncates by path at a time.                                            *)
(***************************************************************************)
THEOREM CacheDirStaysTidy == Spec => []CacheDirTidy
<1>1. NodeInv => CacheDirTidy
  BY DEF NodeInv, FilesOK, Holders, Open, CacheDirTidy
<1> QED
  BY <1>1, NodeInvariant, PTL
-----------------------------------------------------------------------------
(***************************************************************************)
(* What the cloud stores.  Two handles on one file overwrite each other,   *)
(* and a write next to a flush may be lost, so from here on there is one   *)
(* node and no write during a flush.                                       *)
(*                                                                         *)
(* First files of any number of parts, none of them truncated, and without *)
(* listings during a transfer.  Everywhere in its life a node is in one of *)
(* the following situations, each of which says which names of the old and *)
(* of the new layout are left and what they store.                         *)
(***************************************************************************)
Alone(h) == Nodes = {h}

Quiet == \A r \in Listers : listing[r] = NoEntry

(* All that the cache knows, or is about to know, is this size. *)
Known(size) ==
    /\ statSize \in {NoEntry, size}
    /\ \A r \in Listers : listing[r] \in {NoEntry, size}

AtRest(h) ==
    /\ role[h] = "none" /\ Idle(h) /\ cachedContent[h] = <<>> /\ dirty[h] = FALSE
    /\ DOMAIN cloud = {} \/ \E s \in Seq(Bytes) : cloud = StoredAs(s)
    /\ Known(ListedSize(cloud))

Opening(h) ==
    /\ role[h] = "handle" /\ job[h].phase = "open" /\ dirty[h] = FALSE
    /\ Quiet /\ Known(oldFileSize[h])
    /\ job[h].size = oldFileSize[h] /\ job[h].idx < Count(oldFileSize[h])
    /\ \E s \in Seq(Bytes) :
          /\ cloud = StoredAs(s) /\ Len(s) = oldFileSize[h]
          /\ cachedContent[h] = Taken(s, job[h].idx)

Clean(h) ==
    /\ role[h] = "handle" /\ Idle(h) /\ dirty[h] = FALSE
    /\ cloud = StoredAs(cachedContent[h])
    /\ oldFileSize[h] = Len(cachedContent[h]) /\ Known(oldFileSize[h])

Dirty(h) ==
    role[h] = "handle" /\ dirty[h] = TRUE /\ oldFileSize[h] <= Len(cachedContent[h])

Changed(h) ==
    /\ Dirty(h) /\ Idle(h)
    /\ DOMAIN cloud \subseteq
           NamesOf(oldFileSize[h]) \cup NamesOf(Len(cachedContent[h]))

Removing(h) ==
    /\ Dirty(h) /\ Quiet /\ job[h].phase = "remove"
    /\ job[h].size = oldFileSize[h] /\ job[h].idx < Count(oldFileSize[h])
    /\ DOMAIN cloud \subseteq
           NamesFrom(oldFileSize[h], job[h].idx) \cup NamesOf(Len(cachedContent[h]))

Uploading(h) ==
    /\ Dirty(h) /\ Quiet /\ job[h].phase = "upload"
    /\ job[h].size = Len(cachedContent[h]) /\ job[h].idx < Count(job[h].size)
    /\ DOMAIN cloud \subseteq NamesOf(job[h].size)
    /\ \A k \in 0..(job[h].idx - 1) :
          /\ NameAt(job[h].size, k) \in DOMAIN cloud
          /\ cloud[NameAt(job[h].size, k)] = Slice(cachedContent[h], k)

Uploaded(h) ==
    /\ Dirty(h) /\ Quiet /\ job[h].phase = "cleanup"
    /\ cloud = StoredAs(cachedContent[h])

Unlinked(h) ==
    /\ role[h] = "unlink" /\ job[h].phase = "unlink" /\ cachedContent[h] = <<>>
    /\ dirty[h] = FALSE /\ Quiet /\ statSize # NoEntry
    /\ job[h].idx < Count(job[h].size)
    /\ DOMAIN cloud \subseteq NamesFrom(job[h].size, job[h].idx)

Laid(h) ==
    \/ AtRest(h) \/ Opening(h) \/ Clean(h) \/ Changed(h)
    \/ Removing(h) \/ Uploading(h) \/ Uploaded(h) \/ Unlinked(h)

LayoutInv == ~halfDone => \A h \in Nodes : Laid(h)

(* The instances this is about. *)
SplitFiles(h) == Alone(h) /\ Concurrent = {} /\ TruncateSizes = {}

LEMMA NodeFacts ==
    ASSUME NodeInv, NEW h \in Nodes
    PROVE  /\ cachedContent[h] \in Seq(Bytes) /\ Len(cachedContent[h]) \in Nat
           /\ dirty[h] \in BOOLEAN /\ oldFileSize[h] \in Nat
           /\ job[h] \in Jobs /\ job[h].phase \in Phases
           /\ job[h].idx \in Nat /\ job[h].size \in Nat
           /\ RoleFits(role[h], job[h].phase)
<1>1. cachedContent[h] \in Seq(Bytes) /\ job[h] \in Jobs
  BY DEF NodeInv, NodesOK
<1>2. /\ dirty[h] \in BOOLEAN /\ oldFileSize[h] \in Nat
      /\ RoleFits(role[h], job[h].phase)
  BY DEF NodeInv, NodesOK
<1> QED
  BY <1>1, <1>2, LenProperties, JobTypes

LEMMA PieceIsSlice ==
    ASSUME NEW s \in Seq(Bytes), NEW i \in Nat
    PROVE  Piece(s, Len(s), i) = Slice(s, i)
<1>1. (i + 1) * MaxFileSize = i * MaxFileSize + MaxFileSize
  BY CompoundAssumption
<1> QED
  BY <1>1 DEF Piece, Slice, SliceEnd

(* A file that was stored is listed with its size, and no other is listed. *)
LEMMA ListedFile ==
    ASSUME DOMAIN cloud = {} \/ \E s \in Seq(Bytes) : cloud = StoredAs(s)
    PROVE  /\ ListedSize(cloud) = NoEntry <=> DOMAIN cloud = {}
           /\ \A s \in Seq(Bytes) : cloud = StoredAs(s) =>
                  ListedSize(cloud) = Len(s) /\ Len(s) \in Nat
<1>1. ASSUME NEW s \in Seq(Bytes), cloud = StoredAs(s)
      PROVE  ListedSize(cloud) = Len(s) /\ Len(s) \in Nat /\ DOMAIN cloud # {}
  <2>1. Len(s) \in Nat /\ ListedSize(cloud) = Len(s)
    BY <1>1, ListedIsStored, LenProperties
  <2>2. 0 < Count(Len(s)) /\ 0 \in Nat
    BY <2>1, CountType
  <2>3. DOMAIN cloud = NamesOf(Len(s)) /\ NameAt(Len(s), 0) \in NamesOf(Len(s))
    BY <1>1, <2>1, <2>2, StoredNames, NamesLeft DEF NamesOf
  <2> QED
    BY <2>1, <2>3
<1>2. DOMAIN cloud = {} => ListedSize(cloud) = NoEntry
  BY ListedEmpty
<1> QED
  BY <1>1, <1>2, CompoundAssumption

(* Which situation it is can be read off the role, the phase and dirty. *)
LEMMA WhichSituation ==
    ASSUME NEW h \in Nodes, Laid(h)
    PROVE  /\ role[h] = "none" => AtRest(h)
           /\ job[h].phase = "open" => Opening(h)
           /\ role[h] = "handle" /\ Idle(h) /\ ~dirty[h] => Clean(h)
           /\ role[h] = "handle" /\ Idle(h) /\ dirty[h] => Changed(h)
           /\ job[h].phase = "remove" => Removing(h)
           /\ job[h].phase = "upload" => Uploading(h)
           /\ job[h].phase = "cleanup" => Uploaded(h)
           /\ job[h].phase = "unlink" => Unlinked(h)
           /\ Idle(h) => AtRest(h) \/ Clean(h) \/ Changed(h)
           /\ ~Idle(h) => Quiet
           /\ role[h] # "truncate"
BY DEF Laid, AtRest, Opening, Clean, Dirty, Changed, Removing, Uploading, Uploaded,
       Unlinked, Idle

LEMMA MknodLays ==
    ASSUME NodeInv, NEW h \in Nodes, SplitFiles(h), Laid(h), Mknod
    PROVE  AtRest(h)'
<1>1. AtRest(h) /\ Quiet
  BY WhichSituation DEF Mknod, Unused, NoListing, SplitFiles, Quiet
<1>2. DOMAIN cloud = {}
  BY <1>1, ListedFile DEF AtRest, Mknod
<1>3. <<>> \in Seq(Bytes) /\ Len(<<>>) = 0
  BY EmptySeq
<1>4. cloud' = StoredAs(<<>>)
  <2>1. cloud' = [x \in {Whole} |-> <<>>]
    BY <1>2 DEF Mknod, Stored
  <2> QED
    BY <1>3, <2>1, StoredWhole, CompoundAssumption DEF IsCompound
<1>5. Known(ListedSize(cloud))'
  BY <1>1 DEF Quiet, Known, Mknod
<1>6. role' = role /\ cachedContent' = cachedContent /\ dirty' = dirty /\ job' = job
  BY DEF Mknod, nodeVars
<1> QED
  BY <1>1, <1>3, <1>4, <1>5, <1>6 DEF AtRest, Idle

LEMMA ListingLays ==
    ASSUME NodeInv, NEW h \in Nodes, SplitFiles(h), Laid(h),
           NEW r \in Listers, Ls(r) \/ PutListing(r)
    PROVE  Laid(h)'
<1>1. /\ cloud' = cloud /\ role' = role /\ cachedContent' = cachedContent
      /\ dirty' = dirty /\ job' = job /\ oldFileSize' = oldFileSize
  BY DEF Ls, PutListing, nodeVars
<1>2. Idle(h)
  <2>1. CASE Ls(r)
    BY <2>1 DEF Ls, NoTransfer, SplitFiles
  <2>2. CASE PutListing(r)
    BY <2>2, WhichSituation DEF PutListing, Quiet
  <2> QED
    BY <2>1, <2>2
<1>3. ASSUME NEW size, Known(size), size = ListedSize(cloud) PROVE Known(size)'
  <2>1. listing \in [Listers -> Sizes]
    BY DEF NodeInv, RestOK
  <2>2. CASE Ls(r)
    BY <1>3, <2>1, <2>2 DEF Ls, Known
  <2>3. CASE PutListing(r)
    BY <1>3, <2>1, <2>3 DEF PutListing, Known
  <2> QED
    BY <2>2, <2>3
<1>4. CASE AtRest(h)
  <2>1. Known(ListedSize(cloud))'
    BY <1>1, <1>3, <1>4 DEF AtRest, Known
  <2>2. AtRest(h)'
    BY <1>1, <1>4, <2>1 DEF AtRest, Idle
  <2> QED
    BY <2>2 DEF Laid
<1>5. CASE Clean(h)
  <2>1. ListedSize(cloud) = oldFileSize[h]
    BY <1>5, NodeFacts, ListedIsStored DEF Clean
  <2>2. Known(oldFileSize[h])'
    BY <1>1, <1>3, <1>5, <2>1 DEF Clean, Known
  <2>3. Clean(h)'
    BY <1>1, <1>5, <2>2 DEF Clean, Idle
  <2> QED
    BY <2>3 DEF Laid
<1>6. CASE Changed(h)
  <2>1. Changed(h)'
    BY <1>1, <1>6 DEF Changed, Dirty, Idle
  <2> QED
    BY <2>1 DEF Laid
<1> QED
  BY <1>2, <1>4, <1>5, <1>6, WhichSituation

LEMMA BeginOpenLays ==
    ASSUME NodeInv, NEW h \in Nodes, SplitFiles(h), Laid(h), BeginOpen(h)
    PROVE  Opening(h)'
<1>1. AtRest(h) /\ Quiet
  BY WhichSituation DEF BeginOpen, NoListing, SplitFiles, Quiet
<1>2. statSize = ListedSize(cloud) /\ statSize # NoEntry
  BY <1>1 DEF AtRest, Known, BeginOpen
<1>3. PICK s \in Seq(Bytes) : cloud = StoredAs(s) /\ Len(s) = statSize /\ Len(s) \in Nat
  BY <1>1, <1>2, ListedFile DEF AtRest
<1>4. /\ cloud' = cloud /\ role'[h] = "handle" /\ dirty'[h] = FALSE
      /\ oldFileSize'[h] = statSize /\ cachedContent'[h] = <<>>
      /\ job'[h] = NewJob("open", statSize, 0)
      /\ statSize' = statSize /\ listing' = listing
  BY <1>1 DEF BeginOpen, NodeInv, NodesOK, AtRest
<1>5. 0 < Count(Len(s)) /\ 0 \in 0..(Count(Len(s)) - 1)
  BY <1>3, CountType
<1>6. Taken(s, 0) = <<>>
  BY <1>5, SlicesJoin
<1>7. job'[h].phase = "open" /\ job'[h].idx = 0 /\ job'[h].size = statSize
  BY <1>4 DEF NewJob
<1>8. Quiet' /\ Known(oldFileSize[h])'
  BY <1>1, <1>4 DEF Quiet, Known
<1> QED
  BY <1>3, <1>4, <1>5, <1>6, <1>7, <1>8 DEF Opening

LEMMA DownloadLays ==
    ASSUME NodeInv, NEW h \in Nodes, Laid(h), Download(h)
    PROVE  Laid(h)'
<1> DEFINE i == job[h].idx
           n == oldFileSize[h]
<1>1. Opening(h) /\ n \in Nat /\ i \in Nat /\ job \in [Nodes -> Jobs]
  BY WhichSituation, NodeFacts DEF Download, NodeInv, NodesOK
<1>2. PICK s \in Seq(Bytes) : cloud = StoredAs(s) /\ Len(s) = n /\ cachedContent[h] = Taken(s, i)
  BY <1>1 DEF Opening
<1>3. /\ i \in 0..(Count(n) - 1) /\ i < Count(n) /\ job[h].size = n
      /\ ~LastRequest(h) => i + 1 < Count(n)
  BY <1>1, InLoop DEF Opening, LastRequest
<1>4. /\ Taken(s, i) \o Slice(s, i) = Taken(s, i + 1)
      /\ i + 1 = Count(n) => Taken(s, i + 1) = s
  <2>1. i \in 0..(Count(Len(s)) - 1) /\ Len(s) = n
    BY <1>2, <1>3
  <2> HIDE DEF i, n
  <2> QED
    BY <2>1, SlicesJoin
<1>5. cloud[Name(h)] = Slice(s, i)
  BY <1>2, <1>3, StoredSlice DEF Name
<1>6. /\ cloud' = cloud /\ role' = role /\ statSize' = statSize /\ listing' = listing
      /\ role[h] = "handle" /\ dirty' = dirty /\ oldFileSize' = oldFileSize
      /\ cachedContent'[h] = Taken(s, i + 1)
      /\ \/ ~LastRequest(h) /\ job' = NextRequest(h)
         \/ LastRequest(h) /\ job' = [job EXCEPT ![h] = NoJob]
  <2>1. /\ cloud' = cloud /\ role' = role /\ statSize' = statSize /\ listing' = listing
        /\ role[h] = "handle" /\ cachedContent \in [Nodes -> Seq(Bytes)]
    BY <1>1 DEF Download, Opening, NodeInv, NodesOK
  <2>2. cachedContent[h] \o cloud[Name(h)] = Taken(s, i + 1)
    BY <1>2, <1>4, <1>5
  <2> QED
    BY <2>1, <2>2 DEF Download
<1>7. Quiet' /\ Known(oldFileSize[h])'
  BY <1>1, <1>6 DEF Opening, Quiet, Known
<1>8. CASE ~LastRequest(h) /\ job' = NextRequest(h)
  <2>1. job'[h].phase = "open" /\ job'[h].idx = i + 1 /\ job'[h].size = n
    BY <1>1, <1>3, <1>8 DEF NextRequest, Opening, Jobs
  <2>2. i + 1 < Count(n)
    BY <1>3, <1>8
  <2>3. Opening(h)'
    BY <1>1, <1>2, <1>6, <1>7, <2>1, <2>2 DEF Opening
  <2> QED
    BY <2>3 DEF Laid
<1>9. CASE LastRequest(h) /\ job' = [job EXCEPT ![h] = NoJob]
  <2>1. job'[h].phase = "idle"
    BY <1>1, <1>9 DEF NoJob
  <2>2. cachedContent'[h] = s
    BY <1>3, <1>4, <1>6, <1>9 DEF LastRequest
  <2>3. Clean(h)'
    BY <1>1, <1>2, <1>6, <1>7, <2>1, <2>2 DEF Clean, Idle, Opening
  <2> QED
    BY <2>3 DEF Laid
<1> QED
  BY <1>6, <1>8, <1>9

LEMMA WriteLays ==
    ASSUME NodeInv, NEW h \in Nodes, SplitFiles(h), Laid(h),
           NEW off \in 0..(MaxSize - 1), NEW b \in Bytes, Write(h, off, b)
    PROVE  Changed(h)'
<1> DEFINE s == cachedContent[h]
           t == WriteAt(s, off, b)
           n == oldFileSize[h]
<1>1. s \in Seq(Bytes) /\ Len(s) \in Nat /\ n \in Nat /\ off \in Nat
  BY NodeFacts, FileNodeAssumption
<1>2. role[h] = "handle" /\ Idle(h) /\ (Clean(h) \/ Changed(h))
  BY WhichSituation, NodeFacts DEF Write, Writable, SplitFiles
<1>3. n <= Len(s) /\ DOMAIN cloud \subseteq NamesOf(n) \cup NamesOf(Len(s))
  <2>1. CASE Clean(h)
    BY <1>1, <2>1, StoredNames DEF Clean
  <2>2. CASE Changed(h)
    BY <2>2 DEF Changed, Dirty
  <2> QED
    BY <1>2, <2>1, <2>2
<1>4. Len(t) \in Nat /\ Len(s) <= Len(t)
  <2>1. Len(t) = IF off < Len(s) THEN Len(s) ELSE off + 1
    BY <1>1, WriteAtType
  <2> HIDE DEF s, t
  <2> QED
    BY <1>1, <2>1
<1>5. /\ cloud' = cloud /\ role' = role /\ job' = job /\ oldFileSize' = oldFileSize
      /\ cachedContent'[h] = t /\ dirty'[h] = TRUE
  BY DEF Write, NodeInv, NodesOK
<1>6. NamesOf(Len(s)) \subseteq NamesOf(n) \cup NamesOf(Len(t))
  <2> HIDE DEF s, t, n
  <2> QED
    BY <1>1, <1>3, <1>4, NamesStay
<1>7. n <= Len(t)
  <2> HIDE DEF s, t, n
  <2> QED
    BY <1>1, <1>3, <1>4
<1> HIDE DEF t
<1> QED
  BY <1>2, <1>3, <1>5, <1>6, <1>7 DEF Changed, Dirty, Idle

LEMMA FlushCleanLays ==
    ASSUME NodeInv, NEW h \in Nodes, Laid(h), FlushClean(h)
    PROVE  Clean(h)'
<1>1. Clean(h) /\ cachedContent[h] \in Seq(Bytes)
  BY WhichSituation, NodeFacts DEF FlushClean
<1>2. GetSize(cachedContent[h], oldFileSize[h]) = oldFileSize[h]
  BY <1>1 DEF GetSize, Clean
<1>3. Known(oldFileSize[h])'
  BY <1>1, <1>2 DEF FlushClean, Clean, Known, Updated
<1> QED
  BY <1>1, <1>3 DEF FlushClean, Clean, Idle

LEMMA BeginFlushLays ==
    ASSUME NodeInv, NEW h \in Nodes, SplitFiles(h), Laid(h), BeginFlush(h)
    PROVE  Removing(h)'
<1>1. Changed(h) /\ Quiet /\ oldFileSize[h] \in Nat /\ job \in [Nodes -> Jobs]
  BY WhichSituation, NodeFacts DEF BeginFlush, NoListing, SplitFiles, Quiet, NodeInv, NodesOK
<1>2. job'[h] = NewJob("remove", oldFileSize[h], 0)
  BY <1>1 DEF BeginFlush
<1>3. job'[h].phase = "remove" /\ job'[h].idx = 0 /\ job'[h].size = oldFileSize[h]
  BY <1>2 DEF NewJob
<1>4. 0 < Count(oldFileSize[h])
  BY <1>1, CountType
<1> QED
  BY <1>1, <1>3, <1>4 DEF BeginFlush, Removing, Changed, Dirty, Quiet, NamesOf

(* The fields of a job that goes on. *)
LEMMA NextRequestFields ==
    ASSUME NodeInv, NEW h \in Nodes, job' = NextRequest(h)
    PROVE  /\ job'[h].phase = job[h].phase /\ job'[h].size = job[h].size
           /\ job'[h].idx = job[h].idx + 1
<1>1. job \in [Nodes -> Jobs] /\ job[h] \in Jobs
  BY DEF NodeInv, NodesOK
<1>2. job'[h] = [job[h] EXCEPT !.idx = job[h].idx + 1]
  BY <1>1 DEF NextRequest
<1> QED
  BY <1>1, <1>2 DEF Jobs

LEMMA LoopFields ==
    ASSUME NodeInv, NEW h \in Nodes, NEW p, NEW n, job' = Loop(h, p, n)
    PROVE  job'[h].phase = p /\ job'[h].size = n /\ job'[h].idx = 0
<1>1. job \in [Nodes -> Jobs] /\ job[h] \in Jobs
  BY DEF NodeInv, NodesOK
<1>2. job'[h] = [job[h] EXCEPT !.phase = p, !.idx = 0, !.size = n]
  BY <1>1 DEF Loop
<1> QED
  BY <1>1, <1>2 DEF Jobs

LEMMA RemoveLays ==
    ASSUME NodeInv, NEW h \in Nodes, Laid(h), Remove(h)
    PROVE  Laid(h)'
<1> DEFINE i == job[h].idx
           n == oldFileSize[h]
           size == Len(cachedContent[h])
<1>1. Removing(h) /\ n \in Nat /\ i \in Nat /\ size \in Nat
  BY WhichSituation, NodeFacts DEF Remove
<1>2. i < Count(n) /\ Name(h) = NameAt(n, i) /\ (LastRequest(h) <=> i + 1 = Count(n))
  BY <1>1 DEF Removing, Name, LastRequest
<1>3. /\ NamesFrom(n, i + 1) = NamesFrom(n, i) \ {NameAt(n, i)}
      /\ i + 1 = Count(n) => NamesFrom(n, i + 1) = {}
      /\ i + 1 # Count(n) => i + 1 < Count(n)
  <2> HIDE DEF n, i
  <2> QED
    BY <1>1, <1>2, NamesLeft, InLoop
<1>4. DOMAIN cloud' \subseteq NamesFrom(n, i + 1) \cup NamesOf(size)
  <2>1. DOMAIN cloud' = DOMAIN cloud \ {Name(h)}
    BY DEF Remove, Removed
  <2> QED
    BY <1>1, <1>2, <1>3, <2>1 DEF Removing
<1>5. /\ role' = role /\ cachedContent' = cachedContent /\ dirty' = dirty
      /\ oldFileSize' = oldFileSize /\ listing' = listing
  BY DEF Remove, nodeVars
<1>6. Dirty(h)' /\ Quiet'
  BY <1>1, <1>5 DEF Removing, Dirty, Quiet
<1>7. CASE LastRequest(h)
  <2>1. job' = Loop(h, "upload", size)
    BY <1>7 DEF Remove
  <2>2. job'[h].phase = "upload" /\ job'[h].size = size /\ job'[h].idx = 0
    BY <2>1, LoopFields
  <2>3. 0 < Count(size) /\ 0..(0 - 1) = {}
    BY <1>1, CountType
  <2>4. Uploading(h)'
    BY <1>2, <1>3, <1>4, <1>5, <1>6, <1>7, <2>2, <2>3 DEF Uploading
  <2> QED
    BY <2>4 DEF Laid
<1>8. CASE ~LastRequest(h)
  <2>1. job' = NextRequest(h)
    BY <1>8 DEF Remove
  <2>2. job'[h].phase = "remove" /\ job'[h].size = n /\ job'[h].idx = i + 1
    BY <1>1, <2>1, NextRequestFields DEF Removing
  <2>3. Removing(h)'
    BY <1>2, <1>3, <1>4, <1>5, <1>6, <1>8, <2>2 DEF Removing
  <2> QED
    BY <2>3 DEF Laid
<1> QED
  BY <1>7, <1>8

LEMMA UploadLays ==
    ASSUME NodeInv, NEW h \in Nodes, Laid(h), Upload(h)
    PROVE  Laid(h)'
<1> DEFINE i == job[h].idx
           s == cachedContent[h]
           n == Len(s)
<1>1. /\ Uploading(h) /\ i \in Nat /\ n \in Nat /\ s \in Seq(Bytes)
      /\ job[h].size = n /\ i < Count(n)
  BY WhichSituation, NodeFacts DEF Upload, Uploading
<1>2. Name(h) = NameAt(n, i) /\ (LastRequest(h) <=> i + 1 = Count(n))
  BY <1>1 DEF Name, LastRequest
<1>3. /\ i \in 0..(Count(n) - 1) /\ Count(n) \in Nat
      /\ i + 1 # Count(n) => i + 1 < Count(n)
  <2> HIDE DEF n, i
  <2> QED
    BY <1>1, InLoop
<1>4. NameAt(n, i) \in NamesOf(n)
  <2> HIDE DEF n, i
  <2> QED
    BY <1>3 DEF NamesOf, NamesFrom
<1>5. cloud' = [x \in DOMAIN cloud \cup {NameAt(n, i)} |->
                   IF x = NameAt(n, i) THEN Slice(s, i) ELSE cloud[x]]
  BY <1>1, <1>2, PieceIsSlice DEF Upload, Stored
<1>6. /\ role' = role /\ cachedContent' = cachedContent /\ dirty' = dirty
      /\ oldFileSize' = oldFileSize /\ listing' = listing
  BY DEF Upload, nodeVars
<1>7. Dirty(h)' /\ Quiet'
  BY <1>1, <1>6 DEF Uploading, Dirty, Quiet
<1>8. /\ DOMAIN cloud' \subseteq NamesOf(n)
      /\ \A k \in 0..i : NameAt(n, k) \in DOMAIN cloud' /\ cloud'[NameAt(n, k)] = Slice(s, k)
  <2>1. /\ DOMAIN cloud \subseteq NamesOf(n)
        /\ \A k \in 0..(i - 1) : NameAt(n, k) \in DOMAIN cloud /\ cloud[NameAt(n, k)] = Slice(s, k)
    BY <1>1 DEF Uploading
  <2>2. ASSUME NEW k \in 0..(i - 1) PROVE NameAt(n, k) # NameAt(n, i)
    <3>1. i # 0 /\ k # i
      BY <1>1
    <3>2. Count(n) # 1
      BY <1>1, <1>3, <3>1
    <3> QED
      BY <3>1, <3>2 DEF NameAt, Count
  <2> HIDE DEF n, i, s
  <2>3. \A k \in 0..i : k = i \/ k \in 0..(i - 1)
    BY <1>1
  <2> QED
    BY <1>4, <1>5, <2>1, <2>2, <2>3
<1>9. CASE LastRequest(h)
  <2>1. job' = Loop(h, "cleanup", 0)
    BY <1>9 DEF Upload
  <2>2. job'[h].phase = "cleanup"
    BY <2>1, LoopFields
  <2>3. 0..i = 0..(Count(n) - 1)
    BY <1>1, <1>2, <1>9
  <2>4. DOMAIN cloud' = NamesOf(n)
    <3> HIDE DEF n, i, s
    <3> QED
      BY <1>8, <2>3 DEF NamesOf, NamesFrom
  <2>5. cloud' = [x \in NamesOf(n) |-> cloud'[x]]
    BY <1>5, <2>4
  <2>6. cloud' = StoredAs(s)
    <3>1. \A k \in 0..(Count(n) - 1) : cloud'[NameAt(n, k)] = Slice(s, k)
      BY <1>8, <2>3
    <3> DEFINE f == cloud'
    <3> HIDE DEF f
    <3>2. f = [x \in NamesOf(Len(s)) |-> f[x]]
      BY <2>5 DEF f
    <3>3. \A k \in 0..(Count(Len(s)) - 1) : f[NameAt(Len(s), k)] = Slice(s, k)
      BY <3>1 DEF f
    <3>4. f = StoredAs(s)
      BY <1>1, <3>2, <3>3, LayoutOfFile
    <3> QED
      BY <3>4 DEF f
  <2>7. Uploaded(h)'
    BY <1>6, <1>7, <2>2, <2>6 DEF Uploaded
  <2> QED
    BY <2>7 DEF Laid
<1>10. CASE ~LastRequest(h)
  <2>1. job' = NextRequest(h)
    BY <1>10 DEF Upload
  <2>2. job'[h].phase = "upload" /\ job'[h].size = n /\ job'[h].idx = i + 1
    BY <1>1, <2>1, NextRequestFields DEF Uploading
  <2>3. (i + 1) - 1 = i /\ i + 1 < Count(n)
    BY <1>1, <1>2, <1>3, <1>10
  <2>4. Uploading(h)'
    BY <1>6, <1>7, <1>8, <2>2, <2>3 DEF Uploading
  <2> QED
    BY <2>4 DEF Laid
<1> QED
  BY <1>9, <1>10

LEMMA CleanupLays ==
    ASSUME NodeInv, NEW h \in Nodes, Laid(h), Cleanup(h)
    PROVE  Clean(h)'
<1>1. Uploaded(h) /\ Len(cachedContent[h]) \in Nat
  BY WhichSituation, NodeFacts DEF Cleanup
<1>2. /\ cloud' = cloud /\ listing' = listing /\ role' = role
      /\ cachedContent' = cachedContent /\ dirty'[h] = FALSE
      /\ oldFileSize'[h] = Len(cachedContent[h]) /\ job'[h] = NoJob
      /\ statSize' = Updated(Len(cachedContent[h]))
  BY <1>1 DEF Cleanup, Uploaded, Dirty, NodeInv, NodesOK
<1>3. Known(oldFileSize[h])'
  BY <1>1, <1>2 DEF Uploaded, Quiet, Known, Updated
<1> QED
  BY <1>1, <1>2, <1>3 DEF Clean, Uploaded, Dirty, Idle, NoJob

LEMMA DropNodeFields ==
    ASSUME NodeInv, NEW h \in Nodes, DropNode(h)
    PROVE  /\ role'[h] = "none" /\ cachedContent'[h] = <<>> /\ dirty'[h] = FALSE
           /\ job'[h].phase = "idle"
BY DEF NodeInv, NodesOK, DropNode, NoJob

LEMMA ReleaseLays ==
    ASSUME NodeInv, NEW h \in Nodes, Laid(h), Release(h), ~halfDone'
    PROVE  AtRest(h)'
<1>1. Clean(h) /\ cachedContent[h] \in Seq(Bytes)
  BY WhichSituation, NodeFacts DEF Release
<1>2. ListedSize(cloud) = oldFileSize[h]
  BY <1>1, ListedIsStored DEF Clean
<1>3. /\ cloud' = cloud /\ statSize' = statSize /\ listing' = listing
      /\ role'[h] = "none" /\ cachedContent'[h] = <<>> /\ dirty'[h] = FALSE
      /\ job'[h].phase = "idle"
  BY DropNodeFields DEF Release
<1>4. Known(ListedSize(cloud))'
  BY <1>1, <1>2, <1>3 DEF Clean, Known
<1> QED
  BY <1>1, <1>3, <1>4 DEF AtRest, Idle, Clean

LEMMA BeginUnlinkLays ==
    ASSUME NodeInv, NEW h \in Nodes, SplitFiles(h), Laid(h), BeginUnlink(h)
    PROVE  Unlinked(h)'
<1>1. AtRest(h) /\ Quiet
  BY WhichSituation DEF BeginUnlink, Unused, NoListing, SplitFiles, Quiet
<1>2. statSize = ListedSize(cloud) /\ statSize # NoEntry
  BY <1>1 DEF AtRest, Known, BeginUnlink
<1>3. PICK s \in Seq(Bytes) : cloud = StoredAs(s) /\ Len(s) = statSize /\ Len(s) \in Nat
  BY <1>1, <1>2, ListedFile DEF AtRest
<1>4. /\ cloud' = cloud /\ role'[h] = "unlink" /\ dirty' = dirty
      /\ cachedContent' = cachedContent /\ statSize' = statSize /\ listing' = listing
      /\ job'[h] = NewJob("unlink", statSize, 0)
  BY DEF BeginUnlink, NodeInv, NodesOK
<1>5. job'[h].phase = "unlink" /\ job'[h].idx = 0 /\ job'[h].size = statSize
  BY <1>4 DEF NewJob
<1>6. 0 < Count(statSize) /\ DOMAIN cloud = NamesFrom(statSize, 0)
  BY <1>3, CountType, StoredNames DEF NamesOf
<1> QED
  BY <1>1, <1>2, <1>4, <1>5, <1>6 DEF Unlinked, AtRest, Quiet

LEMMA UnlinkLays ==
    ASSUME NodeInv, NEW h \in Nodes, Laid(h), Unlink(h)
    PROVE  /\ Laid(h)'
           /\ statSize' = NoEntry => DOMAIN cloud' = {}
<1> DEFINE i == job[h].idx
           n == job[h].size
<1>1. Unlinked(h) /\ n \in Nat /\ i \in Nat /\ i < Count(n)
  BY WhichSituation, NodeFacts DEF Unlink, Unlinked
<1>2. Name(h) = NameAt(n, i) /\ (LastRequest(h) <=> i + 1 = Count(n))
  BY <1>1 DEF Name, LastRequest
<1>3. /\ NamesFrom(n, i + 1) = NamesFrom(n, i) \ {NameAt(n, i)}
      /\ i + 1 = Count(n) => NamesFrom(n, i + 1) = {}
      /\ i + 1 # Count(n) => i + 1 < Count(n)
  <2> HIDE DEF n, i
  <2> QED
    BY <1>1, NamesLeft, InLoop
<1>4. DOMAIN cloud' \subseteq NamesFrom(n, i + 1) /\ listing' = listing
  <2>1. DOMAIN cloud' = DOMAIN cloud \ {Name(h)} /\ listing' = listing
    BY DEF Unlink, Removed
  <2> QED
    BY <1>1, <1>2, <1>3, <2>1 DEF Unlinked
<1>5. Quiet'
  BY <1>1, <1>4 DEF Unlinked, Quiet
<1>6. CASE LastRequest(h)
  <2>1. DropNode(h) /\ statSize' = NoEntry
    BY <1>6 DEF Unlink
  <2>2. DOMAIN cloud' = {}
    BY <1>2, <1>3, <1>4, <1>6
  <2>3. Known(ListedSize(cloud))'
    BY <1>5, <2>1 DEF Quiet, Known
  <2>4. AtRest(h)'
    BY <2>1, <2>2, <2>3, DropNodeFields DEF AtRest, Idle
  <2> QED
    BY <2>2, <2>4 DEF Laid
<1>7. CASE ~LastRequest(h)
  <2>1. job' = NextRequest(h) /\ UNCHANGED <<nodeVars, statSize>>
    BY <1>7 DEF Unlink
  <2>2. job'[h].phase = "unlink" /\ job'[h].size = n /\ job'[h].idx = i + 1
    BY <1>1, <2>1, NextRequestFields DEF Unlinked
  <2>3. Unlinked(h)'
    BY <1>1, <1>2, <1>3, <1>4, <1>5, <1>7, <2>1, <2>2 DEF Unlinked, nodeVars
  <2>4. statSize' # NoEntry
    BY <1>1, <2>1 DEF Unlinked
  <2> QED
    BY <2>3, <2>4 DEF Laid
<1> QED
  BY <1>6, <1>7

(***************************************************************************)
(* What a failed request may leave, whether it was carried out or not.     *)
(***************************************************************************)
LeftOver(h, cl) ==
    /\ job[h].phase = "open" => cl = cloud
    /\ job[h].phase \in {"remove", "upload"} => DOMAIN cl \subseteq
           NamesOf(oldFileSize[h]) \cup NamesOf(Len(cachedContent[h]))
    /\ job[h].phase = "unlink" => DOMAIN cl \subseteq NamesOf(job[h].size)

LEMMA RequestLeavesOver ==
    ASSUME NodeInv, NEW h \in Nodes, Laid(h)
    PROVE  LeftOver(h, cloud) /\ LeftOver(h, Effect(h))
<1> DEFINE i == job[h].idx
           old == oldFileSize[h]
           n == Len(cachedContent[h])
           size == job[h].size
<1>1. i \in Nat /\ old \in Nat /\ n \in Nat /\ size \in Nat
  BY NodeFacts
<1>2. CASE job[h].phase = "remove"
  <2>1. Removing(h)
    BY <1>2, WhichSituation
  <2>2. i < Count(old) /\ DOMAIN cloud \subseteq NamesFrom(old, i) \cup NamesOf(n)
    BY <2>1 DEF Removing
  <2>3. NamesFrom(old, i) \subseteq NamesOf(old)
    BY <1>1, <2>2, NamesLeft
  <2>4. DOMAIN Effect(h) \subseteq DOMAIN cloud
    BY <1>2 DEF Effect, Removed
  <2> QED
    BY <1>2, <2>2, <2>3, <2>4 DEF LeftOver
<1>3. CASE job[h].phase = "upload"
  <2>1. Uploading(h)
    BY <1>3, WhichSituation
  <2>2. i < Count(n) /\ DOMAIN cloud \subseteq NamesOf(n) /\ size = n
    BY <2>1 DEF Uploading
  <2>3. NameAt(n, i) \in NamesOf(n)
    BY <1>1, <2>2, NamesLeft
  <2>4. DOMAIN Effect(h) = DOMAIN cloud \cup {NameAt(n, i)}
    BY <1>3, <2>2 DEF Effect, Stored, Name
  <2> QED
    BY <1>3, <2>2, <2>3, <2>4 DEF LeftOver
<1>4. CASE job[h].phase = "unlink"
  <2>1. Unlinked(h)
    BY <1>4, WhichSituation
  <2>2. i < Count(size) /\ DOMAIN cloud \subseteq NamesFrom(size, i)
    BY <2>1 DEF Unlinked
  <2>3. NamesFrom(size, i) \subseteq NamesOf(size)
    BY <1>1, <2>2, NamesLeft
  <2>4. DOMAIN Effect(h) \subseteq DOMAIN cloud
    BY <1>4 DEF Effect, Removed
  <2> QED
    BY <1>4, <2>2, <2>3, <2>4 DEF LeftOver
<1>5. CASE job[h].phase \notin {"remove", "upload", "unlink"}
  BY <1>5 DEF LeftOver, Effect
<1> QED
  BY <1>2, <1>3, <1>4, <1>5

LEMMA GiveUpLays ==
    ASSUME NodeInv, NEW h \in Nodes, Laid(h), GiveUp(h), ~halfDone',
           job[h].phase \in {"open", "remove", "upload", "unlink"},
           LeftOver(h, cloud'), statSize' = statSize, listing' = listing
    PROVE  Laid(h)'
<1>1. role[h] # "unlink" /\ job[h].phase # "unlink"
  BY NodeFacts, WhichSituation DEF GiveUp, Unlinked
<1>2. CASE job[h].phase = "open"
  <2>1. Opening(h) /\ cloud' = cloud /\ DropNode(h)
    BY <1>2, WhichSituation DEF LeftOver, GiveUp
  <2>2. PICK s \in Seq(Bytes) : cloud = StoredAs(s) /\ Len(s) = oldFileSize[h]
    BY <2>1 DEF Opening
  <2>3. ListedSize(cloud) = oldFileSize[h]
    BY <2>2, ListedIsStored
  <2>4. Known(ListedSize(cloud))'
    BY <2>1, <2>3 DEF Opening, Known
  <2>5. AtRest(h)'
    BY <2>1, <2>2, <2>4, DropNodeFields DEF AtRest, Idle
  <2> QED
    BY <2>5 DEF Laid
<1>3. CASE job[h].phase \in {"remove", "upload"}
  <2>1. Dirty(h)
    BY <1>3, WhichSituation DEF Removing, Uploading
  <2>2. job' = [job EXCEPT ![h] = NoJob] /\ UNCHANGED nodeVars
    BY <1>3, <2>1 DEF GiveUp, Dirty
  <2>3. job'[h].phase = "idle"
    BY <2>2 DEF NodeInv, NodesOK, NoJob
  <2>4. Changed(h)'
    BY <1>3, <2>1, <2>2, <2>3 DEF Changed, Dirty, Idle, LeftOver, nodeVars
  <2> QED
    BY <2>4 DEF Laid
<1> QED
  BY <1>1, <1>2, <1>3

(* The fields of a job that starts over. *)
LEMMA AgainFields ==
    ASSUME NEW j \in Jobs, NEW p, NEW n
    PROVE  LET again == [j EXCEPT !.left = @ - 1, !.idx = 0]
               sized == [again EXCEPT !.size = n]
               phased == [again EXCEPT !.phase = p, !.size = n]
           IN  /\ again.phase = j.phase /\ again.size = j.size /\ again.idx = 0
               /\ sized.phase = j.phase /\ sized.size = n /\ sized.idx = 0
               /\ phased.phase = p /\ phased.size = n /\ phased.idx = 0
BY DEF Jobs

LEMMA RetryLays ==
    ASSUME NodeInv, NEW h \in Nodes, Laid(h), Retry(h),
           job[h].phase \in {"open", "remove", "upload", "unlink"},
           LeftOver(h, cloud'), statSize' = statSize, listing' = listing
    PROVE  Laid(h)'
<1> DEFINE again == [job[h] EXCEPT !.left = @ - 1, !.idx = 0]
<1>1. /\ job \in [Nodes -> Jobs] /\ job[h] \in Jobs /\ Quiet
      /\ oldFileSize[h] \in Nat /\ job[h].size \in Nat
  BY NodeFacts, WhichSituation DEF NodeInv, NodesOK, Idle
<1>2. Quiet'
  BY <1>1 DEF Quiet
<1>3. CASE job[h].phase = "open"
  <2>1. Opening(h) /\ cloud' = cloud
    BY <1>3, WhichSituation DEF LeftOver
  <2>2. PICK s \in Seq(Bytes) : cloud = StoredAs(s) /\ Len(s) = oldFileSize[h]
    BY <2>1 DEF Opening
  <2>3. /\ statSize # NoEntry /\ role' = role /\ dirty' = dirty
        /\ cachedContent' = [cachedContent EXCEPT ![h] = <<>>]
        /\ oldFileSize' = [oldFileSize EXCEPT ![h] = statSize]
        /\ job' = [job EXCEPT ![h] = [again EXCEPT !.size = statSize]]
    BY <1>3, <2>1 DEF Retry, Opening
  <2>4. statSize = oldFileSize[h]
    BY <2>1, <2>3 DEF Opening, Known
  <2>5. cachedContent'[h] = <<>> /\ oldFileSize'[h] = oldFileSize[h]
    BY <2>3, <2>4 DEF NodeInv, NodesOK
  <2>6. job'[h] = [again EXCEPT !.size = statSize]
    BY <1>1, <2>3
  <2>7. job'[h].phase = "open" /\ job'[h].idx = 0 /\ job'[h].size = oldFileSize[h]
    BY <1>1, <1>3, <2>4, <2>6, AgainFields
  <2>8. 0 < Count(oldFileSize[h]) /\ 0 \in 0..(Count(Len(s)) - 1)
    BY <1>1, <2>2, CountType
  <2>9. Taken(s, 0) = <<>>
    BY <2>8, SlicesJoin
  <2>10. Known(oldFileSize[h])'
    BY <2>1, <2>5 DEF Opening, Known
  <2>11. Opening(h)'
    BY <1>2, <2>1, <2>2, <2>3, <2>5, <2>7, <2>8, <2>9, <2>10 DEF Opening
  <2> QED
    BY <2>11 DEF Laid
<1>4. CASE job[h].phase \in {"remove", "upload"}
  <2>1. Dirty(h)
    BY <1>4, WhichSituation DEF Removing, Uploading
  <2>2. /\ UNCHANGED nodeVars
        /\ job' = [job EXCEPT ![h] = [again EXCEPT !.phase = "remove", !.size = oldFileSize[h]]]
    BY <1>4, <2>1 DEF Retry, Dirty
  <2>3. job'[h] = [again EXCEPT !.phase = "remove", !.size = oldFileSize[h]]
    BY <1>1, <2>2
  <2>4. job'[h].phase = "remove" /\ job'[h].idx = 0 /\ job'[h].size = oldFileSize[h]
    BY <1>1, <2>3, AgainFields
  <2>5. 0 < Count(oldFileSize[h])
    BY <1>1, CountType
  <2>6. Removing(h)'
    BY <1>2, <1>4, <2>1, <2>2, <2>4, <2>5
       DEF Removing, Dirty, LeftOver, nodeVars, NamesOf
  <2> QED
    BY <2>6 DEF Laid
<1>5. CASE job[h].phase = "unlink"
  <2>1. Unlinked(h)
    BY <1>5, WhichSituation
  <2>2. UNCHANGED nodeVars /\ job' = [job EXCEPT ![h] = again]
    BY <1>5, <2>1 DEF Retry, Unlinked
  <2>3. job'[h] = again
    BY <1>1, <2>2
  <2>4. job'[h].phase = "unlink" /\ job'[h].idx = 0 /\ job'[h].size = job[h].size
    BY <1>1, <1>5, <2>3, AgainFields
  <2>5. 0 < Count(job[h].size)
    BY <1>1, CountType
  <2>6. Unlinked(h)'
    BY <1>2, <1>5, <2>1, <2>2, <2>4, <2>5 DEF Unlinked, LeftOver, nodeVars, NamesOf
  <2> QED
    BY <2>6 DEF Laid
<1> QED
  BY <1>3, <1>4, <1>5

LEMMA FailureLays ==
    ASSUME NodeInv, NEW h \in Nodes, Laid(h), Refused(h) \/ Fault(h), ~halfDone'
    PROVE  Laid(h)'
<1>1. LeftOver(h, cloud) /\ LeftOver(h, Effect(h))
  BY RequestLeavesOver
<1>2. CASE Refused(h)
  BY <1>1, <1>2, GiveUpLays DEF Refused
<1>3. CASE Fault(h)
  <2>1. /\ LeftOver(h, cloud') /\ statSize' = statSize /\ listing' = listing
        /\ job[h].phase \in {"open", "remove", "upload", "unlink"}
        /\ Retry(h) \/ GiveUp(h)
    BY <1>1, <1>3 DEF Fault
  <2> QED
    BY <2>1, RetryLays, GiveUpLays
<1> QED
  BY <1>2, <1>3

-----------------------------------------------------------------------------
LEMMA LayoutInit == Init => LayoutInv
<1> SUFFICES ASSUME Init, NEW h \in Nodes PROVE Laid(h)
  BY DEF LayoutInv
<1>1. DOMAIN cloud = {} /\ ListedSize(cloud) = NoEntry
  BY ListedEmpty DEF Init
<1>2. Known(ListedSize(cloud))
  BY <1>1 DEF Init, Known
<1>3. AtRest(h)
  BY <1>1, <1>2 DEF Init, AtRest, Idle, NoJob
<1> QED
  BY <1>3 DEF Laid

LEMMA LayoutStep ==
    ASSUME NEW h \in Nodes, SplitFiles(h), NodeInv, LayoutInv, [Next]_vars
    PROVE  LayoutInv'
<1> SUFFICES ASSUME ~halfDone' PROVE Laid(h)'
  BY DEF LayoutInv, SplitFiles, Alone
<1>1. ~halfDone
  <2>1. CASE UNCHANGED vars
    BY <2>1 DEF vars
  <2>2. CASE Mknod
    BY <2>2 DEF Mknod
  <2>3. ASSUME NEW r \in Listers, Ls(r) \/ PutListing(r) PROVE ~halfDone
    BY <2>3 DEF Ls, PutListing
  <2>4. BeginOpen(h) => ~halfDone
    BY DEF BeginOpen
  <2>5. ASSUME NEW off \in 0..(MaxSize - 1), NEW b \in Bytes, Write(h, off, b)
        PROVE  ~halfDone
    BY <2>5 DEF Write
  <2>6. FlushClean(h) \/ BeginFlush(h) => ~halfDone
    BY DEF FlushClean, BeginFlush
  <2>7. Release(h) \/ BeginUnlink(h) => ~halfDone
    BY DEF Release, BeginUnlink
  <2>8. Download(h) \/ Remove(h) \/ Upload(h) => ~halfDone
    BY DEF Download, Remove, Upload
  <2>9. Cleanup(h) \/ Unlink(h) => ~halfDone
    BY DEF Cleanup, Unlink
  <2>10. Refused(h) \/ Fault(h) => ~halfDone
    BY DEF Refused, Fault, GiveUp
  <2> QED
    BY <2>1, <2>2, <2>3, <2>4, <2>5, <2>6, <2>7, <2>8, <2>9, <2>10
       DEF Next, Request, SplitFiles, Alone
<1>2. Laid(h)
  BY <1>1 DEF LayoutInv
<1>3. CASE UNCHANGED vars
  BY <1>2, <1>3 DEF vars, Laid, AtRest, Opening, Clean, Dirty, Changed, Removing,
     Uploading, Uploaded, Unlinked, Idle, Quiet, Known
<1>4. CASE Mknod
  BY <1>2, <1>4, MknodLays DEF Laid
<1>5. ASSUME NEW r \in Listers, Ls(r) \/ PutListing(r) PROVE Laid(h)'
  BY <1>2, <1>5, ListingLays
<1>6. BeginOpen(h) => Laid(h)'
  BY <1>2, BeginOpenLays DEF Laid
<1>7. ASSUME NEW off \in 0..(MaxSize - 1), NEW b \in Bytes, Write(h, off, b)
      PROVE  Laid(h)'
  BY <1>2, <1>7, WriteLays DEF Laid
<1>8. FlushClean(h) \/ BeginFlush(h) => Laid(h)'
  BY <1>2, FlushCleanLays, BeginFlushLays DEF Laid
<1>9. Release(h) \/ BeginUnlink(h) => Laid(h)'
  BY <1>2, ReleaseLays, BeginUnlinkLays DEF Laid
<1>10. Request(h) \/ Fault(h) => Laid(h)'
  <2>1. Cleanup(h) => Laid(h)'
    BY <1>2, CleanupLays DEF Laid
  <2> QED
    BY <1>2, <2>1, DownloadLays, RemoveLays, UploadLays, UnlinkLays, FailureLays DEF Request
<1> QED
  BY <1>3, <1>4, <1>5, <1>6, <1>7, <1>8, <1>9, <1>10 DEF Next, SplitFiles, Alone

-----------------------------------------------------------------------------
(***************************************************************************)
(* Now files that are never split, with truncates, with listings during    *)
(* transfers, and after calls that were given up: there is one name only,  *)
(* so the sizes a node or the cache believe in do not matter.              *)
(***************************************************************************)
WholeFiles(h) == Alone(h) /\ "write" \notin Concurrent /\ MaxSize <= MaxFileSize

Fits(n) == n \in 0..MaxSize

CloudWhole(cl) ==
    /\ cl = [x \in DOMAIN cl |-> cl[x]] /\ DOMAIN cl \subseteq {Whole}
    /\ Whole \in DOMAIN cl => Fits(Len(cl[Whole]))

CachesFit ==
    /\ statSize = NoEntry \/ Fits(statSize)
    /\ \A r \in Listers : listing[r] = NoEntry \/ Fits(listing[r])

(* Nothing was read into the node. *)
Fresh(h) == cachedContent[h] = <<>> /\ dirty[h] = FALSE

WholeNode(h) ==
    /\ Fits(Len(cachedContent[h])) /\ Fits(oldFileSize[h])
    /\ Fits(job[h].size) /\ job[h].idx = 0 /\ Fits(job[h].trunc)
    /\ role[h] \in {"none", "unlink"} \/ job[h].phase = "open" => Fresh(h)
    /\ job[h].phase \in {"remove", "upload"} => dirty[h] = TRUE
    /\ role[h] = "handle" /\ Idle(h) /\ ~dirty[h] => cloud = StoredAs(cachedContent[h])
    /\ job[h].phase = "cleanup" => cloud = StoredAs(cachedContent[h])
    /\ role[h] = "unlink" => statSize # NoEntry

WholeInv == CloudWhole(cloud) /\ CachesFit /\ \A h \in Nodes : WholeNode(h)

LEMMA WholeSize ==
    ASSUME MaxSize <= MaxFileSize, NEW n, Fits(n)
    PROVE  /\ Count(n) = 1 /\ \A i : NameAt(n, i) = Whole
           /\ ~IsCompound(n) /\ n \in Nat /\ Fits(0)
BY FileNodeAssumption, CompoundAssumption DEF Fits, Count, NameAt, IsCompound

LEMMA WholeRequest ==
    ASSUME NEW h \in Nodes, WholeFiles(h), WholeInv
    PROVE  Name(h) = Whole /\ LastRequest(h)
<1>1. Fits(job[h].size) /\ job[h].idx = 0 /\ MaxSize <= MaxFileSize
  BY DEF WholeInv, WholeNode, WholeFiles
<1> QED
  BY <1>1, WholeSize DEF Name, LastRequest

LEMMA WholeCloud ==
    ASSUME MaxSize <= MaxFileSize, CloudWhole(cloud)
    PROVE  /\ CloudWhole(Removed(Whole)) /\ DOMAIN Removed(Whole) = {}
           /\ ListedSize(cloud) = NoEntry \/ Fits(ListedSize(cloud))
           /\ Whole \in DOMAIN cloud => cloud = StoredAs(cloud[Whole])
           /\ \A t : Fits(Len(t)) =>
                 CloudWhole(Stored(Whole, t)) /\ Stored(Whole, t) = StoredAs(t)
<1>1. DOMAIN Removed(Whole) = {} /\ CloudWhole(Removed(Whole))
  BY DEF CloudWhole, Removed
<1>2. ListedSize(cloud) = NoEntry \/ Fits(ListedSize(cloud))
  <2>1. DOMAIN cloud \ {Whole} = {}
    BY DEF CloudWhole
  <2> QED
    BY <2>1 DEF CloudWhole, ListedSize
<1>3. ASSUME NEW t, Fits(Len(t)) PROVE StoredAs(t) = [x \in {Whole} |-> t]
  BY <1>3, WholeSize, StoredWhole
<1>4. ASSUME Whole \in DOMAIN cloud PROVE cloud = StoredAs(cloud[Whole])
  <2>1. DOMAIN cloud = {Whole} /\ Fits(Len(cloud[Whole]))
    BY <1>4 DEF CloudWhole
  <2>2. cloud = [x \in {Whole} |-> cloud[x]]
    BY <2>1 DEF CloudWhole
  <2>3. [x \in {Whole} |-> cloud[x]] = [x \in {Whole} |-> cloud[Whole]]
    OBVIOUS
  <2>4. StoredAs(cloud[Whole]) = [x \in {Whole} |-> cloud[Whole]]
    BY <1>3, <2>1
  <2> QED
    BY <2>2, <2>3, <2>4
<1>5. ASSUME NEW t, Fits(Len(t))
      PROVE  CloudWhole(Stored(Whole, t)) /\ Stored(Whole, t) = StoredAs(t)
  <2>1. Stored(Whole, t) = [x \in {Whole} |-> t]
    BY DEF CloudWhole, Stored
  <2>2. CloudWhole([x \in {Whole} |-> t])
    BY <1>5 DEF CloudWhole
  <2> QED
    BY <1>3, <1>5, <2>1, <2>2
<1> QED
  BY <1>1, <1>2, <1>4, <1>5

(* Steps that neither change the node nor what is stored in one piece. *)
LEMMA SameNode ==
    ASSUME NEW h \in Nodes, WholeNode(h), UNCHANGED <<nodeVars, job>>,
           \/ cloud' = cloud
           \/ role[h] = "none" /\ Idle(h),
           role[h] = "unlink" => statSize' # NoEntry
    PROVE  WholeNode(h)'
BY DEF WholeNode, nodeVars, Idle, Fresh

LEMMA CacheStepWhole ==
    ASSUME NodeInv, WholeInv, NEW h \in Nodes, WholeFiles(h),
           Mknod \/ \E r \in Listers : Ls(r) \/ PutListing(r)
    PROVE  WholeInv'
<1>1. WholeNode(h) /\ CloudWhole(cloud) /\ CachesFit /\ MaxSize <= MaxFileSize
  BY DEF WholeInv, WholeFiles
<1>2. CASE Mknod
  <2>1. Fits(Len(<<>>))
    BY <1>1, WholeSize, EmptySeq, FileNodeAssumption DEF Fits
  <2>2. CloudWhole(cloud')
    BY <1>1, <1>2, <2>1, WholeCloud DEF Mknod
  <2>3. role[h] = "none" /\ Idle(h)
    BY <1>2, NodeFacts DEF Mknod, Unused, RoleFits, Idle
  <2>4. WholeNode(h)'
    BY <1>1, <1>2, <2>3, SameNode DEF Mknod
  <2> QED
    BY <1>1, <1>2, <2>2, <2>4 DEF Mknod, WholeInv, CachesFit, WholeFiles, Alone
<1>3. ASSUME NEW r \in Listers, Ls(r) PROVE WholeInv'
  <2>1. CachesFit'
    BY <1>1, <1>3, WholeCloud DEF Ls, CachesFit, NodeInv, RestOK
  <2>2. WholeNode(h)'
    BY <1>1, <1>3, SameNode DEF Ls, WholeNode
  <2> QED
    BY <1>1, <1>3, <2>1, <2>2 DEF Ls, WholeInv, WholeFiles, Alone
<1>4. ASSUME NEW r \in Listers, PutListing(r) PROVE WholeInv'
  <2>1. CachesFit' /\ statSize' # NoEntry
    BY <1>1, <1>4 DEF PutListing, CachesFit, NodeInv, RestOK
  <2>2. WholeNode(h)'
    BY <1>1, <1>4, <2>1, SameNode DEF PutListing
  <2> QED
    BY <1>1, <1>4, <2>1, <2>2 DEF PutListing, WholeInv, WholeFiles, Alone
<1> QED
  BY <1>2, <1>3, <1>4

(* The other steps change the node, and perhaps its name in the cloud. *)
LEMMA NodeStepWhole ==
    ASSUME NodeInv, WholeInv, NEW h \in Nodes, WholeFiles(h), WholeNode(h)',
           cloud' = cloud \/ cloud' = Removed(Whole)
               \/ \E t : Fits(Len(t)) /\ cloud' = Stored(Whole, t),
           statSize' = statSize \/ statSize' = NoEntry \/ Fits(statSize'),
           listing' = listing
    PROVE  WholeInv'
<1>1. CloudWhole(cloud')
  BY WholeCloud DEF WholeInv, WholeFiles
<1>2. CachesFit'
  BY DEF WholeInv, CachesFit
<1> QED
  BY <1>1, <1>2 DEF WholeInv, WholeFiles, Alone

LEMMA WholeFacts ==
    ASSUME NodeInv, WholeInv, NEW h \in Nodes, WholeFiles(h)
    PROVE  /\ WholeNode(h) /\ CloudWhole(cloud) /\ CachesFit /\ MaxSize <= MaxFileSize
           /\ Name(h) = Whole /\ LastRequest(h) /\ Fits(0) /\ Fits(Len(<<>>))
<1>1. WholeNode(h) /\ CloudWhole(cloud) /\ CachesFit /\ MaxSize <= MaxFileSize
  BY DEF WholeInv, WholeFiles
<1>2. Fits(0) /\ Len(<<>>) = 0
  BY EmptySeq, FileNodeAssumption DEF Fits
<1> QED
  BY <1>1, <1>2, WholeRequest

LEMMA BeginWhole ==
    ASSUME NodeInv, WholeInv, NEW h \in Nodes, WholeFiles(h),
           \/ BeginOpen(h) \/ BeginUnlink(h)
           \/ \E n \in TruncateSizes : BeginTruncate(h, n)
    PROVE  WholeInv'
<1>1. WholeNode(h) /\ CachesFit /\ Fits(0)
  BY WholeFacts
<1>2. statSize # NoEntry /\ Fits(statSize)
  BY <1>1 DEF BeginOpen, BeginUnlink, BeginTruncate, CachesFit
<1>3. role[h] = "none" /\ Fresh(h)
  BY <1>1 DEF BeginOpen, BeginUnlink, BeginTruncate, Unused, WholeNode
<1>4. /\ cloud' = cloud /\ statSize' = statSize /\ listing' = listing
      /\ cachedContent' = cachedContent /\ dirty' = dirty
  BY DEF BeginOpen, BeginUnlink, BeginTruncate
<1>5. Fresh(h)' /\ Fits(Len(cachedContent[h]))'
  BY <1>1, <1>3, <1>4 DEF Fresh, WholeNode
<1>6. Fits(oldFileSize'[h])
  BY <1>1, <1>2 DEF BeginOpen, BeginUnlink, BeginTruncate, NodeInv, NodesOK, WholeNode
<1>7. PICK p \in {"open", "unlink"}, size \in 0..MaxSize, n \in 0..MaxSize :
          job' = [job EXCEPT ![h] = NewJob(p, size, n)]
  <2>1. \A n \in TruncateSizes : n \in 0..MaxSize
    BY FileNodeAssumption
  <2> QED
    BY <1>1, <1>2, <2>1 DEF BeginOpen, BeginUnlink, BeginTruncate, Fits
<1>8. job'[h] = NewJob(p, size, n)
  BY <1>7 DEF NodeInv, NodesOK
<1>9. /\ job'[h].phase = p /\ job'[h].size = size
      /\ job'[h].idx = 0 /\ job'[h].trunc = n
  BY <1>8 DEF NewJob
<1>10. WholeNode(h)'
  BY <1>2, <1>4, <1>5, <1>6, <1>7, <1>9 DEF WholeNode, Idle, Fits
<1> QED
  BY <1>4, <1>10, NodeStepWhole

LEMMA LoopTrunc ==
    ASSUME NodeInv, NEW h \in Nodes, NEW p, NEW n, job' = Loop(h, p, n)
    PROVE  job'[h].trunc = job[h].trunc
<1>1. job \in [Nodes -> Jobs] /\ job[h] \in Jobs
  BY DEF NodeInv, NodesOK
<1>2. job'[h] = [job[h] EXCEPT !.phase = p, !.idx = 0, !.size = n]
  BY <1>1 DEF Loop
<1> QED
  BY <1>1, <1>2 DEF Jobs

LEMMA DownloadWhole ==
    ASSUME NodeInv, WholeInv, NEW h \in Nodes, WholeFiles(h), Download(h)
    PROVE  WholeInv'
<1> DEFINE s == cloud[Whole]
           n == job[h].trunc
<1>1. /\ WholeNode(h) /\ CloudWhole(cloud) /\ MaxSize <= MaxFileSize
      /\ Name(h) = Whole /\ LastRequest(h) /\ Fits(0)
  BY WholeFacts
<1>2. s \in Seq(Bytes) /\ Fits(Len(s)) /\ cloud = StoredAs(s)
  <2>1. Whole \in DOMAIN cloud
    BY <1>1 DEF Download
  <2> QED
    BY <1>1, <2>1, WholeCloud DEF CloudWhole, NodeInv, CloudOK
<1>3. cachedContent[h] = <<>> /\ dirty[h] = FALSE /\ Fits(n) /\ n \in Nat
  BY <1>1, WholeSize DEF Download, WholeNode, Fresh
<1>4. cachedContent[h] \o cloud[Name(h)] = s
  BY <1>1, <1>2, <1>3, ConcatEmptySeq
<1>5. /\ cloud' = cloud /\ role' = role /\ statSize' = statSize /\ listing' = listing
  BY DEF Download
<1>6. CASE role[h] = "handle"
  <2>1. /\ cachedContent' = [cachedContent EXCEPT ![h] = s]
        /\ job' = [job EXCEPT ![h] = NoJob] /\ oldFileSize' = oldFileSize /\ dirty' = dirty
    BY <1>1, <1>4, <1>6 DEF Download
  <2>2. cachedContent'[h] = s /\ job'[h] = NoJob
    BY <2>1 DEF NodeInv, NodesOK
  <2>3. WholeNode(h)'
    BY <1>1, <1>2, <1>3, <1>5, <1>6, <2>1, <2>2 DEF WholeNode, NoJob, Idle
  <2> QED
    BY <1>5, <2>3, NodeStepWhole
<1>7. CASE role[h] = "truncate"
  <2>1. /\ cachedContent' = [cachedContent EXCEPT ![h] = Resized(s, n)]
        /\ oldFileSize' = [oldFileSize EXCEPT ![h] = n]
        /\ dirty' = [dirty EXCEPT ![h] = TRUE]
        /\ job' = Loop(h, "remove", n)
    BY <1>1, <1>4, <1>7 DEF Download
  <2>2. /\ cachedContent'[h] = Resized(s, n) /\ oldFileSize'[h] = n /\ dirty'[h] = TRUE
    BY <2>1 DEF NodeInv, NodesOK
  <2>3. Len(Resized(s, n)) = n
    BY <1>2, <1>3, ResizedType
  <2>4. /\ job'[h].phase = "remove" /\ job'[h].idx = 0 /\ job'[h].size = n
        /\ job'[h].trunc = n
    BY <2>1, LoopFields, LoopTrunc
  <2>5. WholeNode(h)'
    BY <1>3, <1>5, <1>7, <2>2, <2>3, <2>4 DEF WholeNode, Idle
  <2> QED
    BY <1>5, <2>5, NodeStepWhole
<1> QED
  BY <1>1, <1>6, <1>7 DEF Download

LEMMA WriteWhole ==
    ASSUME NodeInv, WholeInv, NEW h \in Nodes, WholeFiles(h),
           \/ \E n \in TruncateSizes : TruncateOpen(h, n)
           \/ \E off \in 0..(MaxSize - 1), b \in Bytes : Write(h, off, b)
    PROVE  WholeInv'
<1>1. WholeNode(h) /\ role[h] = "handle" /\ Idle(h)
  BY WholeFacts DEF TruncateOpen, Write, Writable, WholeFiles
<1>2. /\ cloud' = cloud /\ role' = role /\ job' = job /\ listing' = listing
      /\ dirty'[h] = TRUE
  BY DEF TruncateOpen, Write, NodeInv, NodesOK
<1>3. cachedContent[h] \in Seq(Bytes) /\ Len(cachedContent[h]) \in Nat
  BY NodeFacts
<1>4. ASSUME NEW n \in TruncateSizes, TruncateOpen(h, n) PROVE WholeInv'
  <2>1. Fits(n) /\ n \in Nat
    BY FileNodeAssumption DEF Fits
  <2>2. /\ cachedContent'[h] = Resized(cachedContent[h], n) /\ oldFileSize'[h] = n
        /\ statSize' \in {NoEntry, n}
    BY <1>4 DEF TruncateOpen, Updated, NodeInv, NodesOK
  <2>3. Fits(Len(cachedContent'[h]))
    BY <1>3, <2>1, <2>2, ResizedType
  <2>4. WholeNode(h)'
    BY <1>1, <1>2, <2>1, <2>2, <2>3 DEF WholeNode, Idle
  <2> QED
    BY <1>2, <2>1, <2>2, <2>4, NodeStepWhole
<1>5. ASSUME NEW off \in 0..(MaxSize - 1), NEW b \in Bytes, Write(h, off, b)
      PROVE  WholeInv'
  <2>1. /\ cachedContent'[h] = WriteAt(cachedContent[h], off, b)
        /\ oldFileSize' = oldFileSize /\ statSize' = statSize
    BY <1>5 DEF Write, NodeInv, NodesOK
  <2>2. off \in Nat /\ off + 1 <= MaxSize /\ MaxSize \in Nat
    BY FileNodeAssumption
  <2>3. Fits(Len(cachedContent'[h]))
    <3>1. Len(cachedContent'[h]) =
              IF off < Len(cachedContent[h]) THEN Len(cachedContent[h]) ELSE off + 1
      BY <1>3, <2>1, <2>2, WriteAtType
    <3>2. Len(cachedContent[h]) <= MaxSize
      BY <1>1 DEF WholeNode, Fits
    <3> QED
      BY <1>3, <2>2, <3>1, <3>2 DEF Fits
  <2>4. WholeNode(h)'
    BY <1>1, <1>2, <2>1, <2>3 DEF WholeNode, Idle
  <2> QED
    BY <1>2, <2>1, <2>4, NodeStepWhole
<1> QED
  BY <1>4, <1>5

LEMMA FlushWhole ==
    ASSUME NodeInv, WholeInv, NEW h \in Nodes, WholeFiles(h),
           FlushClean(h) \/ BeginFlush(h)
    PROVE  WholeInv'
<1>1. WholeNode(h) /\ Fits(0)
  BY WholeFacts
<1>2. /\ cloud' = cloud /\ role' = role /\ cachedContent' = cachedContent
      /\ dirty' = dirty /\ oldFileSize' = oldFileSize /\ listing' = listing
  BY DEF FlushClean, BeginFlush
<1>3. CASE FlushClean(h)
  <2>1. job' = job /\ statSize' = Updated(GetSize(cachedContent[h], oldFileSize[h]))
    BY <1>3 DEF FlushClean
  <2>2. statSize' = NoEntry \/ Fits(statSize')
    BY <1>1, <2>1 DEF Updated, GetSize, WholeNode
  <2>3. WholeNode(h)'
    BY <1>1, <1>2, <1>3, <2>1 DEF WholeNode, Fresh, Idle, FlushClean
  <2> QED
    BY <1>2, <2>2, <2>3, NodeStepWhole
<1>4. CASE BeginFlush(h)
  <2>1. statSize' = statSize /\ job' = [job EXCEPT ![h] = NewJob("remove", oldFileSize[h], 0)]
    BY <1>4 DEF BeginFlush
  <2>2. job'[h] = NewJob("remove", oldFileSize[h], 0)
    BY <2>1 DEF NodeInv, NodesOK
  <2>3. /\ job'[h].phase = "remove" /\ job'[h].size = oldFileSize[h]
        /\ job'[h].idx = 0 /\ job'[h].trunc = 0
    BY <2>2 DEF NewJob
  <2>4. WholeNode(h)'
    BY <1>1, <1>2, <1>4, <2>3 DEF WholeNode, Fresh, Idle, BeginFlush
  <2> QED
    BY <1>2, <2>1, <2>4, NodeStepWhole
<1> QED
  BY <1>3, <1>4

(* What the request in flight sends is the content, in one piece. *)
LEMMA PieceWhole ==
    ASSUME NodeInv, WholeInv, NEW h \in Nodes, WholeFiles(h)
    PROVE  Piece(cachedContent[h], job[h].size, job[h].idx) = cachedContent[h]
<1>1. Fits(job[h].size) /\ MaxSize <= MaxFileSize
  BY WholeFacts DEF WholeNode
<1> QED
  BY <1>1, WholeSize DEF Piece

LEMMA TransferWhole ==
    ASSUME NodeInv, WholeInv, NEW h \in Nodes, WholeFiles(h), Remove(h) \/ Upload(h)
    PROVE  WholeInv'
<1> DEFINE c == cachedContent[h]
<1>1. /\ WholeNode(h) /\ CloudWhole(cloud) /\ MaxSize <= MaxFileSize
      /\ Name(h) = Whole /\ LastRequest(h) /\ Fits(0) /\ Fits(Len(c))
  BY WholeFacts DEF WholeNode
<1>2. /\ role' = role /\ cachedContent' = cachedContent /\ dirty' = dirty
      /\ oldFileSize' = oldFileSize /\ statSize' = statSize /\ listing' = listing
  BY DEF Remove, Upload, nodeVars
<1>3. CASE Remove(h)
  <2>1. cloud' = Removed(Whole) /\ job' = Loop(h, "upload", Len(c))
    BY <1>1, <1>3 DEF Remove
  <2>2. /\ job'[h].phase = "upload" /\ job'[h].idx = 0 /\ job'[h].size = Len(c)
        /\ job'[h].trunc = job[h].trunc
    BY <2>1, LoopFields, LoopTrunc
  <2>3. WholeNode(h)'
    BY <1>1, <1>2, <1>3, <2>2 DEF WholeNode, Fresh, Idle, Remove
  <2> QED
    BY <1>2, <2>1, <2>3, NodeStepWhole
<1>4. CASE Upload(h)
  <2>1. cloud' = Stored(Whole, c) /\ job' = Loop(h, "cleanup", 0)
    BY <1>1, <1>4, PieceWhole DEF Upload
  <2>2. /\ job'[h].phase = "cleanup" /\ job'[h].idx = 0 /\ job'[h].size = 0
        /\ job'[h].trunc = job[h].trunc
    BY <2>1, LoopFields, LoopTrunc
  <2>3. cloud' = StoredAs(c)
    BY <1>1, <2>1, WholeCloud
  <2>4. WholeNode(h)'
    BY <1>1, <1>2, <1>4, <2>2, <2>3 DEF WholeNode, Fresh, Idle, Upload
  <2> QED
    BY <1>1, <1>2, <2>1, <2>4, NodeStepWhole
<1> QED
  BY <1>3, <1>4

(* A node that is gone. *)
LEMMA DropNodeWhole ==
    ASSUME NodeInv, WholeInv, NEW h \in Nodes, WholeFiles(h), DropNode(h)
    PROVE  WholeNode(h)'
<1>1. Fits(0) /\ Fits(Len(<<>>))
  BY WholeFacts
<1>2. /\ role'[h] = "none" /\ cachedContent'[h] = <<>> /\ dirty'[h] = FALSE
      /\ oldFileSize'[h] = 0 /\ job'[h] = NoJob
  BY DEF DropNode, NodeInv, NodesOK
<1> QED
  BY <1>1, <1>2 DEF WholeNode, Fresh, NoJob

LEMMA EndWhole ==
    ASSUME NodeInv, WholeInv, NEW h \in Nodes, WholeFiles(h),
           Cleanup(h) \/ Release(h) \/ Unlink(h)
    PROVE  WholeInv'
<1>1. /\ WholeNode(h) /\ Fits(0) /\ Fits(Len(cachedContent[h]))
      /\ Name(h) = Whole /\ LastRequest(h)
  BY WholeFacts DEF WholeNode
<1>2. CASE Cleanup(h) /\ role[h] = "handle"
  <2>1. /\ cloud' = cloud /\ listing' = listing /\ role' = role
        /\ cachedContent' = cachedContent /\ dirty'[h] = FALSE
        /\ oldFileSize'[h] = Len(cachedContent[h]) /\ job'[h] = NoJob
        /\ statSize' = Updated(Len(cachedContent[h]))
    BY <1>2 DEF Cleanup, NodeInv, NodesOK
  <2>2. cloud = StoredAs(cachedContent[h])
    BY <1>1, <1>2 DEF WholeNode, Cleanup
  <2>3. WholeNode(h)'
    BY <1>1, <1>2, <2>1, <2>2 DEF WholeNode, NoJob
  <2> QED
    BY <1>1, <2>1, <2>3, NodeStepWhole DEF Updated
<1>3. CASE Cleanup(h) /\ role[h] # "handle"
  <2>1. /\ cloud' = cloud /\ listing' = listing /\ DropNode(h)
        /\ statSize' = Updated(Len(cachedContent[h]))
    BY <1>3 DEF Cleanup
  <2> QED
    BY <1>1, <2>1, DropNodeWhole, NodeStepWhole DEF Updated
<1>4. CASE Release(h)
  BY <1>4, DropNodeWhole, NodeStepWhole DEF Release
<1>5. CASE Unlink(h)
  <2>1. /\ cloud' = Removed(Whole) /\ listing' = listing
        /\ DropNode(h) /\ statSize' = NoEntry
    BY <1>1, <1>5 DEF Unlink
  <2> QED
    BY <2>1, DropNodeWhole, NodeStepWhole
<1> QED
  BY <1>2, <1>3, <1>4, <1>5

LEMMA GiveUpWhole ==
    ASSUME NodeInv, WholeInv, NEW h \in Nodes, WholeFiles(h), GiveUp(h),
           job[h].phase \in {"open", "remove", "upload", "unlink"}
    PROVE  WholeNode(h)'
<1>1. WholeNode(h) /\ Fits(0)
  BY WholeFacts
<1>2. CASE role[h] = "handle" /\ job[h].phase # "open"
  <2>1. UNCHANGED nodeVars /\ job' = [job EXCEPT ![h] = NoJob]
    BY <1>2 DEF GiveUp
  <2>2. job'[h] = NoJob
    BY <2>1 DEF NodeInv, NodesOK
  <2>3. dirty[h] = TRUE
    BY <1>1, <1>2, NodeFacts DEF WholeNode, RoleFits
  <2> QED
    BY <1>1, <1>2, <2>1, <2>2, <2>3 DEF WholeNode, NoJob, nodeVars
<1>3. CASE ~(role[h] = "handle" /\ job[h].phase # "open")
  BY <1>3, DropNodeWhole DEF GiveUp
<1> QED
  BY <1>2, <1>3

LEMMA AgainTrunc ==
    ASSUME NEW j \in Jobs, NEW p, NEW n
    PROVE  LET again == [j EXCEPT !.left = @ - 1, !.idx = 0]
           IN  /\ again.trunc = j.trunc /\ [again EXCEPT !.size = n].trunc = j.trunc
               /\ [again EXCEPT !.phase = p, !.size = n].trunc = j.trunc
BY DEF Jobs

LEMMA RetryWhole ==
    ASSUME NodeInv, WholeInv, NEW h \in Nodes, WholeFiles(h), Retry(h),
           job[h].phase \in {"open", "remove", "upload", "unlink"},
           statSize' = statSize
    PROVE  WholeNode(h)'
<1> DEFINE again == [job[h] EXCEPT !.left = @ - 1, !.idx = 0]
<1>1. WholeNode(h) /\ CachesFit /\ Fits(0) /\ Fits(Len(<<>>))
  BY WholeFacts
<1>2. job \in [Nodes -> Jobs] /\ job[h] \in Jobs
  BY DEF NodeInv, NodesOK
<1>3. CASE role[h] = "handle" /\ job[h].phase = "open"
  <2>1. /\ statSize # NoEntry /\ role' = role /\ dirty' = dirty
        /\ cachedContent' = [cachedContent EXCEPT ![h] = <<>>]
        /\ oldFileSize' = [oldFileSize EXCEPT ![h] = statSize]
        /\ job' = [job EXCEPT ![h] = [again EXCEPT !.size = statSize]]
    BY <1>3 DEF Retry
  <2>2. cachedContent'[h] = <<>> /\ oldFileSize'[h] = statSize /\ Fits(statSize)
    BY <1>1, <2>1 DEF NodeInv, NodesOK, CachesFit
  <2>3. job'[h] = [again EXCEPT !.size = statSize]
    BY <1>2, <2>1
  <2>4. /\ job'[h].phase = "open" /\ job'[h].idx = 0 /\ job'[h].size = statSize
        /\ job'[h].trunc = job[h].trunc
    BY <1>2, <1>3, <2>3, AgainFields, AgainTrunc
  <2> QED
    BY <1>1, <1>3, <2>1, <2>2, <2>4 DEF WholeNode, Fresh, Idle
<1>4. CASE role[h] = "truncate"
  <2>1. /\ cachedContent' = [cachedContent EXCEPT ![h] = <<>>]
        /\ oldFileSize' = [oldFileSize EXCEPT ![h] = 0]
        /\ dirty' = [dirty EXCEPT ![h] = FALSE] /\ role' = role
        /\ job' = [job EXCEPT ![h] = [again EXCEPT !.phase = "open", !.size = 0]]
    BY <1>4 DEF Retry
  <2>2. cachedContent'[h] = <<>> /\ oldFileSize'[h] = 0 /\ dirty'[h] = FALSE
    BY <2>1 DEF NodeInv, NodesOK
  <2>3. job'[h] = [again EXCEPT !.phase = "open", !.size = 0]
    BY <1>2, <2>1
  <2>4. /\ job'[h].phase = "open" /\ job'[h].idx = 0 /\ job'[h].size = 0
        /\ job'[h].trunc = job[h].trunc
    BY <1>2, <2>3, AgainFields, AgainTrunc
  <2> QED
    BY <1>1, <1>4, <2>1, <2>2, <2>4 DEF WholeNode, Fresh, Idle
<1>5. CASE role[h] = "handle" /\ job[h].phase # "open"
  <2>1. /\ UNCHANGED nodeVars
        /\ job' = [job EXCEPT ![h] = [again EXCEPT !.phase = "remove", !.size = oldFileSize[h]]]
    BY <1>5 DEF Retry
  <2>2. job'[h] = [again EXCEPT !.phase = "remove", !.size = oldFileSize[h]]
    BY <1>2, <2>1
  <2>3. /\ job'[h].phase = "remove" /\ job'[h].idx = 0 /\ job'[h].size = oldFileSize[h]
        /\ job'[h].trunc = job[h].trunc
    BY <1>2, <2>2, AgainFields, AgainTrunc
  <2>4. dirty[h] = TRUE
    BY <1>1, <1>5, NodeFacts DEF WholeNode, RoleFits
  <2> QED
    BY <1>1, <1>5, <2>1, <2>3, <2>4 DEF WholeNode, Fresh, Idle, nodeVars
<1>6. CASE role[h] = "unlink"
  <2>1. UNCHANGED nodeVars /\ job' = [job EXCEPT ![h] = again]
    BY <1>6 DEF Retry
  <2>2. job'[h] = again
    BY <1>2, <2>1
  <2>3. /\ job'[h].phase = job[h].phase /\ job'[h].idx = 0 /\ job'[h].size = job[h].size
        /\ job'[h].trunc = job[h].trunc
    BY <1>2, <2>2, AgainFields, AgainTrunc
  <2>4. job[h].phase = "unlink"
    BY <1>6, NodeFacts DEF RoleFits
  <2> QED
    BY <1>1, <1>6, <2>1, <2>3, <2>4 DEF WholeNode, Fresh, Idle, nodeVars
<1> QED
  BY <1>3, <1>4, <1>5, <1>6 DEF Retry

LEMMA FailureWhole ==
    ASSUME NodeInv, WholeInv, NEW h \in Nodes, WholeFiles(h), Refused(h) \/ Fault(h)
    PROVE  WholeInv'
<1>1. Name(h) = Whole /\ Fits(Len(cachedContent[h]))
  BY WholeFacts DEF WholeNode
<1>2. CASE Refused(h)
  BY <1>2, GiveUpWhole, NodeStepWhole DEF Refused
<1>3. CASE Fault(h)
  <2>1. Effect(h) = cloud \/ Effect(h) = Removed(Whole)
            \/ Effect(h) = Stored(Whole, cachedContent[h])
    BY <1>1, PieceWhole DEF Effect
  <2>2. cloud' = cloud \/ cloud' = Removed(Whole)
            \/ \E t : Fits(Len(t)) /\ cloud' = Stored(Whole, t)
    BY <1>1, <1>3, <2>1 DEF Fault
  <2>3. /\ statSize' = statSize /\ listing' = listing
        /\ job[h].phase \in {"open", "remove", "upload", "unlink"}
        /\ Retry(h) \/ GiveUp(h)
    BY <1>3 DEF Fault
  <2>4. WholeNode(h)'
    BY <2>3, RetryWhole, GiveUpWhole
  <2> QED
    BY <2>2, <2>3, <2>4, NodeStepWhole
<1> QED
  BY <1>2, <1>3

-----------------------------------------------------------------------------
LEMMA WholeInit == Init => WholeInv
<1> SUFFICES ASSUME Init PROVE WholeInv
  OBVIOUS
<1>1. Fits(0) /\ Fits(Len(<<>>))
  BY EmptySeq, FileNodeAssumption DEF Fits
<1>2. CloudWhole(cloud) /\ CachesFit
  BY DEF Init, CloudWhole, CachesFit
<1>3. ASSUME NEW h \in Nodes PROVE WholeNode(h)
  BY <1>1 DEF Init, WholeNode, NoJob, Fresh
<1> QED
  BY <1>2, <1>3 DEF WholeInv

LEMMA WholeStep ==
    ASSUME NEW h \in Nodes, WholeFiles(h), NodeInv, WholeInv, [Next]_vars
    PROVE  WholeInv'
<1>1. CASE UNCHANGED vars
  BY <1>1 DEF vars, WholeInv, CloudWhole, CachesFit, WholeNode, Fresh, Idle
<1>2. Mknod \/ (\E r \in Listers : Ls(r) \/ PutListing(r)) => WholeInv'
  BY CacheStepWhole
<1>3. BeginOpen(h) \/ BeginUnlink(h) \/ (\E n \in TruncateSizes : BeginTruncate(h, n))
          => WholeInv'
  BY BeginWhole
<1>4. (\E n \in TruncateSizes : TruncateOpen(h, n)) => WholeInv'
  BY WriteWhole
<1>5. (\E off \in 0..(MaxSize - 1), b \in Bytes : Write(h, off, b)) => WholeInv'
  BY WriteWhole
<1>6. FlushClean(h) \/ BeginFlush(h) => WholeInv'
  BY FlushWhole
<1>7. Release(h) \/ Request(h) \/ Fault(h) => WholeInv'
  BY DownloadWhole, TransferWhole, EndWhole, FailureWhole DEF Request
<1> QED
  BY <1>1, <1>2, <1>3, <1>4, <1>5, <1>6, <1>7 DEF Next, WholeFiles, Alone

-----------------------------------------------------------------------------
(* The instances that have a node, and both invariants, each where it holds. *)
OneSplitFile == \E h \in Nodes : SplitFiles(h)
OneWholeFile == \E h \in Nodes : WholeFiles(h)

FileInv == NodeInv /\ (OneSplitFile => LayoutInv) /\ (OneWholeFile => WholeInv)

LEMMA FileInvariant == Spec => []FileInv
<1>1. Init => FileInv
  BY InitFits, LayoutInit, WholeInit DEF FileInv
<1>2. FileInv /\ [Next]_vars => FileInv'
  BY StepFits, LayoutStep, WholeStep DEF FileInv, OneSplitFile, OneWholeFile
<1> QED
  BY <1>1, <1>2, PTL DEF Spec, Safety

LEMMA WhichInvariant ==
    ASSUME NEW h \in Nodes, SplitFiles(h) \/ WholeFiles(h), FileInv, NothingHalfDone
    PROVE  /\ NodeInv /\ Alone(h)
           /\ \/ SplitFiles(h) /\ Laid(h)
              \/ WholeFiles(h) /\ WholeInv /\ WholeNode(h)
<1>1. CASE WholeFiles(h)
  BY <1>1 DEF FileInv, OneWholeFile, WholeFiles, WholeInv
<1>2. CASE ~WholeFiles(h)
  <2>1. SplitFiles(h) /\ IsCompound(MaxSize)
    BY <1>2, FileNodeAssumption, CompoundAssumption
       DEF WholeFiles, SplitFiles, IsCompound
  <2> QED
    BY <2>1 DEF FileInv, OneSplitFile, SplitFiles, LayoutInv, NothingHalfDone
<1> QED
  BY <1>1, <1>2

(* Only the last request of an unlink takes the size out of the cache. *)
LEMMA EntryLeaves ==
    ASSUME NodeInv, NEW h \in Nodes, Alone(h), [Next]_vars,
           role[h] = "unlink", statSize # NoEntry, statSize' = NoEntry
    PROVE  Unlink(h) /\ LastRequest(h)
<1>1. job[h].phase = "unlink"
  BY NodeFacts DEF RoleFits
<1>2. CASE UNCHANGED vars
  BY <1>2 DEF vars
<1>3. ~Mknod
  BY DEF Mknod, Unused
<1>4. ASSUME NEW r \in Listers, Ls(r) \/ PutListing(r) PROVE FALSE
  BY <1>4 DEF Ls, PutListing
<1>5. ~BeginOpen(h) /\ ~FlushClean(h) /\ ~BeginFlush(h) /\ ~Release(h) /\ ~BeginUnlink(h)
  BY DEF BeginOpen, FlushClean, BeginFlush, Release, BeginUnlink, Unused
<1>6. ASSUME NEW n, BeginTruncate(h, n) \/ TruncateOpen(h, n) PROVE FALSE
  BY <1>6 DEF BeginTruncate, TruncateOpen, Writable
<1>7. ASSUME NEW off, NEW b, Write(h, off, b) PROVE FALSE
  BY <1>7 DEF Write, Writable
<1>8. ~Download(h) /\ ~Remove(h) /\ ~Upload(h) /\ ~Cleanup(h)
  BY <1>1 DEF Download, Remove, Upload, Cleanup
<1>9. ~Refused(h) /\ ~Fault(h)
  BY DEF Refused, Fault
<1>10. Unlink(h)
  BY <1>2, <1>3, <1>4, <1>5, <1>6, <1>7, <1>8, <1>9 DEF Next, Request, Alone
<1> QED
  BY <1>10 DEF Unlink

(***************************************************************************)
(* A node that is open, at rest and clean shows exactly what the cloud     *)
(* stores: for files of any number of parts of any size, and for files of  *)
(* one part also when truncates, listings and given up calls interfere.    *)
(***************************************************************************)
THEOREM FlushedContentIsDurable ==
    ASSUME OneSplitFile \/ OneWholeFile PROVE Spec => []FlushedIsDurable
<1>1. FileInv => FlushedIsDurable
  <2>1. PICK h \in Nodes : SplitFiles(h) \/ WholeFiles(h)
    BY DEF OneSplitFile, OneWholeFile
  <2> SUFFICES ASSUME FileInv, NothingHalfDone,
                      role[h] = "handle", Idle(h), ~dirty[h]
               PROVE  cloud = StoredAs(cachedContent[h])
    BY <2>1 DEF FlushedIsDurable, SplitFiles, WholeFiles, Alone
  <2>2. CASE Laid(h)
    BY <2>2, WhichSituation DEF Clean
  <2>3. CASE WholeNode(h)
    BY <2>3 DEF WholeNode
  <2> QED
    BY <2>1, <2>2, <2>3, WhichInvariant
<1> QED
  BY <1>1, FileInvariant, PTL

(***************************************************************************)
(* When unlink succeeds no part of the file is left in the cloud, also     *)
(* when requests of it or of earlier flushes failed and were repeated.     *)
(***************************************************************************)
THEOREM UnlinkedFileIsGone ==
    ASSUME OneSplitFile \/ OneWholeFile PROVE Spec => UnlinkLeavesNothing
<1>1. FileInv /\ [Next]_vars =>
         [\A h \in Nodes :
             NothingHalfDone /\ role[h] = "unlink" /\ statSize' = NoEntry
                 => DOMAIN cloud' = {}]_vars
  <2>1. PICK h \in Nodes : SplitFiles(h) \/ WholeFiles(h)
    BY DEF OneSplitFile, OneWholeFile
  <2> SUFFICES ASSUME FileInv, [Next]_vars, NothingHalfDone,
                      role[h] = "unlink", statSize' = NoEntry
               PROVE  DOMAIN cloud' = {}
    BY <2>1 DEF SplitFiles, WholeFiles, Alone
  <2>2. NodeInv /\ Alone(h)
    BY <2>1, WhichInvariant
  <2>3. CASE Laid(h)
    <3>1. job[h].phase = "unlink"
      BY <2>2, NodeFacts DEF RoleFits
    <3>2. statSize # NoEntry
      BY <2>3, <3>1, WhichSituation DEF Unlinked
    <3>3. Unlink(h)
      BY <2>2, <3>2, EntryLeaves
    <3> QED
      BY <2>2, <2>3, <3>3, UnlinkLays
  <2>4. CASE WholeFiles(h) /\ WholeInv /\ WholeNode(h)
    <3>1. Unlink(h)
      BY <2>2, <2>4, EntryLeaves DEF WholeNode
    <3>2. Name(h) = Whole /\ MaxSize <= MaxFileSize /\ CloudWhole(cloud)
      BY <2>2, <2>4, WholeFacts
    <3> QED
      BY <3>1, <3>2, WholeCloud DEF Unlink
  <2> QED
    BY <2>1, <2>3, <2>4, WhichInvariant
<1> QED
  BY <1>1, FileInvariant, PTL DEF UnlinkLeavesNothing, Spec, Safety

(***************************************************************************)
(* Between operations the size in the stat cache, from which the next open *)
(* and unlink derive the names of the parts, is the size a listing of the  *)
(* stored parts yields.                                                    *)
(***************************************************************************)
THEOREM StatSizeIsListed ==
    ASSUME OneSplitFile PROVE Spec => []StatIsListed
<1>1. FileInv => StatIsListed
  <2> SUFFICES ASSUME FileInv, ~halfDone, Unused, statSize # NoEntry
               PROVE  statSize = ListedSize(cloud)
    BY DEF StatIsListed
  <2>1. PICK h \in Nodes : SplitFiles(h)
    BY DEF OneSplitFile
  <2>2. Laid(h) /\ role[h] = "none"
    BY DEF FileInv, LayoutInv, Unused
  <2> QED
    BY <2>2, WhichSituation DEF AtRest, Known
<1> QED
  BY <1>1, FileInvariant, PTL
=============================================================================
