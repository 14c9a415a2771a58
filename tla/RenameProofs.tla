---------------------------- MODULE RenameProofs ----------------------------
(***************************************************************************)
(* Proofs about renames, for any directories, names and sizes of files,    *)
(* any number of renames, and any failures: the types; that no part is     *)
(* lost on the way while the way is clear; and that a rename which         *)
(* succeeds has the effect it was asked for.                               *)
(***************************************************************************)
EXTENDS Rename, CompoundProofs

FileBytes == Files \X Nat
StatSizes == Nat \cup {NoEntry}
Places == Paths \X Names

CloudOK(cl) ==
    /\ DOMAIN cl \subseteq Places
    /\ \A n \in DOMAIN cl : cl[n] \in Seq(FileBytes)
    /\ \A p \in Paths : IsFiniteSet(DOMAIN Layout(cl, p))

TypeInv == CloudOK(cloud) /\ CloudOK(before.cloud) /\ TypeOK

-----------------------------------------------------------------------------
(* Layouts. *)

LEMMA LayoutAt ==
    ASSUME NEW cl, DOMAIN cl \subseteq Places, NEW p
    PROVE  /\ DOMAIN Layout(cl, p) = {x \in Names : <<p, x>> \in DOMAIN cl}
           /\ \A x \in DOMAIN Layout(cl, p) : Layout(cl, p)[x] = cl[<<p, x>>]
<1>1. ASSUME NEW x \in Names, <<p, x>> \in DOMAIN cl PROVE x \in DOMAIN Layout(cl, p)
  <2>1. <<p, x>>[1] = p /\ <<p, x>>[2] = x
    OBVIOUS
  <2>2. <<p, x>> \in {m \in DOMAIN cl : m[1] = p}
    BY <1>1, <2>1, Zenon
  <2>3. DOMAIN Layout(cl, p) = {n[2] : n \in {m \in DOMAIN cl : m[1] = p}}
    BY Zenon DEF Layout
  <2> QED
    BY <2>1, <2>2, <2>3, Zenon
<1>2. ASSUME NEW x \in DOMAIN Layout(cl, p) PROVE x \in Names /\ <<p, x>> \in DOMAIN cl
  <2>1. PICK m \in DOMAIN cl : m[1] = p /\ m[2] = x
    BY Zenon DEF Layout
  <2>2. m = <<m[1], m[2]>> /\ m[2] \in Names
    BY DEF Places
  <2> QED
    BY <2>1, <2>2
<1>3. \A x \in DOMAIN Layout(cl, p) : Layout(cl, p)[x] = cl[<<p, x>>]
  BY Zenon DEF Layout
<1> QED
  BY <1>1, <1>2, <1>3

LEMMA ListedTypes ==
    ASSUME NEW cl, CloudOK(cl), NEW p \in Paths
    PROVE  /\ Listed(cl, p) \in StatSizes
           /\ Listed(cl, p) = NoEntry <=> DOMAIN Layout(cl, p) = {}
<1> DEFINE lay == Layout(cl, p)
<1>1. /\ DOMAIN lay = {x \in Names : <<p, x>> \in DOMAIN cl}
      /\ \A x \in DOMAIN lay : lay[x] = cl[<<p, x>>]
  BY LayoutAt, Zenon DEF CloudOK
<1>2. IsFiniteSet(DOMAIN lay)
  BY DEF CloudOK
<1>3. ListedSize(lay) \in StatSizes /\ (ListedSize(lay) = NoEntry <=> DOMAIN lay = {})
  <2> HIDE DEF lay
  <2>1. \A x \in DOMAIN lay : lay[x] \in Seq(FileBytes)
    BY <1>1 DEF CloudOK
  <2> QED
    BY <1>2, <2>1, ListedSizeType DEF StatSizes
<1> QED
  BY <1>3 DEF Listed

LEMMA WithoutOK ==
    ASSUME NEW cl, CloudOK(cl), NEW n PROVE CloudOK(Without(cl, n))
<1> DEFINE new == Without(cl, n)
<1>1. DOMAIN new = DOMAIN cl \ {n} /\ \A m \in DOMAIN new : new[m] = cl[m]
  BY DEF Without
<1> HIDE DEF new
<1>2. DOMAIN new \subseteq Places /\ \A m \in DOMAIN new : new[m] \in Seq(FileBytes)
  BY <1>1 DEF CloudOK
<1>3. ASSUME NEW p \in Paths PROVE IsFiniteSet(DOMAIN Layout(new, p))
  <2>1. DOMAIN Layout(cl, p) = {x \in Names : <<p, x>> \in DOMAIN cl}
    BY LayoutAt DEF CloudOK
  <2>2. DOMAIN Layout(new, p) = {x \in Names : <<p, x>> \in DOMAIN new}
    BY <1>2, LayoutAt
  <2>3. DOMAIN Layout(new, p) \subseteq DOMAIN Layout(cl, p)
    BY <1>1, <2>1, <2>2
  <2> QED
    BY <2>3, FS_Subset DEF CloudOK
<1>4. CloudOK(new)
  BY <1>2, <1>3 DEF CloudOK
<1> QED
  BY <1>4 DEF new

LEMMA MovedOK ==
    ASSUME NEW cl, CloudOK(cl), NEW from \in DOMAIN cl, NEW b \in Paths, NEW y \in Names
    PROVE  CloudOK(Moved(cl, from, <<b, y>>))
<1> DEFINE to == <<b, y>>
           new == Moved(cl, from, to)
<1>1. /\ DOMAIN new = (DOMAIN cl \ {from}) \cup {to}
      /\ \A m \in DOMAIN new : new[m] = IF m = to THEN cl[from] ELSE cl[m]
  BY DEF Moved
<1>2. to \in Places
  BY DEF Places
<1> HIDE DEF new
<1>3. DOMAIN new \subseteq Places /\ \A m \in DOMAIN new : new[m] \in Seq(FileBytes)
  <2> HIDE DEF to
  <2> QED
    BY <1>1, <1>2 DEF CloudOK
<1>4. ASSUME NEW p \in Paths PROVE IsFiniteSet(DOMAIN Layout(new, p))
  <2>1. DOMAIN Layout(cl, p) = {x \in Names : <<p, x>> \in DOMAIN cl}
    BY LayoutAt DEF CloudOK
  <2>2. DOMAIN Layout(new, p) = {x \in Names : <<p, x>> \in DOMAIN new}
    BY <1>3, LayoutAt
  <2>3. DOMAIN Layout(new, p) \subseteq DOMAIN Layout(cl, p) \cup {y}
    BY <1>1, <2>1, <2>2
  <2>4. IsFiniteSet(DOMAIN Layout(cl, p) \cup {y})
    BY FS_AddElement DEF CloudOK
  <2> QED
    BY <2>3, <2>4, FS_Subset
<1>5. CloudOK(new)
  BY <1>3, <1>4 DEF CloudOK
<1> QED
  BY <1>5 DEF new

-----------------------------------------------------------------------------
(* Types. *)

LEMMA PathTypes ==
    /\ Files \subseteq Paths
    /\ \A p \in Files : Temp(p) \in Paths
    /\ \A p, q \in Paths : [q EXCEPT !.dir = p.dir] \in Paths
BY DEF Files, Paths, Temp

LEMMA PlanTypes ==
    ASSUME NEW old \in Files, NEW new \in Files, NEW flag, NEW oldSize \in Nat,
           NEW newSize \in StatSizes
    PROVE  Plan(old, new, flag, oldSize, newSize) \in Seq(Calls)
<1>1. old \in Paths /\ new \in Paths /\ Temp(new) \in Paths
  BY PathTypes
<1>2. NodeRename(oldSize, old, new) \in Calls
  BY <1>1 DEF NodeRename, Calls
<1>3. CASE newSize # NoEntry
  <2>1. newSize \in Nat
    BY <1>3 DEF StatSizes
  <2>2. /\ NodeRename(newSize, new, Temp(new)) \in Calls
        /\ NodeRename(newSize, Temp(new), old) \in Calls
        /\ NodeRemove(newSize, new) \in Calls
    BY <1>1, <2>1 DEF NodeRename, NodeRemove, Calls
  <2>3. CASE flag = "EXCHANGE"
    <3>1. Plan(old, new, flag, oldSize, newSize) =
            <<NodeRename(newSize, new, Temp(new)), NodeRename(oldSize, old, new),
              NodeRename(newSize, Temp(new), old)>>
      BY <1>3, <2>3 DEF Plan
    <3> QED
      BY <1>2, <2>2, <3>1
  <2>4. CASE flag # "EXCHANGE"
    <3>1. Plan(old, new, flag, oldSize, newSize) =
            <<NodeRemove(newSize, new), NodeRename(oldSize, old, new)>>
      BY <1>3, <2>4 DEF Plan
    <3> QED
      BY <1>2, <2>2, <3>1
  <2> QED
    BY <2>3, <2>4
<1>4. CASE newSize = NoEntry
  <2>1. Plan(old, new, flag, oldSize, newSize) = <<NodeRename(oldSize, old, new)>>
    BY <1>4 DEF Plan
  <2> QED
    BY <1>2, <2>1
<1> QED
  BY <1>3, <1>4

(* A rename under way has the fields of one. *)
LEMMA JobFields ==
    ASSUME job \in Jobs, job # NoJob
    PROVE  /\ job.phase \in {"lookup", "requests"}
           /\ job.old \in Files /\ job.new \in Files /\ job.flag \in Flags
           /\ job.oldSize \in Nat /\ job.left \in 1..Retries /\ job.blind \in BOOLEAN
           /\ job.plan \in Seq(Calls) /\ job.call \in Nat \ {0} /\ job.part \in Nat
           /\ job.moving \in BOOLEAN
BY DEF Jobs

LEMMA JobPhase ==
    ASSUME job.phase \in {"lookup", "requests"} PROVE job # NoJob
BY DEF NoJob

LEMMA CallTypes ==
    ASSUME job \in Jobs, Asking
    PROVE  /\ job # NoJob /\ Call \in Calls
           /\ Call.from \in Paths /\ Call.to \in Paths /\ Call.size \in Nat
           /\ Call.op \in {"rename", "remove"}
           /\ Via(Call) \in Paths
           /\ NameAt(Call.size, job.part) \in Names
<1>1. job # NoJob
  BY JobPhase DEF Asking
<1>2. job.plan \in Seq(Calls) /\ job.call \in 1..Len(job.plan) /\ job.part \in Nat
  BY <1>1, JobFields DEF Asking
<1>3. Call \in Calls
  BY <1>2 DEF Call
<1>4. /\ Call.from \in Paths /\ Call.to \in Paths /\ Call.size \in Nat
      /\ Call.op \in {"rename", "remove"}
  BY <1>3 DEF Calls
<1>5. Via(Call) \in Paths
  BY <1>4, PathTypes DEF Via
<1> QED
  BY <1>1, <1>2, <1>3, <1>4, <1>5, CountType

LEMMA EffectOK ==
    ASSUME CloudOK(cloud), job \in Jobs, Asking,
           Call.op = "rename" => From \in DOMAIN cloud
    PROVE  CloudOK(Effect)
<1>1. CASE Call.op = "remove"
  BY <1>1, WithoutOK DEF Effect
<1>2. CASE Call.op # "remove"
  <2>1. From \in DOMAIN cloud
    BY <1>2, CallTypes
  <2>2. PICK b \in Paths : To = <<b, NameAt(Call.size, job.part)>>
    BY CallTypes DEF To, PartOf
  <2> QED
    BY <1>2, <2>1, <2>2, CallTypes, MovedOK DEF Effect
<1> QED
  BY <1>1, <1>2

JobRecords == Jobs \ {NoJob}

LEMMA JobRecordsAre ==
    JobRecords = [phase : {"lookup", "requests"}, old : Files, new : Files, flag : Flags,
                  oldSize : Nat, left : 1..Retries, blind : BOOLEAN,
                  plan : Seq(Calls), call : Nat \ {0}, part : Nat, moving : BOOLEAN]
<1> DEFINE Fields == [phase : {"lookup", "requests"}, old : Files, new : Files,
                      flag : Flags, oldSize : Nat, left : 1..Retries, blind : BOOLEAN,
                      plan : Seq(Calls), call : Nat \ {0}, part : Nat, moving : BOOLEAN]
<1>1. \A r \in Fields : r.phase \in {"lookup", "requests"}
  OBVIOUS
<1>2. Jobs = Fields \cup {NoJob}
  BY DEF Jobs
<1> HIDE DEF Fields
<1>3. NoJob \notin Fields
  BY <1>1 DEF NoJob
<1>4. JobRecords = Fields
  BY <1>2, <1>3 DEF JobRecords
<1> QED
  BY <1>4 DEF Fields

LEMMA AttemptType ==
    ASSUME job \in Jobs, job # NoJob, NEW phase \in {"lookup", "requests"},
           NEW plan \in Seq(Calls)
    PROVE  LET next == Attempt(phase, plan)
           IN  /\ next \in JobRecords
               /\ next.old = job.old /\ next.new = job.new /\ next.flag = job.flag
               /\ next.oldSize = job.oldSize /\ next.left = job.left
               /\ next.blind = job.blind /\ next.phase = phase /\ next.plan = plan
               /\ next.call = 1 /\ next.part = 0 /\ next.moving = FALSE
<1> DEFINE first == [job EXCEPT !.phase = phase, !.plan = plan]
<1>1. job \in JobRecords
  BY DEF JobRecords
<1>2. /\ first \in JobRecords
      /\ first.old = job.old /\ first.new = job.new /\ first.flag = job.flag
      /\ first.oldSize = job.oldSize /\ first.left = job.left /\ first.blind = job.blind
      /\ first.phase = phase /\ first.plan = plan
  <2>1. first \in JobRecords
    BY <1>1, JobRecordsAre
  <2>2. /\ first.old = job.old /\ first.new = job.new /\ first.flag = job.flag
        /\ first.oldSize = job.oldSize /\ first.left = job.left /\ first.blind = job.blind
        /\ first.phase = phase /\ first.plan = plan
    BY <1>1, JobRecordsAre
  <2> QED
    BY <2>1, <2>2
<1> DEFINE next == [first EXCEPT !.call = 1, !.part = 0, !.moving = FALSE]
<1>3. Attempt(phase, plan) = next
  BY DEF Attempt
<1> HIDE DEF first
<1>4. next \in JobRecords
  <2>1. first \in JobRecords
    BY <1>2
  <2>2. [first EXCEPT !.call = 1] \in JobRecords
    BY <2>1, JobRecordsAre
  <2>3. [first EXCEPT !.call = 1, !.part = 0] \in JobRecords
    BY <2>2, JobRecordsAre
  <2> QED
    BY <2>3, JobRecordsAre
<1>5. /\ "old" \in DOMAIN first /\ "new" \in DOMAIN first /\ "flag" \in DOMAIN first
      /\ "oldSize" \in DOMAIN first /\ "left" \in DOMAIN first /\ "blind" \in DOMAIN first
      /\ "phase" \in DOMAIN first /\ "plan" \in DOMAIN first
      /\ "call" \in DOMAIN first /\ "part" \in DOMAIN first /\ "moving" \in DOMAIN first
  <2>1. \A r \in JobRecords :
           DOMAIN r = {"phase", "old", "new", "flag", "oldSize", "left", "blind", "plan",
                       "call", "part", "moving"}
    BY JobRecordsAre
  <2> QED
    BY <1>2, <2>1, Zenon
<1>6. /\ next.old = first.old /\ next.new = first.new /\ next.flag = first.flag
      /\ next.oldSize = first.oldSize /\ next.left = first.left /\ next.blind = first.blind
      /\ next.phase = first.phase /\ next.plan = first.plan
      /\ next.call = 1 /\ next.part = 0 /\ next.moving = FALSE
  BY <1>5
<1> HIDE DEF next
<1> QED
  BY <1>2, <1>3, <1>4, <1>6

LEMMA CacheTypes ==
    ASSUME TypeInv, NEW p \in Paths
    PROVE  /\ SizeOf(p) \in StatSizes
           /\ Filled(p.dir) \in [Paths -> StatSizes]
           /\ AfterGetattr(p) \in [Paths -> StatSizes]
<1>1. \A q \in Paths : stat[q] \in StatSizes /\ Listed(cloud, q) \in StatSizes
  BY ListedTypes DEF TypeInv, TypeOK, StatSizes
<1>2. Filled(p.dir) \in [Paths -> StatSizes]
  BY <1>1 DEF Filled
<1> QED
  BY <1>1, <1>2 DEF SizeOf, AfterGetattr, TypeInv, TypeOK, StatSizes

LEMMA AdvanceType ==
    ASSUME job \in Jobs, Asking
    PROVE  Advance \in JobRecords
<1>1. job \in JobRecords
  BY CallTypes DEF JobRecords
<1>2. [job EXCEPT !.moving = TRUE] \in JobRecords /\ [job EXCEPT !.moving = FALSE] \in JobRecords
  BY <1>1, JobRecordsAre
<1> DEFINE stopped == [job EXCEPT !.moving = FALSE]
<1>3. stopped.part = job.part /\ stopped.call = job.call /\ job.part \in Nat /\ job.call \in Nat
  BY <1>1, JobRecordsAre
<1>4. [job EXCEPT !.moving = FALSE, !.part = @ + 1] \in JobRecords
  <2>1. [stopped EXCEPT !.part = job.part + 1] \in JobRecords
    <3>1. stopped \in JobRecords
      BY <1>2
    <3> HIDE DEF stopped
    <3> QED
      BY <1>3, <3>1, JobRecordsAre
  <2> QED
    BY <1>3, <2>1
<1>5. [job EXCEPT !.moving = FALSE, !.part = 0, !.call = @ + 1] \in JobRecords
  <2> DEFINE over == [stopped EXCEPT !.part = 0]
  <2>1. over \in JobRecords
    BY <1>2, JobRecordsAre
  <2>2. over.call = job.call
    BY <1>1, JobRecordsAre
  <2>3. [over EXCEPT !.call = job.call + 1] \in JobRecords
    <3> HIDE DEF over
    <3> QED
      BY <1>3, <2>1, JobRecordsAre
  <2> QED
    BY <2>2, <2>3
<1> QED
  BY <1>2, <1>4, <1>5 DEF Advance

(* The two ways an attempt begins after a failure. *)
LEMMA BlindAttemptType ==
    ASSUME job \in Jobs, LookUpFails PROVE job' \in JobRecords
<1>1. job # NoJob
  BY JobPhase DEF LookUpFails
<1> DEFINE plan == Plan(job.old, job.new, job.flag, job.oldSize, NoEntry)
           next == Attempt("requests", plan)
<1>2. plan \in Seq(Calls)
  BY <1>1, JobFields, PlanTypes DEF StatSizes
<1>3. next \in JobRecords /\ job' = [next EXCEPT !.blind = TRUE]
  BY <1>1, <1>2, AttemptType DEF LookUpFails
<1> HIDE DEF next
<1> QED
  BY <1>3, JobRecordsAre

LEMMA NextAttemptType ==
    ASSUME job \in Jobs, Asking, job.left > 1
    PROVE  [Attempt("lookup", <<>>) EXCEPT !.left = @ - 1] \in JobRecords
<1> DEFINE next == Attempt("lookup", <<>>)
<1>1. next \in JobRecords /\ next.left = job.left /\ job.left \in 1..Retries
  <2>1. job # NoJob /\ <<>> \in Seq(Calls)
    BY JobPhase, EmptySeq DEF Asking
  <2> QED
    BY <2>1, AttemptType, JobFields
<1> HIDE DEF next
<1>2. next.left - 1 \in 1..Retries
  BY <1>1, RenameAssumption
<1>3. [next EXCEPT !.left = @ - 1] \in JobRecords
  BY <1>1, <1>2, JobRecordsAre
<1> QED
  BY <1>3 DEF next

LEMMA NamesOfSize ==
    ASSUME NEW size \in Nat PROVE NamesOf(size) \subseteq Names /\ IsFiniteSet(NamesOf(size))
<1>1. Count(size) \in Nat \ {0}
  BY CountType
<1>2. NamesOf(size) \subseteq (0..(Count(size) - 1)) \cup {Whole}
  BY <1>1 DEF NamesOf, NamesFrom, NameAt
<1>3. IsFiniteSet((0..(Count(size) - 1)) \cup {Whole})
  <2>1. 0 \in Int /\ Count(size) - 1 \in Int
    BY <1>1
  <2>2. IsFiniteSet(0..(Count(size) - 1))
    BY <2>1, FS_Interval
  <2> QED
    BY <2>2, FS_AddElement
<1>4. NamesOf(size) \subseteq Names
  BY CountType DEF NamesOf, NamesFrom
<1> QED
  BY <1>2, <1>3, <1>4, FS_Subset

LEMMA TypeInit == Init => TypeInv
<1> SUFFICES ASSUME Init PROVE TypeInv
  OBVIOUS
<1>1. PICK size \in [Files -> Sizes \cup {NoEntry}] :
         LET layout == [p \in {f \in Files : size[f] # NoEntry} |->
                           StoredAs([i \in 1..size[p] |-> <<p, i>>])]
             names == UNION {{p} \X DOMAIN layout[p] : p \in DOMAIN layout}
         IN  cloud = [n \in names |-> layout[n[1]][n[2]]]
  BY Zenon DEF Init
<1> DEFINE stored == {f \in Files : size[f] # NoEntry}
           bytes(p) == [i \in 1..size[p] |-> <<p, i>>]
           layout == [p \in stored |-> StoredAs(bytes(p))]
           names == UNION {{p} \X DOMAIN layout[p] : p \in stored}
<1>2. ASSUME NEW p \in stored
      PROVE  /\ bytes(p) \in Seq(FileBytes) /\ Len(bytes(p)) \in Nat
             /\ DOMAIN layout[p] = NamesOf(Len(bytes(p)))
             /\ \A x \in DOMAIN layout[p] : layout[p][x] \in Seq(FileBytes)
  <2>1. size[p] \in Nat /\ p \in Files
    BY RenameAssumption
  <2>2. bytes(p) \in [1..size[p] -> FileBytes]
    BY <2>1 DEF FileBytes
  <2>3. bytes(p) \in Seq(FileBytes) /\ Len(bytes(p)) \in Nat
    <3> HIDE DEF bytes
    <3> QED
      BY <2>1, <2>2, LenDomain
  <2>4. layout[p] = StoredAs(bytes(p))
    OBVIOUS
  <2>5. DOMAIN layout[p] = NamesOf(Len(bytes(p)))
    BY <2>3, <2>4, StoredNames, Zenon
  <2>6. ASSUME NEW x \in DOMAIN layout[p] PROVE layout[p][x] \in Seq(FileBytes)
    <3> HIDE DEF bytes
    <3>1. PICK k \in 0..(Count(Len(bytes(p))) - 1) : x = NameAt(Len(bytes(p)), k)
      BY <2>5, <2>6 DEF NamesOf, NamesFrom
    <3> QED
      BY <2>3, <2>4, <3>1, StoredSlice, SliceType
  <2> QED
    BY <2>3, <2>5, <2>6
<1>3. DOMAIN cloud = names /\ \A n \in names : cloud[n] = layout[n[1]][n[2]]
  BY <1>1
<1> HIDE DEF layout
<1>4. ASSUME NEW p, NEW x
      PROVE  <<p, x>> \in DOMAIN cloud <=> p \in stored /\ x \in DOMAIN layout[p]
  <2> HIDE DEF stored
  <2> QED
    BY <1>3
<1>5. \A n \in DOMAIN cloud : n = <<n[1], n[2]>>
  <2> HIDE DEF stored
  <2> QED
    BY <1>3
<1>6. ASSUME NEW n \in DOMAIN cloud PROVE n \in Places /\ cloud[n] \in Seq(FileBytes)
  <2>1. n[1] \in stored /\ n[2] \in DOMAIN layout[n[1]]
    BY <1>4, <1>5
  <2>2. n[1] \in Paths /\ n[2] \in Names
    BY <1>2, <2>1, PathTypes, NamesOfSize
  <2>3. cloud[n] \in Seq(FileBytes)
    BY <1>2, <1>3, <2>1
  <2> QED
    BY <1>5, <2>2, <2>3 DEF Places
<1>7. ASSUME NEW p \in Paths PROVE IsFiniteSet(DOMAIN Layout(cloud, p))
  <2>1. DOMAIN Layout(cloud, p) = {x \in Names : <<p, x>> \in DOMAIN cloud}
    BY <1>6, LayoutAt
  <2>2. CASE p \in stored
    <3>1. DOMAIN Layout(cloud, p) \subseteq DOMAIN layout[p]
      BY <1>4, <2>1
    <3>2. IsFiniteSet(DOMAIN layout[p])
      BY <1>2, <2>2, NamesOfSize
    <3> QED
      BY <3>1, <3>2, FS_Subset
  <2>3. CASE p \notin stored
    <3>1. DOMAIN Layout(cloud, p) = {}
      BY <1>4, <2>1, <2>3
    <3> QED
      BY <3>1, FS_EmptySet
  <2> QED
    BY <2>2, <2>3
<1>8. CloudOK(cloud)
  BY <1>6, <1>7 DEF CloudOK
<1>9. TypeOK
  <2>1. DOMAIN cloud \subseteq Paths \X Names
    BY <1>6 DEF Places
  <2>2. stat \in [Paths -> Nat \cup {NoEntry}] /\ job \in Jobs
    BY DEF Init, Jobs
  <2>3. result = "none" /\ faults = 0 /\ renames = 0
    BY Zenon DEF Init
  <2> QED
    BY <2>1, <2>2, <2>3, RenameAssumption DEF TypeOK
<1> QED
  BY <1>8, <1>9 DEF Init, TypeInv

LEMMA TypeStep == TypeInv /\ [Next]_vars => TypeInv'
<1> SUFFICES ASSUME TypeInv, Next \/ UNCHANGED vars PROVE TypeInv'
  OBVIOUS
<1>1. /\ CloudOK(cloud) /\ CloudOK(before.cloud)
      /\ stat \in [Paths -> StatSizes] /\ job \in Jobs
      /\ result \in {"none", "done", "ENOENT", "EEXIST", "EIO", "EINVAL"}
      /\ faults \in 0..MaxFaults /\ renames \in 0..MaxRenames
  BY DEF TypeInv, TypeOK, StatSizes
<1>2. SUFFICES /\ CloudOK(cloud') /\ CloudOK(before.cloud')
               /\ stat' \in [Paths -> StatSizes] /\ job' \in Jobs
               /\ result' \in {"none", "done", "ENOENT", "EEXIST", "EIO", "EINVAL"}
               /\ faults' \in 0..MaxFaults /\ renames' \in 0..MaxRenames
  BY DEF TypeInv, TypeOK, StatSizes, CloudOK, Places
<1>3. NoJob \in Jobs
  BY DEF Jobs
<1>4. ASSUME NEW d \in Dirs, Readdir(d) PROVE stat' \in [Paths -> StatSizes]
  <2>1. \A q \in Paths : stat[q] \in StatSizes /\ Listed(cloud, q) \in StatSizes
    BY <1>1, ListedTypes
  <2> QED
    BY <1>4, <2>1 DEF Readdir, Filled
<1>5. ASSUME NEW old \in Files, NEW new \in Files, NEW flag \in Flags,
             Begin(old, new, flag)
      PROVE  /\ stat' \in [Paths -> StatSizes] /\ job' \in Jobs
             /\ renames' \in 0..MaxRenames /\ CloudOK(before.cloud')
  <2>1. SizeOf(old) \in Nat /\ stat' \in [Paths -> StatSizes]
    BY <1>5, CacheTypes, PathTypes DEF Begin, StatSizes
  <2>2. <<>> \in Seq(Calls) /\ Retries \in 1..Retries
    BY EmptySeq, RenameAssumption
  <2>3. job' \in JobRecords
    BY <1>5, <2>1, <2>2, JobRecordsAre DEF Begin
  <2>4. before'.cloud = cloud /\ renames' = renames + 1 /\ renames < MaxRenames
    BY <1>5 DEF Begin
  <2> QED
    BY <1>1, <2>1, <2>3, <2>4, RenameAssumption DEF JobRecords
<1>6. ASSUME NEW old \in Files, NoSource(old)
      PROVE  stat' \in [Paths -> StatSizes] /\ renames' \in 0..MaxRenames
  <2>1. stat' \in [Paths -> StatSizes] /\ renames' = renames + 1 /\ renames < MaxRenames
    BY <1>6, CacheTypes, PathTypes DEF NoSource
  <2> QED
    BY <1>1, <2>1, RenameAssumption
<1>7. ASSUME LookUpTarget PROVE stat' \in [Paths -> StatSizes] /\ job' \in Jobs
  <2>1. job # NoJob
    BY <1>7, JobPhase DEF LookUpTarget
  <2>2. job.old \in Paths /\ job.new \in Paths /\ SizeOf(job.new) \in StatSizes
        /\ AfterGetattr(job.new) \in [Paths -> StatSizes]
    BY <1>1, <2>1, JobFields, PathTypes, CacheTypes
  <2>3. stat' \in [Paths -> StatSizes]
    BY <1>7, <2>2 DEF LookUpTarget, StatSizes
  <2>4. Plan(job.old, job.new, job.flag, job.oldSize, SizeOf(job.new)) \in Seq(Calls)
    BY <1>1, <2>1, <2>2, JobFields, PlanTypes
  <2>5. job' \in Jobs
    BY <1>1, <1>3, <1>7, <2>1, <2>4, AttemptType DEF LookUpTarget, Finish, JobRecords
  <2> QED
    BY <2>3, <2>5
<1>8. ASSUME LookUpFails PROVE stat' \in [Paths -> StatSizes] /\ job' \in Jobs
  <2>1. stat' \in [Paths -> StatSizes]
    BY <1>1, <1>8 DEF LookUpFails, StatSizes
  <2>2. job' \in Jobs
    BY <1>1, <1>8, BlindAttemptType DEF JobRecords
  <2> QED
    BY <2>1, <2>2
<1>9. ASSUME Perform PROVE CloudOK(cloud') /\ job' \in Jobs
  BY <1>1, <1>9, EffectOK, AdvanceType DEF Perform, JobRecords
<1>10. ASSUME Fault PROVE /\ CloudOK(cloud') /\ job' \in Jobs
                          /\ result' \in {"none", "done", "ENOENT", "EEXIST", "EIO", "EINVAL"}
  <2>1. CloudOK(cloud')
    BY <1>1, <1>10, EffectOK DEF Fault
  <2>2. CASE job.left > 1 /\ job' = [Attempt("lookup", <<>>) EXCEPT !.left = @ - 1]
             /\ UNCHANGED result
    <3>1. job' \in JobRecords
      BY <1>1, <1>10, <2>2, NextAttemptType DEF Fault
    <3> QED
      BY <1>1, <2>1, <2>2, <3>1 DEF JobRecords
  <2>3. CASE Finish("EINVAL") \/ Finish("EIO")
    BY <1>3, <2>1, <2>3 DEF Finish
  <2> QED
    BY <1>10, <2>2, <2>3 DEF Fault
<1>11. CASE UNCHANGED vars
  BY <1>1, <1>11 DEF vars
<1>12. CASE \E d \in Dirs : Readdir(d)
  BY <1>1, <1>4, <1>12 DEF Readdir
<1>13. CASE \E p \in Files : Expire(p)
  <2>1. stat' \in [Paths -> StatSizes]
    BY <1>1, <1>13 DEF Expire, StatSizes
  <2> QED
    BY <1>1, <1>13, <2>1 DEF Expire
<1>14. CASE \E old, new \in Files, flag \in Flags : Begin(old, new, flag)
  BY <1>1, <1>5, <1>14 DEF Begin
<1>15. CASE \E old \in Files : NoSource(old)
  BY <1>1, <1>6, <1>15 DEF NoSource
<1>16. CASE LookUpTarget
  BY <1>1, <1>7, <1>16 DEF LookUpTarget, Finish
<1>17. CASE Perform
  BY <1>1, <1>9, <1>17 DEF Perform
<1>18. CASE Succeed
  BY <1>1, <1>3, <1>18 DEF Succeed, Finish
<1>19. CASE Refused
  BY <1>1, <1>3, <1>19 DEF Refused, Finish
<1>20. CASE LookUpFails
  <2>1. faults' \in 0..MaxFaults
    BY <1>1, <1>20, RenameAssumption DEF LookUpFails
  <2> QED
    BY <1>1, <1>8, <1>20, <2>1 DEF LookUpFails
<1>21. CASE Fault
  <2>1. faults' \in 0..MaxFaults
    BY <1>1, <1>21, RenameAssumption DEF Fault
  <2> QED
    BY <1>1, <1>10, <1>21, <2>1 DEF Fault
<1> QED
  BY <1>11, <1>12, <1>13, <1>14, <1>15, <1>16, <1>17, <1>18, <1>19, <1>20, <1>21
     DEF Next, Work

(***************************************************************************)
(* Every rename keeps to the values the code has for it: the plan is made  *)
(* of calls on nodes, attempts are counted down to the last, and what the  *)
(* cloud is asked to store has a name of a part.                           *)
(***************************************************************************)
THEOREM TypeCorrect == Spec => []TypeOK
<1>1. TypeInv => TypeOK
  BY DEF TypeInv
<1> QED
  BY <1>1, TypeInit, TypeStep, PTL DEF Spec

-----------------------------------------------------------------------------
(***************************************************************************)
(* What the cloud has under one name, as a set of at most one content; and *)
(* views, which give such a set for every path and name: the one of a      *)
(* cloud, the one a whole call leaves, and those it passes through.        *)
(***************************************************************************)
Slot(cl, p, x) == {cl[n] : n \in DOMAIN cl \cap {<<p, x>>}}
View(cl) == [p \in Paths |-> [x \in Names |-> Slot(cl, p, x)]]
Shows(cl, V) == \A p \in Paths, x \in Names : Slot(cl, p, x) = V[p][x]

AfterCall(V, c) ==
    [p \in Paths |-> [x \in Names |->
        IF c.op = "rename" /\ p = c.to THEN V[c.from][x]
        ELSE IF p = c.from THEN {} ELSE V[p][x]]]

DuringCall(V, c, i, moving) ==
    [p \in Paths |-> [x \in Names |->
        IF x \notin NamesFrom(c.size, i) THEN AfterCall(V, c)[p][x]
        ELSE IF ~(moving /\ x = NameAt(c.size, i)) THEN V[p][x]
        ELSE IF p = Via(c) THEN V[c.from][x]
        ELSE IF p = c.from THEN {} ELSE V[p][x]]]

(* The call finds its file complete, and renames it to free paths. *)
Ready(V, c) ==
    /\ \A x \in Names : V[c.from][x] # {} <=> x \in NamesOf(c.size)
    /\ c.op = "rename" =>
          /\ c.from # c.to
          /\ \A x \in Names : V[c.to][x] = {}
          /\ Via(c) # c.from => \A x \in Names : V[Via(c)][x] = {}

LEMMA SlotHolds ==
    ASSUME NEW cl, NEW p, NEW x
    PROVE  /\ <<p, x>> \in DOMAIN cl => Slot(cl, p, x) = {cl[<<p, x>>]}
           /\ Slot(cl, p, x) # {} <=> <<p, x>> \in DOMAIN cl
BY DEF Slot

LEMMA SlotWithout ==
    ASSUME NEW cl, NEW a, NEW y, NEW p, NEW x
    PROVE  Slot(Without(cl, <<a, y>>), p, x) =
              IF p = a /\ x = y THEN {} ELSE Slot(cl, p, x)
BY DEF Slot, Without

LEMMA SlotMoved ==
    ASSUME NEW cl, NEW a, NEW b, NEW y, <<a, y>> \in DOMAIN cl, NEW p, NEW x
    PROVE  Slot(Moved(cl, <<a, y>>, <<b, y>>), p, x) =
              IF x # y THEN Slot(cl, p, x)
              ELSE IF p = b THEN Slot(cl, a, x)
              ELSE IF p = a THEN {} ELSE Slot(cl, p, x)
<1> DEFINE new == Moved(cl, <<a, y>>, <<b, y>>)
<1>1. /\ DOMAIN new = (DOMAIN cl \ {<<a, y>>}) \cup {<<b, y>>}
      /\ \A n \in DOMAIN new : new[n] = IF n = <<b, y>> THEN cl[<<a, y>>] ELSE cl[n]
  BY DEF Moved
<1> HIDE DEF new
<1>2. Slot(new, p, x) = IF x # y THEN Slot(cl, p, x)
              ELSE IF p = b THEN Slot(cl, a, x)
              ELSE IF p = a THEN {} ELSE Slot(cl, p, x)
  <2>1. CASE <<p, x>> = <<b, y>>
    <3>1. <<p, x>> \in DOMAIN new /\ new[<<p, x>>] = cl[<<a, y>>] /\ p = b /\ x = y
      BY <1>1, <2>1
    <3>2. Slot(new, p, x) = {cl[<<a, y>>]}
      BY <3>1, SlotHolds
    <3>3. Slot(cl, a, y) = {cl[<<a, y>>]}
      BY SlotHolds
    <3> QED
      BY <3>1, <3>2, <3>3
  <2>2. CASE <<p, x>> # <<b, y>> /\ <<p, x>> = <<a, y>>
    <3>1. <<p, x>> \notin DOMAIN new
      BY <1>1, <2>2
    <3>2. Slot(new, p, x) = {}
      BY <3>1, SlotHolds
    <3> QED
      BY <2>2, <3>2
  <2>3. CASE <<p, x>> # <<b, y>> /\ <<p, x>> # <<a, y>>
    <3>1. /\ <<p, x>> \in DOMAIN new <=> <<p, x>> \in DOMAIN cl
          /\ <<p, x>> \in DOMAIN new => new[<<p, x>>] = cl[<<p, x>>]
      BY <1>1, <2>3
    <3>2. Slot(new, p, x) = Slot(cl, p, x)
      BY <3>1, SlotHolds
    <3> QED
      BY <2>3, <3>2
  <2> QED
    BY <2>1, <2>2, <2>3
<1> QED
  BY <1>2 DEF new

LEMMA ViewAt == \A cl : \A p \in Paths, x \in Names : View(cl)[p][x] = Slot(cl, p, x)
BY DEF View

(* A view before the first part of a call, and after the last. *)
LEMMA CallBegins ==
    ASSUME NEW V, NEW c \in Calls, Ready(V, c), NEW cl, Shows(cl, V)
    PROVE  Shows(cl, DuringCall(V, c, 0, FALSE))
<1>1. ASSUME NEW p \in Paths, NEW x \in Names
      PROVE  DuringCall(V, c, 0, FALSE)[p][x] = V[p][x]
  BY DEF DuringCall, AfterCall, Ready, NamesOf, Calls
<1> QED
  BY <1>1 DEF Shows

LEMMA CallEnds ==
    ASSUME NEW V, NEW c \in Calls, NEW i \in Nat, i < Count(c.size), i + 1 = Count(c.size),
           NEW cl, Shows(cl, DuringCall(V, c, i + 1, FALSE))
    PROVE  Shows(cl, AfterCall(V, c))
<1>1. NamesFrom(c.size, i + 1) = {}
  <2>1. c.size \in Nat
    BY DEF Calls
  <2> QED
    BY <2>1, NamesLeft
<1>2. \A p \in Paths, x \in Names : DuringCall(V, c, i + 1, FALSE)[p][x] = AfterCall(V, c)[p][x]
  BY <1>1 DEF DuringCall
<1> QED
  BY <1>2 DEF Shows

(* One request of the call. *)
LEMMA RequestRemoves ==
    ASSUME NEW V, NEW c \in Calls, Ready(V, c), c.op = "remove",
           NEW cl, NEW i \in Nat, i < Count(c.size),
           Shows(cl, DuringCall(V, c, i, FALSE))
    PROVE  Shows(Without(cl, <<c.from, NameAt(c.size, i)>>), DuringCall(V, c, i + 1, FALSE))
<1> SUFFICES ASSUME NEW p \in Paths, NEW x \in Names
             PROVE  Slot(Without(cl, <<c.from, NameAt(c.size, i)>>), p, x) =
                       DuringCall(V, c, i + 1, FALSE)[p][x]
  BY DEF Shows
<1> DEFINE y == NameAt(c.size, i)
<1>1. c.size \in Nat /\ c.from \in Paths
  BY DEF Calls
<1>2. /\ y \in NamesFrom(c.size, i)
      /\ NamesFrom(c.size, i + 1) = NamesFrom(c.size, i) \ {y}
  BY <1>1, NamesLeft
<1> HIDE DEF y
<1>3. Slot(cl, p, x) = IF x \notin NamesFrom(c.size, i) /\ p = c.from THEN {} ELSE V[p][x]
  BY DEF Shows, DuringCall, AfterCall
<1>4. DuringCall(V, c, i + 1, FALSE)[p][x] =
         IF x \notin NamesFrom(c.size, i + 1) /\ p = c.from THEN {} ELSE V[p][x]
  BY DEF DuringCall, AfterCall
<1>5. Slot(Without(cl, <<c.from, y>>), p, x) =
         IF p = c.from /\ x = y THEN {} ELSE Slot(cl, p, x)
  BY SlotWithout
<1>6. Slot(Without(cl, <<c.from, y>>), p, x) = DuringCall(V, c, i + 1, FALSE)[p][x]
  BY <1>2, <1>3, <1>4, <1>5
<1> QED
  BY <1>6 DEF y

LEMMA RequestRenames ==
    ASSUME NEW V, NEW c \in Calls, Ready(V, c), c.op = "rename",
           NEW cl, NEW i \in Nat, i < Count(c.size),
           Shows(cl, DuringCall(V, c, i, FALSE))
    PROVE  LET y == NameAt(c.size, i)
               new == Moved(cl, <<c.from, y>>, <<Via(c), y>>)
           IN  /\ Shows(new, DuringCall(V, c, i, TRUE))
               /\ Via(c) = c.to => Shows(new, DuringCall(V, c, i + 1, FALSE))
<1> DEFINE y == NameAt(c.size, i)
           via == Via(c)
<1> SUFFICES ASSUME NEW p \in Paths, NEW x \in Names
             PROVE  LET new == Slot(Moved(cl, <<c.from, y>>, <<via, y>>), p, x)
                    IN  /\ new = DuringCall(V, c, i, TRUE)[p][x]
                        /\ via = c.to => new = DuringCall(V, c, i + 1, FALSE)[p][x]
  BY DEF Shows
<1>1. c.size \in Nat /\ c.from \in Paths /\ c.to \in Paths /\ via \in Paths
  BY PathTypes DEF Calls, Via
<1>2. /\ y \in NamesFrom(c.size, i) /\ y \in Names /\ y \in NamesOf(c.size)
      /\ NamesFrom(c.size, i + 1) = NamesFrom(c.size, i) \ {y}
  BY <1>1, NamesLeft, CountType
<1> HIDE DEF y, via
<1>3. \A q \in Paths, z \in Names :
         Slot(cl, q, z) = IF z \notin NamesFrom(c.size, i) THEN AfterCall(V, c)[q][z] ELSE V[q][z]
  BY DEF Shows, DuringCall
<1>4. Slot(cl, c.from, y) = V[c.from][y] /\ Slot(cl, p, y) = V[p][y]
  BY <1>1, <1>2, <1>3
<1>5. <<c.from, y>> \in DOMAIN cl
  BY <1>2, <1>4, SlotHolds DEF Ready
<1>6. Slot(Moved(cl, <<c.from, y>>, <<via, y>>), p, x) =
         IF x # y THEN Slot(cl, p, x)
         ELSE IF p = via THEN Slot(cl, c.from, x)
         ELSE IF p = c.from THEN {} ELSE Slot(cl, p, x)
  BY <1>5, SlotMoved
<1>7. DuringCall(V, c, i, TRUE)[p][x] =
         IF x # y THEN Slot(cl, p, x)
         ELSE IF p = via THEN V[c.from][x]
         ELSE IF p = c.from THEN {} ELSE V[p][x]
  BY <1>2, <1>3 DEF DuringCall, y, via
<1>8. AfterCall(V, c)[p][x] =
         IF p = c.to THEN V[c.from][x] ELSE IF p = c.from THEN {} ELSE V[p][x]
  BY DEF AfterCall
<1>9. DuringCall(V, c, i + 1, FALSE)[p][x] =
         IF x # y THEN Slot(cl, p, x) ELSE AfterCall(V, c)[p][x]
  BY <1>2, <1>3 DEF DuringCall
<1> DEFINE new == Slot(Moved(cl, <<c.from, y>>, <<via, y>>), p, x)
<1>10. new = DuringCall(V, c, i, TRUE)[p][x]
  <2>1. CASE x # y
    BY <1>6, <1>7, <2>1
  <2>2. CASE x = y
    <3>1. Slot(cl, c.from, x) = V[c.from][x] /\ Slot(cl, p, x) = V[p][x]
      BY <1>4, <2>2
    <3> HIDE DEF new
    <3>2. new = IF p = via THEN Slot(cl, c.from, x)
                ELSE IF p = c.from THEN {} ELSE Slot(cl, p, x)
      BY <1>6, <2>2 DEF new
    <3>3. DuringCall(V, c, i, TRUE)[p][x] =
             IF p = via THEN V[c.from][x] ELSE IF p = c.from THEN {} ELSE V[p][x]
      BY <1>7, <2>2
    <3> QED
      BY <3>1, <3>2, <3>3
  <2> QED
    BY <2>1, <2>2
<1>11. via = c.to => new = DuringCall(V, c, i + 1, FALSE)[p][x]
  BY <1>4, <1>6, <1>8, <1>9
<1> QED
  BY <1>10, <1>11

LEMMA RequestMoves ==
    ASSUME NEW V, NEW c \in Calls, Ready(V, c), c.op = "rename", Via(c) # c.to,
           NEW cl, NEW i \in Nat, i < Count(c.size),
           Shows(cl, DuringCall(V, c, i, TRUE))
    PROVE  LET y == NameAt(c.size, i)
           IN  Shows(Moved(cl, <<Via(c), y>>, <<c.to, y>>), DuringCall(V, c, i + 1, FALSE))
<1> DEFINE y == NameAt(c.size, i)
           via == Via(c)
<1> SUFFICES ASSUME NEW p \in Paths, NEW x \in Names
             PROVE  Slot(Moved(cl, <<via, y>>, <<c.to, y>>), p, x) =
                       DuringCall(V, c, i + 1, FALSE)[p][x]
  BY DEF Shows
<1>1. c.size \in Nat /\ c.from \in Paths /\ c.to \in Paths /\ via \in Paths
  BY PathTypes DEF Calls, Via
<1>2. /\ y \in NamesFrom(c.size, i) /\ y \in Names /\ y \in NamesOf(c.size)
      /\ NamesFrom(c.size, i + 1) = NamesFrom(c.size, i) \ {y}
  BY <1>1, NamesLeft, CountType
<1> HIDE DEF y, via
<1>3. \A q \in Paths, z \in Names :
         Slot(cl, q, z) =
            IF z \notin NamesFrom(c.size, i) THEN AfterCall(V, c)[q][z]
            ELSE IF z # y THEN V[q][z]
            ELSE IF q = via THEN V[c.from][z]
            ELSE IF q = c.from THEN {} ELSE V[q][z]
  BY DEF Shows, DuringCall, y, via
<1>4. Slot(cl, via, y) = V[c.from][y]
  BY <1>1, <1>2, <1>3
<1>5. <<via, y>> \in DOMAIN cl
  BY <1>2, <1>4, SlotHolds DEF Ready
<1>6. Slot(Moved(cl, <<via, y>>, <<c.to, y>>), p, x) =
         IF x # y THEN Slot(cl, p, x)
         ELSE IF p = c.to THEN Slot(cl, via, x)
         ELSE IF p = via THEN {} ELSE Slot(cl, p, x)
  BY <1>5, SlotMoved
<1>7. AfterCall(V, c)[p][x] =
         IF p = c.to THEN V[c.from][x] ELSE IF p = c.from THEN {} ELSE V[p][x]
  BY DEF AfterCall
<1>8. DuringCall(V, c, i + 1, FALSE)[p][x] =
         IF x # y THEN Slot(cl, p, x) ELSE AfterCall(V, c)[p][x]
  BY <1>2, <1>3 DEF DuringCall
<1>9. via # c.from => V[via][y] = {}
  BY <1>2 DEF Ready, via
<1>10. via # c.to
  BY DEF via
<1>11. Slot(cl, p, y) = IF p = via THEN V[c.from][y]
                        ELSE IF p = c.from THEN {} ELSE V[p][y]
  BY <1>2, <1>3
<1>12. Slot(Moved(cl, <<via, y>>, <<c.to, y>>), p, x) = DuringCall(V, c, i + 1, FALSE)[p][x]
  BY <1>4, <1>6, <1>7, <1>8, <1>9, <1>10, <1>11
<1> QED
  BY <1>12

-----------------------------------------------------------------------------
(***************************************************************************)
(* The plan of a rename whose way is clear, and the views between its      *)
(* calls.                                                                  *)
(***************************************************************************)
Stage(B, plan, k) ==
    LET first == B
        second == AfterCall(first, plan[1])
        third == AfterCall(second, plan[2])
    IN  CASE k = 1 -> first [] k = 2 -> second [] k = 3 -> third
          [] OTHER -> AfterCall(third, plan[3])

TargetSize == Listed(before.cloud, job.new)
FirstPlan == Plan(job.old, job.new, job.flag, job.oldSize, TargetSize)

ClearJob ==
    /\ CloudOK(before.cloud)
    /\ job \in JobRecords
    /\ job.old # job.new
    /\ job.oldSize = Listed(before.cloud, job.old)
    /\ ClearWay

LEMMA StageNext ==
    ASSUME NEW B, NEW plan, NEW k \in 1..3
    PROVE  Stage(B, plan, k + 1) = AfterCall(Stage(B, plan, k), plan[k])
<1>1. Stage(B, plan, 1) = B
  BY DEF Stage
<1>2. Stage(B, plan, 2) = AfterCall(B, plan[1])
  BY DEF Stage
<1>3. Stage(B, plan, 3) = AfterCall(AfterCall(B, plan[1]), plan[2])
  BY DEF Stage
<1>4. Stage(B, plan, 4) =
         AfterCall(AfterCall(AfterCall(B, plan[1]), plan[2]), plan[3])
  BY DEF Stage
<1>5. k = 1 \/ k = 2 \/ k = 3
  OBVIOUS
<1> QED
  BY <1>1, <1>2, <1>3, <1>4, <1>5

LEMMA FreeView ==
    ASSUME CloudOK(before.cloud), NEW p \in Paths, Listed(before.cloud, p) = NoEntry
    PROVE  \A x \in Names : View(before.cloud)[p][x] = {}
<1>1. DOMAIN Layout(before.cloud, p) = {}
  BY ListedTypes
<1>2. DOMAIN Layout(before.cloud, p) = {x \in Names : <<p, x>> \in DOMAIN before.cloud}
  BY LayoutAt DEF CloudOK
<1>3. ASSUME NEW x \in Names PROVE View(before.cloud)[p][x] = {}
  <2>1. Slot(before.cloud, p, x) = {}
    BY <1>1, <1>2, SlotHolds
  <2> QED
    BY <2>1, ViewAt
<1> QED
  BY <1>3

LEMMA CompleteView ==
    ASSUME CloudOK(before.cloud), NEW p \in Paths, Complete(p),
           Listed(before.cloud, p) # NoEntry
    PROVE  \A x \in Names :
              View(before.cloud)[p][x] # {} <=> x \in NamesOf(Listed(before.cloud, p))
<1>1. DOMAIN Layout(before.cloud, p) = NamesOf(Listed(before.cloud, p))
  BY DEF Complete, NamesOf, NamesFrom
<1>2. DOMAIN Layout(before.cloud, p) = {x \in Names : <<p, x>> \in DOMAIN before.cloud}
  BY LayoutAt DEF CloudOK
<1> QED
  BY <1>1, <1>2, SlotHolds, ViewAt

(***************************************************************************)
(* What the clear way gives: the paths, and the views of them.             *)
(***************************************************************************)
LEMMA ClearViews ==
    ASSUME ClearJob
    PROVE  LET B == View(before.cloud)
               o == job.old
               n == job.new
           IN  /\ o \in Files /\ n \in Files /\ o # n
               /\ job.oldSize \in Nat /\ TargetSize \in StatSizes
               /\ \A x \in Names : B[o][x] # {} <=> x \in NamesOf(job.oldSize)
               /\ TargetSize = NoEntry => \A x \in Names : B[n][x] = {}
               /\ TargetSize # NoEntry =>
                     \A x \in Names : B[n][x] # {} <=> x \in NamesOf(TargetSize)
               /\ \A x \in Names : B[Temp(n)][x] = {}
               /\ LET via == [n EXCEPT !.dir = o.dir]
                  IN  via # o /\ via # n => \A x \in Names : B[via][x] = {}
               /\ LET via == [o EXCEPT !.dir = n.dir]
                  IN  job.flag = "EXCHANGE" /\ via # o => \A x \in Names : B[via][x] = {}
<1> DEFINE B == View(before.cloud)
           o == job.old
           n == job.new
<1>1. /\ o \in Files /\ n \in Files /\ o # n /\ o \in Paths /\ n \in Paths
      /\ job.oldSize \in Nat /\ CloudOK(before.cloud)
  BY PathTypes, JobRecordsAre DEF ClearJob
<1>2. /\ job.oldSize = Listed(before.cloud, o) /\ TargetSize = Listed(before.cloud, n)
      /\ Complete(o) /\ Complete(n)
  BY DEF ClearJob, ClearWay, TargetSize
<1>3. TargetSize \in StatSizes /\ job.oldSize # NoEntry
  BY <1>1, <1>2, ListedTypes, CompoundAssumption
<1>4. \A x \in Names : B[o][x] # {} <=> x \in NamesOf(job.oldSize)
  BY <1>1, <1>2, <1>3, CompleteView
<1>5. TargetSize = NoEntry => \A x \in Names : B[n][x] = {}
  BY <1>1, <1>2, FreeView
<1>6. TargetSize # NoEntry => \A x \in Names : B[n][x] # {} <=> x \in NamesOf(TargetSize)
  BY <1>1, <1>2, CompleteView
<1>7. \A x \in Names : B[Temp(n)][x] = {}
  <2>1. n.dir \in Dirs /\ n.base \in Bases
        /\ Temp(n) = [dir |-> n.dir, base |-> n.base, temp |-> TRUE]
    <3> DEFINE t == [dir |-> n.dir, base |-> n.base, temp |-> TRUE]
    <3> HIDE DEF n
    <3>1. n.dir \in Dirs /\ n.base \in Bases
      BY <1>1 DEF Paths
    <3>2. t \in Paths /\ Temp(n) \in Paths
      BY <1>1, <3>1, PathTypes DEF Paths
    <3>3. Temp(n).dir = t.dir /\ Temp(n).base = t.base /\ Temp(n).temp = t.temp
      BY <1>1 DEF Temp, Paths
    <3>4. Temp(n) = t
      BY <3>2, <3>3 DEF Paths
    <3> QED
      BY <3>1, <3>4
  <2>2. Free(Temp(n))
    BY <2>1 DEF ClearJob, ClearWay
  <2> QED
    BY <1>1, <2>2, PathTypes, FreeView DEF Free
<1>8. ASSUME [n EXCEPT !.dir = o.dir] # o, [n EXCEPT !.dir = o.dir] # n
      PROVE  \A x \in Names : B[[n EXCEPT !.dir = o.dir]][x] = {}
  <2>1. o.dir # n.dir
    BY <1>1, <1>8 DEF Paths
  <2>2. o.base # n.base
    BY <1>1, <1>8 DEF Files, Paths
  <2>3. Free([n EXCEPT !.dir = o.dir])
    BY <2>1, <2>2 DEF ClearJob, ClearWay
  <2> QED
    BY <1>1, <2>3, PathTypes, FreeView DEF Free
<1>9. ASSUME job.flag = "EXCHANGE", [o EXCEPT !.dir = n.dir] # o
      PROVE  \A x \in Names : B[[o EXCEPT !.dir = n.dir]][x] = {}
  <2>1. o.dir # n.dir
    BY <1>1, <1>9 DEF Paths
  <2>2. Free([o EXCEPT !.dir = n.dir])
    BY <1>9, <2>1 DEF ClearJob, ClearWay
  <2> QED
    BY <1>1, <2>2, PathTypes, FreeView DEF Free
<1> HIDE DEF B, o, n
<1>10. /\ o \in Files /\ n \in Files /\ o # n
       /\ LET via == [n EXCEPT !.dir = o.dir]
          IN  via # o /\ via # n => \A x \in Names : B[via][x] = {}
       /\ LET via == [o EXCEPT !.dir = n.dir]
          IN  job.flag = "EXCHANGE" /\ via # o => \A x \in Names : B[via][x] = {}
  BY <1>1, <1>8, <1>9, Zenon
<1> QED
  BY <1>1, <1>3, <1>4, <1>5, <1>6, <1>7, <1>10, Zenon DEF B, o, n

(* What a rename is to leave of the files there were. *)
Final(B, j) ==
    [p \in Paths |-> [x \in Names |->
        IF p = j.new THEN B[j.old][x]
        ELSE IF p # j.old THEN B[p][x]
        ELSE IF j.flag = "EXCHANGE" THEN B[j.new][x] ELSE {}]]

PlanWorks(plan) ==
    /\ plan \in Seq(Calls) /\ Len(plan) \in 1..3
    /\ \A k \in 1..Len(plan) : Ready(Stage(View(before.cloud), plan, k), plan[k])
    /\ \A k \in 1..Len(plan) : plan[k].op = "remove" =>
          k = 1 /\ plan[k].from # job.old /\ job.flag # "EXCHANGE"
    /\ \A p \in Paths, x \in Names :
          Stage(View(before.cloud), plan, Len(plan) + 1)[p][x] = Final(View(before.cloud), job)[p][x]

LEMMA RenameCall ==
    ASSUME NEW size, NEW a, NEW b
    PROVE  LET c == NodeRename(size, a, b)
           IN  /\ c.op = "rename" /\ c.size = size /\ c.from = a /\ c.to = b
               /\ Via(c) = [b EXCEPT !.dir = a.dir]
BY DEF NodeRename, Via

LEMMA RemoveCall ==
    ASSUME NEW size, NEW a
    PROVE  LET c == NodeRemove(size, a)
           IN  c.op = "remove" /\ c.size = size /\ c.from = a
BY DEF NodeRemove

LEMMA AfterRename ==
    ASSUME NEW V, NEW size, NEW a, NEW b, NEW p \in Paths, NEW x \in Names
    PROVE  AfterCall(V, NodeRename(size, a, b))[p][x] =
              IF p = b THEN V[a][x] ELSE IF p = a THEN {} ELSE V[p][x]
BY RenameCall DEF AfterCall

LEMMA AfterRemove ==
    ASSUME NEW V, NEW size, NEW a, NEW p \in Paths, NEW x \in Names
    PROVE  AfterCall(V, NodeRemove(size, a))[p][x] = IF p = a THEN {} ELSE V[p][x]
BY RemoveCall DEF AfterCall

(* The last call of two plans: the source, to a target that is not there. *)
LEMMA SourceReady ==
    ASSUME ClearJob, NEW V,
           \A p \in Paths, x \in Names :
              V[p][x] = IF p = job.new THEN {} ELSE View(before.cloud)[p][x]
    PROVE  /\ Ready(V, NodeRename(job.oldSize, job.old, job.new))
           /\ job.flag # "EXCHANGE" \/ TargetSize = NoEntry =>
                 \A p \in Paths, x \in Names :
                    AfterCall(V, NodeRename(job.oldSize, job.old, job.new))[p][x] =
                       Final(View(before.cloud), job)[p][x]
<1> DEFINE B == View(before.cloud)
           o == job.old
           n == job.new
           via == [n EXCEPT !.dir = o.dir]
           c == NodeRename(job.oldSize, o, n)
<1>1. /\ o \in Paths /\ n \in Paths /\ o # n /\ via \in Paths
      /\ \A x \in Names : B[o][x] # {} <=> x \in NamesOf(job.oldSize)
      /\ via # o /\ via # n => \A x \in Names : B[via][x] = {}
      /\ TargetSize = NoEntry => \A x \in Names : B[n][x] = {}
  BY ClearViews, PathTypes
<1>2. c.op = "rename" /\ c.size = job.oldSize /\ c.from = o /\ c.to = n /\ Via(c) = via
  BY RenameCall
<1>3. \A p \in Paths, x \in Names : AfterCall(V, c)[p][x] =
         IF p = n THEN V[o][x] ELSE IF p = o THEN {} ELSE V[p][x]
  BY AfterRename
<1>4. \A p \in Paths, x \in Names : V[p][x] = IF p = n THEN {} ELSE B[p][x]
  OBVIOUS
<1>5. \A p \in Paths, x \in Names : Final(B, job)[p][x] = IF p = n THEN B[o][x] ELSE IF p # o THEN B[p][x]
                              ELSE IF job.flag = "EXCHANGE" THEN B[n][x] ELSE {}
  BY DEF Final
<1> HIDE DEF B, o, n, via, c
<1>6. Ready(V, c)
  BY <1>1, <1>2, <1>4 DEF Ready
<1>7. ASSUME job.flag # "EXCHANGE" \/ TargetSize = NoEntry, NEW p \in Paths, NEW x \in Names
      PROVE  AfterCall(V, c)[p][x] = Final(B, job)[p][x]
  <2>1. V[o][x] = B[o][x] /\ V[p][x] = IF p = n THEN {} ELSE B[p][x]
    BY <1>1, <1>4
  <2>2. AfterCall(V, c)[p][x] = IF p = n THEN B[o][x] ELSE IF p = o THEN {} ELSE B[p][x]
    BY <1>3, <2>1
  <2>3. job.flag = "EXCHANGE" => B[n][x] = {}
    BY <1>1, <1>7
  <2> QED
    BY <1>5, <2>2, <2>3
<1> QED
  BY <1>6, <1>7 DEF c, o, n, B

LEMMA PlainPlan ==
    ASSUME ClearJob, TargetSize = NoEntry PROVE PlanWorks(FirstPlan)
<1> DEFINE c == NodeRename(job.oldSize, job.old, job.new)
           B == View(before.cloud)
<1>1. FirstPlan = <<c>>
  BY DEF FirstPlan, Plan
<1>2. FirstPlan \in Seq(Calls)
  BY ClearViews, PlanTypes DEF FirstPlan
<1>3. Len(FirstPlan) = 1 /\ FirstPlan[1] = c
  BY <1>1
<1>4. Stage(B, FirstPlan, 1) = B /\ Stage(B, FirstPlan, 2) = AfterCall(B, c)
  BY <1>3 DEF Stage
<1>5. \A p \in Paths, x \in Names : B[p][x] = IF p = job.new THEN {} ELSE B[p][x]
  BY ClearViews
<1>6. Ready(B, c) /\ \A p \in Paths, x \in Names : AfterCall(B, c)[p][x] = Final(B, job)[p][x]
  BY <1>5, SourceReady
<1>7. c.op # "remove"
  BY RenameCall
<1> HIDE DEF c, B
<1> QED
  BY <1>2, <1>3, <1>4, <1>6, <1>7 DEF PlanWorks, B

LEMMA ReplacingPlan ==
    ASSUME ClearJob, TargetSize # NoEntry, job.flag # "EXCHANGE" PROVE PlanWorks(FirstPlan)
<1> DEFINE c == NodeRemove(TargetSize, job.new)
           d == NodeRename(job.oldSize, job.old, job.new)
           B == View(before.cloud)
           V == AfterCall(B, c)
<1>1. FirstPlan = <<c, d>>
  BY DEF FirstPlan, Plan
<1>2. FirstPlan \in Seq(Calls)
  BY ClearViews, PlanTypes DEF FirstPlan
<1>3. Len(FirstPlan) = 2 /\ FirstPlan[1] = c /\ FirstPlan[2] = d
  BY <1>1
<1>4. /\ Stage(B, FirstPlan, 1) = B /\ Stage(B, FirstPlan, 2) = V
      /\ Stage(B, FirstPlan, 3) = AfterCall(V, d)
  BY <1>3 DEF Stage
<1>5. Ready(B, c)
  BY ClearViews, RemoveCall DEF Ready
<1>6. \A p \in Paths, x \in Names : V[p][x] = IF p = job.new THEN {} ELSE B[p][x]
  BY AfterRemove
<1> HIDE DEF V
<1>7. Ready(V, d) /\ \A p \in Paths, x \in Names : AfterCall(V, d)[p][x] = Final(B, job)[p][x]
  BY <1>6, SourceReady
<1>8. c.from = job.new /\ job.new # job.old /\ d.op # "remove"
  BY ClearViews, RenameCall, RemoveCall
<1> HIDE DEF c, d, B
<1> QED
  BY <1>2, <1>3, <1>4, <1>5, <1>7, <1>8 DEF PlanWorks, B

LEMMA ExchangingPlan ==
    ASSUME ClearJob, TargetSize # NoEntry, job.flag = "EXCHANGE" PROVE PlanWorks(FirstPlan)
<1> DEFINE o == job.old
           n == job.new
           t == Temp(n)
           c == NodeRename(TargetSize, n, t)
           d == NodeRename(job.oldSize, o, n)
           e == NodeRename(TargetSize, t, o)
           B == View(before.cloud)
           V == AfterCall(B, c)
           W == AfterCall(V, d)
<1>1. FirstPlan = <<c, d, e>>
  BY DEF FirstPlan, Plan
<1>2. FirstPlan \in Seq(Calls)
  BY ClearViews, PlanTypes DEF FirstPlan
<1>3. Len(FirstPlan) = 3 /\ FirstPlan[1] = c /\ FirstPlan[2] = d /\ FirstPlan[3] = e
  BY <1>1
<1>4. /\ Stage(B, FirstPlan, 1) = B /\ Stage(B, FirstPlan, 2) = V
      /\ Stage(B, FirstPlan, 3) = W /\ Stage(B, FirstPlan, 4) = AfterCall(W, e)
  BY <1>3 DEF Stage
<1> DEFINE via == [n EXCEPT !.dir = o.dir]
           back == [o EXCEPT !.dir = n.dir]
<1>5. /\ o \in Paths /\ n \in Paths /\ t \in Paths /\ via \in Paths /\ back \in Paths
      /\ o # n /\ o # t /\ n # t /\ via # t /\ back # t
  <2>1. o \in Files /\ n \in Files /\ o # n
    BY ClearViews
  <2>2. o \in Paths /\ n \in Paths /\ t \in Paths /\ via \in Paths /\ back \in Paths
    BY <2>1, PathTypes
  <2>3. ~o.temp /\ ~n.temp /\ t.temp /\ ~via.temp /\ ~back.temp
    BY <2>1 DEF Files, Temp, Paths
  <2> QED
    BY <2>1, <2>2, <2>3
<1>6. /\ \A x \in Names : B[o][x] # {} <=> x \in NamesOf(job.oldSize)
      /\ \A x \in Names : B[n][x] # {} <=> x \in NamesOf(TargetSize)
      /\ \A x \in Names : B[t][x] = {}
      /\ via # o /\ via # n => \A x \in Names : B[via][x] = {}
      /\ back # o => \A x \in Names : B[back][x] = {}
  BY ClearViews
<1>7. /\ c.op = "rename" /\ c.size = TargetSize /\ c.from = n /\ c.to = t /\ Via(c) = t
      /\ d.op = "rename" /\ d.size = job.oldSize /\ d.from = o /\ d.to = n /\ Via(d) = via
      /\ e.op = "rename" /\ e.size = TargetSize /\ e.from = t /\ e.to = o /\ Via(e) = back
  <2>1. [t EXCEPT !.dir = n.dir] = t /\ t.dir = n.dir
    <3>1. n \in Paths
      BY <1>5
    <3> HIDE DEF n
    <3>2. t.dir = n.dir /\ t \in Paths
      BY <1>5, <3>1 DEF Temp, Paths
    <3> HIDE DEF t
    <3>3. [t EXCEPT !.dir = n.dir] = t
      BY <3>2 DEF Paths
    <3> QED
      BY <3>2, <3>3
  <2> QED
    BY <2>1, RenameCall
<1>8. \A p \in Paths, x \in Names :
         V[p][x] = IF p = t THEN B[n][x] ELSE IF p = n THEN {} ELSE B[p][x]
  BY AfterRename
<1>9. \A p \in Paths, x \in Names :
         W[p][x] = IF p = n THEN V[o][x] ELSE IF p = o THEN {} ELSE V[p][x]
  BY AfterRename
<1>10. \A p \in Paths, x \in Names :
         AfterCall(W, e)[p][x] = IF p = o THEN W[t][x] ELSE IF p = t THEN {} ELSE W[p][x]
  BY AfterRename
<1>11. \A p \in Paths, x \in Names : Final(B, job)[p][x] = IF p = n THEN B[o][x] ELSE IF p # o THEN B[p][x] ELSE B[n][x]
  BY DEF Final
<1> HIDE DEF o, n, t, c, d, e, B, V, W, via, back
<1>12. Ready(B, c)
  BY <1>5, <1>6, <1>7 DEF Ready
<1>13. Ready(V, d)
  BY <1>5, <1>6, <1>7, <1>8 DEF Ready
<1>14. \A p \in Paths, x \in Names :
         W[p][x] = IF p = n THEN B[o][x] ELSE IF p = o THEN {}
                   ELSE IF p = t THEN B[n][x] ELSE B[p][x]
  BY <1>5, <1>8, <1>9
<1>15. back # n
  <2>1. PICK x : x \in NamesOf(TargetSize) /\ x \in Names
    <3>1. TargetSize \in Nat
      BY ClearViews DEF StatSizes
    <3>2. 0 \in 0..(Count(TargetSize) - 1) /\ NameAt(TargetSize, 0) \in Names
      BY <3>1, CountType
    <3> QED
      BY <3>2 DEF NamesOf, NamesFrom
  <2> QED
    BY <1>5, <1>6, <2>1
<1>16. Ready(W, e)
  <2>1. \A x \in Names : W[t][x] = B[n][x] /\ W[o][x] = {}
    BY <1>5, <1>14
  <2>2. back # t => \A x \in Names : W[back][x] = {}
    <3>1. CASE back = o
      BY <2>1, <3>1
    <3>2. CASE back # o
      BY <1>5, <1>6, <1>14, <1>15, <3>2
    <3> QED
      BY <3>1, <3>2
  <2> QED
    BY <1>5, <1>6, <1>7, <2>1, <2>2 DEF Ready
<1>17. ASSUME NEW p \in Paths, NEW x \in Names PROVE AfterCall(W, e)[p][x] = Final(B, job)[p][x]
  <2>1. W[t][x] = B[n][x] /\ B[t][x] = {}
    BY <1>5, <1>6, <1>14
  <2>2. W[p][x] = IF p = n THEN B[o][x] ELSE IF p = o THEN {}
                  ELSE IF p = t THEN B[n][x] ELSE B[p][x]
    BY <1>14
  <2>3. AfterCall(W, e)[p][x] = IF p = o THEN W[t][x] ELSE IF p = t THEN {} ELSE W[p][x]
    BY <1>10
  <2>4. Final(B, job)[p][x] = IF p = n THEN B[o][x] ELSE IF p # o THEN B[p][x] ELSE B[n][x]
    BY <1>11
  <2> QED
    BY <1>5, <2>1, <2>2, <2>3, <2>4
<1> QED
  BY <1>2, <1>3, <1>4, <1>7, <1>12, <1>13, <1>16, <1>17 DEF PlanWorks, B

LEMMA FirstPlanWorks == ASSUME ClearJob PROVE PlanWorks(FirstPlan)
BY PlainPlan, ReplacingPlan, ExchangingPlan

-----------------------------------------------------------------------------
(***************************************************************************)
(* The first attempt of a rename whose way is clear: the cloud shows the   *)
(* view its place in the plan calls for.                                   *)
(***************************************************************************)
OnCourse(cl, B, j) ==
    /\ j.call \in 1..(Len(j.plan) + 1)
    /\ j.call <= Len(j.plan) =>
          LET c == j.plan[j.call]
          IN  /\ j.part < Count(c.size)
              /\ j.moving => c.op = "rename" /\ Via(c) # c.to
              /\ Shows(cl, DuringCall(Stage(B, j.plan, j.call), c, j.part, j.moving))
    /\ j.call > Len(j.plan) => Shows(cl, Final(B, j))

Progress ==
    FirstAttempt =>
        /\ job.old # job.new
        /\ job.phase = "lookup" => cloud = before.cloud /\ stat = before.stat
        /\ ClearWay => job.oldSize = Listed(before.cloud, job.old)
        /\ ClearWay /\ job.phase = "requests" =>
              job.plan = FirstPlan /\ OnCourse(cloud, View(before.cloud), job)

LEMMA AdvanceFields ==
    ASSUME job \in JobRecords, Asking
    PROVE  LET next == Advance
               hop == Call.op = "rename" /\ ~job.moving /\ Via(Call) # Call.to
           IN  /\ next.old = job.old /\ next.new = job.new /\ next.flag = job.flag
               /\ next.oldSize = job.oldSize /\ next.left = job.left
               /\ next.blind = job.blind /\ next.phase = job.phase /\ next.plan = job.plan
               /\ hop => next.call = job.call /\ next.part = job.part /\ next.moving = TRUE
               /\ ~hop /\ job.part + 1 < Count(Call.size) =>
                     next.call = job.call /\ next.part = job.part + 1 /\ next.moving = FALSE
               /\ ~hop /\ ~(job.part + 1 < Count(Call.size)) =>
                     next.call = job.call + 1 /\ next.part = 0 /\ next.moving = FALSE
<1> DEFINE next == Advance
           hop == Call.op = "rename" /\ ~job.moving /\ Via(Call) # Call.to
<1>1. \A f \in {"phase", "old", "new", "flag", "oldSize", "left", "blind", "plan",
                 "call", "part", "moving"} : f \in DOMAIN job
  BY JobRecordsAre
<1>2. CASE hop
  <2>1. next = [job EXCEPT !.moving = TRUE]
    BY <1>2 DEF Advance
  <2> HIDE DEF hop, next
  <2> QED
    BY <1>1, <1>2, <2>1 DEF hop, next
<1>3. CASE ~hop /\ job.part + 1 < Count(Call.size)
  <2>1. next = [job EXCEPT !.moving = FALSE, !.part = @ + 1]
    BY <1>3 DEF Advance
  <2> HIDE DEF hop, next
  <2> QED
    BY <1>1, <1>3, <2>1 DEF hop, next
<1>4. CASE ~hop /\ ~(job.part + 1 < Count(Call.size))
  <2>1. next = [job EXCEPT !.moving = FALSE, !.part = 0, !.call = @ + 1]
    BY <1>4 DEF Advance
  <2> HIDE DEF hop, next
  <2> QED
    BY <1>1, <1>4, <2>1 DEF hop, next
<1> QED
  BY <1>2, <1>3, <1>4

(* The course so far: the call is ready, and its file's part is the next. *)
LEMMA CourseNow ==
    ASSUME TypeInv, Progress, FirstAttempt, ClearWay, job.phase = "requests"
    PROVE  /\ ClearJob /\ job.plan = FirstPlan /\ PlanWorks(job.plan)
           /\ OnCourse(cloud, View(before.cloud), job)
           /\ Asking =>
                 /\ Call \in Calls /\ job.call \in 1..3 /\ job.call \in 1..Len(job.plan)
                 /\ Ready(Stage(View(before.cloud), job.plan, job.call), Call)
<1>1. job \in JobRecords /\ CloudOK(before.cloud)
  BY DEF FirstAttempt, TypeInv, TypeOK, JobRecords
<1>2. ClearJob /\ job.plan = FirstPlan /\ OnCourse(cloud, View(before.cloud), job)
  BY <1>1 DEF Progress, ClearJob
<1>3. PlanWorks(job.plan)
  BY <1>2, FirstPlanWorks
<1>4. ASSUME Asking
      PROVE  /\ Call \in Calls /\ job.call \in 1..3 /\ job.call \in 1..Len(job.plan)
             /\ Ready(Stage(View(before.cloud), job.plan, job.call), Call)
  <2>1. Call \in Calls
    BY <1>1, <1>4, CallTypes DEF JobRecords
  <2>2. job.call \in 1..Len(job.plan) /\ Len(job.plan) \in 1..3
    BY <1>1, <1>3, <1>4, JobRecordsAre DEF PlanWorks, Asking
  <2>3. Ready(Stage(View(before.cloud), job.plan, job.call), Call)
    BY <1>3, <2>2 DEF PlanWorks, Call
  <2>4. job.call \in 1..3
    <3> DEFINE n == Len(job.plan)
               k == job.call
    <3>1. n \in 1..3 /\ k \in 1..n
      BY <2>2
    <3> HIDE DEF n, k
    <3>2. k \in 1..3
      BY <3>1
    <3> QED
      BY <3>2 DEF k
  <2> QED
    BY <2>1, <2>2, <2>3, <2>4, Zenon
<1> QED
  BY <1>2, <1>3, <1>4

LEMMA EffectView ==
    ASSUME TypeInv, Progress, FirstAttempt, ClearWay, Asking
    PROVE  LET V == Stage(View(before.cloud), job.plan, job.call)
               hop == Call.op = "rename" /\ ~job.moving /\ Via(Call) # Call.to
           IN  /\ hop => Shows(Effect, DuringCall(V, Call, job.part, TRUE))
               /\ ~hop => Shows(Effect, DuringCall(V, Call, job.part + 1, FALSE))
<1> DEFINE V == Stage(View(before.cloud), job.plan, job.call)
           hop == Call.op = "rename" /\ ~job.moving /\ Via(Call) # Call.to
           i == job.part
           y == NameAt(Call.size, i)
<1>1. /\ Call \in Calls /\ Ready(V, Call) /\ i \in Nat /\ job.moving \in BOOLEAN
      /\ Call.op \in {"rename", "remove"}
  BY CourseNow, JobRecordsAre DEF Asking, ClearJob, Calls
<1>2. /\ i < Count(Call.size)
      /\ job.moving => Call.op = "rename" /\ Via(Call) # Call.to
      /\ Shows(cloud, DuringCall(V, Call, i, job.moving))
  BY CourseNow DEF OnCourse, Asking, Call
<1>3. /\ From = <<IF job.moving THEN Via(Call) ELSE Call.from, y>>
      /\ To = <<IF job.moving THEN Call.to ELSE Via(Call), y>>
  BY DEF From, To, PartOf
<1>4. Effect = IF Call.op = "remove" THEN Without(cloud, From) ELSE Moved(cloud, From, To)
  BY DEF Effect
<1> HIDE DEF V, hop, i, y
<1>5. CASE Call.op = "remove"
  <2>1. job.moving = FALSE /\ ~hop /\ Effect = Without(cloud, <<Call.from, y>>)
    BY <1>1, <1>2, <1>3, <1>4, <1>5 DEF hop
  <2>2. Shows(cloud, DuringCall(V, Call, i, FALSE))
    BY <1>2, <2>1
  <2>3. Shows(Effect, DuringCall(V, Call, i + 1, FALSE))
    BY <1>1, <1>2, <1>5, <2>1, <2>2, RequestRemoves DEF y
  <2> QED
    BY <2>1, <2>3 DEF V, hop, i
<1>6. CASE Call.op = "rename" /\ job.moving = FALSE
  <2>1. Effect = Moved(cloud, <<Call.from, y>>, <<Via(Call), y>>)
    BY <1>3, <1>4, <1>6
  <2>2. Shows(cloud, DuringCall(V, Call, i, FALSE))
    BY <1>2, <1>6
  <2>3. /\ Shows(Effect, DuringCall(V, Call, i, TRUE))
        /\ Via(Call) = Call.to => Shows(Effect, DuringCall(V, Call, i + 1, FALSE))
    BY <1>1, <1>2, <1>6, <2>1, <2>2, RequestRenames DEF y
  <2>4. ~hop => Via(Call) = Call.to
    BY <1>6 DEF hop
  <2> QED
    BY <2>3, <2>4 DEF V, hop, i
<1>7. CASE Call.op = "rename" /\ job.moving = TRUE
  <2>1. Effect = Moved(cloud, <<Via(Call), y>>, <<Call.to, y>>) /\ ~hop
    BY <1>3, <1>4, <1>7 DEF hop
  <2>2. Shows(cloud, DuringCall(V, Call, i, TRUE)) /\ Via(Call) # Call.to
    BY <1>2, <1>7
  <2>3. Shows(Effect, DuringCall(V, Call, i + 1, FALSE))
    BY <1>1, <1>2, <1>7, <2>1, <2>2, RequestMoves DEF y
  <2> QED
    BY <2>1, <2>3 DEF V, hop, i
<1> QED
  BY <1>1, <1>5, <1>6, <1>7

(* So the next request keeps the cloud on course. *)
LEMMA CourseKept ==
    ASSUME TypeInv, Progress, FirstAttempt, ClearWay, Asking
    PROVE  OnCourse(Effect, View(before.cloud), Advance)
<1> DEFINE B == View(before.cloud)
           V == Stage(B, job.plan, job.call)
           hop == Call.op = "rename" /\ ~job.moving /\ Via(Call) # Call.to
           i == job.part
           next == Advance
           n == Len(job.plan)
<1>1. /\ Call \in Calls /\ job.call \in 1..3 /\ job.call \in 1..n /\ n \in 1..3
      /\ PlanWorks(job.plan) /\ Call = job.plan[job.call] /\ i \in Nat
      /\ job \in JobRecords
  BY CourseNow, JobRecordsAre DEF Asking, ClearJob, PlanWorks, Call
<1>2. i < Count(Call.size) /\ Call.size \in Nat /\ Count(Call.size) \in Nat
  BY <1>1, CourseNow, CountType DEF OnCourse, Asking, Calls
<1>3. /\ hop => Shows(Effect, DuringCall(V, Call, i, TRUE))
      /\ ~hop => Shows(Effect, DuringCall(V, Call, i + 1, FALSE))
  BY EffectView
<1>4. /\ next.old = job.old /\ next.new = job.new /\ next.flag = job.flag
      /\ next.plan = job.plan
      /\ hop => next.call = job.call /\ next.part = i /\ next.moving = TRUE
      /\ ~hop /\ i + 1 < Count(Call.size) =>
            next.call = job.call /\ next.part = i + 1 /\ next.moving = FALSE
      /\ ~hop /\ ~(i + 1 < Count(Call.size)) =>
            next.call = job.call + 1 /\ next.part = 0 /\ next.moving = FALSE
  BY <1>1, AdvanceFields
<1> HIDE DEF V, i, next, n
<1>5. /\ next.call \in 1..(Len(next.plan) + 1)
      /\ next.call \in 1..n => next.plan[next.call] = job.plan[next.call]
      /\ Len(next.plan) = n
  BY <1>1, <1>4 DEF n
<1>6. CASE hop
  <2>1. next.call = job.call /\ next.part = i /\ next.moving = TRUE
        /\ Call.op = "rename" /\ Via(Call) # Call.to
    BY <1>4, <1>6
  <2>2. Shows(Effect, DuringCall(V, Call, i, TRUE))
    BY <1>3, <1>6
  <2> HIDE DEF hop, B
  <2>3. Stage(B, next.plan, next.call) = V /\ next.plan[next.call] = Call
        /\ ~(next.call > Len(next.plan))
    BY <1>1, <1>4, <1>5, <2>1 DEF V
  <2>4. OnCourse(Effect, B, next)
    BY <1>2, <1>5, <2>1, <2>2, <2>3 DEF OnCourse
  <2> QED
    BY <2>4 DEF next, B
<1>7. CASE ~hop /\ i + 1 < Count(Call.size)
  <2>1. next.call = job.call /\ next.part = i + 1 /\ next.moving = FALSE
    BY <1>4, <1>7
  <2>2. Shows(Effect, DuringCall(V, Call, i + 1, FALSE))
    BY <1>3, <1>7
  <2> HIDE DEF hop, B
  <2>3. Stage(B, next.plan, next.call) = V /\ next.plan[next.call] = Call
        /\ ~(next.call > Len(next.plan))
    BY <1>1, <1>4, <1>5, <2>1 DEF V
  <2>4. OnCourse(Effect, B, next)
    BY <1>5, <1>7, <2>1, <2>2, <2>3 DEF OnCourse
  <2> QED
    BY <2>4 DEF next, B
<1>8. CASE ~hop /\ ~(i + 1 < Count(Call.size))
  <2>1. next.call = job.call + 1 /\ next.part = 0 /\ next.moving = FALSE
    BY <1>4, <1>8
  <2>2. i + 1 = Count(Call.size)
    BY <1>1, <1>2, <1>8
  <2>3. Shows(Effect, AfterCall(V, Call))
    <3>1. Shows(Effect, DuringCall(V, Call, i + 1, FALSE))
      BY <1>3, <1>8
    <3> HIDE DEF hop
    <3> QED
      BY <1>1, <1>2, <2>2, <3>1, CallEnds
  <2> HIDE DEF hop, B
  <2>4. AfterCall(V, Call) = Stage(B, job.plan, job.call + 1)
    BY <1>1, StageNext DEF V
  <2>5. CASE job.call < n
    <3> DEFINE c == job.plan[job.call + 1]
               W == Stage(B, job.plan, job.call + 1)
    <3>1. Ready(W, c) /\ c \in Calls
      BY <1>1, <2>5 DEF PlanWorks, n, B
    <3>2. Shows(Effect, DuringCall(W, c, 0, FALSE))
      <4>1. Shows(Effect, W)
        BY <2>3, <2>4
      <4> HIDE DEF W, c
      <4> QED
        BY <3>1, <4>1, CallBegins
    <3>3. 0 < Count(c.size)
      <4>1. c.size \in Nat
        BY <3>1 DEF Calls
      <4> QED
        BY <4>1, CountType
    <3>4. Stage(B, next.plan, next.call) = W /\ next.plan[next.call] = c
          /\ ~(next.call > Len(next.plan))
      BY <1>1, <1>4, <1>5, <2>1, <2>5
    <3> HIDE DEF W, c
    <3>5. OnCourse(Effect, B, next)
      BY <1>5, <2>1, <3>2, <3>3, <3>4 DEF OnCourse
    <3> QED
      BY <3>5 DEF next, B
  <2>6. CASE job.call = n
    <3>1. Shows(Effect, Final(B, job))
      BY <1>1, <2>3, <2>4, <2>6 DEF PlanWorks, Shows, n, B
    <3>2. Final(B, next) = Final(B, job)
      BY <1>4 DEF Final
    <3>3. ~(next.call <= Len(next.plan))
      BY <1>1, <1>5, <2>1, <2>6
    <3>4. OnCourse(Effect, B, next)
      BY <1>5, <3>1, <3>2, <3>3 DEF OnCourse
    <3> QED
      BY <3>4 DEF next, B
  <2> QED
    BY <1>1, <2>5, <2>6
<1> QED
  BY <1>6, <1>7, <1>8

-----------------------------------------------------------------------------
(***************************************************************************)
(* The invariant.                                                          *)
(***************************************************************************)
LEMMA CourseBegins ==
    ASSUME ClearJob, NEW next, next.plan = FirstPlan, next.call = 1, next.part = 0,
           next.moving = FALSE
    PROVE  OnCourse(before.cloud, View(before.cloud), next)
<1> DEFINE B == View(before.cloud)
           c == next.plan[1]
<1>1. PlanWorks(next.plan) /\ Stage(B, next.plan, 1) = B
  BY FirstPlanWorks DEF Stage
<1>2. Len(next.plan) \in 1..3 /\ c \in Calls /\ Ready(B, c)
  BY <1>1 DEF PlanWorks
<1>3. c.size \in Nat
  BY <1>2 DEF Calls
<1>4. 0 < Count(c.size)
  BY <1>3, CountType
<1>5. Shows(before.cloud, B)
  BY ViewAt DEF Shows
<1>6. Stage(B, next.plan, next.call) = B /\ next.plan[next.call] = c
  BY <1>1
<1> HIDE DEF B, c
<1>7. Shows(before.cloud, DuringCall(B, c, 0, FALSE))
  BY <1>2, <1>5, CallBegins
<1>8. next.call \in 1..(Len(next.plan) + 1) /\ ~(next.call > Len(next.plan))
  <2> DEFINE n == Len(next.plan)
  <2>1. n \in 1..3
    BY <1>2
  <2> HIDE DEF n
  <2>2. 1 \in 1..(n + 1) /\ ~(1 > n)
    BY <2>1
  <2> QED
    BY <2>2 DEF n
<1>9. OnCourse(before.cloud, B, next)
  BY <1>4, <1>6, <1>7, <1>8 DEF OnCourse
<1> QED
  BY <1>9 DEF B

(* Whether the way is clear does not change with the requests. *)
LEMMA ClearStays ==
    ASSUME before' = before, job'.old = job.old, job'.new = job.new,
           job'.flag = job.flag, job'.blind = job.blind, job'.oldSize = job.oldSize
    PROVE  (ClearWay' <=> ClearWay) /\ FirstPlan' = FirstPlan
BY DEF ClearWay, Known, Complete, Free, FirstPlan, TargetSize

LEMMA ProgressInit == Init => Progress
BY DEF Init, Progress, FirstAttempt

LEMMA ProgressStep == TypeInv /\ Progress /\ [Next]_vars => Progress'
<1> SUFFICES ASSUME TypeInv, Progress, Next \/ UNCHANGED vars PROVE Progress'
  OBVIOUS
<1>1. job \in Jobs /\ (job # NoJob => job \in JobRecords)
  BY DEF TypeInv, TypeOK, JobRecords
<1>2. job' = NoJob => Progress'
  BY DEF Progress, FirstAttempt
<1>3. CASE UNCHANGED vars
  <2>1. (ClearWay' <=> ClearWay) /\ FirstPlan' = FirstPlan
    BY <1>3, ClearStays DEF vars
  <2> QED
    BY <1>3, <2>1 DEF vars, Progress, FirstAttempt
<1>4. CASE \E d \in Dirs : Readdir(d)
  BY <1>2, <1>4 DEF Readdir
<1>5. CASE \E p \in Files : Expire(p)
  BY <1>2, <1>5 DEF Expire
<1>6. CASE \E old, new \in Files, flag \in Flags : Begin(old, new, flag)
  <2>1. PICK old \in Files, new \in Files, flag \in Flags : Begin(old, new, flag)
    BY <1>6
  <2>2. /\ job'.old = old /\ job'.new = new /\ job'.oldSize = SizeOf(old) /\ old # new
        /\ job'.phase = "lookup"
        /\ cloud' = cloud /\ before'.cloud = cloud
        /\ stat' = AfterGetattr(old) /\ before'.stat = AfterGetattr(old)
    BY <2>1 DEF Begin
  <2>3. ASSUME ClearWay' PROVE SizeOf(old) = Listed(cloud, old)
    <3>1. before'.stat[old] \in {NoEntry, Listed(cloud, old)}
      BY <2>2, <2>3 DEF ClearWay, Known
    <3> QED
      BY <2>2, <3>1 DEF SizeOf, AfterGetattr
  <2> QED
    BY <2>2, <2>3 DEF Progress
<1>7. CASE \E old \in Files : NoSource(old)
  BY <1>2, <1>7 DEF NoSource
<1>8. CASE LookUpTarget
  <2>1. job # NoJob /\ job \in JobRecords /\ job.phase = "lookup"
    BY <1>1, <1>8, JobPhase DEF LookUpTarget
  <2> DEFINE plan == Plan(job.old, job.new, job.flag, job.oldSize, SizeOf(job.new))
  <2>2. CASE job' = Attempt("requests", plan)
    <3>1. plan \in Seq(Calls)
      <4>1. /\ job.old \in Files /\ job.new \in Files /\ job.oldSize \in Nat
            /\ SizeOf(job.new) \in StatSizes
        BY <1>1, <2>1, JobFields, PathTypes, CacheTypes
      <4> QED
        BY <4>1, PlanTypes
    <3> HIDE DEF plan
    <3>2. /\ job'.old = job.old /\ job'.new = job.new /\ job'.flag = job.flag
          /\ job'.oldSize = job.oldSize /\ job'.left = job.left /\ job'.blind = job.blind
          /\ job'.phase = "requests" /\ job'.plan = plan
          /\ job'.call = 1 /\ job'.part = 0 /\ job'.moving = FALSE
      BY <1>1, <2>1, <2>2, <3>1, AttemptType
    <3>3. before' = before /\ cloud' = cloud
      BY <1>8 DEF LookUpTarget
    <3>4. (ClearWay' <=> ClearWay) /\ FirstPlan' = FirstPlan
      BY <3>2, <3>3, ClearStays
    <3>5. FirstAttempt' => FirstAttempt
      BY <2>1, <3>2 DEF FirstAttempt
    <3>6. ASSUME FirstAttempt, ClearWay
          PROVE  job'.plan = FirstPlan /\ OnCourse(cloud', View(before'.cloud), job')
      <4>1. /\ cloud = before.cloud /\ stat = before.stat /\ job.old # job.new
            /\ job.oldSize = Listed(before.cloud, job.old)
        BY <2>1, <3>6 DEF Progress
      <4>2. ClearJob
        BY <2>1, <3>6, <4>1 DEF ClearJob, TypeInv
      <4>3. SizeOf(job.new) = TargetSize
        BY <3>6, <4>1 DEF ClearWay, Known, SizeOf, TargetSize
      <4>4. job'.plan = FirstPlan
        BY <3>2, <4>3 DEF FirstPlan, plan
      <4>5. OnCourse(before.cloud, View(before.cloud), job')
        BY <3>2, <4>2, <4>4, CourseBegins
      <4> QED
        BY <3>3, <4>1, <4>4, <4>5
    <3> QED
      BY <3>2, <3>3, <3>4, <3>5, <3>6 DEF Progress
  <2> QED
    BY <1>2, <1>8, <2>2 DEF LookUpTarget, Finish
<1>9. CASE LookUpFails
  <2>1. job # NoJob /\ job \in JobRecords /\ job.phase = "lookup"
    BY <1>1, <1>9, JobPhase DEF LookUpFails
  <2> DEFINE plan == Plan(job.old, job.new, job.flag, job.oldSize, NoEntry)
             next == Attempt("requests", plan)
  <2>2. plan \in Seq(Calls)
    <3>1. job.old \in Files /\ job.new \in Files /\ job.oldSize \in Nat
      BY <1>1, <2>1, JobFields
    <3> QED
      BY <3>1, PlanTypes DEF StatSizes
  <2>3. /\ next \in JobRecords /\ next.old = job.old /\ next.new = job.new
        /\ next.left = job.left /\ next.phase = "requests"
        /\ job' = [next EXCEPT !.blind = TRUE]
    <3> HIDE DEF plan
    <3> QED
      BY <1>1, <1>9, <2>1, <2>2, AttemptType DEF LookUpFails, plan
  <2> HIDE DEF next
  <2>4. /\ job'.blind = TRUE /\ job'.old = job.old /\ job'.new = job.new
        /\ job'.left = job.left /\ job'.phase = "requests"
    BY <2>3, JobRecordsAre
  <2>5. ~ClearWay'
    BY <2>4 DEF ClearWay
  <2>6. FirstAttempt' => FirstAttempt
    BY <2>1, <2>4 DEF FirstAttempt
  <2> QED
    BY <2>4, <2>5, <2>6 DEF Progress
<1>10. CASE Perform
  <2>1. /\ Asking /\ cloud' = Effect /\ job' = Advance /\ before' = before
        /\ job \in JobRecords /\ job # NoJob /\ job.phase = "requests"
    BY <1>1, <1>10, JobPhase DEF Perform, Asking
  <2>2. /\ job'.old = job.old /\ job'.new = job.new /\ job'.flag = job.flag
        /\ job'.oldSize = job.oldSize /\ job'.left = job.left /\ job'.blind = job.blind
        /\ job'.phase = "requests" /\ job'.plan = job.plan
    BY <2>1, AdvanceFields
  <2>3. (ClearWay' <=> ClearWay) /\ FirstPlan' = FirstPlan
    BY <2>1, <2>2, ClearStays
  <2>4. FirstAttempt' => FirstAttempt
    BY <2>1, <2>2 DEF FirstAttempt
  <2>5. ASSUME FirstAttempt, ClearWay
        PROVE  job'.plan = FirstPlan /\ OnCourse(cloud', View(before'.cloud), job')
    BY <2>1, <2>2, <2>5, CourseKept, CourseNow
  <2> QED
    BY <2>1, <2>2, <2>3, <2>4, <2>5 DEF Progress
<1>11. CASE Succeed
  BY <1>2, <1>11 DEF Succeed, Finish
<1>12. CASE Refused
  BY <1>2, <1>12 DEF Refused, Finish
<1>13. CASE Fault
  <2>1. CASE job' = [Attempt("lookup", <<>>) EXCEPT !.left = @ - 1]
    <3> DEFINE next == Attempt("lookup", <<>>)
    <3>1. job # NoJob /\ <<>> \in Seq(Calls)
      BY <1>13, JobPhase, EmptySeq DEF Fault, Asking
    <3>2. next \in JobRecords /\ next.left = job.left /\ job.left \in 1..Retries
      BY <1>1, <3>1, AttemptType, JobFields
    <3> HIDE DEF next
    <3>3. job'.left = next.left - 1
      BY <2>1, <3>2, JobRecordsAre DEF next
    <3>4. job'.left # Retries
      BY <3>2, <3>3, RenameAssumption
    <3> QED
      BY <3>4 DEF Progress, FirstAttempt
  <2> QED
    BY <1>2, <1>13, <2>1 DEF Fault, Finish
<1> QED
  BY <1>3, <1>4, <1>5, <1>6, <1>7, <1>8, <1>9, <1>10, <1>11, <1>12, <1>13
     DEF Next, Work

(***************************************************************************)
(* At every moment of a first attempt whose way is clear, the lambda has   *)
(* the plan its lookups call for, and the cloud shows what the requests    *)
(* made so far have come to.                                               *)
(***************************************************************************)
THEOREM RenameProgress == Spec => [](TypeInv /\ Progress)
BY TypeInit, TypeStep, ProgressInit, ProgressStep, PTL DEF Spec

-----------------------------------------------------------------------------
(* No part is lost on the way. *)

(* Every content of one file is in the view, under the same name. *)
KeptIn(V, S) == \A x \in Names : S[x] = {} \/ \E q \in Paths : V[q][x] = S[x]

LEMMA CallKeeps ==
    ASSUME NEW V, NEW c \in Calls, Ready(V, c), c.op = "rename",
           NEW S, KeptIn(V, S), NEW i, NEW moving
    PROVE  KeptIn(DuringCall(V, c, i, moving), S) /\ KeptIn(AfterCall(V, c), S)
<1>1. c.from \in Paths /\ c.to \in Paths /\ Via(c) \in Paths /\ c.from # c.to
  BY PathTypes DEF Calls, Via, Ready
<1> SUFFICES ASSUME NEW x \in Names, S[x] # {}
             PROVE  /\ \E q \in Paths : DuringCall(V, c, i, moving)[q][x] = S[x]
                    /\ \E q \in Paths : AfterCall(V, c)[q][x] = S[x]
  BY DEF KeptIn
<1>2. PICK q \in Paths : V[q][x] = S[x]
  BY DEF KeptIn
<1>3. V[c.to][x] = {} /\ (Via(c) # c.from => V[Via(c)][x] = {})
  BY DEF Ready
<1>4. \A p \in Paths : AfterCall(V, c)[p][x] =
         IF p = c.to THEN V[c.from][x] ELSE IF p = c.from THEN {} ELSE V[p][x]
  BY DEF AfterCall
<1>5. \E p \in Paths : AfterCall(V, c)[p][x] = S[x]
  <2>1. CASE q = c.from
    BY <1>1, <1>2, <1>4, <2>1
  <2>2. CASE q # c.from
    BY <1>2, <1>3, <1>4, <2>2
  <2> QED
    BY <2>1, <2>2
<1>6. \E p \in Paths : DuringCall(V, c, i, moving)[p][x] = S[x]
  <2>1. CASE x \notin NamesFrom(c.size, i)
    BY <1>5, <2>1 DEF DuringCall
  <2>2. CASE x \in NamesFrom(c.size, i) /\ ~(moving /\ x = NameAt(c.size, i))
    <3>1. DuringCall(V, c, i, moving)[q][x] = V[q][x]
      BY <2>2 DEF DuringCall
    <3> QED
      BY <1>2, <3>1
  <2>3. CASE x \in NamesFrom(c.size, i) /\ moving /\ x = NameAt(c.size, i)
    <3>1. \A p \in Paths : DuringCall(V, c, i, moving)[p][x] =
             IF p = Via(c) THEN V[c.from][x] ELSE IF p = c.from THEN {} ELSE V[p][x]
      BY <2>3 DEF DuringCall
    <3>2. CASE q = c.from
      BY <1>1, <1>2, <3>1, <3>2
    <3>3. CASE q # c.from
      BY <1>2, <1>3, <3>1, <3>3
    <3> QED
      BY <3>2, <3>3
  <2> QED
    BY <2>1, <2>2, <2>3
<1> QED
  BY <1>5, <1>6

(* The files whose content a rename must keep. *)
Precious == {job.old} \cup IF job.flag = "EXCHANGE" THEN {job.new} ELSE {}

LEMMA RemovalKeeps ==
    ASSUME NEW V, NEW c, c.op = "remove", NEW p \in Paths, c.from # p, NEW i
    PROVE  KeptIn(DuringCall(V, c, i, FALSE), V[p]) /\ KeptIn(AfterCall(V, c), V[p])
<1>1. \A x \in Names : AfterCall(V, c)[p][x] = V[p][x]
  BY DEF AfterCall
<1>2. \A x \in Names : DuringCall(V, c, i, FALSE)[p][x] = V[p][x]
  BY <1>1 DEF DuringCall
<1> QED
  BY <1>1, <1>2 DEF KeptIn

LEMMA StagesKeep ==
    ASSUME ClearJob, NEW plan, PlanWorks(plan), NEW p \in Precious, NEW k \in 1..Len(plan)
    PROVE  KeptIn(Stage(View(before.cloud), plan, k), View(before.cloud)[p])
<1> DEFINE B == View(before.cloud)
<1>1. p \in Paths /\ Len(plan) \in 1..3 /\ k \in 1..3
  <2>1. p \in Paths
    BY ClearViews, PathTypes DEF Precious
  <2> DEFINE n == Len(plan)
  <2>2. n \in 1..3 /\ k \in 1..n
    BY DEF PlanWorks
  <2> HIDE DEF n
  <2>3. n \in 1..3 /\ k \in 1..3
    BY <2>2
  <2> QED
    BY <2>1, <2>3 DEF n
<1>2. ASSUME NEW j \in 1..2, j \in 1..Len(plan), KeptIn(Stage(B, plan, j), B[p])
      PROVE  KeptIn(Stage(B, plan, j + 1), B[p])
  <2>1. /\ plan[j] \in Calls /\ Ready(Stage(B, plan, j), plan[j])
        /\ plan[j].op = "remove" => j = 1 /\ plan[j].from # p
    BY <1>2 DEF PlanWorks, Precious
  <2>2. Stage(B, plan, j + 1) = AfterCall(Stage(B, plan, j), plan[j])
    BY StageNext
  <2>3. CASE plan[j].op = "remove"
    <3>1. Stage(B, plan, j) = B
      BY <2>1, <2>3 DEF Stage
    <3> QED
      BY <1>1, <2>1, <2>2, <2>3, <3>1, RemovalKeeps
  <2>4. CASE plan[j].op = "rename"
    <3> HIDE DEF B
    <3> QED
      BY <1>2, <2>1, <2>2, <2>4, CallKeeps
  <2> QED
    BY <2>1, <2>3, <2>4 DEF Calls
<1>3. Stage(B, plan, 1) = B
  BY DEF Stage
<1>4. KeptIn(Stage(B, plan, 1), B[p])
  BY <1>1, <1>3 DEF KeptIn
<1> HIDE DEF B
<1>5. k >= 2 => KeptIn(Stage(B, plan, 2), B[p])
  BY <1>1, <1>2, <1>4
<1>6. k = 3 => KeptIn(Stage(B, plan, 3), B[p])
  BY <1>1, <1>2, <1>5
<1>7. KeptIn(Stage(B, plan, k), B[p])
  BY <1>1, <1>4, <1>5, <1>6
<1> QED
  BY <1>7 DEF B

LEMMA CourseKeeps ==
    ASSUME TypeInv, Progress, FirstAttempt, ClearWay, NEW p \in Precious
    PROVE  \E V : Shows(cloud, V) /\ KeptIn(V, View(before.cloud)[p])
<1> DEFINE B == View(before.cloud)
<1>1. job # NoJob /\ job \in JobRecords
  BY DEF FirstAttempt, TypeInv, TypeOK, JobRecords
<1>2. p \in Paths
  BY <1>1, PathTypes, JobRecordsAre DEF Precious
<1>3. CASE job.phase = "lookup"
  <2>1. cloud = before.cloud
    BY <1>3 DEF Progress
  <2>2. Shows(cloud, B) /\ KeptIn(B, B[p])
    BY <1>2, <2>1, ViewAt DEF Shows, KeptIn
  <2> QED
    BY <2>2
<1>4. CASE job.phase = "requests" /\ Asking
  <2> DEFINE V == Stage(B, job.plan, job.call)
             W == DuringCall(V, Call, job.part, job.moving)
  <2>1. /\ ClearJob /\ PlanWorks(job.plan) /\ job.call \in 1..Len(job.plan)
        /\ Call \in Calls /\ Ready(V, Call) /\ Call = job.plan[job.call]
    BY <1>4, CourseNow DEF Call
  <2>2. Shows(cloud, W) /\ (job.moving => Call.op = "rename") /\ job.moving \in BOOLEAN
    BY <1>1, <1>4, CourseNow, JobRecordsAre DEF OnCourse, Asking, Call
  <2>3. KeptIn(V, B[p])
    BY <2>1, StagesKeep
  <2>4. CASE Call.op = "remove"
    <3>1. job.moving = FALSE /\ job.call = 1 /\ Call.from # p
      BY <2>1, <2>2, <2>4 DEF PlanWorks, Precious
    <3>2. V = B
      BY <3>1 DEF Stage
    <3>3. KeptIn(W, B[p])
      BY <1>2, <2>4, <3>1, <3>2, RemovalKeeps
    <3> QED
      BY <2>2, <3>3
  <2>5. CASE Call.op = "rename"
    <3>1. KeptIn(W, B[p])
      <4> HIDE DEF V, B
      <4> QED
        BY <2>1, <2>3, <2>5, CallKeeps
    <3> QED
      BY <2>2, <3>1
  <2> QED
    BY <2>1, <2>4, <2>5 DEF Calls
<1>5. CASE job.phase = "requests" /\ ~Asking
  <2>1. ClearJob /\ job.call > Len(job.plan)
    <3>1. ClearJob /\ OnCourse(cloud, B, job) /\ Len(job.plan) \in Nat
      BY <1>5, CourseNow DEF PlanWorks
    <3> QED
      BY <1>5, <3>1 DEF Asking, OnCourse
  <2>2. Shows(cloud, Final(B, job))
    BY <1>5, <2>1, CourseNow DEF OnCourse
  <2>3. job.old \in Paths /\ job.new \in Paths /\ job.old # job.new
    BY <2>1, ClearViews, PathTypes
  <2>4. KeptIn(Final(B, job), B[p])
    <3> HIDE DEF B
    <3>1. CASE p = job.old
      <4>1. \A x \in Names : Final(B, job)[job.new][x] = B[p][x]
        BY <2>3, <3>1 DEF Final
      <4> QED
        BY <2>3, <4>1 DEF KeptIn
    <3>2. CASE p = job.new /\ job.flag = "EXCHANGE"
      <4>1. \A x \in Names : Final(B, job)[job.old][x] = B[p][x]
        BY <2>3, <3>2 DEF Final
      <4> QED
        BY <2>3, <4>1 DEF KeptIn
    <3> QED
      BY <3>1, <3>2 DEF Precious
  <2> QED
    BY <2>2, <2>4
<1> QED
  BY <1>1, <1>3, <1>4, <1>5, JobRecordsAre

LEMMA KeptSurvives ==
    ASSUME CloudOK(before.cloud), NEW p \in Paths,
           NEW V, Shows(cloud, V), KeptIn(V, View(before.cloud)[p])
    PROVE  Survives(p)
<1> SUFFICES ASSUME NEW n \in DOMAIN before.cloud, n[1] = p
             PROVE  \E m \in DOMAIN cloud : cloud[m] = before.cloud[n]
  BY DEF Survives
<1> DEFINE x == n[2]
<1>1. n = <<p, x>> /\ x \in Names
  BY DEF CloudOK, Places
<1> HIDE DEF x
<1>2. View(before.cloud)[p][x] = {before.cloud[n]}
  BY <1>1, SlotHolds, ViewAt
<1>3. PICK q \in Paths : V[q][x] = {before.cloud[n]}
  BY <1>1, <1>2 DEF KeptIn
<1>4. Slot(cloud, q, x) = {before.cloud[n]}
  BY <1>1, <1>3 DEF Shows
<1>5. <<q, x>> \in DOMAIN cloud /\ {cloud[<<q, x>>]} = {before.cloud[n]}
  BY <1>4, SlotHolds
<1> QED
  BY <1>5

(***************************************************************************)
(* Wherever a first attempt is interrupted, while the way is clear, every  *)
(* part of the source is stored under some name, and in an exchange every  *)
(* part of the target too: for files of any sizes in any directories.      *)
(***************************************************************************)
THEOREM RenameLosesNothing == Spec => []OrderIsSafe
<1>1. ASSUME TypeInv, Progress PROVE OrderIsSafe
  <2> SUFFICES ASSUME FirstAttempt, ClearWay, NEW p \in Precious PROVE Survives(p)
    BY DEF OrderIsSafe, Precious
  <2>1. PICK V : Shows(cloud, V) /\ KeptIn(V, View(before.cloud)[p])
    BY <1>1, CourseKeeps
  <2>2. job \in JobRecords /\ CloudOK(before.cloud)
    BY <1>1 DEF FirstAttempt, TypeInv, TypeOK, JobRecords
  <2>3. p \in Paths
    BY <2>2, PathTypes, JobRecordsAre DEF Precious
  <2> QED
    BY <2>1, <2>2, <2>3, KeptSurvives
<1> QED
  BY <1>1, RenameProgress, PTL

-----------------------------------------------------------------------------
(* What a rename leaves. *)

LEMMA SameLayout ==
    ASSUME NEW c1, DOMAIN c1 \subseteq Places, NEW c2, DOMAIN c2 \subseteq Places,
           NEW p, NEW q, \A x \in Names : Slot(c1, p, x) = Slot(c2, q, x)
    PROVE  Layout(c1, p) = Layout(c2, q)
<1> DEFINE l == Layout(c1, p)
           m == Layout(c2, q)
<1>1. /\ DOMAIN l = {x \in Names : <<p, x>> \in DOMAIN c1}
      /\ \A x \in DOMAIN l : l[x] = c1[<<p, x>>]
  BY LayoutAt
<1>2. /\ DOMAIN m = {x \in Names : <<q, x>> \in DOMAIN c2}
      /\ \A x \in DOMAIN m : m[x] = c2[<<q, x>>]
  BY LayoutAt
<1>3. l = [x \in DOMAIN l |-> l[x]] /\ m = [x \in DOMAIN m |-> m[x]]
  BY DEF Layout
<1> HIDE DEF l, m
<1>4. DOMAIN l = DOMAIN m
  BY <1>1, <1>2, SlotHolds
<1>5. ASSUME NEW x \in DOMAIN l PROVE l[x] = m[x]
  <2>1. x \in Names /\ <<p, x>> \in DOMAIN c1 /\ <<q, x>> \in DOMAIN c2
    BY <1>1, <1>2, <1>4
  <2>2. {c1[<<p, x>>]} = {c2[<<q, x>>]}
    BY <2>1, SlotHolds
  <2> QED
    BY <1>1, <1>2, <1>4, <2>2
<1>6. l = m
  BY <1>3, <1>4, <1>5
<1> QED
  BY <1>6 DEF l, m

LEMMA FinalIsWanted ==
    ASSUME CloudOK(cloud), ClearJob, Shows(cloud, Final(View(before.cloud), job)),
           NEW p \in Paths
    PROVE  Layout(cloud, p) = Wanted(p)
<1> DEFINE B == View(before.cloud)
           none == [n \in {} |-> <<>>]
<1>1. /\ DOMAIN cloud \subseteq Places /\ DOMAIN before.cloud \subseteq Places
      /\ DOMAIN none \subseteq Places
      /\ job.old \in Paths /\ job.new \in Paths /\ job.old # job.new
  BY ClearViews, PathTypes DEF CloudOK, ClearJob
<1>2. ASSUME NEW x \in Names
      PROVE  Slot(cloud, p, x) = IF p = job.new THEN Slot(before.cloud, job.old, x)
                ELSE IF p # job.old THEN Slot(before.cloud, p, x)
                ELSE IF job.flag = "EXCHANGE" THEN Slot(before.cloud, job.new, x)
                ELSE Slot(none, p, x)
  <2>1. Slot(none, p, x) = {}
    BY DEF Slot
  <2>2. Final(B, job)[p][x] = IF p = job.new THEN B[job.old][x]
                              ELSE IF p # job.old THEN B[p][x]
                              ELSE IF job.flag = "EXCHANGE" THEN B[job.new][x] ELSE {}
    BY DEF Final
  <2>3. Slot(cloud, p, x) = Final(B, job)[p][x]
    BY DEF Shows
  <2>4. \A q \in Paths : B[q][x] = Slot(before.cloud, q, x)
    BY ViewAt
  <2> HIDE DEF B, none
  <2> QED
    BY <1>1, <2>1, <2>2, <2>3, <2>4
<1> HIDE DEF none
<1>3. CASE p = job.new
  <2>1. Layout(cloud, p) = Layout(before.cloud, job.old)
    BY <1>1, <1>2, <1>3, SameLayout
  <2> QED
    BY <1>1, <1>3, <2>1 DEF Wanted
<1>4. CASE p # job.new /\ p # job.old
  <2>1. Layout(cloud, p) = Layout(before.cloud, p)
    BY <1>1, <1>2, <1>4, SameLayout
  <2> QED
    BY <1>4, <2>1 DEF Wanted
<1>5. CASE p = job.old /\ job.flag = "EXCHANGE"
  <2>1. Layout(cloud, p) = Layout(before.cloud, job.new)
    BY <1>1, <1>2, <1>5, SameLayout
  <2> QED
    BY <1>1, <1>5, <2>1 DEF Wanted
<1>6. CASE p = job.old /\ job.flag # "EXCHANGE"
  <2>1. Layout(cloud, p) = Layout(none, p)
    BY <1>1, <1>2, <1>6, SameLayout
  <2> QED
    BY <1>1, <1>6, <2>1 DEF Wanted, none
<1> QED
  BY <1>3, <1>4, <1>5, <1>6

(***************************************************************************)
(* A rename that succeeds at its first attempt, its way clear, leaves the  *)
(* source's parts, all of them and no other, at the target; the target's   *)
(* at the source after an exchange; and every third file as it was.        *)
(***************************************************************************)
THEOREM RenameHasItsEffect == Spec => RenameTakesEffect
<1>1. ASSUME TypeInv, Progress, [Next]_vars
      PROVE  [FirstAttempt /\ ClearWay /\ job' = NoJob /\ result' = "done"
                 => \A p \in Paths : Layout(cloud', p) = Wanted(p)]_vars
  <2> SUFFICES ASSUME FirstAttempt, ClearWay, job' = NoJob, result' = "done", Next,
                      NEW p \in Paths
               PROVE  Layout(cloud', p) = Wanted(p)
    BY <1>1
  <2>1. job \in JobRecords /\ job # NoJob /\ job \in Jobs
    BY <1>1 DEF FirstAttempt, TypeInv, TypeOK, JobRecords
  <2>2. CASE Succeed
    <3>1. job.phase = "requests" /\ job.call > Len(job.plan) /\ cloud' = cloud
      BY <2>2 DEF Succeed
    <3>2. ClearJob /\ Shows(cloud, Final(View(before.cloud), job)) /\ CloudOK(cloud)
      BY <1>1, <3>1, CourseNow DEF OnCourse, TypeInv
    <3> QED
      BY <3>1, <3>2, FinalIsWanted
  <2>3. ~LookUpTarget
    <3> SUFFICES ASSUME LookUpTarget PROVE FALSE
      OBVIOUS
    <3> DEFINE plan == Plan(job.old, job.new, job.flag, job.oldSize, SizeOf(job.new))
    <3>1. job' = Attempt("requests", plan)
      BY DEF LookUpTarget, Finish
    <3>2. plan \in Seq(Calls)
      <4>1. /\ job.old \in Files /\ job.new \in Files /\ job.oldSize \in Nat
            /\ SizeOf(job.new) \in StatSizes
        BY <1>1, <2>1, JobFields, PathTypes, CacheTypes
      <4> QED
        BY <4>1, PlanTypes
    <3> HIDE DEF plan
    <3> QED
      BY <2>1, <3>1, <3>2, AttemptType DEF JobRecords
  <2>4. ~LookUpFails
    BY <2>1, BlindAttemptType DEF JobRecords
  <2>5. ~Perform
    BY <2>1, AdvanceType DEF Perform, JobRecords
  <2>6. ~Refused
    BY DEF Refused, Finish
  <2>7. ~Fault
    <3> SUFFICES ASSUME Fault PROVE FALSE
      OBVIOUS
    <3>1. Asking /\ job' \notin JobRecords
      BY DEF Fault, JobRecords
    <3>2. ~(Finish("EINVAL") \/ Finish("EIO"))
      BY DEF Finish
    <3>3. job.left > 1 /\ job' = [Attempt("lookup", <<>>) EXCEPT !.left = @ - 1]
      BY <3>2 DEF Fault
    <3> QED
      BY <2>1, <3>1, <3>3, NextAttemptType
  <2> QED
    BY <2>1, <2>2, <2>3, <2>4, <2>5, <2>6, <2>7
       DEF Next, Work, Readdir, Expire, Begin, NoSource
<1> QED
  BY <1>1, RenameProgress, PTL DEF Spec, RenameTakesEffect
=============================================================================
