------------------------------- MODULE Rename -------------------------------
(***************************************************************************)
(* renameCallback of src/src/fuse_hooks.cpp, with what it reaches: the     *)
(* renaming and removal of every part of a compound file                   *)
(* (src/src/marc_file_node.cpp), and MarcRestClient::rename, which the     *)
(* cloud's interface makes two requests when the directory changes: rename *)
(* in place, then move.  Each request overwrites what it meets and is a    *)
(* step of its own; when one fails doWithRetry runs the lambda again, on   *)
(* what the earlier requests have left.                                    *)
(***************************************************************************)
EXTENDS Compound

CONSTANTS Dirs, Bases,  \* directories, and names of files in them
          Sizes,        \* the sizes files have at first
          Flags,        \* of "none", "NOREPLACE", "EXCHANGE"
          Retries,      \* attempts of doWithRetry
          MaxFaults,    \* bound: failed requests
          MaxRenames    \* bound: renames

ASSUME RenameAssumption ==
    /\ Sizes \subseteq Nat
    /\ Flags \subseteq {"none", "NOREPLACE", "EXCHANGE"}
    /\ Retries \in Nat \ {0}
    /\ MaxFaults \in Nat /\ MaxRenames \in Nat

(* The name with the suffix .marcfs-temp is one no user chooses. *)
Paths == [dir : Dirs, base : Bases, temp : BOOLEAN]
Files == {p \in Paths : ~p.temp}
Temp(p) == [p EXCEPT !.temp = TRUE]

VARIABLES cloud,    \* from <<path, name of Compound>> to contents
          stat,     \* the size the stat cache has for each path
          job,      \* the rename under way
          result,   \* what the last rename returned
          before,   \* history: cloud and stat when the rename began
          faults,   \* failed requests so far
          renames   \* renames begun so far

vars == <<cloud, stat, job, result, before, faults, renames>>

Layout(cl, p) ==
    [x \in {n[2] : n \in {m \in DOMAIN cl : m[1] = p}} |-> cl[<<p, x>>]]
Listed(cl, p) == ListedSize(Layout(cl, p))
Without(cl, n) == [x \in DOMAIN cl \ {n} |-> cl[x]]
Moved(cl, from, to) ==
    [x \in (DOMAIN cl \ {from}) \cup {to} |-> IF x = to THEN cl[from] ELSE cl[x]]

-----------------------------------------------------------------------------
(***************************************************************************)
(* Calls on a node: MarcFileNode::rename and ::remove, which go through    *)
(* the names a file of the node's size has.                                *)
(***************************************************************************)
Calls == [op : {"rename", "remove"}, size : Nat, from : Paths, to : Paths]
NodeRename(size, old, new) ==
    [op |-> "rename", size |-> size, from |-> old, to |-> new]
NodeRemove(size, p) == [op |-> "remove", size |-> size, from |-> p, to |-> p]

(* Faulty variants: the target is removed last, or not renamed away first. *)
PlanRemovesLast(old, new, flag, oldSize, newSize) ==
    CASE newSize # NoEntry /\ flag = "EXCHANGE" ->
             <<NodeRename(newSize, new, Temp(new)), NodeRename(oldSize, old, new),
               NodeRename(newSize, Temp(new), old)>>
      [] newSize # NoEntry /\ flag # "EXCHANGE" ->
             <<NodeRename(oldSize, old, new), NodeRemove(newSize, new)>>
      [] OTHER -> <<NodeRename(oldSize, old, new)>>

PlanForgetsParts(old, new, flag, oldSize, newSize) ==
    CASE newSize # NoEntry /\ flag = "EXCHANGE" ->
             <<NodeRename(newSize, new, Temp(new)), NodeRename(oldSize, old, new),
               NodeRename(newSize, Temp(new), old)>>
      [] newSize # NoEntry /\ flag # "EXCHANGE" ->
             <<NodeRemove(0, new), NodeRename(oldSize, old, new)>>
      [] OTHER -> <<NodeRename(oldSize, old, new)>>

(***************************************************************************)
(* What the lambda asks for: exchange goes through a temporary name, a     *)
(* target that may be replaced is removed first.                           *)
(***************************************************************************)
Plan(old, new, flag, oldSize, newSize) ==
    CASE newSize # NoEntry /\ flag = "EXCHANGE" ->
             <<NodeRename(newSize, new, Temp(new)), NodeRename(oldSize, old, new),
               NodeRename(newSize, Temp(new), old)>>
      [] newSize # NoEntry /\ flag # "EXCHANGE" ->
             <<NodeRemove(newSize, new), NodeRename(oldSize, old, new)>>
      [] OTHER -> <<NodeRename(oldSize, old, new)>>

(***************************************************************************)
(* The rename under way: the calls its lambda has to make, the one it is   *)
(* at, the part that call has reached, and whether this part has been      *)
(* renamed in place and waits to be moved.                                 *)
(***************************************************************************)
NoJob == [phase |-> "idle"]
Jobs == [phase : {"lookup", "requests"}, old : Files, new : Files, flag : Flags,
         oldSize : Nat, left : 1..Retries, blind : BOOLEAN,
         plan : Seq(Calls), call : Nat \ {0}, part : Nat, moving : BOOLEAN]
            \cup {NoJob}
Attempt(phase, plan) == [job EXCEPT !.phase = phase, !.plan = plan, !.call = 1,
                                    !.part = 0, !.moving = FALSE]

TypeOK ==
    /\ DOMAIN cloud \subseteq Paths \X Names
    /\ stat \in [Paths -> Nat \cup {NoEntry}]
    /\ job \in Jobs
    /\ result \in {"none", "done", "ENOENT", "EEXIST", "EIO", "EINVAL"}
    /\ faults \in 0..MaxFaults
    /\ renames \in 0..MaxRenames

(***************************************************************************)
(* Any files may exist; every byte knows which file it came from.          *)
(***************************************************************************)
Init ==
    /\ \E size \in [Files -> Sizes \cup {NoEntry}] :
          LET layout == [p \in {f \in Files : size[f] # NoEntry} |->
                            StoredAs([i \in 1..size[p] |-> <<p, i>>])]
              names == UNION {{p} \X DOMAIN layout[p] : p \in DOMAIN layout}
          IN  cloud = [n \in names |-> layout[n[1]][n[2]]]
    /\ stat = [p \in Paths |-> NoEntry]
    /\ job = NoJob
    /\ result = "none"
    /\ before = [cloud |-> cloud, stat |-> stat]
    /\ faults = 0
    /\ renames = 0

-----------------------------------------------------------------------------
(***************************************************************************)
(* getattrCallback: the cached size, or the listed one, in which case all  *)
(* files of the directory enter the cache.                                 *)
(***************************************************************************)
SizeOf(p) == IF stat[p] # NoEntry THEN stat[p] ELSE Listed(cloud, p)
Filled(d) == [p \in Paths |-> IF p.dir = d /\ Listed(cloud, p) # NoEntry
                              THEN Listed(cloud, p) ELSE stat[p]]
AfterGetattr(p) == IF stat[p] # NoEntry THEN stat ELSE Filled(p.dir)

Readdir(d) ==
    /\ job = NoJob
    /\ stat' = Filled(d)
    /\ UNCHANGED <<cloud, job, result, before, faults, renames>>

Expire(p) ==
    /\ job = NoJob
    /\ stat[p] # NoEntry
    /\ stat' = [stat EXCEPT ![p] = NoEntry]
    /\ UNCHANGED <<cloud, job, result, before, faults, renames>>

(***************************************************************************)
(* renameCallback looks the source up and starts its guarded call.         *)
(***************************************************************************)
Begin(old, new, flag) ==
    /\ job = NoJob
    /\ renames < MaxRenames
    /\ old # new
    /\ SizeOf(old) # NoEntry
    /\ job' = [phase |-> "lookup", old |-> old, new |-> new, flag |-> flag,
               oldSize |-> SizeOf(old), left |-> Retries, blind |-> FALSE,
               plan |-> <<>>, call |-> 1, part |-> 0, moving |-> FALSE]
    /\ stat' = AfterGetattr(old)
    /\ before' = [cloud |-> cloud, stat |-> AfterGetattr(old)]
    /\ renames' = renames + 1
    /\ UNCHANGED <<cloud, result, faults>>

NoSource(old) ==
    /\ job = NoJob
    /\ renames < MaxRenames
    /\ SizeOf(old) = NoEntry
    /\ result' = "ENOENT"
    /\ stat' = AfterGetattr(old)
    /\ renames' = renames + 1
    /\ UNCHANGED <<cloud, job, before, faults>>

Finish(r) == job' = NoJob /\ result' = r

(***************************************************************************)
(* The start of an attempt: look the target up, forget both paths, decide. *)
(***************************************************************************)
LookUpTarget ==
    /\ job.phase = "lookup"
    /\ stat' = [AfterGetattr(job.new) EXCEPT ![job.old] = NoEntry,
                                             ![job.new] = NoEntry]
    /\ LET size == SizeOf(job.new)
       IN  \/ /\ size # NoEntry /\ job.flag = "NOREPLACE"
              /\ Finish("EEXIST")
           \/ /\ ~(size # NoEntry /\ job.flag = "NOREPLACE")
              /\ job' = Attempt("requests", Plan(job.old, job.new, job.flag,
                                                 job.oldSize, size))
              /\ UNCHANGED result
    /\ UNCHANGED <<cloud, before, faults, renames>>

(***************************************************************************)
(* The lookup asks the cloud and fails: any error is taken to mean that    *)
(* there is no target.                                                     *)
(***************************************************************************)
LookUpFails ==
    /\ job.phase = "lookup"
    /\ stat[job.new] = NoEntry
    /\ faults < MaxFaults
    /\ faults' = faults + 1
    /\ stat' = [stat EXCEPT ![job.old] = NoEntry, ![job.new] = NoEntry]
    /\ job' = [Attempt("requests", Plan(job.old, job.new, job.flag,
                                        job.oldSize, NoEntry)) EXCEPT !.blind = TRUE]
    /\ UNCHANGED <<cloud, result, before, renames>>

(***************************************************************************)
(* The next request.  MarcRestClient::rename renames in place first; when  *)
(* the directory changes, a second request moves the file there.           *)
(***************************************************************************)
Asking == job.phase = "requests" /\ job.call <= Len(job.plan)
Call == job.plan[job.call]
Via(c) == [c.to EXCEPT !.dir = c.from.dir]
PartOf(p) == <<p, NameAt(Call.size, job.part)>>
From == PartOf(IF job.moving THEN Via(Call) ELSE Call.from)
To == PartOf(IF job.moving THEN Call.to ELSE Via(Call))

Effect == IF Call.op = "remove" THEN Without(cloud, From) ELSE Moved(cloud, From, To)

(* What follows it: the move, the next part, or the next call. *)
Advance ==
    IF Call.op = "rename" /\ ~job.moving /\ Via(Call) # Call.to
    THEN [job EXCEPT !.moving = TRUE]
    ELSE IF job.part + 1 < Count(Call.size)
    THEN [job EXCEPT !.moving = FALSE, !.part = @ + 1]
    ELSE [job EXCEPT !.moving = FALSE, !.part = 0, !.call = @ + 1]

Perform ==
    /\ Asking
    /\ Call.op = "rename" => From \in DOMAIN cloud
    /\ cloud' = Effect
    /\ job' = Advance
    /\ UNCHANGED <<stat, result, before, faults, renames>>

(* Faulty variant: an error below 500 is retried, and not counted. *)
RefusedForever ==
    /\ Asking
    /\ From \notin DOMAIN cloud
    /\ job' = Attempt("lookup", <<>>)
    /\ UNCHANGED <<cloud, stat, result, before, faults, renames>>

Succeed ==
    /\ job.phase = "requests" /\ job.call > Len(job.plan)
    /\ Finish("done")
    /\ UNCHANGED <<cloud, stat, before, faults, renames>>

(***************************************************************************)
(* The cloud refuses to rename a name it does not have, and may refuse to  *)
(* remove one: an error below 500.                                         *)
(***************************************************************************)
Refused ==
    /\ Asking
    /\ From \notin DOMAIN cloud
    /\ Finish("EIO")
    /\ UNCHANGED <<cloud, stat, before, faults, renames>>

(* Faulty variant: the last attempt is not counted. *)
FaultBelowZero ==
    /\ Asking
    /\ From \in DOMAIN cloud
    /\ faults < MaxFaults
    /\ faults' = faults + 1
    /\ cloud' \in {cloud, Effect}
    /\ job' = [Attempt("lookup", <<>>) EXCEPT !.left = @ - Retries]
    /\ UNCHANGED <<stat, result, before, renames>>

(***************************************************************************)
(* A request fails, carried out or not: with a 5xx code the lambda starts  *)
(* over, as long as attempts are left; any other error ends the call.      *)
(***************************************************************************)
Fault ==
    /\ Asking
    /\ From \in DOMAIN cloud
    /\ faults < MaxFaults
    /\ faults' = faults + 1
    /\ cloud' \in {cloud, Effect}
    /\ \/ /\ job.left > 1
          /\ job' = [Attempt("lookup", <<>>) EXCEPT !.left = @ - 1]
          /\ UNCHANGED result
       \/ job.left = 1 /\ Finish("EINVAL")
       \/ Finish("EIO")
    /\ UNCHANGED <<stat, before, renames>>

Work == LookUpTarget \/ Perform \/ Succeed \/ Refused

Next ==
    \/ \E d \in Dirs : Readdir(d)
    \/ \E p \in Files : Expire(p)
    \/ \E old, new \in Files, flag \in Flags : Begin(old, new, flag)
    \/ \E old \in Files : NoSource(old)
    \/ Work
    \/ LookUpFails
    \/ Fault

(***************************************************************************)
(* The cloud answers; nothing forces a rename to be asked for.             *)
(***************************************************************************)
Spec == Init /\ [][Next]_vars /\ WF_vars(Work)

-----------------------------------------------------------------------------
(***************************************************************************)
(* Both files are stored with all their parts and no others, the cache     *)
(* knew their sizes, the target has been looked up, and the names a rename *)
(* passes through on its way to another directory are free.                *)
(***************************************************************************)
Free(p) == Listed(before.cloud, p) = NoEntry
Known(p) == before.stat[p] \in {NoEntry, Listed(before.cloud, p)}
Complete(p) ==
    LET size == Listed(before.cloud, p)
    IN  DOMAIN Layout(before.cloud, p) =
            IF size = NoEntry THEN {} ELSE {NameAt(size, i) : i \in 0..(Count(size) - 1)}
ClearWay ==
    /\ \A p \in {job.old, job.new} : Known(p) /\ Complete(p)
    /\ ~job.blind
    /\ job.old.dir # job.new.dir =>
          /\ job.old.base = job.new.base \/ Free([job.new EXCEPT !.dir = job.old.dir])
          /\ job.flag = "EXCHANGE" => Free([job.old EXCEPT !.dir = job.new.dir])
    /\ \A d \in Dirs, b \in Bases : Free([dir |-> d, base |-> b, temp |-> TRUE])

FirstAttempt == job # NoJob /\ job.left = Retries

Wanted(p) ==
    CASE p = job.new -> Layout(before.cloud, job.old)
      [] p = job.old /\ job.flag = "EXCHANGE" -> Layout(before.cloud, job.new)
      [] p = job.old /\ job.flag # "EXCHANGE" -> Layout([n \in {} |-> <<>>], p)
      [] OTHER -> Layout(before.cloud, p)

(***************************************************************************)
(* A rename whose way is clear and that succeeds at its first attempt is   *)
(* one: the target has all parts of the source and no other, the source    *)
(* has none or, after an exchange, the target's, and no third file has     *)
(* changed, whatever mixture of whole and compound files was there.        *)
(***************************************************************************)
RenameTakesEffect ==
    [][FirstAttempt /\ ClearWay /\ job' = NoJob /\ result' = "done"
           => \A p \in Paths : Layout(cloud', p) = Wanted(p)]_vars

Survives(p) ==
    \A n \in DOMAIN before.cloud :
        n[1] = p => \E m \in DOMAIN cloud : cloud[m] = before.cloud[n]

(***************************************************************************)
(* The order of the requests is safe: at every point of a first attempt,   *)
(* where the process may be killed, all parts of the source, and in an     *)
(* exchange of the target too, are stored under some name.                 *)
(***************************************************************************)
OrderIsSafe ==
    FirstAttempt /\ ClearWay
        => Survives(job.old) /\ (job.flag = "EXCHANGE" => Survives(job.new))

(***************************************************************************)
(* fstest.py, "Renamed file is not created!": what is renamed is not lost, *)
(* at any attempt.                                                         *)
(***************************************************************************)
RenamedIsKept == job # NoJob /\ ClearWay => Survives(job.old)

(***************************************************************************)
(* Every rename returns.                                                   *)
(***************************************************************************)
RenameEnds == job # NoJob ~> job = NoJob
=============================================================================
