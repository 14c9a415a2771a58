-------------------------- MODULE StatCacheProofs ---------------------------
(***************************************************************************)
(* The stat cache for every number of threads and files and every choice   *)
(* of the three durations: how far behind a stat may be, and that a change *)
(* made here shows in the cache.                                           *)
(***************************************************************************)
EXTENDS StatCache, TLAPS

Busy(t) == call[t] # NoCall

(***************************************************************************)
(* The control of a call.  Each callback stays at its own steps, a hit has *)
(* a size, a listing has the paths that are still to be put, a flush has a *)
(* node to upload, and a truncate of a path has the size it is to give.    *)
(***************************************************************************)
CallControl(t) ==
    /\ call[t].pc = "upload" => call[t].op = "flush"
    /\ call[t].pc = "reupload" => call[t].op = "truncate"
    /\ call[t].pc = "update" => call[t].op \in {"flush", "truncate"}
    /\ call[t].pc \in {"remove", "forget"} => call[t].op \in {"unlink", "rmdir"}
    /\ call[t].pc \in {"drop", "move"} => call[t].op = "rename"
    /\ call[t].pc = "hit" => call[t].size \in Sizes
    /\ call[t].pc = "put" =>
          \A p \in call[t].todo : call[t].listing[p] # NoEntry
    /\ Busy(t) /\ call[t].op = "flush" => handle[call[t].path] # NoEntry
    /\ Busy(t) /\ call[t].op = "truncate" =>
          /\ call[t].pc \in {"reupload", "update"}
          /\ call[t].size \in Sizes /\ ~call[t].linked

(***************************************************************************)
(* How old each copy of a size may be on its way from the cloud to the     *)
(* kernel: what is there now, a listing, an entry of the cache, the entry  *)
(* a call was given, and what the kernel trusts.                           *)
(***************************************************************************)
SizesAreNow ==
    \A p \in Paths : \A s \in Answers :
        HasSize(cloud, handle, p, s) => behind[p][s] = 0

CallFresh(t) ==
    /\ call[t].pc = "put" =>
          \A p \in Paths : behind[p][call[t].listing[p]] <= call[t].age
    /\ call[t].pc = "hit" =>
          behind[call[t].path][call[t].size] <= Ttl + MaxCall + call[t].age
    /\ call[t].pc = "update" /\ call[t].op = "truncate" =>
          behind[call[t].path][call[t].size] <= call[t].age

EntriesAreFresh ==
    \A p \in Paths :
        statCache[p] # NoEntry /\ ~Expired(statCache[p]) =>
            behind[p][statCache[p].size] <= statCache[p].age + MaxCall

TrustIsFresh ==
    \A p \in Paths :
        Trusted(p) => behind[p][kernel[p].size] + kernel[p].left
                        <= Ttl + 2 * MaxCall + AttrTimeout + 1

CallsAreFine == \A t \in Threads : CallControl(t) /\ CallFresh(t)

StalenessInv ==
    /\ TypeOK /\ CallsAreFine
    /\ SizesAreNow /\ EntriesAreFresh /\ TrustIsFresh

-----------------------------------------------------------------------------
(* Calls. *)

LEMMA NewCallType ==
    ASSUME NEW op \in Ops, NEW pc \in Steps, NEW p \in Paths, NEW s \in Answers
    PROVE  NewCall(op, pc, p, s) \in Calls
BY StatCacheAssumption DEF NewCall, Calls, Answers

(***************************************************************************)
(* A call that is not idle has every field.                                *)
(***************************************************************************)
LEMMA CallFacts ==
    ASSUME TypeOK, NEW t \in Threads
    PROVE  /\ Idle(t) <=> call[t] = NoCall
           /\ Busy(t) <=> call[t] \in Calls
           /\ ~Idle(t) => call[t] \in Calls
<1>1. call[t] \in Calls \/ call[t] = NoCall
  BY DEF TypeOK
<1>2. \A c \in Calls : c.pc # "idle"
  BY DEF Calls, Steps
<1>3. NoCall.pc = "idle"
  BY DEF NoCall
<1> QED
  BY <1>1, <1>2, <1>3 DEF Idle, Busy

(***************************************************************************)
(* What the step of another thread does to a call: a put or an erase       *)
(* changes its flags, and an update may write into the node it holds a     *)
(* size that the file has had at most MaxCall ago.                         *)
(***************************************************************************)
Kept(u) ==
    \/ call[u] = NoCall /\ call'[u] = NoCall
    \/ /\ call[u] \in Calls /\ call'[u] \in Calls
       /\ call'[u].op = call[u].op /\ call'[u].pc = call[u].pc
       /\ call'[u].path = call[u].path /\ call'[u].age = call[u].age
       /\ call'[u].listing = call[u].listing /\ call'[u].todo = call[u].todo
       /\ call'[u].linked => call[u].linked
       /\ \/ call'[u].size = call[u].size
          \/ /\ call[u].linked /\ call'[u].size \in Sizes
             /\ behind'[call[u].path][call'[u].size] <= MaxCall

LEMMA UntouchedIsKept ==
    ASSUME TypeOK, NEW u \in Threads, call'[u] = call[u]
    PROVE  Kept(u)
BY CallFacts DEF Kept, Busy

LEMMA FlagsAreKept ==
    ASSUME TypeOK, NEW u \in Threads, NEW p \in Paths,
           \/ Idle(u) /\ call'[u] = call[u]
           \/ ~Idle(u) /\ call'[u] \in {Unlinked(p, u), Erased(p, u)}
    PROVE  Kept(u)
<1>1. CASE Idle(u)
  BY <1>1, CallFacts DEF Kept
<1>2. CASE ~Idle(u)
  <2>1. call[u] \in Calls
    BY <1>2, CallFacts
  <2> QED
    BY <1>2, <2>1 DEF Kept, Unlinked, Erased, Calls
<1> QED
  BY <1>1, <1>2

LEMMA WrittenIsKept ==
    ASSUME TypeOK, NEW u \in Threads, NEW p \in Paths, NEW s \in Sizes,
           behind'[p][s] <= MaxCall,
           \/ Idle(u) /\ call'[u] = call[u]
           \/ ~Idle(u) /\ call'[u] = Written(p, s, u)
    PROVE  Kept(u)
<1>1. CASE Idle(u)
  BY <1>1, CallFacts DEF Kept
<1>2. CASE ~Idle(u)
  <2>1. call[u] \in Calls
    BY <1>2, CallFacts
  <2> QED
    BY <1>2, <2>1 DEF Kept, Written, Calls, Answers
<1> QED
  BY <1>1, <1>2

(***************************************************************************)
(* While no time passes a size does not get older, and a call that is kept *)
(* stays as it should be.                                                  *)
(***************************************************************************)
NotOlder == \A p \in Paths : \A s \in Answers : behind'[p][s] <= behind[p][s]

LEMMA KeptIsFine ==
    ASSUME TypeOK, NEW u \in Threads, Kept(u), NotOlder,
           behind' \in [Paths -> [Answers -> 0..(Limit + 1)]],
           CallControl(u), CallFresh(u),
           Busy(u) /\ call[u].op = "flush" => handle'[call[u].path] # NoEntry
    PROVE  CallControl(u)' /\ CallFresh(u)'
<1> USE StatCacheAssumption
<1>1. CASE call[u] = NoCall /\ call'[u] = NoCall
  BY <1>1 DEF NoCall, CallControl, CallFresh, Busy
<1>2. CASE call[u] \in Calls /\ call'[u] \in Calls
  <2>1. /\ call'[u].op = call[u].op /\ call'[u].pc = call[u].pc
        /\ call'[u].path = call[u].path /\ call'[u].age = call[u].age
        /\ call'[u].listing = call[u].listing /\ call'[u].todo = call[u].todo
        /\ call'[u].linked => call[u].linked
        /\ \/ call'[u].size = call[u].size
           \/ /\ call[u].linked /\ call'[u].size \in Sizes
              /\ behind'[call[u].path][call'[u].size] <= MaxCall
    BY <1>2 DEF Kept, NoCall, Calls
  <2>2. /\ call[u].path \in Paths /\ call[u].age \in 0..MaxCall
        /\ call[u].size \in Answers /\ call[u].listing \in [Paths -> Answers]
    BY <1>2 DEF Calls
  <2>3. call[u] # NoCall
    BY <1>2, CallFacts DEF Busy
  <2>4. CallControl(u)'
    BY <2>1, <2>3 DEF CallControl, Busy
  <2>5. call[u].pc = "put" =>
            \A p \in Paths : behind'[p][call[u].listing[p]] <= call[u].age
    BY <2>2 DEF CallFresh, NotOlder, TypeOK
  <2>6. call[u].pc = "hit" =>
            behind'[call[u].path][call'[u].size] <= Ttl + MaxCall + call[u].age
    <3>1. CASE call'[u].size = call[u].size
      BY <2>2, <3>1 DEF CallFresh, NotOlder, TypeOK
    <3>2. CASE /\ call'[u].size \in Sizes
               /\ behind'[call[u].path][call'[u].size] <= MaxCall
      <4>1. behind'[call[u].path][call'[u].size] \in Int
        BY <2>2, <3>2 DEF Answers
      <4> QED
        BY <2>2, <3>2, <4>1
    <3> QED
      BY <2>1, <3>1, <3>2
  <2>7. call[u].pc = "update" /\ call[u].op = "truncate" =>
            behind'[call[u].path][call'[u].size] <= call[u].age
    <3> SUFFICES ASSUME call[u].pc = "update", call[u].op = "truncate"
                 PROVE  behind'[call[u].path][call'[u].size] <= call[u].age
      OBVIOUS
    <3>1. call'[u].size = call[u].size
      BY <2>1, <2>3 DEF CallControl, Busy
    <3>2. /\ behind'[call[u].path][call[u].size] <= behind[call[u].path][call[u].size]
          /\ behind'[call[u].path][call[u].size] \in Int
          /\ behind[call[u].path][call[u].size] \in Int
      BY <2>2 DEF NotOlder, TypeOK
    <3> QED
      BY <2>2, <3>1, <3>2 DEF CallFresh
  <2> QED
    BY <2>1, <2>4, <2>5, <2>6, <2>7 DEF CallFresh
<1> QED
  BY <1>1, <1>2 DEF Kept

-----------------------------------------------------------------------------
(* The world, and the parts of the invariant that are not about calls. *)

LEMMA WorldFacts ==
    ASSUME TypeOK, NEW c \in [Paths -> Answers],
           NEW h \in [Paths -> Handles \cup {NoEntry}], World(c, h)
    PROVE  /\ cloud' = c /\ handle' = h
           /\ behind' \in [Paths -> [Answers -> 0..(Limit + 1)]]
           /\ NotOlder /\ SizesAreNow'
<1> USE StatCacheAssumption DEF TypeOK
<1>1. Limit \in Nat
  BY DEF Limit
<1>2. cloud' = c /\ handle' = h
  BY DEF World
<1>3. ASSUME NEW p \in Paths, NEW s \in Answers
      PROVE  /\ behind[p][s] \in 0..(Limit + 1)
             /\ behind'[p][s] = IF HasSize(c, h, p, s) THEN 0 ELSE behind[p][s]
  BY DEF World
<1>4. behind' \in [Paths -> [Answers -> 0..(Limit + 1)]]
  <2>1. \A p \in Paths : \A s \in Answers :
          (IF HasSize(c, h, p, s) THEN 0 ELSE behind[p][s]) \in 0..(Limit + 1)
    BY <1>1, <1>3
  <2> QED
    BY <2>1 DEF World
<1>5. NotOlder
  <2> SUFFICES ASSUME NEW p \in Paths, NEW s \in Answers
               PROVE  behind'[p][s] <= behind[p][s]
    BY DEF NotOlder
  <2>1. /\ behind[p][s] \in Nat
        /\ behind'[p][s] = 0 \/ behind'[p][s] = behind[p][s]
    BY <1>1, <1>3
  <2> HIDE DEF TypeOK
  <2> QED
    BY <2>1
<1>6. SizesAreNow'
  <2> SUFFICES ASSUME NEW p \in Paths, NEW s \in Answers,
                      HasSize(cloud', handle', p, s)
               PROVE  behind'[p][s] = 0
    BY DEF SizesAreNow, HasSize
  <2> QED
    BY <1>2, <1>3
<1> QED
  BY <1>2, <1>4, <1>5, <1>6

LEMMA StillFacts ==
    ASSUME TypeOK, SizesAreNow, UNCHANGED worldVars
    PROVE  /\ behind' \in [Paths -> [Answers -> 0..(Limit + 1)]]
           /\ NotOlder /\ SizesAreNow'
<1>1. \A p \in Paths : \A s \in Answers : behind[p][s] \in Int
  BY DEF TypeOK
<1> QED
  BY <1>1 DEF TypeOK, worldVars, NotOlder, SizesAreNow, HasSize

LEMMA EntriesStayFresh ==
    ASSUME TypeOK, EntriesAreFresh, NotOlder,
           behind' \in [Paths -> [Answers -> 0..(Limit + 1)]],
           \A p \in Paths :
               \/ statCache'[p] = statCache[p]
               \/ statCache'[p] = NoEntry
               \/ /\ statCache'[p] \in Entries
                  /\ behind'[p][statCache'[p].size] <= MaxCall
    PROVE  EntriesAreFresh'
<1> USE StatCacheAssumption
<1> SUFFICES ASSUME NEW p \in Paths, statCache'[p] # NoEntry, ~Expired(statCache'[p])
             PROVE  behind'[p][statCache'[p].size] <= statCache'[p].age + MaxCall
  BY DEF EntriesAreFresh, Expired
<1>1. CASE /\ statCache'[p] \in Entries
           /\ behind'[p][statCache'[p].size] <= MaxCall
  <2>1. statCache'[p].size \in Answers /\ statCache'[p].age \in Nat
    BY <1>1 DEF Entries, Answers
  <2>2. behind'[p][statCache'[p].size] \in Int
    BY <2>1
  <2> QED
    BY <1>1, <2>1, <2>2
<1>2. CASE statCache'[p] = statCache[p]
  <2>1. statCache[p] \in Entries /\ statCache'[p] = statCache[p]
    BY <1>2 DEF TypeOK
  <2>2. statCache[p].size \in Answers /\ statCache[p].age \in Nat
    BY <2>1 DEF Entries, Answers
  <2>3. behind'[p][statCache[p].size] <= behind[p][statCache[p].size]
    BY <2>2 DEF NotOlder
  <2>4. /\ behind[p][statCache[p].size] \in Int
        /\ behind'[p][statCache[p].size] \in Int
    BY <2>2 DEF TypeOK
  <2>5. behind[p][statCache[p].size] <= statCache[p].age + MaxCall
    BY <2>1 DEF EntriesAreFresh
  <2> QED
    BY <2>1, <2>2, <2>3, <2>4, <2>5
<1> QED
  BY <1>1, <1>2

LEMMA TrustStaysFresh ==
    ASSUME TypeOK, TrustIsFresh, NotOlder,
           behind' \in [Paths -> [Answers -> 0..(Limit + 1)]],
           \A p \in Paths : kernel'[p] = kernel[p] \/ kernel'[p] = NoTrust
    PROVE  TrustIsFresh'
<1> USE StatCacheAssumption
<1> SUFFICES ASSUME NEW p \in Paths, Trusted(p)'
             PROVE  behind'[p][kernel'[p].size] + kernel'[p].left
                        <= Ttl + 2 * MaxCall + AttrTimeout + 1
  BY DEF TrustIsFresh
<1>1. kernel'[p] = kernel[p]
  BY DEF Trusted, NoTrust
<1>2. kernel[p].size \in Answers /\ kernel[p].left \in Nat
  BY DEF TypeOK
<1>3. /\ behind'[p][kernel[p].size] <= behind[p][kernel[p].size]
      /\ behind[p][kernel[p].size] \in Int /\ behind'[p][kernel[p].size] \in Int
  BY <1>2 DEF NotOlder, TypeOK
<1>4. behind[p][kernel[p].size] + kernel[p].left
          <= Ttl + 2 * MaxCall + AttrTimeout + 1
  BY <1>1 DEF TrustIsFresh, Trusted
<1> QED
  BY <1>1, <1>2, <1>3, <1>4

-----------------------------------------------------------------------------
(* A step of one thread. *)

CallType == Calls \cup {NoCall}

LEMMA CallsStayFine ==
    ASSUME StalenessInv, NotOlder,
           behind' \in [Paths -> [Answers -> 0..(Limit + 1)]],
           \A u \in Threads :
               \/ CallControl(u)' /\ CallFresh(u)'
               \/ /\ Kept(u)
                  /\ Busy(u) /\ call[u].op = "flush" =>
                         handle'[call[u].path] # NoEntry
    PROVE  CallsAreFine'
<1>1. TypeOK /\ \A u \in Threads : CallControl(u) /\ CallFresh(u)
  BY DEF StalenessInv, CallsAreFine
<1> QED
  BY <1>1, KeptIsFine DEF CallsAreFine

LEMMA IdleIsFine ==
    ASSUME NEW t \in Threads, call'[t] = NoCall
    PROVE  CallControl(t)' /\ CallFresh(t)'
BY DEF CallControl, CallFresh, NoCall, Busy

LEMMA NewCallIsFine ==
    ASSUME NEW t \in Threads, NEW op \in Ops, NEW p \in Paths, NEW s \in Answers,
           NEW pc \in {"get", "ls", "upload", "reupload", "remove"},
           call'[t] = NewCall(op, pc, p, s),
           op = "flush" <=> pc = "upload",
           op = "truncate" <=> pc = "reupload",
           op = "rmdir" <=> pc = "remove",
           op = "flush" => handle'[p] # NoEntry,
           op = "truncate" => s \in Sizes
    PROVE  CallControl(t)' /\ CallFresh(t)'
BY DEF CallControl, CallFresh, NewCall, Busy

LEMMA BetweenIsFine ==
    ASSUME NEW t \in Threads, Busy(t), CallControl(t), handle' = handle,
           call[t].op # "truncate",
           call'[t].pc \in {"get", "erase", "null", "ls"},
           call'[t].op = call[t].op, call'[t].path = call[t].path
    PROVE  CallControl(t)' /\ CallFresh(t)'
BY DEF CallControl, CallFresh, Busy

(***************************************************************************)
(* Most steps leave the world, and what the kernel knows, alone.           *)
(***************************************************************************)
LEMMA StillStep ==
    ASSUME StalenessInv, UNCHANGED worldVars, UNCHANGED kernel,
           disturbed' \in SUBSET Paths, alive' \in BOOLEAN,
           statCache' \in [Paths -> Entries \cup {NoEntry}],
           EntriesAreFresh', call' \in [Threads -> CallType],
           NEW t \in Threads, CallControl(t)' /\ CallFresh(t)',
           \A u \in Threads \ {t} : Kept(u)
    PROVE  StalenessInv'
<1>1. TypeOK /\ SizesAreNow /\ TrustIsFresh /\ CallsAreFine
  BY DEF StalenessInv
<1>2. /\ behind' \in [Paths -> [Answers -> 0..(Limit + 1)]]
      /\ NotOlder /\ SizesAreNow'
  BY <1>1, StillFacts
<1>3. \A u \in Threads \ {t} :
          Busy(u) /\ call[u].op = "flush" => handle'[call[u].path] # NoEntry
  BY <1>1 DEF CallsAreFine, CallControl, worldVars
<1>4. CallsAreFine'
  BY <1>2, <1>3, CallsStayFine
<1>5. TrustIsFresh'
  BY <1>1, <1>2, TrustStaysFresh
<1>6. TypeOK'
  BY <1>1 DEF TypeOK, worldVars, CallType
<1> QED
  BY <1>2, <1>4, <1>5, <1>6 DEF StalenessInv

(***************************************************************************)
(* ... and many change nothing but the call of their thread.               *)
(***************************************************************************)
LEMMA CallStep ==
    ASSUME StalenessInv, UNCHANGED <<statCache, worldVars, kernel>>,
           disturbed' \in SUBSET Paths, alive' \in BOOLEAN,
           NEW t \in Threads, NEW c \in CallType,
           call' = [call EXCEPT ![t] = c], CallControl(t)' /\ CallFresh(t)'
    PROVE  StalenessInv'
<1>1. TypeOK /\ EntriesAreFresh
  BY DEF StalenessInv
<1>2. call' \in [Threads -> CallType] /\ \A u \in Threads \ {t} : call'[u] = call[u]
  BY <1>1 DEF TypeOK, CallType
<1>3. \A u \in Threads \ {t} : Kept(u)
  BY <1>1, <1>2, UntouchedIsKept
<1>4. EntriesAreFresh' /\ statCache' \in [Paths -> Entries \cup {NoEntry}]
  BY <1>1 DEF TypeOK, EntriesAreFresh, worldVars, Expired
<1>5. UNCHANGED worldVars /\ UNCHANGED kernel
  OBVIOUS
<1> QED
  BY <1>2, <1>3, <1>4, <1>5, StillStep

(***************************************************************************)
(* What a step that leaves the cache alone leaves of its variables.        *)
(***************************************************************************)
LEMMA CacheStays ==
    ASSUME StalenessInv, UNCHANGED cacheVars
    PROVE  UNCHANGED <<statCache, disturbed>> /\ disturbed' \in SUBSET Paths
BY DEF cacheVars, StalenessInv, TypeOK

LEMMA EndsFine ==
    ASSUME StalenessInv, UNCHANGED <<statCache, worldVars, kernel>>,
           disturbed' \in SUBSET Paths, alive' \in BOOLEAN, NEW t \in Threads,
           call' = [call EXCEPT ![t] = NoCall]
    PROVE  StalenessInv'
<1>1. call'[t] = NoCall
  BY DEF StalenessInv, TypeOK
<1> QED
  BY <1>1, IdleIsFine, CallStep DEF CallType

LEMMA FindStep ==
    ASSUME StalenessInv, NEW t \in Threads, Find(t) PROVE StalenessInv'
<1> DEFINE p == call[t].path
           e == statCache[p]
<1>1. /\ TypeOK /\ call[t] \in Calls /\ Busy(t) /\ CallControl(t)
      /\ call[t].pc = "get"
  BY CallFacts DEF StalenessInv, Find, At, Idle, CallsAreFine
<1>2. /\ p \in Paths /\ e \in Entries \cup {NoEntry} /\ call[t].age \in Nat
      /\ call[t].op # "truncate"
  <2>1. p \in Paths /\ call[t].age \in Nat
    BY <1>1 DEF Calls
  <2>2. call[t].op # "truncate"
    BY <1>1 DEF CallControl
  <2> QED
    BY <1>1, <2>1, <2>2 DEF TypeOK
<1>3. /\ UNCHANGED <<statCache, worldVars, kernel>> /\ alive' \in BOOLEAN
      /\ disturbed' \in SUBSET Paths /\ handle' = handle /\ behind' = behind
  BY <1>1, CacheStays DEF Find, TypeOK, worldVars
<1>4. ASSUME NEW c \in Calls, call' = [call EXCEPT ![t] = c],
             c.op = call[t].op, c.path = p, c.age = call[t].age,
             \/ c.pc \in {"null", "erase"}
             \/ /\ c.pc = "hit" /\ e # NoEntry /\ ~Expired(e) /\ c.size = e.size
      PROVE  StalenessInv'
  <2>1. call'[t] = c
    BY <1>1, <1>4 DEF TypeOK
  <2>2. ASSUME c.pc = "hit"
        PROVE  /\ e.size \in Sizes
               /\ behind[p][e.size] <= Ttl + MaxCall + call[t].age
    <3>1. e \in Entries /\ ~Expired(e) /\ c.size = e.size
      BY <1>2, <1>4, <2>2
    <3>2. e.size \in Sizes /\ e.age \in Nat /\ e.age <= Ttl
      BY <3>1, StatCacheAssumption DEF Entries, Expired
    <3>3. behind[p][e.size] <= e.age + MaxCall /\ behind[p][e.size] \in Int
      BY <1>1, <1>2, <1>4, <2>2, <3>1, <3>2
         DEF StalenessInv, EntriesAreFresh, TypeOK, Answers
    <3> QED
      BY <1>2, <3>2, <3>3, StatCacheAssumption
  <2>3. CallControl(t)'
    BY <1>1, <1>2, <1>3, <1>4, <2>1, <2>2 DEF CallControl, Busy
  <2>4. CallFresh(t)'
    BY <1>3, <1>4, <2>1, <2>2 DEF CallFresh
  <2> QED
    BY <1>3, <1>4, <2>3, <2>4, CallStep DEF CallType
<1>5. CASE e = NoEntry /\ Goto(t, "null")
  <2> DEFINE c == [call[t] EXCEPT !.pc = "null"]
  <2>1. call' = [call EXCEPT ![t] = c]
    BY <1>5 DEF Goto
  <2>2. /\ c \in Calls /\ c.pc = "null" /\ c.op = call[t].op /\ c.path = p
        /\ c.age = call[t].age
    BY <1>1 DEF Calls, Steps
  <2> QED
    BY <1>4, <2>1, <2>2
<1>6. CASE /\ e # NoEntry /\ ~Expired(e)
           /\ call' = [call EXCEPT ![t].pc = "hit", ![t].size = e.size,
                                   ![t].linked = TRUE]
  <2> DEFINE c == [call[t] EXCEPT !.pc = "hit", !.size = e.size, !.linked = TRUE]
  <2>1. call' = [call EXCEPT ![t] = c]
    BY <1>6
  <2>2. e.size \in Answers
    BY <1>2, <1>6 DEF Entries, Answers
  <2>3. /\ c \in Calls /\ c.pc = "hit" /\ c.op = call[t].op /\ c.path = p
        /\ c.age = call[t].age /\ c.size = e.size
    BY <1>1, <2>2 DEF Calls, Steps
  <2> QED
    BY <1>4, <1>6, <2>1, <2>3
<1>7. CASE call' = [call EXCEPT ![t].pc = "erase", ![t].valid = TRUE]
  <2> DEFINE c == [call[t] EXCEPT !.pc = "erase", !.valid = TRUE]
  <2>1. call' = [call EXCEPT ![t] = c]
    BY <1>7
  <2>2. /\ c \in Calls /\ c.pc = "erase" /\ c.op = call[t].op /\ c.path = p
        /\ c.age = call[t].age
    BY <1>1 DEF Calls, Steps
  <2> QED
    BY <1>4, <2>1, <2>2
<1> QED
  BY <1>5, <1>6, <1>7 DEF Find

(***************************************************************************)
(* A step of t that takes the entry of its path out of the map.            *)
(***************************************************************************)
LEMMA EntryLeaves ==
    ASSUME StalenessInv, NEW t \in Threads, NEW p \in Paths, NEW c \in CallType,
           statCache' = [statCache EXCEPT ![p] = NoEntry],
           call'[t] = c, call' = [u \in Threads |-> call'[u]],
           \A u \in Threads \ {t} :
               \/ Idle(u) /\ call'[u] = call[u]
               \/ ~Idle(u) /\ call'[u] \in {Unlinked(p, u), Erased(p, u)},
           UNCHANGED worldVars, UNCHANGED <<kernel, disturbed>>,
           alive' \in BOOLEAN, CallControl(t)' /\ CallFresh(t)'
    PROVE  StalenessInv'
<1>1. TypeOK /\ disturbed' \in SUBSET Paths
  BY DEF StalenessInv, TypeOK
<1>2. \A u \in Threads \ {t} : Kept(u)
  BY <1>1, FlagsAreKept
<1>3. call' \in [Threads -> CallType]
  <2>1. \A u \in Threads : call'[u] \in CallType
    BY <1>2 DEF Kept, CallType
  <2> QED
    BY <2>1
<1>4. statCache' \in [Paths -> Entries \cup {NoEntry}]
  BY <1>1 DEF TypeOK
<1>5. EntriesAreFresh'
  BY <1>1 DEF TypeOK, StalenessInv, EntriesAreFresh, Expired, worldVars
<1> QED
  BY <1>1, <1>2, <1>3, <1>4, <1>5, StillStep

LEMMA EraseStep ==
    ASSUME StalenessInv, NEW t \in Threads, EraseExpired(t) PROVE StalenessInv'
<1> DEFINE p == call[t].path
           c == [call[t] EXCEPT !.pc = "null", !.valid = FALSE]
<1>1. /\ TypeOK /\ call[t] \in Calls /\ Busy(t) /\ CallControl(t)
      /\ call[t].pc = "erase"
  BY CallFacts DEF StalenessInv, EraseExpired, At, Idle, CallsAreFine
<1>2. p \in Paths /\ alive \in BOOLEAN /\ call[t].op # "truncate"
  BY <1>1 DEF Calls, TypeOK, CallControl
<1>3. CASE call[t].valid
  <2>1. /\ statCache' = [statCache EXCEPT ![p] = NoEntry]
        /\ call' = [Others(t, LAMBDA u : Erased(p, u))
                       EXCEPT ![t].pc = "null", ![t].valid = FALSE]
        /\ UNCHANGED worldVars /\ UNCHANGED <<kernel, disturbed>>
        /\ alive' \in BOOLEAN
    BY <1>2, <1>3 DEF EraseExpired
  <2>2. call'[t] = c /\ call' = [u \in Threads |-> call'[u]]
    BY <2>1 DEF Others
  <2>3. \A u \in Threads \ {t} :
            \/ Idle(u) /\ call'[u] = call[u]
            \/ ~Idle(u) /\ call'[u] \in {Unlinked(p, u), Erased(p, u)}
    BY <2>1 DEF Others
  <2>4. c \in CallType
    BY <1>1 DEF Calls, CallType, Steps
  <2>5. CallControl(t)' /\ CallFresh(t)'
    <3>1. /\ call'[t].pc = "null" /\ call'[t].op = call[t].op
          /\ call'[t].path = call[t].path
      BY <1>1, <2>2 DEF Calls
    <3>2. handle' = handle
      BY <2>1 DEF worldVars
    <3> QED
      BY <1>1, <1>2, <3>1, <3>2, BetweenIsFine
  <2> QED
    BY <1>2, <2>1, <2>2, <2>3, <2>4, <2>5, EntryLeaves
<1>4. CASE ~call[t].valid
  <2>1. /\ alive' \in BOOLEAN /\ UNCHANGED <<statCache, disturbed, worldVars, kernel>>
        /\ call' = [call EXCEPT ![t] = call[t]]
    BY <1>1, <1>4 DEF EraseExpired, TypeOK
  <2>2. call'[t] = call[t] /\ call[t] \in CallType /\ disturbed' \in SUBSET Paths
    BY <1>1, <2>1 DEF TypeOK, CallType
  <2>3. CallControl(t)' /\ CallFresh(t)'
    BY <1>1, <2>1, <2>2 DEF CallControl, CallFresh, Calls, Busy, worldVars,
       StalenessInv, CallsAreFine
  <2> QED
    BY <2>1, <2>2, <2>3, CallStep
<1> QED
  BY <1>3, <1>4

LEMMA DropStep ==
    ASSUME StalenessInv, NEW t \in Threads, Drop(t) PROVE StalenessInv'
<1> DEFINE p == call[t].path
           c == [call[t] EXCEPT !.pc = "move"]
<1>1. /\ TypeOK /\ call[t] \in Calls /\ CallControl(t) /\ call[t].pc = "drop"
  BY CallFacts DEF StalenessInv, Drop, At, Idle, CallsAreFine
<1>2. p \in Paths /\ call[t].op = "rename"
  BY <1>1 DEF Calls, CallControl
<1>3. /\ statCache' = [statCache EXCEPT ![p] = NoEntry]
      /\ call' = [Others(t, LAMBDA u : Erased(p, u)) EXCEPT ![t].pc = "move"]
      /\ UNCHANGED worldVars /\ UNCHANGED <<kernel, disturbed>>
      /\ alive' \in BOOLEAN
  BY <1>1 DEF Drop, TypeOK
<1>4. /\ call'[t] = c /\ call' = [u \in Threads |-> call'[u]]
      /\ \A u \in Threads \ {t} :
            \/ Idle(u) /\ call'[u] = call[u]
            \/ ~Idle(u) /\ call'[u] \in {Unlinked(p, u), Erased(p, u)}
  BY <1>3 DEF Others
<1>5. c \in CallType /\ c.pc = "move" /\ c.op = "rename"
  BY <1>1, <1>2 DEF Calls, CallType, Steps
<1>6. CallControl(t)' /\ CallFresh(t)'
  BY <1>4, <1>5 DEF CallControl, CallFresh
<1> QED
  BY <1>2, <1>3, <1>4, <1>5, <1>6, EntryLeaves

LEMMA LsStep ==
    ASSUME StalenessInv, NEW t \in Threads, Ls(t) PROVE StalenessInv'
<1> DEFINE todo == {p \in Paths : cloud[p] # NoEntry}
           c == [call[t] EXCEPT !.pc = "put", !.listing = cloud, !.todo = todo]
<1>1. TypeOK /\ call[t] \in Calls /\ Busy(t) /\ CallControl(t)
  BY CallFacts DEF StalenessInv, Ls, At, Idle, CallsAreFine
<1>2. /\ call' = [call EXCEPT ![t] = c] /\ UNCHANGED <<statCache, worldVars, kernel>>
      /\ alive' \in BOOLEAN /\ disturbed' \in SUBSET Paths
  BY <1>1, CacheStays DEF Ls, TypeOK
<1>3. /\ c \in CallType /\ call'[t] = c
      /\ c.pc = "put" /\ c.op = call[t].op /\ c.path = call[t].path
      /\ c.age = call[t].age /\ c.listing = cloud /\ c.todo = todo
      /\ call[t].age \in 0..MaxCall
  <2>1. /\ c \in Calls
        /\ c.pc = "put" /\ c.op = call[t].op /\ c.path = call[t].path
        /\ c.age = call[t].age /\ c.listing = cloud /\ c.todo = todo
        /\ call[t].age \in 0..MaxCall
    <3>1. cloud \in [Paths -> Answers] /\ todo \in SUBSET Paths /\ "put" \in Steps
      BY <1>1 DEF TypeOK, Steps
    <3> HIDE DEF todo
    <3> QED
      BY <1>1, <3>1 DEF Calls
  <2> QED
    BY <1>1, <1>2, <2>1 DEF TypeOK, CallType
<1>4. CallControl(t)'
  <2>1. call[t].pc \in {"ls", "null"} /\ handle' = handle
    BY <1>2 DEF Ls, At, worldVars
  <2> QED
    BY <1>1, <1>3, <2>1 DEF CallControl, Busy
<1>5. \A p \in Paths : behind[p][cloud[p]] = 0
  BY <1>1 DEF StalenessInv, SizesAreNow, HasSize, TypeOK
<1>6. CallFresh(t)'
  <2>1. /\ call'[t].pc = "put" /\ call'[t].listing = cloud
        /\ call'[t].age = call[t].age /\ call[t].age \in 0..MaxCall
    BY <1>3
  <2>2. behind' = behind
    BY <1>2 DEF worldVars
  <2>3. \A p \in Paths : behind'[p][call'[t].listing[p]] <= call'[t].age
    BY <1>5, <2>1, <2>2, StatCacheAssumption
  <2> QED
    <3>1. call'[t].pc # "hit" /\ call'[t].pc # "update"
      BY <2>1, Zenon
    <3> QED
      BY <2>3, <3>1, Zenon DEF CallFresh
<1> HIDE DEF c, todo
<1> QED
  BY <1>2, <1>3, <1>4, <1>6, CallStep

LEMMA PutStep ==
    ASSUME StalenessInv, NEW t \in Threads, Put(t) PROVE StalenessInv'
<1>1. TypeOK /\ call[t] \in Calls /\ Busy(t) /\ CallControl(t) /\ CallFresh(t)
  BY CallFacts DEF StalenessInv, Put, At, Idle, CallsAreFine
<1>2. /\ UNCHANGED worldVars /\ UNCHANGED <<kernel, disturbed>>
      /\ alive' \in BOOLEAN /\ call[t].pc = "put"
  BY <1>1 DEF Put, TypeOK, At
<1>3. PICK p \in call[t].todo :
          /\ statCache' = [statCache EXCEPT
                 ![p] = [size |-> call[t].listing[p], age |-> 0]]
          /\ call' = [Others(t, LAMBDA u : Unlinked(p, u))
                         EXCEPT ![t].todo = @ \ {p}]
  BY DEF Put
<1> DEFINE s == call[t].listing[p]
           c == [call[t] EXCEPT !.todo = @ \ {p}]
<1>4. /\ p \in Paths /\ call[t].age \in 0..MaxCall
      /\ call[t].listing \in [Paths -> Answers] /\ s \in Sizes
  <2>1. /\ p \in Paths /\ call[t].age \in 0..MaxCall
        /\ call[t].listing \in [Paths -> Answers]
    BY <1>1 DEF Calls
  <2>2. s # NoEntry
    BY <1>1, <1>2 DEF CallControl
  <2> QED
    BY <2>1, <2>2 DEF Answers
<1>5. call'[t] = c
  BY <1>3 DEF Others
<1>6. \A u \in Threads \ {t} : Kept(u)
  <2>1. \A u \in Threads \ {t} :
            \/ Idle(u) /\ call'[u] = call[u]
            \/ ~Idle(u) /\ call'[u] \in {Unlinked(p, u), Erased(p, u)}
    BY <1>3 DEF Others
  <2> QED
    BY <1>1, <1>4, <2>1, FlagsAreKept
<1>7. /\ c \in CallType
      /\ call'[t].pc = "put" /\ call'[t].op = call[t].op
      /\ call'[t].path = call[t].path /\ call'[t].age = call[t].age
      /\ call'[t].listing = call[t].listing
      /\ call'[t].todo = call[t].todo \ {p}
  BY <1>1, <1>2, <1>5 DEF Calls, CallType
<1>8. call' \in [Threads -> CallType]
  <2>1. call' = [u \in Threads |-> call'[u]]
    BY <1>3 DEF Others
  <2>2. \A u \in Threads : call'[u] \in CallType
    BY <1>5, <1>6, <1>7 DEF Kept, CallType
  <2> QED
    BY <2>1, <2>2
<1>9. CallControl(t)' /\ CallFresh(t)'
  <2>1. handle' = handle /\ behind' = behind
    BY <1>2 DEF worldVars
  <2> QED
    BY <1>1, <1>2, <1>7, <2>1 DEF CallControl, CallFresh, Busy
<1>10. [size |-> s, age |-> 0] \in Entries
  BY <1>4, StatCacheAssumption DEF Entries
<1>11. statCache' \in [Paths -> Entries \cup {NoEntry}]
  BY <1>1, <1>3, <1>4, <1>10 DEF TypeOK
<1>12. EntriesAreFresh'
  <2>1. /\ behind' \in [Paths -> [Answers -> 0..(Limit + 1)]] /\ NotOlder
    BY <1>1, <1>2, StillFacts DEF StalenessInv
  <2>2. statCache'[p] = [size |-> s, age |-> 0]
    BY <1>1, <1>3, <1>4 DEF TypeOK
  <2>3. /\ statCache'[p] \in Entries
        /\ behind'[p][statCache'[p].size] <= MaxCall
    <3>1. behind'[p][s] <= call[t].age /\ behind'[p][s] \in Int
      BY <1>1, <1>2, <1>4, <2>1 DEF CallFresh, worldVars, Answers
    <3> QED
      BY <1>4, <1>10, <2>2, <3>1, StatCacheAssumption
  <2>4. \A q \in Paths \ {p} : statCache'[q] = statCache[q]
    BY <1>1, <1>3 DEF TypeOK
  <2> QED
    BY <1>1, <1>4, <2>1, <2>3, <2>4, EntriesStayFresh DEF StalenessInv
<1> QED
  BY <1>1, <1>2, <1>6, <1>8, <1>9, <1>11, <1>12, StillStep DEF TypeOK

LEMMA ContinueFacts ==
    ASSUME TypeOK, NEW t \in Threads, call[t] \in Calls, NEW pc \in Steps,
           Continue(t, pc)
    PROVE  \E c \in Calls :
              /\ call' = [call EXCEPT ![t] = c] /\ call'[t] = c
              /\ c.pc = pc /\ c.op = call[t].op /\ c.path = call[t].path
<1> DEFINE c == [NewCall(call[t].op, pc, call[t].path, NoEntry)
                    EXCEPT !.age = call[t].age]
<1>1. call[t].op \in Ops /\ call[t].path \in Paths /\ call[t].age \in 0..MaxCall
  BY DEF Calls
<1>2. NewCall(call[t].op, pc, call[t].path, NoEntry) \in Calls
  BY <1>1, NewCallType DEF Answers
<1>3. /\ c \in Calls /\ c.pc = pc /\ c.op = call[t].op /\ c.path = call[t].path
  BY <1>1, <1>2 DEF NewCall, Calls
<1>4. call' = [call EXCEPT ![t] = c] /\ call'[t] = c
  BY DEF Continue, TypeOK
<1> QED
  BY <1>3, <1>4

LEMMA AgainStep ==
    ASSUME StalenessInv, NEW t \in Threads, Again(t) PROVE StalenessInv'
<1>1. /\ TypeOK /\ call[t] \in Calls /\ Busy(t) /\ CallControl(t)
      /\ UNCHANGED <<statCache, worldVars, kernel>>
      /\ disturbed' \in SUBSET Paths /\ alive' \in BOOLEAN
  BY CallFacts, CacheStays
     DEF StalenessInv, Again, At, Idle, CallsAreFine, TypeOK
<1>2. \E c \in CallType :
          /\ call' = [call EXCEPT ![t] = c] /\ call'[t] = c
          /\ c.op = call[t].op /\ c.path = call[t].path
          /\ \/ c.pc = "get" /\ call[t].op = "open"
             \/ c.pc = "drop" /\ call[t].op = "rename"
  <2>1. CASE call[t].op = "open" /\ Continue(t, "get")
    BY <1>1, <2>1, ContinueFacts DEF CallType, Steps
  <2>2. CASE call[t].op = "rename" /\ Continue(t, "drop")
    BY <1>1, <2>2, ContinueFacts DEF CallType, Steps
  <2>3. CASE call[t].pc = "move" /\ Goto(t, "drop")
    <3> DEFINE d == [call[t] EXCEPT !.pc = "drop"]
    <3>1. d \in Calls /\ d.pc = "drop" /\ d.op = call[t].op /\ d.path = call[t].path
      BY <1>1 DEF Calls, Steps
    <3>2. call' = [call EXCEPT ![t] = d] /\ call'[t] = d
      BY <1>1, <2>3 DEF Goto, TypeOK
    <3>3. call[t].op = "rename"
      BY <1>1, <2>3 DEF CallControl
    <3> QED
      BY <3>1, <3>2, <3>3 DEF CallType
  <2> QED
    BY <2>1, <2>2, <2>3 DEF Again, At
<1>3. CallControl(t)' /\ CallFresh(t)'
  BY <1>2 DEF CallControl, CallFresh
<1> QED
  BY <1>1, <1>2, <1>3, CallStep

(***************************************************************************)
(* An answer is trusted from here on: the entry it came from was put at    *)
(* most Ttl ago, from a listing that took a call, and this call is over.   *)
(***************************************************************************)
LEMMA AnswerStep ==
    ASSUME StalenessInv, NEW t \in Threads, Answer(t) PROVE StalenessInv'
<1> DEFINE p == call[t].path
           size == IF At(t, "hit") THEN call[t].size ELSE call[t].listing[p]
<1>1. /\ TypeOK /\ call[t] \in Calls /\ Busy(t) /\ CallControl(t) /\ CallFresh(t)
      /\ UNCHANGED <<cacheVars, worldVars, alive>>
  BY CallFacts DEF StalenessInv, Answer, At, Idle, CallsAreFine
<1>2. /\ p \in Paths /\ call[t].age \in 0..MaxCall /\ size \in Answers
      /\ alive' \in BOOLEAN
  BY <1>1 DEF Calls, TypeOK
<1>0. UNCHANGED statCache /\ disturbed' \in SUBSET Paths
  BY <1>1, CacheStays
<1>3. CASE /\ UNCHANGED kernel
           /\ \/ call[t].op = "unlink" /\ Continue(t, "remove")
              \/ call[t].op = "rename" /\ Continue(t, "drop")
  <2>1. PICK pc \in {"remove", "drop"} :
            /\ call[t].op = IF pc = "remove" THEN "unlink" ELSE "rename"
            /\ Continue(t, pc)
    BY <1>3
  <2>2. PICK c \in CallType :
            /\ call' = [call EXCEPT ![t] = c] /\ call'[t] = c
            /\ c.pc = pc /\ c.op = call[t].op /\ c.path = p
    BY <1>1, <2>1, ContinueFacts DEF CallType, Steps
  <2>3. CallControl(t)' /\ CallFresh(t)'
    BY <2>1, <2>2 DEF CallControl, CallFresh
  <2> QED
    BY <1>0, <1>1, <1>2, <1>3, <2>2, <2>3, CallStep
<1>4. CASE UNCHANGED kernel /\ call' = [call EXCEPT ![t] = NoCall]
  BY <1>0, <1>1, <1>2, <1>4, EndsFine
<1>5. CASE /\ kernel' = [kernel EXCEPT ![p] = [size |-> size, left |-> AttrTimeout + 1]]
           /\ call' = [call EXCEPT ![t] = NoCall]
  <2>1. behind[p][size] <= Ttl + 2 * MaxCall /\ behind[p][size] \in Int
    <3>1. behind[p][size] \in Int
      BY <1>1, <1>2 DEF TypeOK
    <3>2. CASE At(t, "hit")
      <4>1. behind[p][size] <= Ttl + MaxCall + call[t].age
        BY <1>1, <3>2 DEF CallFresh, At
      <4> QED
        BY <1>2, <3>1, <4>1, StatCacheAssumption
    <3>3. CASE ~At(t, "hit")
      <4>1. behind[p][size] <= call[t].age
        BY <1>1, <1>2, <3>3 DEF CallFresh, At, Answer
      <4> QED
        BY <1>2, <3>1, <4>1, StatCacheAssumption
    <3> QED
      BY <3>1, <3>2, <3>3
  <2> HIDE DEF p, size
  <2>2. call' \in [Threads -> CallType] /\ call'[t] = NoCall
        /\ \A u \in Threads \ {t} : call'[u] = call[u]
    BY <1>1, <1>5 DEF TypeOK, CallType
  <2>3. TypeOK'
    BY <1>1, <1>2, <1>5, <2>2, StatCacheAssumption
       DEF TypeOK, CallType, cacheVars, worldVars
  <2>4. /\ behind' \in [Paths -> [Answers -> 0..(Limit + 1)]]
        /\ NotOlder /\ SizesAreNow'
    BY <1>1, StillFacts DEF StalenessInv
  <2>5. CallsAreFine'
    <3>1. CallControl(t)' /\ CallFresh(t)'
      BY <2>2, IdleIsFine
    <3>2. \A u \in Threads \ {t} : Kept(u)
      BY <1>1, <2>2, UntouchedIsKept
    <3>3. \A u \in Threads \ {t} :
              Busy(u) /\ call[u].op = "flush" => handle'[call[u].path] # NoEntry
      BY <1>1 DEF StalenessInv, CallsAreFine, CallControl, worldVars
    <3> QED
      BY <2>4, <3>1, <3>2, <3>3, CallsStayFine
  <2>6. EntriesAreFresh'
    BY <1>1, <2>4, EntriesStayFresh DEF StalenessInv, cacheVars
  <2>7. TrustIsFresh'
    <3> SUFFICES ASSUME NEW q \in Paths, Trusted(q)'
                 PROVE  behind'[q][kernel'[q].size] + kernel'[q].left
                            <= Ttl + 2 * MaxCall + AttrTimeout + 1
      BY DEF TrustIsFresh
    <3>1. behind' = behind
      BY <1>1 DEF worldVars
    <3>2. CASE q = p
      <4>1. kernel'[q] = [size |-> size, left |-> AttrTimeout + 1]
        BY <1>1, <1>5, <3>2 DEF TypeOK
      <4> QED
        BY <2>1, <3>1, <3>2, <4>1, StatCacheAssumption
    <3>3. CASE q # p
      <4>1. kernel'[q] = kernel[q]
        BY <1>1, <1>5, <3>3 DEF TypeOK
      <4> QED
        BY <3>1, <4>1 DEF StalenessInv, TrustIsFresh, Trusted
    <3> QED
      BY <3>2, <3>3
  <2> QED
    BY <2>3, <2>4, <2>5, <2>6, <2>7 DEF StalenessInv
<1> QED
  BY <1>3, <1>4, <1>5 DEF Answer

LEMMA SimpleStep ==
    ASSUME StalenessInv, NEW t \in Threads,
           EndReaddir(t) \/ RequestFails(t)
    PROVE  StalenessInv'
<1>1. CASE EndReaddir(t)
  <2>1. /\ UNCHANGED <<cacheVars, worldVars, kernel>>
        /\ alive' \in BOOLEAN /\ call' = [call EXCEPT ![t] = NoCall]
    BY <1>1 DEF EndReaddir, StalenessInv, TypeOK
  <2> QED
    BY <2>1, EndsFine, CacheStays
<1>2. CASE RequestFails(t)
  <2>1. TypeOK /\ call[t] \in Calls
    BY <1>2, CallFacts
       DEF StalenessInv, RequestFails, Changing, At, Idle
  <2>2. call[t].path \in Paths
    BY <2>1 DEF Calls
  <2>3. /\ UNCHANGED <<statCache, worldVars, kernel>>
        /\ alive' \in BOOLEAN /\ call' = [call EXCEPT ![t] = NoCall]
        /\ disturbed' \in SUBSET Paths
    BY <1>2, <2>1, <2>2 DEF RequestFails, TypeOK
  <2> QED
    BY <2>3, EndsFine
<1> QED
  BY <1>1, <1>2

LEMMA NullEntryStep ==
    ASSUME StalenessInv, NEW t \in Threads, NullEntry(t) PROVE StalenessInv'
<1>1. TypeOK /\ CallControl(t) /\ CallFresh(t)
  BY DEF StalenessInv, CallsAreFine
<1>2. /\ UNCHANGED <<statCache, worldVars, kernel>> /\ alive' \in BOOLEAN
      /\ call' = call /\ disturbed' \in SUBSET Paths
  BY CacheStays DEF NullEntry
<1>3. /\ call' = [call EXCEPT ![t] = call[t]] /\ call[t] \in CallType
      /\ handle' = handle /\ behind' = behind
  BY <1>1, <1>2 DEF TypeOK, CallType, worldVars
<1>4. CallControl(t)' /\ CallFresh(t)'
  BY <1>1, <1>2, <1>3 DEF CallControl, CallFresh, Busy
<1> QED
  BY <1>2, <1>3, <1>4, CallStep

LEMMA BeginStep ==
    ASSUME StalenessInv, NEW t \in Threads, NEW p \in Paths, NEW s \in Answers,
           NEW op \in Ops, NEW pc \in {"get", "ls", "upload", "reupload", "remove"},
           Begin(t, op, pc, p, s),
           op = "flush" <=> pc = "upload", op = "truncate" <=> pc = "reupload",
           op = "rmdir" <=> pc = "remove", op = "flush" => handle[p] # NoEntry,
           op = "truncate" => s \in Sizes
    PROVE  StalenessInv'
<1>1. /\ TypeOK /\ UNCHANGED <<statCache, worldVars, kernel>> /\ alive' \in BOOLEAN
      /\ call' = [call EXCEPT ![t] = NewCall(op, pc, p, s)]
      /\ disturbed' \in SUBSET Paths
  BY CacheStays DEF StalenessInv, Begin, TypeOK
<1>2. NewCall(op, pc, p, s) \in CallType /\ call'[t] = NewCall(op, pc, p, s)
  BY <1>1, NewCallType DEF CallType, TypeOK, Steps
<1>3. handle' = handle
  BY <1>1 DEF worldVars
<1>4. CallControl(t)' /\ CallFresh(t)'
  BY <1>2, <1>3, NewCallIsFine
<1> QED
  BY <1>1, <1>2, <1>4, CallStep

-----------------------------------------------------------------------------
(* Steps that change the world. *)

KernelType == [Paths -> [size : Answers, left : 0..(AttrTimeout + 1)]]

LEMMA WorldStep ==
    ASSUME StalenessInv, NEW c \in [Paths -> Answers],
           NEW h \in [Paths -> Handles \cup {NoEntry}], World(c, h),
           alive' \in BOOLEAN, disturbed' \in SUBSET Paths,
           statCache' \in [Paths -> Entries \cup {NoEntry}],
           \A p \in Paths :
               \/ statCache'[p] = statCache[p]
               \/ statCache'[p] = NoEntry
               \/ /\ statCache'[p] \in Entries
                  /\ behind'[p][statCache'[p].size] <= MaxCall,
           kernel' \in KernelType,
           \A p \in Paths : kernel'[p] = kernel[p] \/ kernel'[p] = NoTrust,
           call' \in [Threads -> CallType],
           \A u \in Threads :
               \/ CallControl(u)' /\ CallFresh(u)'
               \/ /\ Kept(u)
                  /\ Busy(u) /\ call[u].op = "flush" => h[call[u].path] # NoEntry
    PROVE  StalenessInv'
<1>1. TypeOK /\ EntriesAreFresh /\ TrustIsFresh
  BY DEF StalenessInv
<1>2. /\ cloud' = c /\ handle' = h
      /\ behind' \in [Paths -> [Answers -> 0..(Limit + 1)]]
      /\ NotOlder /\ SizesAreNow'
  BY <1>1, WorldFacts
<1>3. CallsAreFine'
  BY <1>2, CallsStayFine
<1>4. EntriesAreFresh'
  BY <1>1, <1>2, EntriesStayFresh
<1>5. TrustIsFresh'
  BY <1>1, <1>2, TrustStaysFresh
<1>6. TypeOK'
  BY <1>2 DEF TypeOK, KernelType, CallType
<1> QED
  BY <1>2, <1>3, <1>4, <1>5, <1>6 DEF StalenessInv

(***************************************************************************)
(* CacheManager::update writes a size the file has had not long ago.       *)
(***************************************************************************)
LEMMA UpdateFacts ==
    ASSUME TypeOK, NEW p \in Paths, NEW s \in Sizes, behind'[p][s] <= MaxCall,
           NEW calls \in [Threads -> CallType],
           \A u \in Threads : calls[u] = call[u] \/ calls[u] = NoCall,
           Update(p, s, calls)
    PROVE  /\ statCache' \in [Paths -> Entries \cup {NoEntry}]
           /\ \A q \in Paths :
                 \/ statCache'[q] = statCache[q]
                 \/ /\ statCache'[q] \in Entries
                    /\ behind'[q][statCache'[q].size] <= MaxCall
           /\ call' \in [Threads -> CallType]
           /\ \A u \in Threads :
                 (calls[u] = NoCall /\ call'[u] = NoCall) \/ Kept(u)
<1>1. CASE statCache[p] = NoEntry
  <2>1. statCache' = statCache /\ call' = calls
    BY <1>1 DEF Update
  <2>2. \A u \in Threads :
            (calls[u] = NoCall /\ call'[u] = NoCall) \/ Kept(u)
    BY <2>1, UntouchedIsKept
  <2> QED
    BY <2>1, <2>2 DEF TypeOK
<1>2. CASE statCache[p] # NoEntry
  <2>1. /\ statCache' = [statCache EXCEPT ![p].size = s]
        /\ call' = [u \in Threads |->
                       IF Idle(u) \/ calls[u] = NoCall THEN calls[u]
                       ELSE Written(p, s, u)]
    BY <1>2 DEF Update
  <2>2. /\ statCache' \in [Paths -> Entries \cup {NoEntry}]
        /\ statCache'[p] \in Entries /\ statCache'[p].size = s
        /\ \A q \in Paths \ {p} : statCache'[q] = statCache[q]
    BY <1>2, <2>1 DEF TypeOK, Entries
  <2>3. ASSUME NEW u \in Threads
        PROVE  (calls[u] = NoCall /\ call'[u] = NoCall) \/ Kept(u)
    <3>1. CASE calls[u] = NoCall
      BY <2>1, <3>1
    <3>2. CASE calls[u] # NoCall
      <4>1. \/ Idle(u) /\ call'[u] = call[u]
            \/ ~Idle(u) /\ call'[u] = Written(p, s, u)
        BY <2>1, <3>2
      <4> QED
        BY <4>1, WrittenIsKept
    <3> QED
      BY <3>1, <3>2
  <2>4. call' \in [Threads -> CallType]
    <3>1. call' = [u \in Threads |-> call'[u]]
      BY <2>1
    <3>2. \A u \in Threads : call'[u] \in CallType
      BY <2>3 DEF Kept, CallType
    <3> QED
      BY <3>1, <3>2
  <2> QED
    BY <2>2, <2>3, <2>4, StatCacheAssumption
<1> QED
  BY <1>1, <1>2

LEMMA StillIsWorld ==
    ASSUME TypeOK, SizesAreNow, UNCHANGED worldVars
    PROVE  World(cloud, handle)
<1> DEFINE f == [p \in Paths |-> [s \in Answers |->
                    IF HasSize(cloud, handle, p, s) THEN 0 ELSE behind[p][s]]]
<1>1. ASSUME NEW p \in Paths PROVE behind[p] = f[p]
  <2>1. behind[p] = [s \in Answers |-> behind[p][s]]
    BY DEF TypeOK
  <2>2. \A s \in Answers :
            behind[p][s] = IF HasSize(cloud, handle, p, s) THEN 0 ELSE behind[p][s]
    BY DEF SizesAreNow
  <2> QED
    BY <2>1, <2>2
<1>2. behind = [p \in Paths |-> behind[p]]
  BY DEF TypeOK
<1>3. behind = f
  <2>1. f = [p \in Paths |-> f[p]]
    OBVIOUS
  <2> HIDE DEF f
  <2> QED
    BY <1>1, <1>2, <2>1
<1> QED
  BY <1>3 DEF World, worldVars

LEMMA FlushHasNode ==
    ASSUME StalenessInv, NEW u \in Threads, Busy(u), call[u].op = "flush"
    PROVE  call[u].path \in Paths /\ handle[call[u].path] # NoEntry
<1>1. call[u] \in Calls /\ CallControl(u)
  BY CallFacts DEF StalenessInv, CallsAreFine
<1> QED
  BY <1>1 DEF Calls, CallControl

(***************************************************************************)
(* A step that changes one call, gives paths other nodes but takes none    *)
(* away, and leaves the cache and the kernel alone.                        *)
(***************************************************************************)
LEMMA NodeStep ==
    ASSUME StalenessInv, NEW c \in [Paths -> Answers],
           NEW h \in [Paths -> Handles \cup {NoEntry}], World(c, h),
           \A p \in Paths : handle[p] # NoEntry => h[p] # NoEntry,
           alive' \in BOOLEAN, disturbed' \in SUBSET Paths,
           UNCHANGED statCache, kernel' \in KernelType,
           \A p \in Paths : kernel'[p] = kernel[p] \/ kernel'[p] = NoTrust,
           call' \in [Threads -> CallType],
           \A u \in Threads :
               call'[u] = call[u] \/ (CallControl(u)' /\ CallFresh(u)')
    PROVE  StalenessInv'
<1>1. TypeOK
  BY DEF StalenessInv
<1>2. ASSUME NEW u \in Threads, call'[u] = call[u]
      PROVE  /\ Kept(u)
             /\ Busy(u) /\ call[u].op = "flush" => h[call[u].path] # NoEntry
  BY <1>1, <1>2, UntouchedIsKept, FlushHasNode
<1>3. /\ statCache' \in [Paths -> Entries \cup {NoEntry}]
      /\ \A p \in Paths : statCache'[p] = statCache[p]
  BY <1>1 DEF TypeOK
<1> QED
  BY <1>2, <1>3, WorldStep

LEMMA CloudStep ==
    ASSUME StalenessInv, NEW p \in Paths, NEW s \in Answers,
           World([cloud EXCEPT ![p] = s], handle), UNCHANGED <<statCache, call, alive>>,
           disturbed' \in SUBSET Paths,
           kernel' = kernel \/ kernel' = [kernel EXCEPT ![p] = NoTrust]
    PROVE  StalenessInv'
<1> DEFINE c == [cloud EXCEPT ![p] = s]
<1>1. TypeOK
  BY DEF StalenessInv
<1>2. /\ c \in [Paths -> Answers] /\ handle \in [Paths -> Handles \cup {NoEntry}]
      /\ alive' \in BOOLEAN /\ call' \in [Threads -> CallType]
  BY <1>1 DEF TypeOK, CallType
<1>3. /\ kernel' \in KernelType
      /\ \A q \in Paths : kernel'[q] = kernel[q] \/ kernel'[q] = NoTrust
  BY <1>1, StatCacheAssumption DEF TypeOK, KernelType, NoTrust, Answers
<1> HIDE DEF c
<1> QED
  BY <1>2, <1>3, NodeStep DEF c

LEMMA MakeNodeStep ==
    ASSUME StalenessInv, NEW t \in Threads, MakeNode(t) PROVE StalenessInv'
<1> DEFINE p == call[t].path
           size == IF cloud[p] > 0 THEN cloud[p] ELSE call[t].size
           h == [handle EXCEPT ![p] = [size |-> size, dirty |-> FALSE]]
<1>1. /\ TypeOK /\ call[t] \in Calls /\ CallControl(t) /\ p \in Paths
      /\ call[t].pc = "hit" /\ call[t].size \in Sizes
      /\ alive' \in BOOLEAN /\ UNCHANGED <<cacheVars, kernel>>
      /\ call' = [call EXCEPT ![t] = NoCall]
      /\ cloud[p] # NoEntry /\ World(cloud, h)
  <2>1. /\ TypeOK /\ call[t] \in Calls /\ CallControl(t) /\ call[t].pc = "hit"
    BY CallFacts DEF StalenessInv, MakeNode, At, Idle, CallsAreFine
  <2> QED
    BY <2>1 DEF MakeNode, TypeOK, Calls, CallControl
<1>2. size \in Sizes
  BY <1>1 DEF TypeOK, Answers
<1> HIDE DEF size
<1>3. /\ cloud \in [Paths -> Answers] /\ h \in [Paths -> Handles \cup {NoEntry}]
      /\ h[p] # NoEntry /\ \A q \in Paths \ {p} : h[q] = handle[q]
  <2>1. [size |-> size, dirty |-> FALSE] \in Handles
    BY <1>2 DEF Handles
  <2>2. [size |-> size, dirty |-> FALSE] # NoEntry
    BY <2>1, NoEntryAssumption
  <2> QED
    BY <1>1, <2>1, <2>2 DEF TypeOK
<1>4. /\ call' \in [Threads -> CallType]
      /\ \A u \in Threads : call'[u] = call[u] \/ call'[u] = NoCall
  BY <1>1 DEF TypeOK, CallType
<1>5. \A u \in Threads : call'[u] = call[u] \/ (CallControl(u)' /\ CallFresh(u)')
  BY <1>4, IdleIsFine
<1>6. /\ statCache' = statCache /\ kernel' = kernel /\ kernel' \in KernelType
      /\ disturbed' \in SUBSET Paths
  BY <1>1 DEF TypeOK, cacheVars, KernelType
<1> HIDE DEF h
<1> QED
  BY <1>1, <1>3, <1>4, <1>5, <1>6, NodeStep

(***************************************************************************)
(* The requests that leave a change half done, and write of an open node,  *)
(* change no call.                                                         *)
(***************************************************************************)
LEMMA PartlyStep ==
    ASSUME StalenessInv, NEW t \in Threads, Partly(t) PROVE StalenessInv'
<1> DEFINE p == call[t].path
<1>1. TypeOK /\ call[t] \in Calls
  BY CallFacts DEF StalenessInv, Partly, Changing, At, Idle
<1>2. p \in Paths
  BY <1>1 DEF Calls
<1>3. PICK s \in Answers : World([cloud EXCEPT ![p] = s], handle)
  BY DEF Partly
<1>4. /\ UNCHANGED <<statCache, call, alive>> /\ kernel' = kernel
      /\ disturbed' \in SUBSET Paths
  BY <1>1, <1>2 DEF Partly, Overtaken, TypeOK
<1> QED
  BY <1>2, <1>3, <1>4, CloudStep

LEMMA WriteStep ==
    ASSUME StalenessInv, NEW p \in Paths, NEW s \in Sizes, Write(p, s)
    PROVE  StalenessInv'
<1> DEFINE h == [handle EXCEPT ![p] = [size |-> s, dirty |-> TRUE]]
<1>1. /\ TypeOK /\ World(cloud, h) /\ UNCHANGED <<statCache, call, kernel, alive>>
      /\ disturbed' \in SUBSET Paths
  BY CacheStays DEF StalenessInv, Write
<1>2. [size |-> s, dirty |-> TRUE] \in Handles
  BY DEF Handles
<1>3. /\ cloud \in [Paths -> Answers] /\ h \in [Paths -> Handles \cup {NoEntry}]
      /\ \A q \in Paths : handle[q] # NoEntry => h[q] # NoEntry
  BY <1>1, <1>2, NoEntryAssumption DEF TypeOK
<1>4. /\ alive' \in BOOLEAN /\ call' \in [Threads -> CallType]
      /\ kernel' = kernel /\ kernel' \in KernelType
  BY <1>1 DEF TypeOK, CallType, KernelType
<1> HIDE DEF h
<1> QED
  BY <1>1, <1>3, <1>4, NodeStep

LEMMA UploadStep ==
    ASSUME StalenessInv, NEW t \in Threads, Upload(t) PROVE StalenessInv'
<1> DEFINE p == call[t].path
           d == [call[t] EXCEPT !.pc = "update"]
<1>1. /\ TypeOK /\ SizesAreNow /\ call[t] \in Calls /\ Busy(t)
      /\ call[t].pc = "upload" /\ call[t].op = "flush"
  BY CallFacts DEF StalenessInv, CallsAreFine, CallControl, Upload, At, Idle
<1>2. p \in Paths /\ handle[p] # NoEntry
  BY <1>1, FlushHasNode
<1>3. /\ call' = [call EXCEPT ![t] = d] /\ alive' \in BOOLEAN
      /\ statCache' = statCache /\ kernel' = kernel /\ kernel' \in KernelType
  BY <1>1 DEF Upload, Goto, TypeOK, KernelType
<1>4. d \in Calls /\ d.pc = "update" /\ d.op = "flush" /\ d.path = p
  BY <1>1 DEF Calls, Steps
<1>5. /\ call' \in [Threads -> CallType] /\ call'[t] = d
      /\ \A u \in Threads \ {t} : call'[u] = call[u]
  BY <1>1, <1>3, <1>4 DEF TypeOK, CallType
<1>6. ASSUME handle'[p] # NoEntry, NEW u \in Threads, call'[u] # call[u]
      PROVE  CallControl(u)' /\ CallFresh(u)'
  <2>1. call'[u] = d
    BY <1>5, <1>6
  <2> QED
    BY <1>4, <1>6, <2>1 DEF CallControl, CallFresh
<1>7. CASE UNCHANGED <<worldVars, disturbed>>
  <2>1. handle' = handle /\ disturbed' \in SUBSET Paths
    BY <1>1, <1>7 DEF worldVars, TypeOK
  <2>2. \A u \in Threads : call'[u] = call[u] \/ (CallControl(u)' /\ CallFresh(u)')
    BY <1>2, <1>6, <2>1
  <2>3. World(cloud, handle)
    BY <1>1, <1>7, StillIsWorld
  <2>4. cloud \in [Paths -> Answers] /\ handle \in [Paths -> Handles \cup {NoEntry}]
    BY <1>1 DEF TypeOK
  <2> QED
    BY <1>3, <1>5, <2>1, <2>2, <2>3, <2>4, NodeStep
<1>8. CASE /\ World([cloud EXCEPT ![p] = handle[p].size],
                    [handle EXCEPT ![p].dirty = FALSE])
           /\ disturbed' = Overtaken(p)
  <2> DEFINE c == [cloud EXCEPT ![p] = handle[p].size]
             h == [handle EXCEPT ![p].dirty = FALSE]
  <2>1. /\ handle[p].size \in Sizes /\ [handle[p] EXCEPT !.dirty = FALSE] \in Handles
    BY <1>1, <1>2 DEF Handles, TypeOK
  <2>2. /\ c \in [Paths -> Answers] /\ h \in [Paths -> Handles \cup {NoEntry}]
        /\ h[p] # NoEntry
        /\ \A q \in Paths : handle[q] # NoEntry => h[q] # NoEntry
    BY <1>1, <1>2, <2>1, NoEntryAssumption DEF TypeOK, Answers
  <2>3. disturbed' \in SUBSET Paths
    BY <1>1, <1>2, <1>8 DEF Overtaken, TypeOK
  <2>4. handle' = h
    BY <1>8 DEF World
  <2>5. \A u \in Threads : call'[u] = call[u] \/ (CallControl(u)' /\ CallFresh(u)')
    BY <1>6, <2>2, <2>4
  <2>6. World(c, h)
    BY <1>8
  <2> HIDE DEF c, h
  <2> QED
    BY <1>3, <1>5, <2>2, <2>3, <2>5, <2>6, NodeStep
<1> QED
  BY <1>7, <1>8 DEF Upload

LEMMA EndFlushStep ==
    ASSUME StalenessInv, NEW t \in Threads, EndFlush(t) PROVE StalenessInv'
<1> DEFINE p == call[t].path
           s == handle[p].size
           calls == [call EXCEPT ![t] = NoCall]
<1>1. /\ TypeOK /\ SizesAreNow /\ call[t] \in Calls /\ Busy(t) /\ call[t].op = "flush"
  BY CallFacts DEF StalenessInv, CallsAreFine, CallControl, EndFlush, At, Idle
<1>2. p \in Paths /\ handle[p] \in Handles /\ s \in Sizes
  BY <1>1, FlushHasNode DEF TypeOK, Handles
<1>3. behind'[p][s] <= MaxCall
  <2>1. behind'[p][s] = 0
    BY <1>1, <1>2, NoEntryAssumption
       DEF EndFlush, worldVars, SizesAreNow, HasSize, Answers
  <2> QED
    BY <2>1, StatCacheAssumption
<1>4. /\ calls \in [Threads -> CallType] /\ calls[t] = NoCall
      /\ \A u \in Threads \ {t} : calls[u] = call[u]
  BY <1>1 DEF TypeOK, CallType
<1>5. Update(p, s, calls)
  BY DEF EndFlush
<1> HIDE DEF p, s, calls
<1>6. /\ statCache' \in [Paths -> Entries \cup {NoEntry}]
      /\ \A q \in Paths :
            \/ statCache'[q] = statCache[q]
            \/ /\ statCache'[q] \in Entries
               /\ behind'[q][statCache'[q].size] <= MaxCall
      /\ call' \in [Threads -> CallType]
      /\ \A u \in Threads :
            (calls[u] = NoCall /\ call'[u] = NoCall) \/ Kept(u)
  BY <1>1, <1>2, <1>3, <1>4, <1>5, UpdateFacts
<1>7. \A u \in Threads :
          \/ CallControl(u)' /\ CallFresh(u)'
          \/ /\ Kept(u)
             /\ Busy(u) /\ call[u].op = "flush" => handle[call[u].path] # NoEntry
  BY <1>6, IdleIsFine, FlushHasNode
<1>8. World(cloud, handle)
  BY <1>1, StillIsWorld DEF EndFlush
<1>9. /\ cloud \in [Paths -> Answers] /\ handle \in [Paths -> Handles \cup {NoEntry}]
      /\ alive' \in BOOLEAN /\ disturbed' \in SUBSET Paths
      /\ kernel' = kernel /\ kernel' \in KernelType
  BY <1>1 DEF EndFlush, TypeOK, KernelType
<1> QED
  BY <1>6, <1>7, <1>8, <1>9, WorldStep

LEMMA ReuploadStep ==
    ASSUME StalenessInv, NEW t \in Threads, Reupload(t) PROVE StalenessInv'
<1> DEFINE p == call[t].path
           s == call[t].size
           d == [call[t] EXCEPT !.pc = "update"]
           c == [cloud EXCEPT ![p] = s]
<1>1. /\ TypeOK /\ call[t] \in Calls /\ Busy(t) /\ CallControl(t)
      /\ call[t].op = "truncate"
  BY CallFacts DEF StalenessInv, CallsAreFine, CallControl, Reupload, At, Idle
<1>2. /\ p \in Paths /\ s \in Sizes /\ ~call[t].linked /\ call[t].age \in 0..MaxCall
  BY <1>1 DEF Calls, CallControl
<1>3. /\ call' = [call EXCEPT ![t] = d] /\ alive' \in BOOLEAN
      /\ statCache' = statCache /\ kernel' = kernel /\ kernel' \in KernelType
      /\ World(c, handle) /\ disturbed' = Overtaken(p)
  BY <1>1 DEF Reupload, Goto, TypeOK, KernelType
<1>4. /\ d \in Calls /\ d.pc = "update" /\ d.op = "truncate" /\ d.path = p
      /\ d.size = s /\ ~d.linked /\ d.age = call[t].age
  BY <1>1, <1>2 DEF Calls, Steps
<1>5. /\ call' \in [Threads -> CallType] /\ call'[t] = d
      /\ \A u \in Threads \ {t} : call'[u] = call[u]
  BY <1>1, <1>3, <1>4 DEF TypeOK, CallType
<1>6. /\ c \in [Paths -> Answers] /\ handle \in [Paths -> Handles \cup {NoEntry}]
      /\ c[p] = s /\ disturbed' \in SUBSET Paths
  BY <1>1, <1>2, <1>3 DEF TypeOK, Answers, Overtaken
<1>7. behind'[p][s] = 0
  <2> HIDE DEF c
  <2>1. cloud' = c /\ SizesAreNow'
    BY <1>1, <1>3, <1>6, WorldFacts
  <2>2. HasSize(cloud', handle', p, s)
    BY <1>6, <2>1 DEF HasSize
  <2> QED
    BY <1>2, <2>1, <2>2 DEF SizesAreNow, HasSize, Answers
<1>8. CallControl(t)' /\ CallFresh(t)'
  <2>1. CallControl(t)'
    BY <1>2, <1>4, <1>5 DEF CallControl
  <2>2. behind'[p][s] <= call[t].age
    BY <1>2, <1>7, StatCacheAssumption
  <2> QED
    BY <1>4, <1>5, <2>1, <2>2 DEF CallFresh
<1> HIDE DEF c, d
<1>9. \A u \in Threads : call'[u] = call[u] \/ (CallControl(u)' /\ CallFresh(u)')
  BY <1>5, <1>8
<1> QED
  BY <1>3, <1>5, <1>6, <1>9, NodeStep

LEMMA EndTruncatePathStep ==
    ASSUME StalenessInv, NEW t \in Threads, EndTruncatePath(t) PROVE StalenessInv'
<1> DEFINE p == call[t].path
           s == call[t].size
           calls == [call EXCEPT ![t] = NoCall]
<1>1. /\ TypeOK /\ SizesAreNow /\ call[t] \in Calls /\ Busy(t)
      /\ CallControl(t) /\ CallFresh(t)
      /\ call[t].op = "truncate" /\ call[t].pc = "update"
  BY CallFacts DEF StalenessInv, CallsAreFine, EndTruncatePath, At, Idle
<1>2. /\ p \in Paths /\ s \in Sizes /\ call[t].age \in 0..MaxCall
  BY <1>1 DEF Calls, CallControl
<1>3. behind'[p][s] <= MaxCall
  <2>1. behind[p][s] <= call[t].age /\ behind[p][s] \in Int
    BY <1>1, <1>2 DEF CallFresh, TypeOK, Answers
  <2>2. behind' = behind
    BY DEF EndTruncatePath, worldVars
  <2> QED
    BY <1>2, <2>1, <2>2, StatCacheAssumption
<1>4. /\ calls \in [Threads -> CallType] /\ calls[t] = NoCall
      /\ \A u \in Threads \ {t} : calls[u] = call[u]
  BY <1>1 DEF TypeOK, CallType
<1>5. /\ Update(p, s, calls) /\ kernel' = [kernel EXCEPT ![p] = NoTrust]
      /\ UNCHANGED worldVars /\ UNCHANGED <<disturbed, alive>>
  BY DEF EndTruncatePath
<1> HIDE DEF p, s, calls
<1>6. /\ statCache' \in [Paths -> Entries \cup {NoEntry}]
      /\ \A q \in Paths :
            \/ statCache'[q] = statCache[q]
            \/ /\ statCache'[q] \in Entries
               /\ behind'[q][statCache'[q].size] <= MaxCall
      /\ call' \in [Threads -> CallType]
      /\ \A u \in Threads :
            (calls[u] = NoCall /\ call'[u] = NoCall) \/ Kept(u)
  BY <1>1, <1>2, <1>3, <1>4, <1>5, UpdateFacts
<1>7. \A u \in Threads :
          \/ CallControl(u)' /\ CallFresh(u)'
          \/ /\ Kept(u)
             /\ Busy(u) /\ call[u].op = "flush" => handle[call[u].path] # NoEntry
  BY <1>6, IdleIsFine, FlushHasNode
<1>8. World(cloud, handle)
  BY <1>1, <1>5, StillIsWorld
<1>9. /\ cloud \in [Paths -> Answers] /\ handle \in [Paths -> Handles \cup {NoEntry}]
      /\ alive' \in BOOLEAN /\ disturbed' \in SUBSET Paths
      /\ kernel' \in KernelType
      /\ \A q \in Paths : kernel'[q] = kernel[q] \/ kernel'[q] = NoTrust
  BY <1>1, <1>2, <1>5, StatCacheAssumption DEF TypeOK, KernelType, NoTrust, Answers
<1> QED
  BY <1>6, <1>7, <1>8, <1>9, WorldStep

LEMMA MoveStep ==
    ASSUME StalenessInv, NEW t \in Threads, Move(t) PROVE StalenessInv'
<1> DEFINE p == call[t].path
<1>1. TypeOK /\ call[t] \in Calls
  BY CallFacts DEF StalenessInv, Move, At, Idle
<1>2. p \in Paths
  BY <1>1 DEF Calls
<1>3. PICK s \in Answers : World([cloud EXCEPT ![p] = s], handle)
  BY DEF Move
<1> DEFINE c == [cloud EXCEPT ![p] = s]
<1>4. /\ c \in [Paths -> Answers] /\ handle \in [Paths -> Handles \cup {NoEntry}]
      /\ World(c, handle) /\ UNCHANGED statCache
      /\ alive' \in BOOLEAN /\ disturbed' \in SUBSET Paths
  BY <1>1, <1>2, <1>3 DEF TypeOK, Move, Overtaken
<1>5. /\ kernel' \in KernelType
      /\ \A q \in Paths : kernel'[q] = kernel[q] \/ kernel'[q] = NoTrust
  BY <1>1, <1>2, StatCacheAssumption
     DEF Move, TypeOK, KernelType, NoTrust, Answers
<1>6. /\ call' \in [Threads -> CallType]
      /\ \A u \in Threads : call'[u] = call[u] \/ call'[u] = NoCall
  BY <1>1 DEF Move, TypeOK, CallType
<1>7. \A u \in Threads : call'[u] = call[u] \/ (CallControl(u)' /\ CallFresh(u)')
  BY <1>6, IdleIsFine
<1> HIDE DEF c
<1> QED
  BY <1>4, <1>5, <1>6, <1>7, NodeStep

LEMMA RemoveFileStep ==
    ASSUME StalenessInv, NEW t \in Threads, RemoveFile(t) PROVE StalenessInv'
<1> DEFINE p == call[t].path
           d == [call[t] EXCEPT !.pc = "forget"]
           c == [cloud EXCEPT ![p] = NoEntry]
<1>1. /\ TypeOK /\ call[t] \in Calls /\ call[t].op \in {"unlink", "rmdir"}
  BY CallFacts DEF StalenessInv, CallsAreFine, CallControl, RemoveFile, At, Idle
<1>2. p \in Paths /\ d \in Calls /\ d.pc = "forget" /\ d.op \in {"unlink", "rmdir"}
  BY <1>1 DEF Calls, Steps
<1>3. /\ call' = [call EXCEPT ![t] = d] /\ alive' \in BOOLEAN
      /\ statCache' = statCache /\ kernel' = kernel /\ kernel' \in KernelType
      /\ World(c, handle) /\ disturbed' = Overtaken(p)
  BY <1>1 DEF RemoveFile, Goto, TypeOK, KernelType
<1>4. /\ call' \in [Threads -> CallType] /\ call'[t] = d
      /\ \A u \in Threads \ {t} : call'[u] = call[u]
  BY <1>1, <1>2, <1>3 DEF TypeOK, CallType
<1>5. /\ c \in [Paths -> Answers] /\ handle \in [Paths -> Handles \cup {NoEntry}]
      /\ disturbed' \in SUBSET Paths
  BY <1>1, <1>2, <1>3 DEF TypeOK, Answers, Overtaken
<1>6. ASSUME NEW u \in Threads
      PROVE  call'[u] = call[u] \/ (CallControl(u)' /\ CallFresh(u)')
  <2>1. CASE u = t
    <3>1. call'[u].pc = "forget" /\ call'[u].op \in {"unlink", "rmdir"}
      BY <1>2, <1>4, <2>1
    <3> QED
      BY <3>1 DEF CallControl, CallFresh
  <2> QED
    BY <1>4, <2>1
<1> HIDE DEF c
<1> QED
  BY <1>3, <1>4, <1>5, <1>6, NodeStep

LEMMA ForgetStep ==
    ASSUME StalenessInv, NEW t \in Threads, Forget(t) PROVE StalenessInv'
<1> DEFINE p == call[t].path
<1>1. TypeOK /\ SizesAreNow /\ call[t] \in Calls
  BY CallFacts DEF StalenessInv, Forget, At, Idle
<1>2. p \in Paths
  BY <1>1 DEF Calls
<1>3. /\ statCache' = [statCache EXCEPT ![p] = NoEntry]
      /\ call' = [Others(t, LAMBDA u : Erased(p, u)) EXCEPT ![t] = NoCall]
      /\ kernel' = [kernel EXCEPT ![p] = NoTrust]
      /\ UNCHANGED worldVars /\ UNCHANGED <<disturbed, alive>>
  BY DEF Forget
<1>4. call'[t] = NoCall /\ call' = [u \in Threads |-> call'[u]]
  BY <1>3 DEF Others
<1>5. \A u \in Threads \ {t} : Kept(u)
  <2>1. \A u \in Threads \ {t} :
            \/ Idle(u) /\ call'[u] = call[u]
            \/ ~Idle(u) /\ call'[u] \in {Unlinked(p, u), Erased(p, u)}
    BY <1>3 DEF Others
  <2> QED
    BY <1>1, <1>2, <2>1, FlagsAreKept
<1>6. \A u \in Threads : Kept(u) \/ call'[u] = NoCall
  BY <1>4, <1>5
<1>7. call' \in [Threads -> CallType]
  BY <1>4, <1>6 DEF Kept, CallType
<1>8. \A u \in Threads :
          \/ CallControl(u)' /\ CallFresh(u)'
          \/ /\ Kept(u)
             /\ Busy(u) /\ call[u].op = "flush" => handle[call[u].path] # NoEntry
  BY <1>6, IdleIsFine, FlushHasNode
<1>9. World(cloud, handle)
  BY <1>1, <1>3, StillIsWorld
<1>10. /\ cloud \in [Paths -> Answers] /\ handle \in [Paths -> Handles \cup {NoEntry}]
       /\ alive' \in BOOLEAN /\ disturbed' \in SUBSET Paths
       /\ statCache' \in [Paths -> Entries \cup {NoEntry}]
       /\ \A q \in Paths : statCache'[q] = statCache[q] \/ statCache'[q] = NoEntry
  BY <1>1, <1>2, <1>3 DEF TypeOK
<1>11. /\ kernel' \in KernelType
       /\ \A q \in Paths : kernel'[q] = kernel[q] \/ kernel'[q] = NoTrust
  BY <1>1, <1>2, <1>3, StatCacheAssumption DEF TypeOK, KernelType, NoTrust, Answers
<1> QED
  BY <1>7, <1>8, <1>9, <1>10, <1>11, WorldStep

LEMMA TruncateStep ==
    ASSUME StalenessInv, NEW p \in Paths, NEW s \in Sizes, Truncate(p, s)
    PROVE  StalenessInv'
<1> DEFINE h == [handle EXCEPT ![p] = [size |-> s, dirty |-> TRUE]]
<1>1. /\ TypeOK /\ World(cloud, h) /\ Update(p, s, call)
      /\ alive' = alive /\ disturbed' = disturbed
      /\ kernel' = [kernel EXCEPT ![p] = NoTrust]
  BY DEF StalenessInv, Truncate
<1>2. [size |-> s, dirty |-> TRUE] \in Handles
  BY DEF Handles
<1>3. /\ cloud \in [Paths -> Answers] /\ h \in [Paths -> Handles \cup {NoEntry}]
      /\ h[p] = [size |-> s, dirty |-> TRUE] /\ h[p] # NoEntry
      /\ \A q \in Paths : handle[q] # NoEntry => h[q] # NoEntry
  BY <1>1, <1>2, NoEntryAssumption DEF TypeOK
<1> HIDE DEF h
<1>4. behind'[p][s] <= MaxCall
  <2>1. cloud' = cloud /\ handle' = h /\ SizesAreNow'
    BY <1>1, <1>3, WorldFacts
  <2>2. HasSize(cloud', handle', p, s)
    BY <1>3, <2>1 DEF HasSize
  <2> QED
    BY <2>1, <2>2, StatCacheAssumption DEF SizesAreNow, HasSize, Answers
<1>5. call \in [Threads -> CallType]
  BY <1>1 DEF TypeOK, CallType
<1>6. /\ statCache' \in [Paths -> Entries \cup {NoEntry}]
      /\ \A q \in Paths :
            \/ statCache'[q] = statCache[q]
            \/ /\ statCache'[q] \in Entries
               /\ behind'[q][statCache'[q].size] <= MaxCall
      /\ call' \in [Threads -> CallType]
      /\ \A u \in Threads : (call[u] = NoCall /\ call'[u] = NoCall) \/ Kept(u)
  BY <1>1, <1>4, <1>5, UpdateFacts
<1>7. \A u \in Threads :
          \/ CallControl(u)' /\ CallFresh(u)'
          \/ /\ Kept(u)
             /\ Busy(u) /\ call[u].op = "flush" => h[call[u].path] # NoEntry
  BY <1>3, <1>6, IdleIsFine, FlushHasNode
<1>8. /\ kernel' \in KernelType
      /\ \A q \in Paths : kernel'[q] = kernel[q] \/ kernel'[q] = NoTrust
      /\ alive' \in BOOLEAN /\ disturbed' \in SUBSET Paths
  BY <1>1, StatCacheAssumption DEF TypeOK, KernelType, NoTrust, Answers
<1> QED
  BY <1>1, <1>3, <1>6, <1>7, <1>8, WorldStep

LEMMA ReleaseStep ==
    ASSUME StalenessInv, NEW p \in Paths, Release(p) PROVE StalenessInv'
<1> DEFINE h == [handle EXCEPT ![p] = NoEntry]
<1>1. /\ TypeOK /\ World(cloud, h) /\ UNCHANGED <<statCache, call, kernel, alive>>
      /\ disturbed' \in SUBSET Paths
  BY DEF StalenessInv, Release, TypeOK
<1>2. /\ cloud \in [Paths -> Answers] /\ h \in [Paths -> Handles \cup {NoEntry}]
      /\ \A q \in Paths : q # p => h[q] = handle[q]
  BY <1>1 DEF TypeOK
<1>3. \A u \in Threads :
          /\ Kept(u)
          /\ Busy(u) /\ call[u].op = "flush" => h[call[u].path] # NoEntry
  <2> TAKE u \in Threads
  <2>1. Kept(u)
    BY <1>1, UntouchedIsKept
  <2>2. Busy(u) /\ call[u].op = "flush" => call[u].path # p
    BY <1>1, CallFacts DEF Release, InCall, Busy
  <2> QED
    BY <1>2, <2>1, <2>2, FlushHasNode
<1>4. /\ kernel' = kernel /\ kernel' \in KernelType /\ statCache' = statCache
      /\ statCache' \in [Paths -> Entries \cup {NoEntry}]
      /\ alive' \in BOOLEAN /\ disturbed' \in SUBSET Paths
      /\ call' \in [Threads -> CallType]
  BY <1>1 DEF TypeOK, KernelType, CallType
<1> HIDE DEF h
<1> QED
  BY <1>1, <1>2, <1>3, <1>4, WorldStep

(***************************************************************************)
(* Everything gets older by at most one unit, and what trusts a size gets  *)
(* older, or closer to the end of its trust, by exactly one.               *)
(***************************************************************************)
LEMMA TickStep ==
    ASSUME StalenessInv, Tick PROVE StalenessInv'
<1> USE StatCacheAssumption
<1>1. TypeOK /\ Limit \in Nat /\ handle' = handle /\ cloud' = cloud
  BY DEF StalenessInv, Limit, Tick
<1>2. ASSUME NEW p \in Paths, NEW s \in Answers
      PROVE  /\ behind[p][s] \in Nat /\ behind'[p][s] \in 0..(Limit + 1)
             /\ behind'[p][s] <= behind[p][s] + 1
             /\ HasSize(cloud, handle, p, s) => behind'[p][s] = 0
  <2>1. behind[p][s] \in 0..(Limit + 1)
    BY <1>1 DEF TypeOK
  <2>2. behind'[p][s] = IF HasSize(cloud, handle, p, s) THEN 0
                        ELSE Older(behind[p][s], Limit + 1)
    BY DEF Tick
  <2> QED
    BY <1>1, <2>1, <2>2 DEF Older
<1>3. behind' \in [Paths -> [Answers -> 0..(Limit + 1)]]
  <2>1. \A p \in Paths : \A s \in Answers :
          (IF HasSize(cloud, handle, p, s) THEN 0
           ELSE Older(behind[p][s], Limit + 1)) \in 0..(Limit + 1)
    BY <1>1 DEF TypeOK, Older
  <2> QED
    BY <2>1 DEF Tick
<1>4. SizesAreNow'
  BY <1>1, <1>2 DEF SizesAreNow, HasSize
<1>5. ASSUME NEW t \in Threads
      PROVE  /\ call'[t] \in CallType
             /\ CallControl(t)' /\ CallFresh(t)'
  <2>1. CASE Idle(t)
    <3>1. call'[t] = NoCall
      BY <2>1 DEF Tick
    <3> QED
      BY <3>1, IdleIsFine DEF CallType
  <2>2. CASE ~Idle(t)
    <3>1. call[t] \in Calls /\ CallControl(t) /\ CallFresh(t) /\ Busy(t)
      BY <1>1, <2>2, CallFacts DEF StalenessInv, CallsAreFine
    <3>2. call'[t] = [call[t] EXCEPT !.age = @ + 1] /\ call[t].age < MaxCall
      BY <2>2 DEF Tick
    <3>3. /\ call'[t] \in Calls /\ call'[t].age = call[t].age + 1
          /\ call[t].age \in Nat
          /\ call'[t].op = call[t].op /\ call'[t].pc = call[t].pc
          /\ call'[t].path = call[t].path /\ call'[t].size = call[t].size
          /\ call'[t].listing = call[t].listing /\ call'[t].todo = call[t].todo
          /\ call'[t].linked = call[t].linked
          /\ call[t].path \in Paths /\ call[t].size \in Answers
          /\ call[t].listing \in [Paths -> Answers]
      BY <3>1, <3>2 DEF Calls
    <3>4. CallControl(t)'
      BY <1>1, <3>1, <3>3 DEF CallControl, Busy
    <3>5. CallFresh(t)'
      <4>1. ASSUME call[t].pc = "put", NEW p \in Paths
            PROVE  behind'[p][call[t].listing[p]] <= call[t].age + 1
        BY <1>2, <3>1, <3>3, <4>1 DEF CallFresh
      <4>2. ASSUME call[t].pc = "hit"
            PROVE  behind'[call[t].path][call[t].size]
                       <= Ttl + MaxCall + (call[t].age + 1)
        BY <1>2, <3>1, <3>3, <4>2 DEF CallFresh
      <4>3. ASSUME call[t].pc = "update", call[t].op = "truncate"
            PROVE  behind'[call[t].path][call[t].size] <= call[t].age + 1
        BY <1>2, <3>1, <3>3, <4>3 DEF CallFresh
      <4> QED
        BY <3>3, <4>1, <4>2, <4>3 DEF CallFresh
    <3> QED
      BY <3>3, <3>4, <3>5 DEF CallType
  <2> QED
    BY <2>1, <2>2
<1>6. /\ call' \in [Threads -> CallType] /\ CallsAreFine'
  <2>1. call' = [t \in Threads |-> call'[t]]
    BY DEF Tick
  <2> QED
    BY <1>5, <2>1 DEF CallsAreFine
<1>7. ASSUME NEW p \in Paths
      PROVE  /\ statCache'[p] \in Entries \cup {NoEntry}
             /\ statCache'[p] # NoEntry /\ ~Expired(statCache'[p]) =>
                    behind'[p][statCache'[p].size] <= statCache'[p].age + MaxCall
  <2>1. CASE statCache[p] = NoEntry
    BY <2>1 DEF Tick
  <2>2. CASE statCache[p] # NoEntry
    <3>1. statCache[p] \in Entries
      BY <1>1, <2>2 DEF TypeOK
    <3>2. statCache'[p] = [statCache[p] EXCEPT !.age = Older(@, Ttl + 1)]
      BY <2>2 DEF Tick
    <3>3. /\ statCache'[p] \in Entries /\ statCache'[p].size = statCache[p].size
          /\ statCache'[p].age = Older(statCache[p].age, Ttl + 1)
          /\ statCache[p].age \in 0..(Ttl + 1) /\ statCache[p].size \in Answers
      BY <3>1, <3>2 DEF Entries, Older, Answers
    <3>4. ASSUME ~Expired(statCache'[p])
          PROVE  behind'[p][statCache'[p].size] <= statCache'[p].age + MaxCall
      <4>1. statCache[p].age <= Ttl /\ statCache'[p].age = statCache[p].age + 1
        BY <3>3, <3>4 DEF Older, Expired
      <4>2. behind[p][statCache[p].size] <= statCache[p].age + MaxCall
        BY <2>2, <3>3, <4>1 DEF StalenessInv, EntriesAreFresh, Expired
      <4> QED
        BY <1>2, <3>3, <4>1, <4>2
    <3> QED
      BY <3>3, <3>4
  <2> QED
    BY <2>1, <2>2
<1>8. /\ statCache' \in [Paths -> Entries \cup {NoEntry}] /\ EntriesAreFresh'
  <2>1. statCache' = [p \in Paths |-> statCache'[p]]
    BY DEF Tick
  <2> QED
    BY <1>7, <2>1 DEF EntriesAreFresh, Expired
<1>9. ASSUME NEW p \in Paths
      PROVE  /\ kernel'[p] \in [size : Answers, left : 0..(AttrTimeout + 1)]
             /\ kernel'[p].left > 0 =>
                   behind'[p][kernel'[p].size] + kernel'[p].left
                       <= Ttl + 2 * MaxCall + AttrTimeout + 1
  <2>1. kernel[p] \in [size : Answers, left : 0..(AttrTimeout + 1)]
    BY <1>1 DEF TypeOK
  <2>2. CASE kernel[p].left <= 1
    <3>1. kernel'[p] = NoTrust
      BY <2>2 DEF Tick
    <3> QED
      BY <3>1 DEF NoTrust, Answers
  <2>3. CASE ~(kernel[p].left <= 1)
    <3>1. kernel'[p] = [kernel[p] EXCEPT !.left = @ - 1]
      BY <2>3 DEF Tick
    <3>2. /\ kernel'[p] \in [size : Answers, left : 0..(AttrTimeout + 1)]
          /\ kernel'[p].size = kernel[p].size /\ kernel[p].size \in Answers
          /\ kernel'[p].left = kernel[p].left - 1
          /\ kernel[p].left \in Nat /\ kernel[p].left > 0
      BY <2>1, <2>3, <3>1
    <3>3. behind[p][kernel[p].size] + kernel[p].left
              <= Ttl + 2 * MaxCall + AttrTimeout + 1
      BY <3>2 DEF StalenessInv, TrustIsFresh, Trusted
    <3> QED
      BY <1>2, <3>2, <3>3
  <2> QED
    BY <2>2, <2>3
<1>10. kernel' \in KernelType /\ TrustIsFresh'
  <2>1. kernel' = [p \in Paths |-> kernel'[p]]
    BY DEF Tick
  <2> QED
    BY <1>9, <2>1 DEF KernelType, TrustIsFresh, Trusted
<1>11. TypeOK'
  BY <1>1, <1>3, <1>6, <1>8, <1>10 DEF TypeOK, CallType, KernelType, Tick
<1> QED
  BY <1>4, <1>6, <1>8, <1>10, <1>11 DEF StalenessInv

-----------------------------------------------------------------------------
LEMMA StalenessInit == Init => StalenessInv
<1> SUFFICES ASSUME Init PROVE StalenessInv
  OBVIOUS
<1> USE StatCacheAssumption
<1>1. Limit \in Nat
  BY DEF Limit
<1>2. \A t \in Threads : call[t] = NoCall
  BY DEF Init
<1>3. CallsAreFine
  BY <1>2 DEF CallsAreFine, CallControl, CallFresh, NoCall, Busy
<1>4. NoTrust \in [size : Answers, left : 0..(AttrTimeout + 1)]
  BY DEF NoTrust, Answers
<1>5. behind \in [Paths -> [Answers -> 0..(Limit + 1)]]
  BY <1>1 DEF Init
<1>6. TypeOK
  BY <1>4, <1>5 DEF Init, TypeOK
<1>7. SizesAreNow
  BY DEF Init, SizesAreNow, HasSize
<1>8. EntriesAreFresh /\ TrustIsFresh
  BY DEF Init, EntriesAreFresh, TrustIsFresh, Trusted, NoTrust
<1> QED
  BY <1>3, <1>6, <1>7, <1>8 DEF StalenessInv

LEMMA StalenessStep == StalenessInv /\ [Next]_vars => StalenessInv'
<1> SUFFICES ASSUME StalenessInv, [Next]_vars PROVE StalenessInv'
  OBVIOUS
<1>1. CASE Tick
  BY <1>1, TickStep
<1>2. ASSUME NEW t \in Threads, Step(t) PROVE StalenessInv'
  BY <1>2, FindStep, EraseStep, LsStep, PutStep, SimpleStep, AnswerStep,
     MakeNodeStep, NullEntryStep, PartlyStep, AgainStep, UploadStep, EndFlushStep,
     ReuploadStep, EndTruncatePathStep, RemoveFileStep, ForgetStep, DropStep,
     MoveStep DEF Step
<1>3. ASSUME NEW t \in Threads, NEW p \in Paths, Start(t, p) PROVE StalenessInv'
  <2>1. NoEntry \in Answers /\ Sizes \subseteq Answers
    BY DEF Answers
  <2>2. CASE Getattr(t, p) \/ Readdir(t, p) \/ Open(t, p) \/ Flush(t, p)
    BY <2>1, <2>2, BeginStep DEF Getattr, Readdir, Open, Flush, Ops, Alone
  <2>3. CASE Unlink(t, p) \/ Rmdir(t, p) \/ Rename(t, p)
    BY <2>1, <2>3, BeginStep DEF Unlink, Rmdir, Rename, BeginAlone, Ops, Alone
  <2>4. CASE \E s \in Sizes : TruncatePath(t, p, s)
    BY <2>1, <2>4, BeginStep DEF TruncatePath, Ops
  <2> QED
    BY <1>3, <2>2, <2>3, <2>4 DEF Start
<1>4. ASSUME NEW p \in Paths, Release(p) PROVE StalenessInv'
  BY <1>4, ReleaseStep
<1>5. ASSUME NEW p \in Paths, Mknod(p) PROVE StalenessInv'
  <2>1. 0 \in Answers /\ disturbed' \in SUBSET Paths
    BY <1>5, StatCacheAssumption DEF Answers, Mknod, cacheVars, StalenessInv, TypeOK
  <2> QED
    BY <1>5, <2>1, CloudStep DEF Mknod, cacheVars
<1>6. ASSUME NEW p \in Paths, NEW s \in Sizes, Write(p, s) \/ Truncate(p, s)
      PROVE  StalenessInv'
  BY <1>6, WriteStep, TruncateStep
<1>7. ASSUME NEW p \in Paths, NEW s \in Answers, OtherDevice(p, s) PROVE StalenessInv'
  <2>1. disturbed' \in SUBSET Paths
    BY <1>7 DEF OtherDevice, StalenessInv, TypeOK
  <2> QED
    BY <1>7, <2>1, CloudStep DEF OtherDevice
<1>8. CASE UNCHANGED vars
  <2>1. /\ statCache' = statCache /\ cloud' = cloud /\ handle' = handle /\ call' = call
        /\ kernel' = kernel /\ alive' = alive /\ behind' = behind
        /\ disturbed' = disturbed
    BY <1>8 DEF vars
  <2>2. TypeOK' /\ CallsAreFine'
    BY <2>1 DEF StalenessInv, TypeOK, CallsAreFine, CallControl, CallFresh, Busy
  <2>3. SizesAreNow' /\ EntriesAreFresh' /\ TrustIsFresh'
    BY <2>1 DEF StalenessInv, SizesAreNow, HasSize, EntriesAreFresh, Expired,
       TrustIsFresh, Trusted
  <2> QED
    BY <2>2, <2>3 DEF StalenessInv
<1> QED
  BY <1>1, <1>2, <1>3, <1>4, <1>5, <1>6, <1>7, <1>8 DEF Next

LEMMA InvBoundsStaleness == StalenessInv => StalenessIsBounded
<1> SUFFICES ASSUME StalenessInv, NEW p \in Paths, Trusted(p)
             PROVE  behind[p][kernel[p].size] <= Limit
  BY DEF StalenessIsBounded
<1>1. kernel[p].size \in Answers /\ kernel[p].left \in Nat /\ kernel[p].left > 0
  BY DEF StalenessInv, TypeOK, Trusted
<1>2. behind[p][kernel[p].size] \in Int
  BY <1>1 DEF StalenessInv, TypeOK
<1>3. behind[p][kernel[p].size] + kernel[p].left
          <= Ttl + 2 * MaxCall + AttrTimeout + 1
  BY DEF StalenessInv, TrustIsFresh
<1> QED
  BY <1>1, <1>2, <1>3, StatCacheAssumption DEF Limit

(***************************************************************************)
(* The variables of the cache and its callers keep their types; a put      *)
(* never stores a path the listing did not have.                           *)
(***************************************************************************)
THEOREM CacheTypeCorrect == Spec => []TypeOK
<1>1. StalenessInv => TypeOK
  BY DEF StalenessInv
<1> QED
  BY <1>1, StalenessInit, StalenessStep, PTL DEF Spec

(***************************************************************************)
(* A size the kernel shows without asking is never further behind the file *)
(* than the Ttl of the cache, the timeout of the kernel and two calls,     *)
(* whatever these durations are and however many threads list, write and   *)
(* look up.                                                                *)
(***************************************************************************)
THEOREM StatsAreRecent == Spec => []StalenessIsBounded
BY StalenessInit, StalenessStep, InvBoundsStaleness, PTL DEF Spec

-----------------------------------------------------------------------------
(***************************************************************************)
(* OwnChangesAreSeen needs to know who may work on a path beside whom:     *)
(* open, truncate of a path, unlink, rmdir and rename find no node, there  *)
(* is one flush at a time and one open or truncate of the path, and        *)
(* nothing but a listing runs beside an op of Alone.                       *)
(***************************************************************************)
KeepsSize == {"open", "truncate"}
FindsNone == Alone \cup KeepsSize

FindsNoNode(t) ==
    Busy(t) /\ call[t].op \in FindsNone => handle[call[t].path] = NoEntry

Apart(t, u) ==
    Busy(t) /\ Busy(u) /\ t # u /\ call[t].path = call[u].path =>
        /\ call[t].op = "flush" => call[u].op # "flush"
        /\ call[t].op \in KeepsSize => call[u].op \notin KeepsSize
        /\ call[t].op \in Alone => call[u].op = "readdir"

Exclusion == \A t \in Threads : FindsNoNode(t) /\ \A u \in Threads : Apart(t, u)

(***************************************************************************)
(* As long as nobody has disturbed a path, what is still to be put, what   *)
(* an open has found, what a truncate of the path has uploaded and what a  *)
(* clean node holds are the cloud's.                                       *)
(***************************************************************************)
CallCurrent(t) ==
    /\ call[t].pc = "put" =>
          \A p \in call[t].todo : p \notin disturbed => call[t].listing[p] = cloud[p]
    /\ \/ call[t].pc = "hit" /\ call[t].op = "open"
       \/ call[t].pc = "update" /\ call[t].op = "truncate"
       => call[t].path \in disturbed \/ call[t].size = cloud[call[t].path]

CleanIsCurrent ==
    \A p \in Paths :
        p \notin disturbed /\ handle[p] # NoEntry /\ ~handle[p].dirty =>
            handle[p].size = cloud[p]

OwnInv ==
    /\ StalenessInv
    /\ Exclusion /\ CleanIsCurrent
    /\ \A t \in Threads : CallCurrent(t)
    /\ OwnChangesAreSeen

(***************************************************************************)
(* What the steps of other threads leave of a call; an update changes the  *)
(* size only where nobody opens or truncates the path.                     *)
(***************************************************************************)
Same(u) ==
    \/ call[u] = NoCall /\ call'[u] = NoCall
    \/ /\ call[u] \in Calls /\ call'[u] \in Calls
       /\ call'[u].op = call[u].op /\ call'[u].pc = call[u].pc
       /\ call'[u].path = call[u].path
       /\ call'[u].listing = call[u].listing /\ call'[u].todo = call[u].todo
       /\ call[u].op \in KeepsSize => call'[u].size = call[u].size

LEMMA UntouchedIsSame ==
    ASSUME TypeOK, NEW u \in Threads, call'[u] = call[u]
    PROVE  Same(u)
BY CallFacts DEF Same, Busy

LEMMA FlagsAreSame ==
    ASSUME TypeOK, NEW u \in Threads, NEW p \in Paths,
           \/ Idle(u) /\ call'[u] = call[u]
           \/ ~Idle(u) /\ call'[u] \in {Unlinked(p, u), Erased(p, u)}
    PROVE  Same(u)
<1>1. CASE Idle(u)
  BY <1>1, CallFacts DEF Same
<1>2. CASE ~Idle(u)
  <2>1. call[u] \in Calls
    BY <1>2, CallFacts
  <2> QED
    BY <1>2, <2>1 DEF Same, Unlinked, Erased, Calls
<1> QED
  BY <1>1, <1>2

LEMMA WrittenIsSame ==
    ASSUME TypeOK, NEW u \in Threads, NEW p \in Paths, NEW s \in Sizes,
           call[u].path = p => call[u].op \notin KeepsSize,
           ~Idle(u), call'[u] = Written(p, s, u)
    PROVE  Same(u)
<1>1. call[u] \in Calls
  BY CallFacts
<1> QED
  BY <1>1 DEF Same, Written, Calls, Answers

LEMMA UpdateIsSame ==
    ASSUME TypeOK, NEW p \in Paths, NEW s \in Sizes,
           NEW calls, \A u \in Threads : calls[u] = call[u] \/ calls[u] = NoCall,
           Update(p, s, calls), NEW u \in Threads,
           Busy(u) /\ call[u].path = p => call[u].op \notin KeepsSize
    PROVE  (calls[u] = NoCall /\ call'[u] = NoCall) \/ Same(u)
<1>1. CASE statCache[p] = NoEntry \/ calls[u] = NoCall
  BY <1>1, UntouchedIsSame DEF Update
<1>2. CASE statCache[p] # NoEntry /\ calls[u] # NoCall /\ Idle(u)
  BY <1>2, UntouchedIsSame DEF Update
<1>3. CASE statCache[p] # NoEntry /\ calls[u] # NoCall /\ ~Idle(u)
  <2>1. call'[u] = Written(p, s, u)
    BY <1>3 DEF Update
  <2>2. Busy(u)
    BY <1>3, CallFacts DEF Busy
  <2> QED
    BY <1>3, <2>1, <2>2, WrittenIsSame
<1> QED
  BY <1>1, <1>2, <1>3

(***************************************************************************)
(* The calls after a step of t: the others go on as they were, and t stays *)
(* with its callback and path or is done.                                  *)
(***************************************************************************)
GoesOn(t) ==
    \/ call'[t] = NoCall
    \/ /\ call'[t] \in Calls
       /\ call'[t].op = call[t].op /\ call'[t].path = call[t].path

LEMMA StepIsBusy ==
    ASSUME TypeOK, NEW t \in Threads, Step(t)
    PROVE  call[t] \in Calls /\ Busy(t) /\ call[t].path \in Paths
<1>1. call[t].pc # "idle"
  BY DEF Step, Find, EraseExpired, Ls, Put, EndReaddir, Answer, MakeNode,
     NullEntry, Partly, Again, RequestFails, Changing, Upload, EndFlush, Reupload,
     EndTruncatePath, RemoveFile, Forget, Drop, Move, At
<1>2. call[t] \in Calls /\ Busy(t)
  BY <1>1, CallFacts DEF Idle
<1> QED
  BY <1>2 DEF Calls

(***************************************************************************)
(* Where an entry is updated, nobody else holds a size that matters.       *)
(***************************************************************************)
LEMMA UpdateFindsNone ==
    ASSUME StalenessInv, Exclusion, NEW t \in Threads, Busy(t),
           call[t].op \in {"flush", "truncate"},
           NEW u \in Threads \ {t}, Busy(u), call[u].path = call[t].path
    PROVE  call[u].op \notin KeepsSize
<1>1. Apart(t, u) /\ FindsNoNode(u)
  BY DEF Exclusion
<1>2. CASE call[t].op = "flush"
  BY <1>1, <1>2, FlushHasNode DEF FindsNoNode, FindsNone
<1>3. CASE call[t].op = "truncate"
  BY <1>1, <1>3 DEF Apart, KeepsSize
<1> QED
  BY <1>2, <1>3

LEMMA StepKeeps ==
    ASSUME StalenessInv, Exclusion, NEW t \in Threads, Step(t)
    PROVE  /\ \A u \in Threads \ {t} : Same(u)
           /\ call[t] \in Calls /\ Busy(t) /\ GoesOn(t)
<1> DEFINE p == call[t].path
<1>1. TypeOK /\ StalenessInv'
  BY StalenessStep DEF StalenessInv, Next
<1>3. call[t] \in Calls /\ Busy(t) /\ p \in Paths
  BY <1>1, StepIsBusy
<1>4. ASSUME \A u \in Threads \ {t} : call'[u] = call[u]
      PROVE  \A u \in Threads \ {t} : Same(u)
  BY <1>1, <1>4, UntouchedIsSame
<1>5. call'[t] \in CallType
  BY <1>1 DEF StalenessInv, TypeOK, CallType
<1>6. CASE Find(t) \/ Ls(t)
  <2>1. \A u \in Threads \ {t} : call'[u] = call[u]
    BY <1>1, <1>6 DEF Find, Ls, Goto, TypeOK
  <2>2. call'[t].op = call[t].op /\ call'[t].path = p
    BY <1>1, <1>3, <1>6 DEF Find, Ls, Goto, TypeOK, Calls
  <2> QED
    BY <1>3, <1>4, <1>5, <2>1, <2>2 DEF GoesOn, CallType
<1>7. CASE EndReaddir(t) \/ MakeNode(t) \/ RequestFails(t) \/ Move(t)
  <2>1. call' = [call EXCEPT ![t] = NoCall]
    BY <1>7 DEF EndReaddir, MakeNode, RequestFails, Move
  <2>2. /\ \A u \in Threads \ {t} : call'[u] = call[u]
        /\ call'[t] = NoCall
    BY <1>1, <2>1 DEF TypeOK
  <2> QED
    BY <1>3, <1>4, <2>2 DEF GoesOn
<1>8. CASE NullEntry(t) \/ Partly(t)
  BY <1>3, <1>4, <1>8 DEF NullEntry, Partly, GoesOn
<1>9. CASE \E pc \in {"update", "forget", "drop"} : Goto(t, pc)
  <2>1. /\ \A u \in Threads \ {t} : call'[u] = call[u]
        /\ call'[t].op = call[t].op /\ call'[t].path = p
    BY <1>1, <1>3, <1>9 DEF Goto, TypeOK, Calls
  <2> QED
    BY <1>3, <1>4, <1>5, <2>1 DEF GoesOn, CallType
<1>10. CASE \/ call' = [call EXCEPT ![t] = NoCall]
            \/ \E pc \in {"get", "remove", "drop"} : Continue(t, pc)
  <2>1. \A u \in Threads \ {t} : call'[u] = call[u]
    BY <1>1, <1>10 DEF TypeOK, Continue
  <2>2. call'[t] = NoCall \/ (call'[t].op = call[t].op /\ call'[t].path = p)
    BY <1>1, <1>10 DEF TypeOK, Continue, NewCall
  <2> QED
    BY <1>3, <1>4, <1>5, <2>1, <2>2 DEF GoesOn, CallType
<1>11. CASE Put(t)
  <2>1. PICK q \in call[t].todo :
            call' = [Others(t, LAMBDA u : Unlinked(q, u)) EXCEPT ![t].todo = @ \ {q}]
    BY <1>11 DEF Put
  <2>2. \A u \in Threads \ {t} :
            \/ Idle(u) /\ call'[u] = call[u]
            \/ ~Idle(u) /\ call'[u] \in {Unlinked(q, u), Erased(q, u)}
    BY <2>1 DEF Others
  <2>3. call'[t] = [call[t] EXCEPT !.todo = @ \ {q}]
    BY <2>1 DEF Others
  <2>4. call'[t].op = call[t].op /\ call'[t].path = p /\ q \in Paths
    BY <1>3, <2>3 DEF Calls
  <2>5. \A u \in Threads \ {t} : Same(u)
    BY <1>1, <2>2, <2>4, FlagsAreSame
  <2> QED
    BY <1>3, <1>5, <2>4, <2>5 DEF GoesOn, CallType
<1>12. CASE EraseExpired(t)
  <2>1. CASE call[t].valid
    <3>1. call' = [Others(t, LAMBDA u : Erased(p, u))
                     EXCEPT ![t].pc = "null", ![t].valid = FALSE]
      BY <1>12, <2>1 DEF EraseExpired
    <3>2. \A u \in Threads \ {t} :
              \/ Idle(u) /\ call'[u] = call[u]
              \/ ~Idle(u) /\ call'[u] \in {Unlinked(p, u), Erased(p, u)}
      BY <3>1 DEF Others
    <3>3. call'[t] = [call[t] EXCEPT !.pc = "null", !.valid = FALSE]
      BY <3>1 DEF Others
    <3>4. call'[t].op = call[t].op /\ call'[t].path = p
      BY <1>3, <3>3 DEF Calls
    <3>5. \A u \in Threads \ {t} : Same(u)
      BY <1>1, <1>3, <3>2, FlagsAreSame
    <3> QED
      BY <1>3, <1>5, <3>4, <3>5 DEF GoesOn, CallType
  <2>2. CASE ~call[t].valid
    BY <1>3, <1>4, <1>12, <2>2 DEF EraseExpired, GoesOn
  <2> QED
    BY <2>1, <2>2
<1>13. CASE Forget(t) \/ Drop(t)
  <2>1. \/ call' = [Others(t, LAMBDA u : Erased(p, u)) EXCEPT ![t] = NoCall]
        \/ call' = [Others(t, LAMBDA u : Erased(p, u)) EXCEPT ![t].pc = "move"]
    BY <1>13 DEF Forget, Drop
  <2>2. \A u \in Threads \ {t} :
            \/ Idle(u) /\ call'[u] = call[u]
            \/ ~Idle(u) /\ call'[u] \in {Unlinked(p, u), Erased(p, u)}
    BY <2>1 DEF Others
  <2>3. call'[t] = NoCall \/ call'[t] = [call[t] EXCEPT !.pc = "move"]
    BY <2>1 DEF Others
  <2>4. \A u \in Threads \ {t} : Same(u)
    BY <1>1, <1>3, <2>2, FlagsAreSame
  <2>5. call'[t] = NoCall \/ (call'[t].op = call[t].op /\ call'[t].path = p)
    BY <1>3, <2>3 DEF Calls
  <2> QED
    BY <1>3, <1>5, <2>4, <2>5 DEF GoesOn, CallType
<1>14. CASE EndFlush(t) \/ EndTruncatePath(t)
  <2> DEFINE calls == [call EXCEPT ![t] = NoCall]
  <2>1. call[t].op \in {"flush", "truncate"}
    BY <1>14 DEF EndFlush, EndTruncatePath
  <2>2. PICK s \in Sizes : Update(p, s, calls)
    <3>1. CASE EndFlush(t)
      <4>1. handle[p] # NoEntry
        BY <1>3, <3>1, FlushHasNode DEF EndFlush
      <4>2. handle[p].size \in Sizes
        BY <1>1, <1>3, <4>1 DEF TypeOK, Handles
      <4> QED
        BY <3>1, <4>2 DEF EndFlush
    <3>2. CASE EndTruncatePath(t)
      <4>1. call[t].size \in Sizes
        BY <1>3, <3>2 DEF EndTruncatePath, StalenessInv, CallsAreFine, CallControl
      <4> QED
        BY <3>2, <4>1 DEF EndTruncatePath
    <3> QED
      BY <1>14, <3>1, <3>2
  <2>3. calls[t] = NoCall /\ \A u \in Threads \ {t} : calls[u] = call[u]
    BY <1>1 DEF TypeOK
  <2>4. ASSUME NEW u \in Threads \ {t}, Busy(u), call[u].path = p
        PROVE  call[u].op \notin KeepsSize
    BY <1>3, <2>1, <2>4, UpdateFindsNone
  <2> HIDE DEF calls, p
  <2>5. \A u \in Threads \ {t} :
            (calls[u] = NoCall /\ call'[u] = NoCall) \/ Same(u)
    BY <1>1, <1>3, <2>2, <2>3, <2>4, UpdateIsSame
  <2>6. \A u \in Threads \ {t} : Same(u)
    BY <2>3, <2>5 DEF Same
  <2>7. call'[t] = NoCall
    BY <2>2, <2>3 DEF Update
  <2> QED
    BY <1>3, <2>6, <2>7 DEF GoesOn
<1> QED
  <2>1. Upload(t) \/ RemoveFile(t) \/ Reupload(t) =>
            \E pc \in {"update", "forget", "drop"} : Goto(t, pc)
    BY DEF Upload, RemoveFile, Reupload
  <2>2. Again(t) => \/ \E pc \in {"get", "remove", "drop"} : Continue(t, pc)
                    \/ \E pc \in {"update", "forget", "drop"} : Goto(t, pc)
    BY DEF Again
  <2>3. Answer(t) => \/ call' = [call EXCEPT ![t] = NoCall]
                     \/ \E pc \in {"get", "remove", "drop"} : Continue(t, pc)
    BY DEF Answer
  <2> QED
    BY <1>6, <1>7, <1>8, <1>9, <1>10, <1>11, <1>12, <1>13, <1>14,
       <2>1, <2>2, <2>3 DEF Step

(***************************************************************************)
(* Exclusion only depends on callbacks, paths and nodes.                   *)
(***************************************************************************)
LEMMA ExclusionStays ==
    ASSUME Exclusion,
           \A u \in Threads :
               \/ call'[u] = NoCall
               \/ /\ call[u] # NoCall
                  /\ call'[u].op = call[u].op /\ call'[u].path = call[u].path,
           \A u \in Threads :
               Busy(u) /\ call[u].op \in FindsNone =>
                   handle'[call[u].path] = NoEntry \/ call'[u] = NoCall
    PROVE  Exclusion'
<1>1. ASSUME NEW t \in Threads PROVE FindsNoNode(t)'
  BY DEF FindsNoNode, Busy
<1>2. ASSUME NEW t \in Threads, NEW u \in Threads PROVE Apart(t, u)'
  <2>1. Apart(t, u)
    BY DEF Exclusion
  <2> QED
    BY <2>1 DEF Apart, Busy
<1> QED
  BY <1>1, <1>2 DEF Exclusion

LEMMA ExclusionStep ==
    ASSUME StalenessInv, Exclusion, NEW t \in Threads, Step(t),
           \A u \in Threads :
               Busy(u) /\ call[u].op \in FindsNone =>
                   handle'[call[u].path] = NoEntry \/ call'[u] = NoCall
    PROVE  Exclusion'
<1>1. \A u \in Threads :
          \/ call'[u] = NoCall
          \/ /\ call[u] # NoCall
             /\ call'[u].op = call[u].op /\ call'[u].path = call[u].path
  <2>1. TypeOK
    BY DEF StalenessInv
  <2> TAKE u \in Threads
  <2>2. CASE u = t
    BY <2>2, StepKeeps DEF GoesOn, Busy
  <2>3. CASE u # t
    <3>1. Same(u)
      BY <2>3, StepKeeps
    <3>2. call[u] \in Calls => call[u] # NoCall
      BY <2>1, CallFacts DEF Busy
    <3> QED
      BY <3>1, <3>2 DEF Same
  <2> QED
    BY <2>2, <2>3
<1> QED
  BY <1>1, ExclusionStays

(***************************************************************************)
(* A call that is kept stays current: a change of the cloud disturbs the   *)
(* path while a listing of it is under way, and no change is made to a     *)
(* path that another call opens or truncates here.                         *)
(***************************************************************************)
LEMMA SameIsCurrent ==
    ASSUME OwnInv, NEW u \in Threads, Same(u), disturbed \subseteq disturbed',
           \A p \in Paths :
               \/ cloud'[p] = cloud[p]
               \/ p \in disturbed'
               \/ /\ ~Listing(p) \/ cloud[p] = NoEntry
                  /\ Busy(u) /\ call[u].path = p => call[u].op \notin KeepsSize
    PROVE  CallCurrent(u)'
<1>1. /\ TypeOK /\ CallControl(u) /\ CallCurrent(u)
  BY DEF OwnInv, StalenessInv, CallsAreFine
<1>2. CASE call[u] = NoCall /\ call'[u] = NoCall
  BY <1>2 DEF CallCurrent, NoCall
<1>3. CASE call[u] \in Calls
  <2>1. /\ call'[u].op = call[u].op /\ call'[u].pc = call[u].pc
        /\ call'[u].path = call[u].path
        /\ call'[u].listing = call[u].listing /\ call'[u].todo = call[u].todo
        /\ call[u].op \in KeepsSize => call'[u].size = call[u].size
    BY <1>1, <1>3, CallFacts DEF Same, Busy
  <2>2. Busy(u) /\ call[u].path \in Paths /\ call[u].todo \subseteq Paths
    BY <1>1, <1>3, CallFacts DEF Calls
  <2>3. ASSUME call[u].pc = "put", NEW p \in call[u].todo, p \notin disturbed'
        PROVE  call[u].listing[p] = cloud'[p]
    <3>1. call[u].listing[p] = cloud[p] /\ cloud[p] # NoEntry /\ p \in Paths
      BY <1>1, <2>2, <2>3 DEF CallCurrent, CallControl
    <3>2. Listing(p)
      BY <2>3 DEF Listing
    <3> QED
      BY <2>3, <3>1, <3>2
  <2>4. ASSUME \/ call[u].pc = "hit" /\ call[u].op = "open"
               \/ call[u].pc = "update" /\ call[u].op = "truncate",
               call[u].path \notin disturbed'
        PROVE  call'[u].size = cloud'[call[u].path]
    <3>1. call[u].op \in KeepsSize
      BY <2>4 DEF KeepsSize
    <3>2. call[u].size = cloud[call[u].path]
      BY <1>1, <2>4 DEF CallCurrent
    <3>3. cloud'[call[u].path] = cloud[call[u].path]
      BY <2>2, <2>4, <3>1
    <3> QED
      BY <2>1, <3>1, <3>2, <3>3
  <2> QED
    BY <2>1, <2>3, <2>4 DEF CallCurrent
<1> QED
  BY <1>2, <1>3 DEF Same

(***************************************************************************)
(* A change still to be made or told to the cache stays one until its call *)
(* ends.                                                                   *)
(***************************************************************************)
Settled(p) == \A t \in Threads : call[t].pc \in Changes => call[t].path # p

Pending(u) ==
    call[u].pc \in Changes =>
        call'[u].pc \in Changes /\ call'[u].path = call[u].path

Clean(p) == handle[p] # NoEntry => ~handle[p].dirty

LEMMA SettledBefore ==
    ASSUME \A u \in Threads : Pending(u), NEW p, Settled(p)'
    PROVE  Settled(p)
BY DEF Settled, Pending

LEMMA SameIsPending ==
    ASSUME NEW u \in Threads, Same(u) PROVE Pending(u)
BY DEF Same, Pending, Changes, NoCall

LEMMA SeenBySettled ==
    OwnChangesAreSeen <=>
        \A p \in Paths :
            statCache[p] # NoEntry /\ p \notin disturbed /\ Clean(p) /\ Settled(p)
                => statCache[p].size = cloud[p]
BY DEF OwnChangesAreSeen, Settled, Clean

-----------------------------------------------------------------------------
(* The steps, by what they change. *)

LEMMA StillOwn ==
    ASSUME OwnInv, StalenessInv', UNCHANGED <<cloud, handle, disturbed>>,
           \A p \in Paths :
               \/ statCache'[p] = NoEntry
               \/ /\ statCache[p] # NoEntry
                  /\ statCache'[p].size = statCache[p].size,
           Exclusion',
           \A u \in Threads : Pending(u) /\ CallCurrent(u)'
    PROVE  OwnInv'
<1>1. CleanIsCurrent'
  BY DEF OwnInv, CleanIsCurrent
<1>2. ASSUME NEW p \in Paths, statCache'[p] # NoEntry, p \notin disturbed',
             Clean(p)', Settled(p)'
      PROVE  statCache'[p].size = cloud'[p]
  <2>1. Settled(p) /\ Clean(p)
    BY <1>2, SettledBefore DEF Clean
  <2>2. statCache[p].size = cloud[p]
    BY <1>2, <2>1, SeenBySettled DEF OwnInv
  <2> QED
    BY <1>2, <2>2
<1>3. OwnChangesAreSeen'
  BY <1>2 DEF OwnChangesAreSeen, Settled, Clean
<1> QED
  BY <1>1, <1>3 DEF OwnInv

LEMMA LocalOwn ==
    ASSUME OwnInv, StalenessInv', NEW p \in Paths, disturbed \subseteq disturbed',
           \A q \in Paths : q # p =>
               /\ cloud'[q] = cloud[q] /\ handle'[q] = handle[q]
               /\ statCache'[q] = statCache[q],
           Exclusion',
           \A u \in Threads : CallCurrent(u)',
           \A u \in Threads : Pending(u) \/ call[u].path = p,
           p \notin disturbed' /\ handle'[p] # NoEntry /\ ~handle'[p].dirty =>
               handle'[p].size = cloud'[p],
           statCache'[p] # NoEntry /\ p \notin disturbed' /\ Clean(p)' /\ Settled(p)' =>
               statCache'[p].size = cloud'[p]
    PROVE  OwnInv'
<1>1. CleanIsCurrent'
  BY DEF OwnInv, CleanIsCurrent
<1>2. ASSUME NEW q \in Paths, statCache'[q] # NoEntry, q \notin disturbed',
             Clean(q)', Settled(q)'
      PROVE  statCache'[q].size = cloud'[q]
  <2>1. CASE q = p
    BY <1>2, <2>1
  <2>2. CASE q # p
    <3>1. Settled(q)
      BY <1>2, <2>2 DEF Settled, Pending
    <3>2. Clean(q)
      BY <1>2, <2>2 DEF Clean
    <3>3. statCache[q].size = cloud[q]
      BY <1>2, <2>2, <3>1, <3>2, SeenBySettled DEF OwnInv
    <3> QED
      BY <2>2, <3>3
  <2> QED
    BY <2>1, <2>2
<1>3. OwnChangesAreSeen'
  BY <1>2 DEF OwnChangesAreSeen, Settled, Clean
<1> QED
  BY <1>1, <1>3 DEF OwnInv

LEMMA IdleIsCurrent ==
    ASSUME NEW t \in Threads, call'[t] = NoCall PROVE CallCurrent(t)'
BY DEF CallCurrent, NoCall

(***************************************************************************)
(* A step of t that leaves world, cache and history alone.                 *)
(***************************************************************************)
LEMMA StillCallOwn ==
    ASSUME OwnInv, NEW t \in Threads, Step(t), UNCHANGED <<cloud, handle, disturbed>>,
           \A p \in Paths : statCache'[p] = NoEntry \/ statCache'[p] = statCache[p],
           Pending(t), CallCurrent(t)'
    PROVE  OwnInv'
<1>1. StalenessInv /\ StalenessInv' /\ Exclusion
  BY StalenessStep DEF OwnInv, Next
<1>2. Exclusion'
  BY <1>1, ExclusionStep DEF Exclusion, FindsNoNode
<1>3. \A u \in Threads \ {t} : Same(u)
  BY <1>1, StepKeeps
<1>4. ASSUME NEW u \in Threads PROVE Pending(u) /\ CallCurrent(u)'
  <2>1. CASE u = t
    BY <2>1
  <2>2. CASE u # t
    <3>1. Same(u)
      BY <1>3, <2>2
    <3> QED
      BY <3>1, SameIsPending, SameIsCurrent
  <2> QED
    BY <2>1, <2>2
<1>5. \A p \in Paths :
          \/ statCache'[p] = NoEntry
          \/ /\ statCache[p] # NoEntry
             /\ statCache'[p].size = statCache[p].size
  OBVIOUS
<1> QED
  BY <1>1, <1>2, <1>4, <1>5, StillOwn

LEMMA FindOwn ==
    ASSUME OwnInv, NEW t \in Threads, Find(t) PROVE OwnInv'
<1> DEFINE p == call[t].path
           e == statCache[p]
<1>1. StalenessInv /\ TypeOK /\ Step(t) /\ call[t].pc = "get"
  BY DEF OwnInv, StalenessInv, Step, Find, At
<1>2. call[t] \in Calls /\ Busy(t) /\ p \in Paths
  BY <1>1, StepIsBusy
<1>3. /\ UNCHANGED <<cloud, handle, disturbed>>
      /\ \A q \in Paths : statCache'[q] = statCache[q]
  BY DEF Find, cacheVars, worldVars
<1>4. /\ call'[t].op = call[t].op /\ call'[t].path = p
      /\ \/ call'[t].pc \in {"null", "erase"}
         \/ e # NoEntry /\ call'[t].pc = "hit" /\ call'[t].size = e.size
  BY <1>1, <1>2 DEF Find, Goto, TypeOK, Calls
<1>5. ASSUME call[t].op = "open", p \notin disturbed, e # NoEntry
      PROVE  e.size = cloud[p]
  <2>1. handle[p] = NoEntry
    BY <1>2, <1>5 DEF OwnInv, Exclusion, FindsNoNode, FindsNone, KeepsSize
  <2>2. Settled(p)
    <3> SUFFICES ASSUME NEW u \in Threads, call[u].pc \in Changes, call[u].path = p
                 PROVE  FALSE
      BY DEF Settled
    <3>1. Busy(u) /\ CallControl(u) /\ u # t
      BY <1>1, CallFacts DEF Idle, StalenessInv, CallsAreFine, Changes
    <3>2. call[u].op \in Alone \cup {"flush", "truncate"}
      BY <3>1 DEF CallControl, Changes, Alone
    <3>3. CASE call[u].op = "flush"
      BY <1>1, <2>1, <3>1, <3>3, FlushHasNode
    <3>4. CASE call[u].op # "flush"
      <4>1. Apart(t, u) /\ Apart(u, t)
        BY DEF OwnInv, Exclusion
      <4> QED
        BY <1>2, <1>5, <3>1, <3>2, <3>4, <4>1 DEF Apart, KeepsSize
    <3> QED
      BY <3>3, <3>4
  <2> QED
    BY <1>2, <1>5, <2>1, <2>2, SeenBySettled DEF OwnInv, Clean
<1>6. CallCurrent(t)'
  BY <1>3, <1>4, <1>5 DEF CallCurrent
<1>7. Pending(t)
  BY <1>1 DEF Pending, Changes
<1> QED
  BY <1>1, <1>3, <1>6, <1>7, StillCallOwn

LEMMA QuietOwn ==
    ASSUME OwnInv, NEW t \in Threads,
           \/ EraseExpired(t) \/ Ls(t) \/ EndReaddir(t) \/ Answer(t)
           \/ NullEntry(t) \/ Again(t)
    PROVE  OwnInv'
<1>1. StalenessInv /\ TypeOK /\ Step(t) /\ StalenessInv'
  BY StalenessStep DEF OwnInv, StalenessInv, Step, Next
<1>2. call[t] \in Calls /\ Busy(t) /\ call[t].path \in Paths
  BY <1>1, StepIsBusy
<1>3. /\ UNCHANGED <<cloud, handle, disturbed>>
      /\ \A q \in Paths : statCache'[q] = NoEntry \/ statCache'[q] = statCache[q]
  BY <1>1, <1>2 DEF EraseExpired, Ls, EndReaddir, Answer, NullEntry, Again,
     cacheVars, worldVars, TypeOK
<1>4. CASE EraseExpired(t) \/ NullEntry(t)
  <2>1. call'[t].pc \in {"null", "erase"} /\ call[t].pc \in {"null", "erase"}
    BY <1>1, <1>2, <1>4 DEF EraseExpired, NullEntry, Others, At, TypeOK, Calls
  <2> QED
    BY <1>1, <1>3, <2>1, StillCallOwn DEF CallCurrent, Pending, Changes
<1>5. CASE Ls(t)
  <2>1. /\ call'[t].pc = "put" /\ call'[t].listing = cloud
        /\ call[t].pc \in {"ls", "null"}
    BY <1>1, <1>2, <1>5 DEF Ls, TypeOK, Calls, At
  <2>2. CallCurrent(t)' /\ Pending(t)
    BY <1>3, <2>1 DEF CallCurrent, Pending, Changes
  <2> QED
    BY <1>1, <1>3, <2>2, StillCallOwn
<1>6. CASE EndReaddir(t) \/ Answer(t)
  <2>1. call[t].pc \in {"hit", "put"}
    BY <1>6 DEF EndReaddir, Answer, At
  <2>2. call'[t] = NoCall \/ call'[t].pc \in {"remove", "drop"}
    BY <1>1, <1>6 DEF EndReaddir, Answer, Continue, NewCall, TypeOK
  <2>3. CallCurrent(t)' /\ Pending(t)
    BY <2>1, <2>2, IdleIsCurrent DEF CallCurrent, Pending, Changes
  <2> QED
    BY <1>1, <1>3, <2>3, StillCallOwn
<1>7. CASE Again(t)
  <2>1. \/ call[t].pc = "hit" /\ call'[t].pc = "get"
        \/ call[t].pc = "null" /\ call'[t].pc = "drop"
        \/ /\ call[t].pc = "move" /\ call'[t].pc = "drop"
           /\ call'[t].path = call[t].path
    BY <1>1, <1>2, <1>7 DEF Again, At, Goto, Continue, NewCall, TypeOK, Calls
  <2>2. CallCurrent(t)' /\ Pending(t)
    BY <2>1 DEF CallCurrent, Pending, Changes
  <2> QED
    BY <1>1, <1>3, <2>2, StillCallOwn
<1> QED
  BY <1>4, <1>5, <1>6, <1>7

LEMMA BeginOwn ==
    ASSUME OwnInv, StalenessInv', NEW t \in Threads, NEW p \in Paths, NEW op \in Ops,
           NEW pc \in {"get", "ls", "upload", "reupload", "remove"},
           NEW s \in Answers, Begin(t, op, pc, p, s),
           op \in FindsNone => handle[p] = NoEntry,
           op = "flush" => ~InCall({"flush"}, p),
           op \in KeepsSize => ~InCall(KeepsSize, p),
           op \in Alone => ~InCall(Ops \ {"readdir"}, p)
    PROVE  OwnInv'
<1>1. /\ TypeOK /\ Exclusion /\ UNCHANGED <<cloud, handle, disturbed>>
      /\ statCache' = statCache /\ call[t] = NoCall
  BY CallFacts DEF OwnInv, StalenessInv, Begin, cacheVars, worldVars
<1>2. call' = [call EXCEPT ![t] = NewCall(op, pc, p, s)]
  BY DEF Begin
<1>3. /\ call'[t].op = op /\ call'[t].pc = pc /\ call'[t].path = p
      /\ \A u \in Threads \ {t} : call'[u] = call[u]
  BY <1>1, <1>2 DEF TypeOK, NewCall
<1>4. ASSUME NEW u \in Threads, Busy(u), call[u].path = p
      PROVE  /\ call[u].op \in Ops
             /\ op = "readdir" \/ call[u].op \notin Alone
             /\ op = "flush" => call[u].op # "flush"
             /\ op \in KeepsSize => call[u].op \notin KeepsSize
             /\ op \in Alone => call[u].op = "readdir"
  <2>1. ~Idle(u) /\ call[u] \in Calls
    BY <1>1, <1>4, CallFacts DEF Busy
  <2>2. call[u].op \in Ops
    BY <2>1 DEF Calls
  <2>3. op = "readdir" \/ call[u].op \notin Alone
    BY <1>4, <2>1 DEF Begin, InCall
  <2>4. /\ op = "flush" => call[u].op # "flush"
        /\ op \in KeepsSize => call[u].op \notin KeepsSize
    BY <1>4, <2>1 DEF InCall
  <2>5. op \in Alone => call[u].op = "readdir"
    BY <1>4, <2>1, <2>2 DEF InCall
  <2> QED
    BY <2>2, <2>3, <2>4, <2>5
<1>5. Exclusion'
  <2>1. ASSUME NEW v \in Threads PROVE FindsNoNode(v)'
    <3>1. CASE v = t
      BY <1>1, <1>3, <3>1 DEF FindsNoNode
    <3>2. CASE v # t
      BY <1>1, <1>3, <3>2 DEF FindsNoNode, Exclusion, Busy
    <3> QED
      BY <3>1, <3>2
  <2>2. ASSUME NEW v \in Threads, NEW u \in Threads PROVE Apart(v, u)'
    <3>1. CASE v # t /\ u # t
      <4>1. Apart(v, u)
        BY <1>1 DEF Exclusion
      <4> QED
        BY <1>3, <3>1, <4>1 DEF Apart, Busy
    <3>2. CASE v = t /\ u # t
      <4>1. call'[v].op = op /\ call'[v].path = p /\ call'[u] = call[u]
        BY <1>3, <3>2
      <4> QED
        BY <1>4, <4>1 DEF Apart, Busy
    <3>3. CASE v # t /\ u = t
      <4>1. call'[u].op = op /\ call'[u].path = p /\ call'[v] = call[v]
        BY <1>3, <3>3
      <4> QED
        BY <1>4, <4>1 DEF Apart, Busy
    <3>4. CASE v = u
      BY <3>4 DEF Apart
    <3> QED
      BY <3>1, <3>2, <3>3, <3>4
  <2> QED
    BY <2>1, <2>2 DEF Exclusion
<1>6. ASSUME NEW u \in Threads PROVE Pending(u) /\ CallCurrent(u)'
  <2>1. CASE u = t
    <3>1. call[u].pc = "idle" /\ call'[u].pc \notin {"put", "hit", "update"}
      BY <1>1, <1>3, <2>1 DEF NoCall
    <3> QED
      BY <3>1 DEF Pending, Changes, CallCurrent
  <2>2. CASE u # t
    <3>1. Same(u)
      BY <1>1, <1>3, <2>2, UntouchedIsSame
    <3> QED
      BY <1>1, <3>1, SameIsPending, SameIsCurrent
  <2> QED
    BY <2>1, <2>2
<1>7. \A q \in Paths :
          \/ statCache'[q] = NoEntry
          \/ statCache[q] # NoEntry /\ statCache'[q].size = statCache[q].size
  BY <1>1
<1> QED
  BY <1>1, <1>5, <1>6, <1>7, StillOwn

LEMMA TickOwn ==
    ASSUME OwnInv, StalenessInv', Tick PROVE OwnInv'
<1>1. TypeOK /\ Exclusion /\ UNCHANGED <<cloud, handle, disturbed>>
  BY DEF OwnInv, StalenessInv, Tick
<1>2. ASSUME NEW u \in Threads PROVE Same(u)
  <2>1. CASE Idle(u)
    BY <1>1, <2>1, CallFacts DEF Same, Tick
  <2>2. CASE ~Idle(u)
    <3>1. call[u] \in Calls /\ call'[u] = [call[u] EXCEPT !.age = @ + 1]
      BY <1>1, <2>2, CallFacts DEF Tick
    <3>2. call'[u] \in Calls
      <4>1. call'[u].pc # "idle"
        BY <3>1 DEF Calls, Steps
      <4>2. call'[u] \in CallType
        BY DEF StalenessInv, TypeOK, CallType
      <4> QED
        BY <4>1, <4>2 DEF CallType, NoCall
    <3> QED
      BY <3>1, <3>2 DEF Same, Calls
  <2> QED
    BY <2>1, <2>2
<1>3. Exclusion'
  <2>1. \A u \in Threads : call[u] \in Calls => call[u] # NoCall
    BY <1>1, CallFacts DEF Busy
  <2>2. \A u \in Threads :
            \/ call'[u] = NoCall
            \/ /\ call[u] # NoCall
               /\ call'[u].op = call[u].op /\ call'[u].path = call[u].path
    BY <1>2, <2>1 DEF Same
  <2>3. \A u \in Threads :
            Busy(u) /\ call[u].op \in FindsNone => handle'[call[u].path] = NoEntry
    BY <1>1 DEF Exclusion, FindsNoNode
  <2> QED
    BY <1>1, <2>2, <2>3, ExclusionStays
<1>4. \A u \in Threads : Pending(u) /\ CallCurrent(u)'
  BY <1>1, <1>2, SameIsPending, SameIsCurrent
<1>5. ASSUME NEW p \in Paths
      PROVE  \/ statCache'[p] = NoEntry
             \/ /\ statCache[p] # NoEntry
                /\ statCache'[p].size = statCache[p].size
  <2>1. CASE statCache[p] = NoEntry
    BY <2>1 DEF Tick
  <2>2. CASE statCache[p] # NoEntry
    <3>1. /\ statCache[p] \in Entries
          /\ statCache'[p] = [statCache[p] EXCEPT !.age = Older(@, Ttl + 1)]
      BY <1>1, <2>2 DEF TypeOK, Tick
    <3> QED
      BY <2>2, <3>1 DEF Entries
  <2> QED
    BY <2>1, <2>2
<1> QED
  BY <1>1, <1>3, <1>4, <1>5, StillOwn

(***************************************************************************)
(* The steps of t that work on one path.                                   *)
(***************************************************************************)
LEMMA PutOwn ==
    ASSUME OwnInv, NEW t \in Threads, Put(t) PROVE OwnInv'
<1>1. StalenessInv /\ StalenessInv' /\ Exclusion /\ Step(t) /\ TypeOK
  BY StalenessStep DEF OwnInv, StalenessInv, Step, Next
<1>2. /\ call[t] \in Calls /\ CallCurrent(t) /\ call[t].pc = "put"
      /\ \A u \in Threads \ {t} : Same(u)
  BY <1>1, StepKeeps DEF OwnInv, Put, At
<1>3. PICK p \in call[t].todo :
          /\ statCache' = [statCache EXCEPT
                 ![p] = [size |-> call[t].listing[p], age |-> 0]]
          /\ call' = [Others(t, LAMBDA u : Unlinked(p, u))
                         EXCEPT ![t].todo = @ \ {p}]
  BY DEF Put
<1>4. /\ p \in Paths /\ UNCHANGED <<cloud, handle, disturbed>>
      /\ statCache'[p] = [size |-> call[t].listing[p], age |-> 0]
      /\ \A q \in Paths : q # p => statCache'[q] = statCache[q]
  BY <1>1, <1>2, <1>3 DEF Calls, Put, worldVars, TypeOK
<1>5. call'[t] = [call[t] EXCEPT !.todo = @ \ {p}]
  BY <1>3 DEF Others
<1>6. /\ call'[t].pc = "put" /\ call'[t].listing = call[t].listing
      /\ call'[t].todo = call[t].todo \ {p} /\ call'[t].path = call[t].path
  BY <1>2, <1>5 DEF Calls
<1>7. Exclusion'
  BY <1>1, <1>4, ExclusionStep DEF Exclusion, FindsNoNode
<1>8. ASSUME NEW u \in Threads PROVE Pending(u) /\ CallCurrent(u)'
  <2>1. CASE u = t
    BY <1>2, <1>4, <1>6, <2>1 DEF Pending, Changes, CallCurrent
  <2>2. CASE u # t
    BY <1>2, <1>4, <2>2, SameIsPending, SameIsCurrent
  <2> QED
    BY <2>1, <2>2
<1>9. p \notin disturbed' => statCache'[p].size = cloud'[p]
  BY <1>2, <1>4 DEF CallCurrent
<1>10. p \notin disturbed' /\ handle'[p] # NoEntry /\ ~handle'[p].dirty =>
           handle'[p].size = cloud'[p]
  BY <1>4 DEF OwnInv, CleanIsCurrent
<1> QED
  BY <1>1, <1>4, <1>7, <1>8, <1>9, <1>10, LocalOwn

(***************************************************************************)
(* What the calls of others are after a step of t on its path.             *)
(***************************************************************************)
Changers == Alone \cup {"flush", "truncate"}

LEMMA StepOnPath ==
    ASSUME OwnInv, NEW t \in Threads, Step(t), disturbed \subseteq disturbed',
           \A p \in Paths : p # call[t].path =>
               cloud'[p] = cloud[p] /\ handle'[p] = handle[p],
           \/ cloud'[call[t].path] = cloud[call[t].path]
           \/ call[t].path \in disturbed'
           \/ ~Listing(call[t].path) /\ call[t].op \in Changers,
           handle'[call[t].path] = NoEntry \/ call[t].op = "flush"
               \/ (call[t].op = "open" /\ call'[t] = NoCall),
           CallCurrent(t)'
    PROVE  /\ StalenessInv' /\ Exclusion' /\ call[t].path \in Paths
           /\ \A u \in Threads : CallCurrent(u)'
           /\ \A u \in Threads : Pending(u) \/ call[u].path = call[t].path
           /\ \A u \in Threads \ {t} : Pending(u)
<1> DEFINE p == call[t].path
<1>1. StalenessInv /\ StalenessInv' /\ Exclusion /\ TypeOK
  BY StalenessStep DEF OwnInv, StalenessInv, Next
<1>2. /\ call[t] \in Calls /\ Busy(t) /\ \A u \in Threads \ {t} : Same(u)
  BY <1>1, StepKeeps
<1>3. p \in Paths
  BY <1>2 DEF Calls
<1>4. ASSUME NEW u \in Threads, u # t, Busy(u), call[u].path = p
      PROVE  /\ call[t].op \in Changers => call[u].op \notin KeepsSize
             /\ call[t].op \in {"flush", "open"} => call[u].op \notin FindsNone
  <2>1. Apart(t, u) /\ Apart(u, t) /\ FindsNoNode(u)
    BY <1>1 DEF Exclusion
  <2>2. call[t].op = "flush" => handle[p] # NoEntry
    BY <1>1, <1>2, FlushHasNode
  <2>3. CASE call[t].op = "flush"
    BY <1>4, <2>1, <2>2, <2>3 DEF FindsNoNode, FindsNone
  <2>4. CASE call[t].op # "flush"
    BY <1>2, <1>4, <2>1, <2>4 DEF Apart, Changers, KeepsSize, FindsNone, Alone
  <2> QED
    BY <2>3, <2>4
<1>5. Exclusion'
  <2>1. ASSUME NEW u \in Threads, Busy(u), call[u].op \in FindsNone
        PROVE  handle'[call[u].path] = NoEntry \/ call'[u] = NoCall
    <3>1. handle[call[u].path] = NoEntry
      BY <1>1, <2>1 DEF Exclusion, FindsNoNode
    <3>2. CASE call[u].path # p
      <4>1. call[u].path \in Paths
        BY <1>1, <2>1, CallFacts DEF Calls
      <4> QED
        BY <3>1, <3>2, <4>1
    <3>3. CASE call[u].path = p /\ u # t
      BY <1>4, <2>1, <3>3
    <3>4. CASE u = t
      BY <2>1, <3>4 DEF FindsNone, Alone, KeepsSize
    <3> QED
      BY <3>2, <3>3, <3>4
  <2> QED
    BY <1>1, <2>1, ExclusionStep
<1>6. ASSUME NEW u \in Threads, u # t PROVE CallCurrent(u)' /\ Pending(u)
  <2>1. Same(u)
    BY <1>2, <1>6
  <2>2. \A q \in Paths :
            \/ cloud'[q] = cloud[q]
            \/ q \in disturbed'
            \/ /\ ~Listing(q) \/ cloud[q] = NoEntry
               /\ Busy(u) /\ call[u].path = q => call[u].op \notin KeepsSize
    BY <1>4, <1>6
  <2> QED
    BY <2>1, <2>2, SameIsCurrent, SameIsPending
<1> QED
  BY <1>1, <1>3, <1>5, <1>6

(***************************************************************************)
(* What t does to its file while the change is still pending, and the      *)
(* steps that end a change.                                                *)
(***************************************************************************)
LEMMA ChangeOwn ==
    ASSUME OwnInv, NEW t \in Threads, Step(t), disturbed \subseteq disturbed',
           NEW p \in Paths, p = call[t].path, call[t].op \in Changers,
           \A q \in Paths : q # p =>
               /\ cloud'[q] = cloud[q] /\ handle'[q] = handle[q]
               /\ statCache'[q] = statCache[q],
           cloud'[p] = cloud[p] \/ p \in disturbed' \/ ~Listing(p),
           handle'[p] = NoEntry \/ call[t].op = "flush",
           handle'[p] # NoEntry /\ ~handle'[p].dirty =>
               p \in disturbed' \/ handle'[p].size = cloud'[p],
           \/ p \in disturbed' \/ statCache'[p] = NoEntry
           \/ (handle'[p] # NoEntry => ~handle'[p].dirty) =>
                  statCache'[p].size = cloud'[p]
           \/ call'[t].pc \in Changes /\ call'[t].path = p,
           CallCurrent(t)'
    PROVE  OwnInv'
<1>1. /\ StalenessInv' /\ Exclusion'
      /\ \A u \in Threads : CallCurrent(u)'
      /\ \A u \in Threads : Pending(u) \/ call[u].path = p
  BY StepOnPath
<1>2. ASSUME statCache'[p] # NoEntry, p \notin disturbed', Clean(p)', Settled(p)'
      PROVE  statCache'[p].size = cloud'[p]
  <2>1. ~(call'[t].pc \in Changes /\ call'[t].path = p)
    BY <1>2 DEF Settled
  <2> QED
    BY <1>2, <2>1 DEF Clean
<1>3. p \notin disturbed' /\ handle'[p] # NoEntry /\ ~handle'[p].dirty =>
          handle'[p].size = cloud'[p]
  OBVIOUS
<1> QED
  BY <1>1, <1>2, <1>3, LocalOwn

LEMMA ChangerFacts ==
    ASSUME OwnInv, NEW t \in Threads, Step(t), call[t].op \in Changers
    PROVE  /\ StalenessInv /\ TypeOK /\ call[t] \in Calls /\ call[t].path \in Paths
           /\ call[t].op # "flush" => handle[call[t].path] = NoEntry
           /\ call[t].op = "flush" => handle[call[t].path] # NoEntry
<1>1. StalenessInv /\ TypeOK /\ FindsNoNode(t)
  BY DEF OwnInv, StalenessInv, Exclusion
<1>2. call[t] \in Calls /\ Busy(t) /\ call[t].path \in Paths
  BY <1>1, StepIsBusy
<1>3. call[t].op # "flush" => call[t].op \in FindsNone
  BY DEF Changers, FindsNone, KeepsSize
<1> QED
  BY <1>1, <1>2, <1>3, FlushHasNode DEF FindsNoNode

LEMMA PartlyOwn ==
    ASSUME OwnInv, NEW t \in Threads, Partly(t) PROVE OwnInv'
<1> DEFINE p == call[t].path
<1>1. /\ Step(t) /\ statCache' = statCache /\ call' = call
      /\ disturbed' = Overtaken(p)
      /\ \E s \in Answers : World([cloud EXCEPT ![p] = s], handle)
      /\ \/ call[t].pc \in {"remove", "move", "reupload"}
         \/ call[t].pc = "upload" /\ handle[p].dirty
  BY DEF Step, Partly, Changing, At
<1>2. call[t].op \in Changers /\ (call[t].pc = "upload" => call[t].op = "flush")
  BY <1>1 DEF OwnInv, StalenessInv, CallsAreFine, CallControl, Changers, Alone
<1>3. /\ TypeOK /\ handle' = handle /\ p \in Paths
      /\ call[t].op # "flush" => handle[p] = NoEntry
      /\ \A q \in Paths : q # p => cloud'[q] = cloud[q]
  BY <1>1, <1>2, ChangerFacts DEF World, TypeOK
<1>4. call[t].op = "flush" => handle[p].dirty
  BY <1>1 DEF OwnInv, StalenessInv, CallsAreFine, CallControl
<1>5. disturbed \subseteq disturbed' /\ (p \in disturbed' \/ ~Listing(p))
  BY <1>1 DEF Overtaken
<1>6. call'[t].pc \in Changes /\ call'[t].path = p /\ CallCurrent(t)'
  BY <1>1 DEF Changes, CallCurrent
<1> QED
  BY <1>1, <1>2, <1>3, <1>4, <1>5, <1>6, ChangeOwn

LEMMA UploadOwn ==
    ASSUME OwnInv, NEW t \in Threads, Upload(t) PROVE OwnInv'
<1> DEFINE p == call[t].path
<1>1. Step(t) /\ call[t].op = "flush" /\ call[t].op \in Changers
  BY DEF OwnInv, StalenessInv, CallsAreFine, CallControl, Step, Upload, At, Changers
<1>2. /\ TypeOK /\ p \in Paths /\ handle[p] # NoEntry /\ call[t] \in Calls
  BY <1>1, ChangerFacts
<1>3. statCache' = statCache /\ call' = [call EXCEPT ![t].pc = "update"]
  BY DEF Upload, Goto
<1>4. /\ call'[t].pc = "update" /\ call'[t].path = p /\ call'[t].op = "flush"
  BY <1>1, <1>2, <1>3 DEF TypeOK, Calls
<1>5. call'[t].pc \in Changes /\ CallCurrent(t)'
  BY <1>4 DEF Changes, CallCurrent
<1>6. CASE ~handle[p].dirty
  <2>1. UNCHANGED <<cloud, handle, disturbed>>
    BY <1>6 DEF Upload, worldVars
  <2>2. Pending(t)
    BY <1>4, <1>5 DEF Pending
  <2> QED
    BY <1>1, <1>3, <1>5, <2>1, <2>2, StillCallOwn
<1>7. CASE handle[p].dirty
  <2>1. /\ cloud' = [cloud EXCEPT ![p] = handle[p].size]
        /\ handle' = [handle EXCEPT ![p].dirty = FALSE]
        /\ disturbed' = Overtaken(p)
    BY <1>7 DEF Upload, World
  <2>2. handle[p] \in Handles
    BY <1>2 DEF TypeOK
  <2>3. /\ cloud'[p] = handle[p].size /\ handle'[p].size = handle[p].size
        /\ \A q \in Paths : q # p => cloud'[q] = cloud[q] /\ handle'[q] = handle[q]
    BY <1>2, <2>1, <2>2 DEF TypeOK, Handles
  <2>4. disturbed \subseteq disturbed' /\ (p \in disturbed' \/ ~Listing(p))
    BY <2>1 DEF Overtaken
  <2> QED
    BY <1>1, <1>2, <1>3, <1>4, <1>5, <2>3, <2>4, ChangeOwn
<1> QED
  BY <1>6, <1>7

LEMMA ReuploadOwn ==
    ASSUME OwnInv, NEW t \in Threads, Reupload(t) PROVE OwnInv'
<1> DEFINE p == call[t].path
<1>1. Step(t) /\ call[t].op = "truncate" /\ call[t].op \in Changers
  BY DEF OwnInv, StalenessInv, CallsAreFine, CallControl, Step, Reupload, At, Changers
<1>2. /\ TypeOK /\ p \in Paths /\ handle[p] = NoEntry /\ call[t] \in Calls
  BY <1>1, ChangerFacts
<1>3. /\ statCache' = statCache /\ call' = [call EXCEPT ![t].pc = "update"]
      /\ cloud' = [cloud EXCEPT ![p] = call[t].size] /\ handle' = handle
      /\ disturbed' = Overtaken(p)
  BY DEF Reupload, World, Goto
<1>4. /\ call'[t].pc = "update" /\ call'[t].path = p /\ call'[t].op = "truncate"
      /\ call'[t].size = call[t].size /\ cloud'[p] = call[t].size
      /\ \A q \in Paths : q # p => cloud'[q] = cloud[q]
  BY <1>1, <1>2, <1>3 DEF TypeOK, Calls
<1>5. call'[t].pc \in Changes /\ CallCurrent(t)'
  BY <1>4 DEF Changes, CallCurrent
<1>6. disturbed \subseteq disturbed' /\ (p \in disturbed' \/ ~Listing(p))
  BY <1>3 DEF Overtaken
<1> QED
  BY <1>1, <1>2, <1>3, <1>4, <1>5, <1>6, ChangeOwn

(***************************************************************************)
(* An update gives the entry the size of a clean node, or the size a       *)
(* truncate of the path has uploaded.                                      *)
(***************************************************************************)
LEMMA UpdateSets ==
    ASSUME TypeOK, NEW p \in Paths, NEW s, NEW calls, Update(p, s, calls)
    PROVE  /\ \A q \in Paths : q # p => statCache'[q] = statCache[q]
           /\ statCache'[p] = NoEntry \/ statCache'[p].size = s
<1>1. CASE statCache[p] = NoEntry
  BY <1>1 DEF Update
<1>2. CASE statCache[p] # NoEntry
  <2>1. /\ statCache' = [statCache EXCEPT ![p].size = s]
        /\ statCache[p] \in Entries
    BY <1>2 DEF Update, TypeOK
  <2> QED
    BY <2>1 DEF TypeOK, Entries
<1> QED
  BY <1>1, <1>2

LEMMA EndFlushOwn ==
    ASSUME OwnInv, NEW t \in Threads, EndFlush(t) PROVE OwnInv'
<1> DEFINE p == call[t].path
<1>1. Step(t) /\ call[t].op = "flush" /\ call[t].op \in Changers
  BY DEF Step, EndFlush, Changers
<1>2. TypeOK /\ p \in Paths /\ handle[p] # NoEntry
  BY <1>1, ChangerFacts
<1>3. /\ UNCHANGED <<cloud, handle, disturbed>>
      /\ Update(p, handle[p].size, [call EXCEPT ![t] = NoCall])
  BY DEF EndFlush, worldVars
<1>4. /\ \A q \in Paths : q # p => statCache'[q] = statCache[q]
      /\ statCache'[p] = NoEntry \/ statCache'[p].size = handle[p].size
  BY <1>2, <1>3, UpdateSets
<1>5. CallCurrent(t)'
  <2>1. call'[t] = NoCall
    BY <1>2, <1>3 DEF Update, TypeOK
  <2> QED
    BY <2>1, IdleIsCurrent
<1>6. handle[p] # NoEntry /\ ~handle[p].dirty =>
          p \in disturbed \/ handle[p].size = cloud[p]
  BY <1>2 DEF OwnInv, CleanIsCurrent
<1>7. \/ p \in disturbed' \/ statCache'[p] = NoEntry
      \/ (handle'[p] # NoEntry => ~handle'[p].dirty) =>
             statCache'[p].size = cloud'[p]
  BY <1>2, <1>3, <1>4, <1>6
<1> QED
  BY <1>1, <1>2, <1>3, <1>4, <1>5, <1>6, <1>7, ChangeOwn

LEMMA EndTruncatePathOwn ==
    ASSUME OwnInv, NEW t \in Threads, EndTruncatePath(t) PROVE OwnInv'
<1> DEFINE p == call[t].path
<1>1. /\ Step(t) /\ call[t].op = "truncate" /\ call[t].pc = "update"
      /\ call[t].op \in Changers
  BY DEF Step, EndTruncatePath, At, Changers
<1>2. TypeOK /\ p \in Paths /\ handle[p] = NoEntry
  BY <1>1, ChangerFacts
<1>3. /\ UNCHANGED <<cloud, handle, disturbed>>
      /\ Update(p, call[t].size, [call EXCEPT ![t] = NoCall])
  BY DEF EndTruncatePath, worldVars
<1>4. /\ \A q \in Paths : q # p => statCache'[q] = statCache[q]
      /\ statCache'[p] = NoEntry \/ statCache'[p].size = call[t].size
  BY <1>2, <1>3, UpdateSets
<1>5. CallCurrent(t)'
  <2>1. call'[t] = NoCall
    BY <1>2, <1>3 DEF Update, TypeOK
  <2> QED
    BY <2>1, IdleIsCurrent
<1>6. p \in disturbed \/ call[t].size = cloud[p]
  BY <1>1 DEF OwnInv, CallCurrent
<1>7. p \in disturbed' \/ statCache'[p] = NoEntry \/ statCache'[p].size = cloud'[p]
  BY <1>3, <1>4, <1>6
<1> QED
  BY <1>1, <1>2, <1>3, <1>4, <1>5, <1>7, ChangeOwn

LEMMA RemoveFileOwn ==
    ASSUME OwnInv, NEW t \in Threads, RemoveFile(t) PROVE OwnInv'
<1> DEFINE p == call[t].path
<1>1. Step(t) /\ call[t].op \in Changers /\ call[t].op # "flush"
  BY DEF OwnInv, StalenessInv, CallsAreFine, CallControl, Step, RemoveFile, At,
     Changers, Alone
<1>2. /\ TypeOK /\ p \in Paths /\ handle[p] = NoEntry /\ call[t] \in Calls
  BY <1>1, ChangerFacts
<1>3. /\ cloud' = [cloud EXCEPT ![p] = NoEntry] /\ handle' = handle
      /\ disturbed' = Overtaken(p) /\ statCache' = statCache
      /\ call' = [call EXCEPT ![t].pc = "forget"]
  BY DEF RemoveFile, World, Goto
<1>4. call'[t].pc = "forget" /\ call'[t].path = p
  BY <1>2, <1>3 DEF TypeOK, Calls
<1>5. call'[t].pc \in Changes /\ CallCurrent(t)'
  BY <1>4 DEF Changes, CallCurrent
<1>6. disturbed \subseteq disturbed' /\ (p \in disturbed' \/ ~Listing(p))
  BY <1>3 DEF Overtaken
<1>7. \A q \in Paths : q # p => cloud'[q] = cloud[q]
  BY <1>2, <1>3 DEF TypeOK
<1> QED
  BY <1>1, <1>2, <1>3, <1>4, <1>5, <1>6, <1>7, ChangeOwn

(***************************************************************************)
(* The entry leaves the map, before or after the requests.                 *)
(***************************************************************************)
LEMMA EntryGoneOwn ==
    ASSUME OwnInv, NEW t \in Threads, Forget(t) \/ Drop(t) PROVE OwnInv'
<1> DEFINE p == call[t].path
<1>1. Step(t) /\ call[t].op \in Changers /\ call[t].op # "flush"
  BY DEF OwnInv, StalenessInv, CallsAreFine, CallControl, Step, Forget, Drop, At,
     Changers, Alone
<1>2. /\ TypeOK /\ p \in Paths /\ handle[p] = NoEntry /\ call[t] \in Calls
  BY <1>1, ChangerFacts
<1>3. /\ UNCHANGED <<cloud, handle, disturbed>>
      /\ statCache' = [statCache EXCEPT ![p] = NoEntry]
  BY DEF Forget, Drop, worldVars
<1>4. CallCurrent(t)'
  <2>1. \/ call' = [Others(t, LAMBDA u : Erased(p, u)) EXCEPT ![t] = NoCall]
        \/ call' = [Others(t, LAMBDA u : Erased(p, u)) EXCEPT ![t].pc = "move"]
    BY DEF Forget, Drop
  <2>2. call'[t] = NoCall \/ call'[t] = [call[t] EXCEPT !.pc = "move"]
    BY <2>1 DEF Others
  <2>3. call'[t] = NoCall \/ call'[t].pc = "move"
    BY <1>2, <2>2 DEF Calls
  <2> QED
    BY <2>3, IdleIsCurrent DEF CallCurrent
<1>5. statCache'[p] = NoEntry /\ \A q \in Paths : q # p => statCache'[q] = statCache[q]
  BY <1>2, <1>3 DEF TypeOK
<1> QED
  BY <1>1, <1>2, <1>3, <1>4, <1>5, ChangeOwn

LEMMA MoveOwn ==
    ASSUME OwnInv, NEW t \in Threads, Move(t) PROVE OwnInv'
<1> DEFINE p == call[t].path
<1>1. Step(t) /\ call[t].op \in Changers /\ call[t].op # "flush"
  BY DEF OwnInv, StalenessInv, CallsAreFine, CallControl, Step, Move, At,
     Changers, Alone
<1>2. /\ TypeOK /\ p \in Paths /\ handle[p] = NoEntry
  BY <1>1, ChangerFacts
<1>3. /\ statCache' = statCache /\ call' = [call EXCEPT ![t] = NoCall]
      /\ \E s \in Answers : World([cloud EXCEPT ![p] = s], handle)
      /\ disturbed' = IF statCache[p] # NoEntry THEN disturbed \cup {p}
                                                ELSE Overtaken(p)
  BY DEF Move
<1>4. handle' = handle /\ \A q \in Paths : q # p => cloud'[q] = cloud[q]
  BY <1>2, <1>3 DEF World, TypeOK
<1>5. /\ disturbed \subseteq disturbed' /\ (p \in disturbed' \/ ~Listing(p))
      /\ p \in disturbed' \/ statCache'[p] = NoEntry
  BY <1>3 DEF Overtaken
<1>6. CallCurrent(t)'
  BY <1>2, <1>3, IdleIsCurrent DEF TypeOK
<1> QED
  BY <1>1, <1>2, <1>3, <1>4, <1>5, <1>6, ChangeOwn

LEMMA RequestFailsOwn ==
    ASSUME OwnInv, NEW t \in Threads, RequestFails(t) PROVE OwnInv'
<1> DEFINE p == call[t].path
<1>1. /\ Step(t) /\ statCache' = statCache /\ UNCHANGED worldVars
      /\ call' = [call EXCEPT ![t] = NoCall] /\ TypeOK
  BY DEF Step, RequestFails, OwnInv, StalenessInv
<1>2. cloud' = cloud /\ handle' = handle /\ CallCurrent(t)'
  BY <1>1, IdleIsCurrent DEF worldVars, TypeOK
<1>3. CASE call[t].pc \in {"ls", "null", "hit"} /\ UNCHANGED disturbed
  <2>1. Pending(t)
    BY <1>3 DEF Pending, Changes
  <2> QED
    BY <1>1, <1>2, <1>3, <2>1, StillCallOwn
<1>4. CASE Changing(t) /\ disturbed' = disturbed \cup {p}
  <2>1. call[t].op \in Changers
    BY <1>4 DEF OwnInv, StalenessInv, CallsAreFine, CallControl, Changing, At,
       Changers, Alone
  <2>2. p \in Paths /\ (handle[p] = NoEntry \/ call[t].op = "flush")
    BY <1>1, <2>1, ChangerFacts
  <2>3. /\ disturbed \subseteq disturbed' /\ p \in disturbed'
        /\ \A q \in Paths : cloud'[q] = cloud[q] /\ handle'[q] = handle[q]
    BY <1>2, <1>4
  <2> QED
    BY <1>1, <1>2, <2>1, <2>2, <2>3, ChangeOwn
<1> QED
  BY <1>3, <1>4 DEF RequestFails, At

LEMMA MakeNodeOwn ==
    ASSUME OwnInv, NEW t \in Threads, MakeNode(t) PROVE OwnInv'
<1>1. /\ StalenessInv /\ TypeOK /\ Step(t) /\ Exclusion /\ CallCurrent(t)
      /\ call[t].pc = "hit" /\ call[t].op = "open"
      /\ statCache' = statCache /\ disturbed' = disturbed
  BY DEF OwnInv, StalenessInv, Step, MakeNode, At, cacheVars
<1>2. call[t] \in Calls /\ Busy(t) /\ call[t].path \in Paths
  BY <1>1, StepIsBusy
<1>3. PICK p \in Paths : p = call[t].path /\ handle[p] = NoEntry
  BY <1>1, <1>2 DEF Exclusion, FindsNoNode, FindsNone, KeepsSize
<1> DEFINE size == IF cloud[p] > 0 THEN cloud[p] ELSE call[t].size
<1>4. call'[t] = NoCall
  BY <1>1 DEF MakeNode, TypeOK
<1>5. CallCurrent(t)'
  BY <1>4, IdleIsCurrent
<1>6. /\ cloud' = cloud
      /\ handle' = [handle EXCEPT ![p] = [size |-> size, dirty |-> FALSE]]
  BY <1>3 DEF MakeNode, World
<1>7. p \notin disturbed => size = cloud[p]
  BY <1>1, <1>3 DEF CallCurrent
<1> HIDE DEF size
<1>8. /\ handle'[p].size = size
      /\ \A q \in Paths : q # p => handle'[q] = handle[q]
  BY <1>1, <1>3, <1>6 DEF TypeOK
<1>9. /\ StalenessInv' /\ Exclusion'
      /\ \A u \in Threads : CallCurrent(u)'
      /\ \A u \in Threads \ {t} : Pending(u)
  BY <1>1, <1>3, <1>4, <1>5, <1>6, <1>8, StepOnPath
<1>10. \A u \in Threads : Pending(u)
  BY <1>1, <1>9 DEF Pending, Changes
<1>11. ASSUME statCache'[p] # NoEntry, p \notin disturbed', Settled(p)'
       PROVE  statCache'[p].size = cloud'[p]
  <2>1. Settled(p)
    BY <1>10, <1>11, SettledBefore
  <2> QED
    BY <1>1, <1>3, <1>6, <1>11, <2>1, SeenBySettled DEF OwnInv, Clean
<1> QED
  BY <1>1, <1>3, <1>6, <1>7, <1>8, <1>9, <1>10, <1>11, LocalOwn

(***************************************************************************)
(* The steps of no thread, on one path.                                    *)
(***************************************************************************)
LEMMA UntouchedOwn ==
    ASSUME OwnInv, \A u \in Threads : Same(u), disturbed \subseteq disturbed',
           \A u \in Threads :
               Busy(u) /\ call[u].op \in FindsNone => handle'[call[u].path] = NoEntry,
           \A p \in Paths :
               \/ cloud'[p] = cloud[p]
               \/ p \in disturbed'
               \/ cloud[p] = NoEntry /\ ~InCall(Ops \ {"readdir"}, p)
    PROVE  /\ Exclusion'
           /\ \A u \in Threads : CallCurrent(u)'
           /\ \A u \in Threads : Pending(u)
<1>1. TypeOK /\ Exclusion
  BY DEF OwnInv, StalenessInv
<1>2. ASSUME NEW u \in Threads
      PROVE  \/ call'[u] = NoCall
             \/ /\ call[u] # NoCall
                /\ call'[u].op = call[u].op /\ call'[u].path = call[u].path
  <2>1. Same(u)
    OBVIOUS
  <2>2. call[u] \in Calls => call[u] # NoCall
    BY <1>1, CallFacts DEF Busy
  <2> QED
    BY <2>1, <2>2 DEF Same
<1>3. Exclusion'
  BY <1>1, <1>2, ExclusionStays
<1>4. ASSUME NEW u \in Threads PROVE CallCurrent(u)' /\ Pending(u)
  <2>1. ASSUME NEW p \in Paths, Busy(u), call[u].path = p, call[u].op \in KeepsSize
        PROVE  InCall(Ops \ {"readdir"}, p)
    BY <1>1, <2>1, CallFacts DEF InCall, Ops, KeepsSize, Busy
  <2>2. \A p \in Paths :
            \/ cloud'[p] = cloud[p]
            \/ p \in disturbed'
            \/ /\ ~Listing(p) \/ cloud[p] = NoEntry
               /\ Busy(u) /\ call[u].path = p => call[u].op \notin KeepsSize
    BY <2>1
  <2> QED
    BY <2>2, SameIsCurrent, SameIsPending
<1> QED
  BY <1>3, <1>4

(***************************************************************************)
(* A node that is written, truncated or released is not one that an open,  *)
(* a truncate of the path or an op of Alone has found missing.             *)
(***************************************************************************)
LEMMA NodeIsNotFound ==
    ASSUME OwnInv, NEW p \in Paths, handle[p] # NoEntry,
           \A q \in Paths : q # p => handle'[q] = handle[q],
           NEW u \in Threads, Busy(u), call[u].op \in FindsNone
    PROVE  handle'[call[u].path] = NoEntry /\ call[u].path # p
<1>1. TypeOK /\ FindsNoNode(u)
  BY DEF OwnInv, StalenessInv, Exclusion
<1>2. call[u].path \in Paths /\ handle[call[u].path] = NoEntry
  BY <1>1, CallFacts DEF Calls, FindsNoNode
<1> QED
  BY <1>2

LEMMA ReleaseOwn ==
    ASSUME OwnInv, StalenessInv', NEW p \in Paths, Release(p) PROVE OwnInv'
<1>1. /\ TypeOK /\ handle[p] # NoEntry
      /\ cloud' = cloud /\ handle' = [handle EXCEPT ![p] = NoEntry]
      /\ call' = call /\ statCache' = statCache
      /\ disturbed \subseteq disturbed'
      /\ p \notin disturbed' => ~handle[p].dirty
  BY DEF OwnInv, StalenessInv, Release, World
<1>2. /\ handle'[p] = NoEntry
      /\ \A q \in Paths : q # p => handle'[q] = handle[q]
  BY <1>1 DEF TypeOK
<1>3. /\ Exclusion'
      /\ \A u \in Threads : CallCurrent(u)'
      /\ \A u \in Threads : Pending(u)
  <2>1. \A u \in Threads : Same(u)
    BY <1>1, UntouchedIsSame
  <2>2. \A u \in Threads :
            Busy(u) /\ call[u].op \in FindsNone => handle'[call[u].path] = NoEntry
    BY <1>1, <1>2, NodeIsNotFound
  <2> QED
    BY <1>1, <2>1, <2>2, UntouchedOwn
<1>4. ASSUME statCache'[p] # NoEntry, p \notin disturbed', Settled(p)'
      PROVE  statCache'[p].size = cloud'[p]
  <2>1. Settled(p) /\ Clean(p) /\ p \notin disturbed
    BY <1>1, <1>3, <1>4, SettledBefore DEF Clean
  <2> QED
    BY <1>1, <1>4, <2>1, SeenBySettled DEF OwnInv
<1> QED
  BY <1>1, <1>2, <1>3, <1>4, LocalOwn

LEMMA MknodOwn ==
    ASSUME OwnInv, StalenessInv', NEW p \in Paths, Mknod(p) PROVE OwnInv'
<1>1. /\ TypeOK /\ Exclusion /\ CleanIsCurrent
      /\ cloud' = [cloud EXCEPT ![p] = 0] /\ handle' = handle
      /\ call' = call /\ statCache' = statCache /\ disturbed' = disturbed
      /\ cloud[p] = NoEntry /\ ~InCall(Ops \ {"readdir"}, p)
  BY DEF OwnInv, StalenessInv, Mknod, World, cacheVars
<1>2. \A q \in Paths : q # p => cloud'[q] = cloud[q]
  BY <1>1 DEF TypeOK
<1>3. /\ Exclusion'
      /\ \A u \in Threads : CallCurrent(u)'
      /\ \A u \in Threads : Pending(u)
  <2>1. \A u \in Threads : Same(u)
    BY <1>1, UntouchedIsSame
  <2>2. \A u \in Threads :
            Busy(u) /\ call[u].op \in FindsNone => handle'[call[u].path] = NoEntry
    BY <1>1 DEF Exclusion, FindsNoNode
  <2> QED
    BY <1>1, <1>2, <2>1, <2>2, UntouchedOwn
<1>4. ASSUME statCache'[p] # NoEntry, p \notin disturbed', Clean(p)', Settled(p)'
      PROVE  FALSE
  <2>1. Settled(p) /\ Clean(p)
    BY <1>1, <1>3, <1>4, SettledBefore DEF Clean
  <2>2. statCache[p].size = cloud[p]
    BY <1>1, <1>4, <2>1, SeenBySettled DEF OwnInv
  <2>3. statCache[p].size \in Sizes
    BY <1>1, <1>4 DEF TypeOK, Entries
  <2> QED
    BY <1>1, <2>2, <2>3, StatCacheAssumption
<1>5. p \notin disturbed' /\ handle'[p] # NoEntry => handle'[p].dirty
  <2>1. handle[p] # NoEntry => handle[p].size \in Sizes
    BY <1>1 DEF TypeOK, Handles
  <2> QED
    BY <1>1, <2>1, StatCacheAssumption DEF CleanIsCurrent
<1> QED
  BY <1>1, <1>2, <1>3, <1>4, <1>5, LocalOwn

LEMMA OtherDeviceOwn ==
    ASSUME OwnInv, StalenessInv', NEW p \in Paths, NEW s \in Answers, OtherDevice(p, s)
    PROVE  OwnInv'
<1>1. /\ TypeOK /\ Exclusion
      /\ cloud' = [cloud EXCEPT ![p] = s] /\ handle' = handle
      /\ call' = call /\ statCache' = statCache
      /\ disturbed \subseteq disturbed' /\ p \in disturbed'
  BY DEF OwnInv, StalenessInv, OtherDevice, World
<1>2. \A q \in Paths : q # p => cloud'[q] = cloud[q]
  BY <1>1 DEF TypeOK
<1>3. /\ Exclusion'
      /\ \A u \in Threads : CallCurrent(u)'
      /\ \A u \in Threads : Pending(u)
  <2>1. \A u \in Threads : Same(u)
    BY <1>1, UntouchedIsSame
  <2>2. \A u \in Threads :
            Busy(u) /\ call[u].op \in FindsNone => handle'[call[u].path] = NoEntry
    BY <1>1 DEF Exclusion, FindsNoNode
  <2> QED
    BY <1>1, <1>2, <2>1, <2>2, UntouchedOwn
<1> QED
  BY <1>1, <1>2, <1>3, LocalOwn

(***************************************************************************)
(* write and truncate of an open node leave it dirty, and truncate tells   *)
(* the cache at once.                                                      *)
(***************************************************************************)
LEMMA DirtyOwn ==
    ASSUME OwnInv, StalenessInv', NEW p \in Paths, NEW s \in Sizes,
           Write(p, s) \/ Truncate(p, s)
    PROVE  OwnInv'
<1>1. /\ TypeOK /\ handle[p] # NoEntry
      /\ cloud' = cloud /\ disturbed' = disturbed
      /\ handle' = [handle EXCEPT ![p] = [size |-> s, dirty |-> TRUE]]
      /\ (call' = call /\ statCache' = statCache) \/ Update(p, s, call)
  BY DEF OwnInv, StalenessInv, Write, Truncate, World, cacheVars
<1>2. /\ handle'[p].dirty /\ handle'[p] # NoEntry
      /\ \A q \in Paths : q # p => handle'[q] = handle[q]
  <2>1. [size |-> s, dirty |-> TRUE] \in Handles
    BY DEF Handles
  <2> QED
    BY <1>1, <2>1, NoEntryAssumption DEF TypeOK
<1>3. \A u \in Threads :
          Busy(u) /\ call[u].op \in FindsNone =>
              handle'[call[u].path] = NoEntry /\ call[u].path # p
  BY <1>1, <1>2, NodeIsNotFound
<1>4. ASSUME NEW u \in Threads PROVE Same(u)
  <2>1. CASE call' = call
    BY <1>1, <2>1, UntouchedIsSame
  <2>2. CASE Update(p, s, call)
    <3>1. (call[u] = NoCall /\ call'[u] = NoCall) \/ Same(u)
      BY <1>1, <1>3, <2>2, UpdateIsSame DEF FindsNone
    <3> QED
      BY <3>1 DEF Same
  <2> QED
    BY <1>1, <2>1, <2>2
<1>5. /\ Exclusion'
      /\ \A u \in Threads : CallCurrent(u)'
      /\ \A u \in Threads : Pending(u)
  BY <1>1, <1>3, <1>4, UntouchedOwn
<1>6. \A q \in Paths : q # p => statCache'[q] = statCache[q]
  BY <1>1, UpdateSets
<1>7. ~Clean(p)'
  BY <1>2 DEF Clean
<1> QED
  BY <1>1, <1>2, <1>5, <1>6, <1>7, LocalOwn

-----------------------------------------------------------------------------
LEMMA OwnInit == Init => OwnInv
<1> SUFFICES ASSUME Init PROVE OwnInv
  OBVIOUS
<1>1. StalenessInv
  BY StalenessInit
<1>2. Exclusion
  BY DEF Init, Exclusion, FindsNoNode, Apart, Busy
<1>3. CleanIsCurrent /\ OwnChangesAreSeen
  BY DEF Init, CleanIsCurrent, OwnChangesAreSeen
<1>4. \A t \in Threads : CallCurrent(t)
  BY DEF Init, CallCurrent, NoCall
<1> QED
  BY <1>1, <1>2, <1>3, <1>4 DEF OwnInv

LEMMA StartOwn ==
    ASSUME OwnInv, StalenessInv', NEW t \in Threads, NEW p \in Paths, Start(t, p)
    PROVE  OwnInv'
<1> USE DEF FindsNone, KeepsSize, Alone
<1>1. NoEntry \in Answers /\ Sizes \subseteq Answers
  BY DEF Answers
<1>2. CASE Getattr(t, p) \/ Readdir(t, p) \/ Open(t, p) \/ Flush(t, p)
  BY <1>1, <1>2, BeginOwn DEF Getattr, Readdir, Open, Flush, Ops
<1>3. CASE Unlink(t, p) \/ Rmdir(t, p) \/ Rename(t, p)
  BY <1>1, <1>3, BeginOwn DEF Unlink, Rmdir, Rename, BeginAlone, Ops
<1>4. CASE \E s \in Sizes : TruncatePath(t, p, s)
  BY <1>1, <1>4, BeginOwn DEF TruncatePath, Ops
<1> QED
  BY <1>2, <1>3, <1>4 DEF Start

LEMMA OwnStep == OwnInv /\ [Next]_vars => OwnInv'
<1> SUFFICES ASSUME OwnInv, [Next]_vars PROVE OwnInv'
  OBVIOUS
<1>0. StalenessInv'
  BY StalenessStep DEF OwnInv
<1>1. CASE Tick
  BY <1>0, <1>1, TickOwn
<1>2. ASSUME NEW t \in Threads, Step(t) PROVE OwnInv'
  BY <1>2, FindOwn, QuietOwn, PutOwn, MakeNodeOwn, PartlyOwn, RequestFailsOwn,
     UploadOwn, EndFlushOwn, ReuploadOwn, EndTruncatePathOwn, RemoveFileOwn,
     EntryGoneOwn, MoveOwn DEF Step
<1>3. ASSUME NEW t \in Threads, NEW p \in Paths, Start(t, p) PROVE OwnInv'
  BY <1>0, <1>3, StartOwn
<1>4. ASSUME NEW p \in Paths, Release(p) \/ Mknod(p) PROVE OwnInv'
  BY <1>0, <1>4, ReleaseOwn, MknodOwn
<1>5. ASSUME NEW p \in Paths, NEW s \in Sizes, Write(p, s) \/ Truncate(p, s)
      PROVE  OwnInv'
  BY <1>0, <1>5, DirtyOwn
<1>6. ASSUME NEW p \in Paths, NEW s \in Answers, OtherDevice(p, s) PROVE OwnInv'
  BY <1>0, <1>6, OtherDeviceOwn
<1>7. CASE UNCHANGED vars
  <2>1. /\ statCache' = statCache /\ cloud' = cloud /\ handle' = handle /\ call' = call
        /\ disturbed' = disturbed
    BY <1>7 DEF vars
  <2>2. Exclusion' /\ CleanIsCurrent' /\ OwnChangesAreSeen'
    BY <2>1 DEF OwnInv, Exclusion, FindsNoNode, Apart, Busy, CleanIsCurrent,
       OwnChangesAreSeen
  <2>3. \A t \in Threads : CallCurrent(t)'
    BY <2>1 DEF OwnInv, CallCurrent
  <2> QED
    BY <1>0, <2>2, <2>3 DEF OwnInv
<1> QED
  BY <1>1, <1>2, <1>3, <1>4, <1>5, <1>6, <1>7 DEF Next

(***************************************************************************)
(* What this mount does to a file shows in its cache as soon as the call   *)
(* that did it has succeeded and the node has nothing left to flush, for   *)
(* every number of threads, paths and sizes: the order upload, then update *)
(* and the order remove, then forget leave no other window than the answer *)
(* of an older listing.  The exceptions are in the history variable        *)
(* disturbed: another device, a request that failed for good, a node       *)
(* released dirty, an entry put back in the middle of a rename.            *)
(***************************************************************************)
THEOREM OwnChangesShow == Spec => []OwnChangesAreSeen
<1>1. OwnInv => OwnChangesAreSeen
  BY DEF OwnInv
<1> QED
  BY <1>1, OwnInit, OwnStep, PTL DEF Spec
=============================================================================
