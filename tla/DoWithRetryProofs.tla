------------------------- MODULE DoWithRetryProofs --------------------------
(***************************************************************************)
(* The client pool and doWithRetry, for every number of clients, threads,  *)
(* attempts and requests.  First the pool by itself: a client has one      *)
(* owner, none is lost, and no wakeup is.  Then the callbacks: they use    *)
(* the pool as PoolSpec allows, every path out of an attempt gives its     *)
(* client back, and fewer renames than clients cannot block the pool.      *)
(***************************************************************************)
EXTENDS DoWithRetry, FiniteSetTheorems, TLAPS

-----------------------------------------------------------------------------
(* The pool: proofs about PoolSpec, whoever uses it. *)

(***************************************************************************)
(* A list of Cardinality(S) different elements of a finite set S lists all *)
(* of S: what populate() leaves behind holds every client.                 *)
(***************************************************************************)
LEMMA InjectiveListIsComplete ==
    ASSUME NEW S, IsFiniteSet(S),
           NEW s \in [1..Cardinality(S) -> S],
           \A i, j \in DOMAIN s : s[i] = s[j] => i = j
    PROVE  \A x \in S : \E i \in 1..Cardinality(S) : s[i] = x
<1> DEFINE I == 1..Cardinality(S)
           R == {s[i] : i \in I}
<1>1. Cardinality(S) \in Nat
  BY FS_CardinalityType
<1>2. IsFiniteSet(I) /\ Cardinality(I) = Cardinality(S)
  BY <1>1, FS_Interval
<1>3. R \subseteq S
  OBVIOUS
<1>4. IsFiniteSet(R)
  BY <1>3, FS_Subset
<1>5. s \in Injection(I, R)
  BY DEF Injection, IsInjective
<1>6. Cardinality(I) <= Cardinality(R)
  BY <1>4, <1>5, FS_Injection
<1>7. R = S
  BY <1>2, <1>3, <1>6, FS_Subset, FS_CardinalityType, <1>4
<1> QED
  BY <1>7

(***************************************************************************)
(* Removing an element, present or not, costs a set at most one.           *)
(***************************************************************************)
LEMMA RemoveCostsOne ==
    ASSUME NEW S, NEW x, IsFiniteSet(S)
    PROVE  Cardinality(S) <= Cardinality(S \ {x}) + 1
<1> DEFINE m == Cardinality(S)
           n == Cardinality(S \ {x})
<1>1. m \in Nat
  BY FS_CardinalityType
<1>2. n = IF x \in S THEN m - 1 ELSE m
  BY FS_RemoveElement, Zenon
<1> HIDE DEF m, n
<1>3. m <= n + 1
  BY <1>1, <1>2
<1> QED
  BY <1>3 DEF m, n

-----------------------------------------------------------------------------
LEMMA PoolTypeInit == PoolInit => PoolTypeOK
<1> SUFFICES ASSUME PoolInit PROVE PoolTypeOK
  OBVIOUS
<1>1. Cardinality(Clients) \in Nat
  BY PoolAssumption, FS_CardinalityType
<1>2. objects \in Seq(Clients)
  BY <1>1 DEF PoolInit
<1> QED
  BY <1>2 DEF PoolInit, PoolTypeOK

LEMMA PoolTypeStep == PoolTypeOK /\ [PoolNext]_poolVars => PoolTypeOK'
<1> SUFFICES ASSUME PoolTypeOK, [PoolNext]_poolVars PROVE PoolTypeOK'
  OBVIOUS
<1> USE DEF PoolTypeOK
<1>1. ASSUME NEW t \in Threads, Take(t) PROVE PoolTypeOK'
  <2>1. Head(objects) \in Clients /\ Tail(objects) \in Seq(Clients)
    BY <1>1 DEF Take
  <2> QED
    BY <1>1, <2>1 DEF Take
<1>2. ASSUME NEW t \in Threads, Sleep(t) PROVE PoolTypeOK'
  BY <1>2 DEF Sleep
<1>3. ASSUME NEW t \in Threads, SpuriousWakeup(t) PROVE PoolTypeOK'
  BY <1>3 DEF SpuriousWakeup
<1>4. ASSUME NEW t \in Threads, NEW c \in Clients, Add(t, c) PROVE PoolTypeOK'
  BY <1>4 DEF Add
<1>5. ASSUME NEW t \in Threads, NotifyOne(t) PROVE PoolTypeOK'
  BY <1>5 DEF NotifyOne
<1>6. CASE UNCHANGED poolVars
  BY <1>6 DEF poolVars
<1> QED
  BY <1>1, <1>2, <1>3, <1>4, <1>5, <1>6 DEF PoolNext

(***************************************************************************)
(* Every step of the pool keeps its five variables in their types.         *)
(***************************************************************************)
LEMMA PoolTypeCorrect == PoolSpec => []PoolTypeOK
BY PoolTypeInit, PoolTypeStep, PTL DEF PoolSpec

-----------------------------------------------------------------------------
LEMMA ExclusiveInit == PoolInit => ClientsExclusive
<1> SUFFICES ASSUME PoolInit PROVE ClientsExclusive
  OBVIOUS
<1>1. Cardinality(Clients) \in Nat
  BY PoolAssumption, FS_CardinalityType
<1> QED
  BY <1>1 DEF PoolInit, ClientsExclusive

LEMMA ExclusiveStep ==
    PoolTypeOK /\ ClientsExclusive /\ [PoolNext]_poolVars => ClientsExclusive'
<1> SUFFICES ASSUME PoolTypeOK, ClientsExclusive, [PoolNext]_poolVars
             PROVE  ClientsExclusive'
  OBVIOUS
<1> USE DEF PoolTypeOK, ClientsExclusive, Idle
<1>1. ASSUME NEW t \in Threads, Take(t) PROVE ClientsExclusive'
  <2>1. /\ objects # <<>>
        /\ objects' = Tail(objects)
        /\ held' = [held EXCEPT ![t] = @ \cup {objects[1]}]
    BY <1>1 DEF Take
  <2>2. /\ Len(objects) \in Nat \ {0}
        /\ Len(objects') = Len(objects) - 1
        /\ \A i \in 1..Len(objects') : objects'[i] = objects[i + 1]
    BY <2>1
  <2>3. \A i, j \in 1..Len(objects') : objects'[i] = objects'[j] => i = j
    BY <2>2
  <2>4. \A i \in 1..Len(objects') : objects'[i] # objects[1]
    BY <2>2
  <2>5. Idle' = Idle \ {objects[1]}
    <3>1. ASSUME NEW x \in Idle, x # objects[1] PROVE x \in Idle'
      <4>1. PICK i \in 1..Len(objects) : x = objects[i]
        BY <3>1
      <4>2. i - 1 \in 1..Len(objects') /\ objects'[i - 1] = objects[i]
        BY <2>2, <4>1, <3>1
      <4> QED
        BY <4>1, <4>2
    <3>2. ASSUME NEW x \in Idle' PROVE x \in Idle /\ x # objects[1]
      BY <2>2, <2>4
    <3> QED
      BY <3>1, <3>2
  <2>6. objects[1] \in Idle
    BY <2>2
  <2>7. \A u \in Threads : held'[u] \cap Idle' = {}
    BY <2>1, <2>5
  <2>8. \A u, v \in Threads : u # v => held'[u] \cap held'[v] = {}
    BY <2>1, <2>6
  <2> QED
    BY <2>3, <2>7, <2>8
<1>2. ASSUME NEW t \in Threads, Sleep(t) PROVE ClientsExclusive'
  BY <1>2 DEF Sleep
<1>3. ASSUME NEW t \in Threads, SpuriousWakeup(t) PROVE ClientsExclusive'
  BY <1>3 DEF SpuriousWakeup
<1>4. ASSUME NEW t \in Threads, NEW c \in Clients, Add(t, c)
      PROVE  ClientsExclusive'
  <2>1. /\ c \in held[t]
        /\ objects' = Append(objects, c)
        /\ held' = [held EXCEPT ![t] = @ \ {c}]
    BY <1>4 DEF Add
  <2>2. /\ Len(objects) \in Nat
        /\ Len(objects') = Len(objects) + 1
        /\ \A i \in 1..Len(objects) : objects'[i] = objects[i]
        /\ objects'[Len(objects) + 1] = c
    BY <2>1
  <2>3. c \notin Idle
    BY <2>1
  <2>4. \A i, j \in 1..Len(objects') : objects'[i] = objects'[j] => i = j
    BY <2>2, <2>3
  <2>5. Idle' = Idle \cup {c}
    BY <2>2
  <2>6. \A u \in Threads : held'[u] \cap Idle' = {}
    BY <2>1, <2>5
  <2>7. \A u, v \in Threads : u # v => held'[u] \cap held'[v] = {}
    BY <2>1
  <2> QED
    BY <2>4, <2>6, <2>7
<1>5. ASSUME NEW t \in Threads, NotifyOne(t) PROVE ClientsExclusive'
  BY <1>5 DEF NotifyOne
<1>6. CASE UNCHANGED poolVars
  BY <1>6 DEF poolVars
<1> QED
  BY <1>1, <1>2, <1>3, <1>4, <1>5, <1>6 DEF PoolNext

(***************************************************************************)
(* acquire() never hands one client to two threads, and the list never     *)
(* holds a client twice, however many threads race in acquire and add.     *)
(***************************************************************************)
THEOREM PoolExclusive == PoolSpec => []ClientsExclusive
BY ExclusiveInit, PoolTypeCorrect, ExclusiveStep, PTL DEF PoolSpec

-----------------------------------------------------------------------------
LEMMA ConservedStep ==
    PoolTypeOK /\ ClientsConserved /\ [PoolNext]_poolVars => ClientsConserved'
<1> SUFFICES ASSUME PoolTypeOK, ClientsConserved, [PoolNext]_poolVars,
                    NEW c \in Clients
             PROVE  (c \in Idle \/ \E t \in Threads : c \in held[t])'
  BY DEF ClientsConserved
<1> USE DEF PoolTypeOK, Idle
<1>c. c \in Idle \/ \E t \in Threads : c \in held[t]
  BY DEF ClientsConserved
<1>1. ASSUME NEW t \in Threads, Take(t)
      PROVE  c \in Idle' \/ \E u \in Threads : c \in held'[u]
  <2>1. /\ objects # <<>>
        /\ objects' = Tail(objects)
        /\ held' = [held EXCEPT ![t] = @ \cup {objects[1]}]
    BY <1>1 DEF Take
  <2>2. CASE c \in Idle
    <3>1. PICK i \in 1..Len(objects) : c = objects[i]
      BY <2>2
    <3>2. CASE i = 1
      BY <2>1, <3>1, <3>2
    <3>3. CASE i # 1
      <4>1. i - 1 \in 1..Len(objects') /\ objects'[i - 1] = c
        BY <2>1, <3>1, <3>3
      <4> QED
        BY <4>1
    <3> QED
      BY <3>2, <3>3
  <2>3. CASE \E u \in Threads : c \in held[u]
    BY <2>1, <2>3
  <2> QED
    BY <1>c, <2>2, <2>3
<1>2. ASSUME NEW t \in Threads, NEW d \in Clients, Add(t, d)
      PROVE  c \in Idle' \/ \E u \in Threads : c \in held'[u]
  <2>1. /\ objects' = Append(objects, d)
        /\ held' = [held EXCEPT ![t] = @ \ {d}]
    BY <1>2 DEF Add
  <2>2. Idle' = Idle \cup {d}
    BY <2>1
  <2> QED
    BY <1>c, <2>1, <2>2
<1>3. ASSUME UNCHANGED <<objects, held>>
      PROVE  c \in Idle' \/ \E u \in Threads : c \in held'[u]
  BY <1>c, <1>3
<1> QED
  BY <1>1, <1>2, <1>3
  DEF PoolNext, poolVars, Sleep, SpuriousWakeup, NotifyOne

(***************************************************************************)
(* The deleter that puts an object back never loses one: a pool populated  *)
(* with n clients serves n attempts at once for as long as it lives.       *)
(***************************************************************************)
THEOREM PoolConserved == PoolSpec => []ClientsConserved
<1>1. PoolInit => ClientsConserved
  <2> SUFFICES ASSUME PoolInit, NEW c \in Clients PROVE c \in Idle
    BY DEF ClientsConserved
  <2>1. Cardinality(Clients) \in Nat
    BY PoolAssumption, FS_CardinalityType
  <2>2. /\ objects \in [1..Cardinality(Clients) -> Clients]
        /\ \A i, j \in DOMAIN objects : objects[i] = objects[j] => i = j
    BY DEF PoolInit
  <2>3. PICK i \in 1..Cardinality(Clients) : objects[i] = c
    BY <2>2, PoolAssumption, InjectiveListIsComplete
  <2>4. Len(objects) = Cardinality(Clients)
    BY <2>1, <2>2
  <2> QED
    BY <2>3, <2>4 DEF Idle
<1> QED
  BY <1>1, PoolTypeCorrect, ConservedStep, PTL DEF PoolSpec

-----------------------------------------------------------------------------
(***************************************************************************)
(* What NoLostWakeup needs to be inductive: a woken thread has left the    *)
(* wait set, so notify_one really adds a thread to woken.                  *)
(***************************************************************************)
WaitersSplit == waiting \cap woken = {}

WakeupInv == PoolTypeOK /\ WaitersSplit /\ NoLostWakeup

LEMMA WakeupInit == PoolInit => WakeupInv
<1> SUFFICES ASSUME PoolInit PROVE WaitersSplit /\ NoLostWakeup
  BY PoolTypeInit DEF WakeupInv
<1> QED
  BY DEF PoolInit, WaitersSplit, NoLostWakeup

LEMMA WakeupStep == WakeupInv /\ [PoolNext]_poolVars => WakeupInv'
<1> SUFFICES ASSUME WakeupInv, [PoolNext]_poolVars
             PROVE  (WaitersSplit /\ NoLostWakeup)'
  BY PoolTypeStep DEF WakeupInv
<1>t. PoolTypeOK /\ PoolTypeOK'
  BY PoolTypeStep DEF WakeupInv
<1>f. /\ IsFiniteSet(woken) /\ IsFiniteSet(notifying)
      /\ Cardinality(woken) \in Nat /\ Cardinality(notifying) \in Nat
      /\ Len(objects) \in Nat
  BY <1>t, PoolAssumption, FS_Subset, FS_CardinalityType DEF PoolTypeOK
<1> USE DEF WakeupInv, WaitersSplit, NoLostWakeup
<1>1. ASSUME NEW t \in Threads, Take(t) PROVE (WaitersSplit /\ NoLostWakeup)'
  <2>1. Len(objects') = Len(objects) - 1
    BY <1>1, <1>t DEF Take, PoolTypeOK
  <2>2. Cardinality(woken) <= Cardinality(woken \ {t}) + 1
    BY <1>f, RemoveCostsOne
  <2>3. Cardinality(woken \ {t}) \in Nat
    BY <1>f, FS_RemoveElement, FS_CardinalityType
  <2> QED
    BY <1>1, <1>f, <2>1, <2>2, <2>3 DEF Take
<1>2. ASSUME NEW t \in Threads, Sleep(t) PROVE (WaitersSplit /\ NoLostWakeup)'
  <2>1. Len(objects') = 0
    BY <1>2 DEF Sleep
  <2>2. Cardinality(woken') \in Nat
    BY <1>2, <1>f, FS_RemoveElement, FS_CardinalityType DEF Sleep
  <2> QED
    BY <1>2, <1>f, <2>1, <2>2 DEF Sleep
<1>3. ASSUME NEW t \in Threads, SpuriousWakeup(t)
      PROVE  (WaitersSplit /\ NoLostWakeup)'
  <2>1. t \notin woken
    BY <1>3 DEF SpuriousWakeup
  <2>2. Cardinality(woken \cup {t}) = Cardinality(woken) + 1
    BY <1>f, <2>1, FS_AddElement
  <2> QED
    BY <1>3, <1>f, <2>2 DEF SpuriousWakeup
<1>4. ASSUME NEW t \in Threads, NEW c \in Clients, Add(t, c)
      PROVE  (WaitersSplit /\ NoLostWakeup)'
  <2>1. Len(objects') = Len(objects) + 1
    BY <1>4, <1>t DEF Add, PoolTypeOK
  <2>2. t \notin notifying
    BY <1>4 DEF Add
  <2>3. Cardinality(notifying \cup {t}) = Cardinality(notifying) + 1
    BY <1>f, <2>2, FS_AddElement
  <2> QED
    BY <1>4, <1>f, <2>1, <2>3 DEF Add
<1>5. ASSUME NEW t \in Threads, NotifyOne(t)
      PROVE  (WaitersSplit /\ NoLostWakeup)'
  <2>1. Cardinality(notifying \ {t}) = Cardinality(notifying) - 1
    BY <1>5, <1>f, FS_RemoveElement DEF NotifyOne
  <2>2. CASE waiting = {} /\ UNCHANGED <<waiting, woken>>
    BY <2>2
  <2>3. ASSUME NEW w \in waiting,
               waiting' = waiting \ {w}, woken' = woken \cup {w}
        PROVE  (WaitersSplit /\ NoLostWakeup)'
    <3>1. w \notin woken
      OBVIOUS
    <3>2. Cardinality(woken') = Cardinality(woken) + 1
      BY <1>f, <2>3, <3>1, FS_AddElement
    <3> QED
      BY <1>5, <1>f, <2>1, <2>3, <3>2 DEF NotifyOne
  <2> QED
    BY <1>5, <2>2, <2>3 DEF NotifyOne
<1>6. CASE UNCHANGED poolVars
  BY <1>6 DEF poolVars
<1> QED
  BY <1>1, <1>2, <1>3, <1>4, <1>5, <1>6 DEF PoolNext

(***************************************************************************)
(* Signalling after the unlock is enough: whenever a thread sleeps in      *)
(* acquire(), every idle client has a wakeup under way.                    *)
(***************************************************************************)
THEOREM PoolNoLostWakeup == PoolSpec => []NoLostWakeup
<1>1. WakeupInv => NoLostWakeup
  BY DEF WakeupInv
<1> QED
  BY <1>1, WakeupInit, WakeupStep, PTL DEF PoolSpec

-----------------------------------------------------------------------------
(* The callbacks. *)

(***************************************************************************)
(* The inductive invariant.  Calls nest only in renames, the outer attempt *)
(* of a nested call owns a client and never the same one, nothing is left  *)
(* above the stack, and only a thread inside acquire() sleeps or rechecks. *)
(***************************************************************************)
NestedInRename ==
    \A t \in Threads : target[t] # "plain" \/ depth[t] = 2 => t \in Renamers

StackShape ==
    \A t \in Threads :
        /\ depth[t] < 2 => client[t][2] = NoClient
        /\ depth[t] < 1 => client[t][1] = NoClient
        /\ depth[t] = 2 => /\ client[t][1] # NoClient
                           /\ client[t][1] # client[t][2]

SleepersAcquire == \A t \in waiting \cup woken : Acquiring(t)

StackInv == NestedInRename /\ StackShape /\ SleepersAcquire /\ HeldIsStacked

RetryInv == TypeOK /\ ClientsExclusive /\ StackInv

-----------------------------------------------------------------------------
LEMMA TypeInit == Init => TypeOK
<1> SUFFICES ASSUME Init PROVE TypeOK
  OBVIOUS
<1>1. PoolTypeOK
  BY PoolTypeInit DEF Init
<1> QED
  BY <1>1, RetryAssumption DEF Init, TypeOK, Levels, Results

(***************************************************************************)
(* Every step of the callbacks is a step of the pool or leaves it alone.   *)
(***************************************************************************)
LEMMA PoolStep == TypeOK /\ [Next]_vars => [PoolNext]_poolVars
<1> SUFFICES ASSUME TypeOK, [Next]_vars PROVE [PoolNext]_poolVars
  OBVIOUS
<1>g. ASSUME NEW t \in Threads, GiveBack(t) PROVE PoolNext
  <2>1. Add(t, client[t][depth[t]])
    BY <1>g DEF GiveBack
  <2>2. client[t][depth[t]] \in Clients
    BY <2>1 DEF Add, TypeOK, PoolTypeOK
  <2> QED
    BY <2>1, <2>2 DEF PoolNext
<1>1. ASSUME NEW t \in Threads, NEW k \in {"plain", "todo"}, Begin(t, k)
      PROVE  UNCHANGED poolVars
  BY <1>1 DEF Begin, poolVars
<1>2. ASSUME NEW t \in Threads, Work(t) PROVE [PoolNext]_poolVars
  <2>1. CASE AcquireClient(t)
    BY <2>1 DEF AcquireClient, PoolNext
  <2>2. CASE AwaitClient(t)
    BY <2>2 DEF AwaitClient, PoolNext
  <2>3. CASE LookupTarget(t)
    BY <2>3 DEF LookupTarget, poolVars
  <2>4. CASE CallReturns(t)
    BY <2>4, <1>g DEF CallReturns
  <2>5. CASE CallRefused(t)
    BY <2>5, <1>g DEF CallRefused
  <2>6. CASE ServerError(t)
    BY <2>6, <1>g DEF ServerError
  <2>7. CASE Signal(t)
    BY <2>7 DEF Signal, PoolNext
  <2> QED
    BY <1>2, <2>1, <2>2, <2>3, <2>4, <2>5, <2>6, <2>7 DEF Work
<1>3. ASSUME NEW t \in Threads, Wakeup(t) PROVE PoolNext
  BY <1>3 DEF Wakeup, PoolNext
<1>4. CASE Served \/ UNCHANGED vars
  BY <1>4 DEF Served, vars, poolVars
<1> QED
  BY <1>1, <1>2, <1>3, <1>4 DEF Next

LEMMA TypeStep == TypeOK /\ [Next]_vars => TypeOK'
<1> SUFFICES ASSUME TypeOK, [Next]_vars PROVE TypeOK'
  OBVIOUS
<1>p. PoolTypeOK'
  BY PoolStep, PoolTypeStep DEF TypeOK
<1> USE RetryAssumption DEF TypeOK, Levels, Results
<1>g. ASSUME NEW t \in Threads, GiveBack(t)
      PROVE  /\ client' \in [Threads -> [Levels -> Clients \cup {NoClient}]]
             /\ depth[t] \in 1..2
  BY <1>g DEF GiveBack, Attempting
<1>r. ASSUME NEW t \in Threads, NEW r \in Results, GiveBack(t), Return(t, r)
      PROVE  TypeOK'
  BY <1>p, <1>g, <1>r DEF Return
<1>1. ASSUME NEW t \in Threads, NEW k \in {"plain", "todo"}, Begin(t, k)
      PROVE  TypeOK'
  BY <1>p, <1>1 DEF Begin
<1>2. ASSUME NEW t \in Threads, AcquireClient(t) PROVE TypeOK'
  <2>1. Head(objects) \in Clients
    BY <1>2 DEF AcquireClient, Take, PoolTypeOK
  <2>2. client' \in [Threads -> [Levels -> Clients \cup {NoClient}]]
    BY <1>2, <2>1 DEF AcquireClient, Acquiring
  <2> QED
    BY <1>p, <1>2, <2>2 DEF AcquireClient
<1>3. ASSUME NEW t \in Threads, AwaitClient(t) \/ Signal(t) \/ Wakeup(t)
      PROVE  TypeOK'
  BY <1>p, <1>3 DEF AwaitClient, Signal, Wakeup, callVars
<1>4. ASSUME NEW t \in Threads, LookupTarget(t) PROVE TypeOK'
  BY <1>p, <1>4 DEF LookupTarget
<1>5. ASSUME NEW t \in Threads, CallReturns(t) \/ CallRefused(t)
      PROVE  TypeOK'
  BY <1>5, <1>r DEF CallReturns, CallRefused
<1>6. ASSUME NEW t \in Threads, ServerError(t) PROVE TypeOK'
  <2>1. GiveBack(t)
    BY <1>6 DEF ServerError
  <2>2. CASE Return(t, "EINVAL")
    BY <2>1, <2>2, <1>r
  <2>3. CASE ~Return(t, "EINVAL")
    <3>1. /\ left[t][depth[t]] > 1
          /\ left' = [left EXCEPT ![t][depth[t]] = @ - 1]
          /\ target' = [target EXCEPT ![t] = IF depth[t] = 1 /\ @ = "asked"
                                             THEN "todo" ELSE @]
          /\ UNCHANGED <<depth, result, calls>>
      BY <1>6, <2>3 DEF ServerError
    <3>2. left' \in [Threads -> [Levels -> 0..Retries]]
      BY <2>1, <3>1, <1>g
    <3>3. target' \in [Threads -> {"plain", "todo", "asked"}]
      BY <3>1
    <3> QED
      BY <1>p, <2>1, <1>g, <3>1, <3>2, <3>3
  <2> QED
    BY <2>2, <2>3
<1>7. CASE Served \/ UNCHANGED vars
  BY <1>p, <1>7 DEF Served, vars
<1> QED
  BY <1>1, <1>2, <1>3, <1>4, <1>5, <1>6, <1>7 DEF Next, Work

(***************************************************************************)
(* The variables of the callbacks keep their types: in particular the      *)
(* unsigned retry counter never passes below zero.                         *)
(***************************************************************************)
THEOREM RetryTypeCorrect == Safety => []TypeOK
BY TypeInit, TypeStep, PTL DEF Safety

(***************************************************************************)
(* The callbacks implement the pool's specification: a client is taken,    *)
(* waited for and given back only the way acquire() and the deleter do it. *)
(***************************************************************************)
THEOREM RefinesPool == Safety => PoolSpec
<1>1. Init => PoolInit
  BY DEF Init
<1> QED
  BY <1>1, PoolStep, RetryTypeCorrect, PTL DEF Safety, PoolSpec

-----------------------------------------------------------------------------
(***************************************************************************)
(* The clients of a stack, depth by depth.                                 *)
(***************************************************************************)
LEMMA StackCases ==
    ASSUME NEW c
    PROVE  /\ {c[d] : d \in 1..0} \ {NoClient} = {}
           /\ {c[d] : d \in 1..1} \ {NoClient} = {c[1]} \ {NoClient}
           /\ {c[d] : d \in 1..2} \ {NoClient} = {c[1], c[2]} \ {NoClient}
<1>1. 1..0 = {} /\ 1..1 = {1} /\ 1..2 = {1, 2}
  OBVIOUS
<1> QED
  BY <1>1

(***************************************************************************)
(* What a thread owns, by the depth of its stack.                          *)
(***************************************************************************)
LEMMA HeldByDepth ==
    ASSUME HeldIsStacked, NEW t \in Threads
    PROVE  /\ depth[t] = 0 => held[t] = {}
           /\ depth[t] = 1 => held[t] = {client[t][1]} \ {NoClient}
           /\ depth[t] = 2 => held[t] = {client[t][1], client[t][2]} \ {NoClient}
<1>1. held[t] = {client[t][d] : d \in 1..depth[t]} \ {NoClient}
  BY DEF HeldIsStacked
<1> QED
  BY <1>1, StackCases

LEMMA RetryInvInit == Init => RetryInv
<1> SUFFICES ASSUME Init PROVE RetryInv
  OBVIOUS
<1>1. TypeOK
  BY TypeInit
<1>2. ClientsExclusive
  BY ExclusiveInit DEF Init
<1>3. NestedInRename /\ StackShape /\ SleepersAcquire
  BY DEF Init, PoolInit, NestedInRename, StackShape, SleepersAcquire, Levels
<1>4. HeldIsStacked
  <2> SUFFICES ASSUME NEW t \in Threads
               PROVE  held[t] = {client[t][d] : d \in 1..depth[t]} \ {NoClient}
    BY DEF HeldIsStacked
  <2>1. held[t] = {} /\ depth[t] = 0
    BY DEF Init, PoolInit
  <2> QED
    BY <2>1, StackCases
<1> QED
  BY <1>1, <1>2, <1>3, <1>4 DEF RetryInv, StackInv

(***************************************************************************)
(* A step of thread t leaves the stack of every other thread as it is.     *)
(***************************************************************************)
LEMMA StackedElsewhere ==
    ASSUME HeldIsStacked, NEW t \in Threads,
           \A u \in Threads \ {t} : /\ held'[u] = held[u]
                                    /\ client'[u] = client[u]
                                    /\ depth'[u] = depth[u],
           \/ depth'[t] = 0 /\ held'[t] = {}
           \/ depth'[t] = 1 /\ held'[t] = {client'[t][1]} \ {NoClient}
           \/ /\ depth'[t] = 2
              /\ held'[t] = {client'[t][1], client'[t][2]} \ {NoClient}
    PROVE  HeldIsStacked'
<1> SUFFICES ASSUME NEW u \in Threads
             PROVE  held'[u] = {client'[u][d] : d \in 1..depth'[u]} \ {NoClient}
  BY DEF HeldIsStacked
<1>1. CASE u = t
  <2>1. CASE depth'[t] = 0
    <3>1. held'[t] = {}
      BY <2>1
    <3> QED
      BY <1>1, <2>1, <3>1, StackCases
  <2>2. CASE depth'[t] = 1
    <3>1. held'[t] = {client'[t][1]} \ {NoClient}
      BY <2>2
    <3> QED
      BY <1>1, <2>2, <3>1, StackCases
  <2>3. CASE depth'[t] = 2
    <3>1. held'[t] = {client'[t][1], client'[t][2]} \ {NoClient}
      BY <2>3
    <3> QED
      BY <1>1, <2>3, <3>1, StackCases
  <2> QED
    BY <2>1, <2>2, <2>3
<1>2. CASE u # t
  <2>1. held[u] = {client[u][d] : d \in 1..depth[u]} \ {NoClient}
    BY DEF HeldIsStacked
  <2>2. held'[u] = held[u] /\ client'[u] = client[u] /\ depth'[u] = depth[u]
    BY <1>2
  <2> QED
    BY <2>1, <2>2
<1> QED
  BY <1>1, <1>2

LEMMA HeldUnchanged ==
    HeldIsStacked /\ UNCHANGED <<held, client, depth>> => HeldIsStacked'
<1> SUFFICES ASSUME HeldIsStacked, UNCHANGED <<held, client, depth>>,
                    NEW u \in Threads
             PROVE  held'[u] = {client'[u][d] : d \in 1..depth'[u]} \ {NoClient}
  BY DEF HeldIsStacked
<1>1. held[u] = {client[u][d] : d \in 1..depth[u]} \ {NoClient}
  BY DEF HeldIsStacked
<1> QED
  BY <1>1

LEMMA BeginStep ==
    ASSUME RetryInv, NEW t \in Threads, NEW k \in {"plain", "todo"}, Begin(t, k)
    PROVE  StackInv'
<1> USE DEF RetryInv, StackInv, TypeOK, Levels
<1>1. NestedInRename'
  BY DEF Begin, NestedInRename
<1>2. StackShape'
  BY DEF Begin, StackShape
<1>3. SleepersAcquire'
  BY DEF Begin, SleepersAcquire, Acquiring, poolVars, PoolTypeOK
<1>4. HeldIsStacked'
  <2>1. /\ held' = held /\ client' = client /\ depth'[t] = 1 /\ depth[t] = 0
        /\ client[t][1] = NoClient
        /\ \A u \in Threads \ {t} : depth'[u] = depth[u]
    BY DEF Begin, poolVars, StackShape
  <2>2. held[t] = {}
    BY <2>1, HeldByDepth
  <2>3. held'[t] = {client'[t][1]} \ {NoClient}
    BY <2>1, <2>2
  <2> QED
    BY <2>1, <2>3, StackedElsewhere
<1> QED
  BY <1>1, <1>2, <1>3, <1>4

LEMMA AcquireStep ==
    ASSUME RetryInv, NEW t \in Threads, AcquireClient(t)
    PROVE  StackInv'
<1> USE DEF RetryInv, StackInv, TypeOK, Levels
<1> DEFINE c == Head(objects)
           n == depth[t]
<1>0. /\ n \in 1..2 /\ client[t][n] = NoClient
      /\ objects # <<>> /\ t \notin waiting
      /\ held' = [held EXCEPT ![t] = @ \cup {c}]
      /\ client' = [client EXCEPT ![t][n] = c]
      /\ woken' = woken \ {t}
      /\ UNCHANGED <<waiting, depth, target>>
  BY DEF AcquireClient, Take, Acquiring
<1>1. c \in Clients /\ c # NoClient
  BY <1>0, RetryAssumption DEF PoolTypeOK
<1>2. c \notin held[t]
  <2>1. c \in Idle
    BY <1>0 DEF Idle, PoolTypeOK
  <2> QED
    BY <2>1 DEF ClientsExclusive
<1>3. n = 2 => client[t][1] \in held[t]
  BY HeldByDepth DEF StackShape
<1> HIDE DEF c
<1>4. NestedInRename'
  BY <1>0 DEF NestedInRename
<1>5. StackShape'
  BY <1>0, <1>1, <1>2, <1>3 DEF StackShape
<1>6. SleepersAcquire'
  <2> SUFFICES ASSUME NEW u \in (waiting \cup woken)'
               PROVE  depth'[u] > 0 /\ client'[u][depth'[u]] = NoClient
    BY DEF SleepersAcquire, Acquiring
  <2>1. u \in waiting \cup woken /\ u # t /\ u \in Threads
    BY <1>0 DEF PoolTypeOK
  <2>2. depth[u] > 0 /\ client[u][depth[u]] = NoClient
    BY <2>1 DEF SleepersAcquire, Acquiring
  <2> QED
    BY <1>0, <2>1, <2>2
<1>7. HeldIsStacked'
  <2>1. \A u \in Threads \ {t} : /\ held'[u] = held[u]
                                 /\ client'[u] = client[u]
                                 /\ depth'[u] = depth[u]
    BY <1>0 DEF PoolTypeOK
  <2>2. held'[t] = held[t] \cup {c}
    BY <1>0 DEF PoolTypeOK
  <2>3. CASE n = 1
    <3>1. held[t] = {}
      BY <1>0, <2>3, HeldByDepth
    <3>2. client'[t][1] = c /\ depth'[t] = 1
      BY <1>0, <2>3
    <3>3. held'[t] = {client'[t][1]} \ {NoClient}
      BY <1>1, <2>2, <3>1, <3>2
    <3> QED
      BY <2>1, <3>2, <3>3, StackedElsewhere
  <2>4. CASE n = 2
    <3>1. held[t] = {client[t][1]} /\ client[t][1] # NoClient
      BY <1>0, <2>4, HeldByDepth DEF StackShape
    <3>2. client'[t][1] = client[t][1] /\ client'[t][2] = c /\ depth'[t] = 2
      BY <1>0, <2>4
    <3>3. held'[t] = {client'[t][1], client'[t][2]} \ {NoClient}
      BY <1>1, <2>2, <3>1, <3>2
    <3> QED
      BY <2>1, <3>2, <3>3, StackedElsewhere
  <2> QED
    BY <1>0, <2>3, <2>4
<1> QED
  BY <1>4, <1>5, <1>6, <1>7

LEMMA LookupStep ==
    ASSUME RetryInv, NEW t \in Threads, LookupTarget(t)
    PROVE  StackInv'
<1> USE DEF RetryInv, StackInv, TypeOK, Levels
<1>0. /\ depth[t] = 1 /\ client[t][1] # NoClient /\ target[t] = "todo"
      /\ target' = [target EXCEPT ![t] = "asked"]
      /\ depth' = [depth EXCEPT ![t] = 2]
      /\ UNCHANGED <<held, waiting, woken, client>>
  BY DEF LookupTarget, Attempting, poolVars
<1>1. client[t][2] = NoClient
  BY <1>0 DEF StackShape
<1>2. NestedInRename'
  BY <1>0 DEF NestedInRename
<1>3. StackShape'
  BY <1>0, <1>1 DEF StackShape
<1>4. t \notin waiting \cup woken
  BY <1>0 DEF SleepersAcquire, Acquiring
<1>5. SleepersAcquire'
  BY <1>0, <1>4 DEF SleepersAcquire, Acquiring, PoolTypeOK
<1>6. HeldIsStacked'
  <2>1. held[t] = {client[t][1]} \ {NoClient}
    BY <1>0, HeldByDepth
  <2>2. depth'[t] = 2 /\ held'[t] = {client'[t][1], client'[t][2]} \ {NoClient}
    BY <1>0, <1>1, <2>1
  <2>3. \A u \in Threads \ {t} : depth'[u] = depth[u]
    BY <1>0
  <2> QED
    BY <1>0, <2>2, <2>3, StackedElsewhere
<1> QED
  BY <1>2, <1>3, <1>5, <1>6

(***************************************************************************)
(* However an attempt ends: its client goes back, and the call returns or  *)
(* starts its next attempt.                                                *)
(***************************************************************************)
LEMMA GiveBackStep ==
    ASSUME RetryInv, NEW t \in Threads, GiveBack(t),
           depth' = depth \/ depth' = [depth EXCEPT ![t] = @ - 1],
           \A u \in Threads : target'[u] # "plain" => target[u] # "plain"
    PROVE  StackInv'
<1> USE DEF RetryInv, StackInv, TypeOK, Levels
<1> DEFINE n == depth[t]
<1>0. /\ n \in 1..2 /\ client[t][n] # NoClient
      /\ held' = [held EXCEPT ![t] = @ \ {client[t][n]}]
      /\ client' = [client EXCEPT ![t][n] = NoClient]
      /\ t \notin waiting \cup woken
      /\ UNCHANGED <<waiting, woken>>
  BY DEF GiveBack, Attempting, Add
<1>1. \A u \in Threads \ {t} : /\ held'[u] = held[u]
                               /\ client'[u] = client[u]
                               /\ depth'[u] = depth[u]
  BY <1>0 DEF PoolTypeOK
<1>2. depth'[t] \in {n, n - 1} /\ client'[t][n] = NoClient
  BY <1>0
<1>3. held'[t] = held[t] \ {client[t][n]}
  BY <1>0 DEF PoolTypeOK
<1>4. NestedInRename'
  BY <1>1, <1>2 DEF NestedInRename
<1>5. StackShape'
  <2>1. \A u \in Threads \ {t} :
            /\ depth'[u] < 2 => client'[u][2] = NoClient
            /\ depth'[u] < 1 => client'[u][1] = NoClient
            /\ depth'[u] = 2 => /\ client'[u][1] # NoClient
                                /\ client'[u][1] # client'[u][2]
    BY <1>1 DEF StackShape
  <2>2. /\ depth'[t] < 2 => client'[t][2] = NoClient
        /\ depth'[t] < 1 => client'[t][1] = NoClient
        /\ depth'[t] = 2 => /\ client'[t][1] # NoClient
                            /\ client'[t][1] # client'[t][2]
    BY <1>0, <1>2 DEF StackShape
  <2> QED
    BY <2>1, <2>2 DEF StackShape
<1>6. SleepersAcquire'
  <2> SUFFICES ASSUME NEW u \in waiting \cup woken
               PROVE  depth'[u] > 0 /\ client'[u][depth'[u]] = NoClient
    BY <1>0 DEF SleepersAcquire, Acquiring
  <2>1. u \in Threads \ {t}
    BY <1>0 DEF PoolTypeOK
  <2> QED
    BY <1>1, <2>1 DEF SleepersAcquire, Acquiring
<1>7. HeldIsStacked'
  <2>1. CASE n = 1
    <3>1. held'[t] = {}
      BY <1>3, <2>1, HeldByDepth
    <3>2. client'[t][1] = NoClient /\ depth'[t] \in {0, 1}
      BY <1>2, <2>1
    <3>3. depth'[t] = 1 => held'[t] = {client'[t][1]} \ {NoClient}
      BY <3>1, <3>2
    <3> QED
      BY <1>1, <3>1, <3>2, <3>3, StackedElsewhere
  <2>2. CASE n = 2
    <3>1. held[t] = {client[t][1], client[t][2]} \ {NoClient}
      BY <2>2, HeldByDepth
    <3>2. /\ client[t][1] # NoClient /\ client[t][1] # client[t][2]
          /\ client'[t][1] = client[t][1]
      BY <1>0, <2>2 DEF StackShape
    <3>3. held'[t] = {client'[t][1]}
      BY <1>0, <1>3, <2>2, <3>1, <3>2
    <3>4. client'[t][2] = NoClient /\ depth'[t] \in {1, 2}
      BY <1>2, <2>2
    <3>5. /\ depth'[t] = 1 => held'[t] = {client'[t][1]} \ {NoClient}
          /\ depth'[t] = 2 =>
                held'[t] = {client'[t][1], client'[t][2]} \ {NoClient}
      BY <3>2, <3>3, <3>4
    <3> QED
      BY <1>1, <3>4, <3>5, StackedElsewhere
  <2> QED
    BY <1>0, <2>1, <2>2
<1> QED
  BY <1>4, <1>5, <1>6, <1>7

(***************************************************************************)
(* Sleeping, waking and notifying touch nothing but the wait sets.         *)
(***************************************************************************)
LEMMA WaitStep ==
    ASSUME RetryInv, NEW t \in Threads,
           AwaitClient(t) \/ Signal(t) \/ Wakeup(t)
    PROVE  StackInv'
<1> USE DEF RetryInv, StackInv
<1>1. UNCHANGED <<held, depth, client, target>>
  BY DEF AwaitClient, Signal, Wakeup, Sleep, NotifyOne, SpuriousWakeup, callVars
<1>2. NestedInRename' /\ StackShape'
  BY <1>1 DEF NestedInRename, StackShape
<1>3. \A u \in (waiting \cup woken)' : u \in waiting \cup woken \/ Acquiring(u)
  BY DEF AwaitClient, Signal, Wakeup, Sleep, NotifyOne, SpuriousWakeup
<1>4. SleepersAcquire'
  BY <1>1, <1>3 DEF SleepersAcquire, Acquiring
<1>5. HeldIsStacked'
  BY <1>1, HeldUnchanged
<1> QED
  BY <1>2, <1>4, <1>5

LEMMA RetryInvStep == RetryInv /\ [Next]_vars => RetryInv'
<1> SUFFICES ASSUME RetryInv, [Next]_vars PROVE RetryInv'
  OBVIOUS
<1>1. TypeOK'
  BY TypeStep DEF RetryInv
<1>2. ClientsExclusive'
  BY PoolStep, ExclusiveStep DEF RetryInv, TypeOK
<1>3. ASSUME NEW t \in Threads, NEW r, GiveBack(t), Return(t, r) PROVE StackInv'
  BY <1>3, GiveBackStep DEF Return
<1>4. ASSUME NEW t \in Threads, ServerError(t) PROVE StackInv'
  <2>1. GiveBack(t)
    BY <1>4 DEF ServerError
  <2>2. CASE Return(t, "EINVAL")
    BY <2>1, <2>2, <1>3
  <2>3. CASE ~Return(t, "EINVAL")
    <3>1. /\ depth' = depth
          /\ target' = [target EXCEPT ![t] = IF depth[t] = 1 /\ @ = "asked"
                                             THEN "todo" ELSE @]
      BY <1>4, <2>3 DEF ServerError
    <3>2. \A u \in Threads : target'[u] # "plain" => target[u] # "plain"
      BY <3>1 DEF RetryInv, TypeOK
    <3> QED
      BY <2>1, <3>1, <3>2, GiveBackStep
  <2> QED
    BY <2>2, <2>3
<1>5. ASSUME NEW t \in Threads, Work(t) PROVE StackInv'
  <2>1. CASE AcquireClient(t)
    BY <2>1, AcquireStep
  <2>2. CASE AwaitClient(t) \/ Signal(t)
    BY <2>2, WaitStep
  <2>3. CASE LookupTarget(t)
    BY <2>3, LookupStep
  <2>4. CASE CallReturns(t) \/ CallRefused(t)
    BY <2>4, <1>3 DEF CallReturns, CallRefused
  <2> QED
    BY <1>4, <1>5, <2>1, <2>2, <2>3, <2>4 DEF Work
<1>6. ASSUME NEW t \in Threads, NEW k \in {"plain", "todo"}, Begin(t, k)
      PROVE  StackInv'
  BY <1>6, BeginStep
<1>7. ASSUME NEW t \in Threads, Wakeup(t) PROVE StackInv'
  BY <1>7, WaitStep
<1>8. ASSUME Served \/ UNCHANGED vars PROVE StackInv'
  <2>1. UNCHANGED <<held, waiting, woken, depth, client, target>>
    BY <1>8 DEF Served, vars
  <2>2. NestedInRename' /\ StackShape' /\ SleepersAcquire'
    BY <2>1
    DEF RetryInv, StackInv, NestedInRename, StackShape, SleepersAcquire,
        Acquiring
  <2>3. HeldIsStacked'
    BY <2>1, HeldUnchanged DEF RetryInv, StackInv
  <2> QED
    BY <2>2, <2>3 DEF StackInv
<1>9. StackInv'
  BY <1>5, <1>6, <1>7, <1>8 DEF Next
<1> QED
  BY <1>1, <1>2, <1>9 DEF RetryInv

(***************************************************************************)
(* The inductive invariant holds: calls nest in renames only, the clients  *)
(* of a stack differ, and only threads inside acquire() sleep.             *)
(***************************************************************************)
THEOREM RetryInvariant == Safety => []RetryInv
BY RetryInvInit, RetryInvStep, PTL DEF Safety

-----------------------------------------------------------------------------
(***************************************************************************)
(* No path out of an attempt (return, refusal, server error, last retry)   *)
(* leaks a client or keeps one twice.                                      *)
(***************************************************************************)
THEOREM NothingLeaks == Safety => []HeldIsStacked
<1>1. RetryInv => HeldIsStacked
  BY DEF RetryInv, StackInv
<1> QED
  BY <1>1, RetryInvariant, PTL

LEMMA SleepersLemma == RetryInv => SleepersHoldLittle
<1> SUFFICES ASSUME RetryInv, NEW t \in waiting
             PROVE  /\ \A c, d \in held[t] : c = d
                    /\ held[t] # {} => t \in Renamers
  BY DEF SleepersHoldLittle
<1> USE DEF RetryInv, StackInv
<1>1. t \in Threads /\ depth[t] \in 1..2 /\ client[t][depth[t]] = NoClient
  BY DEF TypeOK, PoolTypeOK, SleepersAcquire, Acquiring
<1>2. depth[t] = 1 => held[t] = {}
  BY <1>1, HeldByDepth
<1>3. depth[t] = 2 => t \in Renamers /\ held[t] \subseteq {client[t][1]}
  BY <1>1, HeldByDepth DEF NestedInRename
<1>4. held[t] \subseteq {client[t][1]} /\ (held[t] # {} => t \in Renamers)
  BY <1>1, <1>2, <1>3
<1> QED
  BY <1>4

(***************************************************************************)
(* A thread asleep in acquire() owns at most one client, and then it is    *)
(* serving a rename.                                                       *)
(***************************************************************************)
THEOREM HoldAndWaitIsBounded == Safety => []SleepersHoldLittle
BY SleepersLemma, RetryInvariant, PTL

(***************************************************************************)
(* If everybody slept, every client would belong to a different renamer.   *)
(***************************************************************************)
LEMMA DeadlockNeedsRenames ==
    ASSUME PoolTypeOK, ClientsConserved, NoLostWakeup, SleepersHoldLittle,
           Cardinality(Renamers) < Cardinality(Clients)
    PROVE  NoPoolDeadlock
<1> SUFFICES ASSUME waiting # {}, woken = {}, notifying = {},
                    \A t \in Threads \ waiting : held[t] = {}
             PROVE  FALSE
  BY DEF NoPoolDeadlock
<1>1. IsFiniteSet(Renamers)
  BY PoolAssumption, RetryAssumption, FS_Subset
<1>2. Idle = {}
  <2>1. Cardinality(woken) = 0 /\ Cardinality(notifying) = 0
    BY FS_EmptySet
  <2>2. Len(objects) = 0
    BY <2>1 DEF NoLostWakeup, PoolTypeOK
  <2> QED
    BY <2>2 DEF Idle
<1>3. \A c \in Clients : \E t \in Renamers : t \in waiting /\ c \in held[t]
  <2> SUFFICES ASSUME NEW c \in Clients
               PROVE  \E t \in Renamers : t \in waiting /\ c \in held[t]
    OBVIOUS
  <2>1. PICK t \in Threads : c \in held[t]
    BY <1>2 DEF ClientsConserved
  <2> QED
    BY <2>1 DEF SleepersHoldLittle
<1> DEFINE owner == [c \in Clients |->
                        CHOOSE t \in Renamers : t \in waiting /\ c \in held[t]]
<1>4. \A c \in Clients : /\ owner[c] \in Renamers
                         /\ owner[c] \in waiting
                         /\ c \in held[owner[c]]
  BY <1>3
<1>5. owner \in Injection(Clients, Renamers)
  <2>1. owner \in [Clients -> Renamers]
    BY <1>4
  <2>2. ASSUME NEW c \in Clients, NEW d \in Clients, owner[c] = owner[d]
        PROVE  c = d
    <3> HIDE DEF owner
    <3> QED
      BY <2>2, <1>4 DEF SleepersHoldLittle
  <2> HIDE DEF owner
  <2> QED
    BY <2>1, <2>2 DEF Injection, IsInjective
<1>6. Cardinality(Clients) <= Cardinality(Renamers)
  BY <1>1, <1>5, FS_Injection
<1> QED
  BY <1>1, <1>6, PoolAssumption, FS_CardinalityType

(***************************************************************************)
(* Fewer threads that rename than clients: the pool never blocks for good, *)
(* whatever the number of threads, attempts and requests.                  *)
(***************************************************************************)
THEOREM FewRenamesNeverBlock ==
    ASSUME Cardinality(Renamers) < Cardinality(Clients)
    PROVE  Safety => []NoPoolDeadlock
<1>1. PoolTypeOK /\ ClientsConserved /\ NoLostWakeup /\ SleepersHoldLittle
        => NoPoolDeadlock
  BY DeadlockNeedsRenames
<1> QED
  BY <1>1, RefinesPool, PoolTypeCorrect, PoolConserved, PoolNoLostWakeup,
     HoldAndWaitIsBounded, PTL
=============================================================================
