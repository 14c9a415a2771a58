----------------------------- MODULE ObjectPool -----------------------------
(***************************************************************************)
(* The pool of authenticated REST clients, src/src/object_pool.h.          *)
(*                                                                         *)
(* acquire() takes the first idle object or sleeps on a condition          *)
(* variable; the deleter of the shared pointer it returns puts the object  *)
(* back with add(), which unlocks the mutex and only then calls            *)
(* notify_one().  A critical section of acquire_mutex is one step; the     *)
(* unlocked window between emplace_back and notify_one is a state.         *)
(***************************************************************************)
EXTENDS Naturals, Sequences, FiniteSets

CONSTANTS Clients,  \* the pooled objects (main.cpp populates 25 of them)
          Threads   \* the FUSE worker threads that use the pool

ASSUME PoolAssumption == IsFiniteSet(Clients) /\ IsFiniteSet(Threads)

VARIABLES objects,    \* the list of idle objects, front first
          held,       \* held[t]: the objects thread t owns a shared_ptr to
          waiting,    \* threads asleep in condition.wait
          woken,      \* threads that left the wait set and must recheck
          notifying   \* threads in add(), past the unlock, before notify_one

poolVars == <<objects, held, waiting, woken, notifying>>

Idle == {objects[i] : i \in 1..Len(objects)}

PoolTypeOK ==
    /\ objects \in Seq(Clients)
    /\ held \in [Threads -> SUBSET Clients]
    /\ waiting \in SUBSET Threads
    /\ woken \in SUBSET Threads
    /\ notifying \in SUBSET Threads

(***************************************************************************)
(* populate(): every object is idle, in some order.                        *)
(***************************************************************************)
PoolInit ==
    /\ objects \in {s \in [1..Cardinality(Clients) -> Clients] :
                        \A i, j \in DOMAIN s : s[i] = s[j] => i = j}
    /\ held = [t \in Threads |-> {}]
    /\ waiting = {}
    /\ woken = {}
    /\ notifying = {}

-----------------------------------------------------------------------------
(* Faulty variants, used only to show that the properties have teeth. *)

TakeWithoutPop(t) ==
    /\ t \notin waiting \cup notifying
    /\ objects # <<>>
    /\ held' = [held EXCEPT ![t] = @ \cup {Head(objects)}]
    /\ woken' = woken \ {t}
    /\ UNCHANGED <<objects, waiting, notifying>>

AddWithoutNotify(t, c) ==
    /\ t \notin waiting \cup woken \cup notifying
    /\ c \in held[t]
    /\ held' = [held EXCEPT ![t] = @ \ {c}]
    /\ objects' = Append(objects, c)
    /\ UNCHANGED <<waiting, woken, notifying>>

DropInDeleter(t, c) ==
    /\ t \notin waiting \cup woken \cup notifying
    /\ c \in held[t]
    /\ held' = [held EXCEPT ![t] = @ \ {c}]
    /\ notifying' = notifying \cup {t}
    /\ UNCHANGED <<objects, waiting, woken>>

-----------------------------------------------------------------------------
(***************************************************************************)
(* acquire(): the predicate holds, either at the call or at the recheck    *)
(* after a wakeup; the front object moves to the caller.                   *)
(***************************************************************************)
Take(t) ==
    /\ t \notin waiting \cup notifying
    /\ objects # <<>>
    /\ held' = [held EXCEPT ![t] = @ \cup {Head(objects)}]
    /\ objects' = Tail(objects)
    /\ woken' = woken \ {t}
    /\ UNCHANGED <<waiting, notifying>>

(***************************************************************************)
(* acquire(): the predicate is false, so the caller sleeps (again).        *)
(***************************************************************************)
Sleep(t) ==
    /\ t \notin waiting \cup notifying
    /\ objects = <<>>
    /\ waiting' = waiting \cup {t}
    /\ woken' = woken \ {t}
    /\ UNCHANGED <<objects, held, notifying>>

(***************************************************************************)
(* A condition variable may wake a thread without any notification.        *)
(***************************************************************************)
SpuriousWakeup(t) ==
    /\ t \in waiting
    /\ waiting' = waiting \ {t}
    /\ woken' = woken \cup {t}
    /\ UNCHANGED <<objects, held, notifying>>

(***************************************************************************)
(* The last shared_ptr to c goes away: ExternalDeleter calls add(), whose  *)
(* critical section appends c to the list.                                 *)
(***************************************************************************)
Add(t, c) ==
    /\ t \notin waiting \cup woken \cup notifying
    /\ c \in held[t]
    /\ held' = [held EXCEPT ![t] = @ \ {c}]
    /\ objects' = Append(objects, c)
    /\ notifying' = notifying \cup {t}
    /\ UNCHANGED <<waiting, woken>>

(***************************************************************************)
(* The end of add(): notify_one() wakes one sleeper, if there is one.      *)
(***************************************************************************)
NotifyOne(t) ==
    /\ t \in notifying
    /\ notifying' = notifying \ {t}
    /\ \/ waiting = {} /\ UNCHANGED <<waiting, woken>>
       \/ \E w \in waiting : /\ waiting' = waiting \ {w}
                             /\ woken' = woken \cup {w}
    /\ UNCHANGED <<objects, held>>

PoolNext ==
    \E t \in Threads : \/ Take(t)
                       \/ Sleep(t)
                       \/ SpuriousWakeup(t)
                       \/ \E c \in Clients : Add(t, c)
                       \/ NotifyOne(t)

PoolSpec == PoolInit /\ [][PoolNext]_poolVars

-----------------------------------------------------------------------------
(***************************************************************************)
(* A curl handle is not thread-safe: no client is ever owned by two        *)
(* threads, owned while still listed as idle, or listed twice, so acquire  *)
(* never hands one client to two callers.                                  *)
(***************************************************************************)
ClientsExclusive ==
    /\ \A i, j \in 1..Len(objects) : objects[i] = objects[j] => i = j
    /\ \A t \in Threads : held[t] \cap Idle = {}
    /\ \A t, u \in Threads : t # u => held[t] \cap held[u] = {}

(***************************************************************************)
(* The deleter never loses a client: each one is idle or owned.            *)
(***************************************************************************)
ClientsConserved ==
    \A c \in Clients : c \in Idle \/ \E t \in Threads : c \in held[t]

(***************************************************************************)
(* add() signals after it has unlocked, so an idle client may be stolen    *)
(* before the sleeper it was meant for runs.  Even so, while somebody      *)
(* sleeps there is a wakeup under way for every idle client: a thread that *)
(* must recheck, or one that is about to call notify_one().                *)
(***************************************************************************)
NoLostWakeup ==
    waiting # {} => Len(objects) <= Cardinality(woken) + Cardinality(notifying)
=============================================================================
