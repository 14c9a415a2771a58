---------------------------- MODULE DoWithRetry -----------------------------
(***************************************************************************)
(* FUSE callbacks on top of the client pool: doWithRetry of                *)
(* src/src/fuse_hooks.cpp.  Every callback that talks to the cloud runs    *)
(* its request inside doWithRetry, which takes a client from the pool for  *)
(* one attempt, gives it back when the attempt returns or throws, and      *)
(* tries again after a 5xx answer.  renameCallback is the one callback     *)
(* that calls another (getattrCallback, for the target) while it holds a   *)
(* client, so calls nest two deep.                                         *)
(***************************************************************************)
EXTENDS ObjectPool

CONSTANTS Renamers,  \* the threads that may be given a rename request
          Retries,   \* attempts of one doWithRetry (3 in the code)
          MaxCalls,  \* bound: requests a thread serves in the burst
          NoClient   \* an attempt that has not acquired its client yet

ASSUME RetryAssumption == /\ Renamers \subseteq Threads
                          /\ Retries \in Nat \ {0}
                          /\ MaxCalls \in Nat
                          /\ NoClient \notin Clients

VARIABLES depth,   \* depth[t]: active doWithRetry calls of t (0, 1 or 2)
          client,  \* client[t][d]: the client of the attempt at depth d
          left,    \* left[t][d]: the retries counter at depth d
          target,  \* rename attempt: has the target been looked up?
          result,  \* what the last finished callback of t returned
          calls    \* requests t has begun

callVars == <<depth, client, left, target, result, calls>>
vars == <<objects, held, waiting, woken, notifying,
          depth, client, left, target, result, calls>>

Levels == 1..2
Results == {"none", "done", "EIO", "EINVAL"}

TypeOK ==
    /\ PoolTypeOK
    /\ depth \in [Threads -> 0..2]
    /\ client \in [Threads -> [Levels -> Clients \cup {NoClient}]]
    /\ left \in [Threads -> [Levels -> 0..Retries]]
    /\ target \in [Threads -> {"plain", "todo", "asked"}]
    /\ result \in [Threads -> Results]
    /\ calls \in [Threads -> 0..MaxCalls]

Init ==
    /\ PoolInit
    /\ depth = [t \in Threads |-> 0]
    /\ client = [t \in Threads |-> [d \in Levels |-> NoClient]]
    /\ left = [t \in Threads |-> [d \in Levels |-> 0]]
    /\ target = [t \in Threads |-> "plain"]
    /\ result = [t \in Threads |-> "none"]
    /\ calls = [t \in Threads |-> 0]

(* The attempt on top of t's stack is inside acquire(), or owns a client. *)
Acquiring(t) == depth[t] > 0 /\ client[t][depth[t]] = NoClient
Attempting(t) == depth[t] > 0 /\ client[t][depth[t]] # NoClient

-----------------------------------------------------------------------------
(* Faulty variants, used only to show that the properties have teeth. *)
LeakOnThrow(t) ==
    /\ Attempting(t)
    /\ t \notin notifying
    /\ client' = [client EXCEPT ![t][depth[t]] = NoClient]
    /\ UNCHANGED poolVars

GiveBackSilently(t) ==
    /\ Attempting(t)
    /\ AddWithoutNotify(t, client[t][depth[t]])
    /\ client' = [client EXCEPT ![t][depth[t]] = NoClient]

LookupByEverybody(t) ==
    /\ Attempting(t)
    /\ t \notin notifying
    /\ depth[t] = 1
    /\ depth' = [depth EXCEPT ![t] = 2]
    /\ left' = [left EXCEPT ![t][2] = Retries]
    /\ UNCHANGED <<poolVars, client, target, result, calls>>

(***************************************************************************)
(* A request arrives: a callback that makes one guarded call, or a rename. *)
(***************************************************************************)
Begin(t, k) ==
    /\ depth[t] = 0
    /\ t \notin notifying
    /\ calls[t] < MaxCalls
    /\ k = "todo" => t \in Renamers
    /\ depth' = [depth EXCEPT ![t] = 1]
    /\ left' = [left EXCEPT ![t][1] = Retries]
    /\ target' = [target EXCEPT ![t] = k]
    /\ calls' = [calls EXCEPT ![t] = @ + 1]
    /\ UNCHANGED <<poolVars, client, result>>

(***************************************************************************)
(* clientPool.acquire() returns, or blocks.                                *)
(***************************************************************************)
AcquireClient(t) ==
    /\ Acquiring(t)
    /\ Take(t)
    /\ client' = [client EXCEPT ![t][depth[t]] = Head(objects)]
    /\ UNCHANGED <<depth, left, target, result, calls>>

AwaitClient(t) ==
    /\ Acquiring(t)
    /\ Sleep(t)
    /\ UNCHANGED callVars

(***************************************************************************)
(* renameCallback's lambda calls getattrCallback(newPath) and the stat     *)
(* cache misses: a second doWithRetry starts while the first one keeps its *)
(* client.  (On a cache hit the lambda goes on without this step.)         *)
(***************************************************************************)
LookupTarget(t) ==
    /\ Attempting(t)
    /\ t \notin notifying
    /\ depth[t] = 1
    /\ target[t] = "todo"
    /\ target' = [target EXCEPT ![t] = "asked"]
    /\ depth' = [depth EXCEPT ![t] = 2]
    /\ left' = [left EXCEPT ![t][2] = Retries]
    /\ UNCHANGED <<poolVars, client, result, calls>>

(***************************************************************************)
(* Leaving doWithRetry with code r.  The nested call's code only tells the *)
(* rename whether the target exists.                                       *)
(***************************************************************************)
Return(t, r) ==
    /\ depth' = [depth EXCEPT ![t] = @ - 1]
    /\ result' = IF depth[t] = 1 THEN [result EXCEPT ![t] = r] ELSE result
    /\ UNCHANGED <<left, target, calls>>

GiveBack(t) ==
    /\ Attempting(t)
    /\ Add(t, client[t][depth[t]])
    /\ client' = [client EXCEPT ![t][depth[t]] = NoClient]

(* Faulty variants: retries that are not counted, or counted past zero. *)
RetryForever(t) ==
    /\ GiveBack(t)
    /\ target' = [target EXCEPT ![t] = IF depth[t] = 1 /\ @ = "asked"
                                       THEN "todo" ELSE @]
    /\ UNCHANGED <<depth, left, result, calls>>

CountBelowZero(t) ==
    /\ GiveBack(t)
    /\ left' = [left EXCEPT ![t][depth[t]] = @ - 1]
    /\ UNCHANGED <<depth, target, result, calls>>

(***************************************************************************)
(* The lambda returns; the client goes back to the pool.                   *)
(***************************************************************************)
CallReturns(t) == GiveBack(t) /\ Return(t, "done")

(***************************************************************************)
(* MailApiException with a code below 500 (0 for a curl failure): -EIO.    *)
(***************************************************************************)
CallRefused(t) == GiveBack(t) /\ Return(t, "EIO")

(***************************************************************************)
(* MailApiException with a 5xx code: one retry less.  Unwinding has given  *)
(* the client back before the handler runs, so the next attempt acquires   *)
(* anew; when the counter is used up the loop ends with -EINVAL.           *)
(***************************************************************************)
ServerError(t) ==
    /\ GiveBack(t)
    /\ \/ /\ left[t][depth[t]] > 1
          /\ left' = [left EXCEPT ![t][depth[t]] = @ - 1]
          /\ target' = [target EXCEPT ![t] = IF depth[t] = 1 /\ @ = "asked"
                                             THEN "todo" ELSE @]
          /\ UNCHANGED <<depth, result, calls>>
       \/ /\ left[t][depth[t]] = 1
          /\ Return(t, "EINVAL")

Wakeup(t) == SpuriousWakeup(t) /\ UNCHANGED callVars
Signal(t) == NotifyOne(t) /\ UNCHANGED callVars

(* What a worker thread does once it has a request. *)
Work(t) ==
    \/ AcquireClient(t)
    \/ AwaitClient(t)
    \/ LookupTarget(t)
    \/ CallReturns(t)
    \/ CallRefused(t)
    \/ ServerError(t)
    \/ Signal(t)

(* Every request of the burst has been served. *)
Served ==
    /\ \A t \in Threads : depth[t] = 0 /\ calls[t] = MaxCalls
    /\ notifying = {}
    /\ UNCHANGED vars

Next ==
    \/ \E t \in Threads : \/ \E k \in {"plain", "todo"} : Begin(t, k)
                          \/ Work(t)
                          \/ Wakeup(t)
    \/ Served

(***************************************************************************)
(* The operating system runs every thread that can run, and the cloud      *)
(* answers every request; nothing forces a request to arrive or a sleeper  *)
(* to wake without a notification.                                         *)
(***************************************************************************)
Fairness == \A t \in Threads : WF_vars(Work(t))

Safety == Init /\ [][Next]_vars
Spec == Safety /\ Fairness

-----------------------------------------------------------------------------
(***************************************************************************)
(* Whatever way an attempt ends (return, refusal, server error, retry),    *)
(* exactly the clients of the attempts still on the stack are owned: no    *)
(* exception path leaks a client and an idle thread owns none.             *)
(***************************************************************************)
HeldIsStacked ==
    \A t \in Threads :
        held[t] = {client[t][d] : d \in 1..depth[t]} \ {NoClient}

(***************************************************************************)
(* Hold-and-wait is bounded: a thread asleep in acquire() owns at most one *)
(* client, and only if it is serving a rename.                             *)
(***************************************************************************)
SleepersHoldLittle ==
    \A t \in waiting : /\ \A c, d \in held[t] : c = d
                       /\ held[t] # {} => t \in Renamers

(***************************************************************************)
(* If somebody sleeps, somebody can move: a woken thread, one about to     *)
(* notify, or one that owns a client and is not asleep itself.  This is    *)
(* what fails when as many renames as there are clients look up their      *)
(* targets at once.                                                        *)
(***************************************************************************)
NoPoolDeadlock ==
    waiting # {} => \/ woken # {}
                    \/ notifying # {}
                    \/ \E t \in Threads \ waiting : held[t] # {}

(***************************************************************************)
(* README.md: "multithreaded, you can work with multiple files at once":   *)
(* every request of a burst is answered.                                   *)
(***************************************************************************)
EveryCallReturns == \A t \in Threads : depth[t] > 0 ~> depth[t] = 0
=============================================================================
