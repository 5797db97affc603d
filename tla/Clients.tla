------------------------------ MODULE Clients ------------------------------
(***************************************************************************)
(* What is built on top of a container: rcu, Cache and MapCache, the       *)
(* accesses of module Access, Debug and Serialize, and plain stores, all   *)
(* at the same time on one container that keeps the promises of module     *)
(* Container.  Every step is one step of the container or a private one.   *)
(***************************************************************************)
EXTENDS Container, Access, Integers

CONSTANTS
  Nullable,    \* whether the container is an ArcSwapOption
  Ops,         \* Ops[t]: the calls that thread t makes
  MaxCalls,    \* bound: how many of them
  Accesses     \* the accesses that are loaded

ClientRoles == {"cur", "new", "prev", "cached", "fresh", "guard"}
OpNames == {"rcu", "store", "cache", "access", "fmt", "serialize"}

ASSUME ClientConstants ==
  /\ Roles = ClientRoles /\ Nullable \in BOOLEAN
  /\ Ops \in [Threads -> SUBSET OpNames] /\ MaxCalls \in [Threads -> Nat]

VARIABLES
  obj,         \* the contents of the object at each address
  pc, calls,
  acc,         \* the access whose guard a thread holds
  loaded,      \* history: the contents that its load found
  log,         \* history: what the exchanges of t's rcu replaced, by what
  since,       \* history: what the container held since t's call began
  credit       \* history: how often that changed, less t's failed exchanges

local == <<acc, loaded, log>>
vars == <<cvars, obj, pc, calls, local, since, credit>>

Cur(t) == <<t, "cur">>
New(t) == <<t, "new">>
Prev(t) == <<t, "prev">>
Cached(t) == <<t, "cached">>
Fresh(t) == <<t, "fresh">>
Guard(t) == <<t, "guard">>

(* What a pointer leads to; None counts as nothing. *)
Contents(p) == IF p = Null THEN 0 ELSE obj[p]

(* The constructors: from_pointee, and empty for an Option. *)
FromPointee == \E p \in Ptrs : ptr = p
EmptyOption == Nullable /\ ptr = Null

ClientInit ==
  /\ Init /\ (FromPointee \/ EmptyOption)
  /\ obj = [p \in Ptrs |-> 0]
  /\ pc = [t \in Threads |-> "idle"]
  /\ calls = [t \in Threads |-> 0]
  /\ acc = [t \in Threads |-> Guarded]
  /\ loaded = [t \in Threads |-> 0]
  /\ log = [t \in Threads |-> <<>>]
  /\ since = [t \in Threads |-> {}]
  /\ credit = [t \in Threads |-> 0]

Goto(t, l) == pc' = [pc EXCEPT ![t] = l]
StartOf(t, op, l) ==
  /\ pc[t] = "idle" /\ calls[t] < MaxCalls[t] /\ op \in Ops[t]
  /\ calls' = [calls EXCEPT ![t] = @ + 1]
  /\ Goto(t, l)
At(t, l, m) == pc[t] = l /\ Goto(t, m) /\ UNCHANGED calls

(* A new object with contents n. *)
Allocate(r, n) ==
  \E p \in Ptrs \ live : Acquire(r, p) /\ obj' = [obj EXCEPT ![p] = n]

----------------------------------------------------------------------------
(* rcu.  The closure counts, so that a lost update shows. *)

F(n) == n + 1

Rcu(t) ==
  /\ StartOf(t, "rcu", "rcu_load")
  /\ Begin(t, "load", NONE)
  /\ log' = [log EXCEPT ![t] = <<>>]
  /\ UNCHANGED <<obj, acc, loaded>>

RcuLoad(t) ==
  /\ At(t, "rcu_load", "rcu_f")
  /\ Load(t, Cur(t))
  /\ UNCHANGED <<obj, local>>

RcuF(t) ==
  /\ At(t, "rcu_f", "rcu_begin")
  /\ Allocate(New(t), F(Contents(hold[Cur(t)])))
  /\ UNCHANGED local

RcuBegin(t) ==
  /\ At(t, "rcu_begin", "rcu_cas")
  /\ Begin(t, "compare_and_swap", hold[Cur(t)])
  /\ UNCHANGED <<obj, local>>

RcuCas(t) ==
  /\ CompareAndSwap(t, New(t), Prev(t))
  /\ \/ /\ hold'[New(t)] = NONE
        /\ At(t, "rcu_cas", "rcu_check")
        /\ log' = [log EXCEPT ![t] = Append(@, <<Contents(ptr), Contents(ptr')>>)]
        /\ UNCHANGED <<acc, loaded>>
     \/ /\ hold'[New(t)] # NONE
        /\ At(t, "rcu_cas", "rcu_drop_new")
        /\ UNCHANGED local
  /\ UNCHANGED obj

(* compare_and_swap drops the value that did not go in. *)
RcuDropNew(t) ==
  /\ At(t, "rcu_drop_new", "rcu_check")
  /\ Drop(New(t))
  /\ UNCHANGED <<obj, local>>

(* Mutant: returns whether the value went in or not. *)
PtrEq_True(a, b) == TRUE

PtrEq(a, b) == a = b

(* Mutant: the next attempt starts from the same value. *)
RcuCheck_KeepsCur(t) ==
  /\ \/ /\ PtrEq(hold[Cur(t)], hold[Prev(t)])
        /\ At(t, "rcu_check", "rcu_done")
        /\ Drop(Cur(t))
     \/ /\ ~PtrEq(hold[Cur(t)], hold[Prev(t)])
        /\ At(t, "rcu_check", "rcu_f")
        /\ Drop(Prev(t))
  /\ UNCHANGED <<obj, local>>

(* The exchange went in if it returned what was expected; if not, what it  *)
(* returned is the value to start from next time.                          *)
RcuCheck(t) ==
  /\ \/ /\ PtrEq(hold[Cur(t)], hold[Prev(t)])
        /\ At(t, "rcu_check", "rcu_done")
        /\ Drop(Cur(t))
     \/ /\ ~PtrEq(hold[Cur(t)], hold[Prev(t)])
        /\ At(t, "rcu_check", "rcu_f")
        /\ Assign(Cur(t), Prev(t))
  /\ UNCHANGED <<obj, local>>

(* The caller drops the result. *)
RcuDone(t) ==
  /\ At(t, "rcu_done", "idle")
  /\ Drop(Prev(t))
  /\ UNCHANGED <<obj, local>>

----------------------------------------------------------------------------
(* A store, of a new object or of one that was there before. *)

Store(t) ==
  /\ StartOf(t, "store", "store_swap")
  /\ \/ Allocate(New(t), 0)
     \/ Nullable /\ Acquire(New(t), Null) /\ UNCHANGED obj
     \/ /\ hold[Cached(t)] # NONE
        /\ Acquire(New(t), hold[Cached(t)])
        /\ UNCHANGED obj
  /\ UNCHANGED local

StoreSwap(t) ==
  /\ At(t, "store_swap", "store_drop")
  /\ Swap(New(t), Prev(t))
  /\ UNCHANGED <<obj, local>>

StoreDrop(t) ==
  /\ At(t, "store_drop", "idle")
  /\ Drop(Prev(t))
  /\ UNCHANGED <<obj, local>>
----------------------------------------------------------------------------
(* Cache.  What it shows is used before anything else happens to it. *)

(* Cache::new, and the load that finds the cached pointer outdated, fill   *)
(* the cache by load_full.                                                 *)
CacheNew(t) ==
  /\ hold[Cached(t)] = NONE
  /\ StartOf(t, "cache", "cache_fill")
  /\ Begin(t, "load", NONE)
  /\ UNCHANGED <<obj, local>>

CacheLoad(t) ==
  /\ hold[Cached(t)] # NONE
  /\ StartOf(t, "cache", "revalidate")
  /\ UNCHANGED <<cvars, obj, local>>

(* Mutant: a cache that is filled is never looked at again. *)
Revalidate_Never(t) ==
  /\ At(t, "revalidate", "cache_use")
  /\ UNCHANGED <<cvars, obj, local>>

(* revalidate: only the pointers are compared. *)
Revalidate(t) ==
  /\ \/ hold[Cached(t)] = ptr /\ At(t, "revalidate", "cache_use")
     \/ hold[Cached(t)] # ptr /\ At(t, "revalidate", "refill")
  /\ UNCHANGED <<cvars, obj, local>>

Refill(t) ==
  /\ At(t, "refill", "cache_fill")
  /\ Begin(t, "load", NONE)
  /\ UNCHANGED <<obj, local>>

CacheFill(t) ==
  /\ At(t, "cache_fill", "cache_assign")
  /\ Load(t, Fresh(t))
  /\ UNCHANGED <<obj, local>>

CacheAssign(t) ==
  /\ At(t, "cache_assign", "cache_use")
  /\ Assign(Cached(t), Fresh(t))
  /\ UNCHANGED <<obj, local>>

CacheUse(t) ==
  /\ At(t, "cache_use", "idle")
  /\ UNCHANGED <<cvars, obj, local>>

(* What the load of a Cache shows, and of a MapCache on top of it. *)
CacheShows(t) == Cfg(Contents(hold[Cached(t)]))
MapCacheShows(t, f) == CacheShows(t)[f]

CacheDrop(t) ==
  /\ pc[t] = "idle"
  /\ Drop(Cached(t))
  /\ UNCHANGED <<obj, pc, calls, local>>

----------------------------------------------------------------------------
(* An access is loaded, its guard looked through for a while, and dropped. *)
(* A constant is cloned into its guard and the container plays no part.    *)

AccessBegin(t, op, a) ==
  /\ acc' = [acc EXCEPT ![t] = a]
  /\ \/ /\ a.leaf # "ConstantDeref"
        /\ StartOf(t, op, "access_load")
        /\ Begin(t, "load", NONE)
        /\ UNCHANGED loaded
     \/ /\ a.leaf = "ConstantDeref"
        /\ StartOf(t, op, "constant_use")
        /\ loaded' = [loaded EXCEPT ![t] = 0]
        /\ UNCHANGED cvars
  /\ UNCHANGED <<obj, log>>

(* Debug (and Display) and Serialize look through a plain guard. *)
Fmt(t) == AccessBegin(t, "fmt", Guarded)
Serialize(t) == AccessBegin(t, "serialize", Guarded)

AccessGuard(t) ==
  /\ At(t, "access_load", "access_use")
  /\ Load(t, Guard(t))
  /\ loaded' = [loaded EXCEPT ![t] = Contents(hold'[Guard(t)])]
  /\ UNCHANGED <<obj, acc, log>>

(* What the user sees through the guard at any time. *)
AccessShows(t) ==
  Deref(AccessLoad(acc[t]),
        IF acc[t].leaf = "ConstantDeref" THEN 0 ELSE Contents(hold[Guard(t)]))

AccessDrop(t) ==
  /\ \/ At(t, "access_use", "idle") /\ Drop(Guard(t))
     \/ At(t, "constant_use", "idle") /\ UNCHANGED cvars
  /\ UNCHANGED <<obj, local>>

----------------------------------------------------------------------------
Call(t) ==
  \/ Rcu(t) \/ Store(t) \/ CacheNew(t) \/ CacheLoad(t) \/ CacheDrop(t)
  \/ Fmt(t) \/ Serialize(t) \/ \E a \in Accesses : AccessBegin(t, "access", a)

Step(t) ==
  \/ RcuLoad(t) \/ RcuF(t) \/ RcuBegin(t) \/ RcuCas(t) \/ RcuDropNew(t)
  \/ RcuCheck(t) \/ RcuDone(t) \/ StoreSwap(t) \/ StoreDrop(t)
  \/ Revalidate(t) \/ Refill(t) \/ CacheFill(t) \/ CacheAssign(t) \/ CacheUse(t)
  \/ AccessGuard(t) \/ AccessDrop(t)

InRcu == {"rcu_load", "rcu_f", "rcu_begin", "rcu_cas", "rcu_drop_new", "rcu_check"}

Track ==
  /\ since' = [t \in Threads |->
                 IF pc'[t] # "idle"
                 THEN (since[t] \cup {ptr'}) \cap (live' \cup {Null}) ELSE {}]
  /\ credit' = [t \in Threads |->
                  IF pc'[t] \in InRcu
                  THEN credit[t] + (IF ptr' # ptr THEN 1 ELSE 0)
                         - (IF pc[t] # "rcu_drop_new" /\ pc'[t] = "rcu_drop_new" THEN 1 ELSE 0)
                  ELSE 0]

ClientNext == \E t \in Threads : (Call(t) \/ Step(t)) /\ Track

ClientSpec == ClientInit /\ [][ClientNext]_vars

----------------------------------------------------------------------------
(* Properties. *)

(* An rcu that returns has put its update in exactly once, computed from   *)
(* the very value that it replaced and returns, however often it had to    *)
(* try and whatever was stored in between, also if that was an earlier     *)
(* object again (ArcSwapAny::rcu).                                         *)
RcuOnce ==
  \A t \in Threads : pc[t] = "rcu_done" =>
    LET before == Contents(hold[Prev(t)]) IN log[t] = <<<<before, F(before)>>>>

(* A load from a Cache or a MapCache shows what the container held at some *)
(* time since the load began, although the cache compares nothing but an   *)
(* address (Cache::revalidate).                                            *)
CacheFresh ==
  \A t \in Threads : pc[t] = "cache_use" =>
    /\ hold[Cached(t)] \in since[t]
    /\ \A f \in Fields :
         \E p \in since[t] : MapCacheShows(t, f) = Cfg(Contents(p))[f]

(* One guard always shows the part that its access selects of the one      *)
(* object that was loaded, whatever is stored, dropped and allocated while *)
(* it is kept (src/access.rs, MapGuard and DynGuard).                      *)
GuardStable ==
  \A t \in Threads : pc[t] \in {"access_use", "constant_use"} =>
    AccessShows(t) = Part(acc[t], loaded[t])

(* rcu is lock-free: it fails at most as often as the container changed    *)
(* since it began, so that of several rcus some one always gets on.        *)
RcuLockFree == \A t \in Threads : credit[t] >= 0
=============================================================================
