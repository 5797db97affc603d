------------------------------- MODULE RwLock -------------------------------
(***************************************************************************)
(* One ArcSwapAny with the strategy RwLock<()>: a load reads the pointer   *)
(* and counts it under the read lock, a swap exchanges the pointer without *)
(* any lock and then waits for the readers by taking the write lock, and   *)
(* compare_and_swap runs under the write lock.  One action is one access   *)
(* to the pointer, to a count or to the lock (std::sync::RwLock).          *)
(***************************************************************************)
EXTENDS SmartPtr, FiniteSets

CONSTANTS
  N,           \* threads
  Types,       \* the types of pointer that the container may be of
  Ops,         \* Ops[t]: the calls that thread t makes
  MaxCalls     \* bound: how many of them

Threads == 1..N
OpNames == {"new", "load", "store", "swap", "compare_and_swap", "drop",
            "into_inner"}
Roles == {"new", "res"}

ASSUME RwLockConstants ==
  /\ N \in Nat /\ Ops \in [Threads -> SUBSET OpNames] /\ MaxCalls \in [Threads -> Nat]
  /\ Null \notin Ptrs /\ NONE \notin Ptrs /\ NONE # Null
  /\ NONE \notin Threads /\ \A T \in Types : NONE \notin ValuesOf(T)
  /\ Types \subseteq {T \in [none : BOOLEAN, empty : BOOLEAN, sync : BOOLEAN] :
                        ~(T.none /\ T.empty)}

VARIABLES
  ty,              \* the type T of the container
  ptr,             \* ArcSwapAny::ptr, NONE: there is no container
  cnt,             \* how many values of type T own the object at an address
  readers, locked, \* the lock: who holds it for reading, for writing
  new, res,        \* values of a thread: argument and result of its call
  pc, op, cur,     \* where in which call it is, and the current of that
  calls,
  seen             \* history: what the container held since t's load began

lock == <<readers, locked>>
thread == <<new, res, pc, op, cur, calls>>
vars == <<ty, ptr, cnt, lock, thread, seen>>

Init ==
  /\ ty \in Types
  /\ ptr = NONE
  /\ cnt = [p \in Ptrs |-> 0]
  /\ readers = {} /\ locked = NONE
  /\ new = [t \in Threads |-> NONE]
  /\ res = [t \in Threads |-> NONE]
  /\ pc = [t \in Threads |-> "idle"]
  /\ op = [t \in Threads |-> "none"]
  /\ cur = [t \in Threads |-> NONE]
  /\ calls = [t \in Threads |-> 0]
  /\ seen = [t \in Threads |-> {}]

Goto(t, l) == pc' = [pc EXCEPT ![t] = l]

Return(t) ==
  /\ Goto(t, "idle")
  /\ op' = [op EXCEPT ![t] = "none"]
  /\ cur' = [cur EXCEPT ![t] = NONE]

----------------------------------------------------------------------------
(* std::sync::RwLock.  Only who may hold it together matters here. *)

AcquireRead(t) == locked = NONE /\ readers' = readers \cup {t} /\ UNCHANGED locked
AcquireWrite(t) == locked = NONE /\ readers = {} /\ locked' = t /\ UNCHANGED readers
ReleaseRead(t) == readers' = readers \ {t} /\ UNCHANGED locked
ReleaseWrite(t) == locked' = NONE /\ UNCHANGED readers

----------------------------------------------------------------------------
(* InnerStrategy::load.  Guards are plain values of type T. *)

ReadLock(t) ==
  /\ pc[t] = "read_lock"
  /\ AcquireRead(t)
  /\ Goto(t, "read")
  /\ UNCHANGED <<ty, ptr, cnt, new, res, op, cur, calls>>

Read(t) ==
  /\ pc[t] = "read"
  /\ res' = [res EXCEPT ![t] = FromPtr(ty, ptr)]
  /\ Goto(t, "read_inc")
  /\ UNCHANGED <<ty, ptr, cnt, lock, new, op, cur, calls>>

ReadInc(t) ==
  /\ pc[t] = "read_inc"
  /\ cnt' = Cloned(cnt, res[t])
  /\ Goto(t, "read_unlock")
  /\ UNCHANGED <<ty, ptr, lock, new, res, op, cur, calls>>

ReadUnlock(t) ==
  /\ pc[t] = "read_unlock"
  /\ ReleaseRead(t)
  /\ Return(t)
  /\ UNCHANGED <<ty, ptr, cnt, new, res, calls>>

----------------------------------------------------------------------------
(* ArcSwapAny::swap, then wait_for_readers; drop and into_inner begin with *)
(* the latter.  store and drop release what they got.                      *)

Swap(t) ==
  /\ pc[t] = "swap"
  /\ ptr' = IntoPtr(new[t])
  /\ new' = [new EXCEPT ![t] = NONE]
  /\ res' = [res EXCEPT ![t] = FromPtr(ty, ptr)]
  /\ Goto(t, "wait_lock")
  /\ UNCHANGED <<ty, cnt, lock, op, cur, calls>>

(* Mutant: the write lock is not waited for. *)
WaitLock_Skips(t) ==
  /\ pc[t] = "wait_lock"
  /\ Goto(t, "wait_unlock")
  /\ UNCHANGED <<ty, ptr, cnt, lock, new, res, op, cur, calls>>

WaitLock(t) ==
  /\ pc[t] = "wait_lock"
  /\ AcquireWrite(t)
  /\ Goto(t, "wait_unlock")
  /\ UNCHANGED <<ty, ptr, cnt, new, res, op, cur, calls>>

WaitUnlock(t) ==
  /\ pc[t] = "wait_unlock"
  /\ ReleaseWrite(t)
  /\ \/ op[t] \in {"store", "drop"} /\ Goto(t, "release") /\ UNCHANGED <<op, cur>>
     \/ op[t] \notin {"store", "drop"} /\ Return(t)
  /\ UNCHANGED <<ty, ptr, cnt, new, res, calls>>

Release(t) ==
  /\ pc[t] = "release"
  /\ cnt' = Dropped(cnt, res[t])
  /\ res' = [res EXCEPT ![t] = NONE]
  /\ Return(t)
  /\ UNCHANGED <<ty, ptr, lock, new, calls>>

----------------------------------------------------------------------------
(* CaS::compare_and_swap. *)

CasLock(t) ==
  /\ pc[t] = "cas_lock"
  /\ AcquireWrite(t)
  /\ Goto(t, "cas_exchange")
  /\ UNCHANGED <<ty, ptr, cnt, new, res, op, cur, calls>>

(* A value that went in was frozen by into_ptr, the old one takes its      *)
(* place; one that did not is still there to be dropped.                   *)
CasExchange(t) ==
  /\ pc[t] = "cas_exchange"
  /\ res' = [res EXCEPT ![t] = FromPtr(ty, ptr)]
  /\ \/ /\ ptr = cur[t]
        /\ ptr' = IntoPtr(new[t])
        /\ new' = [new EXCEPT ![t] = NONE]
        /\ Goto(t, "cas_unlock")
     \/ /\ ptr # cur[t]
        /\ Goto(t, "cas_inc")
        /\ UNCHANGED <<ptr, new>>
  /\ UNCHANGED <<ty, cnt, lock, op, cur, calls>>

(* Mutant: the old value that stays in the container is not counted. *)
CasInc_Forgets(t) ==
  /\ pc[t] = "cas_inc"
  /\ Goto(t, "cas_drop_new")
  /\ UNCHANGED <<ty, ptr, cnt, lock, new, res, op, cur, calls>>

CasInc(t) ==
  /\ pc[t] = "cas_inc"
  /\ cnt' = Cloned(cnt, res[t])
  /\ Goto(t, "cas_drop_new")
  /\ UNCHANGED <<ty, ptr, lock, new, res, op, cur, calls>>

CasDropNew(t) ==
  /\ pc[t] = "cas_drop_new"
  /\ cnt' = Dropped(cnt, new[t])
  /\ new' = [new EXCEPT ![t] = NONE]
  /\ Goto(t, "cas_unlock")
  /\ UNCHANGED <<ty, ptr, lock, res, op, cur, calls>>

(* Mutant: the write lock is kept. *)
CasUnlock_Keeps(t) ==
  /\ pc[t] = "cas_unlock"
  /\ Return(t)
  /\ UNCHANGED <<ty, ptr, cnt, lock, new, res, calls>>

CasUnlock(t) ==
  /\ pc[t] = "cas_unlock"
  /\ ReleaseWrite(t)
  /\ Return(t)
  /\ UNCHANGED <<ty, ptr, cnt, new, res, calls>>

----------------------------------------------------------------------------
(* The user code.  A container of a type that is not Sync stays with one   *)
(* thread.                                                                 *)

Acts(t) == pc[t] = "idle" /\ (ty.sync \/ t = 1)
Quiet == \A t \in Threads : pc[t] = "idle"

(* Does t make calls that take an argument? *)
Takes(t) == Ops[t] \cap {"new", "store", "swap", "compare_and_swap"} # {}

(* The argument: a new object, a value without one, or a clone. *)
Argument(t, v) ==
  /\ Acts(t) /\ new[t] = NONE /\ calls[t] < MaxCalls[t] /\ Takes(t)
  /\ \/ v.is # "full"
     \/ v.is = "full" /\ cnt[v.at] = 0
     \/ \E u \in Threads : Acts(u) /\ res[u] = v
  /\ new' = [new EXCEPT ![t] = v]
  /\ cnt' = Cloned(cnt, v)
  /\ UNCHANGED <<ty, ptr, lock, res, pc, op, cur, calls>>

Begin(t, o, c, l) ==
  /\ Acts(t) /\ calls[t] < MaxCalls[t] /\ o \in Ops[t]
  /\ res[t] = NONE
  /\ calls' = [calls EXCEPT ![t] = @ + 1]
  /\ op' = [op EXCEPT ![t] = o]
  /\ cur' = [cur EXCEPT ![t] = c]
  /\ Goto(t, l)

CallLoad(t) ==
  /\ ptr # NONE
  /\ Begin(t, "load", NONE, "read_lock")
  /\ UNCHANGED <<ty, ptr, cnt, lock, new, res>>

CallSwap(t, o) ==
  /\ ptr # NONE /\ new[t] # NONE
  /\ Begin(t, o, NONE, "swap")
  /\ UNCHANGED <<ty, ptr, cnt, lock, new, res>>

CallCas(t, c) ==
  /\ ptr # NONE /\ new[t] # NONE
  /\ Begin(t, "compare_and_swap", c, "cas_lock")
  /\ UNCHANGED <<ty, ptr, cnt, lock, new, res>>

(* with_strategy: nobody else knows the container yet. *)
CallNew(t) ==
  /\ Quiet /\ Acts(t) /\ "new" \in Ops[t] /\ ptr = NONE /\ new[t] # NONE
  /\ ptr' = IntoPtr(new[t])
  /\ new' = [new EXCEPT ![t] = NONE]
  /\ UNCHANGED <<ty, cnt, lock, res, pc, op, cur, calls>>

(* Drop and into_inner own the container. *)
CallDrop(t, o) ==
  /\ Quiet /\ ptr # NONE
  /\ Begin(t, o, NONE, "wait_lock")
  /\ ptr' = NONE
  /\ res' = [res EXCEPT ![t] = FromPtr(ty, ptr)]
  /\ UNCHANGED <<ty, cnt, lock, new>>

(* The result is dropped. *)
GuardDrop(t) ==
  /\ Acts(t) /\ res[t] # NONE
  /\ cnt' = Dropped(cnt, res[t])
  /\ res' = [res EXCEPT ![t] = NONE]
  /\ UNCHANGED <<ty, ptr, lock, new, pc, op, cur, calls>>

Call(t) ==
  \/ CallLoad(t) \/ CallNew(t) \/ GuardDrop(t)
  \/ \E v \in ValuesOf(ty) : Argument(t, v)
  \/ \E o \in {"store", "swap"} : CallSwap(t, o)
  \/ \E c \in AsRaw : CallCas(t, c)
  \/ \E o \in {"drop", "into_inner"} : CallDrop(t, o)

Step(t) ==
  \/ ReadLock(t) \/ Read(t) \/ ReadInc(t) \/ ReadUnlock(t)
  \/ Swap(t) \/ WaitLock(t) \/ WaitUnlock(t) \/ Release(t)
  \/ CasLock(t) \/ CasExchange(t) \/ CasInc(t) \/ CasDropNew(t) \/ CasUnlock(t)

Alive == {p \in Ptrs : cnt[p] > 0}
Loading == {"read_lock", "read", "cas_lock", "cas_exchange"}
Track ==
  seen' = [t \in Threads |->
             IF pc'[t] \in Loading
             THEN (seen[t] \cup {ptr'}) \cap (Alive' \cup {Null}) ELSE {}]

Next == \E t \in Threads : (Call(t) \/ Step(t)) /\ Track

(* A thread inside of a call goes on, and a lock that is free is given to  *)
(* somebody who waits for it.                                              *)
Spec == Init /\ [][Next]_vars /\ \A t \in Threads : WF_vars(Step(t) /\ Track)

----------------------------------------------------------------------------
(* Properties. *)

PCs == {"idle", "read_lock", "read", "read_inc", "read_unlock", "swap",
        "wait_lock", "wait_unlock", "release", "cas_lock", "cas_exchange",
        "cas_inc", "cas_drop_new", "cas_unlock"}

(* Type invariant.  A value of the container's type is never made from a   *)
(* null pointer that the type does not have (RefCnt::from_ptr), and no     *)
(* count drops below zero.                                                 *)
TypeOK ==
  /\ ty \in Types
  /\ ptr \in {IntoPtr(v) : v \in ValuesOf(ty)} \cup {NONE}
  /\ cnt \in [Ptrs -> Nat]
  /\ readers \subseteq Threads /\ locked \in Threads \cup {NONE}
  /\ new \in [Threads -> ValuesOf(ty) \cup {NONE}]
  /\ res \in [Threads -> ValuesOf(ty) \cup {NONE}]
  /\ pc \in [Threads -> PCs]
  /\ op \in [Threads -> OpNames \cup {"none"}]
  /\ cur \in [Threads -> Ptrs \cup {Null, NONE}]
  /\ calls \in [Threads -> Nat]
  /\ seen \in [Threads -> SUBSET (Ptrs \cup {Null})]

Held == [r \in Threads \X Roles |->
           LET v == IF r[2] = "new" THEN new[r[1]] ELSE res[r[1]]
           IN IF v = NONE THEN NONE ELSE AsPtr(v)]
Promised == [t \in Threads |->
               IF pc[t] \in Loading THEN [op |-> op[t], cur |-> cur[t]]
               ELSE [op |-> "none", cur |-> NONE]]

Abstract == INSTANCE Container
              WITH hold <- Held, live <- Alive, window <- seen, call <- Promised

(* The strategy keeps what the abstract container promises: loads, swaps   *)
(* and compare_and_swaps take effect in one step (the read, the exchange), *)
(* each with the right result, and an object is freed when, and only when, *)
(* neither the container nor any value refers to it, also for the reader   *)
(* that has read a pointer and not counted it (src/strategy/rw_lock.rs).   *)
Implements == Abstract!Spec

(* Every call returns: nobody waits forever for the lock, whichever calls  *)
(* it competes with.                                                       *)
CallsReturn == \A t \in Threads : pc[t] # "idle" ~> pc[t] = "idle"
=============================================================================
