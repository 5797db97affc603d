--------------------------- MODULE ClientsProofs ---------------------------
(***************************************************************************)
(* Proofs about Clients: rcu, Cache and the guards of accesses do what     *)
(* they promise on any container that keeps the promises of Container, for *)
(* every number of threads, objects and calls.                             *)
(*                                                                         *)
(* The argument is the same throughout: what a thread refers to lives, and *)
(* only addresses at which nothing lives are written to (Effects), so what *)
(* a thread has found out about its own references stays true while others *)
(* act.                                                                    *)
(***************************************************************************)
EXTENDS Clients, TLAPS

(* What can be in a container that exists. *)
Pointers == Ptrs \cup {Null}

(* The container: an object lives while it is referred to, and a load      *)
(* returns one that does.                                                  *)
ContainerInv ==
  /\ ptr \in Pointers /\ hold \in [Places -> Words]
  /\ live = Ptrs \cap ({ptr} \cup {hold[r] : r \in Places})
  /\ window \in [Threads -> SUBSET (live \cup {Null})]
  /\ \A t \in Threads : call[t].op \notin Loading => window[t] = {}
  /\ obj \in [Ptrs -> Nat]
  /\ DOMAIN call = Threads /\ DOMAIN pc = Threads /\ DOMAIN acc = Threads
  /\ DOMAIN loaded = Threads /\ DOMAIN log = Threads

(* Where a call on the container is in progress. *)
Calling == {"rcu_load", "rcu_cas", "cache_fill", "access_load"}
CallInv(t) == pc[t] \notin Calling => call[t] = NoCall

(* rcu: the new value was computed from the current one, and what came     *)
(* back differs from the current one unless the update went in.            *)
Replaced(t) ==
  LET before == Contents(hold[Prev(t)]) IN log[t] = <<<<before, F(before)>>>>
RcuInv(t) ==
  /\ pc[t] \in {"rcu_load", "rcu_f", "rcu_begin", "rcu_cas", "rcu_drop_new"} => log[t] = <<>>
  /\ pc[t] \in {"rcu_f", "rcu_begin", "rcu_cas", "rcu_drop_new", "rcu_check"} => hold[Cur(t)] # NONE
  /\ pc[t] \in {"rcu_drop_new", "rcu_check", "rcu_done"} => hold[Prev(t)] # NONE
  /\ pc[t] \in {"rcu_begin", "rcu_cas"} =>
       hold[New(t)] \in Ptrs /\ obj[hold[New(t)]] = F(Contents(hold[Cur(t)]))
  /\ pc[t] = "rcu_cas" => call[t].cur = hold[Cur(t)]
  /\ pc[t] = "rcu_drop_new" => hold[Cur(t)] # hold[Prev(t)]
  /\ pc[t] = "rcu_check" => IF hold[Cur(t)] = hold[Prev(t)] THEN Replaced(t) ELSE log[t] = <<>>
  /\ pc[t] = "rcu_done" => Replaced(t)

(* rcu: who works with an outdated value has a change to its credit, and   *)
(* who can be handed an outdated one by a failing exchange has two.        *)
CreditInv(t) ==
  /\ credit[t] \in Nat
  /\ pc[t] \notin InRcu => credit[t] = 0
  /\ pc[t] = "rcu_load" => \A p \in window[t] : p # ptr => credit[t] >= 1
  /\ pc[t] \in {"rcu_f", "rcu_begin"} /\ hold[Cur(t)] # ptr => credit[t] >= 1
  /\ pc[t] = "rcu_cas" =>
       /\ ptr # hold[Cur(t)] => credit[t] >= 1
       /\ \A p \in window[t] : p # hold[Cur(t)] => credit[t] >= (IF p = ptr THEN 1 ELSE 2)
  /\ pc[t] \in {"rcu_drop_new", "rcu_check"} /\ hold[Prev(t)] # ptr => credit[t] >= 1

(* Cache: what is in it, or on the way into it, is from this load's time. *)
SinceInv(t) ==
  /\ NONE \notin since[t]
  /\ pc[t] # "idle" => ptr \in since[t] /\ window[t] \subseteq since[t]
  /\ pc[t] = "cache_assign" => hold[Fresh(t)] \in since[t]
  /\ pc[t] = "cache_use" => hold[Cached(t)] \in since[t]

(* Accesses: the guard holds what was loaded. *)
AccessInv(t) ==
  /\ acc[t] \in Accesses \cup {Guarded}
  /\ pc[t] \in {"access_load", "access_use"} => acc[t].leaf # "ConstantDeref"
  /\ pc[t] = "access_use" => hold[Guard(t)] # NONE /\ loaded[t] = Contents(hold[Guard(t)])
  /\ pc[t] = "constant_use" => acc[t].leaf = "ConstantDeref" /\ loaded[t] = 0

(* The inductive invariant. *)
ClientInv ==
  /\ ContainerInv
  /\ \A t \in Threads : CallInv(t) /\ RcuInv(t) /\ CreditInv(t) /\ SinceInv(t) /\ AccessInv(t)

----------------------------------------------------------------------------
(* The places of the threads are all different. *)
LEMMA PlaceFacts ==
  ASSUME NEW t \in Threads
  PROVE  /\ Cur(t) \in Places /\ New(t) \in Places /\ Prev(t) \in Places
         /\ Cached(t) \in Places /\ Fresh(t) \in Places /\ Guard(t) \in Places
         /\ Cur(t) \in Own(t) /\ New(t) \in Own(t) /\ Prev(t) \in Own(t)
         /\ Cached(t) \in Own(t) /\ Fresh(t) \in Own(t) /\ Guard(t) \in Own(t)
         /\ Cur(t) # New(t) /\ Cur(t) # Prev(t) /\ New(t) # Prev(t) /\ Cached(t) # Fresh(t)
         /\ Cached(t) # New(t) /\ Own(t) \subseteq Places
         /\ \A u \in Threads \ {t} :
              /\ Cur(u) \notin Own(t) /\ New(u) \notin Own(t) /\ Prev(u) \notin Own(t)
              /\ Cached(u) \notin Own(t) /\ Fresh(u) \notin Own(t) /\ Guard(u) \notin Own(t)
BY ClientConstants DEF Places, Own, Cur, New, Prev, Cached, Fresh, Guard, ClientRoles

(* References lead to what lives. *)
LEMMA HeldLives ==
  ASSUME ContainerInv
  PROVE  /\ \A r \in Places : hold[r] # NONE => hold[r] \in live \cup {Null} /\ hold[r] \in Pointers
         /\ ptr \in live \cup {Null} /\ live \subseteq Ptrs /\ NONE \notin Pointers
         /\ \A p \in Pointers : Contents(p) \in Nat
BY ContainerConstants DEF ContainerInv, Pointers, Words, Contents

(* What a step of t does to the container and to the others' places. *)
Moves(t) ==
  /\ UNCHANGED cvars \/ Becomes(ptr', hold', call')
  /\ ptr' \in Pointers /\ hold' \in [Places -> Words] /\ DOMAIN call' = Threads
  /\ \A r \in Places \ Own(t) : hold'[r] = hold[r]
  /\ \A u \in Threads \ {t} : call'[u] = call[u]

(* The operations of the container only move what they are told to. *)
LEMMA OperationsMove ==
  ASSUME ContainerInv, NEW t \in Threads, NEW r \in Own(t), NEW q \in Own(t), q # r,
         \/ UNCHANGED cvars \/ Drop(r) \/ Load(t, r) \/ Assign(r, q) \/ Swap(q, r)
         \/ CompareAndSwap(t, q, r)
         \/ \E p \in Words : Acquire(r, p)
         \/ \E o, c : Begin(t, o, c)
  PROVE  Moves(t)
<1>1. /\ r \in Places /\ q \in Places /\ hold[q] \in Words /\ hold[r] \in Words /\ NONE \in Words
      /\ Pointers \subseteq Words /\ \A p \in Words : p # NONE => p \in Pointers
      /\ window[t] \subseteq Pointers
      /\ ptr \in Pointers /\ hold \in [Places -> Words] /\ DOMAIN call = Threads
  BY PlaceFacts, HeldLives DEF ContainerInv, Words, Pointers
<1>2. CASE UNCHANGED cvars
  BY <1>1, <1>2 DEF Moves, cvars
<1>3. CASE Drop(r) \/ Assign(r, q) \/ Load(t, r)
  BY <1>1, <1>3 DEF Drop, Assign, Load, Becomes, Moves
<1>4. CASE Swap(q, r)
  BY <1>1, <1>4 DEF Swap, Exchange, Becomes, Moves
<1>5. CASE CompareAndSwap(t, q, r)
  BY <1>1, <1>5 DEF CompareAndSwap, Exchange, Becomes, Moves
<1>6. CASE (\E p \in Words : Acquire(r, p)) \/ \E o, c : Begin(t, o, c)
  BY <1>1, <1>6 DEF Acquire, Begin, Becomes, Moves
<1> QED BY <1>2, <1>3, <1>4, <1>5, <1>6

(* And to everything else: nothing is written to that lives. *)
Effects(t) ==
  /\ Moves(t)
  /\ \A u \in Threads \ {t} : /\ pc'[u] = pc[u] /\ acc'[u] = acc[u]
                              /\ loaded'[u] = loaded[u] /\ log'[u] = log[u]
  /\ obj' \in [Ptrs -> Nat] /\ \A p \in live : obj'[p] = obj[p]
  /\ DOMAIN pc' = Threads /\ DOMAIN acc' = Threads /\ DOMAIN loaded' = Threads /\ DOMAIN log' = Threads

Acting(t) == Call(t) \/ Step(t)

(* Every step of a client is made of those. *)
LEMMA StepEffects ==
  ASSUME ContainerInv, NEW t \in Threads, RcuInv(t), Acting(t)
  PROVE  Effects(t)
<1> DEFINE Same == UNCHANGED cvars
<1>1. Moves(t)
  <2>1. /\ Cur(t) \in Own(t) /\ New(t) \in Own(t) /\ Prev(t) \in Own(t)
        /\ Cached(t) \in Own(t) /\ Fresh(t) \in Own(t) /\ Guard(t) \in Own(t)
        /\ Cur(t) # New(t) /\ Cur(t) # Prev(t) /\ New(t) # Prev(t) /\ Cached(t) # Fresh(t)
    BY PlaceFacts
  <2>2. \A r \in Own(t) : \E q \in Own(t) : q # r
    BY <2>1
  <2>3. \A r \in Own(t) : Drop(r) \/ Load(t, r) \/ (\E p \in Words : Acquire(r, p)) => Moves(t)
    BY <2>2, OperationsMove
  <2>4. \A r, q \in Own(t) : q # r /\ (Assign(r, q) \/ Swap(q, r) \/ CompareAndSwap(t, q, r)) => Moves(t)
    BY OperationsMove
  <2>5. Same \/ (\E o, c : Begin(t, o, c)) => Moves(t)
    BY <2>1, OperationsMove
  <2>6. \A r \in Own(t) : \A n : Allocate(r, n) => Moves(t)
    BY <2>3 DEF Allocate, Words
  <2>7. Null \in Words /\ hold[Cached(t)] \in Words
    BY PlaceFacts DEF Words, ContainerInv
  <2> HIDE DEF Same
  <2>8. CASE Rcu(t) \/ RcuLoad(t) \/ RcuF(t) \/ RcuBegin(t) \/ RcuCas(t) \/ RcuDropNew(t) \/ RcuCheck(t) \/ RcuDone(t)
    BY <2>1, <2>3, <2>4, <2>5, <2>6, <2>8 DEF Rcu, RcuLoad, RcuF, RcuBegin, RcuCas, RcuDropNew, RcuCheck, RcuDone
  <2>9. CASE Store(t) \/ StoreSwap(t) \/ StoreDrop(t)
    BY <2>1, <2>3, <2>4, <2>5, <2>6, <2>7, <2>9 DEF Store, StoreSwap, StoreDrop
  <2>10. CASE CacheNew(t) \/ CacheLoad(t) \/ CacheDrop(t) \/ Revalidate(t) \/ Refill(t) \/ CacheFill(t) \/ CacheAssign(t) \/ CacheUse(t)
    BY <2>1, <2>3, <2>4, <2>5, <2>10 DEF CacheNew, CacheLoad, CacheDrop, Revalidate, Refill, CacheFill, CacheAssign, CacheUse, Same
  <2>11. CASE (\E op, a : AccessBegin(t, op, a)) \/ AccessGuard(t) \/ AccessDrop(t)
    BY <2>1, <2>3, <2>5, <2>11 DEF AccessBegin, AccessGuard, AccessDrop, Same
  <2> QED BY <2>8, <2>9, <2>10, <2>11 DEF Acting, Call, Step, Fmt, Serialize
<1>2. /\ \A u \in Threads \ {t} : /\ pc'[u] = pc[u] /\ acc'[u] = acc[u]
                                  /\ loaded'[u] = loaded[u] /\ log'[u] = log[u]
      /\ DOMAIN pc' = Threads /\ DOMAIN acc' = Threads /\ DOMAIN loaded' = Threads /\ DOMAIN log' = Threads
  BY DEF ContainerInv, Acting, Call, Step, Rcu, RcuLoad, RcuF, RcuBegin, RcuCas, RcuDropNew, RcuCheck, RcuDone,
     Store, StoreSwap, StoreDrop, CacheNew, CacheLoad, CacheDrop, Revalidate, Refill, CacheFill,
     CacheAssign, CacheUse, Fmt, Serialize, AccessBegin, AccessGuard, AccessDrop, StartOf, At, Goto, local
<1>3. obj' \in [Ptrs -> Nat] /\ \A p \in live : obj'[p] = obj[p]
  <2>1. ASSUME NEW r, NEW n \in Nat, Allocate(r, n)
        PROVE  obj' \in [Ptrs -> Nat] /\ \A p \in live : obj'[p] = obj[p]
    BY <2>1 DEF Allocate, ContainerInv
  <2>2. UNCHANGED obj => obj' \in [Ptrs -> Nat] /\ \A p \in live : obj'[p] = obj[p]
    BY DEF ContainerInv
  <2>3. CASE RcuF(t)
    <3>1. F(Contents(hold[Cur(t)])) \in Nat
      BY <2>3, PlaceFacts, HeldLives DEF RcuF, At, RcuInv, F
    <3> QED BY <2>1, <2>3, <3>1 DEF RcuF
  <2>4. CASE Store(t)
    BY <2>1, <2>2, <2>4 DEF Store
  <2>5. CASE UNCHANGED obj
    BY <2>2, <2>5
  <2> QED BY <2>3, <2>4, <2>5 DEF Acting, Call, Step, Rcu, RcuLoad, RcuBegin, RcuCas, RcuDropNew, RcuCheck, RcuDone,
       StoreSwap, StoreDrop, CacheNew, CacheLoad, CacheDrop, Revalidate, Refill, CacheFill,
       CacheAssign, CacheUse, Fmt, Serialize, AccessBegin, AccessGuard, AccessDrop
<1> QED BY <1>1, <1>2, <1>3 DEF Effects

----------------------------------------------------------------------------
(* The container, and what the others keep. *)

(* The container keeps its invariant. *)
LEMMA NextContainer ==
  ASSUME ContainerInv, NEW t \in Threads, Effects(t)
  PROVE  ContainerInv'
<1>1. ptr' \in Pointers /\ hold' \in [Places -> Words] /\ obj' \in [Ptrs -> Nat]
      /\ DOMAIN call' = Threads /\ DOMAIN pc' = Threads /\ DOMAIN acc' = Threads
      /\ DOMAIN loaded' = Threads /\ DOMAIN log' = Threads
  BY DEF Effects, Moves
<1>2. CASE UNCHANGED cvars
  BY <1>1, <1>2 DEF ContainerInv, cvars
<1>3. CASE Becomes(ptr', hold', call')
  <2>1. PICK L : L = live'
    OBVIOUS
  <2>2. L = Ptrs \cap ({ptr'} \cup {hold'[r] : r \in Places})
    BY <1>3, <2>1 DEF Becomes
  <2>3. window' = [u \in Threads |-> IF call'[u].op \in Loading
                                     THEN (window[u] \cup {ptr'}) \cap (L \cup {Null}) ELSE {}]
    BY <1>3, <2>1 DEF Becomes
  <2>4. window' \in [Threads -> SUBSET (L \cup {Null})]
    BY <2>3
  <2>5. \A u \in Threads : call'[u].op \notin Loading => window'[u] = {}
    BY <2>3
  <2> QED BY <1>1, <2>1, <2>2, <2>4, <2>5 DEF ContainerInv
<1> QED BY <1>2, <1>3 DEF Effects, Moves

(* Whoever does not act keeps its part of the invariant. *)
LEMMA OthersKeep ==
  ASSUME ClientInv, NEW t \in Threads, Effects(t), Track, NEW u \in Threads, u # t
  PROVE  /\ CallInv(u)' /\ RcuInv(u)' /\ AccessInv(u)' /\ SinceInv(u)' /\ CreditInv(u)'
<1>1. /\ pc'[u] = pc[u] /\ call'[u] = call[u] /\ acc'[u] = acc[u] /\ loaded'[u] = loaded[u]
      /\ log'[u] = log[u]
      /\ hold'[Cur(u)] = hold[Cur(u)] /\ hold'[New(u)] = hold[New(u)] /\ hold'[Prev(u)] = hold[Prev(u)]
      /\ hold'[Cached(u)] = hold[Cached(u)] /\ hold'[Fresh(u)] = hold[Fresh(u)]
      /\ hold'[Guard(u)] = hold[Guard(u)]
  BY PlaceFacts DEF Effects, Moves
<1>2. /\ \A r \in {Cur(u), New(u), Prev(u), Guard(u), Cached(u), Fresh(u)} :
           hold[r] # NONE => hold[r] \in live \cup {Null}
      /\ \A p \in live \cup {Null} : Contents(p)' = Contents(p)
      /\ NONE \notin Ptrs
  BY PlaceFacts, HeldLives, ContainerConstants DEF Effects, Contents, ClientInv
<1>3. CallInv(u) /\ RcuInv(u) /\ AccessInv(u) /\ SinceInv(u) /\ CreditInv(u)
  BY DEF ClientInv
<1>4. CallInv(u)' /\ AccessInv(u)'
  BY <1>1, <1>2, <1>3 DEF CallInv, AccessInv, Contents
<1>5. RcuInv(u)'
  <2>1. Replaced(u) /\ hold[Prev(u)] # NONE => Replaced(u)'
    BY <1>1, <1>2 DEF Replaced, Contents
  <2>2. hold[New(u)] \in Ptrs => obj'[hold[New(u)]] = obj[hold[New(u)]]
    BY <1>2, ContainerConstants DEF Contents
  <2>3. hold[Cur(u)] # NONE => Contents(hold[Cur(u)])' = Contents(hold[Cur(u)])
    BY <1>1, <1>2 DEF Contents
  <2> QED BY <1>1, <1>3, <2>1, <2>2, <2>3 DEF RcuInv
<1>6. window'[u] \subseteq (window[u] \cup {ptr'}) /\ window'[u] \subseteq live' \cup {Null}
      /\ ptr' \in live' \cup {Null} /\ NONE \notin live' \cup {Null}
  <2>1. ContainerInv'
    BY NextContainer DEF ClientInv
  <2>2. window'[u] \subseteq live' \cup {Null}
    BY <2>1 DEF ContainerInv
  <2>3. ptr' \in live' \cup {Null} /\ NONE \notin live' \cup {Null}
    BY <2>1, ContainerConstants DEF ContainerInv, Pointers
  <2> QED BY <2>2, <2>3 DEF Effects, Moves, cvars, Becomes
<1>7. ASSUME NEW r \in Places, r \notin Own(t), hold[r] # NONE
      PROVE  hold[r] \in live' \cup {Null}
  <2>1. hold'[r] = hold[r]
    BY <1>7 DEF Effects, Moves
  <2>2. ContainerInv'
    BY NextContainer DEF ClientInv
  <2>3. hold'[r] # NONE => hold'[r] \in live' \cup {Null}
    BY <2>2 DEF ContainerInv, Words
  <2> QED BY <1>7, <2>1, <2>3
<1>8. SinceInv(u)'
  <2>1. since'[u] = IF pc'[u] # "idle" THEN (since[u] \cup {ptr'}) \cap (live' \cup {Null}) ELSE {}
    BY DEF Track
  <2>2. (hold[Fresh(u)] # NONE => hold[Fresh(u)] \in live' \cup {Null})
        /\ (hold[Cached(u)] # NONE => hold[Cached(u)] \in live' \cup {Null})
    BY <1>7, PlaceFacts
  <2> QED BY <1>1, <1>3, <1>6, <2>1, <2>2 DEF SinceInv
<1>9. CreditInv(u)'
  <2>1. credit'[u] = IF pc'[u] \in InRcu
                     THEN credit[u] + (IF ptr' # ptr THEN 1 ELSE 0) ELSE 0
    BY <1>1, <1>3 DEF Track, CreditInv
  <2> QED BY <1>1, <1>3, <1>6, <2>1 DEF CreditInv, InRcu
<1> QED BY <1>4, <1>5, <1>8, <1>9

----------------------------------------------------------------------------
(* What the thread that acts establishes. *)

(* Calls on the container begin and end where Calling says. *)
LEMMA OwnCall ==
  ASSUME ContainerInv, NEW t \in Threads, CallInv(t), Acting(t)
  PROVE  CallInv(t)'
BY DEF ContainerInv, CallInv, Calling, Acting, Call, Step, Rcu, RcuLoad, RcuF, RcuBegin, RcuCas,
   RcuDropNew, RcuCheck, RcuDone, Store, StoreSwap, StoreDrop, CacheNew, CacheLoad, CacheDrop, Revalidate,
   Refill, CacheFill, CacheAssign, CacheUse, Fmt, Serialize, AccessBegin, AccessGuard, AccessDrop,
   StartOf, At, Goto, Allocate, Acquire, Drop, Load, Assign, Swap, Exchange, CompareAndSwap, Begin, Becomes,
   cvars

(* A guard is filled with what was loaded. *)
LEMMA OwnAccess ==
  ASSUME ContainerInv, NEW t \in Threads, AccessInv(t), Acting(t)
  PROVE  AccessInv(t)'
<1>1. /\ DOMAIN pc = Threads /\ DOMAIN acc = Threads /\ DOMAIN loaded = Threads
      /\ Guard(t) \in Places /\ hold \in [Places -> Words] /\ NONE \notin window[t]
  BY PlaceFacts, HeldLives, ContainerConstants DEF ContainerInv
<1>2. CASE AccessGuard(t)
  BY <1>1, <1>2 DEF AccessInv, AccessGuard, At, Goto, Load, Becomes, Contents
<1>3. CASE \E op, a : AccessBegin(t, op, a) /\ a \in Accesses \cup {Guarded}
  BY <1>1, <1>3 DEF AccessInv, AccessBegin, StartOf, Goto
<1>4. CASE UNCHANGED <<acc, loaded>> /\ pc'[t] \notin {"access_load", "access_use", "constant_use"}
  BY <1>4 DEF AccessInv
<1> QED BY <1>1, <1>2, <1>3, <1>4 DEF Acting, Call, Step, Rcu, RcuLoad, RcuF, RcuBegin, RcuCas,
   RcuDropNew, RcuCheck, RcuDone, Store, StoreSwap, StoreDrop, CacheNew, CacheLoad, CacheDrop, Revalidate,
   Refill, CacheFill, CacheAssign, CacheUse, Fmt, Serialize, AccessDrop, StartOf, At, Goto, local

(* The steps outside of rcu. *)
RcuStep(t) ==
  \/ Rcu(t) \/ RcuLoad(t) \/ RcuF(t) \/ RcuBegin(t) \/ RcuCas(t) \/ RcuDropNew(t)
  \/ RcuCheck(t) \/ RcuDone(t)

(* They do not lead into rcu. *)
LEMMA OutsideRcu ==
  ASSUME ContainerInv, NEW t \in Threads, Acting(t), ~RcuStep(t)
  PROVE  pc'[t] \notin InRcu /\ pc'[t] # "rcu_done"
BY DEF ContainerInv, RcuStep, InRcu, Acting, Call, Step, Store, StoreSwap, StoreDrop, CacheNew, CacheLoad,
   CacheDrop, Revalidate, Refill, CacheFill, CacheAssign, CacheUse, Fmt, Serialize, AccessBegin,
   AccessGuard, AccessDrop, StartOf, At, Goto

(* What the steps of rcu do to its three values. *)
LEMMA OwnRcu ==
  ASSUME ContainerInv, NEW t \in Threads, RcuInv(t), Acting(t)
  PROVE  RcuInv(t)'
<1>1. /\ DOMAIN pc = Threads /\ DOMAIN log = Threads /\ DOMAIN call = Threads
      /\ Cur(t) \in Places /\ New(t) \in Places /\ Prev(t) \in Places
      /\ Cur(t) # New(t) /\ Cur(t) # Prev(t) /\ New(t) # Prev(t)
      /\ hold \in [Places -> Words] /\ obj \in [Ptrs -> Nat]
      /\ NONE \notin window[t] /\ ptr # NONE /\ NONE \notin Ptrs /\ Null \notin Ptrs
  BY PlaceFacts, HeldLives, ContainerConstants DEF ContainerInv, Pointers
<1>2. CASE Rcu(t) \/ RcuLoad(t)
  BY <1>1, <1>2 DEF Rcu, RcuLoad, StartOf, At, Goto, Begin, Load, Becomes, RcuInv, local
<1>3. CASE RcuF(t)
  <2>1. hold[Cur(t)] \in live \cup {Null} /\ live \subseteq Ptrs
    BY <1>1, <1>3, HeldLives DEF RcuF, At, RcuInv
  <2>2. PICK p \in Ptrs \ live :
          /\ hold' = [hold EXCEPT ![New(t)] = p]
          /\ obj' = [obj EXCEPT ![p] = F(Contents(hold[Cur(t)]))]
    BY <1>3 DEF RcuF, Allocate, Acquire, Becomes
  <2>3. Contents(hold[Cur(t)])' = Contents(hold[Cur(t)]) /\ hold'[Cur(t)] = hold[Cur(t)]
    BY <1>1, <2>1, <2>2 DEF Contents
  <2>4. hold'[New(t)] = p /\ obj'[p] = F(Contents(hold[Cur(t)]))
    BY <1>1, <2>2
  <2> QED BY <1>1, <1>3, <2>3, <2>4 DEF RcuF, At, Goto, RcuInv, local
<1>4. CASE RcuBegin(t)
  BY <1>1, <1>4 DEF RcuBegin, At, Goto, Begin, Becomes, RcuInv, local, Contents
<1>5. CASE RcuCas(t)
  <2>1. /\ UNCHANGED obj /\ pc[t] = "rcu_cas" /\ log[t] = <<>> /\ hold[Cur(t)] # NONE
        /\ hold[New(t)] \in Ptrs /\ obj[hold[New(t)]] = F(Contents(hold[Cur(t)]))
        /\ call[t].cur = hold[Cur(t)]
    BY <1>5 DEF RcuCas, At, RcuInv
  <2>2. \/ /\ ptr = hold[Cur(t)] /\ ptr' = hold[New(t)]
           /\ hold' = [hold EXCEPT ![New(t)] = NONE, ![Prev(t)] = ptr]
        \/ \E p \in window[t] \ {hold[Cur(t)]} : ptr' = ptr /\ hold' = [hold EXCEPT ![Prev(t)] = p]
    BY <1>5, <2>1 DEF RcuCas, CompareAndSwap, Exchange, Becomes
  <2>3. CASE hold'[New(t)] = NONE
    <3>1. /\ ptr = hold[Cur(t)] /\ ptr' = hold[New(t)]
          /\ hold'[Cur(t)] = ptr /\ hold'[Prev(t)] = ptr
      BY <1>1, <2>1, <2>2, <2>3
    <3>2. pc'[t] = "rcu_check" /\ log'[t] = Append(<<>>, <<Contents(ptr), Contents(ptr')>>)
      BY <1>1, <1>5, <2>1, <2>3 DEF RcuCas, At, Goto
    <3>3. Contents(ptr') = F(Contents(ptr))
      BY <1>1, <2>1, <3>1 DEF Contents
    <3>4. Contents(hold[Prev(t)])' = Contents(ptr)
      BY <2>1, <3>1 DEF Contents
    <3>5. log'[t] = <<<<Contents(ptr), F(Contents(ptr))>>>>
      BY <3>2, <3>3
    <3> QED BY <1>1, <3>1, <3>2, <3>4, <3>5 DEF RcuInv, Replaced
  <2>4. CASE hold'[New(t)] # NONE
    <3>1. /\ hold'[Cur(t)] = hold[Cur(t)] /\ hold'[Prev(t)] # hold[Cur(t)] /\ hold'[Prev(t)] # NONE
      BY <1>1, <2>1, <2>2, <2>4
    <3>2. pc'[t] = "rcu_drop_new" /\ log' = log
      BY <1>1, <1>5, <2>4 DEF RcuCas, At, Goto, local
    <3> QED BY <2>1, <3>1, <3>2 DEF RcuInv
  <2> QED BY <2>3, <2>4
<1>6. CASE RcuDropNew(t)
  BY <1>1, <1>6 DEF RcuDropNew, At, Goto, Drop, Becomes, RcuInv, local
<1>7. CASE RcuCheck(t)
  <2>1. CASE hold[Cur(t)] = hold[Prev(t)]
    BY <1>1, <1>7, <2>1 DEF RcuCheck, PtrEq, At, Goto, Drop, Becomes, RcuInv, Replaced, Contents, local
  <2>2. CASE hold[Cur(t)] # hold[Prev(t)]
    BY <1>1, <1>7, <2>2 DEF RcuCheck, PtrEq, At, Goto, Assign, Becomes, RcuInv, local
  <2> QED BY <2>1, <2>2
<1>8. CASE RcuDone(t)
  BY <1>1, <1>8 DEF RcuDone, At, Goto, RcuInv
<1>9. CASE ~RcuStep(t)
  BY <1>9, OutsideRcu DEF InRcu, RcuInv
<1> QED BY <1>2, <1>3, <1>4, <1>5, <1>6, <1>7, <1>8, <1>9 DEF RcuStep

(* A failing exchange takes a credit that a change has given: the value    *)
(* that it returns differs from the current one.                           *)
LEMMA OwnCredit ==
  ASSUME ContainerInv, NEW t \in Threads, CallInv(t), RcuInv(t), CreditInv(t), Acting(t), Track
  PROVE  CreditInv(t)'
<1>1. /\ DOMAIN pc = Threads /\ DOMAIN call = Threads
      /\ Cur(t) \in Places /\ New(t) \in Places /\ Prev(t) \in Places
      /\ Cur(t) # New(t) /\ Cur(t) # Prev(t) /\ New(t) # Prev(t)
      /\ hold \in [Places -> Words] /\ NONE \notin Ptrs /\ credit[t] \in Nat
      /\ call[t].op \notin Loading => window[t] = {}
  BY PlaceFacts, HeldLives, ContainerConstants DEF ContainerInv, Pointers, CreditInv
<1>2. credit'[t] = IF pc'[t] \in InRcu
                   THEN credit[t] + (IF ptr' # ptr THEN 1 ELSE 0)
                          - (IF pc[t] # "rcu_drop_new" /\ pc'[t] = "rcu_drop_new" THEN 1 ELSE 0)
                   ELSE 0
  BY DEF Track
<1>3. CASE Rcu(t)
  <2>1. pc'[t] = "rcu_load" /\ pc[t] = "idle" /\ ptr' = ptr /\ window[t] = {}
    BY <1>1, <1>3 DEF Rcu, StartOf, Goto, Begin, Becomes, CallInv, Calling, NoCall, Loading
  <2>2. window'[t] \subseteq {ptr}
    BY <1>3, <2>1 DEF Rcu, Begin, Becomes
  <2> QED BY <1>1, <1>2, <2>1, <2>2 DEF CreditInv, InRcu
<1>4. CASE RcuLoad(t)
  <2>1. PICK p \in window[t] : hold' = [hold EXCEPT ![Cur(t)] = p] /\ ptr' = ptr
    BY <1>4 DEF RcuLoad, Load, Becomes
  <2> QED BY <1>1, <1>2, <1>4, <2>1 DEF RcuLoad, At, Goto, CreditInv, InRcu
<1>5. CASE RcuF(t)
  <2>1. hold'[Cur(t)] = hold[Cur(t)] /\ ptr' = ptr
    BY <1>1, <1>5 DEF RcuF, Allocate, Acquire, Becomes
  <2> QED BY <1>1, <1>2, <1>5, <2>1 DEF RcuF, At, Goto, CreditInv, InRcu
<1>6. CASE RcuBegin(t)
  <2>1. hold' = hold /\ ptr' = ptr /\ window[t] = {}
    BY <1>1, <1>6 DEF RcuBegin, At, Begin, Becomes, NoCall, Loading
  <2>2. window'[t] \subseteq {ptr}
    BY <1>6, <2>1 DEF RcuBegin, Begin, Becomes
  <2> QED BY <1>1, <1>2, <1>6, <2>1, <2>2 DEF RcuBegin, At, Goto, CreditInv, InRcu
<1>7. CASE RcuCas(t)
  <2>1. pc[t] = "rcu_cas" /\ hold[New(t)] \in Ptrs /\ call[t].cur = hold[Cur(t)]
    BY <1>7 DEF RcuCas, At, RcuInv
  <2>2. \/ /\ ptr = hold[Cur(t)] /\ ptr' = hold[New(t)]
           /\ hold' = [hold EXCEPT ![New(t)] = NONE, ![Prev(t)] = ptr]
        \/ \E p \in window[t] \ {hold[Cur(t)]} : ptr' = ptr /\ hold' = [hold EXCEPT ![Prev(t)] = p]
    BY <1>7, <2>1 DEF RcuCas, CompareAndSwap, Exchange, Becomes
  <2>3. CASE hold'[New(t)] = NONE
    <3>1. hold'[Prev(t)] = ptr
      BY <1>1, <2>1, <2>2, <2>3
    <3>2. pc'[t] = "rcu_check"
      BY <1>1, <1>7, <2>3 DEF RcuCas, At, Goto
    <3> QED BY <1>1, <1>2, <2>1, <3>1, <3>2 DEF CreditInv, InRcu
  <2>4. CASE hold'[New(t)] # NONE
    <3>1. PICK p \in window[t] \ {hold[Cur(t)]} : ptr' = ptr /\ hold'[Prev(t)] = p
      BY <1>1, <2>2, <2>4
    <3>2. pc'[t] = "rcu_drop_new"
      BY <1>1, <1>7, <2>4 DEF RcuCas, At, Goto
    <3> QED BY <1>1, <1>2, <2>1, <3>1, <3>2 DEF CreditInv, InRcu
  <2> QED BY <2>3, <2>4
<1>8. CASE RcuDropNew(t)
  <2>1. hold'[Prev(t)] = hold[Prev(t)] /\ ptr' = ptr
    BY <1>1, <1>8 DEF RcuDropNew, Drop, Becomes
  <2> QED BY <1>1, <1>2, <1>8, <2>1 DEF RcuDropNew, At, Goto, CreditInv, InRcu
<1>9. CASE RcuCheck(t)
  <2>1. CASE pc'[t] = "rcu_done"
    BY <1>2, <2>1 DEF CreditInv, InRcu
  <2>2. CASE pc'[t] # "rcu_done"
    <3>1. hold'[Cur(t)] = hold[Prev(t)] /\ ptr' = ptr /\ pc'[t] = "rcu_f" /\ pc[t] = "rcu_check"
      BY <1>1, <1>9, <2>2 DEF RcuCheck, At, Goto, Assign, Becomes
    <3> QED BY <1>1, <1>2, <3>1 DEF CreditInv, InRcu
  <2> QED BY <2>1, <2>2
<1>10. CASE RcuDone(t)
  BY <1>1, <1>2, <1>10 DEF RcuDone, At, Goto, CreditInv, InRcu
<1>11. CASE ~RcuStep(t)
  BY <1>2, <1>11, OutsideRcu DEF InRcu, CreditInv
<1> QED BY <1>3, <1>4, <1>5, <1>6, <1>7, <1>8, <1>9, <1>10, <1>11 DEF RcuStep

(* What fills the cache is from this load's time and is kept alive. *)
LEMMA OwnSince ==
  ASSUME ContainerInv, NEW t \in Threads, CallInv(t), SinceInv(t), Effects(t), Acting(t), Track
  PROVE  SinceInv(t)'
<1>1. /\ DOMAIN pc = Threads /\ Cached(t) \in Places /\ Fresh(t) \in Places /\ Cached(t) # Fresh(t)
      /\ hold \in [Places -> Words]
  BY PlaceFacts DEF ContainerInv
<1>2. ContainerInv'
  BY NextContainer
<1>3. /\ ptr' \in live' \cup {Null} /\ NONE \notin live' \cup {Null}
      /\ window'[t] \subseteq live' \cup {Null}
      /\ \A r \in Places : hold'[r] # NONE => hold'[r] \in live' \cup {Null}
  BY <1>2, ContainerConstants DEF ContainerInv, Pointers, Words
<1>4. since'[t] = IF pc'[t] # "idle" THEN (since[t] \cup {ptr'}) \cap (live' \cup {Null}) ELSE {}
  BY DEF Track
<1>5. window'[t] \subseteq window[t] \cup {ptr'}
  BY DEF Effects, Moves, cvars, Becomes
<1>6. window[t] \subseteq since[t]
  <2>1. pc[t] = "idle" => window[t] = {}
    BY DEF CallInv, Calling, NoCall, Loading, ContainerInv
  <2> QED BY <2>1 DEF SinceInv
<1>7. ASSUME pc'[t] = "cache_assign"
      PROVE  hold'[Fresh(t)] \in since'[t]
  <2>1. CacheFill(t)
    BY <1>1, <1>7 DEF Acting, Call, Step, Rcu, RcuLoad, RcuF, RcuBegin, RcuCas, RcuDropNew, RcuCheck, RcuDone,
       Store, StoreSwap, StoreDrop, CacheNew, CacheLoad, CacheDrop, Revalidate, Refill,
       CacheAssign, CacheUse, Fmt, Serialize, AccessBegin, AccessGuard, AccessDrop, StartOf, At, Goto
  <2>2. hold'[Fresh(t)] \in window[t]
    BY <1>1, <2>1 DEF CacheFill, Load, Becomes
  <2>3. NONE \notin since[t]
    BY DEF SinceInv
  <2> QED BY <1>1, <1>3, <1>4, <1>6, <1>7, <2>2, <2>3
<1>8. ASSUME pc'[t] = "cache_use"
      PROVE  hold'[Cached(t)] \in since'[t]
  <2>1. CacheAssign(t) \/ Revalidate(t)
    BY <1>1, <1>8 DEF Acting, Call, Step, Rcu, RcuLoad, RcuF, RcuBegin, RcuCas, RcuDropNew, RcuCheck, RcuDone,
       Store, StoreSwap, StoreDrop, CacheNew, CacheLoad, CacheDrop, Refill, CacheFill,
       CacheUse, Fmt, Serialize, AccessBegin, AccessGuard, AccessDrop, StartOf, At, Goto
  <2>2. hold'[Cached(t)] \in since[t]
    <3>1. CASE CacheAssign(t)
      BY <1>1, <3>1 DEF CacheAssign, At, Assign, Becomes, SinceInv
    <3>2. CASE Revalidate(t)
      BY <1>1, <1>8, <3>2 DEF Revalidate, At, Goto, cvars, SinceInv
    <3> QED BY <2>1, <3>1, <3>2
  <2>3. NONE \notin since[t]
    BY DEF SinceInv
  <2> QED BY <1>1, <1>3, <1>4, <1>8, <2>2, <2>3
<1>9. NONE \notin since'[t]
  BY <1>3, <1>4
<1>10. pc'[t] # "idle" => ptr' \in since'[t] /\ window'[t] \subseteq since'[t]
  BY <1>3, <1>4, <1>5, <1>6
<1> QED BY <1>7, <1>8, <1>9, <1>10 DEF SinceInv

----------------------------------------------------------------------------
(* ClientInv is inductive. *)
LEMMA InitClientInv ==
  ASSUME ClientInit
  PROVE  ClientInv
<1>1. ContainerInv
  <2>1. ptr \in Pointers /\ NONE \notin Ptrs /\ NONE \in Words
    BY ContainerConstants DEF ClientInit, FromPointee, EmptyOption, Pointers, Words
  <2>2. live = Ptrs \cap ({ptr} \cup {hold[r] : r \in Places})
    BY <2>1 DEF ClientInit, Init
  <2> QED BY <2>1, <2>2 DEF ContainerInv, ClientInit, Init
<1>2. ASSUME NEW t \in Threads
      PROVE  CallInv(t) /\ RcuInv(t) /\ CreditInv(t) /\ SinceInv(t) /\ AccessInv(t)
  BY DEF ClientInit, Init, CallInv, RcuInv, CreditInv, SinceInv, AccessInv, InRcu
<1> QED BY <1>1, <1>2 DEF ClientInv

LEMMA NextClientInv ==
  ASSUME ClientInv, ClientNext
  PROVE  ClientInv'
<1>1. PICK t \in Threads : Acting(t) /\ Track
  BY DEF ClientNext, Acting
<1>2. ContainerInv /\ CallInv(t) /\ RcuInv(t) /\ CreditInv(t) /\ SinceInv(t) /\ AccessInv(t)
  BY DEF ClientInv
<1>3. Effects(t)
  BY <1>1, <1>2, StepEffects
<1>4. ContainerInv'
  BY <1>2, <1>3, NextContainer
<1>5. CallInv(t)' /\ RcuInv(t)' /\ CreditInv(t)' /\ SinceInv(t)' /\ AccessInv(t)'
  BY <1>1, <1>2, <1>3, OwnCall, OwnRcu, OwnCredit, OwnSince, OwnAccess
<1>6. \A u \in Threads \ {t} : CallInv(u)' /\ RcuInv(u)' /\ CreditInv(u)' /\ SinceInv(u)' /\ AccessInv(u)'
  BY <1>1, <1>3, OthersKeep
<1> QED BY <1>4, <1>5, <1>6 DEF ClientInv

LEMMA ClientInvHolds == ClientSpec => []ClientInv
<1>1. ClientInit => ClientInv
  BY InitClientInv
<1>2. ClientInv /\ [ClientNext]_vars => ClientInv'
  <2>1. ClientInv /\ UNCHANGED vars => ClientInv'
    BY DEF ClientInv, ContainerInv, CallInv, RcuInv, CreditInv, SinceInv, AccessInv, Replaced, Contents,
       vars, cvars, local
  <2> QED BY <2>1, NextClientInv
<1> QED BY <1>1, <1>2, PTL DEF ClientSpec

(* An rcu that returns has put its update in exactly once, computed from   *)
(* the value that it replaced and returns (ArcSwapAny::rcu): whatever the  *)
(* number of threads, of retries and of objects.                           *)
THEOREM RcuUpdatesOnce == ClientSpec => []RcuOnce
<1>1. ClientInv => RcuOnce
  BY DEF ClientInv, RcuInv, RcuOnce, Replaced
<1> QED BY <1>1, ClientInvHolds, PTL

(* An rcu fails at most as often as the container changed since it began   *)
(* (ArcSwapAny::rcu), also when the value that its compare_and_swap gives  *)
(* back is itself outdated by then.                                        *)
THEOREM RcuIsLockFree == ClientSpec => []RcuLockFree
<1>1. ClientInv => \A t \in Threads : credit[t] \in Nat
  BY DEF ClientInv, CreditInv
<1>2. ClientInv => RcuLockFree
  <2>1. \A n \in Nat : n >= 0
    OBVIOUS
  <2> QED BY <1>1, <2>1 DEF RcuLockFree
<1> QED BY <1>2, ClientInvHolds, PTL

(* A load from a Cache or a MapCache shows what the container held since   *)
(* the load began (Cache::revalidate, which compares addresses only).      *)
THEOREM CachesAreFresh == ClientSpec => []CacheFresh
<1>1. ClientInv => CacheFresh
  BY DEF ClientInv, SinceInv, CacheFresh, MapCacheShows, CacheShows
<1> QED BY <1>1, ClientInvHolds, PTL

(* A guard shows the part that its access selects of the one object that   *)
(* was loaded, as long as it is kept.  The hypothesis is about the pure    *)
(* part of src/access.rs alone, that the guards that load builds select    *)
(* what the Maps say; it is an induction over the layers and left to TLC.  *)
THEOREM GuardsAreStable ==
  ASSUME \A a \in Accesses \cup {Guarded}, n \in Nat : Deref(AccessLoad(a), n) = Part(a, n)
  PROVE  ClientSpec => []GuardStable
<1>1. ClientInv => GuardStable
  <2> SUFFICES ASSUME ClientInv, NEW t \in Threads, pc[t] \in {"access_use", "constant_use"}
               PROVE  AccessShows(t) = Part(acc[t], loaded[t])
    BY DEF GuardStable
  <2>1. AccessInv(t) /\ ContainerInv
    BY DEF ClientInv
  <2>2. loaded[t] \in Nat
    BY <2>1, PlaceFacts, HeldLives DEF AccessInv
  <2>3. AccessShows(t) = Deref(AccessLoad(acc[t]), loaded[t])
    BY <2>1 DEF AccessInv, AccessShows
  <2> QED BY <2>1, <2>2, <2>3 DEF AccessInv
<1> QED BY <1>1, ClientInvHolds, PTL
=============================================================================
