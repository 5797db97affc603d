---------------------------- MODULE RwLockProofs ----------------------------
(***************************************************************************)
(* Proofs about RwLock, for every number of threads, every set of types,   *)
(* objects and calls: the counts are exact, so that no count drops below   *)
(* zero and an object lives exactly while it is referred to, and with that *)
(* the strategy implements the abstract Container.                         *)
(*                                                                         *)
(* The inductive invariant LockInv says who holds the lock and why it      *)
(* matters: a thread that has taken a pointer and not counted it yet is    *)
(* Covered, by the container or by a writer that still waits for the lock. *)
(***************************************************************************)
EXTENDS RwLock, Counting

(* The places in a call where a thread holds the lock, has not yet counted *)
(* what it took, uses the container, and has an argument or a result.      *)
Reading == {"read", "read_inc", "read_unlock"}
Writing == {"wait_unlock", "cas_exchange", "cas_inc", "cas_drop_new", "cas_unlock"}
Uncounted == {"read_inc", "cas_inc"}
Using == {"read_lock", "read", "swap", "cas_lock", "cas_exchange"}
Giving == {"swap", "cas_lock", "cas_exchange", "cas_inc", "cas_drop_new"}
Taken == {"read_inc", "read_unlock", "wait_lock", "wait_unlock", "release",
          "cas_inc", "cas_drop_new", "cas_unlock"}

(* TypeOK, with counts that might drop below zero. *)
Typed ==
  /\ ty \in Types
  /\ ptr \in {IntoPtr(v) : v \in ValuesOf(ty)} \cup {NONE}
  /\ cnt \in [Ptrs -> Int]
  /\ readers \subseteq Threads /\ locked \in Threads \cup {NONE}
  /\ new \in [Threads -> ValuesOf(ty) \cup {NONE}]
  /\ res \in [Threads -> ValuesOf(ty) \cup {NONE}]
  /\ pc \in [Threads -> PCs]
  /\ op \in [Threads -> OpNames \cup {"none"}]
  /\ cur \in [Threads -> Ptrs \cup {Null, NONE}]
  /\ calls \in [Threads -> Nat]

(* What a thread has at each point of a call. *)
Shape(t) ==
  /\ pc[t] \in {"read_lock", "read"} => op[t] = "load"
  /\ pc[t] \in {"cas_lock", "cas_exchange"} => op[t] = "compare_and_swap"
  /\ pc[t] \in Using => ptr # NONE /\ res[t] = NONE
  /\ pc[t] \in Giving => new[t] # NONE
  /\ pc[t] \in Taken => res[t] # NONE

(* The lock is held in the critical sections, and excludes. *)
Excludes ==
  /\ \A t \in Threads : (t \in readers <=> pc[t] \in Reading)
  /\ \A t \in Threads : (locked = t <=> pc[t] \in Writing)
  /\ locked # NONE => readers = {}

(* A pointer taken and not counted is in the container, or its writer has  *)
(* not got through wait_for_readers.                                       *)
Covered(t) ==
  pc[t] \in Uncounted =>
    \/ ptr # NONE /\ res[t] = FromPtr(ty, ptr)
    \/ \E u \in Threads : pc[u] = "wait_lock" /\ res[u] = res[t]

(* The owners of an object: the container, arguments, results. *)
One(c) == IF c THEN 1 ELSE 0
Owns(t, p) == res[t] = Full(p) /\ pc[t] \notin Uncounted
InNew(p) == {t \in Threads : new[t] = Full(p)}
InRes(p) == {t \in Threads : Owns(t, p)}
Exact(p) == cnt[p] = One(ptr = p) + Cardinality(InNew(p)) + Cardinality(InRes(p))

(* What a load may return lives, and what is in the container is among it. *)
SeenOK(t) ==
  IF pc[t] \in Loading
  THEN ptr \in seen[t] /\ seen[t] \subseteq Alive \cup {Null} ELSE seen[t] = {}

(* The inductive invariant, the history aside. *)
LockInv ==
  /\ Typed /\ Excludes
  /\ \A t \in Threads : Shape(t) /\ Covered(t)
  /\ \A p \in Ptrs : Exact(p)

----------------------------------------------------------------------------
(* Values and pointers. *)

(* into_ptr and from_ptr are inverse to each other. *)
LEMMA ValueFacts ==
  ASSUME NEW T \in Types, NEW v \in ValuesOf(T)
  PROVE  /\ v # NONE
         /\ v.is = "full" => (v.at \in Ptrs /\ v = Full(v.at))
         /\ IntoPtr(v) \in Ptrs \cup {Null} /\ IntoPtr(v) # NONE
         /\ FromPtr(T, IntoPtr(v)) = v
         /\ \A p \in Ptrs : v = Full(p) <=> IntoPtr(v) = p
BY RwLockConstants DEF ValuesOf, IntoPtr, FromPtr, Full, Empty, None

(* What from_ptr gets is always the pointer of a value of the type. *)
LEMMA PtrFacts ==
  ASSUME NEW T \in Types, NEW p \in {IntoPtr(v) : v \in ValuesOf(T)} \cup {NONE}, p # NONE
  PROVE  /\ p \in Ptrs \cup {Null} /\ FromPtr(T, p) \in ValuesOf(T)
         /\ IntoPtr(FromPtr(T, p)) = p /\ FromPtr(T, p) # NONE
         /\ \A q \in Ptrs : FromPtr(T, p) = Full(q) <=> p = q
<1>1. PICK v \in ValuesOf(T) : p = IntoPtr(v)
  OBVIOUS
<1>2. FromPtr(T, p) = v
  BY <1>1, ValueFacts
<1>3. /\ p \in Ptrs \cup {Null} /\ v # NONE
      /\ \A q \in Ptrs : v = Full(q) <=> p = q
  BY <1>1, ValueFacts
<1> QED BY <1>1, <1>2, <1>3

(* A clone or a drop changes the count of one object by one. *)
LEMMA ClonedFacts ==
  ASSUME NEW T \in Types, NEW v \in ValuesOf(T), NEW c \in [Ptrs -> Int]
  PROVE  /\ Cloned(c, v) \in [Ptrs -> Int] /\ Dropped(c, v) \in [Ptrs -> Int]
         /\ \A p \in Ptrs : Cloned(c, v)[p] = c[p] + One(v = Full(p))
         /\ \A p \in Ptrs : Dropped(c, v)[p] = c[p] - One(v = Full(p))
BY ValueFacts, RwLockConstants DEF Cloned, Dropped, One, Full, ValuesOf, Empty, None

(* There are finitely many threads to count. *)
LEMMA ThreadsFinite == IsFiniteSet(Threads)
BY FS_Interval, RwLockConstants DEF Threads

----------------------------------------------------------------------------
(* Every step but Track's history. *)

Acting(t) == Call(t) \/ Step(t)

(* Only t's own part changes. *)
Frame(t) ==
  \A u \in Threads \ {t} :
    new'[u] = new[u] /\ res'[u] = res[u] /\ pc'[u] = pc[u] /\ op'[u] = op[u] /\ cur'[u] = cur[u]

(* Every step keeps the frame, and the type. *)
LEMMA FrameStep ==
  ASSUME Typed, NEW t \in Threads, Acting(t)
  PROVE  Frame(t) /\ ty' = ty
BY DEF Acting, Call, Step, Typed, Frame, ReadLock, Read, ReadInc, ReadUnlock, Swap,
   WaitLock, WaitUnlock, Release, CasLock, CasExchange, CasInc, CasDropNew, CasUnlock,
   CallLoad, CallNew, GuardDrop, Argument, CallSwap, CallCas, CallDrop, Begin, Return,
   Goto

(* Types are preserved, a value made by from_ptr included. *)
LEMMA TypedStep ==
  ASSUME Typed, \A u \in Threads : Shape(u), NEW t \in Threads, Acting(t)
  PROVE  Typed'
<1>1. PICK V : V = ValuesOf(ty)
  OBVIOUS
<1>2. PICK W : W = {IntoPtr(v) : v \in ValuesOf(ty)}
  OBVIOUS
<1>3. /\ ty \in Types
      /\ ptr # NONE => FromPtr(ty, ptr) \in V
      /\ \A v \in V : IntoPtr(v) \in W
      /\ \A v \in V : Cloned(cnt, v) \in [Ptrs -> Int] /\ Dropped(cnt, v) \in [Ptrs -> Int]
  BY <1>1, <1>2, PtrFacts, ClonedFacts DEF Typed
<1> DEFINE
  Shared(p, c, r, l) ==
    /\ p \in W \cup {NONE} /\ c \in [Ptrs -> Int]
    /\ r \subseteq Threads /\ l \in Threads \cup {NONE}
  Local(n, r, l, o, c, k) ==
    /\ n \in [Threads -> V \cup {NONE}] /\ r \in [Threads -> V \cup {NONE}]
    /\ l \in [Threads -> PCs] /\ o \in [Threads -> OpNames \cup {"none"}]
    /\ c \in [Threads -> Ptrs \cup {Null, NONE}] /\ k \in [Threads -> Nat]
  S == Shared(ptr, cnt, readers, locked) /\ Local(new, res, pc, op, cur, calls)
  SS == ty' = ty /\ Shared(ptr', cnt', readers', locked') /\ Local(new', res', pc', op', cur', calls')
<1>4. S
  BY <1>1, <1>2 DEF Typed
<1>5. SUFFICES SS
  BY <1>1, <1>2 DEF Typed
<1>6. Shape(t)
  OBVIOUS
<1> HIDE DEF Typed
<1>7. CASE ReadLock(t) \/ ReadUnlock(t) \/ WaitLock(t) \/ WaitUnlock(t) \/ CasLock(t) \/ CasUnlock(t)
  BY <1>4, <1>7 DEF ReadLock, ReadUnlock, WaitLock, WaitUnlock, CasLock, CasUnlock, Goto, Return,
     AcquireRead, AcquireWrite, ReleaseRead, ReleaseWrite, PCs
<1>8. CASE Read(t) \/ Swap(t) \/ CasExchange(t)
  <2>1. ptr # NONE /\ (pc[t] # "read" => new[t] \in V)
    BY <1>4, <1>6, <1>8 DEF Shape, Using, Giving, Read, Swap, CasExchange
  <2>2. CASE Read(t)
    BY <1>3, <1>4, <2>1, <2>2 DEF Read, Goto, PCs, lock
  <2>3. CASE Swap(t)
    BY <1>3, <1>4, <2>1, <2>3 DEF Swap, Goto, PCs, lock
  <2>4. CASE CasExchange(t)
    BY <1>3, <1>4, <2>1, <2>4 DEF CasExchange, Goto, PCs, lock
  <2> QED BY <1>8, <2>2, <2>3, <2>4
<1>9. CASE ReadInc(t) \/ Release(t) \/ CasInc(t) \/ CasDropNew(t)
  <2>1. res[t] \in V /\ (pc[t] = "cas_drop_new" => new[t] \in V)
    BY <1>4, <1>6, <1>9 DEF Shape, Taken, Giving, ReadInc, Release, CasInc, CasDropNew
  <2>2. CASE ReadInc(t) \/ Release(t)
    BY <1>3, <1>4, <2>1, <2>2 DEF ReadInc, Release, Goto, Return, PCs, lock
  <2>3. CASE CasInc(t) \/ CasDropNew(t)
    BY <1>3, <1>4, <2>1, <2>3 DEF CasInc, CasDropNew, Goto, PCs, lock
  <2> QED BY <1>9, <2>2, <2>3
<1>10. CASE CallLoad(t) \/ (\E o \in {"store", "swap"} : CallSwap(t, o)) \/ (\E c \in AsRaw : CallCas(t, c))
  BY <1>4, <1>10 DEF CallLoad, CallSwap, CallCas, Begin, Goto, PCs, OpNames, lock, AsRaw
<1>11. CASE CallNew(t) \/ GuardDrop(t) \/ (\E v \in V : Argument(t, v))
  BY <1>3, <1>4, <1>11 DEF CallNew, GuardDrop, Argument, lock
<1>12. CASE \E o \in {"drop", "into_inner"} : CallDrop(t, o)
  BY <1>3, <1>4, <1>12 DEF CallDrop, Begin, Goto, PCs, OpNames, lock
<1> QED BY <1>1, <1>7, <1>8, <1>9, <1>10, <1>11, <1>12 DEF Acting, Call, Step

(* The lock is taken and released where a critical section begins and      *)
(* ends.                                                                   *)
LEMMA ExcludesStep ==
  ASSUME Typed, Excludes, NEW t \in Threads, Acting(t)
  PROVE  Excludes'
<1>1. pc \in [Threads -> PCs] /\ NONE \notin Threads
  BY RwLockConstants DEF Typed
<1>2. CASE Call(t) \/ Read(t) \/ ReadInc(t) \/ Swap(t) \/ Release(t) \/ CasExchange(t) \/ CasInc(t) \/ CasDropNew(t)
  BY <1>1, <1>2 DEF Call, Read, ReadInc, Swap, Release, CasExchange, CasInc, CasDropNew, Goto, Return,
     CallLoad, CallNew, GuardDrop, Argument, CallSwap, CallCas, CallDrop, Begin, Acts, lock,
     Excludes, Reading, Writing
<1>3. CASE ReadLock(t) \/ ReadUnlock(t) \/ WaitLock(t) \/ WaitUnlock(t) \/ CasLock(t) \/ CasUnlock(t)
  BY <1>1, <1>3 DEF ReadLock, ReadUnlock, WaitLock, WaitUnlock, CasLock, CasUnlock, Goto, Return,
     AcquireRead, AcquireWrite, ReleaseRead, ReleaseWrite, Excludes, Reading, Writing
<1> QED BY <1>2, <1>3 DEF Acting, Step

(* Everybody else keeps its shape: the container goes only when nobody     *)
(* else is in a call.                                                      *)
LEMMA ShapeStep ==
  ASSUME Typed, \A u \in Threads : Shape(u), NEW t \in Threads, Acting(t), NEW u \in Threads
  PROVE  Shape(u)'
<1>1. /\ pc \in [Threads -> PCs] /\ DOMAIN new = Threads /\ DOMAIN res = Threads /\ DOMAIN op = Threads
      /\ ptr # NONE => FromPtr(ty, ptr) # NONE
      /\ \A v \in ValuesOf(ty) : v # NONE /\ IntoPtr(v) # NONE
      /\ new[t] # NONE => IntoPtr(new[t]) # NONE
  BY PtrFacts, ValueFacts DEF Typed
<1>2. Shape(u) /\ Shape(t)
  OBVIOUS
<1>3. CASE ReadLock(t) \/ ReadUnlock(t) \/ WaitLock(t) \/ WaitUnlock(t) \/ CasLock(t) \/ CasUnlock(t)
  BY <1>1, <1>2, <1>3 DEF ReadLock, ReadUnlock, WaitLock, WaitUnlock, CasLock, CasUnlock, Goto, Return,
     Shape, Using, Giving, Taken, PCs
<1>4. CASE Read(t) \/ ReadInc(t) \/ Swap(t) \/ Release(t)
  BY <1>1, <1>2, <1>4 DEF Read, ReadInc, Swap, Release, Goto, Return, Shape, Using, Giving, Taken
<1>5. CASE CasExchange(t) \/ CasInc(t) \/ CasDropNew(t)
  BY <1>1, <1>2, <1>5 DEF CasExchange, CasInc, CasDropNew, Goto, Return, Shape, Using, Giving, Taken
<1>6. CASE CallLoad(t) \/ (\E o \in {"store", "swap"} : CallSwap(t, o)) \/ (\E c \in AsRaw : CallCas(t, c))
  BY <1>1, <1>2, <1>6 DEF CallLoad, CallSwap, CallCas, Begin, Goto, Shape, Using, Giving, Taken
<1>7. CASE CallNew(t) \/ GuardDrop(t) \/ \E v \in ValuesOf(ty) : Argument(t, v)
  BY <1>1, <1>2, <1>7 DEF CallNew, GuardDrop, Argument, Acts, Shape, Using, Giving, Taken
<1>8. CASE \E o \in {"drop", "into_inner"} : CallDrop(t, o)
  BY <1>1, <1>2, <1>8 DEF CallDrop, Quiet, Begin, Goto, Shape, Using, Giving, Taken
<1> QED BY <1>3, <1>4, <1>5, <1>6, <1>7, <1>8 DEF Acting, Call, Step

(* A writer that takes the pointer out of the container is still to wait;  *)
(* it gets through only when nobody is between taking and counting.        *)
LEMMA CoveredStep ==
  ASSUME Typed, Excludes, \A u \in Threads : Shape(u) /\ Covered(u),
         NEW t \in Threads, Acting(t), NEW u \in Threads
  PROVE  Covered(u)'
<1>1. /\ pc \in [Threads -> PCs] /\ DOMAIN new = Threads /\ DOMAIN res = Threads /\ NONE \notin Threads
      /\ ty' = ty
  BY FrameStep, RwLockConstants DEF Typed
<1>2. Covered(u) /\ Shape(t) /\ Shape(u)
  OBVIOUS
<1>3. CASE ReadLock(t) \/ ReadUnlock(t) \/ WaitUnlock(t) \/ CasLock(t) \/ CasUnlock(t)
  BY <1>1, <1>2, <1>3 DEF ReadLock, ReadUnlock, WaitUnlock, CasLock, CasUnlock, Goto, Return,
     Covered, Uncounted
<1>4. CASE WaitLock(t)
  BY <1>1, <1>2, <1>4 DEF WaitLock, AcquireWrite, Goto, Covered, Uncounted, Excludes, Reading, Writing
<1>5. CASE Read(t) \/ ReadInc(t) \/ Release(t) \/ CasInc(t) \/ CasDropNew(t)
  BY <1>1, <1>2, <1>5 DEF Read, ReadInc, Release, CasInc, CasDropNew, Goto, Return, Covered, Uncounted,
     Shape, Using
<1>6. CASE Swap(t)
  BY <1>1, <1>2, <1>6 DEF Swap, Goto, Covered, Uncounted
<1>7. CASE CasExchange(t)
  BY <1>1, <1>2, <1>7 DEF CasExchange, Goto, Covered, Uncounted, Excludes, Reading, Writing, Shape, Using
<1>8. CASE CallLoad(t) \/ (\E o \in {"store", "swap"} : CallSwap(t, o)) \/ (\E c \in AsRaw : CallCas(t, c))
  BY <1>1, <1>2, <1>8 DEF CallLoad, CallSwap, CallCas, Begin, Goto, Acts, Covered, Uncounted
<1>9. CASE CallNew(t) \/ GuardDrop(t) \/ \E v \in ValuesOf(ty) : Argument(t, v)
  BY <1>1, <1>2, <1>9 DEF CallNew, GuardDrop, Argument, Acts, Quiet, Covered, Uncounted
<1>10. CASE \E o \in {"drop", "into_inner"} : CallDrop(t, o)
  BY <1>1, <1>2, <1>10 DEF CallDrop, Quiet, Begin, Goto, Covered, Uncounted
<1> QED BY <1>3, <1>4, <1>5, <1>6, <1>7, <1>8, <1>9, <1>10 DEF Acting, Call, Step

----------------------------------------------------------------------------
(* The counts. *)

(* What t has of the object at p, the container aside. *)
Share(t, p) == One(new[t] = Full(p)) + One(Owns(t, p))

(* The sum over the threads moves with the one that acts. *)
LEMMA ExactMoves ==
  ASSUME Typed, NEW p \in Ptrs, Exact(p), NEW t \in Threads, Frame(t),
         cnt'[p] = cnt[p] - One(ptr = p) + One(ptr' = p) - Share(t, p) + Share(t, p)'
  PROVE  Exact(p)'
<1>1. PICK A : A = InNew(p)
  OBVIOUS
<1>2. PICK B : B = InNew(p)'
  OBVIOUS
<1>3. PICK C : C = InRes(p)
  OBVIOUS
<1>4. PICK D : D = InRes(p)'
  OBVIOUS
<1>5. /\ Cardinality(A) \in Nat /\ Cardinality(B) \in Nat
      /\ Cardinality(B) = Cardinality(A) - One(new[t] = Full(p)) + One(new'[t] = Full(p))
  <2>1. A \in SUBSET Threads /\ B \in SUBSET Threads
    BY <1>1, <1>2 DEF InNew
  <2>2. \A u \in Threads : u # t => (u \in A <=> u \in B)
    BY <1>1, <1>2 DEF InNew, Frame
  <2>3. (t \in A <=> new[t] = Full(p)) /\ (t \in B <=> new'[t] = Full(p))
    BY <1>1, <1>2 DEF InNew
  <2> QED BY <2>1, <2>2, <2>3, ThreadsFinite, OneChange DEF One
<1>6. /\ Cardinality(C) \in Nat /\ Cardinality(D) \in Nat
      /\ Cardinality(D) = Cardinality(C) - One(Owns(t, p)) + One(Owns(t, p)')
  <2>1. C \in SUBSET Threads /\ D \in SUBSET Threads
    BY <1>3, <1>4 DEF InRes
  <2>2. \A u \in Threads : u # t => (u \in C <=> u \in D)
    BY <1>3, <1>4 DEF InRes, Owns, Frame
  <2>3. (t \in C <=> Owns(t, p)) /\ (t \in D <=> Owns(t, p)')
    BY <1>3, <1>4 DEF InRes
  <2> QED BY <2>1, <2>2, <2>3, ThreadsFinite, OneChange DEF One
<1>7. cnt[p] = One(ptr = p) + Cardinality(A) + Cardinality(C)
  BY <1>1, <1>3 DEF Exact
<1>8. cnt'[p] = One(ptr' = p) + Cardinality(B) + Cardinality(D)
  <2> HIDE DEF Owns
  <2> QED BY <1>5, <1>6, <1>7 DEF Share, One
<1> QED BY <1>2, <1>4, <1>8 DEF Exact

(* Every step keeps the books: what it adds to a count it hands to the     *)
(* container or to one of t's values, what it takes away it takes there.   *)
LEMMA ExactStep ==
  ASSUME Typed, \A u \in Threads : Shape(u), NEW p \in Ptrs, Exact(p),
         NEW t \in Threads, Acting(t)
  PROVE  Exact(p)'
<1>1. /\ ty \in Types /\ pc \in [Threads -> PCs] /\ DOMAIN new = Threads /\ DOMAIN res = Threads
      /\ cnt \in [Ptrs -> Int]
      /\ new[t] # NONE => new[t] \in ValuesOf(ty)
      /\ res[t] # NONE => res[t] \in ValuesOf(ty)
  BY DEF Typed
<1>2. ptr # NONE => (FromPtr(ty, ptr) = Full(p) <=> ptr = p)
  BY PtrFacts DEF Typed
<1>3. \A v \in ValuesOf(ty) :
        /\ v # NONE /\ (v = Full(p) <=> IntoPtr(v) = p)
        /\ Cloned(cnt, v)[p] = cnt[p] + One(v = Full(p))
        /\ Dropped(cnt, v)[p] = cnt[p] - One(v = Full(p))
  BY <1>1, ValueFacts, ClonedFacts
<1>4. NONE # Full(p) /\ NONE # p /\ cnt[p] \in Int
  BY <1>1, RwLockConstants DEF ValuesOf, Full
<1>5. Shape(t)
  OBVIOUS
<1>6. Frame(t)
  BY FrameStep
<1> DEFINE Moves == cnt'[p] = cnt[p] - One(ptr = p) + One(ptr' = p) - Share(t, p) + Share(t, p)'
<1>7. SUFFICES Moves
  BY <1>6, ExactMoves
<1>8. CASE ReadLock(t) \/ ReadUnlock(t) \/ WaitLock(t) \/ WaitUnlock(t) \/ CasLock(t) \/ CasUnlock(t)
  BY <1>1, <1>4, <1>8 DEF ReadLock, ReadUnlock, WaitLock, WaitUnlock, CasLock, CasUnlock, Goto, Return,
     Share, Owns, One, Uncounted
<1>9. CASE Read(t) \/ Swap(t)
  BY <1>1, <1>2, <1>3, <1>4, <1>5, <1>9 DEF Read, Swap, Goto, Share, Owns, One, Uncounted,
     Shape, Using, Giving
<1>10. CASE CasExchange(t)
  BY <1>1, <1>2, <1>3, <1>4, <1>5, <1>10 DEF CasExchange, Goto, Share, Owns, One, Uncounted,
     Shape, Using, Giving
<1>11. CASE ReadInc(t) \/ Release(t)
  BY <1>1, <1>3, <1>4, <1>5, <1>11 DEF ReadInc, Release, Goto, Return, Share, Owns, One, Uncounted,
     Shape, Taken
<1>12. CASE CasInc(t) \/ CasDropNew(t)
  BY <1>1, <1>3, <1>4, <1>5, <1>12 DEF CasInc, CasDropNew, Goto, Share, Owns, One, Uncounted,
     Shape, Taken, Giving
<1>13. CASE CallLoad(t) \/ (\E o \in {"store", "swap"} : CallSwap(t, o)) \/ (\E c \in AsRaw : CallCas(t, c))
  BY <1>1, <1>4, <1>13 DEF CallLoad, CallSwap, CallCas, Begin, Acts, Goto, Share, Owns, One, Uncounted
<1>14. CASE CallNew(t) \/ GuardDrop(t)
  BY <1>1, <1>3, <1>4, <1>14 DEF CallNew, GuardDrop, Acts, Share, Owns, One, Uncounted
<1>15. CASE \E v \in ValuesOf(ty) : Argument(t, v)
  BY <1>1, <1>3, <1>4, <1>15 DEF Argument, Acts, Share, Owns, One, Uncounted
<1>16. CASE \E o \in {"drop", "into_inner"} : CallDrop(t, o)
  BY <1>1, <1>2, <1>4, <1>16 DEF CallDrop, Begin, Acts, Goto, Share, Owns, One, Uncounted
<1> QED BY <1>8, <1>9, <1>10, <1>11, <1>12, <1>13, <1>14, <1>15, <1>16 DEF Acting, Call, Step

----------------------------------------------------------------------------
(* An object lives exactly while something refers to it. *)

(* With an exact count, positive means that somebody owns the object. *)
LEMMA CountOwners ==
  ASSUME Typed, NEW p \in Ptrs, Exact(p)
  PROVE  /\ cnt[p] \in Nat
         /\ cnt[p] > 0 <=> \/ ptr = p
                           \/ \E t \in Threads : new[t] = Full(p) \/ Owns(t, p)
<1>1. PICK A : A = InNew(p)
  OBVIOUS
<1>2. PICK B : B = InRes(p)
  OBVIOUS
<1>3. IsFiniteSet(A) /\ IsFiniteSet(B)
  BY <1>1, <1>2, ThreadsFinite, FS_Subset DEF InNew, InRes
<1>4. /\ Cardinality(A) \in Nat /\ Cardinality(B) \in Nat
      /\ (Cardinality(A) = 0 <=> A = {}) /\ (Cardinality(B) = 0 <=> B = {})
  BY <1>3, FS_CardinalityType, FS_EmptySet
<1>5. cnt[p] = One(ptr = p) + Cardinality(A) + Cardinality(B)
  BY <1>1, <1>2 DEF Exact
<1>6. cnt[p] \in Nat /\ (cnt[p] > 0 <=> ptr = p \/ A # {} \/ B # {})
  BY <1>4, <1>5 DEF One
<1>7. /\ A # {} <=> \E t \in Threads : new[t] = Full(p)
      /\ B # {} <=> \E t \in Threads : Owns(t, p)
  BY <1>1, <1>2 DEF InNew, InRes
<1> QED BY <1>6, <1>7

(* What the abstract container sees of a value. *)
PtrOf(v) == IF v = NONE THEN NONE ELSE AsPtr(v)

LEMMA HeldFacts ==
  /\ DOMAIN Held = Threads \X Roles
  /\ \A t \in Threads : Held[<<t, "new">>] = PtrOf(new[t]) /\ Held[<<t, "res">>] = PtrOf(res[t])
BY DEF Held, PtrOf, Roles

LEMMA PtrOfFacts ==
  ASSUME NEW T \in Types, NEW v \in ValuesOf(T) \cup {NONE}
  PROVE  /\ v = NONE <=> PtrOf(v) = NONE
         /\ \A p \in Ptrs : v = Full(p) <=> PtrOf(v) = p
<1>1. CASE v = NONE
  <2>1. \A p \in Ptrs : Full(p) \in ValuesOf(T)
    BY DEF ValuesOf
  <2> QED BY <1>1, <2>1, RwLockConstants DEF PtrOf
<1>2. CASE v # NONE
  BY <1>2, ValueFacts DEF PtrOf, AsPtr
<1> QED BY <1>1, <1>2

(* Also for the reader that has not counted: Covered. *)
LEMMA AliveExactly ==
  ASSUME LockInv
  PROVE  /\ Alive = Ptrs \cap ({ptr} \cup {Held[r] : r \in Threads \X Roles})
         /\ ptr # NONE => ptr \in Alive \cup {Null}
<1>1. ASSUME NEW p \in Ptrs
      PROVE  p \in Alive <=> (ptr = p \/ \E t \in Threads : new[t] = Full(p) \/ res[t] = Full(p))
  <2>1. cnt[p] > 0 <=> (ptr = p \/ \E t \in Threads : new[t] = Full(p) \/ Owns(t, p))
    BY CountOwners DEF LockInv
  <2>2. ASSUME NEW t \in Threads, res[t] = Full(p), ~Owns(t, p)
        PROVE  ptr = p \/ \E u \in Threads : Owns(u, p)
    <3>1. CASE ptr # NONE /\ res[t] = FromPtr(ty, ptr)
      BY <2>2, <3>1, PtrFacts DEF LockInv, Typed
    <3>2. CASE \E u \in Threads : pc[u] = "wait_lock" /\ res[u] = res[t]
      BY <2>2, <3>2 DEF Owns, Uncounted
    <3> QED BY <2>2, <3>1, <3>2 DEF LockInv, Covered, Owns
  <2>3. p \in Alive <=> cnt[p] > 0
    BY DEF Alive
  <2> QED BY <2>1, <2>2, <2>3 DEF Owns
<1>2. ASSUME NEW p \in Ptrs
      PROVE  (\E t \in Threads : new[t] = Full(p) \/ res[t] = Full(p))
               <=> \E r \in Threads \X Roles : Held[r] = p
  <2>1. \A t \in Threads : /\ new[t] = Full(p) <=> Held[<<t, "new">>] = p
                           /\ res[t] = Full(p) <=> Held[<<t, "res">>] = p
    <3> SUFFICES ASSUME NEW t \in Threads
                 PROVE  /\ new[t] = Full(p) <=> Held[<<t, "new">>] = p
                        /\ res[t] = Full(p) <=> Held[<<t, "res">>] = p
      OBVIOUS
    <3>1. /\ ty \in Types
          /\ new[t] \in ValuesOf(ty) \cup {NONE} /\ res[t] \in ValuesOf(ty) \cup {NONE}
      BY DEF LockInv, Typed
    <3>2. (new[t] = Full(p) <=> PtrOf(new[t]) = p) /\ (res[t] = Full(p) <=> PtrOf(res[t]) = p)
      BY <3>1, PtrOfFacts
    <3> QED BY <3>2, HeldFacts
  <2>2. \A r \in Threads \X Roles : \E t \in Threads : r = <<t, "new">> \/ r = <<t, "res">>
    BY DEF Roles
  <2>3. \A t \in Threads : <<t, "new">> \in Threads \X Roles /\ <<t, "res">> \in Threads \X Roles
    BY DEF Roles
  <2> QED BY <2>1, <2>2, <2>3
<1>3. Alive \subseteq Ptrs
  BY DEF Alive
<1>4. ptr # NONE => ptr \in Ptrs \cup {Null}
  BY PtrFacts DEF LockInv, Typed
<1> QED BY <1>1, <1>2, <1>3, <1>4

----------------------------------------------------------------------------
(* The invariant, with the history. *)

(* With the history: the whole inductive invariant. *)
SeenTyped == seen \in [Threads -> SUBSET (Ptrs \cup {Null})]
RwInv == LockInv /\ SeenTyped /\ \A t \in Threads : SeenOK(t)

(* It holds in the beginning, every step keeps it. *)
LEMMA InitRwInv ==
  ASSUME Init
  PROVE  RwInv
<1>1. Typed
  BY DEF Init, Typed, PCs
<1>2. Excludes /\ \A t \in Threads : Shape(t) /\ Covered(t) /\ SeenOK(t)
  BY RwLockConstants DEF Init, Excludes, Shape, Covered, SeenOK, Reading, Writing, Uncounted, Using,
     Giving, Taken, Loading
<1>3. ASSUME NEW p \in Ptrs
      PROVE  Exact(p)
  <2>1. InNew(p) = {} /\ InRes(p) = {} /\ ptr # p
    <3>1. \A T \in Types : Full(p) \in ValuesOf(T)
      BY DEF ValuesOf
    <3>2. NONE # Full(p)
      BY <1>1, <3>1, RwLockConstants DEF Typed
    <3> QED BY <3>2, RwLockConstants DEF Init, InNew, InRes, Owns
  <2>2. Cardinality({}) = 0
    BY FS_EmptySet
  <2> QED BY <2>1, <2>2 DEF Exact, One, Init
<1>4. SeenTyped
  BY DEF Init, SeenTyped
<1> QED BY <1>1, <1>2, <1>3, <1>4 DEF RwInv, LockInv

LEMMA NextLockInv ==
  ASSUME LockInv, NEW t \in Threads, Acting(t)
  PROVE  LockInv'
BY TypedStep, ExcludesStep, ShapeStep, CoveredStep, ExactStep DEF LockInv

LEMMA NextRwInv ==
  ASSUME RwInv, Next
  PROVE  RwInv'
<1>1. PICK t \in Threads : Acting(t) /\ Track
  BY DEF Next, Acting
<1>2. LockInv'
  BY <1>1, NextLockInv DEF RwInv
<1>3. (ptr # NONE => ptr \in Alive \cup {Null})'
  BY <1>2, AliveExactly, PTL
<1>4. SeenTyped'
  BY <1>1 DEF Track, SeenTyped, Alive
<1>5. ASSUME NEW u \in Threads
      PROVE  SeenOK(u)'
  <2>1. Shape(u)'
    BY <1>2 DEF LockInv
  <2>2. pc'[u] \in Loading => ptr' \in Alive' \cup {Null}
    BY <1>3, <2>1 DEF Shape, Loading, Using
  <2> QED BY <1>1, <2>2 DEF Track, SeenOK
<1> QED BY <1>2, <1>4, <1>5 DEF RwInv

LEMMA StutterRwInv ==
  ASSUME RwInv, UNCHANGED vars
  PROVE  RwInv'
BY DEF RwInv, LockInv, Typed, Excludes, Shape, Covered, Exact, InNew, InRes, Owns, SeenTyped, SeenOK,
   Alive, vars, lock, thread

LEMMA RwInvHolds == Spec => []RwInv
<1>1. Init => RwInv
  BY InitRwInv
<1>2. RwInv /\ [Next]_vars => RwInv'
  BY NextRwInv, StutterRwInv
<1> QED BY <1>1, <1>2, PTL DEF Spec

(* from_ptr never makes a value that the container's type does not have,   *)
(* and no count drops below zero: nothing is released that was not counted *)
(* (RefCnt for the pointers, src/strategy/rw_lock.rs for the counts).      *)
THEOREM TypeCorrect == Spec => []TypeOK
<1>1. RwInv => TypeOK
  <2>1. RwInv => cnt \in [Ptrs -> Nat]
    <3> SUFFICES ASSUME RwInv
                 PROVE  cnt \in [Ptrs -> Nat]
      OBVIOUS
    <3>1. \A p \in Ptrs : cnt[p] \in Nat
      BY CountOwners DEF RwInv, LockInv
    <3> QED BY <3>1 DEF RwInv, LockInv, Typed
  <2> QED BY <2>1 DEF RwInv, LockInv, Typed, SeenTyped, TypeOK
<1> QED BY <1>1, RwInvHolds, PTL

----------------------------------------------------------------------------
(* The refinement. *)

(* What the abstract container sees of a call. *)
Promise(t) ==
  IF pc[t] \in Loading THEN [op |-> op[t], cur |-> cur[t]] ELSE [op |-> "none", cur |-> NONE]

(* A step of t moves at most its own two places, and its own call. *)
LEMMA HeldMoves ==
  ASSUME NEW t \in Threads, Frame(t)
  PROVE  /\ Held' = [Held EXCEPT ![<<t, "new">>] = PtrOf(new'[t]), ![<<t, "res">>] = PtrOf(res'[t])]
         /\ new'[t] = new[t] => Held' = [Held EXCEPT ![<<t, "res">>] = PtrOf(res'[t])]
         /\ res'[t] = res[t] => Held' = [Held EXCEPT ![<<t, "new">>] = PtrOf(new'[t])]
         /\ new'[t] = new[t] /\ res'[t] = res[t] => Held' = Held
<1>1. ASSUME NEW u \in Threads, u # t
      PROVE  Held'[<<u, "new">>] = Held[<<u, "new">>] /\ Held'[<<u, "res">>] = Held[<<u, "res">>]
  BY <1>1 DEF Held, Frame, Roles
<1>2. /\ Held'[<<t, "new">>] = PtrOf(new'[t]) /\ Held'[<<t, "res">>] = PtrOf(res'[t])
      /\ Held[<<t, "new">>] = PtrOf(new[t]) /\ Held[<<t, "res">>] = PtrOf(res[t])
  BY DEF Held, PtrOf, Roles
<1>3. /\ DOMAIN Held = Threads \X Roles /\ DOMAIN Held' = Threads \X Roles
      /\ Held = [r \in Threads \X Roles |-> Held[r]] /\ Held' = [r \in Threads \X Roles |-> Held'[r]]
  BY DEF Held
<1>4. \A r \in Threads \X Roles : \E u \in Threads : r = <<u, "new">> \/ r = <<u, "res">>
  BY DEF Roles
<1>5. \A r \in Threads \X Roles : r # <<t, "new">> /\ r # <<t, "res">> => Held'[r] = Held[r]
  BY <1>1, <1>4
<1> QED BY <1>2, <1>3, <1>5

LEMMA PromisedMoves ==
  ASSUME NEW t \in Threads, Frame(t)
  PROVE  Promised' = [Promised EXCEPT ![t] = Promise(t)'] /\ Promised[t] = Promise(t)
BY DEF Promised, Promise, Frame

(* Whatever the step, the objects and the windows are as they have to be. *)
LEMMA BecomesNext ==
  ASSUME RwInv', Track
  PROVE  Abstract!Becomes(ptr', Held', Promised')
<1>1. Alive' = Ptrs \cap ({ptr'} \cup {Held'[r] : r \in Abstract!Places})
  <2>1. (LockInv => Alive = Ptrs \cap ({ptr} \cup {Held[r] : r \in Threads \X Roles}))'
    BY AliveExactly, PTL
  <2> QED BY <2>1 DEF RwInv, Abstract!Places
<1>2. \A t \in Threads : Promised'[t].op \in Abstract!Loading <=> pc'[t] \in Loading
  BY DEF RwInv, LockInv, Shape, Promised, Loading, Abstract!Loading
<1> QED BY <1>1, <1>2 DEF Track, Abstract!Becomes

(* When neither the container nor any place nor any promise changes, the   *)
(* abstract container does not move at all.                                *)
LEMMA Stutters ==
  ASSUME RwInv, RwInv', Track, NEW t \in Threads, Frame(t), ptr' = ptr,
         new'[t] = new[t], res'[t] = res[t], Promise(t)' = Promise(t)
  PROVE  UNCHANGED <<ptr, Held, Alive, seen, Promised>>
<1>1. Held' = Held
  BY HeldMoves
<1>2. Promised' = Promised
  BY PromisedMoves DEF Promised
<1>3. Alive' = Alive
  <2>1. (LockInv => Alive = Ptrs \cap ({ptr} \cup {Held[r] : r \in Threads \X Roles}))'
    BY AliveExactly, PTL
  <2> QED BY <1>1, <2>1, AliveExactly DEF RwInv
<1>4. \A u \in Threads : pc'[u] \in Loading <=> pc[u] \in Loading
  <2>1. \A u \in Threads : (pc[u] \in Loading <=> Promised[u].op # "none")
    BY DEF RwInv, LockInv, Shape, Promised, Loading
  <2>2. \A u \in Threads : (pc'[u] \in Loading <=> Promised'[u].op # "none")
    BY DEF RwInv, LockInv, Shape, Promised, Loading
  <2> QED BY <1>2, <2>1, <2>2
<1>5. seen' = seen
  <2>1. \A u \in Threads : seen'[u] = seen[u]
    BY <1>3, <1>4 DEF Track, RwInv, SeenOK
  <2>2. DOMAIN seen = Threads /\ seen = [u \in Threads |-> seen[u]]
    BY DEF RwInv, SeenTyped
  <2>3. seen' = [u \in Threads |-> seen'[u]]
    BY DEF Track
  <2> QED BY <2>1, <2>2, <2>3
<1> QED BY <1>1, <1>2, <1>3, <1>5

(* Step by step: the calls' critical steps are the container's operations, *)
(* everything else is a stutter.                                           *)
LEMMA NextRefines ==
  ASSUME RwInv, RwInv', Track, NEW t \in Threads, Acting(t)
  PROVE  Abstract!Next \/ UNCHANGED Abstract!cvars
<1> DEFINE q == <<t, "new">>
           r == <<t, "res">>
<1>1. q \in Abstract!Own(t) /\ r \in Abstract!Own(t)
  BY DEF Abstract!Own, Roles
<1>2. /\ Typed /\ Frame(t) /\ ty' = ty /\ Shape(t) /\ Shape(t)' /\ SeenOK(t)
      /\ pc \in [Threads -> PCs] /\ DOMAIN new = Threads /\ DOMAIN res = Threads /\ DOMAIN op = Threads
      /\ DOMAIN cur = Threads
  BY FrameStep DEF RwInv, LockInv, Typed
<1>3. Held[q] = PtrOf(new[t]) /\ Held[r] = PtrOf(res[t])
  BY HeldFacts
<1>4. /\ new[t] = NONE <=> PtrOf(new[t]) = NONE
      /\ res[t] = NONE <=> PtrOf(res[t]) = NONE
      /\ PtrOf(NONE) = NONE
  BY <1>2, PtrOfFacts DEF Typed, PtrOf
<1>5. /\ Promised' = [Promised EXCEPT ![t] = Promise(t)'] /\ Promised[t] = Promise(t)
      /\ Promise(t)' = Promise(t) => Promised' = Promised
  BY <1>2, PromisedMoves DEF Promised
<1>6. ptr # NONE => PtrOf(FromPtr(ty, ptr)) = ptr /\ ptr \in Ptrs \cup {Null}
  BY <1>2, PtrFacts DEF Typed, PtrOf, AsPtr
<1>7. Abstract!Becomes(ptr', Held', Promised')
  BY BecomesNext
<1>8. /\ Held' = [Held EXCEPT ![q] = PtrOf(new'[t]), ![r] = PtrOf(res'[t])]
      /\ new'[t] = new[t] => Held' = [Held EXCEPT ![r] = PtrOf(res'[t])]
      /\ res'[t] = res[t] => Held' = [Held EXCEPT ![q] = PtrOf(new'[t])]
      /\ new'[t] = new[t] /\ res'[t] = res[t] => Held' = Held
  BY <1>2, HeldMoves
<1> HIDE DEF q, r, RwInv, Typed, Track
<1>9. CASE ptr' = ptr /\ new'[t] = new[t] /\ res'[t] = res[t] /\ Promise(t)' = Promise(t)
  BY <1>2, <1>9, Stutters DEF Abstract!cvars
<1>10. CASE ReadLock(t) \/ ReadInc(t) \/ ReadUnlock(t) \/ WaitLock(t) \/ WaitUnlock(t) \/ CasLock(t)
            \/ CasInc(t) \/ CasUnlock(t) \/ \E o \in {"store", "swap"} : CallSwap(t, o)
  BY <1>2, <1>9, <1>10 DEF ReadLock, ReadInc, ReadUnlock, WaitLock, WaitUnlock, CasLock, CasInc, CasUnlock,
     CallSwap, Begin, Acts, Goto, Return, Promise, Loading
<1>11. CASE Read(t)
  <2>1. /\ ptr' = ptr /\ new'[t] = new[t] /\ res[t] = NONE /\ res'[t] = FromPtr(ty, ptr)
        /\ ptr \in seen[t] /\ ptr # NONE /\ Promise(t).op = "load"
        /\ Promise(t)' = Abstract!NoCall
    BY <1>2, <1>11 DEF Read, Goto, Promise, Loading, Shape, Using, SeenOK, Abstract!NoCall
  <2>2. Abstract!Load(t, r)
    BY <1>3, <1>4, <1>5, <1>6, <1>7, <1>8, <2>1 DEF Abstract!Load
  <2> QED BY <1>1, <2>2 DEF Abstract!Next
<1>12. CASE Swap(t)
  <2>1. /\ ptr' = IntoPtr(new[t]) /\ new[t] # NONE /\ new'[t] = NONE /\ res[t] = NONE
        /\ res'[t] = FromPtr(ty, ptr) /\ ptr # NONE /\ Promise(t)' = Promise(t)
    BY <1>2, <1>12 DEF Swap, Goto, Promise, Loading, Shape, Using, Giving
  <2>2. ptr' = Held[q] /\ Held[q] # NONE /\ Held[r] = NONE
    BY <1>3, <1>4, <2>1 DEF PtrOf, AsPtr
  <2>3. Abstract!Swap(q, r)
    BY <1>4, <1>5, <1>6, <1>7, <1>8, <2>1, <2>2 DEF Abstract!Swap, Abstract!Exchange
  <2> QED BY <1>1, <2>3 DEF Abstract!Next
<1>13. CASE CasExchange(t)
  <2>1. /\ res[t] = NONE /\ res'[t] = FromPtr(ty, ptr) /\ ptr # NONE /\ new[t] # NONE
        /\ Promise(t) = [op |-> "compare_and_swap", cur |-> cur[t]] /\ Promise(t)' = Abstract!NoCall
        /\ ptr \in seen[t]
    BY <1>2, <1>13 DEF CasExchange, Goto, Promise, Loading, Shape, Using, Giving, SeenOK, Abstract!NoCall
  <2>2. Held[r] = NONE /\ Held[q] # NONE /\ Promised[t].op = "compare_and_swap" /\ Promised[t].cur = cur[t]
    BY <1>3, <1>4, <1>5, <2>1
  <2>3. Promised' = [Promised EXCEPT ![t] = Abstract!NoCall]
    BY <1>5, <2>1
  <2>4. CASE ptr = cur[t]
    <3>1. ptr' = Held[q] /\ new'[t] = NONE
      BY <1>2, <1>3, <1>13, <2>1, <2>4 DEF CasExchange, PtrOf, AsPtr
    <3>2. Abstract!Exchange(q, r, Promised')
      BY <1>4, <1>6, <1>7, <1>8, <2>1, <2>2, <3>1 DEF Abstract!Exchange
    <3>3. Abstract!CompareAndSwap(t, q, r)
      BY <2>2, <2>3, <2>4, <3>2 DEF Abstract!CompareAndSwap
    <3> QED BY <1>1, <3>3 DEF Abstract!Next
  <2>5. CASE ptr # cur[t]
    <3>1. ptr' = ptr /\ new'[t] = new[t]
      BY <1>2, <1>13, <2>5 DEF CasExchange
    <3>2. Abstract!Becomes(ptr, [Held EXCEPT ![r] = ptr], Promised')
      BY <1>6, <1>7, <1>8, <2>1, <3>1
    <3>3. Abstract!CompareAndSwap(t, q, r)
      BY <2>1, <2>2, <2>3, <2>5, <3>2 DEF Abstract!CompareAndSwap
    <3> QED BY <1>1, <3>3 DEF Abstract!Next
  <2> QED BY <2>4, <2>5
<1>14. CASE Release(t) \/ GuardDrop(t)
  <2>1. ptr' = ptr /\ new'[t] = new[t] /\ res[t] # NONE /\ res'[t] = NONE /\ Promise(t)' = Promise(t)
    BY <1>2, <1>14 DEF Release, GuardDrop, Acts, Return, Goto, Promise, Loading, Shape, Taken
  <2>2. Abstract!Drop(r)
    BY <1>3, <1>4, <1>5, <1>7, <1>8, <2>1 DEF Abstract!Drop
  <2> QED BY <1>1, <2>2 DEF Abstract!Next
<1>15. CASE CasDropNew(t)
  <2>1. ptr' = ptr /\ res'[t] = res[t] /\ new[t] # NONE /\ new'[t] = NONE /\ Promise(t)' = Promise(t)
    BY <1>2, <1>15 DEF CasDropNew, Goto, Promise, Loading, Shape, Giving
  <2>2. Abstract!Drop(q)
    BY <1>3, <1>4, <1>5, <1>7, <1>8, <2>1 DEF Abstract!Drop
  <2> QED BY <1>1, <2>2 DEF Abstract!Next
<1>16. CASE CallLoad(t) \/ \E c \in AsRaw : CallCas(t, c)
  <2>1. /\ ptr' = ptr /\ ptr # NONE /\ new'[t] = new[t] /\ res'[t] = res[t]
        /\ Promise(t) = Abstract!NoCall
    BY <1>2, <1>16 DEF CallLoad, CallCas, Begin, Acts, Promise, Loading, Abstract!NoCall
  <2>2. PICK o \in Abstract!Loading, c \in Abstract!Words : Promise(t)' = [op |-> o, cur |-> c]
    BY <1>2, <1>16 DEF CallLoad, CallCas, Begin, Goto, Promise, Loading, Abstract!Loading, Abstract!Words, AsRaw
  <2>3. Abstract!Begin(t, o, c)
    BY <1>5, <1>7, <1>8, <2>1, <2>2 DEF Abstract!Begin
  <2> QED BY <1>1, <2>3 DEF Abstract!Next
<1>17. CASE CallNew(t)
  <2>1. /\ ptr = NONE /\ ptr' = IntoPtr(new[t]) /\ res'[t] = res[t] /\ new[t] # NONE /\ new'[t] = NONE
        /\ Promise(t)' = Promise(t)
    BY <1>2, <1>17 DEF CallNew, Promise
  <2>2. ptr' = Held[q]
    BY <1>3, <2>1 DEF PtrOf, AsPtr
  <2>3. Abstract!Create(q)
    BY <1>3, <1>4, <1>5, <1>7, <1>8, <2>1, <2>2 DEF Abstract!Create
  <2> QED BY <1>1, <2>3 DEF Abstract!Next
<1>18. CASE \E v \in ValuesOf(ty) : Argument(t, v)
  <2>1. PICK v \in ValuesOf(ty) : Argument(t, v)
    BY <1>18
  <2>2. /\ ptr' = ptr /\ res'[t] = res[t] /\ new[t] = NONE /\ new'[t] = v /\ Promise(t)' = Promise(t)
    BY <1>2, <2>1 DEF Argument, Promise
  <2>3. ty \in Types /\ v # NONE /\ PtrOf(v) \in Abstract!Words /\ PtrOf(v) # NONE
    BY <1>2, ValueFacts DEF Typed, PtrOf, AsPtr, Abstract!Words
  <2>4. \/ PtrOf(v) = Null \/ PtrOf(v) \in Ptrs \ Alive
        \/ \E x \in Abstract!Places : PtrOf(v) = Held[x] /\ PtrOf(v) # NONE
    <3>1. CASE v.is # "full"
      BY <2>3, <3>1 DEF PtrOf, AsPtr, IntoPtr
    <3>2. CASE v.is = "full" /\ cnt[v.at] = 0
      BY <2>3, <3>2, ValueFacts DEF PtrOf, AsPtr, IntoPtr, Alive
    <3>3. CASE \E u \in Threads : res[u] = v
      BY <2>3, <3>3, HeldFacts DEF Abstract!Places, Roles
    <3> QED BY <2>1, <3>1, <3>2, <3>3 DEF Argument
  <2>5. Abstract!Acquire(q, PtrOf(v))
    BY <1>3, <1>4, <1>5, <1>7, <1>8, <2>2, <2>4 DEF Abstract!Acquire
  <2> QED BY <1>1, <2>3, <2>5 DEF Abstract!Next
<1>19. CASE \E o \in {"drop", "into_inner"} : CallDrop(t, o)
  <2>1. /\ ptr # NONE /\ ptr' = NONE /\ new'[t] = new[t] /\ res[t] = NONE
        /\ res'[t] = FromPtr(ty, ptr) /\ Promise(t)' = Promise(t)
    BY <1>2, <1>19 DEF CallDrop, Begin, Acts, Goto, Promise, Loading
  <2>2. \A u \in Threads : Promised[u] = Abstract!NoCall
    BY <1>19 DEF CallDrop, Quiet, Promised, Loading, Abstract!NoCall
  <2>3. Abstract!Destroy(r)
    BY <1>3, <1>4, <1>5, <1>6, <1>7, <1>8, <2>1, <2>2 DEF Abstract!Destroy
  <2> QED BY <1>1, <2>3 DEF Abstract!Next
<1> QED BY <1>10, <1>11, <1>12, <1>13, <1>14, <1>15, <1>16, <1>17, <1>18, <1>19 DEF Acting, Call, Step

(* Without a container, nobody holds anything. *)
LEMMA InitRefines ==
  ASSUME Init
  PROVE  Abstract!Init
<1>1. Held = [r \in Abstract!Places |-> NONE]
  BY DEF Init, Held, Abstract!Places
<1>2. Alive = {} /\ Ptrs \cap {ptr} = {} /\ ptr \in Abstract!Words
  BY RwLockConstants DEF Init, Alive, Abstract!Words
<1>3. Promised = [t \in Threads |-> Abstract!NoCall]
  BY DEF Init, Promised, Loading, Abstract!NoCall
<1> QED BY <1>1, <1>2, <1>3 DEF Init, Abstract!Init

(* The strategy of src/strategy/rw_lock.rs implements the abstract         *)
(* container: a load's effect is its read, a swap's the exchange of the    *)
(* pointer before the write lock is waited for, a compare_and_swap's the   *)
(* exchange under the lock; each gets the right result, and an object is   *)
(* freed exactly when neither the container nor a value refers to it.      *)
THEOREM RwLockImplements == Spec => Implements
<1>1. Init => Abstract!Init
  BY InitRefines
<1>2. RwInv /\ RwInv' /\ [Next]_vars => [Abstract!Next]_(Abstract!cvars)
  <2> SUFFICES ASSUME RwInv, RwInv', [Next]_vars
               PROVE  Abstract!Next \/ UNCHANGED Abstract!cvars
    OBVIOUS
  <2>1. CASE Next
    <3>1. PICK t \in Threads : Acting(t) /\ Track
      BY <2>1 DEF Next, Acting
    <3> QED BY <3>1, NextRefines
  <2>2. CASE UNCHANGED vars
    BY <2>2 DEF vars, lock, thread, Abstract!cvars, Held, Alive, Promised
  <2> QED BY <2>1, <2>2
<1> QED BY <1>1, <1>2, RwInvHolds, PTL DEF Spec, Implements, Abstract!Spec
=============================================================================
