---------------------------- MODULE HybridProofs ----------------------------
(***************************************************************************)
(* Proofs about Hybrid, for every number of threads, slots, containers,    *)
(* objects and calls.  This module: types.  HybridProtocol: the assertions *)
(* and the envelopes; HybridCounts: every reference is counted or owed     *)
(* once; HybridAlive: nobody holds freed memory, and loads are fresh.      *)
(* Each one rests on the inductive invariant of the one before.            *)
(***************************************************************************)
EXTENDS Hybrid, Counting

(* Where a thread is: in a load, at the end of a guard, in help, in a      *)
(* transaction, with an envelope of its own or of its reader.              *)
LoadPCs == {"attempt", "new_fast", "attempt_confirm", "attempt_pay", "fallback",
            "get_debt", "candidate", "confirm_slot", "confirm_control",
            "confirm_envelope", "confirm_offer", "unused_pay", "unused_dec",
            "inner_inc", "inner_pay", "inner_dec"}
GuardPCs == {"inner_inc", "inner_pay", "inner_dec", "drop_pay", "drop_dec"}
HelpPCs == {"help_control", "help_addr", "help_recheck", "help_their",
            "help_store", "help_cas", "help_took", "help_drop"}
InTransaction == {"candidate", "confirm_slot", "confirm_control"}
HasEnvelope == {"confirm_envelope", "confirm_offer", "help_store", "help_cas",
                "help_took"}

(* What makes TypeOK inductive: the variables that a step is about to use  *)
(* have been set.                                                          *)
Housed(t) == call[t].st = NONE =>
  /\ pc[t] \in GuardPCs \cup {"idle"}
  /\ ret[t] \in {NONE, "user"} /\ call[t].op # "compare_and_swap"
Walking(t) ==
  /\ pc[t] \in HelpPCs \cup {"pay_slot", "pay_more"} => node[t] \in Threads
  /\ ret[t] = "help" => node[t] \in Threads
  /\ ret[t] # NONE => pc[t] \in LoadPCs
Published(t) == pc[t] \in InTransaction =>
  control[t] = Gen(gen[t]) \/ control[t] \in ReplacementWords
Equipped(t) ==
  /\ pc[t] \in HasEnvelope => env[t] \in Envelopes
  /\ pc[t] \in {"cas_check", "cas_exchange"} => held[t] \in Protections
Placed(t) == Housed(t) /\ Walking(t) /\ Published(t) /\ Equipped(t)
Located == \A t \in Threads : Placed(t)

TypeInv == TypeOK /\ Located

(* A step of t leaves the other threads alone, except that it may replace  *)
(* their generation.                                                       *)
Undisturbed(t) == \A u \in Threads \ {t} :
  /\ pc'[u] = pc[u] /\ call'[u] = call[u] /\ ret'[u] = ret[u]
  /\ node'[u] = node[u] /\ gen'[u] = gen[u]
  /\ env'[u] = env[u] /\ held'[u] = held[u]
  /\ control'[u] = control[u] \/ control'[u] \in ReplacementWords

----------------------------------------------------------------------------
(* What the provers have to know about the sets that TypeOK names. *)
LEMMA WordFacts ==
  /\ NONE \in Words /\ Null \in Words
  /\ \A p \in Ptrs : p \in Words
  /\ \A p \in Values : p \in Words
BY DEF Words, Values

(* Membership in the sets of TypeOK, one fact per set: labels, indices,    *)
(* control words, protections, calls.                                      *)
LEMMA PCFacts ==
  /\ LoadEntry \in PCs /\ LoadEntry \in {"attempt", "fallback"}
  /\ "idle" \in PCs /\ "new_fast" \in PCs /\ "attempt_confirm" \in PCs
  /\ "attempt_pay" \in PCs /\ "fallback" \in PCs /\ "get_debt" \in PCs
  /\ "candidate" \in PCs /\ "confirm_slot" \in PCs /\ "confirm_control" \in PCs
  /\ "confirm_envelope" \in PCs /\ "confirm_offer" \in PCs /\ "unused_pay" \in PCs
  /\ "unused_dec" \in PCs /\ "inner_inc" \in PCs /\ "inner_pay" \in PCs
  /\ "inner_dec" \in PCs /\ "drop_pay" \in PCs /\ "drop_dec" \in PCs /\ "swap" \in PCs
  /\ "cas_check" \in PCs /\ "cas_exchange" \in PCs /\ "cas_drop_new" \in PCs
  /\ "pay_inc" \in PCs /\ "help_control" \in PCs /\ "help_addr" \in PCs
  /\ "help_recheck" \in PCs /\ "help_their" \in PCs /\ "help_store" \in PCs
  /\ "help_cas" \in PCs /\ "help_took" \in PCs /\ "help_drop" \in PCs
  /\ "pay_slot" \in PCs /\ "pay_more" \in PCs /\ "pay_drop" \in PCs
  /\ "release" \in PCs
BY DEF PCs, LoadEntry

LEMMA IndexFacts ==
  /\ 0 \in 0..N /\ 0 \in 0..HELPING /\ 1 \in 0..HELPING /\ N \in Threads
  /\ \A n \in Threads : n - 1 \in 0..N /\ (n # 1 => n - 1 \in Threads)
  /\ \A k \in 0..HELPING : k < HELPING => k + 1 \in 0..HELPING
BY ConstantsOK DEF HELPING, Threads

LEMMA ControlFacts ==
  /\ \A g \in Nat : Gen(g) \in Control
  /\ \A e \in Envelopes : Replacement(e) \in ReplacementWords
  /\ \A c \in ReplacementWords : c \in Control /\ c.env \in Envelopes
  /\ IDLE \in Control
BY DEF Gen, Replacement, GenWords, ReplacementWords, Control

LEMMA ProtectionFacts ==
  /\ \A p \in Words, d \in DebtRefs \cup {NONE} : Protection(p, d) \in Protections
  /\ \A g \in Protections : g.ptr \in Words /\ g.debt \in DebtRefs \cup {NONE}
BY DEF Protection, Protections

LEMMA CallFacts ==
  /\ \A o \in OpNames, s \in Storages \cup {NONE}, k \in HandleIds \cup {NONE},
        c \in Words :
       [op |-> o, st |-> s, hnd |-> k, cur |-> c] \in Calls
  /\ \A c \in Calls \cup {NoCall} : c.st \in Storages \cup {NONE} /\ c.cur \in Words
  /\ NoCall.st = NONE /\ NoCall.op = "none"
BY WordFacts DEF Calls, NoCall

(* The counts and the histories keep their types. *)
LEMMA CountFacts ==
  ASSUME TypeOK, NEW p
  PROVE  Inc(p) \in [Ptrs -> Int] /\ Dec(p) \in [Ptrs -> Int]
<1>1. cnt \in [Ptrs -> Int]
  BY DEF TypeOK
<1>2. CASE p \in Ptrs
  BY <1>1, <1>2 DEF Inc, Dec
<1>3. CASE p \notin Ptrs
  BY <1>1, <1>3 DEF Inc, Dec
<1> QED
  BY <1>2, <1>3

(* The types of what the helper operators return. *)
LEMMA StoredFacts ==
  ASSUME TypeOK, NEW s, NEW p \in Words
  PROVE  Stored(s, p) \in [Threads -> SUBSET Words]
BY DEF TypeOK, Stored

LEMMA FreedFacts ==
  ASSUME TypeOK, NEW p, NEW done
  PROVE  Freed(p, done) \in [Threads -> SUBSET Words]
BY DEF TypeOK, Freed

LEMMA ClosedFacts ==
  ASSUME TypeOK, NEW t, NEW d
  PROVE  Closed(t, d) \in [Threads -> SUBSET Words]
BY DEF TypeOK, Closed

LEMMA ReopenedFacts ==
  ASSUME TypeOK, NEW t \in Threads, Housed(t), NEW w \in [Threads -> SUBSET Words]
  PROVE  Reopened(t, w) \in [Threads -> SUBSET Words]
<1>1. ptr \in [Storages -> Words]
  BY DEF TypeOK
<1>2. call[t].op = "compare_and_swap" => call[t].st \in Storages
  BY CallFacts DEF TypeOK, Housed
<1> QED
  BY <1>1, <1>2 DEF Reopened

LEMMA UserFacts == ASSUME TypeOK PROVE \A p \in UserValues : p \in Words
<1>1. guard \in [Handles -> Protections \cup {NONE}]
  BY DEF TypeOK
<1> QED
  BY <1>1, WordFacts, ProtectionFacts DEF UserValues

(* The other threads stay where they were. *)
LEMMA FrameLocated ==
  ASSUME Located, NEW t \in Threads, Undisturbed(t), Placed(t)'
  PROVE  Located'
<1> SUFFICES ASSUME NEW u \in Threads, u # t PROVE Placed(u)'
  BY DEF Located
<1>1. Placed(u)
  BY DEF Located
<1> QED
  BY <1>1 DEF Undisturbed, Placed, Housed, Walking, Published, Equipped

(* The places that make up Placed, spelled out. *)
LEMMA Places ==
  ASSUME TypeInv, NEW t \in Threads
  PROVE  /\ Placed(t) /\ Housed(t)
         /\ call[t].st \in Storages \cup {NONE}
         /\ pc[t] \notin GuardPCs \cup {"idle"} => call[t].st \in Storages
         /\ pc[t] \in HelpPCs \cup {"pay_slot", "pay_more"} => node[t] \in Threads
         /\ pc[t] \in HasEnvelope => env[t] \in Envelopes
         /\ pc[t] \in {"cas_check", "cas_exchange"} => held[t] \in Protections
BY CallFacts DEF TypeInv, TypeOK, Located, Placed, Housed, Walking, Equipped

(* The end of a load, whoever called it. *)
LEMMA LoadedFacts ==
  ASSUME TypeInv, NEW t \in Threads, NEW p \in Words, NEW d \in DebtRefs \cup {NONE},
         Loaded(t, p, d), pc[t] \in LoadPCs,
         UNCHANGED <<control, env, gen, node>>
  PROVE  /\ pc' \in [Threads -> PCs] /\ guard' \in [Handles -> Protections \cup {NONE}]
         /\ call' \in [Threads -> Calls \cup {NoCall}]
         /\ ret' \in [Threads -> {NONE, "user", "cas", "help"}]
         /\ val' \in [Threads -> Words] /\ dref' \in [Threads -> DebtRefs \cup {NONE}]
         /\ repl' \in [Threads -> Words]
         /\ held' \in [Threads -> Protections \cup {NONE}]
         /\ Undisturbed(t) /\ Placed(t)'
<1>1. Protection(p, d) \in Protections /\ NONE \in Words
  BY ProtectionFacts, WordFacts
<1>2. TypeOK /\ Placed(t)
  BY DEF TypeInv, Located
<1>3. CASE d # NONE /\ WantsInner(t) /\ pc' = [pc EXCEPT ![t] = "inner_inc"]
           /\ val' = [val EXCEPT ![t] = p] /\ dref' = [dref EXCEPT ![t] = d]
           /\ UNCHANGED <<guard, call, ret, repl, held>>
  <2>1. Undisturbed(t)
    BY <1>2, <1>3 DEF TypeOK, Undisturbed
  <2>2. Placed(t)'
    BY <1>2, <1>3 DEF TypeOK, Placed, Housed, Walking, Published, Equipped, LoadPCs,
       GuardPCs, HelpPCs, InTransaction, HasEnvelope
  <2> QED
    BY <1>2, <1>3, <2>1, <2>2, PCFacts DEF TypeOK
<1>4. CASE /\ val' = [val EXCEPT ![t] = NONE] /\ dref' = [dref EXCEPT ![t] = NONE]
           /\ ret' = [ret EXCEPT ![t] = NONE]
           /\ ret[t] = "user" /\ Return(t, Protection(p, d))
           /\ repl' = [repl EXCEPT ![t] = NONE]
           /\ UNCHANGED held
  <2>1. Undisturbed(t)
    BY <1>2, <1>4 DEF TypeOK, Undisturbed, Return
  <2>2. Placed(t)'
    BY <1>2, <1>4, CallFacts, ConstantsOK DEF TypeOK, Placed, Housed, Walking, Published, Equipped,
       LoadPCs, GuardPCs, HelpPCs, InTransaction, HasEnvelope, Return
  <2> QED
    BY <1>1, <1>2, <1>4, <2>1, <2>2, PCFacts DEF TypeOK, Return
<1>5. CASE /\ val' = [val EXCEPT ![t] = NONE] /\ dref' = [dref EXCEPT ![t] = NONE]
           /\ ret' = [ret EXCEPT ![t] = NONE]
           /\ ret[t] = "help" /\ pc' = [pc EXCEPT ![t] = "help_their"]
           /\ repl' = [repl EXCEPT ![t] = p]
           /\ UNCHANGED <<guard, call, held>>
  <2>1. Undisturbed(t)
    BY <1>2, <1>5 DEF TypeOK, Undisturbed
  <2>2. Placed(t)'
    BY <1>2, <1>5, ConstantsOK DEF TypeOK, Placed, Housed, Walking, Published, Equipped, LoadPCs,
       GuardPCs, HelpPCs, InTransaction, HasEnvelope
  <2> QED
    BY <1>1, <1>2, <1>5, <2>1, <2>2, PCFacts DEF TypeOK
<1>6. CASE /\ val' = [val EXCEPT ![t] = NONE] /\ dref' = [dref EXCEPT ![t] = NONE]
           /\ ret' = [ret EXCEPT ![t] = NONE]
           /\ ret[t] = "cas" /\ pc' = [pc EXCEPT ![t] = "cas_check"]
           /\ held' = [held EXCEPT ![t] = Protection(p, d)]
           /\ repl' = [repl EXCEPT ![t] = NONE]
           /\ UNCHANGED <<guard, call>>
  <2>1. Undisturbed(t)
    BY <1>2, <1>6 DEF TypeOK, Undisturbed
  <2>2. Placed(t)'
    BY <1>1, <1>2, <1>6, ConstantsOK DEF TypeOK, Placed, Housed, Walking, Published, Equipped, LoadPCs,
       GuardPCs, HelpPCs, InTransaction, HasEnvelope
  <2> QED
    BY <1>1, <1>2, <1>6, <2>1, <2>2, PCFacts DEF TypeOK
<1> QED
  BY <1>3, <1>4, <1>5, <1>6 DEF Loaded

(* TypeInv is inductive. *)
LEMMA InitTypeInv == Init => TypeInv
<1> SUFFICES ASSUME Init PROVE TypeInv
  OBVIOUS
<1>1. ptr \in [Storages -> Words] /\ NONE \in Words /\ HELPING \in Nat
  BY ConstantsOK, WordFacts DEF Init, HELPING
<1>2. cnt \in [Ptrs -> Int]
  <2>1. ASSUME NEW p \in Ptrs PROVE Cardinality({s \in Storages : ptr[s] = p}) \in Int
    BY ConstantsOK, FS_Subset, FS_CardinalityType
  <2> QED
    BY <2>1 DEF Init
<1>3. TypeOK
  BY <1>1, <1>2, ConstantsOK, ControlFacts, PCFacts
     DEF Init, TypeOK, Threads, Envelopes
<1>4. Located
  BY CallFacts, ConstantsOK DEF Init, Located, Placed, Housed, Walking, Published, Equipped, HelpPCs,
         GuardPCs, InTransaction, HasEnvelope
<1> QED
  BY <1>3, <1>4 DEF TypeInv

LEMMA NextTypeInv == TypeInv /\ [Next]_vars => TypeInv'
<1> SUFFICES ASSUME TypeInv, [Next]_vars PROVE TypeOK' /\ Located'
  BY DEF TypeInv
<1>0. TypeOK /\ Located
  BY DEF TypeInv
<1>1. ASSUME NEW t \in Threads, NEW op \in Ops[t], NEW s \in Storages, NEW k \in HandleIds \cup {NONE},
             CallLoad(t, op, s, k)
      PROVE TypeOK' /\ Located'
  <2>1. TypeOK'
    BY <1>1, <1>0, PCFacts, CallFacts, WordFacts, ConstantsOK DEF CallLoad, Begin,
       TypeOK, heap, helping, user, loader, writer
  <2>2. Undisturbed(t)
    BY <1>1, <1>0 DEF CallLoad, Begin, TypeOK, Undisturbed, heap, helping, user,
       loader, writer
  <2>3. /\ pc'[t] = LoadEntry /\ call'[t].st = s /\ call'[t].op = op
        /\ ret'[t] = "user" /\ node'[t] = node[t] /\ gen'[t] = gen[t]
        /\ env'[t] = env[t] /\ held'[t] = held[t] /\ control'[t] = control[t]
    BY <1>1, <1>0 DEF CallLoad, Begin, TypeOK, heap, helping, user, loader, writer
  <2>4. Placed(t)'
    BY <1>1, <2>3, Places, PCFacts, ConstantsOK, CallFacts DEF CallLoad, Begin,
       Placed, Housed, Walking, Published, Equipped, LoadPCs, GuardPCs,
       HelpPCs, InTransaction, HasEnvelope
  <2> QED BY <2>1, <2>2, <2>4, <1>0, FrameLocated
<1>2. ASSUME NEW t \in Threads, NEW op \in Ops[t], NEW s \in Storages, NEW k \in HandleIds \cup {NONE},
             CallDrop(t, op, s, k)
      PROVE TypeOK' /\ Located'
  <2>1. TypeOK'
    <3>1. calls' \in [Threads -> Nat]
      BY <1>2, <1>0, ConstantsOK DEF CallDrop, Begin, TypeOK, loader, writer,
         heap, helping, user
    <3>2. call' \in [Threads -> Calls \cup {NoCall}]
      BY <1>2, <1>0, CallFacts, WordFacts, ConstantsOK DEF CallDrop, Begin,
         TypeOK, loader, writer, heap, helping, user
    <3>3. old' \in [Threads -> Words]
      BY <1>2, <1>0, WordFacts DEF CallDrop, Begin, TypeOK, loader, writer, heap,
         helping, user
    <3>4. ptr' \in [Storages -> Words]
      BY <1>2, <1>0, WordFacts DEF CallDrop, Begin, TypeOK, loader, writer, heap,
         helping, user
    <3>5. pc' \in [Threads -> PCs]
      BY <1>2, <1>0, PCFacts DEF CallDrop, Begin, TypeOK, loader, writer, heap,
         helping, user
    <3> QED
      BY <3>1, <3>2, <3>3, <3>4, <3>5, <1>2, <1>0 DEF CallDrop, Begin, TypeOK,
         heap, helping, user, loader, writer
  <2>2. Undisturbed(t)
    BY <1>2, <1>0 DEF CallDrop, Begin, TypeOK, Undisturbed, heap, helping, user,
       loader, writer
  <2>3. /\ pc'[t] = "pay_inc" /\ call'[t].st = s /\ call'[t].op = op
        /\ ret'[t] = ret[t] /\ node'[t] = node[t] /\ gen'[t] = gen[t]
        /\ env'[t] = env[t] /\ held'[t] = held[t] /\ control'[t] = control[t]
    BY <1>2, <1>0 DEF CallDrop, Begin, TypeOK, heap, helping, user, loader, writer
  <2>4. Placed(t)'
    BY <1>2, <2>3, Places, PCFacts, ConstantsOK, CallFacts DEF CallDrop, Begin,
       Placed, Housed, Walking, Published, Equipped, LoadPCs, GuardPCs,
       HelpPCs, InTransaction, HasEnvelope
  <2> QED BY <2>1, <2>2, <2>4, <1>0, FrameLocated
<1>3. ASSUME NEW t \in Threads, NEW op \in Ops[t], NEW s \in Storages, NEW k \in HandleIds \cup {NONE}, NEW p \in UserValues,
             CallSwap(t, op, s, k, p)
      PROVE TypeOK' /\ Located'
  <2>1. TypeOK'
    <3>1. calls' \in [Threads -> Nat]
      BY <1>3, <1>0, ConstantsOK DEF CallSwap, Begin, TakeRef, TypeOK, loader,
         writer, heap, helping, user
    <3>2. call' \in [Threads -> Calls \cup {NoCall}]
      BY <1>3, <1>0, CallFacts, WordFacts, ConstantsOK DEF CallSwap, Begin,
         TakeRef, TypeOK, loader, writer, heap, helping, user
    <3>3. cnt' \in [Ptrs -> Int]
      BY <1>3, <1>0, UserFacts, CountFacts DEF CallSwap, Begin, TakeRef, TypeOK,
         loader, writer, heap, helping, user
    <3>4. new' \in [Threads -> Words]
      BY <1>3, <1>0, WordFacts, UserFacts DEF CallSwap, Begin, TakeRef, TypeOK,
         loader, writer, heap, helping, user
    <3>5. pc' \in [Threads -> PCs]
      BY <1>3, <1>0, PCFacts DEF CallSwap, Begin, TakeRef, TypeOK, loader, writer,
         heap, helping, user
    <3> QED
      BY <3>1, <3>2, <3>3, <3>4, <3>5, <1>3, <1>0 DEF CallSwap, Begin, TakeRef,
         TypeOK, heap, helping, user, loader, writer
  <2>2. Undisturbed(t)
    BY <1>3, <1>0 DEF CallSwap, Begin, TakeRef, TypeOK, Undisturbed, heap,
       helping, user, loader, writer
  <2>3. /\ pc'[t] = "swap" /\ call'[t].st = s /\ call'[t].op = op
        /\ ret'[t] = ret[t] /\ node'[t] = node[t] /\ gen'[t] = gen[t]
        /\ env'[t] = env[t] /\ held'[t] = held[t] /\ control'[t] = control[t]
    BY <1>3, <1>0 DEF CallSwap, Begin, TakeRef, TypeOK, heap, helping, user,
       loader, writer
  <2>4. Placed(t)'
    BY <1>3, <2>3, Places, PCFacts, ConstantsOK, CallFacts DEF CallSwap, Begin,
       Placed, Housed, Walking, Published, Equipped, LoadPCs, GuardPCs,
       HelpPCs, InTransaction, HasEnvelope
  <2> QED BY <2>1, <2>2, <2>4, <1>0, FrameLocated
<1>4. ASSUME NEW t \in Threads, NEW s \in Storages, NEW p \in UserValues,
             CallNew(t, s, p)
      PROVE TypeOK' /\ Located'
  <2>1. TypeOK'
    BY <1>4, <1>0, PCFacts, UserFacts, CountFacts, FreedFacts DEF CallNew,
       TakeRef, TypeOK, heap, helping, user, loader, writer
  <2>2. Undisturbed(t)
    BY <1>4, <1>0 DEF CallNew, TakeRef, TypeOK, Undisturbed, heap, helping, user,
       loader, writer
  <2>3. /\ pc'[t] = pc[t] /\ call'[t] = call[t] /\ ret'[t] = ret[t]
        /\ node'[t] = node[t] /\ gen'[t] = gen[t] /\ env'[t] = env[t]
        /\ held'[t] = held[t] /\ control'[t] = control[t]
    BY <1>4, <1>0 DEF CallNew, TakeRef, TypeOK, heap, helping, user, loader,
       writer
  <2>4. Placed(t)'
    BY <1>4, <2>3, Places, PCFacts, ConstantsOK DEF CallNew, Placed, Housed,
       Walking, Published, Equipped, LoadPCs, GuardPCs, HelpPCs,
       InTransaction, HasEnvelope
  <2> QED BY <2>1, <2>2, <2>4, <1>0, FrameLocated
<1>5. ASSUME NEW t \in Threads, NEW s \in Storages, NEW p \in UserValues, NEW k \in HandleIds, NEW c \in Values,
             CallCas(t, s, k, c, p)
      PROVE TypeOK' /\ Located'
  <2>1. TypeOK'
    BY <1>5, <1>0, PCFacts, CallFacts, WordFacts, ConstantsOK, UserFacts,
       CountFacts, FreedFacts DEF CallCas, Begin, TypeOK, heap, helping, user,
       loader, writer
  <2>2. Undisturbed(t)
    BY <1>5, <1>0 DEF CallCas, Begin, TypeOK, Undisturbed, heap, helping, user,
       loader, writer
  <2>3. /\ pc'[t] = LoadEntry
        /\ call'[t].st = s /\ call'[t].op = "compare_and_swap" /\ ret'[t] = "cas"
        /\ node'[t] = node[t] /\ gen'[t] = gen[t] /\ env'[t] = env[t]
        /\ held'[t] = held[t] /\ control'[t] = control[t]
    BY <1>5, <1>0 DEF CallCas, Begin, TypeOK, heap, helping, user, loader, writer
  <2>4. Placed(t)'
    BY <1>5, <2>3, Places, PCFacts, ConstantsOK, CallFacts DEF CallCas, Begin,
       Placed, Housed, Walking, Published, Equipped, LoadPCs, GuardPCs,
       HelpPCs, InTransaction, HasEnvelope
  <2> QED BY <2>1, <2>2, <2>4, <1>0, FrameLocated
<1>6. ASSUME NEW t \in Threads, NEW h \in Handles,
             CallGuardDrop(t, h)
      PROVE TypeOK' /\ Located'
  <2>1. TypeOK'
    <3>1. calls' \in [Threads -> Nat]
      BY <1>6, <1>0, ConstantsOK DEF CallGuardDrop, Begin, Dropping, TypeOK,
         loader, writer, heap, helping, user
    <3>2. call' \in [Threads -> Calls \cup {NoCall}]
      BY <1>6, <1>0, CallFacts, WordFacts, ConstantsOK DEF CallGuardDrop, Begin,
         Dropping, TypeOK, loader, writer, heap, helping, user
    <3>3. val' \in [Threads -> Words]
      BY <1>6, <1>0, WordFacts, ProtectionFacts DEF CallGuardDrop, Begin,
         Dropping, TypeOK, loader, writer, heap, helping, user
    <3>4. dref' \in [Threads -> DebtRefs \cup {NONE}]
      BY <1>6, <1>0, ConstantsOK, ProtectionFacts DEF CallGuardDrop, Begin,
         Dropping, TypeOK, loader, writer, heap, helping, user
    <3>5. pc' \in [Threads -> PCs]
      BY <1>6, <1>0, PCFacts DEF CallGuardDrop, Begin, Dropping, TypeOK, loader,
         writer, heap, helping, user
    <3>6. guard' \in [Handles -> Protections \cup {NONE}]
      BY <1>6, <1>0, ProtectionFacts DEF CallGuardDrop, Begin, Dropping, TypeOK,
         loader, writer, heap, helping, user
    <3> QED
      BY <3>1, <3>2, <3>3, <3>4, <3>5, <3>6, <1>6, <1>0 DEF CallGuardDrop, Begin,
         TypeOK, heap, helping, user, loader, writer
  <2>2. Undisturbed(t)
    BY <1>6, <1>0 DEF CallGuardDrop, Begin, Dropping, TypeOK, Undisturbed, heap,
       helping, user, loader, writer
  <2>3. /\ pc'[t] \in {"drop_dec", "drop_pay"}
        /\ call'[t].st = NONE /\ call'[t].op = "guard_drop" /\ ret'[t] = ret[t]
        /\ node'[t] = node[t] /\ gen'[t] = gen[t] /\ env'[t] = env[t]
        /\ held'[t] = held[t] /\ control'[t] = control[t]
    BY <1>6, <1>0 DEF CallGuardDrop, Begin, Dropping, TypeOK, heap, helping, user,
       loader, writer
  <2>4. Placed(t)'
    BY <1>6, <2>3, Places, PCFacts, ConstantsOK, CallFacts DEF CallGuardDrop,
       Begin, Placed, Housed, Walking, Published, Equipped, LoadPCs, GuardPCs,
       HelpPCs, InTransaction, HasEnvelope
  <2> QED BY <2>1, <2>2, <2>4, <1>0, FrameLocated
<1>7. ASSUME NEW t \in Threads, NEW h \in Handles, NEW k \in HandleIds,
             CallGuardIntoInner(t, h, k)
      PROVE TypeOK' /\ Located'
  <2>1. TypeOK'
    BY <1>7, <1>0, PCFacts, CallFacts, WordFacts, ConstantsOK, ProtectionFacts DEF
       CallGuardIntoInner, Begin, TypeOK, heap, helping, user, loader, writer
  <2>2. Undisturbed(t)
    BY <1>7, <1>0 DEF CallGuardIntoInner, Begin, TypeOK, Undisturbed, heap,
       helping, user, loader, writer
  <2>3. /\ pc'[t] = "inner_inc"
        /\ call'[t].st = NONE /\ call'[t].op = "guard_into_inner"
        /\ ret'[t] = "user" /\ node'[t] = node[t] /\ gen'[t] = gen[t]
        /\ env'[t] = env[t] /\ held'[t] = held[t] /\ control'[t] = control[t]
    BY <1>7, <1>0 DEF CallGuardIntoInner, Begin, TypeOK, heap, helping, user,
       loader, writer
  <2>4. Placed(t)'
    BY <1>7, <2>3, Places, PCFacts, ConstantsOK, CallFacts DEF CallGuardIntoInner,
       Begin, Placed, Housed, Walking, Published, Equipped, LoadPCs, GuardPCs,
       HelpPCs, InTransaction, HasEnvelope
  <2> QED BY <2>1, <2>2, <2>4, <1>0, FrameLocated
<1>8. ASSUME NEW t \in Threads, Step(t) PROVE TypeOK' /\ Located'
  <2>1. CASE AttemptLoad(t)
    <3>1. call[t].st \in Storages
      BY <2>1, Places DEF AttemptLoad, GuardPCs
    <3>2. TypeOK'
      BY <2>1, <1>0, <3>1, PCFacts DEF AttemptLoad, TypeOK, heap, helping, user,
         loader, writer
    <3>3. Undisturbed(t)
      BY <2>1, <1>0, <3>1 DEF AttemptLoad, TypeOK, Undisturbed, heap, helping,
         user, loader, writer
    <3>4. /\ pc'[t] = "new_fast" /\ call'[t] = call[t] /\ ret'[t] = ret[t]
          /\ node'[t] = node[t] /\ gen'[t] = gen[t] /\ env'[t] = env[t]
          /\ held'[t] = held[t] /\ control'[t] = control[t]
      BY <2>1, <1>0, <3>1 DEF AttemptLoad, TypeOK, heap, helping, user, loader,
         writer
    <3>5. Placed(t)'
      BY <2>1, <3>1, <3>4, Places, PCFacts, ConstantsOK DEF AttemptLoad, Placed,
         Housed, Walking, Published, Equipped, LoadPCs, GuardPCs, HelpPCs,
         InTransaction, HasEnvelope
    <3> QED BY <3>2, <3>3, <3>5, <1>0, FrameLocated
  <2>2. CASE NewFast(t)
    <3>1. TypeOK'
      <4>1. ASSUME NEW s \in FastSlots, debt' = [debt EXCEPT ![t][s] = val[t]],
                   dref' = [dref EXCEPT ![t] = <<t, s>>],
                   pc' = [pc EXCEPT ![t] = "attempt_confirm"], val' = val
            PROVE TypeOK'
        <5>1. s \in Slots /\ <<t, s>> \in DebtRefs
          BY <4>1, ConstantsOK DEF FastSlots, Slots, HELPING, DebtRefs
        <5> QED
          BY <5>1, <4>1, <2>2, <1>0, PCFacts DEF NewFast, TypeOK, heap, helping, user, writer
      <4>2. ASSUME pc' = [pc EXCEPT ![t] = "fallback"], val' = [val EXCEPT ![t] = NONE],
                   UNCHANGED <<debt, dref>>
            PROVE TypeOK'
        BY <4>2, <2>2, <1>0, PCFacts, WordFacts DEF NewFast, TypeOK, heap, helping, user, writer
      <4> QED
        BY <4>1, <4>2, <2>2 DEF NewFast
    <3>2. Undisturbed(t)
      BY <2>2, <1>0 DEF NewFast, TypeOK, Undisturbed, heap, helping, user, loader,
         writer
    <3>3. /\ pc'[t] \in {"attempt_confirm", "fallback"} /\ call'[t] = call[t]
          /\ ret'[t] = ret[t] /\ node'[t] = node[t] /\ gen'[t] = gen[t]
          /\ env'[t] = env[t] /\ held'[t] = held[t] /\ control'[t] = control[t]
      BY <2>2, <1>0 DEF NewFast, TypeOK, heap, helping, user, loader, writer
    <3>4. Placed(t)'
      BY <2>2, <3>3, Places, PCFacts, ConstantsOK DEF NewFast, Placed, Housed,
         Walking, Published, Equipped, LoadPCs, GuardPCs, HelpPCs,
         InTransaction, HasEnvelope
    <3> QED BY <3>1, <3>2, <3>4, <1>0, FrameLocated
  <2>3. CASE AttemptConfirm(t)
    <3>1. val[t] \in Words /\ dref[t] \in DebtRefs \cup {NONE}
      BY <1>0 DEF TypeOK
    <3>2. /\ seen' \in [Threads -> SUBSET Words] /\ cnt' \in [Ptrs -> Int]
          /\ debt' \in [Threads -> [Slots -> Words]]
      <4>1. seen' \in [Threads -> SUBSET Words]
        <5>1. seen' = seen \/ seen' = Closed(t, dref[t])
          BY <2>3 DEF AttemptConfirm
        <5>2. seen \in [Threads -> SUBSET Words] /\ Closed(t, dref[t]) \in [Threads -> SUBSET Words]
          BY <1>0, ClosedFacts DEF TypeOK
        <5> QED BY <5>1, <5>2
      <4>2. cnt' \in [Ptrs -> Int]
        BY <2>3, <1>0 DEF AttemptConfirm, TypeOK
      <4>3. debt' \in [Threads -> [Slots -> Words]]
        BY <2>3, <1>0 DEF AttemptConfirm, TypeOK
      <4> QED BY <4>1, <4>2, <4>3
    <3>3. CASE Loaded(t, val[t], dref[t])
      <4>1. pc[t] \in LoadPCs /\ UNCHANGED <<control, env, gen, node>>
        BY <2>3 DEF AttemptConfirm, LoadPCs, helping
      <4>2. TypeOK'
        BY <3>1, <3>2, <3>3, <4>1, <2>3, <1>0, LoadedFacts DEF AttemptConfirm,
           TypeOK, helping
      <4> QED BY <4>1, <4>2, <3>1, <3>3, <1>0, LoadedFacts, FrameLocated
    <3>4. CASE ~Loaded(t, val[t], dref[t])
      <4>0. /\ pc' = [pc EXCEPT ![t] = "attempt_pay"]
            /\ UNCHANGED <<guard, call, ret, val, dref, repl, held>>
        BY <3>4, <2>3 DEF AttemptConfirm
      <4>1. TypeOK'
        BY <3>2, <4>0, <2>3, <1>0, WordFacts, PCFacts DEF AttemptConfirm, TypeOK,
           helping
      <4>2. Undisturbed(t)
        BY <4>0, <2>3, <1>0 DEF AttemptConfirm, TypeOK, Undisturbed, helping
      <4>3. Placed(t)'
        BY <4>0, <2>3, <1>0, Places DEF AttemptConfirm, TypeOK, helping, Placed,
           Housed, Walking, Published, Equipped, LoadPCs, GuardPCs,
           HelpPCs, InTransaction, HasEnvelope
      <4> QED BY <4>1, <4>2, <4>3, <1>0, FrameLocated
    <3> QED BY <3>3, <3>4
  <2>4. CASE AttemptPay(t)
    <3>1. val[t] \in Words /\ NONE \in DebtRefs \cup {NONE}
      BY <1>0 DEF TypeOK
    <3>2. /\ seen' \in [Threads -> SUBSET Words] /\ cnt' \in [Ptrs -> Int]
          /\ debt' \in [Threads -> [Slots -> Words]]
      <4>1. seen' \in [Threads -> SUBSET Words]
        <5>1. seen' = seen \/ seen' = Closed(t, NONE)
          BY <2>4 DEF AttemptPay
        <5>2. seen \in [Threads -> SUBSET Words] /\ Closed(t, NONE) \in [Threads -> SUBSET Words]
          BY <1>0, ClosedFacts DEF TypeOK
        <5> QED BY <5>1, <5>2
      <4>2. cnt' \in [Ptrs -> Int]
        BY <2>4, <1>0 DEF AttemptPay, TypeOK
      <4>3. debt' \in [Threads -> [Slots -> Words]]
        <5>1. debt' = debt \/ debt' = [debt EXCEPT ![dref[t][1]][dref[t][2]] = NONE]
          BY <2>4 DEF AttemptPay, Pay
        <5>2. debt \in [Threads -> [Slots -> Words]]
          BY <1>0 DEF TypeOK
        <5> QED BY <5>1, <5>2, WordFacts
      <4> QED BY <4>1, <4>2, <4>3
    <3>3. CASE Loaded(t, val[t], NONE)
      <4>1. pc[t] \in LoadPCs /\ UNCHANGED <<control, env, gen, node>>
        BY <2>4 DEF AttemptPay, LoadPCs, helping
      <4>2. TypeOK'
        BY <3>1, <3>2, <3>3, <4>1, <2>4, <1>0, LoadedFacts DEF AttemptPay, TypeOK,
           helping
      <4> QED BY <4>1, <4>2, <3>1, <3>3, <1>0, LoadedFacts, FrameLocated
    <3>4. CASE ~Loaded(t, val[t], NONE)
      <4>0. /\ pc' = [pc EXCEPT ![t] = "fallback"]
            /\ val' = [val EXCEPT ![t] = NONE] /\ dref' = [dref EXCEPT ![t] = NONE]
            /\ UNCHANGED <<guard, call, ret, repl, held>>
        BY <3>4, <2>4 DEF AttemptPay
      <4>1. TypeOK'
        BY <3>2, <4>0, <2>4, <1>0, WordFacts, PCFacts DEF AttemptPay, TypeOK,
           helping
      <4>2. Undisturbed(t)
        BY <4>0, <2>4, <1>0 DEF AttemptPay, TypeOK, Undisturbed, helping
      <4>3. Placed(t)'
        BY <4>0, <2>4, <1>0, Places DEF AttemptPay, TypeOK, helping, Placed,
           Housed, Walking, Published, Equipped, LoadPCs, GuardPCs,
           HelpPCs, InTransaction, HasEnvelope
      <4> QED BY <4>1, <4>2, <4>3, <1>0, FrameLocated
    <3> QED BY <3>3, <3>4
  <2>5. CASE GetDebtAddr(t)
    <3>1. call[t].st \in Storages
      BY <2>5, Places DEF GetDebtAddr, GuardPCs
    <3>2. TypeOK'
      BY <2>5, <1>0, <3>1, PCFacts, ConstantsOK DEF GetDebtAddr, NextGen, TypeOK,
         heap, helping, user, loader, writer
    <3>3. Undisturbed(t)
      BY <2>5, <1>0, <3>1 DEF GetDebtAddr, TypeOK, Undisturbed, heap, helping,
         user, loader, writer
    <3>4. /\ pc'[t] = "get_debt" /\ call'[t] = call[t] /\ ret'[t] = ret[t]
          /\ node'[t] = node[t] /\ env'[t] = env[t] /\ held'[t] = held[t]
          /\ control'[t] = control[t]
      BY <2>5, <1>0, <3>1 DEF GetDebtAddr, TypeOK, heap, helping, user, loader,
         writer
    <3>5. Placed(t)'
      BY <2>5, <3>1, <3>4, Places, PCFacts, ConstantsOK DEF GetDebtAddr, Placed,
         Housed, Walking, Published, Equipped, LoadPCs, GuardPCs, HelpPCs,
         InTransaction, HasEnvelope
    <3> QED BY <3>2, <3>3, <3>5, <1>0, FrameLocated
  <2>6. CASE GetDebtControl(t)
    <3>1. TypeOK'
      BY <2>6, <1>0, PCFacts, ControlFacts DEF GetDebtControl, TypeOK, heap,
         helping, user, loader, writer
    <3>2. Undisturbed(t)
      BY <2>6, <1>0 DEF GetDebtControl, TypeOK, Undisturbed, heap, helping, user,
         loader, writer
    <3>3. /\ pc'[t] = "candidate" /\ call'[t] = call[t] /\ ret'[t] = ret[t]
          /\ node'[t] = node[t] /\ gen'[t] = gen[t] /\ env'[t] = env[t]
          /\ held'[t] = held[t] /\ control'[t] = Gen(gen[t])
      BY <2>6, <1>0 DEF GetDebtControl, TypeOK, heap, helping, user, loader,
         writer
    <3>4. Placed(t)'
      BY <2>6, <3>3, Places, PCFacts, ConstantsOK DEF GetDebtControl, Placed,
         Housed, Walking, Published, Equipped, LoadPCs, GuardPCs, HelpPCs,
         InTransaction, HasEnvelope
    <3> QED BY <3>1, <3>2, <3>4, <1>0, FrameLocated
  <2>7. CASE Candidate(t)
    <3>1. call[t].st \in Storages
      BY <2>7, Places DEF Candidate, GuardPCs
    <3>2. TypeOK'
      BY <2>7, <1>0, <3>1, PCFacts DEF Candidate, TypeOK, heap, helping, user,
         loader, writer
    <3>3. Undisturbed(t)
      BY <2>7, <1>0, <3>1 DEF Candidate, TypeOK, Undisturbed, heap, helping, user,
         loader, writer
    <3>4. /\ pc'[t] = "confirm_slot" /\ call'[t] = call[t] /\ ret'[t] = ret[t]
          /\ node'[t] = node[t] /\ gen'[t] = gen[t] /\ env'[t] = env[t]
          /\ held'[t] = held[t] /\ control'[t] = control[t]
      BY <2>7, <1>0, <3>1 DEF Candidate, TypeOK, heap, helping, user, loader,
         writer
    <3>5. Placed(t)'
      BY <2>7, <3>1, <3>4, Places, PCFacts, ConstantsOK DEF Candidate, Placed,
         Housed, Walking, Published, Equipped, LoadPCs, GuardPCs, HelpPCs,
         InTransaction, HasEnvelope
    <3> QED BY <3>2, <3>3, <3>5, <1>0, FrameLocated
  <2>8. CASE ConfirmSlot(t)
    <3>1. TypeOK'
      BY <2>8, <1>0, PCFacts, ConstantsOK DEF ConfirmSlot, DebtRefs, Slots,
         HELPING, TypeOK, heap, helping, user, loader, writer
    <3>2. Undisturbed(t)
      BY <2>8, <1>0 DEF ConfirmSlot, TypeOK, Undisturbed, heap, helping, user,
         loader, writer
    <3>3. /\ pc'[t] = "confirm_control" /\ call'[t] = call[t] /\ ret'[t] = ret[t]
          /\ node'[t] = node[t] /\ gen'[t] = gen[t] /\ env'[t] = env[t]
          /\ held'[t] = held[t] /\ control'[t] = control[t]
      BY <2>8, <1>0 DEF ConfirmSlot, TypeOK, heap, helping, user, loader, writer
    <3>4. Placed(t)'
      BY <2>8, <3>3, Places, PCFacts, ConstantsOK DEF ConfirmSlot, Placed, Housed,
         Walking, Published, Equipped, LoadPCs, GuardPCs, HelpPCs,
         InTransaction, HasEnvelope
    <3> QED BY <3>1, <3>2, <3>4, <1>0, FrameLocated
  <2>9. CASE ConfirmControl(t)
    <3>1. control[t] = Gen(gen[t]) \/ control[t] \in ReplacementWords
      BY <2>9, Places DEF ConfirmControl, Placed, Published, InTransaction
    <3>2. TypeOK'
      <4>1. control' \in [Threads -> Control]
        BY <2>9, <1>0, <3>1, ControlFacts DEF ConfirmControl, TypeOK, loader,
           writer, heap, helping, user
      <4>2. pc' \in [Threads -> PCs]
        BY <2>9, <1>0, PCFacts DEF ConfirmControl, TypeOK, loader, writer, heap,
           helping, user
      <4>3. env' \in [Threads -> Envelopes \cup {NONE}]
        BY <2>9, <1>0, <3>1, ControlFacts DEF ConfirmControl, TypeOK, loader,
           writer, heap, helping, user
      <4> QED
        BY <4>1, <4>2, <4>3, <2>9, <1>0 DEF ConfirmControl, TypeOK, heap, helping,
           user, loader, writer
    <3>3. Undisturbed(t)
      BY <2>9, <1>0, <3>1 DEF ConfirmControl, TypeOK, Undisturbed, heap, helping,
         user, loader, writer
    <3>4. /\ \/ pc'[t] = "inner_inc"
             \/ pc'[t] = "confirm_envelope" /\ env'[t] \in Envelopes
          /\ call'[t] = call[t] /\ ret'[t] = ret[t] /\ node'[t] = node[t]
          /\ gen'[t] = gen[t] /\ held'[t] = held[t]
      BY <2>9, <1>0, <3>1, ControlFacts DEF ConfirmControl, TypeOK, heap, helping,
         user, loader, writer
    <3>5. Placed(t)'
      BY <2>9, <3>1, <3>4, Places, PCFacts, ConstantsOK DEF ConfirmControl,
         Placed, Housed, Walking, Published, Equipped, LoadPCs, GuardPCs,
         HelpPCs, InTransaction, HasEnvelope
    <3> QED BY <3>2, <3>3, <3>5, <1>0, FrameLocated
  <2>10. CASE ConfirmEnvelope(t)
    <3>1. env[t] \in Envelopes
      BY <2>10, Places DEF ConfirmEnvelope, HasEnvelope
    <3>2. TypeOK'
      BY <2>10, <1>0, <3>1, PCFacts DEF ConfirmEnvelope, TypeOK, heap, helping,
         user, loader, writer
    <3>3. Undisturbed(t)
      BY <2>10, <1>0, <3>1 DEF ConfirmEnvelope, TypeOK, Undisturbed, heap,
         helping, user, loader, writer
    <3>4. /\ pc'[t] = "confirm_offer" /\ call'[t] = call[t] /\ ret'[t] = ret[t]
          /\ node'[t] = node[t] /\ gen'[t] = gen[t] /\ env'[t] = env[t]
          /\ held'[t] = held[t] /\ control'[t] = control[t]
      BY <2>10, <1>0, <3>1 DEF ConfirmEnvelope, TypeOK, heap, helping, user,
         loader, writer
    <3>5. Placed(t)'
      BY <2>10, <3>1, <3>4, Places, PCFacts, ConstantsOK DEF ConfirmEnvelope,
         Placed, Housed, Walking, Published, Equipped, LoadPCs, GuardPCs,
         HelpPCs, InTransaction, HasEnvelope
    <3> QED BY <3>2, <3>3, <3>5, <1>0, FrameLocated
  <2>11. CASE ConfirmOffer(t)
    <3>1. env[t] \in Envelopes
      BY <2>11, Places DEF ConfirmOffer, HasEnvelope
    <3>2. TypeOK'
      BY <2>11, <1>0, <3>1, PCFacts DEF ConfirmOffer, TypeOK, heap, helping, user,
         loader, writer
    <3>3. Undisturbed(t)
      BY <2>11, <1>0, <3>1 DEF ConfirmOffer, TypeOK, Undisturbed, heap, helping,
         user, loader, writer
    <3>4. /\ pc'[t] = "unused_pay" /\ call'[t] = call[t] /\ ret'[t] = ret[t]
          /\ node'[t] = node[t] /\ gen'[t] = gen[t] /\ held'[t] = held[t]
          /\ control'[t] = control[t]
      BY <2>11, <1>0, <3>1 DEF ConfirmOffer, TypeOK, heap, helping, user, loader,
         writer
    <3>5. Placed(t)'
      BY <2>11, <3>1, <3>4, Places, PCFacts, ConstantsOK DEF ConfirmOffer, Placed,
         Housed, Walking, Published, Equipped, LoadPCs, GuardPCs, HelpPCs,
         InTransaction, HasEnvelope
    <3> QED BY <3>2, <3>3, <3>5, <1>0, FrameLocated
  <2>12. CASE UnusedPay(t)
    <3>1. repl[t] \in Words /\ NONE \in DebtRefs \cup {NONE}
      BY <1>0 DEF TypeOK
    <3>2. /\ seen' \in [Threads -> SUBSET Words] /\ cnt' \in [Ptrs -> Int]
          /\ debt' \in [Threads -> [Slots -> Words]]
      <4>1. seen' \in [Threads -> SUBSET Words]
        <5>1. seen' = seen \/ seen' = Closed(t, NONE)
          BY <2>12 DEF UnusedPay
        <5>2. seen \in [Threads -> SUBSET Words] /\ Closed(t, NONE) \in [Threads -> SUBSET Words]
          BY <1>0, ClosedFacts DEF TypeOK
        <5> QED BY <5>1, <5>2
      <4>2. cnt' \in [Ptrs -> Int]
        BY <2>12, <1>0 DEF UnusedPay, TypeOK
      <4>3. debt' \in [Threads -> [Slots -> Words]]
        <5>1. debt' = debt \/ debt' = [debt EXCEPT ![dref[t][1]][dref[t][2]] = NONE]
          BY <2>12 DEF UnusedPay, Pay
        <5>2. debt \in [Threads -> [Slots -> Words]]
          BY <1>0 DEF TypeOK
        <5> QED BY <5>1, <5>2, WordFacts
      <4> QED BY <4>1, <4>2, <4>3
    <3>3. CASE Loaded(t, repl[t], NONE)
      <4>1. pc[t] \in LoadPCs /\ UNCHANGED <<control, env, gen, node>>
        BY <2>12 DEF UnusedPay, LoadPCs, helping
      <4>2. TypeOK'
        BY <3>1, <3>2, <3>3, <4>1, <2>12, <1>0, LoadedFacts DEF UnusedPay, TypeOK,
           helping
      <4> QED BY <4>1, <4>2, <3>1, <3>3, <1>0, LoadedFacts, FrameLocated
    <3>4. CASE ~Loaded(t, repl[t], NONE)
      <4>0. /\ pc' = [pc EXCEPT ![t] = "unused_dec"]
            /\ UNCHANGED <<guard, call, ret, val, dref, repl, held>>
        BY <3>4, <2>12 DEF UnusedPay
      <4>1. TypeOK'
        BY <3>2, <4>0, <2>12, <1>0, WordFacts, PCFacts DEF UnusedPay, TypeOK,
           helping
      <4>2. Undisturbed(t)
        BY <4>0, <2>12, <1>0 DEF UnusedPay, TypeOK, Undisturbed, helping
      <4>3. Placed(t)'
        BY <4>0, <2>12, <1>0, Places DEF UnusedPay, TypeOK, helping, Placed,
           Housed, Walking, Published, Equipped, LoadPCs, GuardPCs,
           HelpPCs, InTransaction, HasEnvelope
      <4> QED BY <4>1, <4>2, <4>3, <1>0, FrameLocated
    <3> QED BY <3>3, <3>4
  <2>13. CASE UnusedDec(t)
    <3>1. repl[t] \in Words /\ NONE \in DebtRefs \cup {NONE}
      BY <1>0 DEF TypeOK
    <3>2. /\ seen' \in [Threads -> SUBSET Words] /\ cnt' \in [Ptrs -> Int]
          /\ debt' \in [Threads -> [Slots -> Words]]
      <4>1. seen' \in [Threads -> SUBSET Words]
        BY <2>13, <1>0, FreedFacts DEF UnusedDec, DropRef, TypeOK
      <4>2. cnt' \in [Ptrs -> Int]
        BY <2>13, <1>0, CountFacts DEF UnusedDec, DropRef, TypeOK
      <4>3. debt' \in [Threads -> [Slots -> Words]]
        BY <2>13, <1>0 DEF UnusedDec, TypeOK
      <4> QED BY <4>1, <4>2, <4>3
    <3>3. CASE Loaded(t, repl[t], NONE)
      <4>1. pc[t] \in LoadPCs /\ UNCHANGED <<control, env, gen, node>>
        BY <2>13 DEF UnusedDec, LoadPCs, helping
      <4>2. TypeOK'
        BY <3>1, <3>2, <3>3, <4>1, <2>13, <1>0, LoadedFacts DEF UnusedDec, TypeOK,
           helping
      <4> QED BY <4>1, <4>2, <3>1, <3>3, <1>0, LoadedFacts, FrameLocated
    <3> QED BY <3>3, <2>13 DEF UnusedDec
  <2>14. CASE InnerInc(t)
    <3>1. TypeOK'
      BY <2>14, <1>0, PCFacts, CountFacts, FreedFacts DEF InnerInc, TakeRef,
         TypeOK, heap, helping, user, loader, writer
    <3>2. Undisturbed(t)
      BY <2>14, <1>0 DEF InnerInc, TakeRef, TypeOK, Undisturbed, heap, helping,
         user, loader, writer
    <3>3. /\ pc'[t] = "inner_pay" /\ call'[t] = call[t] /\ ret'[t] = ret[t]
          /\ node'[t] = node[t] /\ gen'[t] = gen[t] /\ env'[t] = env[t]
          /\ held'[t] = held[t] /\ control'[t] = control[t]
      BY <2>14, <1>0 DEF InnerInc, TakeRef, TypeOK, heap, helping, user, loader,
         writer
    <3>4. Placed(t)'
      BY <2>14, <3>3, Places, PCFacts, ConstantsOK DEF InnerInc, Placed, Housed,
         Walking, Published, Equipped, LoadPCs, GuardPCs, HelpPCs,
         InTransaction, HasEnvelope
    <3> QED BY <3>1, <3>2, <3>4, <1>0, FrameLocated
  <2>15. CASE InnerPay(t)
    <3>1. val[t] \in Words /\ NONE \in DebtRefs \cup {NONE}
      BY <1>0 DEF TypeOK
    <3>2. /\ seen' \in [Threads -> SUBSET Words] /\ cnt' \in [Ptrs -> Int]
          /\ debt' \in [Threads -> [Slots -> Words]]
      <4>1. seen' \in [Threads -> SUBSET Words]
        <5>1. seen' = seen \/ seen' = Closed(t, NONE)
          BY <2>15 DEF InnerPay
        <5>2. seen \in [Threads -> SUBSET Words] /\ Closed(t, NONE) \in [Threads -> SUBSET Words]
          BY <1>0, ClosedFacts DEF TypeOK
        <5> QED BY <5>1, <5>2
      <4>2. cnt' \in [Ptrs -> Int]
        BY <2>15, <1>0 DEF InnerPay, TypeOK
      <4>3. debt' \in [Threads -> [Slots -> Words]]
        <5>1. debt' = debt \/ debt' = [debt EXCEPT ![dref[t][1]][dref[t][2]] = NONE]
          BY <2>15 DEF InnerPay, Pay
        <5>2. debt \in [Threads -> [Slots -> Words]]
          BY <1>0 DEF TypeOK
        <5> QED BY <5>1, <5>2, WordFacts
      <4> QED BY <4>1, <4>2, <4>3
    <3>3. CASE Loaded(t, val[t], NONE)
      <4>1. pc[t] \in LoadPCs /\ UNCHANGED <<control, env, gen, node>>
        BY <2>15 DEF InnerPay, LoadPCs, helping
      <4>2. TypeOK'
        BY <3>1, <3>2, <3>3, <4>1, <2>15, <1>0, LoadedFacts DEF InnerPay, TypeOK,
           helping
      <4> QED BY <4>1, <4>2, <3>1, <3>3, <1>0, LoadedFacts, FrameLocated
    <3>4. CASE ~Loaded(t, val[t], NONE)
      <4>0. /\ pc' = [pc EXCEPT ![t] = "inner_dec"]
            /\ UNCHANGED <<guard, call, ret, val, dref, repl, held>>
        BY <3>4, <2>15 DEF InnerPay
      <4>1. TypeOK'
        BY <3>2, <4>0, <2>15, <1>0, WordFacts, PCFacts DEF InnerPay, TypeOK,
           helping
      <4>2. Undisturbed(t)
        BY <4>0, <2>15, <1>0 DEF InnerPay, TypeOK, Undisturbed, helping
      <4>3. Placed(t)'
        BY <4>0, <2>15, <1>0, Places DEF InnerPay, TypeOK, helping, Placed,
           Housed, Walking, Published, Equipped, LoadPCs, GuardPCs,
           HelpPCs, InTransaction, HasEnvelope
      <4> QED BY <4>1, <4>2, <4>3, <1>0, FrameLocated
    <3> QED BY <3>3, <3>4
  <2>16. CASE InnerDec(t)
    <3>1. val[t] \in Words /\ NONE \in DebtRefs \cup {NONE}
      BY <1>0 DEF TypeOK
    <3>2. /\ seen' \in [Threads -> SUBSET Words] /\ cnt' \in [Ptrs -> Int]
          /\ debt' \in [Threads -> [Slots -> Words]]
      <4>1. seen' \in [Threads -> SUBSET Words]
        BY <2>16, <1>0, FreedFacts DEF InnerDec, DropRef, TypeOK
      <4>2. cnt' \in [Ptrs -> Int]
        BY <2>16, <1>0, CountFacts DEF InnerDec, DropRef, TypeOK
      <4>3. debt' \in [Threads -> [Slots -> Words]]
        BY <2>16, <1>0 DEF InnerDec, TypeOK
      <4> QED BY <4>1, <4>2, <4>3
    <3>3. CASE Loaded(t, val[t], NONE)
      <4>1. pc[t] \in LoadPCs /\ UNCHANGED <<control, env, gen, node>>
        BY <2>16 DEF InnerDec, LoadPCs, helping
      <4>2. TypeOK'
        BY <3>1, <3>2, <3>3, <4>1, <2>16, <1>0, LoadedFacts DEF InnerDec, TypeOK,
           helping
      <4> QED BY <4>1, <4>2, <3>1, <3>3, <1>0, LoadedFacts, FrameLocated
    <3> QED BY <3>3, <2>16 DEF InnerDec
  <2>17. CASE DropPay(t)
    <3>1. Housed(t)
      BY <2>17, Places DEF DropPay
    <3>2. TypeOK'
      <4>1. debt' \in [Threads -> [Slots -> Words]]
        <5>1. debt \in [Threads -> [Slots -> Words]]
          BY <1>0 DEF TypeOK
        <5>2. \/ debt' = debt
              \/ debt' = [debt EXCEPT ![dref[t][1]][dref[t][2]] = NONE]
          BY <2>17 DEF DropPay, Dropped, Return, Pay
        <5> QED
          BY <5>1, <5>2, <3>1, WordFacts
      <4>2. val' \in [Threads -> Words]
        BY <2>17, <1>0, <3>1, WordFacts DEF DropPay, Dropped, Return, Pay, TypeOK,
           loader, writer, heap, helping, user
      <4>3. dref' \in [Threads -> DebtRefs \cup {NONE}]
        BY <2>17, <1>0, <3>1 DEF DropPay, Dropped, Return, Pay, TypeOK, loader,
           writer, heap, helping, user
      <4>4. pc' \in [Threads -> PCs]
        <5>1. pc \in [Threads -> PCs]
          BY <1>0 DEF TypeOK
        <5>2. \/ pc' = [pc EXCEPT ![t] = "drop_dec"]
              \/ pc' = [pc EXCEPT ![t] = LoadEntry]
              \/ pc' = [pc EXCEPT ![t] = "idle"]
          BY <2>17 DEF DropPay, Dropped, Return
        <5> QED
          BY <5>1, <5>2, PCFacts
      <4>5. ret' \in [Threads -> {NONE, "user", "cas", "help"}]
        BY <2>17, <1>0, <3>1 DEF DropPay, Dropped, Return, Pay, TypeOK, loader,
           writer, heap, helping, user
      <4>6. guard' \in [Handles -> Protections \cup {NONE}]
        BY <2>17, <1>0, <3>1 DEF DropPay, Dropped, Return, Pay, TypeOK, loader,
           writer, heap, helping, user
      <4>7. call' \in [Threads -> Calls \cup {NoCall}]
        BY <2>17, <1>0, <3>1, WordFacts, CallFacts DEF DropPay, Dropped, Return,
           Pay, TypeOK, loader, writer, heap, helping, user
      <4>8. seen' \in [Threads -> SUBSET Words]
        <5>1. seen \in [Threads -> SUBSET Words]
          BY <1>0 DEF TypeOK
        <5>2. \/ seen' = seen
              \/ seen' = Reopened(t, seen)
          BY <2>17 DEF DropPay, Dropped, Return
        <5> QED
          BY <5>1, <5>2, <3>1, <1>0, ReopenedFacts
      <4> QED
        BY <4>1, <4>2, <4>3, <4>4, <4>5, <4>6, <4>7, <4>8, <2>17, <1>0 DEF
           DropPay, TypeOK, heap, helping, user, loader, writer
    <3>3. Undisturbed(t)
      BY <2>17, <1>0, <3>1 DEF DropPay, Dropped, Return, Pay, TypeOK, Undisturbed,
         heap, helping, user, loader, writer
    <3>4. /\ \/ pc'[t] = "drop_dec" /\ call'[t] = call[t] /\ ret'[t] = ret[t]
             \/ pc'[t] = "idle" /\ call'[t] = NoCall /\ ret'[t] = ret[t]
             \/ pc'[t] = LoadEntry /\ call'[t] = call[t] /\ call[t].op = "compare_and_swap" /\ ret'[t] = "cas"
          /\ node'[t] = node[t] /\ gen'[t] = gen[t] /\ env'[t] = env[t]
          /\ held'[t] = held[t] /\ control'[t] = control[t]
      BY <2>17, <1>0, <3>1 DEF DropPay, Dropped, Return, Pay, TypeOK, heap,
         helping, user, loader, writer
    <3>5. Placed(t)'
      BY <2>17, <3>1, <3>4, Places, PCFacts, ConstantsOK, CallFacts DEF DropPay,
         Placed, Housed, Walking, Published, Equipped, LoadPCs, GuardPCs,
         HelpPCs, InTransaction, HasEnvelope
    <3> QED BY <3>2, <3>3, <3>5, <1>0, FrameLocated
  <2>18. CASE DropDec(t)
    <3>1. Housed(t)
      BY <2>18, Places DEF DropDec
    <3>2. TypeOK'
      <4>1. cnt' \in [Ptrs -> Int]
        BY <2>18, <1>0, <3>1, CountFacts DEF DropDec, Dropped, Return, TypeOK,
           loader, writer, heap, helping, user
      <4>2. val' \in [Threads -> Words]
        BY <2>18, <1>0, <3>1, WordFacts DEF DropDec, Dropped, Return, TypeOK,
           loader, writer, heap, helping, user
      <4>3. dref' \in [Threads -> DebtRefs \cup {NONE}]
        BY <2>18, <1>0, <3>1 DEF DropDec, Dropped, Return, TypeOK, loader, writer,
           heap, helping, user
      <4>4. pc' \in [Threads -> PCs]
        <5>1. pc \in [Threads -> PCs]
          BY <1>0 DEF TypeOK
        <5>2. \/ pc' = [pc EXCEPT ![t] = LoadEntry]
              \/ pc' = [pc EXCEPT ![t] = "idle"]
          BY <2>18 DEF DropDec, Dropped, Return
        <5> QED
          BY <5>1, <5>2, PCFacts
      <4>5. ret' \in [Threads -> {NONE, "user", "cas", "help"}]
        BY <2>18, <1>0, <3>1 DEF DropDec, Dropped, Return, TypeOK, loader, writer,
           heap, helping, user
      <4>6. guard' \in [Handles -> Protections \cup {NONE}]
        BY <2>18, <1>0, <3>1 DEF DropDec, Dropped, Return, TypeOK, loader, writer,
           heap, helping, user
      <4>7. call' \in [Threads -> Calls \cup {NoCall}]
        BY <2>18, <1>0, <3>1, WordFacts, CallFacts DEF DropDec, Dropped, Return,
           TypeOK, loader, writer, heap, helping, user
      <4>8. seen' \in [Threads -> SUBSET Words]
        BY <2>18, <1>0, <3>1, WordFacts, ReopenedFacts, FreedFacts DEF DropDec,
           Dropped, Return, TypeOK, loader, writer, heap, helping, user
      <4> QED
        BY <4>1, <4>2, <4>3, <4>4, <4>5, <4>6, <4>7, <4>8, <2>18, <1>0 DEF
           DropDec, TypeOK, heap, helping, user, loader, writer
    <3>3. Undisturbed(t)
      BY <2>18, <1>0, <3>1 DEF DropDec, Dropped, Return, TypeOK, Undisturbed,
         heap, helping, user, loader, writer
    <3>4. /\ \/ pc'[t] = "idle" /\ call'[t] = NoCall /\ ret'[t] = ret[t]
             \/ pc'[t] = LoadEntry /\ call'[t] = call[t] /\ call[t].op = "compare_and_swap" /\ ret'[t] = "cas"
          /\ node'[t] = node[t] /\ gen'[t] = gen[t] /\ env'[t] = env[t]
          /\ held'[t] = held[t] /\ control'[t] = control[t]
      BY <2>18, <1>0, <3>1 DEF DropDec, Dropped, Return, TypeOK, heap, helping,
         user, loader, writer
    <3>5. Placed(t)'
      BY <2>18, <3>1, <3>4, Places, PCFacts, ConstantsOK, CallFacts DEF DropDec,
         Placed, Housed, Walking, Published, Equipped, LoadPCs, GuardPCs,
         HelpPCs, InTransaction, HasEnvelope
    <3> QED BY <3>2, <3>3, <3>5, <1>0, FrameLocated
  <2>19. CASE Swap(t)
    <3>1. call[t].st \in Storages
      BY <2>19, Places DEF Swap, GuardPCs
    <3>2. TypeOK'
      BY <2>19, <1>0, <3>1, PCFacts, WordFacts, StoredFacts DEF Swap, TypeOK,
         heap, helping, user, loader, writer
    <3>3. Undisturbed(t)
      BY <2>19, <1>0, <3>1 DEF Swap, TypeOK, Undisturbed, heap, helping, user,
         loader, writer
    <3>4. /\ pc'[t] = "pay_inc" /\ call'[t] = call[t] /\ ret'[t] = ret[t]
          /\ node'[t] = node[t] /\ gen'[t] = gen[t] /\ env'[t] = env[t]
          /\ held'[t] = held[t] /\ control'[t] = control[t]
      BY <2>19, <1>0, <3>1 DEF Swap, TypeOK, heap, helping, user, loader, writer
    <3>5. Placed(t)'
      BY <2>19, <3>1, <3>4, Places, PCFacts, ConstantsOK DEF Swap, Placed, Housed,
         Walking, Published, Equipped, LoadPCs, GuardPCs, HelpPCs,
         InTransaction, HasEnvelope
    <3> QED BY <3>2, <3>3, <3>5, <1>0, FrameLocated
  <2>20. CASE PayInc(t)
    <3>1. TypeOK'
      <4>1. cnt' \in [Ptrs -> Int]
        BY <2>20, <1>0, CountFacts DEF PayInc, TakeRef, TypeOK, loader, writer,
           heap, helping, user
      <4>2. node' \in [Threads -> 0..N]
        BY <2>20, <1>0, ConstantsOK DEF PayInc, TakeRef, Threads, TypeOK, loader,
           writer, heap, helping, user
      <4>3. pc' \in [Threads -> PCs]
        BY <2>20, <1>0, PCFacts DEF PayInc, TakeRef, TypeOK, loader, writer, heap,
           helping, user
      <4> QED
        BY <4>1, <4>2, <4>3, <2>20, <1>0 DEF PayInc, TakeRef, TypeOK, heap,
           helping, user, loader, writer
    <3>2. Undisturbed(t)
      BY <2>20, <1>0 DEF PayInc, TakeRef, TypeOK, Undisturbed, heap, helping,
         user, loader, writer
    <3>3. /\ pc'[t] = "help_control" /\ call'[t] = call[t] /\ ret'[t] = ret[t]
          /\ node'[t] \in Threads /\ gen'[t] = gen[t] /\ env'[t] = env[t]
          /\ held'[t] = held[t] /\ control'[t] = control[t]
      BY <2>20, <1>0, IndexFacts DEF PayInc, TakeRef, TypeOK, heap, helping, user,
         loader, writer
    <3>4. Placed(t)'
      BY <2>20, <3>3, Places, PCFacts, ConstantsOK DEF PayInc, Placed, Housed,
         Walking, Published, Equipped, LoadPCs, GuardPCs, HelpPCs,
         InTransaction, HasEnvelope
    <3> QED BY <3>1, <3>2, <3>4, <1>0, FrameLocated
  <2>21. CASE HelpControl(t)
    <3>1. node[t] \in Threads
      BY <2>21, Places DEF HelpControl, HelpPCs
    <3>2. TypeOK'
      <4>1. ctl' \in [Threads -> Control]
        <5>1. ctl \in [Threads -> Control] /\ control \in [Threads -> Control]
          BY <1>0 DEF TypeOK
        <5>2. \/ ctl' = [ctl EXCEPT ![t] = control[node[t]]]
              \/ ctl' = [ctl EXCEPT ![t] = IDLE]
          BY <2>21 DEF HelpControl, HelpLoop, writer
        <5> QED
          BY <5>1, <5>2, <3>1, ControlFacts
      <4>2. pc' \in [Threads -> PCs]
        BY <2>21, <1>0, PCFacts DEF HelpControl, HelpLoop, TypeOK, loader, writer,
           heap, helping, user
      <4>3. i' \in [Threads -> 0..HELPING]
        <5>1. i \in [Threads -> 0..HELPING]
          BY <1>0 DEF TypeOK
        <5>2. \/ i' = i
              \/ i' = [i EXCEPT ![t] = 1]
          BY <2>21 DEF HelpControl, HelpLoop, writer
        <5> QED
          BY <5>1, <5>2, IndexFacts
      <4> QED
        BY <4>1, <4>2, <4>3, <2>21, <1>0 DEF HelpControl, TypeOK, heap, helping,
           user, loader, writer
    <3>3. Undisturbed(t)
      BY <2>21, <1>0, <3>1 DEF HelpControl, HelpLoop, TypeOK, Undisturbed, heap,
         helping, user, loader, writer
    <3>4. /\ pc'[t] \in {"help_addr", "pay_slot"} /\ call'[t] = call[t]
          /\ ret'[t] = ret[t] /\ node'[t] = node[t] /\ gen'[t] = gen[t]
          /\ env'[t] = env[t] /\ held'[t] = held[t] /\ control'[t] = control[t]
      BY <2>21, <1>0, <3>1 DEF HelpControl, HelpLoop, TypeOK, heap, helping, user,
         loader, writer
    <3>5. Placed(t)'
      BY <2>21, <3>1, <3>4, Places, PCFacts, ConstantsOK DEF HelpControl, Placed,
         Housed, Walking, Published, Equipped, LoadPCs, GuardPCs, HelpPCs,
         InTransaction, HasEnvelope
    <3> QED BY <3>2, <3>3, <3>5, <1>0, FrameLocated
  <2>22. CASE HelpAddr(t)
    <3>1. node[t] \in Threads
      BY <2>22, Places DEF HelpAddr, HelpPCs
    <3>2. TypeOK'
      <4>1. pc' \in [Threads -> PCs]
        BY <2>22, <1>0, PCFacts DEF HelpAddr, TypeOK, loader, writer, heap,
           helping, user
      <4>2. ret' \in [Threads -> {NONE, "user", "cas", "help"}]
        BY <2>22, <1>0, <3>1 DEF HelpAddr, TypeOK, loader, writer, heap, helping,
           user
      <4>3. call[t].st \in Storages
        BY <2>22, <1>0, Places, CallFacts DEF HelpAddr, TypeOK, Housed, GuardPCs
      <4>4. seen' \in [Threads -> SUBSET Words]
        <5>1. seen \in [Threads -> SUBSET Words] /\ ptr[call[t].st] \in Words
          BY <1>0, <4>3 DEF TypeOK
        <5>2. seen' = seen \/ seen' = [seen EXCEPT ![t] = {ptr[call[t].st]}]
          BY <2>22 DEF HelpAddr
        <5> QED BY <5>1, <5>2
      <4> QED
        BY <4>1, <4>2, <4>4, <2>22, <1>0 DEF HelpAddr, TypeOK, heap, helping, user,
           loader, writer
    <3>3. Undisturbed(t)
      BY <2>22, <1>0, <3>1 DEF HelpAddr, TypeOK, Undisturbed, heap, helping, user,
         loader, writer
    <3>4. /\ \/ pc'[t] = "help_recheck" /\ ret'[t] = ret[t]
             \/ pc'[t] = LoadEntry /\ ret'[t] = "help"
          /\ call'[t] = call[t] /\ node'[t] = node[t] /\ gen'[t] = gen[t]
          /\ env'[t] = env[t] /\ held'[t] = held[t] /\ control'[t] = control[t]
      BY <2>22, <1>0, <3>1 DEF HelpAddr, TypeOK, heap, helping, user, loader,
         writer
    <3>5. Placed(t)'
      BY <2>22, <3>1, <3>4, Places, PCFacts, ConstantsOK DEF HelpAddr, Placed,
         Housed, Walking, Published, Equipped, LoadPCs, GuardPCs, HelpPCs,
         InTransaction, HasEnvelope
    <3> QED BY <3>2, <3>3, <3>5, <1>0, FrameLocated
  <2>23. CASE HelpRecheck(t)
    <3>1. node[t] \in Threads
      BY <2>23, Places DEF HelpRecheck, HelpPCs
    <3>2. TypeOK'
      <4>1. ctl' \in [Threads -> Control]
        <5>1. ctl \in [Threads -> Control] /\ control \in [Threads -> Control]
          BY <1>0 DEF TypeOK
        <5>2. \/ ctl' = [ctl EXCEPT ![t] = IDLE]
              \/ ctl' = [ctl EXCEPT ![t] = control[node[t]]]
          BY <2>23 DEF HelpRecheck, HelpLoop, writer
        <5> QED
          BY <5>1, <5>2, <3>1, ControlFacts
      <4>2. pc' \in [Threads -> PCs]
        BY <2>23, <1>0, PCFacts DEF HelpRecheck, HelpLoop, TypeOK, loader, writer,
           heap, helping, user
      <4>3. i' \in [Threads -> 0..HELPING]
        <5>1. i \in [Threads -> 0..HELPING]
          BY <1>0 DEF TypeOK
        <5>2. \/ i' = i
              \/ i' = [i EXCEPT ![t] = 1]
          BY <2>23 DEF HelpRecheck, HelpLoop, writer
        <5> QED
          BY <5>1, <5>2, IndexFacts
      <4> QED
        BY <4>1, <4>2, <4>3, <2>23, <1>0 DEF HelpRecheck, TypeOK, heap, helping,
           user, loader, writer
    <3>3. Undisturbed(t)
      BY <2>23, <1>0, <3>1 DEF HelpRecheck, HelpLoop, TypeOK, Undisturbed, heap,
         helping, user, loader, writer
    <3>4. /\ pc'[t] \in {"help_addr", "pay_slot"} /\ call'[t] = call[t]
          /\ ret'[t] = ret[t] /\ node'[t] = node[t] /\ gen'[t] = gen[t]
          /\ env'[t] = env[t] /\ held'[t] = held[t] /\ control'[t] = control[t]
      BY <2>23, <1>0, <3>1 DEF HelpRecheck, HelpLoop, TypeOK, heap, helping, user,
         loader, writer
    <3>5. Placed(t)'
      BY <2>23, <3>1, <3>4, Places, PCFacts, ConstantsOK DEF HelpRecheck, Placed,
         Housed, Walking, Published, Equipped, LoadPCs, GuardPCs, HelpPCs,
         InTransaction, HasEnvelope
    <3> QED BY <3>2, <3>3, <3>5, <1>0, FrameLocated
  <2>24. CASE HelpTheir(t)
    <3>1. node[t] \in Threads
      BY <2>24, Places DEF HelpTheir, HelpPCs
    <3>2. TypeOK'
      BY <2>24, <1>0, <3>1, PCFacts DEF HelpTheir, TypeOK, heap, helping, user,
         loader, writer
    <3>3. Undisturbed(t)
      BY <2>24, <1>0, <3>1 DEF HelpTheir, TypeOK, Undisturbed, heap, helping,
         user, loader, writer
    <3>4. /\ pc'[t] = "help_store" /\ call'[t] = call[t] /\ ret'[t] = ret[t]
          /\ node'[t] = node[t] /\ gen'[t] = gen[t] /\ env'[t] \in Envelopes
          /\ held'[t] = held[t] /\ control'[t] = control[t]
      BY <2>24, <1>0, <3>1 DEF HelpTheir, TypeOK, heap, helping, user, loader,
         writer
    <3>5. Placed(t)'
      BY <2>24, <3>1, <3>4, Places, PCFacts, ConstantsOK DEF HelpTheir, Placed,
         Housed, Walking, Published, Equipped, LoadPCs, GuardPCs, HelpPCs,
         InTransaction, HasEnvelope
    <3> QED BY <3>2, <3>3, <3>5, <1>0, FrameLocated
  <2>25. CASE HelpStore(t)
    <3>1. TypeOK'
      BY <2>25, <1>0, PCFacts DEF HelpStore, TypeOK, heap, helping, user, loader,
         writer
    <3>2. Undisturbed(t)
      BY <2>25, <1>0 DEF HelpStore, TypeOK, Undisturbed, heap, helping, user,
         loader, writer
    <3>3. /\ pc'[t] = "help_cas" /\ call'[t] = call[t] /\ ret'[t] = ret[t]
          /\ node'[t] = node[t] /\ gen'[t] = gen[t] /\ env'[t] = env[t]
          /\ held'[t] = held[t] /\ control'[t] = control[t]
      BY <2>25, <1>0 DEF HelpStore, TypeOK, heap, helping, user, loader, writer
    <3>4. Placed(t)'
      BY <2>25, <3>3, Places, PCFacts, ConstantsOK DEF HelpStore, Placed, Housed,
         Walking, Published, Equipped, LoadPCs, GuardPCs, HelpPCs,
         InTransaction, HasEnvelope
    <3> QED BY <3>1, <3>2, <3>4, <1>0, FrameLocated
  <2>26. CASE HelpCas(t)
    <3>1. node[t] \in Threads
      BY <2>26, Places DEF HelpCas, HelpPCs
    <3>2. TypeOK'
      <4>1. control' \in [Threads -> Control]
        <5>1. /\ control \in [Threads -> Control]
/\ space_offer \in [Threads -> Envelopes]
          BY <1>0 DEF TypeOK
        <5>2. \/ control' = control
              \/ control' = [control EXCEPT ![node[t]] = Replacement(space_offer[t])]
          BY <2>26 DEF HelpCas, HelpSent, HelpFailed
        <5> QED
          BY <5>1, <5>2, <3>1, ControlFacts
      <4>2. repl' \in [Threads -> Words]
        <5>1. repl \in [Threads -> Words]
          BY <1>0 DEF TypeOK
        <5>2. \/ repl' = repl
              \/ repl' = [repl EXCEPT ![t] = NONE]
          BY <2>26 DEF HelpCas, HelpSent, HelpFailed, loader
        <5> QED
          BY <5>1, <5>2, <3>1, WordFacts
      <4>3. ctl' \in [Threads -> Control]
        <5>1. ctl \in [Threads -> Control] /\ control \in [Threads -> Control]
          BY <1>0 DEF TypeOK
        <5>2. \/ ctl' = [ctl EXCEPT ![t] = IDLE]
              \/ ctl' = [ctl EXCEPT ![t] = control[node[t]]]
          BY <2>26 DEF HelpCas, HelpSent, HelpFailed, writer
        <5> QED
          BY <5>1, <5>2, <3>1, ControlFacts
      <4>4. pc' \in [Threads -> PCs]
        <5>1. pc \in [Threads -> PCs]
          BY <1>0 DEF TypeOK
        <5>2. \/ pc' = [pc EXCEPT ![t] = "help_took"]
              \/ pc' = [pc EXCEPT ![t] = "help_drop"]
          BY <2>26 DEF HelpCas, HelpSent, HelpFailed
        <5> QED
          BY <5>1, <5>2, PCFacts
      <4>5. env' \in [Threads -> Envelopes \cup {NONE}]
        BY <2>26, <1>0, <3>1, ControlFacts DEF HelpCas, HelpSent, HelpFailed,
           TypeOK, loader, writer, heap, helping, user
      <4> QED
        BY <4>1, <4>2, <4>3, <4>4, <4>5, <2>26, <1>0 DEF HelpCas, TypeOK, heap,
           helping, user, loader, writer
    <3>3. Undisturbed(t)
      BY <2>26, <1>0, <3>1, ControlFacts DEF HelpCas, HelpSent, HelpFailed,
         TypeOK, Undisturbed, heap, helping, user, loader, writer
    <3>4. /\ \/ pc'[t] = "help_took" /\ env'[t] = env[t]
             \/ pc'[t] = "help_drop"
          /\ call'[t] = call[t] /\ ret'[t] = ret[t] /\ node'[t] = node[t]
          /\ gen'[t] = gen[t] /\ held'[t] = held[t]
      BY <2>26, <1>0, <3>1 DEF HelpCas, HelpSent, HelpFailed, TypeOK, heap,
         helping, user, loader, writer
    <3>5. Placed(t)'
      BY <2>26, <3>1, <3>4, Places, PCFacts, ConstantsOK DEF HelpCas, Placed,
         Housed, Walking, Published, Equipped, LoadPCs, GuardPCs, HelpPCs,
         InTransaction, HasEnvelope
    <3> QED BY <3>2, <3>3, <3>5, <1>0, FrameLocated
  <2>27. CASE HelpTook(t)
    <3>1. env[t] \in Envelopes
      BY <2>27, Places DEF HelpTook, HasEnvelope
    <3>2. TypeOK'
      BY <2>27, <1>0, <3>1, PCFacts, ConstantsOK DEF HelpTook, HELPING, TypeOK,
         heap, helping, user, loader, writer
    <3>3. Undisturbed(t)
      BY <2>27, <1>0, <3>1 DEF HelpTook, TypeOK, Undisturbed, heap, helping, user,
         loader, writer
    <3>4. /\ pc'[t] = "pay_slot" /\ call'[t] = call[t] /\ ret'[t] = ret[t]
          /\ node'[t] = node[t] /\ gen'[t] = gen[t] /\ held'[t] = held[t]
          /\ control'[t] = control[t]
      BY <2>27, <1>0, <3>1 DEF HelpTook, TypeOK, heap, helping, user, loader,
         writer
    <3>5. Placed(t)'
      BY <2>27, <3>1, <3>4, Places, PCFacts, ConstantsOK DEF HelpTook, Placed,
         Housed, Walking, Published, Equipped, LoadPCs, GuardPCs, HelpPCs,
         InTransaction, HasEnvelope
    <3> QED BY <3>2, <3>3, <3>5, <1>0, FrameLocated
  <2>28. CASE HelpDrop(t)
    <3>1. TypeOK'
      <4>1. cnt' \in [Ptrs -> Int]
        BY <2>28, <1>0, CountFacts DEF HelpDrop, HelpLoop, DropRef, TypeOK,
           loader, writer, heap, helping, user
      <4>2. seen' \in [Threads -> SUBSET Words]
        BY <2>28, <1>0, FreedFacts, WordFacts DEF HelpDrop, HelpLoop, DropRef,
           TypeOK, loader, writer, heap, helping, user
      <4>3. repl' \in [Threads -> Words]
        BY <2>28, <1>0, ConstantsOK, WordFacts DEF HelpDrop, HelpLoop, DropRef,
           TypeOK, loader, writer, heap, helping, user
      <4>4. ctl' \in [Threads -> Control]
        BY <2>28, <1>0, ControlFacts DEF HelpDrop, HelpLoop, DropRef, TypeOK,
           loader, writer, heap, helping, user
      <4>5. pc' \in [Threads -> PCs]
        <5>1. pc \in [Threads -> PCs]
          BY <1>0 DEF TypeOK
        <5>2. \/ pc' = [pc EXCEPT ![t] = "help_addr"]
              \/ pc' = [pc EXCEPT ![t] = "pay_slot"]
          BY <2>28 DEF HelpDrop, HelpLoop, DropRef
        <5> QED
          BY <5>1, <5>2, PCFacts
      <4>6. i' \in [Threads -> 0..HELPING]
        <5>1. i \in [Threads -> 0..HELPING]
          BY <1>0 DEF TypeOK
        <5>2. \/ i' = i
              \/ i' = [i EXCEPT ![t] = 1]
          BY <2>28 DEF HelpDrop, HelpLoop, DropRef, writer
        <5> QED
          BY <5>1, <5>2, IndexFacts
      <4> QED
        BY <4>1, <4>2, <4>3, <4>4, <4>5, <4>6, <2>28, <1>0 DEF HelpDrop, TypeOK,
           heap, helping, user, loader, writer
    <3>2. Undisturbed(t)
      BY <2>28, <1>0 DEF HelpDrop, HelpLoop, DropRef, TypeOK, Undisturbed, heap,
         helping, user, loader, writer
    <3>3. /\ pc'[t] \in {"help_addr", "pay_slot"} /\ call'[t] = call[t]
          /\ ret'[t] = ret[t] /\ node'[t] = node[t] /\ gen'[t] = gen[t]
          /\ env'[t] = env[t] /\ held'[t] = held[t] /\ control'[t] = control[t]
      BY <2>28, <1>0 DEF HelpDrop, HelpLoop, DropRef, TypeOK, heap, helping, user,
         loader, writer
    <3>4. Placed(t)'
      BY <2>28, <3>3, Places, PCFacts, ConstantsOK DEF HelpDrop, Placed, Housed,
         Walking, Published, Equipped, LoadPCs, GuardPCs, HelpPCs,
         InTransaction, HasEnvelope
    <3> QED BY <3>1, <3>2, <3>4, <1>0, FrameLocated
  <2>29. CASE PaySlot(t)
    <3>1. node[t] \in Threads
      BY <2>29, Places DEF PaySlot, HelpPCs
    <3>2. TypeOK'
      <4>1. debt' \in [Threads -> [Slots -> Words]]
        <5>1. debt \in [Threads -> [Slots -> Words]]
          BY <1>0 DEF TypeOK
        <5>2. \/ debt' = debt
              \/ debt' = [debt EXCEPT ![node[t]][i[t]] = NONE]
          BY <2>29 DEF PaySlot, NextSlot, Pay
        <5> QED
          BY <5>1, <5>2, <3>1, WordFacts
      <4>2. pc' \in [Threads -> PCs]
        BY <2>29, <1>0, PCFacts DEF PaySlot, NextSlot, Pay, TypeOK, loader,
           writer, heap, helping, user
      <4>3. node' \in [Threads -> 0..N]
        <5>1. node \in [Threads -> 0..N]
          BY <1>0 DEF TypeOK
        <5>2. \/ node' = node
              \/ node' = [node EXCEPT ![t] = node[t] - 1]
          BY <2>29 DEF PaySlot, NextSlot, writer
        <5> QED
          BY <5>1, <5>2, <3>1, IndexFacts
      <4>4. i' \in [Threads -> 0..HELPING]
        <5>1. i \in [Threads -> 0..HELPING]
          BY <1>0 DEF TypeOK
        <5>2. \/ i' = i
              \/ i' = [i EXCEPT ![t] = 0]
              \/ i[t] < HELPING /\ i' = [i EXCEPT ![t] = i[t] + 1]
          BY <2>29 DEF PaySlot, NextSlot, writer
        <5> QED
          BY <5>1, <5>2, IndexFacts
      <4> QED
        BY <4>1, <4>2, <4>3, <4>4, <2>29, <1>0 DEF PaySlot, TypeOK, heap, helping,
           user, loader, writer
    <3>3. Undisturbed(t)
      BY <2>29, <1>0, <3>1 DEF PaySlot, NextSlot, Pay, TypeOK, Undisturbed, heap,
         helping, user, loader, writer
    <3>4. /\ pc'[t] \in {"pay_slot", "pay_more", "pay_drop", "help_control"}
          /\ call'[t] = call[t] /\ ret'[t] = ret[t]
          /\ pc'[t] # "pay_drop" => node'[t] \in Threads /\ gen'[t] = gen[t]
          /\ env'[t] = env[t] /\ held'[t] = held[t] /\ control'[t] = control[t]
      BY <2>29, <1>0, <3>1, IndexFacts DEF PaySlot, NextSlot, Pay, TypeOK, heap,
         helping, user, loader, writer
    <3>5. Placed(t)'
      BY <2>29, <3>1, <3>4, Places, PCFacts, ConstantsOK DEF PaySlot, Placed,
         Housed, Walking, Published, Equipped, LoadPCs, GuardPCs, HelpPCs,
         InTransaction, HasEnvelope
    <3> QED BY <3>2, <3>3, <3>5, <1>0, FrameLocated
  <2>30. CASE PayMore(t)
    <3>1. node[t] \in Threads
      BY <2>30, Places DEF PayMore, HelpPCs
    <3>2. TypeOK'
      <4>1. cnt' \in [Ptrs -> Int]
        BY <2>30, <1>0, <3>1, CountFacts DEF PayMore, NextSlot, TakeRef, TypeOK,
           loader, writer, heap, helping, user
      <4>2. node' \in [Threads -> 0..N]
        <5>1. node \in [Threads -> 0..N]
          BY <1>0 DEF TypeOK
        <5>2. \/ node' = node
              \/ node' = [node EXCEPT ![t] = node[t] - 1]
          BY <2>30 DEF PayMore, NextSlot, TakeRef, writer
        <5> QED
          BY <5>1, <5>2, <3>1, IndexFacts
      <4>3. i' \in [Threads -> 0..HELPING]
        <5>1. i \in [Threads -> 0..HELPING]
          BY <1>0 DEF TypeOK
        <5>2. \/ i' = [i EXCEPT ![t] = 0]
              \/ i[t] < HELPING /\ i' = [i EXCEPT ![t] = i[t] + 1]
          BY <2>30 DEF PayMore, NextSlot, TakeRef, writer
        <5> QED
          BY <5>1, <5>2, IndexFacts
      <4>4. pc' \in [Threads -> PCs]
        <5>1. pc \in [Threads -> PCs]
          BY <1>0 DEF TypeOK
        <5>2. \/ pc' = [pc EXCEPT ![t] = "pay_slot"]
              \/ pc' = [pc EXCEPT ![t] = "pay_drop"]
              \/ pc' = [pc EXCEPT ![t] = "help_control"]
          BY <2>30 DEF PayMore, NextSlot, TakeRef
        <5> QED
          BY <5>1, <5>2, PCFacts
      <4> QED
        BY <4>1, <4>2, <4>3, <4>4, <2>30, <1>0 DEF PayMore, TakeRef, TypeOK, heap,
           helping, user, loader, writer
    <3>3. Undisturbed(t)
      BY <2>30, <1>0, <3>1 DEF PayMore, NextSlot, TakeRef, TypeOK, Undisturbed,
         heap, helping, user, loader, writer
    <3>4. /\ pc'[t] \in {"pay_slot", "pay_more", "pay_drop", "help_control"}
          /\ call'[t] = call[t] /\ ret'[t] = ret[t]
          /\ pc'[t] # "pay_drop" => node'[t] \in Threads /\ gen'[t] = gen[t]
          /\ env'[t] = env[t] /\ held'[t] = held[t] /\ control'[t] = control[t]
      BY <2>30, <1>0, <3>1, IndexFacts DEF PayMore, NextSlot, TakeRef, TypeOK,
         heap, helping, user, loader, writer
    <3>5. Placed(t)'
      BY <2>30, <3>1, <3>4, Places, PCFacts, ConstantsOK DEF PayMore, Placed,
         Housed, Walking, Published, Equipped, LoadPCs, GuardPCs, HelpPCs,
         InTransaction, HasEnvelope
    <3> QED BY <3>2, <3>3, <3>5, <1>0, FrameLocated
  <2>31. CASE PayDrop(t)
    <3>1. TypeOK'
      <4>1. cnt' \in [Ptrs -> Int]
        BY <2>31, <1>0, CountFacts DEF PayDrop, DropRef, Return, TypeOK, loader,
           writer, heap, helping, user
      <4>2. seen' \in [Threads -> SUBSET Words]
        BY <2>31, <1>0, FreedFacts, WordFacts DEF PayDrop, DropRef, Return,
           TypeOK, loader, writer, heap, helping, user
      <4>3. pc' \in [Threads -> PCs]
        <5>1. pc \in [Threads -> PCs]
          BY <1>0 DEF TypeOK
        <5>2. \/ pc' = [pc EXCEPT ![t] = "idle"]
              \/ pc' = [pc EXCEPT ![t] = "release"]
          BY <2>31 DEF PayDrop, DropRef, Return
        <5> QED
          BY <5>1, <5>2, PCFacts
      <4>4. guard' \in [Handles -> Protections \cup {NONE}]
        <5>1. /\ guard \in [Handles -> Protections \cup {NONE}]
/\ old \in [Threads -> Words]
          BY <1>0 DEF TypeOK
        <5>2. \/ guard' = guard
              \/ guard' = [guard EXCEPT ![<<t, call[t].hnd>>] = Protection(old[t], NONE)]
          BY <2>31 DEF PayDrop, DropRef, Return
        <5> QED
          BY <5>1, <5>2, ProtectionFacts
      <4>5. call' \in [Threads -> Calls \cup {NoCall}]
        BY <2>31, <1>0, WordFacts, CallFacts DEF PayDrop, DropRef, Return, TypeOK,
           loader, writer, heap, helping, user
      <4>6. old' \in [Threads -> Words]
        <5>1. old \in [Threads -> Words]
          BY <1>0 DEF TypeOK
        <5>2. \/ old' = old
              \/ old' = [old EXCEPT ![t] = NONE]
          BY <2>31 DEF PayDrop, DropRef, Return, writer
        <5> QED
          BY <5>1, <5>2, ProtectionFacts, WordFacts
      <4> QED
        BY <4>1, <4>2, <4>3, <4>4, <4>5, <4>6, <2>31, <1>0 DEF PayDrop, TypeOK,
           heap, helping, user, loader, writer
    <3>2. Undisturbed(t)
      BY <2>31, <1>0 DEF PayDrop, DropRef, Return, TypeOK, Undisturbed, heap,
         helping, user, loader, writer
    <3>3. /\ \/ pc'[t] = "idle" /\ call'[t] = NoCall
             \/ pc'[t] = "release" /\ call'[t] = call[t]
          /\ ret'[t] = ret[t] /\ node'[t] = node[t] /\ gen'[t] = gen[t]
          /\ env'[t] = env[t] /\ held'[t] = held[t] /\ control'[t] = control[t]
      BY <2>31, <1>0 DEF PayDrop, DropRef, Return, TypeOK, heap, helping, user,
         loader, writer
    <3>4. Placed(t)'
      BY <2>31, <3>3, Places, PCFacts, ConstantsOK, CallFacts DEF PayDrop, Placed,
         Housed, Walking, Published, Equipped, LoadPCs, GuardPCs, HelpPCs,
         InTransaction, HasEnvelope
    <3> QED BY <3>1, <3>2, <3>4, <1>0, FrameLocated
  <2>32. CASE Release(t)
    <3>1. TypeOK'
      BY <2>32, <1>0, PCFacts, CountFacts, FreedFacts, WordFacts, CallFacts DEF
         Release, DropRef, Return, TypeOK, heap, helping, user, loader,
         writer
    <3>2. Undisturbed(t)
      BY <2>32, <1>0 DEF Release, DropRef, Return, TypeOK, Undisturbed, heap,
         helping, user, loader, writer
    <3>3. /\ pc'[t] = "idle" /\ call'[t] = NoCall /\ ret'[t] = ret[t]
          /\ node'[t] = node[t] /\ gen'[t] = gen[t] /\ env'[t] = env[t]
          /\ control'[t] = control[t]
      BY <2>32, <1>0 DEF Release, DropRef, Return, TypeOK, heap, helping, user,
         loader, writer
    <3>4. Placed(t)'
      BY <2>32, <3>3, Places, PCFacts, ConstantsOK, CallFacts DEF Release, Placed,
         Housed, Walking, Published, Equipped, LoadPCs, GuardPCs, HelpPCs,
         InTransaction, HasEnvelope
    <3> QED BY <3>1, <3>2, <3>4, <1>0, FrameLocated
  <2>33. CASE CasCheck(t)
    <3>1. TypeOK'
      BY <2>33, <1>0, PCFacts DEF CasCheck, TypeOK, heap, helping, user, loader,
         writer
    <3>2. Undisturbed(t)
      BY <2>33, <1>0 DEF CasCheck, TypeOK, Undisturbed, heap, helping, user,
         loader, writer
    <3>3. /\ pc'[t] \in {"cas_exchange", "cas_drop_new"} /\ call'[t] = call[t]
          /\ ret'[t] = ret[t] /\ node'[t] = node[t] /\ gen'[t] = gen[t]
          /\ env'[t] = env[t] /\ held'[t] = held[t] /\ control'[t] = control[t]
      BY <2>33, <1>0 DEF CasCheck, TypeOK, heap, helping, user, loader, writer
    <3>4. Placed(t)'
      BY <2>33, <3>3, Places, PCFacts, ConstantsOK DEF CasCheck, Placed, Housed,
         Walking, Published, Equipped, LoadPCs, GuardPCs, HelpPCs,
         InTransaction, HasEnvelope
    <3> QED BY <3>1, <3>2, <3>4, <1>0, FrameLocated
  <2>34. CASE CasExchange(t)
    <3>1. call[t].st \in Storages /\ held[t] \in Protections
      BY <2>34, Places DEF CasExchange, GuardPCs
    <3>2. TypeOK'
      <4>1. ptr' \in [Storages -> Words]
        <5>1. ptr \in [Storages -> Words] /\ new \in [Threads -> Words]
          BY <1>0 DEF TypeOK
        <5>2. \/ ptr' = ptr
              \/ ptr' = [ptr EXCEPT ![call[t].st] = new[t]]
          BY <2>34 DEF CasExchange, Dropping
        <5> QED
          BY <5>1, <5>2, <3>1, WordFacts
      <4>2. seen' \in [Threads -> SUBSET Words]
        BY <2>34, <1>0, <3>1, StoredFacts, WordFacts DEF CasExchange, Dropping,
           TypeOK, loader, writer, heap, helping, user
      <4>3. old' \in [Threads -> Words]
        <5>1. old \in [Threads -> Words]
          BY <1>0 DEF TypeOK
        <5>2. \/ old' = old
              \/ old' = [old EXCEPT ![t] = held[t].ptr]
          BY <2>34 DEF CasExchange, Dropping, writer
        <5> QED
          BY <5>1, <5>2, <3>1, WordFacts, ProtectionFacts
      <4>4. new' \in [Threads -> Words]
        <5>1. new \in [Threads -> Words]
          BY <1>0 DEF TypeOK
        <5>2. \/ new' = new
              \/ new' = [new EXCEPT ![t] = NONE]
          BY <2>34 DEF CasExchange, Dropping, writer
        <5> QED
          BY <5>1, <5>2, <3>1, WordFacts
      <4>5. pc' \in [Threads -> PCs]
        <5>1. pc \in [Threads -> PCs]
          BY <1>0 DEF TypeOK
        <5>2. \/ pc' = [pc EXCEPT ![t] = "pay_inc"]
              \/ pc' = [pc EXCEPT ![t] = "drop_dec"]
              \/ pc' = [pc EXCEPT ![t] = "drop_pay"]
          BY <2>34 DEF CasExchange, Dropping
        <5> QED
          BY <5>1, <5>2, PCFacts
      <4>6. val' \in [Threads -> Words]
        BY <2>34, <1>0, <3>1, WordFacts, ProtectionFacts DEF CasExchange,
           Dropping, TypeOK, loader, writer, heap, helping, user
      <4>7. dref' \in [Threads -> DebtRefs \cup {NONE}]
        BY <2>34, <1>0, <3>1, ProtectionFacts DEF CasExchange, Dropping, TypeOK,
           loader, writer, heap, helping, user
      <4>8. held' \in [Threads -> Protections \cup {NONE}]
        BY <2>34, <1>0, <3>1, ProtectionFacts DEF CasExchange, Dropping, TypeOK,
           loader, writer, heap, helping, user
      <4> QED
        BY <4>1, <4>2, <4>3, <4>4, <4>5, <4>6, <4>7, <4>8, <2>34, <1>0 DEF
           CasExchange, TypeOK, heap, helping, user, loader, writer
    <3>3. Undisturbed(t)
      BY <2>34, <1>0, <3>1 DEF CasExchange, Dropping, TypeOK, Undisturbed, heap,
         helping, user, loader, writer
    <3>4. /\ pc'[t] \in {"pay_inc", "drop_dec", "drop_pay"} /\ call'[t] = call[t]
          /\ ret'[t] = ret[t] /\ node'[t] = node[t] /\ gen'[t] = gen[t]
          /\ env'[t] = env[t] /\ control'[t] = control[t]
      BY <2>34, <1>0, <3>1 DEF CasExchange, Dropping, TypeOK, heap, helping, user,
         loader, writer
    <3>5. Placed(t)'
      BY <2>34, <3>1, <3>4, Places, PCFacts, ConstantsOK DEF CasExchange, Placed,
         Housed, Walking, Published, Equipped, LoadPCs, GuardPCs, HelpPCs,
         InTransaction, HasEnvelope
    <3> QED BY <3>2, <3>3, <3>5, <1>0, FrameLocated
  <2>35. CASE CasDropNew(t)
    <3>1. TypeOK'
      BY <2>35, <1>0, PCFacts, CountFacts, FreedFacts, WordFacts, CallFacts DEF
         CasDropNew, DropRef, Return, TypeOK, heap, helping, user, loader,
         writer
    <3>2. Undisturbed(t)
      BY <2>35, <1>0 DEF CasDropNew, DropRef, Return, TypeOK, Undisturbed, heap,
         helping, user, loader, writer
    <3>3. /\ pc'[t] = "idle" /\ call'[t] = NoCall /\ ret'[t] = ret[t]
          /\ node'[t] = node[t] /\ gen'[t] = gen[t] /\ env'[t] = env[t]
          /\ control'[t] = control[t]
      BY <2>35, <1>0 DEF CasDropNew, DropRef, Return, TypeOK, heap, helping, user,
         loader, writer
    <3>4. Placed(t)'
      BY <2>35, <3>3, Places, PCFacts, ConstantsOK, CallFacts DEF CasDropNew,
         Placed, Housed, Walking, Published, Equipped, LoadPCs, GuardPCs,
         HelpPCs, InTransaction, HasEnvelope
    <3> QED BY <3>1, <3>2, <3>4, <1>0, FrameLocated
  <2> QED
    BY <1>8, <2>1, <2>2, <2>3, <2>4, <2>5, <2>6, <2>7, <2>8, <2>9, <2>10, <2>11,
       <2>12, <2>13, <2>14, <2>15, <2>16, <2>17, <2>18, <2>19, <2>20, <2>21,
       <2>22, <2>23, <2>24, <2>25, <2>26, <2>27, <2>28, <2>29, <2>30, <2>31,
       <2>32, <2>33, <2>34, <2>35 DEF Step, Load, Help, Write
<1>9. CASE UNCHANGED vars
  <2>1. TypeOK'
    BY <1>9, <1>0 DEF TypeOK, vars, heap, helping, user, loader, writer
  <2>2. Located'
    BY <1>9, <1>0 DEF Located, Placed, Housed, Walking, Published, Equipped, vars, heap,
                      helping, user, loader, writer
  <2> QED BY <2>1, <2>2
<1> QED
  BY <1>1, <1>2, <1>3, <1>4, <1>5, <1>6, <1>7, <1>8, <1>9 DEF Next, Call

(* Type correctness of the containers, the nodes and the threads: no step  *)
(* follows a debt reference, an envelope or a control word that was never  *)
(* set, for any number of threads, slots, objects and containers.          *)
THEOREM TypeCorrect == Spec => []TypeOK
<1>1. TypeInv => TypeOK
  BY DEF TypeInv
<1> QED
  BY InitTypeInv, NextTypeInv, <1>1, PTL DEF Spec
=============================================================================
