------------------------------- MODULE Hybrid -------------------------------
(***************************************************************************)
(* ArcSwapAny with the default (hybrid) strategy: the containers, the Arc  *)
(* reference counts, the debt slots of every node, the helping protocol,   *)
(* and the threads that run load, swap, compare_and_swap and the drops.    *)
(*                                                                         *)
(* One action is one access to shared memory; the code uses SeqCst for all *)
(* of them but the search for a free fast slot and a failed exchange.      *)
(* What a thread does with its own variables between two accesses belongs  *)
(* to the first one.  Every thread owns one node of the debt list for the  *)
(* whole behaviour (module DebtList is about how nodes are claimed and     *)
(* given back).                                                            *)
(***************************************************************************)
EXTENDS Integers, FiniteSets

CONSTANTS
  N,             \* threads, hence nodes; the list is N, N-1, ..., 1
  DEBT_SLOT_CNT, \* fast slots of a node
  USE_FAST,      \* Config::USE_FAST
  Ptrs,          \* addresses an Arc can be allocated at
  Null,          \* the pointer of None (Option<Arc>) or of an empty Weak
  Nullable,      \* whether the containers may hold it
  Storages,      \* ArcSwapAny instances
  InitPtrs,      \* what they may hold when the behaviour starts
  HandleIds,     \* guards or Arcs that one thread can receive at a time
  Ops,           \* Ops[t]: the calls thread t makes
  MaxCalls,      \* bound: calls that thread t makes, MaxCalls[t]
  GenMod,        \* generations before the counter wraps, 0: it never does
  NONE, IDLE     \* an empty debt slot or variable; the idle control word

Threads == 1..N
FastSlots == 1..DEBT_SLOT_CNT
HELPING == DEBT_SLOT_CNT + 1          \* the index of the helping slot
Slots == 1..HELPING
Handles == Threads \X HandleIds
Values == Ptrs \cup {Null}            \* what a container can hold
Words == Values \cup {NONE}
DebtRefs == Threads \X Slots          \* &'static Debt
Envelopes == Threads                  \* the Handover that each node brings

OpNames == {"new", "load", "load_full", "store", "swap", "compare_and_swap",
            "drop", "into_inner", "guard_drop", "guard_into_inner"}

(* The control word: IDLE, a generation, or a filled envelope. *)
Gen(g) == [tag |-> "GEN", gen |-> g]
Replacement(e) == [tag |-> "REPLACEMENT", env |-> e]
GenWords == [tag : {"GEN"}, gen : Nat]
ReplacementWords == [tag : {"REPLACEMENT"}, env : Envelopes]
Control == {IDLE} \cup GenWords \cup ReplacementWords
IsGen(c) == c # IDLE /\ c.tag = "GEN"
IsReplacement(c) == c # IDLE /\ c.tag = "REPLACEMENT"

(* A guard (HybridProtection), an Arc being one that owes nothing. *)
Protection(p, d) == [ptr |-> p, debt |-> d]
Protections == [ptr : Words, debt : DebtRefs \cup {NONE}]

ASSUME ConstantsOK ==
  /\ N \in Nat \ {0} /\ DEBT_SLOT_CNT \in Nat /\ USE_FAST \in BOOLEAN
  /\ Nullable \in BOOLEAN /\ InitPtrs \subseteq [Storages -> Words]
  /\ Ops \in [Threads -> SUBSET OpNames] /\ MaxCalls \in [Threads -> Nat] /\ GenMod \in Nat
  /\ Null \notin Ptrs /\ NONE \notin Ptrs /\ NONE # Null
  /\ NONE \notin Storages /\ NONE \notin Envelopes /\ NONE \notin DebtRefs
  /\ NONE \notin Protections /\ NONE \notin {"user", "cas", "help"}
  /\ IsFiniteSet(Storages) /\ IsFiniteSet(HandleIds)
  /\ IDLE \notin GenWords /\ IDLE \notin ReplacementWords

VARIABLES
  ptr,          \* ptr[s]: the pointer in container s, NONE: no such container
  cnt,          \* strong count of the object at each address, 0: free memory
  debt,         \* the debt slots of every node
  control, active_addr, space_offer, handover,   \* helping::Slots of a node
  guard,        \* guards and Arcs the user code holds
  seen,         \* history: what the container held since t's load began
  pc, call, calls,                         \* what each thread executes
  ret, val, dref, repl, env, gen,          \* variables of load
  new, old, node, i, ctl, held             \* variables of the writers

heap == <<cnt, seen>>
helping == <<control, active_addr, space_offer, handover>>
user == <<guard, call, calls>>
loader == <<ret, val, dref, repl, env, gen>>
writer == <<new, old, node, i, ctl, held>>
vars == <<ptr, heap, debt, helping, user, pc, loader, writer>>

NoCall == [op |-> "none", st |-> NONE, hnd |-> NONE, cur |-> NONE]
Calls == [op : OpNames, st : Storages \cup {NONE},
          hnd : HandleIds \cup {NONE}, cur : Words]

Init ==
  /\ ptr \in InitPtrs
  /\ cnt = [p \in Ptrs |-> Cardinality({s \in Storages : ptr[s] = p})]
  /\ debt = [n \in Threads |-> [s \in Slots |-> NONE]]
  /\ control = [n \in Threads |-> IDLE]
  /\ active_addr = [n \in Threads |-> NONE]
  /\ space_offer = [n \in Threads |-> n]
  /\ handover = [e \in Envelopes |-> NONE]
  /\ guard = [h \in Handles |-> NONE]
  /\ seen = [t \in Threads |-> {}]
  /\ pc = [t \in Threads |-> "idle"]
  /\ call = [t \in Threads |-> NoCall]
  /\ calls = [t \in Threads |-> 0]
  /\ ret = [t \in Threads |-> NONE]
  /\ val = [t \in Threads |-> NONE]
  /\ dref = [t \in Threads |-> NONE]
  /\ repl = [t \in Threads |-> NONE]
  /\ env = [t \in Threads |-> NONE]
  /\ gen = [t \in Threads |-> 0]
  /\ new = [t \in Threads |-> NONE]
  /\ old = [t \in Threads |-> NONE]
  /\ node = [t \in Threads |-> 0]
  /\ i = [t \in Threads |-> 0]
  /\ ctl = [t \in Threads |-> IDLE]
  /\ held = [t \in Threads |-> NONE]

----------------------------------------------------------------------------
(* Reference counts: RefCnt::inc and RefCnt::dec.  None and empty Weaks    *)
(* carry no count.                                                         *)

Inc(p) == IF p = Null THEN cnt ELSE [cnt EXCEPT ![p] = @ + 1]
Dec(p) == IF p = Null THEN cnt ELSE [cnt EXCEPT ![p] = @ - 1]

(* The history of the loads in progress: storing p into s adds it to the   *)
(* windows on s, freeing it ends the object, and so its windows, for good. *)
Stored(s, p) ==
  [t \in Threads |->
     IF seen[t] # {} /\ call[t].st = s THEN seen[t] \cup {p} ELSE seen[t]]
Freed(p, done) ==
  [t \in Threads |->
     IF t \in done THEN {}
     ELSE IF p \in Ptrs /\ Dec(p)[p] = 0 THEN seen[t] \ {p} ELSE seen[t]]

(* drop of a counted reference; the calls of the threads in done end here. *)
DropRef(p, done) == cnt' = Dec(p) /\ seen' = Freed(p, done)
TakeRef(p) == cnt' = Inc(p) /\ UNCHANGED seen

(* Debt::pay: compare_exchange of the slot d from p to NONE. *)
Owes(d, p) == debt[d[1]][d[2]] = p
Pay(d) == debt' = [debt EXCEPT ![d[1]][d[2]] = NONE]

(* The end of a call, with its result in the thread's handle. *)
Return(t, res) ==
  /\ pc' = [pc EXCEPT ![t] = "idle"]
  /\ guard' = IF res = NONE THEN guard
              ELSE [guard EXCEPT ![<<t, call[t].hnd>>] = res]
  /\ call' = [call EXCEPT ![t] = NoCall]

----------------------------------------------------------------------------
(* HybridStrategy::load.  It is run by load and load_full (ret = "user"),  *)
(* by compare_and_swap ("cas") and by a writer that makes a replacement    *)
(* for the reader it helps ("help").                                       *)

LoadEntry == IF USE_FAST THEN "attempt" ELSE "fallback"

(* Does the caller turn the guard into an Arc right away? *)
WantsInner(t) ==
  ret[t] = "help" \/ call[t].op \in {"load_full", "guard_into_inner"}

(* The load of thread t produced the guard [p, d]. *)
Loaded(t, p, d) ==
  \/ /\ d # NONE /\ WantsInner(t)
     /\ pc' = [pc EXCEPT ![t] = "inner_inc"]
     /\ val' = [val EXCEPT ![t] = p]
     /\ dref' = [dref EXCEPT ![t] = d]
     /\ UNCHANGED <<guard, call, ret, repl, held>>
  \/ /\ d = NONE \/ ~WantsInner(t)
     /\ val' = [val EXCEPT ![t] = NONE]
     /\ dref' = [dref EXCEPT ![t] = NONE]
     /\ ret' = [ret EXCEPT ![t] = NONE]
     /\ \/ /\ ret[t] = "user"
           /\ Return(t, Protection(p, d))
           /\ repl' = [repl EXCEPT ![t] = NONE]
           /\ UNCHANGED held
        \/ /\ ret[t] = "help"
           /\ pc' = [pc EXCEPT ![t] = "help_their"]
           /\ repl' = [repl EXCEPT ![t] = p]
           /\ UNCHANGED <<guard, call, held>>
        \/ /\ ret[t] = "cas"
           /\ pc' = [pc EXCEPT ![t] = "cas_check"]
           /\ held' = [held EXCEPT ![t] = Protection(p, d)]
           /\ repl' = [repl EXCEPT ![t] = NONE]
           /\ UNCHANGED <<guard, call>>

(* The threads whose window closes when t's load produces a guard owing d. *)
Closing(t, d) ==
  IF d = NONE \/ ~WantsInner(t) THEN {t} ELSE {}
Closed(t, d) == [u \in Threads |-> IF u \in Closing(t, d) THEN {} ELSE seen[u]]

(* attempt: the first read of the container. *)
AttemptLoad(t) ==
  /\ pc[t] = "attempt"
  /\ val' = [val EXCEPT ![t] = ptr[call[t].st]]
  /\ pc' = [pc EXCEPT ![t] = "new_fast"]
  /\ UNCHANGED <<ptr, heap, debt, helping, user, ret, dref, repl, env, gen, writer>>

(* fast::Slots::get_debt.  The rotating offset only decides which of the   *)
(* free slots is taken; with none free the load falls back.                *)
NewFast(t) ==
  /\ pc[t] = "new_fast"
  /\ \/ \E s \in FastSlots :
          /\ debt[t][s] = NONE
          /\ debt' = [debt EXCEPT ![t][s] = val[t]]
          /\ dref' = [dref EXCEPT ![t] = <<t, s>>]
          /\ pc' = [pc EXCEPT ![t] = "attempt_confirm"]
          /\ UNCHANGED val
     \/ /\ \A s \in FastSlots : debt[t][s] # NONE
        /\ pc' = [pc EXCEPT ![t] = "fallback"]
        /\ val' = [val EXCEPT ![t] = NONE]
        /\ UNCHANGED <<debt, dref>>
  /\ UNCHANGED <<ptr, heap, helping, user, ret, repl, env, gen, writer>>

(* Mutant: the debt is trusted without the second read. *)
AttemptConfirm_Trusts(t) ==
  /\ pc[t] = "attempt_confirm"
  /\ Loaded(t, val[t], dref[t])
  /\ seen' = Closed(t, dref[t])
  /\ UNCHANGED <<ptr, cnt, debt, helping, calls, env, gen, new, old, node, i, ctl>>

(* attempt: the second read decides whether the debt is valid. *)
AttemptConfirm(t) ==
  /\ pc[t] = "attempt_confirm"
  /\ \/ /\ ptr[call[t].st] = val[t]
        /\ Loaded(t, val[t], dref[t])
        /\ seen' = Closed(t, dref[t])
     \/ /\ ptr[call[t].st] # val[t]
        /\ pc' = [pc EXCEPT ![t] = "attempt_pay"]
        /\ UNCHANGED <<seen, guard, call, ret, val, dref, repl, held>>
  /\ UNCHANGED <<ptr, cnt, debt, helping, calls, env, gen, new, old, node, i, ctl>>

(* attempt: give the debt back, or find out that a writer has paid it. *)
AttemptPay(t) ==
  /\ pc[t] = "attempt_pay"
  /\ \/ /\ Owes(dref[t], val[t])
        /\ Pay(dref[t])
        /\ pc' = [pc EXCEPT ![t] = "fallback"]
        /\ val' = [val EXCEPT ![t] = NONE]
        /\ dref' = [dref EXCEPT ![t] = NONE]
        /\ UNCHANGED <<seen, guard, call, ret, repl, held>>
     \/ /\ ~Owes(dref[t], val[t])
        /\ Loaded(t, val[t], NONE)
        /\ seen' = Closed(t, NONE)
        /\ UNCHANGED debt
  /\ UNCHANGED <<ptr, cnt, helping, calls, env, gen, new, old, node, i, ctl>>

(* The generation counter.  It has 62 (or 30) bits and the wrap, which     *)
(* costs the thread its node, is part of module DebtList.                  *)
NextGen(g) == IF g + 1 = GenMod THEN 0 ELSE g + 1

(* Mutant: the address of the container is not published. *)
GetDebtAddr_Silent(t) ==
  /\ pc[t] = "fallback"
  /\ gen' = [gen EXCEPT ![t] = NextGen(@)]
  /\ pc' = [pc EXCEPT ![t] = "get_debt"]
  /\ UNCHANGED <<ptr, heap, debt, helping, user, ret, val, dref, repl, env, writer>>

(* fallback: helping::Slots::get_debt publishes the address ... *)
GetDebtAddr(t) ==
  /\ pc[t] = "fallback"
  /\ gen' = [gen EXCEPT ![t] = NextGen(@)]
  /\ active_addr' = [active_addr EXCEPT ![t] = call[t].st]
  /\ pc' = [pc EXCEPT ![t] = "get_debt"]
  /\ UNCHANGED <<ptr, heap, debt, control, space_offer, handover, user, ret,
                 val, dref, repl, env, writer>>

(* ... and then the generation. *)
GetDebtControl(t) ==
  /\ pc[t] = "get_debt"
  /\ control' = [control EXCEPT ![t] = Gen(gen[t])]
  /\ pc' = [pc EXCEPT ![t] = "candidate"]
  /\ UNCHANGED <<ptr, heap, debt, active_addr, space_offer, handover, user,
                 loader, writer>>

(* fallback: read the container. *)
Candidate(t) ==
  /\ pc[t] = "candidate"
  /\ val' = [val EXCEPT ![t] = ptr[call[t].st]]
  /\ pc' = [pc EXCEPT ![t] = "confirm_slot"]
  /\ UNCHANGED <<ptr, heap, debt, helping, user, ret, dref, repl, env, gen, writer>>

(* confirm: put the candidate into the helping slot ... *)
ConfirmSlot(t) ==
  /\ pc[t] = "confirm_slot"
  /\ debt' = [debt EXCEPT ![t][HELPING] = val[t]]
  /\ dref' = [dref EXCEPT ![t] = <<t, HELPING>>]
  /\ pc' = [pc EXCEPT ![t] = "confirm_control"]
  /\ UNCHANGED <<ptr, heap, helping, user, ret, val, repl, env, gen, writer>>

(* Mutant: waits until it has its generation back. *)
ConfirmControl_Spins(t) ==
  /\ pc[t] = "confirm_control"
  /\ control[t] = Gen(gen[t])
  /\ control' = [control EXCEPT ![t] = IDLE]
  /\ pc' = [pc EXCEPT ![t] = "inner_inc"]
  /\ UNCHANGED <<ptr, heap, debt, active_addr, space_offer, handover, user,
                 loader, writer>>

(* ... and see whether the generation is still there. *)
ConfirmControl(t) ==
  /\ pc[t] = "confirm_control"
  /\ control' = [control EXCEPT ![t] = IDLE]
  /\ \/ /\ control[t] = Gen(gen[t])
        /\ pc' = [pc EXCEPT ![t] = "inner_inc"]
        /\ UNCHANGED env
     \/ /\ control[t] # Gen(gen[t])
        /\ env' = [env EXCEPT ![t] = control[t].env]
        /\ pc' = [pc EXCEPT ![t] = "confirm_envelope"]
  /\ UNCHANGED <<ptr, heap, debt, active_addr, space_offer, handover, user,
                 ret, val, dref, repl, gen, writer>>

(* confirm, helped: open the envelope ... *)
ConfirmEnvelope(t) ==
  /\ pc[t] = "confirm_envelope"
  /\ repl' = [repl EXCEPT ![t] = handover[env[t]]]
  /\ pc' = [pc EXCEPT ![t] = "confirm_offer"]
  /\ UNCHANGED <<ptr, heap, debt, helping, user, ret, val, dref, env, gen, writer>>

(* ... and keep it for the next time. *)
ConfirmOffer(t) ==
  /\ pc[t] = "confirm_offer"
  /\ space_offer' = [space_offer EXCEPT ![t] = env[t]]
  /\ env' = [env EXCEPT ![t] = NONE]
  /\ pc' = [pc EXCEPT ![t] = "unused_pay"]
  /\ UNCHANGED <<ptr, heap, debt, control, active_addr, handover, user, ret,
                 val, dref, repl, gen, writer>>

(* Mutant: the unused debt is left where it is. *)
UnusedPay_Forgets(t) ==
  /\ pc[t] = "unused_pay"
  /\ Loaded(t, repl[t], NONE)
  /\ seen' = Closed(t, NONE)
  /\ UNCHANGED <<ptr, cnt, debt, helping, calls, env, gen, new, old, node, i, ctl>>

(* fallback, helped: return the unused debt ... *)
UnusedPay(t) ==
  /\ pc[t] = "unused_pay"
  /\ \/ /\ Owes(dref[t], val[t])
        /\ Pay(dref[t])
        /\ Loaded(t, repl[t], NONE)
        /\ seen' = Closed(t, NONE)
     \/ /\ ~Owes(dref[t], val[t])
        /\ pc' = [pc EXCEPT ![t] = "unused_dec"]
        /\ UNCHANGED <<debt, seen, guard, call, ret, val, dref, repl, held>>
  /\ UNCHANGED <<ptr, cnt, helping, calls, env, gen, new, old, node, i, ctl>>

(* ... or the reference that somebody paid for it. *)
UnusedDec(t) ==
  /\ pc[t] = "unused_dec"
  /\ DropRef(val[t], Closing(t, NONE))
  /\ Loaded(t, repl[t], NONE)
  /\ UNCHANGED <<ptr, debt, helping, calls, env, gen, new, old, node, i, ctl>>

(* HybridProtection::into_inner of a guard with a debt: first take a       *)
(* reference of our own, then return the debt or the reference paid for it.*)
InnerInc(t) ==
  /\ pc[t] = "inner_inc"
  /\ TakeRef(val[t])
  /\ pc' = [pc EXCEPT ![t] = "inner_pay"]
  /\ UNCHANGED <<ptr, debt, helping, user, loader, writer>>

InnerPay(t) ==
  /\ pc[t] = "inner_pay"
  /\ \/ /\ Owes(dref[t], val[t])
        /\ Pay(dref[t])
        /\ Loaded(t, val[t], NONE)
        /\ seen' = Closed(t, NONE)
     \/ /\ ~Owes(dref[t], val[t])
        /\ pc' = [pc EXCEPT ![t] = "inner_dec"]
        /\ UNCHANGED <<debt, seen, guard, call, ret, val, dref, repl, held>>
  /\ UNCHANGED <<ptr, cnt, helping, calls, env, gen, new, old, node, i, ctl>>

InnerDec(t) ==
  /\ pc[t] = "inner_dec"
  /\ DropRef(val[t], Closing(t, NONE))
  /\ Loaded(t, val[t], NONE)
  /\ UNCHANGED <<ptr, debt, helping, calls, env, gen, new, old, node, i, ctl>>

----------------------------------------------------------------------------
(* HybridProtection::drop: the end of a guard, dropped by the user code or *)
(* by the retry loop of compare_and_swap.                                  *)

Dropping(t, g) ==
  /\ val' = [val EXCEPT ![t] = g.ptr]
  /\ dref' = [dref EXCEPT ![t] = g.debt]
  /\ pc' = [pc EXCEPT ![t] = IF g.debt = NONE THEN "drop_dec" ELSE "drop_pay"]

(* What follows a drop: compare_and_swap loads again. *)
Dropped(t) ==
  /\ val' = [val EXCEPT ![t] = NONE]
  /\ dref' = [dref EXCEPT ![t] = NONE]
  /\ \/ /\ call[t].op = "compare_and_swap"
        /\ pc' = [pc EXCEPT ![t] = LoadEntry]
        /\ ret' = [ret EXCEPT ![t] = "cas"]
        /\ UNCHANGED <<guard, call>>
     \/ /\ call[t].op = "guard_drop"
        /\ Return(t, NONE)
        /\ UNCHANGED ret

(* The history of a compare_and_swap that starts its next round. *)
Reopened(t, w) ==
  IF call[t].op = "compare_and_swap"
  THEN [w EXCEPT ![t] = {ptr[call[t].st]}] ELSE w

(* Mutant: a guard whose debt was paid is dropped without its reference. *)
DropPay_Forgets(t) ==
  /\ pc[t] = "drop_pay"
  /\ debt' = IF Owes(dref[t], val[t])
             THEN [debt EXCEPT ![dref[t][1]][dref[t][2]] = NONE] ELSE debt
  /\ Dropped(t)
  /\ seen' = Reopened(t, seen)
  /\ UNCHANGED <<ptr, cnt, helping, calls, repl, env, gen, writer>>

DropPay(t) ==
  /\ pc[t] = "drop_pay"
  /\ \/ /\ Owes(dref[t], val[t])
        /\ Pay(dref[t])
        /\ Dropped(t)
        /\ seen' = Reopened(t, seen)
     \/ /\ ~Owes(dref[t], val[t])
        /\ pc' = [pc EXCEPT ![t] = "drop_dec"]
        /\ UNCHANGED <<debt, seen, guard, call, ret, val, dref>>
  /\ UNCHANGED <<ptr, cnt, helping, calls, repl, env, gen, writer>>

DropDec(t) ==
  /\ pc[t] = "drop_dec"
  /\ cnt' = Dec(val[t])
  /\ seen' = Reopened(t, Freed(val[t], {}))
  /\ Dropped(t)
  /\ UNCHANGED <<ptr, debt, helping, calls, repl, env, gen, writer>>

----------------------------------------------------------------------------
(* The writers.  Debt::pay_all walks the list of nodes, from the newest:   *)
(* at every node it first helps the reader, if it loads from the same      *)
(* container, and then pays every slot that owes the old pointer.          *)

(* ArcSwapAny::swap: the exchange itself. *)
Swap(t) ==
  /\ pc[t] = "swap"
  /\ ptr' = [ptr EXCEPT ![call[t].st] = new[t]]
  /\ seen' = Stored(call[t].st, new[t])
  /\ old' = [old EXCEPT ![t] = ptr[call[t].st]]
  /\ new' = [new EXCEPT ![t] = NONE]
  /\ pc' = [pc EXCEPT ![t] = "pay_inc"]
  /\ UNCHANGED <<cnt, debt, helping, user, loader, node, i, ctl, held>>

(* pay_all: pre-pay one reference. *)
PayInc(t) ==
  /\ pc[t] = "pay_inc"
  /\ TakeRef(old[t])
  /\ node' = [node EXCEPT ![t] = N]
  /\ pc' = [pc EXCEPT ![t] = "help_control"]
  /\ UNCHANGED <<ptr, debt, helping, user, loader, new, old, i, ctl, held>>

(* The head of help's loop, with c in the variable control. *)
HelpLoop(t, c) ==
  \/ /\ IsGen(c)
     /\ ctl' = [ctl EXCEPT ![t] = c]
     /\ pc' = [pc EXCEPT ![t] = "help_addr"]
     /\ UNCHANGED i
  \/ /\ ~IsGen(c)
     /\ ctl' = [ctl EXCEPT ![t] = IDLE]
     /\ pc' = [pc EXCEPT ![t] = "pay_slot"]
     /\ i' = [i EXCEPT ![t] = 1]

HelpControl(t) ==
  /\ pc[t] = "help_control"
  /\ HelpLoop(t, control[node[t]])
  /\ UNCHANGED <<ptr, heap, debt, helping, user, loader, new, old, node, held>>

(* Mutant: every reader is helped, whatever it loads from. *)
HelpAddr_Any(t) ==
  /\ pc[t] = "help_addr"
  /\ pc' = [pc EXCEPT ![t] = LoadEntry]
  /\ ret' = [ret EXCEPT ![t] = "help"]
  /\ seen' = [seen EXCEPT ![t] = {ptr[call[t].st]}]
  /\ UNCHANGED <<ptr, cnt, debt, helping, user, val, dref, repl, env, gen, writer>>

(* Which container does that reader load from?  When it is this one, load  *)
(* a replacement for it: a full load that ends in an Arc.                  *)
HelpAddr(t) ==
  /\ pc[t] = "help_addr"
  /\ \/ /\ active_addr[node[t]] # call[t].st
        /\ pc' = [pc EXCEPT ![t] = "help_recheck"]
        /\ UNCHANGED <<ret, seen>>
     \/ /\ active_addr[node[t]] = call[t].st
        /\ pc' = [pc EXCEPT ![t] = LoadEntry]
        /\ ret' = [ret EXCEPT ![t] = "help"]
        /\ seen' = [seen EXCEPT ![t] = {ptr[call[t].st]}]
  /\ UNCHANGED <<ptr, cnt, debt, helping, user, val, dref, repl, env, gen, writer>>

HelpRecheck(t) ==
  /\ pc[t] = "help_recheck"
  /\ HelpLoop(t, IF control[node[t]] = ctl[t] THEN IDLE ELSE control[node[t]])
  /\ UNCHANGED <<ptr, heap, debt, helping, user, loader, new, old, node, held>>

(* Read the envelope that the reader offers ... *)
HelpTheir(t) ==
  /\ pc[t] = "help_their"
  /\ env' = [env EXCEPT ![t] = space_offer[node[t]]]
  /\ pc' = [pc EXCEPT ![t] = "help_store"]
  /\ UNCHANGED <<ptr, heap, debt, helping, user, ret, val, dref, repl, gen, writer>>

(* ... put the replacement into ours ... *)
HelpStore(t) ==
  /\ pc[t] = "help_store"
  /\ handover' = [handover EXCEPT ![space_offer[t]] = repl[t]]
  /\ pc' = [pc EXCEPT ![t] = "help_cas"]
  /\ UNCHANGED <<ptr, heap, debt, control, active_addr, space_offer, user, loader, writer>>

HelpSent(t) ==
  /\ control' = [control EXCEPT ![node[t]] = Replacement(space_offer[t])]
  /\ repl' = [repl EXCEPT ![t] = NONE]
  /\ ctl' = [ctl EXCEPT ![t] = IDLE]
  /\ pc' = [pc EXCEPT ![t] = "help_took"]
  /\ UNCHANGED env

HelpFailed(t, c) ==
  /\ ctl' = [ctl EXCEPT ![t] = c]
  /\ env' = [env EXCEPT ![t] = NONE]
  /\ pc' = [pc EXCEPT ![t] = "help_drop"]
  /\ UNCHANGED <<control, repl>>

(* Mutant: any generation will do. *)
HelpCas_AnyGen(t) ==
  /\ pc[t] = "help_cas"
  /\ \/ IsGen(control[node[t]]) /\ HelpSent(t)
     \/ ~IsGen(control[node[t]]) /\ HelpFailed(t, control[node[t]])
  /\ UNCHANGED <<ptr, heap, debt, active_addr, space_offer, handover, user,
                 ret, val, dref, gen, new, old, node, i, held>>

(* ... send it, if the reader is still in the same transaction ... *)
HelpCas(t) ==
  /\ pc[t] = "help_cas"
  /\ \/ control[node[t]] = ctl[t] /\ HelpSent(t)
     \/ control[node[t]] # ctl[t] /\ HelpFailed(t, control[node[t]])
  /\ UNCHANGED <<ptr, heap, debt, active_addr, space_offer, handover, user,
                 ret, val, dref, gen, new, old, node, i, held>>

(* Mutant: the envelopes are not exchanged. *)
HelpTook_Keeps(t) ==
  /\ pc[t] = "help_took"
  /\ env' = [env EXCEPT ![t] = NONE]
  /\ i' = [i EXCEPT ![t] = 1]
  /\ pc' = [pc EXCEPT ![t] = "pay_slot"]
  /\ UNCHANGED <<ptr, heap, debt, helping, user, ret,
                 val, dref, repl, gen, new, old, node, ctl, held>>

(* ... and keep the reader's envelope in return ... *)
HelpTook(t) ==
  /\ pc[t] = "help_took"
  /\ space_offer' = [space_offer EXCEPT ![t] = env[t]]
  /\ env' = [env EXCEPT ![t] = NONE]
  /\ i' = [i EXCEPT ![t] = 1]
  /\ pc' = [pc EXCEPT ![t] = "pay_slot"]
  /\ UNCHANGED <<ptr, heap, debt, control, active_addr, handover, user, ret,
                 val, dref, repl, gen, new, old, node, ctl, held>>

(* ... or drop the replacement and look at the reader again. *)
HelpDrop(t) ==
  /\ pc[t] = "help_drop"
  /\ DropRef(repl[t], {})
  /\ repl' = [repl EXCEPT ![t] = NONE]
  /\ HelpLoop(t, ctl[t])
  /\ UNCHANGED <<ptr, debt, helping, user, ret, val, dref, env, gen, new, old, node, held>>

(* Mutant: one slot too many. *)
NextSlot_OffByOne(t) ==
  \/ /\ i[t] <= HELPING
     /\ i' = [i EXCEPT ![t] = @ + 1]
     /\ pc' = [pc EXCEPT ![t] = "pay_slot"]
     /\ UNCHANGED node
  \/ /\ i[t] > HELPING
     /\ i' = [i EXCEPT ![t] = 0]
     /\ node' = [node EXCEPT ![t] = @ - 1]
     /\ pc' = [pc EXCEPT ![t] = IF node[t] = 1 THEN "pay_drop" ELSE "help_control"]

(* The next slot of the node, the next node, or the end of the list. *)
NextSlot(t) ==
  \/ /\ i[t] < HELPING
     /\ i' = [i EXCEPT ![t] = @ + 1]
     /\ pc' = [pc EXCEPT ![t] = "pay_slot"]
     /\ UNCHANGED node
  \/ /\ i[t] = HELPING
     /\ i' = [i EXCEPT ![t] = 0]
     /\ node' = [node EXCEPT ![t] = @ - 1]
     /\ pc' = [pc EXCEPT ![t] = IF node[t] = 1 THEN "pay_drop" ELSE "help_control"]

(* Mutant: waits until the reader has paid. *)
PaySlot_Waits(t) ==
  /\ pc[t] = "pay_slot"
  /\ ~Owes(<<node[t], i[t]>>, old[t])
  /\ NextSlot(t)
  /\ UNCHANGED <<ptr, heap, debt, helping, user, loader, new, old, ctl, held>>

PaySlot(t) ==
  /\ pc[t] = "pay_slot"
  /\ \/ /\ Owes(<<node[t], i[t]>>, old[t])
        /\ Pay(<<node[t], i[t]>>)
        /\ pc' = [pc EXCEPT ![t] = "pay_more"]
        /\ UNCHANGED <<node, i>>
     \/ /\ ~Owes(<<node[t], i[t]>>, old[t])
        /\ NextSlot(t)
        /\ UNCHANGED debt
  /\ UNCHANGED <<ptr, heap, helping, user, loader, new, old, ctl, held>>

(* The pre-paid reference went into the slot: pre-pay the next one. *)
PayMore(t) ==
  /\ pc[t] = "pay_more"
  /\ TakeRef(old[t])
  /\ NextSlot(t)
  /\ UNCHANGED <<ptr, debt, helping, user, loader, new, old, ctl, held>>

(* pay_all drops the reference that it pre-paid and did not need ... *)
PayDrop(t) ==
  /\ pc[t] = "pay_drop"
  /\ DropRef(old[t], {})
  /\ \/ /\ call[t].op \in {"swap", "into_inner"}
        /\ Return(t, Protection(old[t], NONE))
        /\ old' = [old EXCEPT ![t] = NONE]
     \/ /\ call[t].op \notin {"swap", "into_inner"}
        /\ pc' = [pc EXCEPT ![t] = "release"]
        /\ UNCHANGED <<guard, call, old>>
  /\ UNCHANGED <<ptr, debt, helping, calls, loader, new, node, i, ctl, held>>

(* ... and store, drop and compare_and_swap the one from the container.    *)
Release(t) ==
  /\ pc[t] = "release"
  /\ DropRef(old[t], {})
  /\ old' = [old EXCEPT ![t] = NONE]
  /\ Return(t, held[t])
  /\ held' = [held EXCEPT ![t] = NONE]
  /\ UNCHANGED <<ptr, debt, helping, calls, loader, new, node, i, ctl>>

----------------------------------------------------------------------------
(* HybridStrategy::compare_and_swap, after the load in its loop. *)

CasCheck(t) ==
  /\ pc[t] = "cas_check"
  /\ pc' = [pc EXCEPT ![t] = IF held[t].ptr = call[t].cur
                             THEN "cas_exchange" ELSE "cas_drop_new"]
  /\ UNCHANGED <<ptr, heap, debt, helping, user, loader, writer>>

(* compare_exchange_weak may also fail for no reason. *)
CasExchange(t) ==
  /\ pc[t] = "cas_exchange"
  /\ \/ /\ ptr[call[t].st] = call[t].cur
        /\ ptr' = [ptr EXCEPT ![call[t].st] = new[t]]
        /\ seen' = Stored(call[t].st, new[t])
        /\ old' = [old EXCEPT ![t] = held[t].ptr]
        /\ new' = [new EXCEPT ![t] = NONE]
        /\ pc' = [pc EXCEPT ![t] = "pay_inc"]
        /\ UNCHANGED <<val, dref, held>>
     \/ /\ Dropping(t, held[t])
        /\ held' = [held EXCEPT ![t] = NONE]
        /\ UNCHANGED <<ptr, seen, old, new>>
  /\ UNCHANGED <<cnt, debt, helping, user, ret, repl, env, gen, node, i, ctl>>

(* Mutant: the value that did not go in is forgotten. *)
CasDropNew_Leaks(t) ==
  /\ pc[t] = "cas_drop_new"
  /\ new' = [new EXCEPT ![t] = NONE]
  /\ Return(t, held[t])
  /\ held' = [held EXCEPT ![t] = NONE]
  /\ UNCHANGED <<ptr, heap, debt, helping, calls, loader, old, node, i, ctl>>

(* The value that did not go in is dropped on return. *)
CasDropNew(t) ==
  /\ pc[t] = "cas_drop_new"
  /\ DropRef(new[t], {})
  /\ new' = [new EXCEPT ![t] = NONE]
  /\ Return(t, held[t])
  /\ held' = [held EXCEPT ![t] = NONE]
  /\ UNCHANGED <<ptr, debt, helping, calls, loader, old, node, i, ctl>>

----------------------------------------------------------------------------
(* The calls of the user code.  h is a guard or an Arc it holds anywhere:  *)
(* guards may be sent to another thread and dropped there.                 *)

Begin(t, op, s, k, c) ==
  /\ pc[t] = "idle" /\ calls[t] < MaxCalls[t] /\ op \in Ops[t]
  /\ calls' = [calls EXCEPT ![t] = @ + 1]
  /\ call' = [call EXCEPT ![t] = [op |-> op, st |-> s, hnd |-> k, cur |-> c]]

Live(s) == ptr[s] # NONE
FreeHandles(t) == {k \in HandleIds : guard[<<t, k>>] = NONE}

(* A new Arc, None, or a clone of something the user code holds. *)
UserValues ==
  {p \in Ptrs : cnt[p] = 0} \cup (IF Nullable THEN {Null} ELSE {})
    \cup {guard[h].ptr : h \in {g \in Handles : guard[g] # NONE}}

CallLoad(t, op, s, k) ==
  /\ op \in {"load", "load_full"} /\ Live(s) /\ k \in FreeHandles(t)
  /\ Begin(t, op, s, k, NONE)
  /\ ret' = [ret EXCEPT ![t] = "user"]
  /\ seen' = [seen EXCEPT ![t] = {ptr[s]}]
  /\ pc' = [pc EXCEPT ![t] = LoadEntry]
  /\ UNCHANGED <<ptr, cnt, debt, helping, guard, val, dref, repl, env, gen, writer>>

(* store drops what swap returns. *)
CallSwap(t, op, s, k, p) ==
  /\ Live(s)
  /\ \/ op = "store" /\ k = NONE
     \/ op = "swap" /\ k \in FreeHandles(t)
  /\ Begin(t, op, s, k, NONE)
  /\ TakeRef(p)
  /\ new' = [new EXCEPT ![t] = p]
  /\ pc' = [pc EXCEPT ![t] = "swap"]
  /\ UNCHANGED <<ptr, debt, helping, guard, loader, old, node, i, ctl, held>>

CallCas(t, s, k, c, p) ==
  /\ Live(s) /\ k \in FreeHandles(t)
  /\ Begin(t, "compare_and_swap", s, k, c)
  /\ cnt' = Inc(p)
  /\ new' = [new EXCEPT ![t] = p]
  /\ ret' = [ret EXCEPT ![t] = "cas"]
  /\ seen' = [seen EXCEPT ![t] = {ptr[s]}]
  /\ pc' = [pc EXCEPT ![t] = LoadEntry]
  /\ UNCHANGED <<ptr, debt, helping, guard, val, dref, repl, env, gen,
                 old, node, i, ctl, held>>

(* with_strategy: nobody else knows the container yet. *)
CallNew(t, s, p) ==
  /\ pc[t] = "idle" /\ calls[t] < MaxCalls[t] /\ "new" \in Ops[t]
  /\ ~Live(s) /\ \A u \in Threads : call[u].st # s
  /\ calls' = [calls EXCEPT ![t] = @ + 1]
  /\ ptr' = [ptr EXCEPT ![s] = p]
  /\ TakeRef(p)
  /\ UNCHANGED <<debt, helping, guard, call, pc, loader, writer>>

(* Mutant: no wait_for_readers before the reference is released. *)
CallDrop_NoWait(t, op, s, k) ==
  /\ Live(s) /\ \A u \in Threads : call[u].st # s
  /\ op = "drop" /\ k = NONE
  /\ Begin(t, op, s, k, NONE)
  /\ old' = [old EXCEPT ![t] = ptr[s]]
  /\ ptr' = [ptr EXCEPT ![s] = NONE]
  /\ pc' = [pc EXCEPT ![t] = "release"]
  /\ UNCHANGED <<heap, debt, helping, guard, loader, new, node, i, ctl, held>>

(* Drop and into_inner own the container: no call on it is in progress and *)
(* none starts (ptr[s] is the stored reference; it moves to old).          *)
CallDrop(t, op, s, k) ==
  /\ Live(s) /\ \A u \in Threads : call[u].st # s
  /\ \/ op = "drop" /\ k = NONE
     \/ op = "into_inner" /\ k \in FreeHandles(t)
  /\ Begin(t, op, s, k, NONE)
  /\ old' = [old EXCEPT ![t] = ptr[s]]
  /\ ptr' = [ptr EXCEPT ![s] = NONE]
  /\ pc' = [pc EXCEPT ![t] = "pay_inc"]
  /\ UNCHANGED <<heap, debt, helping, guard, loader, new, node, i, ctl, held>>

CallGuardDrop(t, h) ==
  /\ guard[h] # NONE
  /\ Begin(t, "guard_drop", NONE, NONE, NONE)
  /\ Dropping(t, guard[h])
  /\ guard' = [guard EXCEPT ![h] = NONE]
  /\ UNCHANGED <<ptr, heap, debt, helping, ret, repl, env, gen, writer>>

(* Guard::into_inner; without a debt it changes nothing. *)
CallGuardIntoInner(t, h, k) ==
  /\ guard[h] # NONE /\ guard[h].debt # NONE
  /\ k \in FreeHandles(t) \/ h = <<t, k>>
  /\ Begin(t, "guard_into_inner", NONE, k, NONE)
  /\ val' = [val EXCEPT ![t] = guard[h].ptr]
  /\ dref' = [dref EXCEPT ![t] = guard[h].debt]
  /\ ret' = [ret EXCEPT ![t] = "user"]
  /\ guard' = [guard EXCEPT ![h] = NONE]
  /\ pc' = [pc EXCEPT ![t] = "inner_inc"]
  /\ UNCHANGED <<ptr, heap, debt, helping, repl, env, gen, writer>>

----------------------------------------------------------------------------
Call(t) ==
  \/ \E op \in Ops[t], s \in Storages, k \in HandleIds \cup {NONE} :
       \/ CallLoad(t, op, s, k)
       \/ CallDrop(t, op, s, k)
       \/ \E p \in UserValues : CallSwap(t, op, s, k, p)
  \/ \E s \in Storages, p \in UserValues :
       \/ CallNew(t, s, p)
       \/ \E k \in HandleIds, c \in Values : CallCas(t, s, k, c, p)
  \/ \E h \in Handles :
       \/ CallGuardDrop(t, h)
       \/ \E k \in HandleIds : CallGuardIntoInner(t, h, k)

Load(t) ==
  \/ AttemptLoad(t) \/ NewFast(t) \/ AttemptConfirm(t) \/ AttemptPay(t)
  \/ GetDebtAddr(t) \/ GetDebtControl(t) \/ Candidate(t)
  \/ ConfirmSlot(t) \/ ConfirmControl(t) \/ ConfirmEnvelope(t)
  \/ ConfirmOffer(t) \/ UnusedPay(t) \/ UnusedDec(t)
  \/ InnerInc(t) \/ InnerPay(t) \/ InnerDec(t)

Help(t) ==
  \/ HelpControl(t) \/ HelpAddr(t) \/ HelpRecheck(t) \/ HelpTheir(t)
  \/ HelpStore(t) \/ HelpCas(t) \/ HelpTook(t) \/ HelpDrop(t)

Write(t) ==
  \/ Swap(t) \/ CasCheck(t) \/ CasExchange(t) \/ CasDropNew(t)
  \/ PayInc(t) \/ Help(t) \/ PaySlot(t) \/ PayMore(t) \/ PayDrop(t)
  \/ Release(t)

(* A step of a call in progress. *)
Step(t) == Load(t) \/ DropPay(t) \/ DropDec(t) \/ Write(t)

Next == \E t \in Threads : Call(t) \/ Step(t)

Spec == Init /\ [][Next]_vars

----------------------------------------------------------------------------
(* Properties. *)

PCs == {"idle", "attempt", "new_fast", "attempt_confirm", "attempt_pay",
        "fallback", "get_debt", "candidate", "confirm_slot",
        "confirm_control", "confirm_envelope", "confirm_offer", "unused_pay",
        "unused_dec", "inner_inc", "inner_pay", "inner_dec", "drop_pay",
        "drop_dec", "swap", "cas_check", "cas_exchange", "cas_drop_new",
        "pay_inc", "help_control", "help_addr", "help_recheck", "help_their",
        "help_store", "help_cas", "help_took", "help_drop", "pay_slot",
        "pay_more", "pay_drop", "release"}

(* Type invariant of the containers, the nodes and the threads. *)
TypeOK ==
  /\ ptr \in [Storages -> Words]
  /\ cnt \in [Ptrs -> Int]
  /\ debt \in [Threads -> [Slots -> Words]]
  /\ control \in [Threads -> Control]
  /\ active_addr \in [Threads -> Storages \cup {NONE}]
  /\ space_offer \in [Threads -> Envelopes]
  /\ handover \in [Envelopes -> Words]
  /\ guard \in [Handles -> Protections \cup {NONE}]
  /\ seen \in [Threads -> SUBSET Words]
  /\ pc \in [Threads -> PCs]
  /\ call \in [Threads -> Calls \cup {NoCall}]
  /\ calls \in [Threads -> Nat]
  /\ ret \in [Threads -> {NONE, "user", "cas", "help"}]
  /\ val \in [Threads -> Words]
  /\ dref \in [Threads -> DebtRefs \cup {NONE}]
  /\ repl \in [Threads -> Words]
  /\ env \in [Threads -> Envelopes \cup {NONE}]
  /\ gen \in [Threads -> Nat]
  /\ new \in [Threads -> Words]
  /\ old \in [Threads -> Words]
  /\ node \in [Threads -> 0..N]
  /\ i \in [Threads -> 0..HELPING]
  /\ ctl \in [Threads -> Control]
  /\ held \in [Threads -> Protections \cup {NONE}]

(* Where thread t's val is a reference: one it has a debt for, or one that *)
(* somebody paid for it.  In Unconfirmed it may still turn out invalid.    *)
Unconfirmed == {"attempt_confirm", "attempt_pay", "confirm_control",
                "confirm_envelope", "confirm_offer", "unused_pay"}
Referring == Unconfirmed \cup {"unused_dec", "inner_inc", "inner_pay",
                               "inner_dec", "drop_pay", "drop_dec"}

(* Does the writer t hold the reference that pay_all pre-pays? *)
Prepaid(t) == (node[t] # 0 \/ pc[t] = "pay_drop") /\ pc[t] # "pay_more"

(* The replacement that is on its way to the reader of node n. *)
Sent(n) ==
  IF IsReplacement(control[n]) THEN handover[control[n].env]
  ELSE IF pc[n] = "confirm_envelope" THEN handover[env[n]] ELSE NONE

(* The references to the object at p that some part of the program, or its *)
(* user, believes to have.                                                 *)
Claims(p) ==
  ({"storage"} \X {s \in Storages : ptr[s] = p})
  \cup ({"guard"} \X {h \in Handles : guard[h] # NONE /\ guard[h].ptr = p})
  \cup ({"held"} \X {t \in Threads : held[t] # NONE /\ held[t].ptr = p})
  \cup ({"new"} \X {t \in Threads : new[t] = p})
  \cup ({"old"} \X {t \in Threads : old[t] = p})
  \cup ({"prepaid"} \X {t \in Threads : old[t] = p /\ Prepaid(t)})
  \cup ({"val"} \X {t \in Threads : val[t] = p /\ pc[t] \in Referring})
  \cup ({"inner"} \X {t \in Threads : val[t] = p /\ pc[t] \in {"inner_pay", "inner_dec"}})
  \cup ({"repl"} \X {t \in Threads : repl[t] = p})
  \cup ({"sent"} \X {n \in Threads : Sent(n) = p})

Debts(p) == {d \in DebtRefs : Owes(d, p)}

(* Every reference is counted or owed, exactly once: a leak, a double      *)
(* payment or a double drop breaks the balance (src/debt/mod.rs pay and    *)
(* pay_all, the drops and into_inner of src/strategy/hybrid.rs).           *)
Conservation ==
  \A p \in Ptrs : cnt[p] + Cardinality(Debts(p)) = Cardinality(Claims(p))

(* Nobody holds freed memory: while anything but a load that has not yet   *)
(* confirmed its pointer refers to an object, its count is positive.  The  *)
(* debts of guards are thus paid before the writer gives up its reference. *)
NoDangling ==
  \A p \in Ptrs : cnt[p] <= 0 =>
    Claims(p) \subseteq {"val"} \X {t \in Threads : pc[t] \in Unconfirmed}

(* The envelope that node n owns.  Sending a replacement exchanges the     *)
(* envelopes of the two nodes, before their space_offers are updated.      *)
OwnEnvelope(n) ==
  IF IsReplacement(control[n]) THEN control[n].env
  ELSE IF pc[n] \in {"confirm_envelope", "confirm_offer", "help_took"} THEN env[n]
  ELSE space_offer[n]

(* No two nodes own the same handover envelope, however often they were    *)
(* passed around (helping::Slots::help and confirm): two helpers can never *)
(* write over each other's replacement.                                    *)
EnvelopeExclusive ==
  \A m, n \in Threads : OwnEnvelope(m) = OwnEnvelope(n) => m = n

(* The assertions of src/debt/helping.rs hold whenever they are evaluated: *)
(* a transaction starts on an idle control word and an empty helping slot, *)
(* nobody helps itself or in the middle of its own transaction, and a      *)
(* reader that lost its generation finds a replacement.                    *)
AssertsHold ==
  \A t \in Threads :
    /\ pc[t] = "get_debt" => control[t] = IDLE
    /\ pc[t] = "confirm_slot" => debt[t][HELPING] = NONE
    /\ pc[t] = "confirm_control" =>
         control[t] = Gen(gen[t]) \/ IsReplacement(control[t])
    /\ pc[t] = "help_control" => control[t] = IDLE
    /\ pc[t] = "help_addr" => node[t] # t

(* The pointer that a load of thread t hands over in this step, if it      *)
(* does: to the user, to compare_and_swap, or to a writer that helps.      *)
Result(t) ==
  CASE ret[t] = "user" -> guard'[<<t, call[t].hnd>>].ptr
    [] ret[t] = "cas" -> held'[t].ptr
    [] ret[t] = "help" -> repl'[t]
Delivers(t) == ret[t] # NONE /\ ret'[t] = NONE /\ call[t].st # NONE

(* A load returns an object that its container held at some moment between *)
(* the start and the end of the load, and that was not freed since: what   *)
(* "already paid for by someone else" and the replacement of a helper have *)
(* to guarantee (src/strategy/hybrid.rs attempt and fallback).             *)
LoadFresh == [][\A t \in Threads : Delivers(t) => Result(t) \in seen[t]]_vars

(* Readers are wait-free: a thread that keeps running finishes its load,   *)
(* or the end of its guard, whatever the others do, also if they stop      *)
(* forever in the middle of a load, a write or a help.                     *)
ReadersWaitFree ==
  \A t \in Threads : WF_vars(Step(t)) =>
    (call[t].op \in {"load", "load_full", "guard_drop", "guard_into_inner"}
       ~> pc[t] = "idle")

(* A writer never waits for another thread: once only it takes steps, it   *)
(* finishes.  (compare_and_swap is left out, its weak exchange may fail    *)
(* for no reason every time.)                                              *)
WritersFinishAlone ==
  \A t \in Threads : WF_vars(Step(t)) /\ <>[][Step(t)]_vars =>
    (pc[t] # "idle" /\ call[t].op # "compare_and_swap" ~> pc[t] = "idle")

(* Every thread that can take a step does, again and again. *)
FairSpec == Spec /\ \A t \in Threads : WF_vars(Step(t))

(* Writers are lock-free: while calls are in progress, some call finishes. *)
(* With a bounded number of calls, all of them do.                         *)
WritersFinish ==
  \A t \in Threads :
    (pc[t] # "idle" /\ call[t].op # "compare_and_swap" ~> pc[t] = "idle")
=============================================================================
