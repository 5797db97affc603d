---------------------------- MODULE HybridAlive -----------------------------
(***************************************************************************)
(* Proof that nobody holds freed memory in Hybrid: NoDangling; and from    *)
(* it, that loads are fresh: LoadFresh.                                    *)
(*                                                                         *)
(* By Conservation, an object with a count of zero has as many debts as    *)
(* claims.  Every debt has a claim of its own (DebtHeld), so there is no   *)
(* claim without one; and a confirmed debt is Protected: its pointer is in *)
(* a container, or a writer that took it out has still to walk past the    *)
(* debt.  Both are claims without a debt.                                  *)
(*                                                                         *)
(* A load is fresh when what it returns is in its window.  FreshInv        *)
(* follows the pointer through the load, the helper that sends one and the *)
(* payments of others; it does not leave the window, because it is not     *)
(* freed (NoDangling).                                                     *)
(***************************************************************************)
EXTENDS HybridCounts

(* Who relies on the debt d for its reference to p: the load that made the *)
(* debt and has not yet confirmed it, or whoever holds the guard now.      *)
Trying(d, p) ==
  pc[d[1]] \in Unconfirmed /\ dref[d[1]] = d /\ val[d[1]] = p
Ending(t, d, p) ==
  pc[t] \in {"inner_inc", "inner_pay", "drop_pay"} /\ val[t] = p /\ dref[t] = d
HeldBy(d, p) ==
  \/ \E h \in Handles : guard[h] = Protection(p, d)
  \/ \E t \in Threads : held[t] = Protection(p, d)
  \/ \E t \in Threads : Ending(t, d, p)
DebtHeld(d, p) == Owes(d, p) => Trying(d, p) \/ HeldBy(d, p)

(* The writer w, in its walk along the list, has still to come to slot d,  *)
(* and to the reader of node n.                                            *)
Before(w, d) ==
  \/ pc[w] = "pay_inc"
  \/ node[w] > d[1]
  \/ /\ node[w] = d[1]
     /\ \/ pc[w] \in HelpPCs \/ ret[w] = "help"
        \/ pc[w] = "pay_slot" /\ i[w] <= d[2]
        \/ pc[w] = "pay_more" /\ i[w] < d[2]
BeforeHelp(w, n) ==
  \/ pc[w] = "pay_inc"
  \/ node[w] > n
  \/ /\ node[w] = n
     /\ \/ pc[w] \in HelpPCs \ {"help_took", "help_drop"} \/ ret[w] = "help"
        \/ pc[w] = "help_drop" /\ IsGen(ctl[w])

(* A confirmed debt is for a pointer that a container still holds, or that *)
(* a writer took out of it and has not yet come to the debt.               *)
Guarded(d, p) ==
  \/ \E s \in Storages : ptr[s] = p
  \/ \E w \in Threads : old[w] = p /\ Before(w, d)
Protected(d, p) == Owes(d, p) => Trying(d, p) \/ Guarded(d, p)

(* The same for the candidate of a transaction that nobody has helped. *)
Covered(t, p) ==
  \/ ptr[call[t].st] = p
  \/ \E w \in Threads : w # t /\ old[w] = p /\ call[w].st = call[t].st /\ BeforeHelp(w, t)
Candid(t, p) ==
  pc[t] \in {"confirm_slot", "confirm_control"} /\ control[t] = Gen(gen[t]) /\ val[t] = p
    => Covered(t, p)
Addr(t) == pc[t] \in InTransaction \cup {"get_debt"} => active_addr[t] = call[t].st
Elsewhere(t) ==
  pc[t] = "help_recheck" /\ control[node[t]] = ctl[t] =>
    active_addr[node[t]] # call[t].st

(* The inductive invariant. *)
AliveInv ==
  /\ BooksInv
  /\ \A t \in Threads : Addr(t) /\ Elsewhere(t) /\ \A p \in Ptrs : Candid(t, p)
  /\ \A d \in DebtRefs, p \in Ptrs : DebtHeld(d, p) /\ Protected(d, p)

----------------------------------------------------------------------------
(* The address of a transaction. *)
LEMMA AddrStep ==
  ASSUME BooksInv, NEW t \in Threads, Addr(t), Call(t) \/ Step(t)
  PROVE  Addr(t)'
<1>1. Domains
  BY TypeDomains DEF BooksInv, EnvInv, OwnInv, TypeInv
<1> USE <1>1 DEF Domains, Addr, InTransaction, heap, helping, user, loader, writer
<1>2. CASE Call(t)
  BY <1>2, PCFacts, ConstantsOK DEF Call, CallLoad, CallDrop, CallSwap, CallNew, CallCas, CallGuardDrop,
   CallGuardIntoInner, Begin, Dropping
<1>3. CASE Load(t)
  BY <1>3, ConstantsOK DEF Load, AttemptLoad, NewFast, AttemptConfirm, AttemptPay, GetDebtAddr, GetDebtControl,
     Candidate, ConfirmSlot, ConfirmControl, ConfirmEnvelope, ConfirmOffer, UnusedPay, UnusedDec,
     InnerInc, InnerPay, InnerDec, Loaded, Return
<1>4. CASE DropPay(t) \/ DropDec(t)
  BY <1>4, PCFacts DEF DropPay, DropDec, Dropped, Return
<1>5. CASE Write(t)
  BY <1>5, ConstantsOK, PCFacts DEF Write, Help, HelpControl, HelpAddr, HelpRecheck, HelpTheir,
   HelpStore, HelpCas, HelpTook, HelpDrop, HelpLoop, HelpSent, HelpFailed,
   Swap, PayInc, PaySlot, PayMore, PayDrop, Release, NextSlot, Return,
   CasCheck, CasExchange, CasDropNew, Dropping
<1> QED BY <1>2, <1>3, <1>4, <1>5 DEF Step

LEMMA AddrOther ==
  ASSUME BooksInv, NEW t \in Threads, Call(t) \/ Step(t), NEW u \in Threads, u # t, Addr(u)
  PROVE  Addr(u)'
<1>1. Frame(t)
  BY StepFrame, TypeDomains DEF BooksInv, EnvInv, OwnInv, TypeInv
<1> QED BY <1>1 DEF Frame, Addr

(* A helper that goes on to recheck has seen another address. *)
LEMMA ElsewhereStep ==
  ASSUME BooksInv, NEW t \in Threads, Call(t) \/ Step(t)
  PROVE  Elsewhere(t)'
<1>1. Domains
  BY TypeDomains DEF BooksInv, EnvInv, OwnInv, TypeInv
<1> SUFFICES ASSUME pc'[t] = "help_recheck" PROVE Elsewhere(t)'
  BY DEF Elsewhere
<1>2. HelpAddr(t)
  <2> USE <1>1 DEF Domains
  <2>1. CASE Call(t)
    BY <2>1, PCFacts, ConstantsOK DEF Call, CallLoad, CallDrop, CallSwap, CallNew, CallCas, CallGuardDrop,
     CallGuardIntoInner, Begin, Dropping
  <2>2. CASE Load(t)
    BY <2>2, ConstantsOK DEF Load, AttemptLoad, NewFast, AttemptConfirm, AttemptPay, GetDebtAddr, GetDebtControl,
       Candidate, ConfirmSlot, ConfirmControl, ConfirmEnvelope, ConfirmOffer, UnusedPay, UnusedDec,
       InnerInc, InnerPay, InnerDec, Loaded, Return
  <2>3. CASE DropPay(t) \/ DropDec(t)
    BY <2>3, PCFacts DEF DropPay, DropDec, Dropped, Return
  <2>4. CASE Write(t)
    BY <2>4, ConstantsOK, PCFacts DEF Write, Help, HelpControl, HelpRecheck, HelpTheir, HelpStore,
     HelpCas, HelpTook, HelpDrop, HelpLoop, HelpSent, HelpFailed,
     Swap, PayInc, PaySlot, PayMore, PayDrop, Release, NextSlot, Return,
     CasCheck, CasExchange, CasDropNew, Dropping
  <2> QED BY <2>1, <2>2, <2>3, <2>4 DEF Step
<1> QED BY <1>1, <1>2, PCFacts DEF Domains, HelpAddr, Elsewhere, helping, user, writer

LEMMA ElsewhereOther ==
  ASSUME BooksInv, NEW t \in Threads, Call(t) \/ Step(t), NEW u \in Threads, u # t, Elsewhere(u)
  PROVE  Elsewhere(u)'
<1>1. Domains /\ Frame(t) /\ Own(u) /\ Placed(u) /\ Past(u) /\ TypeOK
  BY StepFrame, TypeDomains DEF BooksInv, EnvInv, OwnInv, TypeInv, Located
<1> DEFINE n == node[u]
<1>2. SUFFICES ASSUME pc[u] = "help_recheck", control'[n] = ctl[u]
               PROVE  active_addr'[n] # call[u].st
  BY <1>1 DEF Elsewhere, Frame
<1>3. n \in Threads /\ IsGen(ctl[u]) /\ Helping(u)
  BY <1>1, <1>2 DEF Placed, Walking, Own, Foreign, Helping, HelpPCs
<1>4. CASE n # t
  <2>1. active_addr'[n] = active_addr[n]
    BY <1>1, <1>3, <1>4 DEF Frame
  <2>2. control'[n] = control[n]
    <3>1. control'[n] = control[n] \/ Sends(t, n)
      BY <1>1, <1>3, <1>4, ControlFrame
    <3>2. \A e : ~IsGen(Replacement(e))
      BY DEF IsGen, Replacement
    <3> QED BY <1>2, <1>3, <3>1, <3>2 DEF Sends
  <2> QED BY <1>1, <1>2, <2>1, <2>2 DEF Elsewhere
<1>5. CASE n = t
  <2>1. ctl[u] # IDLE
    BY <1>3 DEF IsGen
  <2>2. pc[t] = "get_debt" => control'[t] # Gen(gen[t])
    BY <1>1, <1>2, <1>3, <1>5 DEF Past, Gen, TypeOK
  <2>3. control'[t] = control[t] /\ active_addr'[t] = active_addr[t]
    BY <1>2, <1>5, <2>1, <2>2, ControlOwn DEF BooksInv, EnvInv
  <2> QED BY <1>1, <1>2, <1>5, <2>3 DEF Elsewhere
<1> QED BY <1>4, <1>5

----------------------------------------------------------------------------
(* The program counter says which action a thread takes. *)
LEMMA Running ==
  ASSUME NEW t \in Threads, Call(t) \/ Step(t)
  PROVE  /\ pc[t] \in LoadPCs => Load(t)
         /\ pc[t] \in HelpPCs => Help(t)
         /\ pc[t] = "pay_inc" => PayInc(t)
         /\ pc[t] = "pay_slot" => PaySlot(t)
         /\ pc[t] = "pay_more" => PayMore(t)
         /\ pc[t] = "swap" => Swap(t)
         /\ pc[t] = "idle" => Call(t)
<1>1. Call(t) => pc[t] = "idle"
  BY DEF Call, CallLoad, CallDrop, CallSwap, CallNew, CallCas, CallGuardDrop, CallGuardIntoInner, Begin
<1>2. Load(t) => pc[t] \in LoadPCs
  BY DEF Load, AttemptLoad, NewFast, AttemptConfirm, AttemptPay, GetDebtAddr, GetDebtControl,
       Candidate, ConfirmSlot, ConfirmControl, ConfirmEnvelope, ConfirmOffer, UnusedPay, UnusedDec,
       InnerInc, InnerPay, InnerDec, LoadPCs
<1>3. DropPay(t) \/ DropDec(t) => pc[t] \in {"drop_pay", "drop_dec"}
  BY DEF DropPay, DropDec
<1>4. Help(t) => pc[t] \in HelpPCs
  BY DEF Help, HelpControl, HelpAddr, HelpRecheck, HelpTheir, HelpStore, HelpCas, HelpTook, HelpDrop, HelpPCs
<1>5. Write(t) /\ ~Help(t) =>
        \/ PayInc(t) /\ pc[t] = "pay_inc"
        \/ PaySlot(t) /\ pc[t] = "pay_slot"
        \/ PayMore(t) /\ pc[t] = "pay_more"
        \/ Swap(t) /\ pc[t] = "swap"
        \/ pc[t] \in {"pay_drop", "release", "cas_check", "cas_exchange", "cas_drop_new"}
  BY DEF Write, Swap, PayInc, PaySlot, PayMore, PayDrop, Release, CasCheck, CasExchange, CasDropNew
<1> QED BY <1>1, <1>2, <1>3, <1>4, <1>5 DEF Step, LoadPCs, HelpPCs

(* A step of a writer in pay_all. *)
LEMMA WalkStep ==
  ASSUME BooksInv, NEW t \in Threads, Call(t) \/ Step(t), old[t] # NONE
  PROVE  \/ pc[t] \in {"pay_drop", "release"} /\ node[t] = 0 /\ ret[t] = NONE
         \/ /\ old'[t] = old[t] /\ call'[t] = call[t]
            /\ \/ pc[t] = "pay_inc" /\ pc'[t] = "help_control" /\ node'[t] = N
               \/ /\ ret[t] = "help" /\ node'[t] = node[t]
                  /\ ret'[t] = "help" \/ pc'[t] = "help_their"
               \/ pc[t] \in HelpPCs /\ Help(t) /\ node'[t] = node[t]
               \/ /\ pc[t] = "pay_slot" /\ pc'[t] = "pay_more" /\ Owes(<<node[t], i[t]>>, old[t])
                  /\ node'[t] = node[t] /\ i'[t] = i[t]
               \/ /\ pc[t] = "pay_slot" /\ ~Owes(<<node[t], i[t]>>, old[t]) /\ NextSlot(t)
               \/ pc[t] = "pay_more" /\ NextSlot(t)
<1>1. Domains /\ Books(t) /\ Placed(t)
  BY TypeDomains DEF BooksInv, EnvInv, OwnInv, TypeInv, Located
<1> USE <1>1 DEF Domains, heap, helping, user, loader, writer
<1>2. Paying(t) \/ pc[t] \in {"pay_inc", "pay_drop", "release"}
  BY DEF Books, OldOK
<1>3. CASE pc[t] \in {"pay_drop", "release"}
  BY <1>3, ConstantsOK DEF Books, NodeOK, Paying, HelpPCs, Placed, Walking, LoadPCs
<1>4. CASE pc[t] = "pay_inc"
  BY <1>4, Running DEF PayInc
<1>5. CASE ret[t] = "help"
  <2>1. Load(t)
    BY <1>5, Running, ConstantsOK DEF Placed, Walking
  <2> QED
    BY <1>5, <2>1, ConstantsOK DEF Load, AttemptLoad, NewFast, AttemptConfirm, AttemptPay, GetDebtAddr, GetDebtControl,
       Candidate, ConfirmSlot, ConfirmControl, ConfirmEnvelope, ConfirmOffer, UnusedPay, UnusedDec,
       InnerInc, InnerPay, InnerDec, Loaded
<1>6. CASE pc[t] \in HelpPCs
  BY <1>6, Running DEF Help, HelpControl, HelpAddr, HelpRecheck, HelpTheir, HelpStore, HelpCas, HelpTook, HelpDrop
<1>7. CASE pc[t] = "pay_slot"
  BY <1>7, Running DEF PaySlot
<1>8. CASE pc[t] = "pay_more"
  BY <1>8, Running DEF PayMore
<1> QED BY <1>2, <1>3, <1>4, <1>5, <1>6, <1>7, <1>8 DEF Paying

(* The writer does not pass the debt d while d owes what it took out. *)
LEMMA BeforeStep ==
  ASSUME BooksInv, NEW t \in Threads, Call(t) \/ Step(t), NEW d \in DebtRefs, NEW p \in Ptrs,
         Owes(d, p), Owes(d, p)', old[t] = p, Before(t, d)
  PROVE  old'[t] = p /\ Before(t, d)'
<1>1. Domains /\ Books(t) /\ Placed(t) /\ TypeOK /\ DebtDomains
  BY TypeDomains DEF BooksInv, EnvInv, OwnInv, TypeInv, Located, TypeOK, DebtDomains
<1>2. d = <<d[1], d[2]>> /\ d[1] \in 1..N /\ d[2] \in 1..HELPING /\ N \in Nat /\ HELPING \in Nat
  BY ConstantsOK DEF DebtRefs, Threads, Slots, HELPING
<1>3. p # NONE /\ node[t] \in 0..N /\ i[t] \in 0..HELPING
  BY <1>1, ConstantsOK DEF TypeOK
<1>4. pc[t] \notin {"pay_drop", "release"}
  BY <1>1, <1>2, ConstantsOK DEF Before, Books, NodeOK, Paying, HelpPCs, Placed, Walking, LoadPCs
<1>5. old'[t] = old[t]
  BY <1>3, <1>4, WalkStep
<1>6. CASE pc[t] = "pay_inc" /\ pc'[t] = "help_control" /\ node'[t] = N
  BY <1>2, <1>5, <1>6 DEF Before, HelpPCs
<1>7. CASE ret[t] = "help" /\ node'[t] = node[t] /\ (ret'[t] = "help" \/ pc'[t] = "help_their")
  BY <1>1, <1>2, <1>3, <1>5, <1>7, ConstantsOK DEF Before, HelpPCs, Placed, Walking, LoadPCs
<1>8. CASE pc[t] \in HelpPCs /\ Help(t) /\ node'[t] = node[t]
  <2>1. pc'[t] \in HelpPCs \/ ret'[t] = "help" \/ (pc'[t] = "pay_slot" /\ i'[t] = 1)
    BY <1>1, <1>8 DEF Domains, Help, HelpControl, HelpAddr, HelpRecheck, HelpTheir, HelpStore, HelpCas, HelpTook,
       HelpDrop, HelpLoop, HelpSent, HelpFailed, HelpPCs
  <2> QED BY <1>2, <1>3, <1>5, <1>8, <2>1 DEF Before, HelpPCs
<1>9. CASE pc[t] = "pay_slot" /\ pc'[t] = "pay_more" /\ node'[t] = node[t] /\ i'[t] = i[t]
  <2>1. PaySlot(t)
    BY <1>9, Running
  <2>2. <<node[t], i[t]>> # d
    <3>1. SUFFICES ASSUME node[t] = d[1], i[t] = d[2] PROVE FALSE
      BY <1>2
    <3>2. Pay(<<node[t], i[t]>>)
      BY <1>1, <1>9, <2>1, <3>1 DEF PaySlot, NextSlot, Domains
    <3> QED BY <1>1, <1>2, <1>3, <3>1, <3>2 DEF Pay, Owes, DebtDomains, Threads, Slots
  <2> QED BY <1>1, <1>2, <1>3, <1>5, <1>9, <2>2, ConstantsOK DEF Before, HelpPCs, Placed, Walking, LoadPCs
<1>10. CASE /\ pc[t] \in {"pay_slot", "pay_more"} /\ NextSlot(t)
            /\ pc[t] = "pay_slot" => ~Owes(<<node[t], i[t]>>, old[t])
  <2>1. pc[t] = "pay_slot" => ~(node[t] = d[1] /\ i[t] = d[2])
    BY <1>2, <1>10 DEF Owes
  <2>2. ret[t] = NONE
    BY <1>1, <1>10, ConstantsOK DEF Placed, Walking, LoadPCs
  <2>3. \/ i[t] < HELPING /\ i'[t] = i[t] + 1 /\ pc'[t] = "pay_slot" /\ node'[t] = node[t]
        \/ /\ i[t] = HELPING /\ node'[t] = node[t] - 1
           /\ pc'[t] = (IF node[t] = 1 THEN "pay_drop" ELSE "help_control")
    BY <1>1, <1>10 DEF NextSlot, Domains
  <2> QED BY <1>2, <1>3, <1>5, <1>10, <2>1, <2>2, <2>3, ConstantsOK DEF Before, HelpPCs
<1> QED BY <1>3, <1>4, <1>5, <1>6, <1>7, <1>8, <1>9, <1>10, WalkStep

(* Nor does it pass a reader of its container whose transaction goes on. *)
LEMMA BeforeHelpStep ==
  ASSUME BooksInv, NEW t \in Threads, Call(t) \/ Step(t), NEW n \in Threads, n # t,
         Addr(n), Elsewhere(t), old[t] # NONE, call[t].st = call[n].st, BeforeHelp(t, n),
         pc[n] \in {"confirm_slot", "confirm_control"},
         control[n] = Gen(gen[n]), control'[n] = Gen(gen[n])
  PROVE  old'[t] = old[t] /\ call'[t] = call[t] /\ BeforeHelp(t, n)'
<1>1. Domains /\ Books(t) /\ Placed(t) /\ TypeOK
  BY TypeDomains DEF BooksInv, EnvInv, OwnInv, TypeInv, Located
<1>2. n \in 1..N /\ N \in Nat /\ HELPING \in Nat /\ node[t] \in 0..N
  BY <1>1, ConstantsOK DEF Threads, HELPING, TypeOK
<1>3. pc[t] \notin {"pay_drop", "release"}
  BY <1>1, <1>2, ConstantsOK DEF BeforeHelp, Books, NodeOK, Paying, HelpPCs, Placed, Walking, LoadPCs
<1>4. old'[t] = old[t] /\ call'[t] = call[t]
  BY <1>3, WalkStep
<1>5. IsGen(control[n]) /\ control'[n] = control[n] /\ active_addr[n] = call[t].st
  <2>1. Gen(gen[n]) \in GenWords
    BY <1>1 DEF TypeOK, Gen, GenWords
  <2> QED BY <2>1, ConstantsOK DEF Gen, IsGen, Addr, InTransaction
<1>6. CASE pc[t] = "pay_inc" /\ pc'[t] = "help_control" /\ node'[t] = N
  BY <1>2, <1>4, <1>6 DEF BeforeHelp, HelpPCs
<1>7. CASE ret[t] = "help" /\ node'[t] = node[t] /\ (ret'[t] = "help" \/ pc'[t] = "help_their")
  BY <1>1, <1>2, <1>4, <1>7, ConstantsOK DEF BeforeHelp, HelpPCs, Placed, Walking, LoadPCs
<1>8. CASE pc[t] \in HelpPCs /\ Help(t) /\ node'[t] = node[t]
  <2>0. ret[t] = NONE
    BY <1>1, <1>8, ConstantsOK DEF Placed, Walking, LoadPCs, HelpPCs
  <2>1. CASE node[t] # n
    BY <1>2, <1>4, <1>8, <2>0, <2>1, ConstantsOK DEF BeforeHelp, HelpPCs
  <2>2. CASE node[t] = n
    <3> USE <1>1, <1>4, <1>5, <1>8, <2>2 DEF Domains
    <3>1. CASE HelpControl(t)
      BY <3>1 DEF HelpControl, HelpLoop, BeforeHelp, HelpPCs
    <3>2. CASE HelpAddr(t)
      BY <3>2 DEF HelpAddr, BeforeHelp
    <3>3. CASE HelpRecheck(t)
      <4>1. control[n] # ctl[t]
        BY <3>3 DEF HelpRecheck, Elsewhere
      <4> QED BY <3>3, <4>1 DEF HelpRecheck, HelpLoop, BeforeHelp, HelpPCs
    <3>4. CASE HelpTheir(t) \/ HelpStore(t)
      BY <3>4 DEF HelpTheir, HelpStore, BeforeHelp, HelpPCs
    <3>5. CASE HelpCas(t)
      <4>1. ~HelpSent(t)
        <5>1. HelpSent(t) => control'[n] = Replacement(space_offer[t])
          BY DEF HelpSent
        <5>2. ~IsGen(Replacement(space_offer[t]))
          BY DEF IsGen, Replacement
        <5> QED BY <5>1, <5>2
      <4> QED BY <3>5, <4>1 DEF HelpCas, HelpFailed, BeforeHelp, HelpPCs
    <3>6. CASE HelpTook(t)
      BY <1>2, <2>0, <3>6, ConstantsOK DEF HelpTook, BeforeHelp
    <3>7. CASE HelpDrop(t)
      BY <1>2, <2>0, <3>7, ConstantsOK DEF HelpDrop, HelpLoop, BeforeHelp, HelpPCs
    <3> QED BY <3>1, <3>2, <3>3, <3>4, <3>5, <3>6, <3>7 DEF Help
  <2> QED BY <1>4, <2>1, <2>2
<1>9. CASE pc[t] = "pay_slot" /\ pc'[t] = "pay_more" /\ node'[t] = node[t]
  BY <1>1, <1>2, <1>4, <1>9, ConstantsOK DEF BeforeHelp, HelpPCs, Placed, Walking, LoadPCs
<1>10. CASE pc[t] \in {"pay_slot", "pay_more"} /\ NextSlot(t)
  <2>1. ret[t] = NONE
    BY <1>1, <1>10, ConstantsOK DEF Placed, Walking, LoadPCs
  <2>2. \/ node'[t] = node[t]
        \/ /\ node'[t] = node[t] - 1
           /\ pc'[t] = (IF node[t] = 1 THEN "pay_drop" ELSE "help_control")
    BY <1>1, <1>10 DEF NextSlot, Domains
  <2> QED BY <1>2, <1>4, <1>10, <2>1, <2>2, ConstantsOK DEF BeforeHelp, HelpPCs
<1> QED BY <1>3, <1>4, <1>6, <1>7, <1>8, <1>9, <1>10, WalkStep

----------------------------------------------------------------------------
(* What leaves a container goes to a writer that is about to pay. *)
LEMMA PtrStep ==
  ASSUME BooksInv, NEW t \in Threads, Call(t) \/ Step(t), NEW s \in Storages
  PROVE  \/ ptr'[s] = ptr[s]
         \/ ptr[s] = NONE
         \/ /\ old'[t] = ptr[s] /\ pc'[t] = "pay_inc"
            /\ \/ call'[t].st = s
               \/ \A u \in Threads : call[u].st # s
<1>1. Domains /\ Books(t) /\ DOMAIN ptr = Storages
  BY TypeDomains DEF BooksInv, EnvInv, OwnInv, TypeInv, TypeOK
<1> USE <1>1 DEF Domains, user
<1>2. CASE UNCHANGED ptr
  BY <1>2
<1>3. CASE Swap(t)
  BY <1>3 DEF Swap
<1>4. CASE CasExchange(t)
  <2>1. held[t].ptr = call[t].cur
    BY <1>4 DEF CasExchange, Books, CasOK
  <2> QED BY <1>2, <1>4, <2>1 DEF CasExchange
<1>5. CASE Call(t)
  <2>1. ASSUME NEW r, NEW x, CallNew(t, r, x) PROVE ptr'[s] = ptr[s] \/ ptr[s] = NONE
    BY <2>1 DEF CallNew, Live
  <2>2. ASSUME NEW op, NEW r, NEW k, CallDrop(t, op, r, k)
        PROVE  \/ ptr'[s] = ptr[s]
               \/ old'[t] = ptr[s] /\ pc'[t] = "pay_inc" /\ \A u \in Threads : call[u].st # s
    BY <2>2 DEF CallDrop
  <2> QED
    BY <1>2, <1>5, <2>1, <2>2 DEF Call, CallLoad, CallSwap, CallCas, CallGuardDrop, CallGuardIntoInner
<1>6. CASE Load(t)
  BY <1>2, <1>6 DEF Load, AttemptLoad, NewFast, AttemptConfirm, AttemptPay, GetDebtAddr, GetDebtControl,
       Candidate, ConfirmSlot, ConfirmControl, ConfirmEnvelope, ConfirmOffer, UnusedPay, UnusedDec,
       InnerInc, InnerPay, InnerDec
<1>7. CASE DropPay(t) \/ DropDec(t)
  BY <1>2, <1>7 DEF DropPay, DropDec
<1>8. CASE Write(t)
  BY <1>2, <1>3, <1>4, <1>8 DEF Write, Help, HelpControl, HelpAddr, HelpRecheck, HelpTheir,
     HelpStore, HelpCas, HelpTook, HelpDrop, PayInc, PaySlot, PayMore, PayDrop, Release,
     CasCheck, CasDropNew
<1> QED BY <1>5, <1>6, <1>7, <1>8 DEF Step

(* A candidate is read from the container itself. *)
LEMMA CandidStep ==
  ASSUME AliveInv, NEW t \in Threads, Call(t) \/ Step(t), NEW p \in Ptrs
  PROVE  Candid(t, p)'
<1>1. Domains /\ Frame(t) /\ Candid(t, p)
  BY StepFrame, TypeDomains DEF AliveInv, BooksInv, EnvInv, OwnInv, TypeInv
<1> SUFFICES ASSUME pc'[t] \in {"confirm_slot", "confirm_control"}, control'[t] = Gen(gen[t])', val'[t] = p
             PROVE  Covered(t, p)'
  BY DEF Candid
<1>2. Candidate(t) \/ ConfirmSlot(t)
  <2> USE <1>1 DEF Domains
  <2>1. CASE Call(t)
    BY <2>1, PCFacts, ConstantsOK DEF Call, CallLoad, CallDrop, CallSwap, CallNew, CallCas, CallGuardDrop,
     CallGuardIntoInner, Begin, Dropping
  <2>2. CASE Load(t)
    BY <2>2, ConstantsOK DEF Load, AttemptLoad, NewFast, AttemptConfirm, AttemptPay, GetDebtAddr, GetDebtControl,
       ConfirmControl, ConfirmEnvelope, ConfirmOffer, UnusedPay, UnusedDec,
       InnerInc, InnerPay, InnerDec, Loaded, Return
  <2>3. CASE DropPay(t) \/ DropDec(t)
    BY <2>3, PCFacts DEF DropPay, DropDec, Dropped, Return
  <2>4. CASE Write(t)
    BY <2>4, ConstantsOK, PCFacts DEF Write, Help, HelpControl, HelpAddr, HelpRecheck, HelpTheir, HelpStore,
     HelpCas, HelpTook, HelpDrop, HelpLoop, HelpSent, HelpFailed,
     Swap, PayInc, PaySlot, PayMore, PayDrop, Release, NextSlot, Return,
     CasCheck, CasExchange, CasDropNew, Dropping
  <2> QED BY <2>1, <2>2, <2>3, <2>4 DEF Step
<1>3. CASE Candidate(t)
  BY <1>1, <1>3 DEF Candidate, Covered, Domains, user
<1>4. CASE ConfirmSlot(t)
  <2>1. Covered(t, p)
    BY <1>1, <1>4 DEF ConfirmSlot, Candid, Domains, helping, loader
  <2>2. ptr' = ptr /\ call' = call
    BY <1>4 DEF ConfirmSlot, user
  <2>3. \A w \in Threads : w # t /\ BeforeHelp(w, t) => BeforeHelp(w, t)'
    BY <1>1 DEF Frame, BeforeHelp
  <2> QED BY <1>1, <2>1, <2>2, <2>3 DEF Covered, Frame
<1> QED BY <1>2, <1>3, <1>4

(* Who takes it out of the container has still to walk past the reader,    *)
(* and cannot pass it without helping.                                     *)
LEMMA CandidOther ==
  ASSUME AliveInv, NEW t \in Threads, Call(t) \/ Step(t), NEW u \in Threads, u # t, NEW p \in Ptrs
  PROVE  Candid(u, p)'
<1>1. BooksInv /\ TypeOK /\ Domains /\ Frame(t) /\ Candid(u, p) /\ Placed(u) /\ p # NONE
  BY StepFrame, TypeDomains, ConstantsOK DEF AliveInv, BooksInv, EnvInv, OwnInv, TypeInv, Located
<1>2. SUFFICES ASSUME pc[u] \in {"confirm_slot", "confirm_control"}, control'[u] = Gen(gen[u]), val[u] = p
               PROVE  Covered(u, p)'
  BY <1>1 DEF Candid, Frame
<1>3. control[u] = Gen(gen[u])
  <2>1. control'[u] = control[u] \/ Sends(t, u)
    BY <1>1, ControlFrame
  <2>2. \A e : Replacement(e) # Gen(gen[u])
    BY DEF Replacement, Gen
  <2> QED BY <1>2, <2>1, <2>2 DEF Sends
<1>4. Covered(u, p)
  BY <1>1, <1>2, <1>3 DEF Candid
<1>5. call'[u] = call[u] /\ call[u].st \in Storages
  BY <1>1, <1>2, CallFacts DEF Frame, Placed, Housed, GuardPCs, TypeOK
<1>6. CASE ptr[call[u].st] = p
  <2>1. PICK s \in Storages : s = call[u].st
    BY <1>5
  <2>2. ptr'[s] = p \/ (old'[t] = p /\ pc'[t] = "pay_inc" /\ call'[t].st = s)
    BY <1>1, <1>6, <2>1, PtrStep
  <2> QED BY <1>5, <2>1, <2>2 DEF Covered, BeforeHelp
<1>7. ASSUME NEW w \in Threads, w # u, old[w] = p, call[w].st = call[u].st, BeforeHelp(w, u)
      PROVE  Covered(u, p)'
  <2>1. CASE w # t
    BY <1>1, <1>5, <1>7, <2>1 DEF Covered, BeforeHelp, Frame
  <2>2. CASE w = t
    <3>1. Addr(u) /\ Elsewhere(t)
      BY DEF AliveInv
    <3>2. old'[t] = old[t] /\ call'[t] = call[t] /\ BeforeHelp(t, u)'
      BY <1>1, <1>2, <1>3, <1>7, <2>2, <3>1, BeforeHelpStep
    <3> QED BY <1>5, <1>7, <2>2, <3>2 DEF Covered
  <2> QED BY <2>1, <2>2
<1> QED BY <1>4, <1>6, <1>7 DEF Covered

----------------------------------------------------------------------------
(* The holders of a debt that is not paid. *)
LEMMA TryingStep ==
  ASSUME BooksInv, NEW t \in Threads, Call(t) \/ Step(t), NEW d \in DebtRefs, NEW p \in Ptrs,
         d[1] = t, Owes(d, p), Owes(d, p)', Trying(d, p)
  PROVE  \/ Trying(d, p)'
         \/ /\ HeldBy(d, p)' /\ ptr' = ptr
            /\ \/ ptr[call[t].st] = p /\ call[t].st \in Storages
               \/ /\ pc[t] = "confirm_control" /\ control[t] = Gen(gen[t])
                  /\ d = <<t, HELPING>>
<1>1. Domains /\ TypeOK /\ Books(t) /\ Own(t) /\ Placed(t) /\ DebtDomains /\ DOMAIN guard = Handles
  BY TypeDomains DEF BooksInv, EnvInv, OwnInv, TypeInv, Located, TypeOK, DebtDomains
<1>2. d = <<t, d[2]>> /\ d # NONE /\ p # NONE /\ d[2] \in Slots
  BY ConstantsOK DEF DebtRefs
<1>3. pc[t] \in Unconfirmed /\ dref[t] = d /\ val[t] = p
  BY DEF Trying
<1>4. Load(t)
  BY <1>3, Running DEF Unconfirmed, LoadPCs
<1>5. ~Pay(d) /\ Owes(dref[t], val[t])
  BY <1>1, <1>2, <1>3 DEF Pay, Owes, DebtDomains
<1> USE DEF Domains, heap, helping, user, loader, writer
<1>6. CASE AttemptConfirm(t)
  <2>1. CASE pc'[t] = "attempt_pay" /\ UNCHANGED <<val, dref>>
    BY <1>2, <1>3, <2>1 DEF Trying, Unconfirmed
  <2>2. CASE ptr[call[t].st] = val[t] /\ Loaded(t, val[t], dref[t])
    <3>1. call[t].st \in Storages
      BY <1>1, <1>6, CallFacts DEF AttemptConfirm, Placed, Housed, GuardPCs, TypeOK
    <3>2. CASE WantsInner(t)
      <4>1. Ending(t, d, p)'
        BY <1>1, <1>2, <1>3, <2>2, <3>2 DEF Loaded, Ending
      <4> QED BY <1>3, <1>6, <2>2, <3>1, <4>1 DEF HeldBy, AttemptConfirm
    <3>3. CASE ~WantsInner(t) /\ ret[t] = "user"
      <4>1. PICK h : h = <<t, call[t].hnd>>
        OBVIOUS
      <4>2. h \in Handles
        BY <1>1, <3>3, <4>1 DEF Books, HandleOK, Receiving, Handles
      <4>3. Return(t, Protection(p, d))
        BY <1>1, <1>2, <1>3, <2>2, <3>3 DEF Loaded
      <4>4. Protection(p, d) # NONE
        BY ProtectionFacts, WordFacts, ConstantsOK
      <4>5. guard'[h] = Protection(p, d)
        BY <1>1, <4>1, <4>2, <4>3, <4>4 DEF Return
      <4> QED BY <1>3, <1>6, <2>2, <3>1, <4>2, <4>5 DEF HeldBy, AttemptConfirm
    <3>4. CASE ~WantsInner(t) /\ ret[t] = "cas"
      <4>1. held'[t] = Protection(p, d)
        BY <1>1, <1>2, <1>3, <2>2, <3>4 DEF Loaded
      <4> QED BY <1>3, <1>6, <2>2, <3>1, <4>1 DEF HeldBy, AttemptConfirm
    <3> QED BY <1>1, <1>2, <1>3, <2>2, <3>2, <3>3, <3>4 DEF Loaded, WantsInner
  <2> QED BY <1>1, <1>6, <2>1, <2>2 DEF AttemptConfirm
<1>7. CASE ConfirmControl(t)
  <2>1. CASE control[t] = Gen(gen[t])
    <3>1. Ending(t, d, p)' /\ d = <<t, HELPING>> /\ ptr' = ptr
      BY <1>1, <1>3, <1>7, <2>1 DEF ConfirmControl, Ending, Own, Owing, Holding
    <3> QED BY <1>7, <2>1, <3>1 DEF HeldBy, ConfirmControl
  <2>2. CASE control[t] # Gen(gen[t])
    BY <1>1, <1>2, <1>3, <1>7, <2>2 DEF ConfirmControl, Trying, Unconfirmed
  <2> QED BY <2>1, <2>2
<1>8. CASE ConfirmEnvelope(t) \/ ConfirmOffer(t)
  BY <1>1, <1>2, <1>3, <1>8 DEF ConfirmEnvelope, ConfirmOffer, Trying, Unconfirmed
<1>9. ~AttemptPay(t) /\ ~UnusedPay(t)
  BY <1>3, <1>5 DEF AttemptPay, UnusedPay
<1> QED
  BY <1>3, <1>4, <1>6, <1>7, <1>8, <1>9 DEF Load, AttemptLoad, NewFast, GetDebtAddr, GetDebtControl,
       Candidate, ConfirmSlot, UnusedDec, InnerInc, InnerPay, InnerDec, Unconfirmed

(* Where a guard goes: its handle is not overwritten before it ends. *)
LEMMA GuardMoves ==
  ASSUME BooksInv, NEW t \in Threads, Call(t) \/ Step(t), NEW h \in Handles, guard[h] # NONE
  PROVE  \/ guard'[h] = guard[h]
         \/ CallGuardDrop(t, h)
         \/ \E k \in HandleIds : CallGuardIntoInner(t, h, k)
<1>1. Books(t) /\ Domains /\ DOMAIN guard = Handles
  BY TypeDomains DEF BooksInv, EnvInv, OwnInv, TypeInv, TypeOK
<1>0. CASE UNCHANGED guard
  BY <1>0
<1>2. ASSUME NEW res, Return(t, res), res = NONE \/ Receiving(t) PROVE guard'[h] = guard[h]
  BY <1>1, <1>2 DEF Return, Books, HandleOK
<1> USE DEF user
<1>3. CASE Call(t)
  BY <1>0, <1>1, <1>3 DEF Call, CallLoad, CallDrop, CallSwap, CallNew, CallCas, CallGuardDrop,
     CallGuardIntoInner
<1>4. CASE Load(t)
  BY <1>0, <1>2, <1>4 DEF Receiving, Load, AttemptLoad, NewFast, AttemptConfirm, AttemptPay, GetDebtAddr, GetDebtControl,
       Candidate, ConfirmSlot, ConfirmControl, ConfirmEnvelope, ConfirmOffer, UnusedPay, UnusedDec,
       InnerInc, InnerPay, InnerDec, Loaded
<1>5. CASE DropPay(t) \/ DropDec(t)
  BY <1>0, <1>2, <1>5 DEF DropPay, DropDec, Dropped
<1>6. CASE PayDrop(t) \/ Release(t) \/ CasDropNew(t)
  BY <1>0, <1>1, <1>2, <1>6 DEF Receiving, PayDrop, Release, CasDropNew, Books, HeldOK
<1>7. CASE Write(t)
  BY <1>0, <1>6, <1>7 DEF Write, Help, HelpControl, HelpAddr, HelpRecheck, HelpTheir,
     HelpStore, HelpCas, HelpTook, HelpDrop, Swap, PayInc, PaySlot, PayMore,
     CasCheck, CasExchange
<1> QED BY <1>3, <1>4, <1>5, <1>6, <1>7 DEF Step

(* Where the guard inside compare_and_swap goes. *)
LEMMA HeldMoves ==
  ASSUME BooksInv, NEW t \in Threads, Call(t) \/ Step(t), held[t] # NONE
  PROVE  \/ held'[t] = held[t]
         \/ CasExchange(t) /\ Dropping(t, held[t])
         \/ Return(t, held[t]) /\ call[t].op = "compare_and_swap"
<1>1. Books(t) /\ Domains
  BY TypeDomains DEF BooksInv, EnvInv, OwnInv, TypeInv
<1>2. ret[t] # "cas" /\ call[t].op = "compare_and_swap"
  BY <1>1 DEF Books, HeldOK
<1> USE <1>1, <1>2 DEF writer
<1>3. CASE Call(t)
  BY <1>3 DEF Call, CallLoad, CallDrop, CallSwap, CallNew, CallCas, CallGuardDrop,
     CallGuardIntoInner
<1>4. CASE Load(t)
  BY <1>4 DEF Load, AttemptLoad, NewFast, AttemptConfirm, AttemptPay, GetDebtAddr, GetDebtControl,
       Candidate, ConfirmSlot, ConfirmControl, ConfirmEnvelope, ConfirmOffer, UnusedPay, UnusedDec,
       InnerInc, InnerPay, InnerDec, Loaded
<1>5. CASE DropPay(t) \/ DropDec(t)
  BY <1>5 DEF DropPay, DropDec
<1>6. CASE Write(t)
  BY <1>6 DEF Write, Help, HelpControl, HelpAddr, HelpRecheck, HelpTheir,
     HelpStore, HelpCas, HelpTook, HelpDrop, Swap, PayInc, PaySlot, PayMore, PayDrop, Release,
     CasCheck, CasExchange, CasDropNew
<1> QED BY <1>3, <1>4, <1>5, <1>6 DEF Step

(* A debt that is not paid keeps its holder. *)
LEMMA HolderStep ==
  ASSUME BooksInv, NEW t \in Threads, Call(t) \/ Step(t), NEW d \in DebtRefs, NEW p \in Ptrs,
         Owes(d, p), Owes(d, p)', HeldBy(d, p)
  PROVE  HeldBy(d, p)'
<1>1. Domains /\ TypeOK /\ Books(t) /\ Frame(t) /\ DebtDomains /\ DOMAIN guard = Handles
  BY StepFrame, TypeDomains DEF BooksInv, EnvInv, OwnInv, TypeInv, TypeOK, DebtDomains
<1>2. d # NONE /\ p # NONE /\ d[1] \in Threads /\ d[2] \in Slots
  BY ConstantsOK DEF DebtRefs
<1>3. Protection(p, d) # NONE /\ Protection(p, d).ptr = p /\ Protection(p, d).debt = d
  BY ProtectionFacts, WordFacts, ConstantsOK DEF Protection
<1>4. ASSUME Dropping(t, Protection(p, d)) PROVE HeldBy(d, p)'
  <2>1. Ending(t, d, p)'
    BY <1>1, <1>2, <1>3, <1>4 DEF Dropping, Ending, Domains
  <2> QED BY <2>1 DEF HeldBy
<1>5. ASSUME NEW h \in Handles, guard[h] = Protection(p, d) PROVE HeldBy(d, p)'
  <2>1. CASE guard'[h] = guard[h]
    BY <1>5, <2>1 DEF HeldBy
  <2>2. CASE CallGuardDrop(t, h)
    BY <1>4, <1>5, <2>2 DEF CallGuardDrop
  <2>3. ASSUME NEW k \in HandleIds, CallGuardIntoInner(t, h, k) PROVE HeldBy(d, p)'
    <3>1. Ending(t, d, p)'
      BY <1>1, <1>3, <1>5, <2>3 DEF CallGuardIntoInner, Ending, Domains
    <3> QED BY <3>1 DEF HeldBy
  <2> QED BY <1>3, <1>5, <2>1, <2>2, <2>3, GuardMoves
<1>6. ASSUME NEW u \in Threads, held[u] = Protection(p, d) PROVE HeldBy(d, p)'
  <2>1. CASE held'[u] = held[u]
    BY <1>6, <2>1 DEF HeldBy
  <2>2. CASE u = t /\ Dropping(t, held[t])
    BY <1>4, <1>6, <2>2
  <2>3. CASE u = t /\ Return(t, held[t]) /\ call[t].op = "compare_and_swap"
    <3>1. PICK h : h = <<t, call[t].hnd>>
      OBVIOUS
    <3>2. h \in Handles
      BY <1>1, <2>3, <3>1 DEF Books, HandleOK, Receiving, Handles
    <3>3. guard'[h] = Protection(p, d)
      BY <1>1, <1>3, <1>6, <2>3, <3>1, <3>2 DEF Return
    <3> QED BY <3>2, <3>3 DEF HeldBy
  <2> QED BY <1>1, <1>3, <1>6, <2>1, <2>2, <2>3, HeldMoves DEF Frame
<1>7. ASSUME NEW u \in Threads, Ending(u, d, p) PROVE HeldBy(d, p)'
  <2>1. CASE u # t
    BY <1>1, <1>7, <2>1 DEF Ending, Frame, HeldBy
  <2>2. CASE u = t
    <3>1. ~Pay(dref[t]) /\ Owes(dref[t], val[t]) /\ dref[t] = d
      BY <1>1, <1>2, <1>7, <2>2 DEF Pay, Owes, DebtDomains, Ending
    <3>2. pc[t] = "inner_inc" /\ InnerInc(t)
      <4>1. Load(t) \/ DropPay(t)
        BY <1>7, <2>2 DEF Ending, Step, Call, CallLoad, CallDrop, CallSwap, CallNew, CallCas, CallGuardDrop,
          CallGuardIntoInner, Begin, DropDec, Write, Help, HelpControl, HelpAddr, HelpRecheck, HelpTheir,
          HelpStore, HelpCas, HelpTook, HelpDrop, Swap, PayInc, PaySlot, PayMore, PayDrop, Release,
          CasCheck, CasExchange, CasDropNew
      <4>2. ~DropPay(t) /\ ~InnerPay(t)
        BY <1>7, <2>2, <3>1 DEF DropPay, InnerPay
      <4>3. pc[t] \in {"inner_inc", "inner_pay", "drop_pay"}
        BY <1>7, <2>2 DEF Ending
      <4> QED BY <4>1, <4>2, <4>3 DEF Load, AttemptLoad, NewFast, AttemptConfirm, AttemptPay,
            GetDebtAddr, GetDebtControl, Candidate, ConfirmSlot, ConfirmControl, ConfirmEnvelope,
            ConfirmOffer, UnusedPay, UnusedDec, InnerInc, InnerDec
    <3>3. Ending(t, d, p)'
      BY <1>1, <1>7, <2>2, <3>2 DEF InnerInc, Ending, Domains, loader
    <3> QED BY <3>3 DEF HeldBy
  <2> QED BY <2>1, <2>2
<1> QED BY <1>5, <1>6, <1>7 DEF HeldBy

(* Every debt that is owed has somebody who relies on it. *)
LEMMA DebtHeldStep ==
  ASSUME AliveInv, NEW t \in Threads, Call(t) \/ Step(t), NEW d \in DebtRefs, NEW p \in Ptrs
  PROVE  DebtHeld(d, p)'
<1>1. BooksInv /\ Domains /\ DebtDomains /\ Owing(t) /\ Frame(t) /\ DebtHeld(d, p) /\ p # NONE
  BY StepFrame, TypeDomains, ConstantsOK
    DEF AliveInv, BooksInv, EnvInv, OwnInv, Own, TypeInv, TypeOK, DebtDomains
<1>2. SUFFICES ASSUME Owes(d, p)' PROVE Trying(d, p)' \/ HeldBy(d, p)'
  BY DEF DebtHeld
<1>3. CASE Fills(t, d)
  BY <1>2, <1>3 DEF Fills, Trying, Unconfirmed, Slot, Owes
<1>4. CASE ~Fills(t, d)
  <2>1. Owes(d, p)
    BY <1>1, <1>2, <1>4, SlotFrame DEF Slot, Owes, Clears
  <2>2. CASE Trying(d, p) /\ d[1] # t
    BY <1>1, <2>2 DEF Trying, Frame, DebtRefs
  <2>3. CASE Trying(d, p) /\ d[1] = t
    BY <1>1, <1>2, <2>1, <2>3, TryingStep
  <2>4. CASE HeldBy(d, p)
    BY <1>1, <1>2, <2>1, <2>4, HolderStep
  <2> QED BY <1>1, <2>1, <2>2, <2>3, <2>4 DEF DebtHeld
<1> QED BY <1>3, <1>4

(* Every confirmed debt keeps its pointer in a container, or a writer on   *)
(* the way to it.                                                          *)
LEMMA ProtectedStep ==
  ASSUME AliveInv, NEW t \in Threads, Call(t) \/ Step(t), NEW d \in DebtRefs, NEW p \in Ptrs
  PROVE  Protected(d, p)'
<1>1. BooksInv /\ Domains /\ DebtDomains /\ Owing(t) /\ Frame(t) /\ Protected(d, p) /\ p # NONE
  BY StepFrame, TypeDomains, ConstantsOK
    DEF AliveInv, BooksInv, EnvInv, OwnInv, Own, TypeInv, TypeOK, DebtDomains
<1>2. SUFFICES ASSUME Owes(d, p)' PROVE Trying(d, p)' \/ Guarded(d, p)'
  BY DEF Protected
<1>3. CASE Fills(t, d)
  BY <1>2, <1>3 DEF Fills, Trying, Unconfirmed, Slot, Owes
<1>4. CASE ~Fills(t, d)
  <2>1. Owes(d, p)
    BY <1>1, <1>2, <1>4, SlotFrame DEF Slot, Owes, Clears
  <2>2. CASE Trying(d, p) /\ d[1] # t
    BY <1>1, <2>2 DEF Trying, Frame, DebtRefs
  <2>3. ASSUME Guarded(d, p) PROVE Guarded(d, p)'
    <3>1. ASSUME NEW s \in Storages, ptr[s] = p PROVE Guarded(d, p)'
      <4>1. ptr'[s] = p \/ (old'[t] = p /\ pc'[t] = "pay_inc")
        BY <1>1, <3>1, PtrStep
      <4> QED BY <4>1 DEF Guarded, Before
    <3>2. ASSUME NEW w \in Threads, old[w] = p, Before(w, d) PROVE Guarded(d, p)'
      <4>1. CASE w # t
        BY <1>1, <3>2, <4>1 DEF Guarded, Before, Frame
      <4>2. CASE w = t
        BY <1>1, <1>2, <2>1, <3>2, <4>2, BeforeStep DEF Guarded
      <4> QED BY <4>1, <4>2
    <3> QED BY <2>3, <3>1, <3>2 DEF Guarded
  <2>4. CASE Trying(d, p) /\ d[1] = t /\ ~Trying(d, p)'
    <3>1. \/ ptr[call[t].st] = p /\ call[t].st \in Storages
          \/ pc[t] = "confirm_control" /\ control[t] = Gen(gen[t]) /\ d = <<t, HELPING>>
      BY <1>1, <1>2, <2>1, <2>4, TryingStep
    <3>2. CASE ptr[call[t].st] = p /\ call[t].st \in Storages
      BY <2>3, <3>2 DEF Guarded
    <3>3. CASE pc[t] = "confirm_control" /\ control[t] = Gen(gen[t]) /\ d = <<t, HELPING>>
      <4>1. Covered(t, p)
        BY <2>4, <3>3 DEF AliveInv, Candid, Trying
      <4>2. call[t].st \in Storages
        BY <1>1, <3>3, CallFacts
          DEF BooksInv, EnvInv, OwnInv, TypeInv, Located, Placed, Housed, GuardPCs, TypeOK
      <4>3. ASSUME NEW w \in Threads, BeforeHelp(w, t) PROVE Before(w, d)
        BY <3>3, <4>3 DEF BeforeHelp, Before, HelpPCs
      <4> QED BY <2>3, <4>1, <4>2, <4>3 DEF Covered, Guarded
    <3> QED BY <3>1, <3>2, <3>3
  <2> QED BY <1>1, <2>1, <2>2, <2>3, <2>4 DEF Protected
<1> QED BY <1>3, <1>4

----------------------------------------------------------------------------
LEMMA InitAlive == Init => AliveInv
<1> SUFFICES ASSUME Init PROVE AliveInv
  OBVIOUS
<1>1. BooksInv
  BY InitBooks
<1>2. ASSUME NEW t \in Threads PROVE Addr(t) /\ Elsewhere(t) /\ \A p \in Ptrs : Candid(t, p)
  BY DEF Init, Addr, Elsewhere, Candid, InTransaction
<1>3. ASSUME NEW d \in DebtRefs, NEW p \in Ptrs PROVE ~Owes(d, p)
  BY ConstantsOK DEF Init, Owes, DebtRefs
<1> QED BY <1>1, <1>2, <1>3 DEF AliveInv, DebtHeld, Protected

LEMMA NextAlive ==
  ASSUME GenMod = 0
  PROVE  AliveInv /\ (\A p \in Ptrs : Balanced(p)) /\ [Next]_vars => AliveInv'
<1> SUFFICES ASSUME AliveInv, \A p \in Ptrs : Balanced(p), [Next]_vars PROVE AliveInv'
  OBVIOUS
<1>1. BooksInv /\ BooksInv'
  BY NextBooks DEF AliveInv
<1>2. CASE UNCHANGED vars
  <2> USE <1>2 DEF vars, heap, helping, user, loader, writer
  <2>1. ASSUME NEW t \in Threads PROVE Addr(t)' /\ Elsewhere(t)' /\ (\A p \in Ptrs : Candid(t, p))'
    BY DEF AliveInv, Addr, Elsewhere, Candid, Covered, BeforeHelp
  <2>2. ASSUME NEW d \in DebtRefs, NEW p \in Ptrs PROVE DebtHeld(d, p)' /\ Protected(d, p)'
    BY DEF AliveInv, DebtHeld, Protected, Owes, Trying, HeldBy, Ending, Guarded, Before
  <2> QED BY <1>1, <2>1, <2>2 DEF AliveInv
<1>3. ASSUME NEW t \in Threads, Call(t) \/ Step(t) PROVE AliveInv'
  <2>1. ASSUME NEW u \in Threads PROVE Addr(u)' /\ Elsewhere(u)' /\ (\A p \in Ptrs : Candid(u, p))'
    <3>1. CASE u = t
      BY <1>1, <1>3, <3>1, AddrStep, ElsewhereStep, CandidStep DEF AliveInv
    <3>2. CASE u # t
      BY <1>1, <1>3, <3>2, AddrOther, ElsewhereOther, CandidOther DEF AliveInv
    <3> QED BY <3>1, <3>2
  <2>2. ASSUME NEW d \in DebtRefs, NEW p \in Ptrs PROVE DebtHeld(d, p)' /\ Protected(d, p)'
    BY <1>3, DebtHeldStep, ProtectedStep
  <2> QED BY <1>1, <2>1, <2>2 DEF AliveInv
<1> QED BY <1>2, <1>3 DEF Next

----------------------------------------------------------------------------
(* The claim c is the one that the debt d stands for. *)
Backs(d, p, c) ==
  \/ c = <<"val", d[1]>> /\ Trying(d, p)
  \/ /\ ~Trying(d, p)
     /\ \/ \E h \in Handles : c = <<"guard", h>> /\ guard[h] = Protection(p, d)
        \/ \E t \in Threads : c = <<"held", t>> /\ held[t] = Protection(p, d)
        \/ \E t \in Threads : c = <<"val", t>> /\ Ending(t, d, p)

(* Every debt stands for a claim of its own.  Hence an object whose count  *)
(* is not positive has as many debts as claims, and no claim is left for a *)
(* container or a writer that would protect a confirmed debt.              *)
LEMMA DeadClaims ==
  ASSUME AliveInv, \A p \in Ptrs : Balanced(p),
         NEW p \in Ptrs, cnt[p] <= 0, NEW c \in Claims(p)
  PROVE  \E d \in Debts(p) : c = <<"val", d[1]>> /\ d[1] \in Threads /\ Trying(d, p)
<1>1. /\ IsFiniteSet(Claims(p)) /\ Cardinality(Claims(p)) \in Nat /\ Cardinality(Debts(p)) \in Nat
      /\ cnt[p] + Cardinality(Debts(p)) = Cardinality(Claims(p)) /\ cnt[p] \in Int
  <2>1. IsFiniteSet(Claims(p)) /\ cnt[p] + Cardinality(Debts(p)) = Cardinality(Claims(p))
        /\ Cardinality(Debts(p)) \in Nat
    BY ClaimsCount DEF Counted, Balanced
  <2>2. cnt[p] \in Int
    BY DEF AliveInv, BooksInv, EnvInv, OwnInv, TypeInv, TypeOK
  <2> QED BY <2>1, <2>2, FS_CardinalityType
<1>2. \A d \in Debts(p) : d \in DebtRefs /\ d[1] \in Threads /\ Owes(d, p)
  BY DEF Debts, DebtRefs
<1>3. ASSUME NEW d \in Debts(p) PROVE \E x \in Claims(p) : Backs(d, p, x)
  <2>0. /\ Protection(p, d) # NONE /\ Protection(p, d).ptr = p
        /\ Unconfirmed \subseteq Referring /\ {"inner_inc", "inner_pay", "drop_pay"} \subseteq Referring
    BY <1>2, ProtectionFacts, WordFacts, ConstantsOK DEF Protection, Referring
  <2>1. CASE Trying(d, p)
    <3>1. <<"val", d[1]>> \in Claims(p)
      BY <1>2, <2>0, <2>1 DEF Trying, Claims
    <3> QED BY <2>1, <3>1 DEF Backs
  <2>2. ASSUME ~Trying(d, p), NEW h \in Handles, guard[h] = Protection(p, d)
        PROVE  \E x \in Claims(p) : Backs(d, p, x)
    <3>1. <<"guard", h>> \in Claims(p)
      BY <2>0, <2>2 DEF Claims
    <3> QED BY <2>2, <3>1 DEF Backs
  <2>3. ASSUME ~Trying(d, p), NEW t \in Threads, held[t] = Protection(p, d)
        PROVE  \E x \in Claims(p) : Backs(d, p, x)
    <3>1. <<"held", t>> \in Claims(p)
      BY <2>0, <2>3 DEF Claims
    <3> QED BY <2>3, <3>1 DEF Backs
  <2>4. ASSUME ~Trying(d, p), NEW t \in Threads, Ending(t, d, p)
        PROVE  \E x \in Claims(p) : Backs(d, p, x)
    <3>1. <<"val", t>> \in Claims(p)
      BY <2>0, <2>4 DEF Claims, Ending
    <3> QED BY <2>4, <3>1 DEF Backs
  <2>5. Trying(d, p) \/ HeldBy(d, p)
    BY <1>2 DEF AliveInv, DebtHeld
  <2> QED BY <2>1, <2>2, <2>3, <2>4, <2>5 DEF HeldBy
<1>4. ASSUME NEW d \in Debts(p), NEW e \in Debts(p), NEW x, Backs(d, p, x), Backs(e, p, x)
      PROVE  d = e
  <2>1. Protection(p, d).debt = d /\ Protection(p, e).debt = e
    BY DEF Protection
  <2> QED BY <1>4, <2>1 DEF Backs, Trying, Ending
<1>5. ASSUME NEW d, NEW x, Backs(d, p, x) PROVE x[1] \in {"val", "guard", "held"}
  BY <1>5 DEF Backs
<1> DEFINE f == [d \in Debts(p) |-> CHOOSE x \in Claims(p) : Backs(d, p, x)]
<1>6. \A d \in Debts(p) : f[d] \in Claims(p) /\ Backs(d, p, f[d])
  BY <1>3
<1>7. f \in [Debts(p) -> Claims(p)]
  BY <1>6
<1> HIDE DEF f
<1>8. f \in Injection(Debts(p), Claims(p))
  BY <1>4, <1>6, <1>7 DEF Injection, IsInjective
<1>9. f \in Surjection(Debts(p), Claims(p))
  <2>1. /\ Cardinality(Debts(p)) <= Cardinality(Claims(p))
        /\ Cardinality(Debts(p)) = Cardinality(Claims(p)) => f \in Surjection(Debts(p), Claims(p))
    BY <1>1, <1>8, FS_Injection
  <2> QED BY <1>1, <2>1
<1>10. \A x \in Claims(p) : \E d \in Debts(p) : f[d] = x
  BY <1>9 DEF Surjection
<1>11. ASSUME NEW d \in Debts(p) PROVE Trying(d, p)
  <2>1. SUFFICES ASSUME Guarded(d, p) PROVE FALSE
    BY <1>2 DEF AliveInv, Protected
  <2>2. \E x \in Claims(p) : x[1] \in {"storage", "old"}
    <3>1. ASSUME NEW s \in Storages, ptr[s] = p PROVE <<"storage", s>> \in Claims(p)
      BY <3>1 DEF Claims
    <3>2. ASSUME NEW w \in Threads, old[w] = p PROVE <<"old", w>> \in Claims(p)
      BY <3>2 DEF Claims
    <3> QED BY <2>1, <3>1, <3>2 DEF Guarded
  <2> QED BY <1>5, <1>6, <1>10, <2>2
<1>12. PICK d \in Debts(p) : f[d] = c
  BY <1>10
<1> QED BY <1>2, <1>6, <1>11, <1>12 DEF Backs, Trying

LEMMA AliveSafe ==
  ASSUME AliveInv, \A p \in Ptrs : Balanced(p)
  PROVE  NoDangling
BY DeadClaims DEF NoDangling, Trying

(* Nobody holds freed memory, for every number of threads, slots,          *)
(* containers, addresses and calls: the debts of guards are paid before    *)
(* the writer gives up its reference (Debt::pay_all in src/debt/mod.rs,    *)
(* the two loads and HybridProtection of src/strategy/hybrid.rs).          *)
(* GenMod = 0: the generations do not wrap.                                *)
THEOREM NoDanglingReferences == ASSUME GenMod = 0 PROVE Spec => []NoDangling
<1>1. AliveInv /\ (\A p \in Ptrs : Balanced(p)) => NoDangling
  BY AliveSafe
<1>2. Init => AliveInv /\ \A p \in Ptrs : Balanced(p)
  BY InitAlive, InitBooks
<1>3. AliveInv /\ (\A p \in Ptrs : Balanced(p)) /\ [Next]_vars => AliveInv' /\ (\A p \in Ptrs : Balanced(p))'
  BY NextAlive, NextBooks DEF AliveInv
<1> QED BY <1>1, <1>2, <1>3, PTL DEF Spec

----------------------------------------------------------------------------
(* Loads are fresh: LoadFresh.  It needs that no writer of another         *)
(* container pays the debt of an attempt, so that there is one container   *)
(* or no fast slot.                                                        *)
OneContainer == \A a, b \in Storages : a = b
NoFastSlots == ~USE_FAST \/ DEBT_SLOT_CNT = 0

(* The window of a load has what the container holds. *)
Window(t) ==
  ret[t] # NONE /\ call[t].st # NONE => ptr[call[t].st] \in seen[t]

(* A load that is sure of its pointer, or that nobody has helped yet, has  *)
(* it in its window, and so has a replacement that is sent.                *)
Confirmed(t) ==
  /\ pc[t] \in {"inner_inc", "inner_pay", "inner_dec"} /\ call[t].st # NONE => val[t] \in seen[t]
  /\ pc[t] \in {"confirm_slot", "confirm_control"} /\ control[t] = Gen(gen[t]) =>
       val[t] \in seen[t]
Received(t) ==
  /\ IsReplacement(control[t]) \/ pc[t] = "confirm_envelope" => Sent(t) \in seen[t]
  /\ pc[t] \in {"confirm_offer", "unused_pay", "unused_dec"} => repl[t] \in seen[t]

(* As long as the reader is in the transaction that a helper found, the    *)
(* window of the helper's load is inside the reader's.                     *)
HelpReady == {"help_their", "help_store", "help_cas"}
Serving(t) ==
  /\ ret[t] = "help" /\ control[node[t]] = ctl[t] =>
       call[node[t]].st = call[t].st /\ seen[t] \subseteq seen[node[t]]
  /\ pc[t] \in HelpReady /\ control[node[t]] = ctl[t] => repl[t] \in seen[node[t]]

(* Who can pay the debt of an attempt keeps its object alive, and has done *)
(* so since before the attempt read it or took it out of the container     *)
(* afterwards.                                                             *)
Attempting == {"new_fast", "attempt_confirm", "attempt_pay"}
Payable(t, p) ==
  \/ OneContainer /\ \E w \in Threads : old[w] # NONE /\ old[w] = p
  \/ \E d \in DebtRefs : d[1] = t /\ HeldBy(d, p)
Reread(t) == pc[t] \in Attempting /\ Payable(t, val[t]) => val[t] \in seen[t]
Paid(t) ==
  pc[t] \in {"attempt_confirm", "attempt_pay"} /\ ~Owes(dref[t], val[t]) => val[t] \in seen[t]

(* Where loads are. *)
Entered(t) ==
  /\ pc[t] \in LoadPCs => ret[t] # NONE
  /\ ~USE_FAST => pc[t] \notin Attempting \cup {"attempt"}

Fresh(t) ==
  /\ Window(t) /\ Confirmed(t) /\ Received(t) /\ Serving(t)
  /\ Reread(t) /\ Paid(t) /\ Entered(t)
FreshInv == AliveInv /\ (\A p \in Ptrs : Balanced(p)) /\ \A t \in Threads : Fresh(t)

----------------------------------------------------------------------------
(* A load in progress leaves the history alone. *)
LEMMA LoadGoesOn ==
  ASSUME BooksInv, NEW t \in Threads, Load(t), ret'[t] # NONE
  PROVE  /\ ret' = ret /\ call' = call /\ ptr' = ptr /\ seen' = seen
         /\ node' = node /\ ctl' = ctl /\ old' = old
<1>1. Domains
  BY TypeDomains DEF BooksInv, EnvInv, OwnInv, TypeInv
<1>2. ASSUME NEW p, NEW d, Loaded(t, p, d)
      PROVE  d # NONE /\ WantsInner(t) /\ ret' = ret /\ call' = call
  BY <1>1, <1>2 DEF Loaded, Domains
<1>3. ASSUME NEW d, d # NONE, WantsInner(t), seen' = Closed(t, d) PROVE seen' = seen
  BY <1>3 DEF Closed, Closing, BooksInv, EnvInv, OwnInv, TypeInv, TypeOK
<1> QED
  BY <1>2, <1>3 DEF Load, AttemptLoad, NewFast, AttemptConfirm, AttemptPay, GetDebtAddr, GetDebtControl,
     Candidate, ConfirmSlot, ConfirmControl, ConfirmEnvelope, ConfirmOffer, UnusedPay, UnusedDec,
     InnerInc, InnerPay, InnerDec, TakeRef, heap, helping, user, loader, writer

(* A load begins, with a window on what the container holds. *)
LEMMA LoadBegins ==
  ASSUME BooksInv, NEW t \in Threads, Call(t) \/ Step(t), ret[t] = NONE, ret'[t] # NONE, ~Load(t)
  PROVE  /\ ptr' = ptr
         /\ \/ pc'[t] = "inner_inc" /\ call'[t].st = NONE
            \/ /\ pc'[t] = LoadEntry /\ seen'[t] = {ptr[call'[t].st]}
               /\ \A u \in Threads : u # t => seen'[u] = seen[u] \/ DropDec(t)
               /\ HelpAddr(t) \/ pc[t] \in {"idle", "drop_pay", "drop_dec"}
<1>1. Domains /\ Placed(t) /\ DOMAIN seen = Threads
  BY TypeDomains DEF BooksInv, EnvInv, OwnInv, TypeInv, Located, TypeOK
<1> USE <1>1 DEF Domains, heap, helping, user, loader, writer
<1>2. CASE Call(t)
  <2>1. ASSUME NEW op, NEW s, NEW k, CallLoad(t, op, s, k)
        PROVE  /\ ptr' = ptr /\ pc'[t] = LoadEntry /\ seen'[t] = {ptr[call'[t].st]} /\ pc[t] = "idle"
               /\ \A u \in Threads : u # t => seen'[u] = seen[u]
    BY <2>1 DEF CallLoad, Begin
  <2>2. ASSUME NEW s, NEW k, NEW c, NEW p, CallCas(t, s, k, c, p)
        PROVE  /\ ptr' = ptr /\ pc'[t] = LoadEntry /\ seen'[t] = {ptr[call'[t].st]} /\ pc[t] = "idle"
               /\ \A u \in Threads : u # t => seen'[u] = seen[u]
    BY <2>2 DEF CallCas, Begin
  <2>3. ASSUME NEW h, NEW k, CallGuardIntoInner(t, h, k)
        PROVE  ptr' = ptr /\ pc'[t] = "inner_inc" /\ call'[t].st = NONE
    BY <2>3 DEF CallGuardIntoInner, Begin
  <2> QED BY <1>2, <2>1, <2>2, <2>3 DEF Call, CallDrop, CallSwap, CallNew, CallGuardDrop
<1>3. CASE DropPay(t) \/ DropDec(t)
  <2>1. call' = call /\ call[t].op = "compare_and_swap" /\ pc'[t] = LoadEntry
    BY <1>3 DEF DropPay, DropDec, Dropped
  <2>2. \A u \in Threads : DropPay(t) /\ u # t => seen'[u] = seen[u]
    BY <2>1 DEF DropPay, Reopened
  <2>3. seen'[t] = {ptr[call[t].st]}
    <3>1. ASSUME NEW w, DOMAIN w = Threads PROVE Reopened(t, w)[t] = {ptr[call[t].st]}
      BY <2>1, <3>1 DEF Reopened
    <3>2. DOMAIN Freed(val[t], {}) = Threads
      BY DEF Freed
    <3> QED BY <1>3, <3>1, <3>2, <2>1 DEF DropPay, DropDec, Dropped
  <2> QED BY <1>3, <2>1, <2>2, <2>3 DEF DropPay, DropDec
<1>4. CASE Write(t)
  BY <1>4 DEF Write, Help, HelpControl, HelpAddr, HelpRecheck, HelpTheir,
     HelpStore, HelpCas, HelpTook, HelpDrop, Swap, PayInc, PaySlot, PayMore, PayDrop, Release,
     CasCheck, CasExchange, CasDropNew
<1> QED BY <1>2, <1>3, <1>4 DEF Step

(* The windows that a step of t neither opens nor closes: nothing happens  *)
(* to them, or they get what is stored, or lose what is freed.             *)
Steady(t, u) == u # t \/ (ret[t] # NONE /\ ret'[t] # NONE)
LEMMA SeenMoves ==
  ASSUME BooksInv, NEW t \in Threads, Call(t) \/ Step(t)
  PROVE  \/ \A u \in Threads : Steady(t, u) => seen'[u] = seen[u]
         \/ seen' = Stored(call[t].st, new[t])
         \/ \E p : /\ cnt' = Dec(p)
                   /\ \A u \in Threads : Steady(t, u) =>
                        seen'[u] = IF p \in Ptrs /\ Dec(p)[p] = 0 THEN seen[u] \ {p} ELSE seen[u]
<1>1. Domains /\ Placed(t) /\ DOMAIN seen = Threads
  BY TypeDomains DEF BooksInv, EnvInv, OwnInv, TypeInv, Located, TypeOK
<1>2. CASE \A u \in Threads : Steady(t, u) => seen'[u] = seen[u]
  BY <1>2
<1>3. ASSUME NEW p, NEW done \in SUBSET {t}, DropRef(p, done), t \in done => ~Steady(t, t)
      PROVE  \A u \in Threads : Steady(t, u) =>
               seen'[u] = IF p \in Ptrs /\ Dec(p)[p] = 0 THEN seen[u] \ {p} ELSE seen[u]
  BY <1>3 DEF DropRef, Freed, Steady
<1>4. CASE Load(t) /\ ret'[t] # NONE
  BY <1>4, LoadGoesOn
<1>5. CASE Load(t) /\ ret'[t] = NONE
  <2>1. ~Steady(t, t)
    BY <1>5 DEF Steady
  <2>2. ASSUME NEW d, seen' = Closed(t, d) PROVE \A u \in Threads : Steady(t, u) => seen'[u] = seen[u]
    BY <2>1, <2>2 DEF Closed, Closing
  <2>3. Closing(t, NONE) \in SUBSET {t}
    BY DEF Closing
  <2>4. CASE UnusedDec(t) \/ InnerDec(t)
    BY <1>3, <2>1, <2>3, <2>4 DEF UnusedDec, InnerDec, DropRef
  <2>5. CASE ~UnusedDec(t) /\ ~InnerDec(t)
    BY <1>5, <2>2, <2>5 DEF Load, AttemptLoad, NewFast, AttemptConfirm, AttemptPay, GetDebtAddr, GetDebtControl,
       Candidate, ConfirmSlot, ConfirmControl, ConfirmEnvelope, ConfirmOffer, UnusedPay,
       InnerInc, InnerPay, TakeRef, heap
  <2> QED BY <2>4, <2>5
<1>6. CASE ~Load(t)
  <2>1. ~Steady(t, t)
    <3>1. ret[t] = NONE \/ pc[t] \in LoadPCs
      BY <1>1 DEF Placed, Walking
    <3> QED BY <1>6, <3>1, Running DEF Steady
  <2>2. CASE UNCHANGED seen
    BY <2>2
  <2>3. ASSUME NEW x, seen' = [seen EXCEPT ![t] = x] PROVE \A u \in Threads : Steady(t, u) => seen'[u] = seen[u]
    BY <1>1, <2>1, <2>3
  <2>4. CASE Call(t)
    BY <2>2, <2>3, <2>4 DEF Call, CallLoad, CallDrop, CallSwap, CallNew, CallCas, CallGuardDrop,
       CallGuardIntoInner, TakeRef, heap
  <2>5. CASE DropPay(t)
    BY <2>2, <2>3, <2>5 DEF DropPay, Reopened
  <2>6. CASE DropDec(t)
    <3>1. \A u \in Threads : u # t => seen'[u] = Freed(val[t], {})[u]
      BY <2>6 DEF DropDec, Reopened, Freed
    <3>2. cnt' = Dec(val[t])
      BY <2>6 DEF DropDec
    <3> QED BY <2>1, <3>1, <3>2 DEF Freed
  <2>7. CASE Write(t)
    <3>1. CASE HelpDrop(t) \/ PayDrop(t) \/ Release(t) \/ CasDropNew(t)
      <4>1. PICK p : DropRef(p, {})
        BY <3>1 DEF HelpDrop, PayDrop, Release, CasDropNew
      <4> QED BY <1>3, <4>1 DEF DropRef
    <3>2. CASE ~(HelpDrop(t) \/ PayDrop(t) \/ Release(t) \/ CasDropNew(t))
      BY <2>2, <2>3, <2>7, <3>2 DEF Write, Help, HelpControl, HelpAddr, HelpRecheck, HelpTheir,
         HelpStore, HelpCas, HelpTook, Swap, PayInc, PaySlot, PayMore, CasCheck, CasExchange, TakeRef, heap
    <3> QED BY <3>1, <3>2
  <2> QED BY <1>6, <2>4, <2>5, <2>6, <2>7 DEF Step
<1> QED BY <1>4, <1>5, <1>6

(* What is in such a window stays there, unless it is freed. *)
LEMMA SeenKept ==
  ASSUME BooksInv, NEW t \in Threads, Call(t) \/ Step(t), NEW u \in Threads, Steady(t, u),
         NEW x \in seen[u]
  PROVE  x \in seen'[u] \/ (x \in Ptrs /\ cnt'[x] <= 0)
<1>1. CASE seen' = Stored(call[t].st, new[t])
  BY <1>1 DEF Stored
<1>2. ASSUME NEW p, cnt' = Dec(p), seen'[u] = IF p \in Ptrs /\ Dec(p)[p] = 0 THEN seen[u] \ {p} ELSE seen[u]
      PROVE  x \in seen'[u] \/ (x \in Ptrs /\ cnt'[x] <= 0)
  BY <1>2
<1> QED BY <1>1, <1>2, SeenMoves

(* And a window inside another one stays inside. *)
LEMMA SeenInside ==
  ASSUME BooksInv, NEW t \in Threads, Call(t) \/ Step(t), NEW u \in Threads, NEW v \in Threads,
         Steady(t, u), Steady(t, v), call[u].st = call[v].st, seen[u] \subseteq seen[v]
  PROVE  seen'[u] \subseteq seen'[v]
<1>1. CASE seen' = Stored(call[t].st, new[t])
  BY <1>1 DEF Stored
<1>2. ASSUME NEW p, seen'[u] = (IF p \in Ptrs /\ Dec(p)[p] = 0 THEN seen[u] \ {p} ELSE seen[u]),
             seen'[v] = (IF p \in Ptrs /\ Dec(p)[p] = 0 THEN seen[v] \ {p} ELSE seen[v])
      PROVE  seen'[u] \subseteq seen'[v]
  BY <1>2
<1> QED BY <1>1, <1>2, SeenMoves

(* What somebody may use is not freed. *)
LEMMA ClaimKeeps ==
  ASSUME BooksInv, NEW t \in Threads, Call(t) \/ Step(t), NEW u \in Threads, Steady(t, u),
         NEW x \in seen[u], AliveInv', (\A p \in Ptrs : Balanced(p))',
         NEW c, c \in Claims(x)',
         c \notin {"val"} \X {w \in Threads : pc'[w] \in Unconfirmed}
  PROVE  x \in seen'[u]
<1>1. SUFFICES ASSUME x \in Ptrs, cnt'[x] <= 0 PROVE FALSE
  BY SeenKept
<1>2. NoDangling'
  BY AliveSafe, PTL
<1> QED BY <1>1, <1>2 DEF NoDangling

----------------------------------------------------------------------------
(* Where a thread enters a load. *)
LEMMA EnteredStep ==
  ASSUME BooksInv, NEW t \in Threads, Call(t) \/ Step(t), Entered(t)
  PROVE  Entered(t)'
<1>1. Domains
  BY TypeDomains DEF BooksInv, EnvInv, OwnInv, TypeInv
<1> USE <1>1 DEF Domains, Entered, Attempting, LoadPCs, LoadEntry, heap, helping, user, loader, writer
<1>2. CASE Call(t)
  BY <1>2, ConstantsOK DEF Call, CallLoad, CallDrop, CallSwap, CallNew, CallCas, CallGuardDrop,
   CallGuardIntoInner, Begin, Dropping
<1>3. CASE Load(t)
  BY <1>3, ConstantsOK DEF Load, AttemptLoad, NewFast, AttemptConfirm, AttemptPay, GetDebtAddr, GetDebtControl,
     Candidate, ConfirmSlot, ConfirmControl, ConfirmEnvelope, ConfirmOffer, UnusedPay, UnusedDec,
     InnerInc, InnerPay, InnerDec, Loaded, Return
<1>4. CASE DropPay(t) \/ DropDec(t)
  BY <1>4, ConstantsOK DEF DropPay, DropDec, Dropped, Return
<1>5. CASE Write(t)
  BY <1>5, ConstantsOK DEF Write, Help, HelpControl, HelpAddr, HelpRecheck, HelpTheir,
   HelpStore, HelpCas, HelpTook, HelpDrop, HelpLoop, HelpSent, HelpFailed,
   Swap, PayInc, PaySlot, PayMore, PayDrop, Release, NextSlot, Return,
   CasCheck, CasExchange, CasDropNew, Dropping
<1> QED BY <1>2, <1>3, <1>4, <1>5 DEF Step

(* What a thread in a load takes is a step of the load. *)
LEMMA InLoad ==
  ASSUME BooksInv, NEW t \in Threads, Call(t) \/ Step(t)
  PROVE  (ret[t] # NONE => Load(t)) /\ (pc[t] \in LoadPCs => Load(t))
<1>1. Placed(t)
  BY DEF BooksInv, EnvInv, OwnInv, TypeInv, Located
<1> QED BY <1>1, Running DEF Placed, Walking

(* A container that is in use is only written, and the windows on it see   *)
(* what is.                                                                *)
LEMMA PtrSeen ==
  ASSUME BooksInv, NEW t \in Threads, Call(t) \/ Step(t), NEW u \in Threads, call[u].st # NONE
  PROVE  \/ ptr'[call[u].st] = ptr[call[u].st]
         \/ ptr'[call[u].st] = new[t] /\ call[u].st = call[t].st /\ seen' = Stored(call[u].st, new[t])
<1>1. Domains /\ DOMAIN ptr = Storages /\ call[u].st \in Storages
  BY TypeDomains, CallFacts DEF BooksInv, EnvInv, OwnInv, TypeInv, TypeOK
<1>2. CASE UNCHANGED ptr
  BY <1>2
<1>3. CASE Swap(t) \/ CasExchange(t)
  BY <1>1, <1>3 DEF Swap, CasExchange
<1>4. CASE Call(t)
  <2>1. ASSUME NEW r, NEW x, CallNew(t, r, x) PROVE ptr'[call[u].st] = ptr[call[u].st]
    BY <1>1, <2>1 DEF CallNew
  <2>2. ASSUME NEW op, NEW r, NEW k, CallDrop(t, op, r, k) PROVE ptr'[call[u].st] = ptr[call[u].st]
    BY <1>1, <2>2 DEF CallDrop
  <2> QED
    BY <1>2, <1>4, <2>1, <2>2 DEF Call, CallLoad, CallSwap, CallCas, CallGuardDrop, CallGuardIntoInner
<1>6. CASE Load(t)
  BY <1>2, <1>6 DEF Load, AttemptLoad, NewFast, AttemptConfirm, AttemptPay, GetDebtAddr, GetDebtControl,
       Candidate, ConfirmSlot, ConfirmControl, ConfirmEnvelope, ConfirmOffer, UnusedPay, UnusedDec,
       InnerInc, InnerPay, InnerDec
<1>7. CASE DropPay(t) \/ DropDec(t)
  BY <1>2, <1>7 DEF DropPay, DropDec
<1>8. CASE Write(t)
  BY <1>2, <1>3, <1>8 DEF Write, Help, HelpControl, HelpAddr, HelpRecheck, HelpTheir,
     HelpStore, HelpCas, HelpTook, HelpDrop, PayInc, PaySlot, PayMore, PayDrop, Release,
     CasCheck, CasDropNew
<1> QED BY <1>4, <1>6, <1>7, <1>8 DEF Step

LEMMA WindowStep ==
  ASSUME BooksInv, NEW t \in Threads, Call(t) \/ Step(t), Window(t)
  PROVE  Window(t)'
<1> SUFFICES ASSUME ret'[t] # NONE, call'[t].st # NONE PROVE ptr'[call'[t].st] \in seen'[t]
  BY DEF Window
<1>1. CASE Load(t)
  BY <1>1, LoadGoesOn DEF Window
<1>2. CASE ~Load(t)
  BY <1>2, InLoad, LoadBegins
<1> QED BY <1>1, <1>2

LEMMA WindowOther ==
  ASSUME BooksInv, NEW t \in Threads, Call(t) \/ Step(t), AliveInv', (\A p \in Ptrs : Balanced(p))',
         NEW u \in Threads, u # t, Window(u)
  PROVE  Window(u)'
<1>1. Frame(t) /\ TypeOK
  BY StepFrame, TypeDomains DEF BooksInv, EnvInv, OwnInv, TypeInv
<1>2. SUFFICES ASSUME ret[u] # NONE, call[u].st # NONE PROVE ptr'[call[u].st] \in seen'[u]
  BY <1>1 DEF Window, Frame
<1>3. call[u].st \in Storages /\ ptr[call[u].st] \in seen[u] /\ Steady(t, u)
  BY <1>1, <1>2, CallFacts DEF TypeOK, Window, Steady
<1>4. CASE ptr'[call[u].st] = ptr[call[u].st]
  <2>1. PICK x \in seen[u] : x = ptr[call[u].st]
    BY <1>3
  <2>2. PICK s \in Storages : s = call[u].st
    BY <1>3
  <2>3. <<"storage", s>> \in Claims(x)'
    BY <1>4, <2>1, <2>2 DEF Claims
  <2>4. <<"storage", s>> \notin {"val"} \X {w \in Threads : pc'[w] \in Unconfirmed}
    OBVIOUS
  <2>5. x \in seen'[u]
    BY <1>3, <2>3, <2>4, ClaimKeeps
  <2> QED BY <1>4, <2>1, <2>5
<1>5. CASE ptr'[call[u].st] = new[t] /\ seen' = Stored(call[u].st, new[t])
  BY <1>3, <1>5 DEF Stored
<1> QED BY <1>2, <1>4, <1>5, PtrSeen

----------------------------------------------------------------------------
(* The pointer of a load is in its window. *)
LEMMA ConfirmedStep ==
  ASSUME BooksInv, NEW t \in Threads, Call(t) \/ Step(t), Window(t), Confirmed(t), Entered(t)
  PROVE  Confirmed(t)'
<1>1. Domains /\ Placed(t) /\ Entered(t)'
  BY TypeDomains, EnteredStep DEF BooksInv, EnvInv, OwnInv, TypeInv, Located
<1> SUFFICES ASSUME pc'[t] \in {"inner_inc", "inner_pay", "inner_dec", "confirm_slot", "confirm_control"}
             PROVE  Confirmed(t)'
  BY DEF Confirmed
<1>2. ret'[t] # NONE
  BY <1>1 DEF Entered, LoadPCs
<1>3. CASE ~Load(t)
  BY <1>2, <1>3, InLoad, LoadBegins, PCFacts DEF Confirmed
<1>4. CASE Load(t)
  <2>1. ret' = ret /\ call' = call /\ seen' = seen
    BY <1>2, <1>4, LoadGoesOn
  <2>2. call[t].st = NONE => pc[t] \in GuardPCs \cup {"idle"}
    BY <1>1 DEF Placed, Housed
  <2> USE <1>1 DEF Domains, Confirmed, Window
  <2>3. CASE AttemptConfirm(t)
    BY <1>2, <2>1, <2>2, <2>3 DEF AttemptConfirm, Loaded
  <2>4. CASE Candidate(t)
    BY <1>2, <2>1, <2>2, <2>4 DEF Candidate, GuardPCs
  <2>5. CASE ConfirmSlot(t)
    BY <2>1, <2>5 DEF ConfirmSlot, helping
  <2>6. CASE ConfirmControl(t)
    BY <2>1, <2>6 DEF ConfirmControl
  <2>7. CASE InnerInc(t)
    BY <2>1, <2>7 DEF InnerInc, loader
  <2>8. CASE InnerPay(t)
    BY <1>2, <2>1, <2>8 DEF InnerPay, Loaded
  <2> QED BY <1>2, <1>4, <2>3, <2>4, <2>5, <2>6, <2>7, <2>8 DEF Load, AttemptLoad, NewFast, AttemptPay,
       GetDebtAddr, GetDebtControl, ConfirmEnvelope, ConfirmOffer, UnusedPay, UnusedDec, InnerDec, Loaded
<1> QED BY <1>3, <1>4

LEMMA ConfirmedOther ==
  ASSUME BooksInv, NEW t \in Threads, Call(t) \/ Step(t), AliveInv', (\A p \in Ptrs : Balanced(p))',
         NEW u \in Threads, u # t, Confirmed(u)
  PROVE  Confirmed(u)'
<1>1. Frame(t) /\ Domains /\ Steady(t, u)
  BY StepFrame, TypeDomains DEF BooksInv, EnvInv, OwnInv, TypeInv, Steady
<1>2. ASSUME pc[u] \in {"inner_inc", "inner_pay", "inner_dec"}, call[u].st # NONE PROVE val[u] \in seen'[u]
  <2>1. PICK x \in seen[u] : x = val[u]
    BY <1>2 DEF Confirmed
  <2>2. <<"val", u>> \in Claims(x)'
    BY <1>1, <1>2, <2>1 DEF Claims, Referring, Frame
  <2>3. <<"val", u>> \notin {"val"} \X {w \in Threads : pc'[w] \in Unconfirmed}
    BY <1>1, <1>2 DEF Unconfirmed, Frame
  <2> QED BY <1>1, <2>1, <2>2, <2>3, ClaimKeeps
<1>3. ASSUME pc[u] \in {"confirm_slot", "confirm_control"}, control'[u] = Gen(gen[u]) PROVE val[u] \in seen'[u]
  <2>1. control[u] = Gen(gen[u])
    <3>1. control'[u] = control[u] \/ Sends(t, u)
      BY <1>1, ControlFrame
    <3>2. \A e : Replacement(e) # Gen(gen[u])
      BY DEF Replacement, Gen
    <3> QED BY <1>3, <3>1, <3>2 DEF Sends
  <2>2. PICK x \in seen[u] : x = val[u]
    BY <1>3, <2>1 DEF Confirmed
  <2>3. SUFFICES ASSUME x \in Ptrs PROVE x \in seen'[u]
    BY <1>1, <2>2, SeenKept
  <2>4. Covered(u, x)'
    BY <1>1, <1>3, <2>2, <2>3 DEF AliveInv, Candid, Frame
  <2>5. PICK s : s = call'[u].st
    OBVIOUS
  <2>6. s \in Storages
    <3>1. Placed(u)' /\ TypeOK'
      BY DEF AliveInv, BooksInv, EnvInv, OwnInv, TypeInv, Located
    <3> QED BY <1>1, <1>3, <2>5, <3>1, CallFacts DEF Placed, Housed, GuardPCs, TypeOK, Frame
  <2>7. CASE ptr'[s] = x
    <3>1. <<"storage", s>> \in Claims(x)'
      BY <2>6, <2>7 DEF Claims
    <3>2. <<"storage", s>> \notin {"val"} \X {w \in Threads : pc'[w] \in Unconfirmed}
      OBVIOUS
    <3> QED BY <1>1, <3>1, <3>2, ClaimKeeps
  <2>8. ASSUME NEW w \in Threads, old'[w] = x PROVE x \in seen'[u]
    <3>1. <<"old", w>> \in Claims(x)'
      BY <2>8 DEF Claims
    <3>2. <<"old", w>> \notin {"val"} \X {v \in Threads : pc'[v] \in Unconfirmed}
      OBVIOUS
    <3> QED BY <1>1, <3>1, <3>2, ClaimKeeps
  <2> QED BY <2>4, <2>5, <2>7, <2>8 DEF Covered
<1> QED BY <1>1, <1>2, <1>3 DEF Confirmed, Frame

----------------------------------------------------------------------------
(* So is the replacement that it receives. *)
LEMMA ReceivedStep ==
  ASSUME BooksInv, BooksInv', NEW t \in Threads, Call(t) \/ Step(t), Received(t), Entered(t)
  PROVE  Received(t)'
<1>1. Domains /\ Placed(t) /\ Quiet(t) /\ Entered(t)' /\ Quiet(t)'
  BY TypeDomains, EnteredStep DEF BooksInv, EnvInv, OwnInv, TypeInv, Located, Own
<1>2. ~IsReplacement(IDLE) /\ (\A g : ~IsReplacement(Gen(g))) /\ \A c \in ReplacementWords : IsReplacement(c)
  BY ConstantsOK DEF IsReplacement, Gen, ReplacementWords
<1>3. SUFFICES ASSUME \/ IsReplacement(control'[t])
                      \/ pc'[t] \in {"confirm_envelope", "confirm_offer", "unused_pay", "unused_dec"}
               PROVE  Received(t)'
  BY DEF Received
<1>4. pc'[t] \in InTransaction \cup {"confirm_envelope", "confirm_offer", "unused_pay", "unused_dec"}
  BY <1>1, <1>2, <1>3 DEF Quiet
<1>5. ret'[t] # NONE
  BY <1>1, <1>4 DEF Entered, LoadPCs, InTransaction
<1>6. CASE ~Load(t)
  BY <1>4, <1>5, <1>6, InLoad, LoadBegins, PCFacts DEF InTransaction
<1>7. CASE Load(t)
  <2>1. seen' = seen
    BY <1>5, <1>7, LoadGoesOn
  <2>2. CASE ConfirmEnvelope(t)
    <3>1. control[t] = IDLE /\ control' = control /\ pc'[t] = "confirm_offer" /\ repl'[t] = handover[env[t]]
      BY <1>1, <2>2 DEF ConfirmEnvelope, Quiet, InTransaction, Domains, helping
    <3>2. Sent(t) = handover[env[t]] /\ Sent(t) \in seen[t]
      BY <2>2, SentFrame DEF Received, ConfirmEnvelope
    <3> QED BY <1>2, <2>1, <3>1, <3>2 DEF Received
  <2>3. CASE ~ConfirmEnvelope(t)
    <3>1. Sent(t)' = Sent(t)
      BY <2>3, SentFrame
    <3>2. /\ IsReplacement(control'[t]) \/ pc'[t] = "confirm_envelope" =>
               IsReplacement(control[t]) \/ pc[t] = "confirm_envelope"
          /\ pc'[t] \in {"confirm_offer", "unused_pay", "unused_dec"} =>
               pc[t] \in {"confirm_offer", "unused_pay", "unused_dec"} /\ repl'[t] = repl[t]
      BY <1>1, <1>2, <1>5, <1>7, <2>3 DEF Load, AttemptLoad, NewFast, AttemptConfirm, AttemptPay, GetDebtAddr,
         GetDebtControl, Candidate, ConfirmSlot, ConfirmControl, ConfirmOffer, UnusedPay, UnusedDec,
         InnerInc, InnerPay, InnerDec, Loaded, Domains, Placed, Published, InTransaction, helping, loader
    <3> QED BY <2>1, <3>1, <3>2 DEF Received
  <2> QED BY <2>2, <2>3
<1> QED BY <1>6, <1>7

LEMMA ReceivedOther ==
  ASSUME BooksInv, NEW t \in Threads, Call(t) \/ Step(t), AliveInv', (\A p \in Ptrs : Balanced(p))',
         NEW u \in Threads, u # t, Received(u), Serving(t)
  PROVE  Received(u)'
<1>1. Frame(t) /\ Domains /\ Steady(t, u)
  BY StepFrame, TypeDomains DEF BooksInv, EnvInv, OwnInv, TypeInv, Steady
<1>2. ASSUME IsReplacement(control'[u]) \/ pc'[u] = "confirm_envelope" PROVE Sent(u)' \in seen'[u]
  <2>1. CASE Sends(t, u)
    <3>1. HelpCas(t) /\ Sent(u)' = repl[t]
      BY <1>1, <2>1, SentFrame
    <3>2. repl[t] \in seen[u]
      BY <2>1 DEF Sends, Serving, HelpReady
    <3> QED BY <3>1, <3>2 DEF HelpCas, heap
  <2>2. CASE ~Sends(t, u)
    <3>1. control'[u] = control[u] /\ pc'[u] = pc[u] /\ Sent(u)' = Sent(u)
      BY <1>1, <2>2, ControlFrame, SentFrame DEF Frame
    <3>2. PICK x \in seen[u] : x = Sent(u)
      BY <1>2, <3>1 DEF Received
    <3>3. <<"sent", u>> \in Claims(x)'
      BY <3>1, <3>2 DEF Claims
    <3>4. <<"sent", u>> \notin {"val"} \X {w \in Threads : pc'[w] \in Unconfirmed}
      OBVIOUS
    <3> QED BY <1>1, <3>1, <3>2, <3>3, <3>4, ClaimKeeps
  <2> QED BY <2>1, <2>2
<1>3. ASSUME pc'[u] \in {"confirm_offer", "unused_pay", "unused_dec"} PROVE repl'[u] \in seen'[u]
  <2>1. PICK x \in seen[u] : x = repl[u]
    BY <1>1, <1>3 DEF Received, Frame
  <2>2. <<"repl", u>> \in Claims(x)'
    BY <1>1, <2>1 DEF Claims, Frame
  <2>3. <<"repl", u>> \notin {"val"} \X {w \in Threads : pc'[w] \in Unconfirmed}
    OBVIOUS
  <2> QED BY <1>1, <2>1, <2>2, <2>3, ClaimKeeps DEF Frame
<1> QED BY <1>2, <1>3 DEF Received

----------------------------------------------------------------------------
(* What a load hands over is in its window. *)
LEMMA LoadDelivers ==
  ASSUME BooksInv, NEW t \in Threads, Load(t), Delivers(t),
         Window(t), Confirmed(t), Received(t), Paid(t)
  PROVE  Result(t) \in seen[t]
<1>1. Domains /\ TypeOK /\ Books(t) /\ Owing(t) /\ DOMAIN guard = Handles
  BY TypeDomains DEF BooksInv, EnvInv, OwnInv, TypeInv, Own, TypeOK
<1>2. ret[t] # NONE /\ ret'[t] = NONE /\ call[t].st # NONE
  BY DEF Delivers
<1>3. ASSUME NEW p \in Words, NEW d \in DebtRefs \cup {NONE}, Loaded(t, p, d) PROVE Result(t) = p
  <2>1. ret[t] \in {"user", "cas", "help"} /\ (ret[t] = "help" => d = NONE \/ ~WantsInner(t))
    BY <1>1, <1>2, <1>3 DEF TypeOK, Loaded
  <2>2. Protection(p, d) # NONE /\ Protection(p, d).ptr = p
    BY ProtectionFacts, ConstantsOK DEF Protection
  <2>3. CASE ret[t] = "user"
    <3>1. PICK h : h = <<t, call[t].hnd>>
      OBVIOUS
    <3>2. h \in Handles
      BY <1>1, <2>3, <3>1 DEF Books, HandleOK, Receiving, Handles
    <3>3. Return(t, Protection(p, d))
      BY <1>1, <1>2, <1>3, <2>3 DEF Loaded
    <3> QED BY <1>1, <2>2, <2>3, <3>1, <3>2, <3>3 DEF Return, Result
  <2>4. CASE ret[t] = "cas"
    BY <1>1, <1>2, <1>3, <2>2, <2>4 DEF Loaded, Result, Domains
  <2>5. CASE ret[t] = "help"
    BY <1>1, <1>2, <1>3, <2>5 DEF Loaded, Result, Domains
  <2> QED BY <2>1, <2>3, <2>4, <2>5
<1>4. val[t] \in Words /\ repl[t] \in Words /\ dref[t] \in DebtRefs \cup {NONE}
  BY <1>1 DEF TypeOK
<1>5. CASE AttemptConfirm(t)
  BY <1>2, <1>3, <1>4, <1>5 DEF AttemptConfirm, Window
<1>6. CASE AttemptPay(t)
  BY <1>2, <1>3, <1>4, <1>6 DEF AttemptPay, Paid
<1>7. CASE UnusedPay(t) \/ UnusedDec(t)
  BY <1>2, <1>3, <1>4, <1>7 DEF UnusedPay, UnusedDec, Received
<1>8. CASE InnerPay(t) \/ InnerDec(t)
  BY <1>2, <1>3, <1>4, <1>8 DEF InnerPay, InnerDec, Confirmed
<1> QED BY <1>2, <1>5, <1>6, <1>7, <1>8 DEF Load, AttemptLoad, NewFast, GetDebtAddr, GetDebtControl,
     Candidate, ConfirmSlot, ConfirmControl, ConfirmEnvelope, ConfirmOffer, InnerInc, user, loader

----------------------------------------------------------------------------
(* The reader that a helper works for. *)
LEMMA ServingStep ==
  ASSUME BooksInv, NEW t \in Threads, Call(t) \/ Step(t), AliveInv', (\A p \in Ptrs : Balanced(p))',
         Window(t), Confirmed(t), Received(t), Paid(t), Serving(t),
         \A n \in Threads : Addr(n) /\ Window(n) /\ Entered(n)
  PROVE  Serving(t)'
<1>1. Domains /\ TypeOK /\ Placed(t) /\ Own(t) /\ Frame(t) /\ Placed(t)' /\ Own(t)'
  BY TypeDomains, StepFrame DEF AliveInv, BooksInv, EnvInv, OwnInv, TypeInv, Located
<1>2. SUFFICES ASSUME ret'[t] = "help" \/ pc'[t] \in HelpReady, control'[node'[t]] = ctl'[t] PROVE Serving(t)'
  BY DEF Serving
<1>3. PICK n : n = node'[t]
  OBVIOUS
<1>4. n \in Threads /\ n # t /\ IsGen(ctl'[t])
  BY <1>1, <1>2, <1>3, ConstantsOK DEF Placed, Walking, HelpPCs, LoadPCs, HelpReady, Own, Foreign, Helping
<1>5. control'[n] = control[n]
  <2>1. ~IsGen(Replacement(space_offer[t]))
    BY DEF IsGen, Replacement
  <2> QED BY <1>1, <1>2, <1>3, <1>4, <2>1, ControlFrame DEF Sends
<1>6. CASE Load(t) /\ ret'[t] # NONE
  <2>1. /\ ret' = ret /\ call' = call /\ seen' = seen /\ node' = node /\ ctl' = ctl
    BY <1>6, LoadGoesOn
  <2>2. pc'[t] \in LoadPCs
    BY <1>1, <1>6 DEF Placed, Walking
  <2> QED BY <1>2, <1>3, <1>5, <2>1, <2>2 DEF Serving, LoadPCs, HelpReady
<1>7. CASE Load(t) /\ ret'[t] = NONE
  <2>1. pc'[t] \in HelpReady /\ ret[t] = "help" /\ node' = node /\ ctl' = ctl /\ call[t].st # NONE
    BY <1>1, <1>2, <1>7, ConstantsOK DEF HelpReady, Load, AttemptLoad, NewFast, AttemptConfirm, AttemptPay,
       GetDebtAddr, GetDebtControl, Candidate, ConfirmSlot, ConfirmControl, ConfirmEnvelope, ConfirmOffer,
       UnusedPay, UnusedDec, InnerInc, InnerPay, InnerDec, Loaded, Return, Domains, writer, loader, Placed, Housed
  <2>2. PICK x \in seen[n] : x = repl'[t]
    <3>1. Result(t) = repl'[t]
      BY <2>1 DEF Result
    <3>2. Result(t) \in seen[t]
      BY <1>7, <2>1, LoadDelivers, ConstantsOK DEF Delivers
    <3> QED BY <1>2, <1>3, <1>5, <2>1, <3>1, <3>2 DEF Serving
  <2>3. <<"repl", t>> \in Claims(x)'
    BY <2>2 DEF Claims
  <2>4. <<"repl", t>> \notin {"val"} \X {w \in Threads : pc'[w] \in Unconfirmed}
    OBVIOUS
  <2>5. x \in seen'[n]
    BY <1>4, <2>2, <2>3, <2>4, ClaimKeeps DEF Steady
  <2> QED BY <1>3, <1>7, <2>2, <2>5, ConstantsOK DEF Serving
<1>8. CASE ~Load(t) /\ ret'[t] # NONE
  <2>1. ret[t] = NONE /\ ret'[t] = "help"
    <3>1. pc'[t] \in LoadPCs
      BY <1>1, <1>8 DEF Placed, Walking
    <3> QED BY <1>2, <1>8, <3>1, InLoad DEF LoadPCs, HelpReady
  <2>2. HelpAddr(t)
    <3> USE <1>1, <2>1, ConstantsOK DEF Domains
    <3>1. CASE Call(t)
      BY <3>1 DEF Call, CallLoad, CallDrop, CallSwap, CallNew, CallCas, CallGuardDrop,
       CallGuardIntoInner, loader
    <3>2. CASE DropPay(t) \/ DropDec(t)
      BY <3>2 DEF DropPay, DropDec, Dropped
    <3>3. CASE Write(t)
      BY <3>3 DEF Write, Help, HelpControl, HelpRecheck, HelpTheir, HelpStore,
       HelpCas, HelpTook, HelpDrop, Swap, PayInc, PaySlot, PayMore, PayDrop, Release,
       CasCheck, CasExchange, CasDropNew, loader
    <3> QED BY <1>8, <3>1, <3>2, <3>3 DEF Step
  <2>3. /\ active_addr[n] = call[t].st /\ seen' = [seen EXCEPT ![t] = {ptr[call[t].st]}]
        /\ call' = call /\ node' = node /\ ctl' = ctl /\ pc'[t] \notin HelpReady
    BY <1>1, <1>3, <2>1, <2>2, PCFacts, ConstantsOK DEF HelpAddr, Domains, user, writer, HelpReady
  <2>4. pc[n] \in InTransaction
    <3>1. Quiet(n) /\ IsGen(control[n])
      BY <1>2, <1>3, <1>4, <1>5 DEF BooksInv, EnvInv, OwnInv, Own
    <3> QED BY <3>1 DEF Quiet, IsGen
  <2>5. call[n].st = call[t].st /\ ret[n] # NONE
    BY <1>4, <2>3, <2>4 DEF Addr, Entered, InTransaction, LoadPCs
  <2>6. call[n].st # NONE
    BY <1>4, <2>4 DEF BooksInv, EnvInv, OwnInv, TypeInv, Located, Placed, Housed, InTransaction, GuardPCs
  <2>7. ptr[call[t].st] \in seen[n]
    BY <1>4, <2>5, <2>6 DEF Window
  <2>8. seen'[t] = {ptr[call[t].st]} /\ seen'[n] = seen[n]
    BY <1>1, <1>4, <2>3 DEF TypeOK
  <2> QED BY <1>3, <2>3, <2>5, <2>7, <2>8 DEF Serving
<1>9. CASE ~Load(t) /\ ret'[t] = NONE
  <2>1. HelpTheir(t) \/ HelpStore(t)
    <3> USE <1>1, <1>2, <1>9, ConstantsOK DEF Domains, HelpReady
    <3>1. CASE Call(t)
      BY <3>1, PCFacts DEF Call, CallLoad, CallDrop, CallSwap, CallNew, CallCas, CallGuardDrop,
       CallGuardIntoInner, Begin, Dropping
    <3>2. CASE DropPay(t) \/ DropDec(t)
      BY <3>2, PCFacts DEF DropPay, DropDec, Dropped, Return
    <3>3. CASE Write(t)
      BY <3>3, PCFacts DEF Write, Help, HelpControl, HelpAddr, HelpRecheck,
       HelpCas, HelpTook, HelpDrop, HelpLoop, HelpSent, HelpFailed,
       Swap, PayInc, PaySlot, PayMore, PayDrop, Release, NextSlot, Return,
       CasCheck, CasExchange, CasDropNew, Dropping
    <3> QED BY <1>9, <3>1, <3>2, <3>3 DEF Step
  <2> QED BY <1>1, <1>2, <1>3, <1>5, <1>9, <2>1, ConstantsOK
    DEF HelpTheir, HelpStore, Serving, HelpReady, Domains, heap, user, writer, loader
<1> QED BY <1>6, <1>7, <1>8, <1>9

(* As long as a generation is there, the load that published it goes on.  *)
LEMMA ServingOther ==
  ASSUME BooksInv, NEW t \in Threads, Call(t) \/ Step(t), AliveInv', (\A p \in Ptrs : Balanced(p))',
         NEW u \in Threads, u # t, Serving(u), Entered(t)
  PROVE  Serving(u)'
<1>1. /\ Frame(t) /\ Domains /\ TypeOK /\ Placed(u) /\ Own(u) /\ Past(u)
      /\ Quiet(t) /\ Quiet(t)' /\ Entered(t)'
  BY TypeDomains, StepFrame, EnteredStep DEF AliveInv, BooksInv, EnvInv, OwnInv, TypeInv, Located, Own
<1>2. PICK n : n = node[u]
  OBVIOUS
<1>3. SUFFICES ASSUME ret[u] = "help" \/ pc[u] \in HelpReady, control'[n] = ctl[u] PROVE Serving(u)'
  BY <1>1, <1>2 DEF Serving, Frame
<1>4. n \in Threads /\ n # u /\ IsGen(ctl[u]) /\ Helping(u)
  BY <1>1, <1>2, <1>3, ConstantsOK DEF Placed, Walking, HelpPCs, LoadPCs, HelpReady, Own, Foreign, Helping
<1>5. control[n] = ctl[u] /\ Steady(t, n) /\ call'[n] = call[n]
  <2>1. CASE n # t
    <3>1. control'[n] = control[n] \/ Sends(t, n)
      BY <1>1, <1>4, <2>1, ControlFrame
    <3>2. \A e : ~IsGen(Replacement(e))
      BY DEF IsGen, Replacement
    <3> QED BY <1>1, <1>3, <1>4, <2>1, <3>1, <3>2 DEF Sends, Steady, Frame
  <2>2. CASE n = t
    <3>1. ctl[u] # IDLE
      BY <1>4 DEF IsGen
    <3>2. pc[t] = "get_debt" => control'[t] # Gen(gen[t])
      BY <1>1, <1>2, <1>3, <1>4, <2>2 DEF Past, Gen, TypeOK
    <3>3. control'[t] = control[t]
      BY <1>3, <2>2, <3>1, <3>2, ControlOwn DEF BooksInv, EnvInv
    <3>4. pc[t] \in InTransaction /\ pc'[t] \in InTransaction
      BY <1>1, <1>3, <2>2, <3>1, <3>3 DEF Quiet
    <3>5. ret[t] # NONE /\ ret'[t] # NONE
      BY <1>1, <3>4 DEF Entered, InTransaction, LoadPCs
    <3> QED BY <1>3, <2>2, <3>3, <3>5, InLoad, LoadGoesOn DEF Steady
  <2> QED BY <2>1, <2>2
<1>6. ASSUME ret[u] = "help" PROVE call'[n].st = call'[u].st /\ seen'[u] \subseteq seen'[n]
  <2>1. call[n].st = call[u].st /\ seen[u] \subseteq seen[n]
    BY <1>2, <1>5, <1>6 DEF Serving
  <2> QED BY <1>1, <1>4, <1>5, <2>1, SeenInside DEF Steady, Frame
<1>7. ASSUME pc[u] \in HelpReady PROVE repl[u] \in seen'[n]
  <2>1. PICK x \in seen[n] : x = repl[u]
    BY <1>2, <1>5, <1>7 DEF Serving
  <2>2. <<"repl", u>> \in Claims(x)'
    BY <1>1, <2>1 DEF Claims, Frame
  <2>3. <<"repl", u>> \notin {"val"} \X {w \in Threads : pc'[w] \in Unconfirmed}
    OBVIOUS
  <2> QED BY <1>4, <1>5, <2>1, <2>2, <2>3, ClaimKeeps
<1> QED BY <1>1, <1>2, <1>6, <1>7 DEF Serving, Frame

----------------------------------------------------------------------------
(* A debt of another thread gets no new holder. *)
LEMMA HolderBack ==
  ASSUME BooksInv, NEW t \in Threads, Call(t) \/ Step(t), NEW d \in DebtRefs, NEW p \in Words,
         d[1] # t, HeldBy(d, p)'
  PROVE  HeldBy(d, p)
<1>1. Domains /\ TypeOK /\ Owing(t) /\ Frame(t) /\ Placed(t) /\ DOMAIN guard = Handles
  BY TypeDomains, StepFrame DEF BooksInv, EnvInv, OwnInv, TypeInv, Own, TypeOK, Located
<1>2. d # NONE /\ Protection(p, d) # NONE /\ \A x, e : Protection(x, e).debt = e
  BY ConstantsOK, ProtectionFacts DEF Protection
<1>3. \A g \in Protections \cup {NONE} : g # NONE => g = Protection(g.ptr, g.debt)
  BY DEF Protection, Protections
<1>4. pc[t] \in {"attempt_confirm", "confirm_control"} => dref[t] # d
  BY <1>1 DEF Owing, Holding
<1> USE <1>1, <1>2, <1>4 DEF Domains, heap, helping, user, loader, writer
<1>5. ASSUME NEW h \in Handles, guard'[h] = Protection(p, d) PROVE HeldBy(d, p)
  <2>1. CASE guard'[h] = guard[h]
    BY <1>5, <2>1 DEF HeldBy
  <2>2. ASSUME NEW res, Return(t, res), guard'[h] # guard[h] PROVE res = Protection(p, d)
    BY <1>5, <2>2 DEF Return
  <2>3. CASE Call(t)
    BY <1>5, <2>1, <2>3 DEF Call, CallLoad, CallDrop, CallSwap, CallNew, CallCas, CallGuardDrop,
     CallGuardIntoInner
  <2>4. CASE Load(t)
    <3>1. ASSUME NEW x, NEW e, Loaded(t, x, e), guard'[h] # guard[h] PROVE e = d
      BY <2>2, <3>1 DEF Loaded
    <3> QED BY <1>5, <2>1, <2>4, <3>1 DEF Load, AttemptLoad, NewFast, AttemptConfirm, AttemptPay, GetDebtAddr,
       GetDebtControl, Candidate, ConfirmSlot, ConfirmControl, ConfirmEnvelope, ConfirmOffer,
       UnusedPay, UnusedDec, InnerInc, InnerPay, InnerDec
  <2>5. CASE DropPay(t) \/ DropDec(t)
    BY <1>5, <2>1, <2>2, <2>5 DEF DropPay, DropDec, Dropped
  <2>6. CASE Release(t) \/ CasDropNew(t)
    BY <1>5, <2>1, <2>2, <2>6 DEF Release, CasDropNew, HeldBy
  <2>7. CASE PayDrop(t)
    BY <1>5, <2>1, <2>2, <2>7 DEF PayDrop
  <2>8. CASE Write(t) /\ ~Release(t) /\ ~CasDropNew(t) /\ ~PayDrop(t)
    BY <2>1, <2>8 DEF Write, Help, HelpControl, HelpAddr, HelpRecheck, HelpTheir,
       HelpStore, HelpCas, HelpTook, HelpDrop, Swap, PayInc, PaySlot, PayMore, CasCheck, CasExchange
  <2> QED BY <2>3, <2>4, <2>5, <2>6, <2>7, <2>8 DEF Step
<1>6. ASSUME NEW u \in Threads, held'[u] = Protection(p, d) PROVE HeldBy(d, p)
  <2>1. CASE held'[u] = held[u]
    BY <1>6, <2>1 DEF HeldBy
  <2>2. CASE held'[t] = NONE \/ u # t
    BY <1>6, <2>1, <2>2 DEF Frame
  <2>3. CASE Call(t)
    BY <2>1, <2>3 DEF Call, CallLoad, CallDrop, CallSwap, CallNew, CallCas, CallGuardDrop,
     CallGuardIntoInner
  <2>4. CASE Load(t)
    <3>1. ASSUME NEW x, NEW e, Loaded(t, x, e), held'[u] # held[u] PROVE e = d
      BY <1>6, <3>1 DEF Loaded, Frame
    <3> QED BY <1>6, <2>1, <2>4, <3>1 DEF Load, AttemptLoad, NewFast, AttemptConfirm, AttemptPay, GetDebtAddr,
       GetDebtControl, Candidate, ConfirmSlot, ConfirmControl, ConfirmEnvelope, ConfirmOffer,
       UnusedPay, UnusedDec, InnerInc, InnerPay, InnerDec
  <2>5. CASE DropPay(t) \/ DropDec(t)
    BY <2>1, <2>5 DEF DropPay, DropDec
  <2>6. CASE Write(t)
    BY <2>1, <2>2, <2>6 DEF Write, Help, HelpControl, HelpAddr, HelpRecheck, HelpTheir,
       HelpStore, HelpCas, HelpTook, HelpDrop, Swap, PayInc, PaySlot, PayMore, PayDrop, Release,
       CasCheck, CasExchange, CasDropNew
  <2> QED BY <2>3, <2>4, <2>5, <2>6 DEF Step
<1>7. ASSUME NEW u \in Threads, Ending(u, d, p)' PROVE HeldBy(d, p)
  <2>1. CASE u # t
    BY <1>7, <2>1 DEF Frame, Ending, HeldBy
  <2>2. CASE u = t
    <3>1. pc'[t] \in {"inner_inc", "inner_pay", "drop_pay"} /\ val'[t] = p /\ dref'[t] = d
      BY <1>7, <2>2 DEF Ending
    <3>2. ASSUME NEW h \in Handles, guard[h] # NONE, guard[h].ptr = p, guard[h].debt = d PROVE HeldBy(d, p)
      BY <1>3, <3>2 DEF HeldBy, TypeOK
    <3>3. CASE Call(t)
      <4>1. ASSUME NEW h \in Handles, CallGuardDrop(t, h) PROVE HeldBy(d, p)
        BY <3>1, <3>2, <4>1 DEF CallGuardDrop, Dropping
      <4>2. ASSUME NEW h \in Handles, NEW k, CallGuardIntoInner(t, h, k) PROVE HeldBy(d, p)
        BY <3>1, <3>2, <4>2 DEF CallGuardIntoInner
      <4> QED BY <3>1, <3>3, <4>1, <4>2, PCFacts DEF Call, CallLoad, CallDrop, CallSwap, CallNew, CallCas, Begin
    <3>4. CASE InnerInc(t)
      BY <3>1, <3>4 DEF InnerInc, HeldBy, Ending
    <3>5. CASE Load(t) /\ ~InnerInc(t)
      BY <3>1, <3>5 DEF Load, AttemptLoad, NewFast, AttemptConfirm, AttemptPay, GetDebtAddr,
       GetDebtControl, Candidate, ConfirmSlot, ConfirmControl, ConfirmEnvelope, ConfirmOffer,
       UnusedPay, UnusedDec, InnerPay, InnerDec, Loaded, Return
    <3>6. CASE DropPay(t) \/ DropDec(t)
      BY <3>1, <3>6, PCFacts DEF DropPay, DropDec, Dropped, Return
    <3>7. CASE CasExchange(t)
      <4>1. held[t] \in Protections /\ Dropping(t, held[t])
        BY <3>1, <3>7 DEF CasExchange, Placed, Equipped
      <4>2. held[t].ptr = p /\ held[t].debt = d /\ held[t] # NONE
        BY <3>1, <4>1, ConstantsOK DEF Dropping
      <4> QED BY <1>3, <4>1, <4>2 DEF HeldBy
    <3>8. CASE Write(t) /\ ~CasExchange(t)
      BY <3>1, <3>8, PCFacts DEF Write, Help, HelpControl, HelpAddr, HelpRecheck, HelpTheir,
       HelpStore, HelpCas, HelpTook, HelpDrop, HelpLoop, HelpSent, HelpFailed, Swap, PayInc, PaySlot, PayMore,
       PayDrop, Release, NextSlot, CasCheck, CasDropNew, Return
    <3> QED BY <3>3, <3>4, <3>5, <3>6, <3>7, <3>8 DEF Step
  <2> QED BY <2>1, <2>2
<1> QED BY <1>5, <1>6, <1>7 DEF HeldBy

(* What a writer takes out was in a container. *)
LEMMA OldMoves ==
  ASSUME BooksInv, NEW t \in Threads, Call(t) \/ Step(t)
  PROVE  old'[t] = old[t] \/ old'[t] = NONE \/ \E s \in Storages : old'[t] = ptr[s]
<1>1. Domains /\ TypeOK /\ Books(t) /\ Placed(t)
  BY TypeDomains DEF BooksInv, EnvInv, OwnInv, TypeInv, Located
<1> USE <1>1 DEF Domains, writer
<1>2. CASE Call(t)
  BY <1>2 DEF Call, CallLoad, CallDrop, CallSwap, CallNew, CallCas, CallGuardDrop, CallGuardIntoInner
<1>3. CASE Load(t)
  BY <1>3 DEF Load, AttemptLoad, NewFast, AttemptConfirm, AttemptPay, GetDebtAddr, GetDebtControl,
       Candidate, ConfirmSlot, ConfirmControl, ConfirmEnvelope, ConfirmOffer, UnusedPay, UnusedDec,
       InnerInc, InnerPay, InnerDec
<1>4. CASE DropPay(t) \/ DropDec(t)
  BY <1>4 DEF DropPay, DropDec
<1>5. CASE Swap(t) \/ CasExchange(t)
  <2>1. call[t].st \in Storages
    BY <1>5, CallFacts DEF Swap, CasExchange, Placed, Housed, GuardPCs, TypeOK
  <2>2. CASE Swap(t)
    BY <2>1, <2>2 DEF Swap
  <2>3. CASE CasExchange(t)
    BY <2>1, <2>3 DEF CasExchange, Books, CasOK
  <2> QED BY <1>5, <2>2, <2>3
<1>6. CASE Write(t)
  BY <1>5, <1>6 DEF Write, Help, HelpControl, HelpAddr, HelpRecheck, HelpTheir,
     HelpStore, HelpCas, HelpTook, HelpDrop, PayInc, PaySlot, PayMore, PayDrop, Release,
     CasCheck, CasDropNew
<1> QED BY <1>2, <1>3, <1>4, <1>6 DEF Step

----------------------------------------------------------------------------
(* Who can pay the debt of an attempt has a claim to its object. *)
LEMMA PayableKeeps ==
  ASSUME BooksInv, NEW t \in Threads, Call(t) \/ Step(t), AliveInv', (\A p \in Ptrs : Balanced(p))',
         NEW u \in Threads, Steady(t, u), NEW x \in seen[u], Payable(u, x)'
  PROVE  x \in seen'[u]
<1> DEFINE Unsure == {"val"} \X {w \in Threads : pc'[w] \in Unconfirmed}
<1>1. ASSUME NEW w \in Threads, old'[w] = x PROVE x \in seen'[u]
  <2>1. <<"old", w>> \in Claims(x)' /\ <<"old", w>> \notin Unsure
    BY <1>1 DEF Claims
  <2> QED BY <2>1, ClaimKeeps
<1>2. ASSUME NEW d \in DebtRefs, HeldBy(d, x)' PROVE x \in seen'[u]
  <2>1. Protection(x, d) # NONE /\ Protection(x, d).ptr = x
    <3>1. x \in Words
      BY DEF BooksInv, EnvInv, OwnInv, TypeInv, TypeOK
    <3> QED BY <3>1, ProtectionFacts, ConstantsOK DEF Protection
  <2>2. ASSUME NEW h \in Handles, guard'[h] = Protection(x, d) PROVE x \in seen'[u]
    <3>1. <<"guard", h>> \in Claims(x)' /\ <<"guard", h>> \notin Unsure
      BY <2>1, <2>2 DEF Claims
    <3> QED BY <3>1, ClaimKeeps
  <2>3. ASSUME NEW w \in Threads, held'[w] = Protection(x, d) PROVE x \in seen'[u]
    <3>1. <<"held", w>> \in Claims(x)' /\ <<"held", w>> \notin Unsure
      BY <2>1, <2>3 DEF Claims
    <3> QED BY <3>1, ClaimKeeps
  <2>4. ASSUME NEW w \in Threads, Ending(w, d, x)' PROVE x \in seen'[u]
    <3>1. <<"val", w>> \in Claims(x)' /\ <<"val", w>> \notin Unsure
      BY <2>4 DEF Claims, Ending, Referring, Unconfirmed
    <3> QED BY <3>1, ClaimKeeps
  <2> QED BY <1>2, <2>2, <2>3, <2>4 DEF HeldBy
<1> QED BY <1>1, <1>2 DEF Payable

LEMMA RereadStep ==
  ASSUME BooksInv, NEW t \in Threads, Call(t) \/ Step(t), Window(t), Reread(t), Entered(t)
  PROVE  Reread(t)'
<1>1. Domains /\ TypeOK /\ Placed(t) /\ Frame(t) /\ Entered(t)'
  BY TypeDomains, StepFrame, EnteredStep DEF BooksInv, EnvInv, OwnInv, TypeInv, Located
<1>2. SUFFICES ASSUME pc'[t] \in Attempting, Payable(t, val[t])' PROVE val'[t] \in seen'[t]
  BY DEF Reread
<1>3. ret'[t] # NONE
  BY <1>1, <1>2 DEF Entered, Attempting, LoadPCs
<1>4. Load(t)
  BY <1>2, <1>3, InLoad, LoadBegins, PCFacts DEF Attempting
<1>5. ret' = ret /\ call' = call /\ ptr' = ptr /\ seen' = seen /\ old' = old
  BY <1>3, <1>4, LoadGoesOn
<1>6. CASE AttemptLoad(t)
  BY <1>1, <1>3, <1>5, <1>6 DEF AttemptLoad, Domains, Window, Placed, Housed, GuardPCs
<1>7. CASE ~AttemptLoad(t)
  <2>1. pc[t] \in Attempting /\ val'[t] = val[t] /\ guard' = guard /\ held' = held
    BY <1>1, <1>2, <1>4, <1>7 DEF Attempting, Load, NewFast, AttemptConfirm, AttemptPay, GetDebtAddr,
       GetDebtControl, Candidate, ConfirmSlot, ConfirmControl, ConfirmEnvelope, ConfirmOffer,
       UnusedPay, UnusedDec, InnerInc, InnerPay, InnerDec, Loaded, Return, Domains, user, loader, writer
  <2>2. \A w \in Threads, d \in DebtRefs : \A x : Ending(w, d, x)' => Ending(w, d, x)
    BY <1>1, <1>2 DEF Ending, Attempting, Frame
  <2>3. Payable(t, val[t])
    BY <1>2, <1>5, <2>1, <2>2 DEF Payable, HeldBy
  <2> QED BY <1>5, <2>1, <2>3 DEF Reread
<1> QED BY <1>6, <1>7

(* With one container, what a writer takes out during the attempt is in    *)
(* the window.                                                             *)
LEMMA RereadOther ==
  ASSUME BooksInv, NEW t \in Threads, Call(t) \/ Step(t), AliveInv', (\A p \in Ptrs : Balanced(p))',
         NEW u \in Threads, u # t, Window(u), Reread(u), Entered(u)
  PROVE  Reread(u)'
<1>1. Frame(t) /\ Steady(t, u) /\ TypeOK /\ Placed(u)
  BY TypeDomains, StepFrame DEF BooksInv, EnvInv, OwnInv, TypeInv, Located, Steady
<1>2. PICK x \in Words : x = val[u]
  BY <1>1 DEF TypeOK
<1>3. SUFFICES ASSUME pc[u] \in Attempting, Payable(u, x)' PROVE x \in seen'[u]
  BY <1>1, <1>2 DEF Reread, Frame, Payable, HeldBy, Ending
<1>4. ret[u] # NONE /\ call[u].st \in Storages /\ call[u].st # NONE
  BY <1>1, <1>3, CallFacts DEF Entered, Attempting, LoadPCs, Placed, Housed, GuardPCs, TypeOK
<1>5. x \in seen[u]
  <2>1. CASE Payable(u, x)
    BY <1>2, <1>3, <2>1 DEF Reread
  <2>2. CASE ~Payable(u, x)
    <3>1. \A d \in DebtRefs : d[1] = u /\ HeldBy(d, x)' => HeldBy(d, x)
      BY HolderBack
    <3>2. PICK w \in Threads : OneContainer /\ old'[w] # NONE /\ old'[w] = x
      BY <1>3, <2>2, <3>1 DEF Payable
    <3>3. w = t /\ old'[t] # old[t]
      BY <1>1, <2>2, <3>2 DEF Payable, Frame
    <3>4. PICK s \in Storages : old'[t] = ptr[s]
      BY <3>2, <3>3, OldMoves
    <3>5. s = call[u].st
      BY <1>4, <3>2 DEF OneContainer
    <3> QED BY <1>4, <3>2, <3>3, <3>4, <3>5 DEF Window
  <2> QED BY <2>1, <2>2
<1> QED BY <1>1, <1>3, <1>5, PayableKeeps

----------------------------------------------------------------------------
(* The debt of an attempt that somebody has paid. *)
LEMMA PaidStep ==
  ASSUME BooksInv, NEW t \in Threads, Call(t) \/ Step(t), Paid(t), Entered(t)
  PROVE  Paid(t)'
<1>1. Domains /\ TypeOK /\ Entered(t)' /\ DebtDomains
  BY TypeDomains, EnteredStep DEF BooksInv, EnvInv, OwnInv, TypeInv, TypeOK, DebtDomains
<1>2. SUFFICES ASSUME pc'[t] \in {"attempt_confirm", "attempt_pay"} PROVE Paid(t)'
  BY DEF Paid
<1>3. ret'[t] # NONE
  BY <1>1, <1>2 DEF Entered, LoadPCs
<1>4. Load(t)
  BY <1>2, <1>3, InLoad, LoadBegins, PCFacts
<1>5. seen' = seen
  BY <1>3, <1>4, LoadGoesOn
<1>6. CASE NewFast(t)
  <2>1. PICK s \in FastSlots : debt' = [debt EXCEPT ![t][s] = val[t]] /\ dref'[t] = <<t, s>> /\ val' = val
    BY <1>1, <1>2, <1>6 DEF NewFast, Domains
  <2>2. FastSlots \subseteq Slots
    BY ConstantsOK DEF Slots, FastSlots, HELPING
  <2>3. debt'[t][s] = val[t]
    BY <1>1, <2>1, <2>2 DEF DebtDomains
  <2> QED BY <2>1, <2>3 DEF Paid, Owes
<1>7. CASE ~NewFast(t)
  BY <1>1, <1>2, <1>4, <1>5, <1>7 DEF Paid, Owes, Load, AttemptLoad, AttemptConfirm, AttemptPay, GetDebtAddr,
       GetDebtControl, Candidate, ConfirmSlot, ConfirmControl, ConfirmEnvelope, ConfirmOffer,
       UnusedPay, UnusedDec, InnerInc, InnerPay, InnerDec, Loaded, Return, Domains
<1> QED BY <1>6, <1>7

(* A free object is owed by loads that will not confirm it, and by nobody  *)
(* else.                                                                   *)
Abandoned ==
  \A p \in Ptrs : cnt[p] <= 0 =>
    \A c \in Claims(p) : \E d \in Debts(p) : c = <<"val", d[1]>> /\ Trying(d, p)
LEMMA AbandonedTried == AliveInv /\ (\A p \in Ptrs : Balanced(p)) => Abandoned
BY DeadClaims DEF Abandoned

(* Who pays it could pay it before, and an object with a debt paid is not  *)
(* free: the attempt has its claim and no debt.                            *)
LEMMA PaidOther ==
  ASSUME BooksInv, NEW t \in Threads, Call(t) \/ Step(t), AliveInv', (\A p \in Ptrs : Balanced(p))',
         OneContainer \/ NoFastSlots,
         NEW u \in Threads, u # t, Reread(u), Paid(u), Entered(u)
  PROVE  Paid(u)'
<1>1. /\ Domains /\ Frame(t) /\ Steady(t, u) /\ TypeOK /\ Own(u) /\ Own(t) /\ DebtDomains
  BY TypeDomains, StepFrame DEF BooksInv, EnvInv, OwnInv, TypeInv, TypeOK, Steady, DebtDomains
<1>2. PICK x \in Words : x = val[u]
  BY <1>1 DEF TypeOK
<1>3. PICK d : d = dref[u]
  OBVIOUS
<1>4. SUFFICES ASSUME pc[u] \in {"attempt_confirm", "attempt_pay"}, ~Owes(d, x)' PROVE x \in seen'[u]
  BY <1>1, <1>2, <1>3 DEF Paid, Frame, Owes
<1>5. d \in {u} \X FastSlots /\ d \in DebtRefs /\ d[1] = u
  BY <1>1, <1>3, <1>4, OwingRef DEF Own, Owing
<1>6. x \in seen[u]
  <2>1. CASE ~Owes(d, x)
    BY <1>2, <1>3, <1>4, <2>1 DEF Paid
  <2>2. CASE Owes(d, x)
    <3>1. Clears(t, d)
      BY <1>1, <1>4, <1>5, <2>2, SlotFrame DEF Own, Slot, Owes, Fills
    <3>2. Slot(d) = x /\ x # NONE
      BY <1>4, <2>2, <3>1 DEF Clears, Slot, Owes
    <3>3. Payable(u, x)
      <4>1. CASE pc[t] \in {"attempt_pay", "unused_pay"} /\ dref[t] = d
        BY <1>1, <1>5, <4>1 DEF Own, Owing, Holding
      <4>2. CASE pc[t] \in {"inner_pay", "drop_pay"} /\ dref[t] = d /\ Slot(d) = val[t]
        BY <1>5, <3>2, <4>2 DEF Payable, HeldBy, Ending
      <4>3. CASE Slot(d) = old[t]
        <5>1. OneContainer
          BY <1>4, <1>5, ConstantsOK DEF NoFastSlots, Entered, Attempting, FastSlots
        <5> QED BY <3>2, <4>3, <5>1 DEF Payable
      <4> QED BY <3>1, <4>1, <4>2, <4>3 DEF Clears
    <3> QED BY <1>2, <1>4, <3>3 DEF Reread, Attempting
  <2> QED BY <2>1, <2>2
<1>7. SUFFICES ASSUME x \in Ptrs, cnt'[x] <= 0 PROVE FALSE
  BY <1>1, <1>6, SeenKept
<1>8. <<"val", u>> \in Claims(x)'
  BY <1>1, <1>2, <1>4 DEF Frame, Claims, Referring, Unconfirmed
<1>9. PICK e \in Debts(x)' : <<"val", u>> = <<"val", e[1]>> /\ Trying(e, x)'
  <2>1. Abandoned'
    BY AbandonedTried, PTL
  <2> QED BY <1>7, <1>8, <2>1 DEF Abandoned
<1>10. e = d
  BY <1>1, <1>3, <1>9 DEF Trying, Frame
<1> QED BY <1>4, <1>9, <1>10 DEF Debts

----------------------------------------------------------------------------
LEMMA InitFresh == Init => FreshInv
<1> SUFFICES ASSUME Init PROVE FreshInv
  OBVIOUS
<1>1. AliveInv /\ \A p \in Ptrs : Balanced(p)
  BY InitAlive, InitBooks
<1>2. ASSUME NEW t \in Threads PROVE Fresh(t)
  <2>1. pc[t] = "idle" /\ ret[t] = NONE /\ control[t] = IDLE
    BY DEF Init
  <2> QED BY <2>1, ConstantsOK DEF Fresh, Window, Confirmed, Received, Serving, HelpReady, Reread, Paid,
        Entered, Attempting, LoadPCs, IsReplacement
<1> QED BY <1>1, <1>2 DEF FreshInv

LEMMA NextFresh ==
  ASSUME GenMod = 0, OneContainer \/ NoFastSlots
  PROVE  FreshInv /\ [Next]_vars => FreshInv'
<1> SUFFICES ASSUME FreshInv, [Next]_vars PROVE FreshInv'
  OBVIOUS
<1>1. BooksInv /\ AliveInv' /\ BooksInv' /\ (\A p \in Ptrs : Balanced(p))'
  BY NextAlive, NextBooks DEF FreshInv, AliveInv
<1>2. CASE UNCHANGED vars
  <2>1. ASSUME NEW t \in Threads PROVE Fresh(t)'
    <3>1. Fresh(t)
      BY DEF FreshInv
    <3> QED BY <1>2, <3>1 DEF vars, heap, helping, user, loader, writer, Fresh, Window, Confirmed, Received,
         Sent, Serving, Reread, Payable, HeldBy, Ending, Paid, Owes, Entered
  <2> QED BY <1>1, <2>1 DEF FreshInv
<1>3. ASSUME NEW t \in Threads, Call(t) \/ Step(t) PROVE FreshInv'
  <2>1. \A u \in Threads : Fresh(u) /\ Addr(u)
    BY DEF FreshInv, AliveInv
  <2>2. ASSUME NEW u \in Threads PROVE Fresh(u)'
    <3>1. CASE u = t
      <4> USE <1>1, <1>3, <2>1
      <4>1. Window(t)' /\ Confirmed(t)' /\ Received(t)'
        BY WindowStep, ConfirmedStep, ReceivedStep DEF Fresh
      <4>2. Serving(t)'
        BY ServingStep DEF Fresh
      <4>3. Reread(t)' /\ Paid(t)' /\ Entered(t)'
        BY RereadStep, PaidStep, EnteredStep DEF Fresh
      <4> QED BY <3>1, <4>1, <4>2, <4>3 DEF Fresh
    <3>2. CASE u # t
      <4> USE <1>1, <1>3, <2>1, <3>2
      <4>1. Window(u)' /\ Confirmed(u)' /\ Received(u)' /\ Serving(u)'
        BY WindowOther, ConfirmedOther, ReceivedOther, ServingOther DEF Fresh
      <4>2. Reread(u)' /\ Paid(u)'
        BY RereadOther, PaidOther DEF Fresh
      <4>3. Entered(u)'
        BY StepFrame, TypeDomains DEF BooksInv, EnvInv, OwnInv, TypeInv, Frame, Fresh, Entered
      <4> QED BY <4>1, <4>2, <4>3 DEF Fresh
    <3> QED BY <3>1, <3>2
  <2> QED BY <1>1, <2>2 DEF FreshInv
<1> QED BY <1>2, <1>3 DEF Next

(* A load returns what its container held at some moment between its start *)
(* and its end, and what was not freed since, whoever paid its debt or     *)
(* helped it (attempt and fallback of src/strategy/hybrid.rs), for every   *)
(* number of threads, slots, addresses and calls.  With fast slots there   *)
(* is one container: a writer of another one that holds the same object    *)
(* may pay for an attempt that its own container has disproved.            *)
THEOREM LoadsAreFresh ==
  ASSUME GenMod = 0, OneContainer \/ NoFastSlots
  PROVE  Spec => LoadFresh
<1>1. FreshInv /\ [Next]_vars => [\A t \in Threads : Delivers(t) => Result(t) \in seen[t]]_vars
  <2> SUFFICES ASSUME FreshInv, Next, NEW t \in Threads, Delivers(t) PROVE Result(t) \in seen[t]
    OBVIOUS
  <2>1. BooksInv /\ Fresh(t) /\ ret[t] # NONE /\ ret'[t] = NONE
    BY DEF FreshInv, AliveInv, Delivers
  <2>2. Call(t) \/ Step(t)
    <3>1. PICK u \in Threads : Call(u) \/ Step(u)
      BY DEF Next
    <3>2. Frame(u)
      BY <2>1, <3>1, StepFrame, TypeDomains DEF BooksInv, EnvInv, OwnInv, TypeInv
    <3> QED BY <2>1, <3>1, <3>2 DEF Frame
  <2> QED BY <2>1, <2>2, InLoad, LoadDelivers DEF Fresh
<1>2. FreshInv /\ [Next]_vars => FreshInv'
  BY NextFresh
<1>3. Init => FreshInv
  BY InitFresh
<1> QED BY <1>1, <1>2, <1>3, PTL DEF Spec, LoadFresh
=============================================================================
