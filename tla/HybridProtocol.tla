--------------------------- MODULE HybridProtocol ---------------------------
(***************************************************************************)
(* Proofs about the helping protocol of Hybrid: who writes which control   *)
(* word, slot and envelope, and when.                                      *)
(*                                                                         *)
(* OwnInv says what a thread relies on in its own node: the word is idle   *)
(* between transactions and the slot is its own.  EnvInv adds what a       *)
(* helper relies on in the node of its reader: a generation that is still  *)
(* there was not published anew, so the envelope read with it is the       *)
(* reader's still.                                                         *)
(***************************************************************************)
EXTENDS HybridProofs

(* A step of t leaves the variables of the other threads alone; only the   *)
(* control word and the debts of their nodes are shared.                   *)
Frame(t) == \A u \in Threads \ {t} :
  /\ pc'[u] = pc[u] /\ call'[u] = call[u] /\ ret'[u] = ret[u]
  /\ val'[u] = val[u] /\ dref'[u] = dref[u] /\ repl'[u] = repl[u]
  /\ env'[u] = env[u] /\ gen'[u] = gen[u]
  /\ new'[u] = new[u] /\ old'[u] = old[u] /\ held'[u] = held[u]
  /\ node'[u] = node[u] /\ i'[u] = i[u] /\ ctl'[u] = ctl[u]
  /\ space_offer'[u] = space_offer[u] /\ active_addr'[u] = active_addr[u]

(* All that the frames need of TypeOK. *)
Domains ==
  /\ DOMAIN pc = Threads /\ DOMAIN call = Threads /\ DOMAIN ret = Threads
  /\ DOMAIN val = Threads /\ DOMAIN dref = Threads /\ DOMAIN repl = Threads
  /\ DOMAIN env = Threads /\ DOMAIN gen = Threads /\ DOMAIN new = Threads
  /\ DOMAIN old = Threads /\ DOMAIN held = Threads /\ DOMAIN node = Threads
  /\ DOMAIN i = Threads /\ DOMAIN ctl = Threads /\ DOMAIN space_offer = Threads
  /\ DOMAIN active_addr = Threads /\ DOMAIN control = Threads

LEMMA TypeDomains == TypeOK => Domains
BY DEF TypeOK, Domains

(* Every step keeps the frame. *)
LEMMA StepFrame ==
  ASSUME Domains, NEW t \in Threads, Call(t) \/ Step(t)
  PROVE  Frame(t)
<1> USE DEF Domains, Frame, heap, helping, user, loader, writer
<1>1. CASE Call(t)
  <2>1. ASSUME NEW op, NEW s, NEW k, CallLoad(t, op, s, k) \/ CallDrop(t, op, s, k)
        PROVE Frame(t)
    BY <2>1 DEF CallLoad, CallDrop, Begin
  <2>2. ASSUME NEW op, NEW s, NEW k, NEW p, CallSwap(t, op, s, k, p) PROVE Frame(t)
    BY <2>2 DEF CallSwap, Begin
  <2>3. ASSUME NEW s, NEW p, CallNew(t, s, p) PROVE Frame(t)
    BY <2>3 DEF CallNew
  <2>4. ASSUME NEW s, NEW k, NEW c, NEW p, CallCas(t, s, k, c, p) PROVE Frame(t)
    BY <2>4 DEF CallCas, Begin
  <2>5. ASSUME NEW h, NEW k, CallGuardDrop(t, h) \/ CallGuardIntoInner(t, h, k) PROVE Frame(t)
    BY <2>5 DEF CallGuardDrop, CallGuardIntoInner, Begin, Dropping
  <2> QED BY <1>1, <2>1, <2>2, <2>3, <2>4, <2>5 DEF Call
<1>2. CASE Load(t)
  BY <1>2 DEF Load, AttemptLoad, NewFast, AttemptConfirm, AttemptPay, GetDebtAddr, GetDebtControl,
    Candidate, ConfirmSlot, ConfirmControl, ConfirmEnvelope, ConfirmOffer, UnusedPay, UnusedDec,
    InnerInc, InnerPay, InnerDec, Loaded, Return
<1>3. CASE DropPay(t) \/ DropDec(t)
  BY <1>3 DEF DropPay, DropDec, Dropped, Return
<1>4. CASE Write(t)
  <2>1. CASE Help(t)
    BY <2>1 DEF Help, HelpControl, HelpAddr, HelpRecheck, HelpTheir, HelpStore, HelpCas, HelpTook,
       HelpDrop, HelpLoop, HelpSent, HelpFailed
  <2>2. CASE Swap(t) \/ PayInc(t) \/ PaySlot(t) \/ PayMore(t) \/ PayDrop(t) \/ Release(t)
    BY <2>2 DEF Swap, PayInc, PaySlot, PayMore, PayDrop, Release, NextSlot, Return
  <2>3. CASE CasCheck(t) \/ CasExchange(t) \/ CasDropNew(t)
    BY <2>3 DEF CasCheck, CasExchange, CasDropNew, Dropping, Return
  <2> QED BY <1>4, <2>1, <2>2, <2>3 DEF Write
<1> QED BY <1>1, <1>2, <1>3, <1>4 DEF Step

(* Thread t is in help at the node node[t], whose generation it has read. *)
Helping(t) ==
  pc[t] \in {"help_addr", "help_recheck", "help_their", "help_store", "help_cas",
            "help_drop"} \/ ret[t] = "help"
Holding == {"confirm_control", "confirm_envelope", "confirm_offer", "unused_pay",
            "inner_inc", "inner_pay"}

(* Between transactions a control word is idle; a helper works for         *)
(* somebody else; and a helping slot that is in use has the pointer that   *)
(* its own thread is confirming.                                           *)
Quiet(t) == pc[t] \notin InTransaction => control[t] = IDLE
Foreign(t) == Helping(t) => node[t] # t /\ (pc[t] # "help_drop" => IsGen(ctl[t]))
SlotInUse(t) == debt[t][HELPING] # NONE =>
  pc[t] \in Holding /\ dref[t] = <<t, HELPING>> /\ debt[t][HELPING] = val[t]

(* Where t owes something, and in which slot. *)
Owing(t) ==
  /\ pc[t] \in {"attempt_confirm", "attempt_pay"} => dref[t] \in {t} \X FastSlots
  /\ pc[t] \in Holding \ {"inner_inc", "inner_pay"} => dref[t] = <<t, HELPING>>
  /\ pc[t] \in {"inner_inc", "inner_pay", "drop_pay"} => dref[t] \in DebtRefs

(* The inductive invariant of the assertions. *)
Own(t) == Quiet(t) /\ Foreign(t) /\ SlotInUse(t) /\ Owing(t)
OwnInv == TypeInv /\ \A t \in Threads : Own(t)

(* The only step that writes the control word of another thread: the       *)
(* compare_exchange that sends a replacement.                              *)
Sends(t, u) ==
  /\ pc[t] = "help_cas" /\ node[t] = u /\ control[u] = ctl[t]
  /\ control'[u] = Replacement(space_offer[t])

(* Every step but that one leaves the control words of the others alone. *)
LEMMA ControlFrame ==
  ASSUME Domains, NEW t \in Threads, Call(t) \/ Step(t), NEW u \in Threads, u # t
  PROVE  control'[u] = control[u] \/ Sends(t, u)
<1> USE DEF Domains, heap, helping, user, loader, writer
<1>1. CASE UNCHANGED control
  BY <1>1
<1>2. CASE GetDebtControl(t) \/ ConfirmControl(t)
  BY <1>2 DEF GetDebtControl, ConfirmControl
<1>3. CASE HelpCas(t)
  BY <1>3 DEF HelpCas, HelpSent, HelpFailed, Sends
<1>4. CASE Call(t)
  BY <1>1, <1>4 DEF Call, CallLoad, CallDrop, CallSwap, CallNew, CallCas, CallGuardDrop,
     CallGuardIntoInner
<1>5. CASE Load(t)
  BY <1>1, <1>2, <1>5 DEF Load, AttemptLoad, NewFast, AttemptConfirm, AttemptPay, GetDebtAddr,
     Candidate, ConfirmSlot, ConfirmEnvelope, ConfirmOffer, UnusedPay, UnusedDec,
     InnerInc, InnerPay, InnerDec
<1>6. CASE DropPay(t) \/ DropDec(t)
  BY <1>1, <1>6 DEF DropPay, DropDec
<1>7. CASE Write(t)
  BY <1>1, <1>3, <1>7 DEF Write, Help, HelpControl, HelpAddr, HelpRecheck, HelpTheir,
     HelpStore, HelpTook, HelpDrop, Swap, PayInc, PaySlot, PayMore, PayDrop, Release,
     CasCheck, CasExchange, CasDropNew
<1> QED BY <1>4, <1>5, <1>6, <1>7 DEF Step

(* The only two things that a step does to a debt slot: somebody pays the  *)
(* debt, or its own thread makes one.                                      *)
Slot(d) == debt[d[1]][d[2]]
Clears(t, d) ==
  /\ Slot(d)' = NONE
  /\ \/ pc[t] \in {"attempt_pay", "unused_pay", "inner_pay", "drop_pay"} /\ dref[t] = d /\ Slot(d) = val[t]
     \/ pc[t] = "pay_slot" /\ d = <<node[t], i[t]>> /\ Slot(d) = old[t] /\ pc'[t] = "pay_more"
Fills(t, d) ==
  /\ d[1] = t /\ Slot(d)' = val[t] /\ val'[t] = val[t] /\ dref'[t] = d
  /\ \/ pc[t] = "new_fast" /\ d[2] # HELPING /\ Slot(d) = NONE /\ pc'[t] = "attempt_confirm"
     \/ pc[t] = "confirm_slot" /\ d[2] = HELPING /\ pc'[t] = "confirm_control"

DebtDomains == DOMAIN debt = Threads /\ \A n \in Threads : DOMAIN debt[n] = Slots

(* A thread that is about to pay knows its slot. *)
LEMMA OwingRef ==
  ASSUME NEW t \in Threads, Owing(t),
         pc[t] \in Holding \cup {"attempt_confirm", "attempt_pay", "drop_pay"}
  PROVE  dref[t] \in DebtRefs
<1>1. HELPING \in Slots /\ FastSlots \subseteq Slots
  BY ConstantsOK DEF Slots, FastSlots, HELPING
<1> QED BY <1>1 DEF Owing, Holding, DebtRefs

(* Every step pays a debt, makes one, or leaves the slot alone. *)
LEMMA SlotFrame ==
  ASSUME Domains, DebtDomains, NEW t \in Threads, Owing(t), Call(t) \/ Step(t),
         NEW d \in DebtRefs
  PROVE  Slot(d)' = Slot(d) \/ Clears(t, d) \/ Fills(t, d)
<1> USE DEF Domains, DebtDomains, heap, helping, user, loader, writer, Slot, DebtRefs
<1>0. d = <<d[1], d[2]>> /\ d[1] \in Threads /\ d[2] \in Slots
  OBVIOUS
<1>1. CASE UNCHANGED debt
  BY <1>1
<1>2. CASE NewFast(t) \/ ConfirmSlot(t)
  BY <1>0, <1>2, ConstantsOK DEF NewFast, ConfirmSlot, Fills, FastSlots, HELPING
<1>3. CASE AttemptPay(t) \/ UnusedPay(t) \/ InnerPay(t) \/ DropPay(t)
  <2>1. UNCHANGED debt \/ (Owes(dref[t], val[t]) /\ Pay(dref[t]) /\ pc[t] \in {"attempt_pay", "unused_pay", "inner_pay", "drop_pay"})
    BY <1>3 DEF AttemptPay, UnusedPay, InnerPay, DropPay
  <2>2. dref[t] \in DebtRefs
    BY <1>3, OwingRef DEF AttemptPay, UnusedPay, InnerPay, DropPay, Holding
  <2> QED BY <1>0, <1>1, <2>1, <2>2 DEF Pay, Owes, Clears
<1>4. CASE PaySlot(t)
  BY <1>0, <1>1, <1>4 DEF PaySlot, Pay, Owes, Clears
<1>5. CASE Call(t)
  BY <1>1, <1>5 DEF Call, CallLoad, CallDrop, CallSwap, CallNew, CallCas, CallGuardDrop,
     CallGuardIntoInner
<1>6. CASE Load(t)
  BY <1>1, <1>2, <1>3, <1>6 DEF Load, AttemptLoad, AttemptConfirm, GetDebtAddr, GetDebtControl,
     Candidate, ConfirmControl, ConfirmEnvelope, ConfirmOffer, UnusedDec, InnerInc, InnerDec
<1>7. CASE DropDec(t)
  BY <1>1, <1>7 DEF DropDec
<1>8. CASE Write(t)
  BY <1>1, <1>4, <1>8 DEF Write, Help, HelpControl, HelpAddr, HelpRecheck, HelpTheir,
     HelpStore, HelpCas, HelpTook, HelpDrop, Swap, PayInc, PayMore, PayDrop, Release,
     CasCheck, CasExchange, CasDropNew
<1> QED BY <1>3, <1>5, <1>6, <1>7, <1>8 DEF Step

(* What t does leaves the others' part of the invariant true. *)
LEMMA OtherOwn ==
  ASSUME OwnInv, NEW t \in Threads, Call(t) \/ Step(t), NEW u \in Threads, u # t
  PROVE  Own(u)'
<1>1. Domains /\ DebtDomains
  BY TypeDomains DEF OwnInv, TypeInv, TypeOK, DebtDomains
<1>2. Frame(t) /\ (control'[u] = control[u] \/ Sends(t, u))
  BY <1>1, StepFrame, ControlFrame
<1>5. Own(u) /\ Own(t)
  BY DEF OwnInv
<1>3. <<u, HELPING>> \in DebtRefs
  BY ConstantsOK DEF DebtRefs, Slots, HELPING
<1>4. debt'[u][HELPING] \in {debt[u][HELPING], NONE}
  BY <1>1, <1>3, <1>5, SlotFrame DEF Slot, Clears, Fills, Own
<1>6. Quiet(u)'
  BY <1>2, <1>5, ConstantsOK DEF Own, Quiet, Frame, Sends, Foreign, Helping, IsGen
<1>7. Foreign(u)'
  BY <1>2, <1>5 DEF Own, Frame, Foreign, Helping
<1>8. SlotInUse(u)'
  BY <1>2, <1>4, <1>5 DEF Own, Frame, SlotInUse
<1>9. Owing(u)'
  BY <1>2, <1>5 DEF Own, Frame, Owing
<1> QED BY <1>6, <1>7, <1>8, <1>9 DEF Own

(* And its own, step by step. *)
LEMMA OwnStep ==
  ASSUME OwnInv, NEW t \in Threads, Call(t) \/ Step(t)
  PROVE  Own(t)'
<1>1. Domains /\ DebtDomains /\ TypeOK
  BY TypeDomains DEF OwnInv, TypeInv, TypeOK, DebtDomains
<1>2. Own(t) /\ Placed(t)
  BY DEF OwnInv, TypeInv, Located
<1>3. <<t, HELPING>> \in DebtRefs
  BY ConstantsOK DEF DebtRefs, Slots, HELPING
<1>4. Slot(<<t, HELPING>>)' = Slot(<<t, HELPING>>) \/ Clears(t, <<t, HELPING>>) \/ Fills(t, <<t, HELPING>>)
  BY <1>1, <1>2, <1>3, SlotFrame DEF Own
<1> USE <1>1, <1>2 DEF Domains, Own, Quiet, Foreign, Helping, heap, helping, user, loader, writer
<1>5. CASE Load(t)
  <2>1. Quiet(t)'
    BY <1>5 DEF Load, AttemptLoad, NewFast, AttemptConfirm, AttemptPay, GetDebtAddr, GetDebtControl,
    Candidate, ConfirmSlot, ConfirmControl, ConfirmEnvelope, ConfirmOffer, UnusedPay, UnusedDec,
    InnerInc, InnerPay, InnerDec, Loaded, Return, InTransaction
  <2>2. Foreign(t)'
    BY <1>5, ConstantsOK DEF Load, AttemptLoad, NewFast, AttemptConfirm, AttemptPay, GetDebtAddr, GetDebtControl,
    Candidate, ConfirmSlot, ConfirmControl, ConfirmEnvelope, ConfirmOffer, UnusedPay, UnusedDec,
    InnerInc, InnerPay, InnerDec, Loaded, Return
  <2>3. SlotInUse(t)'
    <3>1. CASE AttemptPay(t) \/ UnusedPay(t) \/ InnerPay(t)
      <4>1. dref[t] \in DebtRefs
        BY <3>1, OwingRef DEF AttemptPay, UnusedPay, InnerPay, Holding
      <4>2. Slot(<<t, HELPING>>)' = NONE
        BY <3>1, <4>1, <1>4 DEF AttemptPay, UnusedPay, InnerPay, Pay, Owes, Slot, SlotInUse, DebtDomains,
          Clears, Fills, Holding, DebtRefs
      <4> QED BY <4>2 DEF Slot, SlotInUse
    <3>2. CASE ConfirmSlot(t)
      BY <1>4, <3>2 DEF ConfirmSlot, SlotInUse, Holding, DebtDomains
    <3>3. CASE ~(AttemptPay(t) \/ UnusedPay(t) \/ InnerPay(t) \/ ConfirmSlot(t))
      BY <1>4, <1>5, <3>3 DEF Load, AttemptLoad, NewFast, AttemptConfirm, GetDebtAddr, GetDebtControl,
    Candidate, ConfirmControl, ConfirmEnvelope, ConfirmOffer, UnusedDec,
    InnerInc, InnerDec, Loaded, Return, SlotInUse, Slot, Clears, Fills, Holding
    <3> QED BY <3>1, <3>2, <3>3
  <2>4. Owing(t)'
    <3>1. pc[t] \in Holding \cup {"attempt_confirm", "attempt_pay"} => dref[t] \in DebtRefs
      BY OwingRef
    <3> QED
      BY <1>3, <1>5, <3>1, ConstantsOK DEF Load, AttemptLoad, NewFast, AttemptConfirm, AttemptPay, GetDebtAddr, GetDebtControl,
    Candidate, ConfirmSlot, ConfirmControl, ConfirmEnvelope, ConfirmOffer, UnusedPay, UnusedDec,
    InnerInc, InnerPay, InnerDec, Loaded, Return, Owing, Holding
  <2> QED BY <2>1, <2>2, <2>3, <2>4
<1>6. CASE DropPay(t) \/ DropDec(t)
  <2>1. /\ pc[t] \in {"drop_pay", "drop_dec"} /\ UNCHANGED control /\ node' = node /\ ctl' = ctl
        /\ pc'[t] \in {"drop_dec", "idle", LoadEntry}
        /\ ret'[t] \in {ret[t], "cas"}
    BY <1>6 DEF DropPay, DropDec, Dropped, Return
  <2> QED
    BY <1>4, <2>1, PCFacts DEF SlotInUse, Slot, Clears, Fills, Holding, Owing, InTransaction
<1>7. CASE Call(t)
  <2>1. /\ pc[t] = "idle" /\ UNCHANGED <<control, debt>>
        /\ node' = node /\ ctl' = ctl
        /\ pc'[t] \in {"idle", LoadEntry, "swap", "pay_inc", "inner_inc", "drop_pay", "drop_dec"}
        /\ ret'[t] \in {ret[t], "user", "cas"}
    BY <1>7 DEF Call, CallLoad, CallDrop, CallSwap, CallNew, CallCas, CallGuardDrop,
       CallGuardIntoInner, Begin, Dropping
  <2>2. pc'[t] \in {"inner_inc", "drop_pay"} => dref'[t] \in DebtRefs
    <3>1. \A h \in Handles : guard[h] # NONE => guard[h].debt \in DebtRefs \cup {NONE}
      BY ProtectionFacts DEF TypeOK
    <3> QED
      BY <1>7, <3>1, PCFacts DEF Call, CallLoad, CallDrop, CallSwap, CallNew, CallCas, CallGuardDrop,
       CallGuardIntoInner, Begin, Dropping
  <2> QED
    BY <2>1, <2>2, PCFacts DEF SlotInUse, Holding, Owing, InTransaction
<1>8. CASE Write(t)
  <2>1. CASE Help(t)
    <3>1. /\ pc[t] \in HelpPCs /\ control'[t] = control[t] /\ debt' = debt /\ node' = node
          /\ pc'[t] \in HelpPCs \cup {LoadEntry, "pay_slot"}
      BY <2>1 DEF Help, HelpControl, HelpAddr, HelpRecheck, HelpTheir, HelpStore, HelpCas, HelpTook,
       HelpDrop, HelpLoop, HelpSent, HelpFailed, HelpPCs
    <3>2. Foreign(t)'
      <4>0. ret[t] = NONE
        BY <3>1 DEF Placed, Walking, LoadPCs, HelpPCs
      <4>1. CASE HelpControl(t)
        BY <4>0, <4>1, ConstantsOK DEF HelpControl, HelpLoop, IsGen, InTransaction
      <4>2. CASE HelpRecheck(t) \/ HelpDrop(t)
        BY <4>0, <4>2, ConstantsOK DEF HelpRecheck, HelpDrop, HelpLoop, IsGen
      <4>3. CASE HelpAddr(t) \/ HelpTheir(t) \/ HelpStore(t)
        BY <4>0, <4>3, ConstantsOK DEF HelpAddr, HelpTheir, HelpStore
      <4>4. CASE HelpCas(t) \/ HelpTook(t)
        BY <4>0, <4>4, ConstantsOK DEF HelpCas, HelpSent, HelpFailed, HelpTook
      <4> QED BY <2>1, <4>1, <4>2, <4>3, <4>4 DEF Help
    <3> QED BY <3>1, <3>2, PCFacts DEF SlotInUse, Holding, Owing, InTransaction, HelpPCs
  <2>2. CASE Swap(t) \/ PayInc(t) \/ PaySlot(t) \/ PayMore(t) \/ PayDrop(t) \/ Release(t)
    <3>1. /\ pc[t] \in {"swap", "pay_inc", "pay_slot", "pay_more", "pay_drop", "release"}
          /\ control' = control /\ ret' = ret
          /\ pc'[t] \in {"pay_inc", "help_control", "pay_slot", "pay_more", "pay_drop", "release", "idle"}
      BY <2>2 DEF Swap, PayInc, PaySlot, PayMore, PayDrop, Release, NextSlot, Return
    <3>2. ret[t] # "help"
      BY <3>1, ConstantsOK DEF Placed, Walking, LoadPCs
    <3> QED
      BY <1>4, <3>1, <3>2 DEF SlotInUse, Holding, Owing, InTransaction, Slot, Clears, Fills
  <2>3. CASE CasCheck(t) \/ CasExchange(t) \/ CasDropNew(t)
    <3>1. /\ pc[t] \in {"cas_check", "cas_exchange", "cas_drop_new"}
          /\ control' = control /\ debt' = debt /\ ret' = ret
          /\ pc'[t] \in {"cas_exchange", "cas_drop_new", "pay_inc", "drop_pay", "drop_dec", "idle"}
      BY <2>3 DEF CasCheck, CasExchange, CasDropNew, Dropping, Return
    <3>2. ret[t] # "help"
      BY <3>1, ConstantsOK DEF Placed, Walking, LoadPCs
    <3>3. pc'[t] = "drop_pay" => dref'[t] \in DebtRefs
      <4>1. pc[t] = "cas_exchange" => held[t].debt \in DebtRefs \cup {NONE}
        BY ProtectionFacts DEF Placed, Equipped
      <4> QED BY <2>3, <4>1 DEF CasCheck, CasExchange, CasDropNew, Dropping, Return
    <3> QED
      BY <3>1, <3>2, <3>3 DEF SlotInUse, Holding, Owing, InTransaction
  <2> QED BY <1>8, <2>1, <2>2, <2>3 DEF Write
<1> QED BY <1>5, <1>6, <1>7, <1>8 DEF Step

(* OwnInv is inductive. *)
LEMMA InitOwn == Init => OwnInv
<1> SUFFICES ASSUME Init PROVE OwnInv
  OBVIOUS
<1>1. \A t \in Threads : debt[t][HELPING] = NONE
  BY ConstantsOK DEF Init, Slots, HELPING
<1> QED
  BY <1>1, InitTypeInv, ConstantsOK DEF Init, OwnInv, Own, Quiet, Foreign, Helping, SlotInUse, Owing, Holding

LEMMA NextOwn == OwnInv /\ [Next]_vars => OwnInv'
<1> SUFFICES ASSUME OwnInv, [Next]_vars PROVE OwnInv'
  OBVIOUS
<1>1. TypeInv'
  BY NextTypeInv DEF OwnInv
<1>2. CASE UNCHANGED vars
  BY <1>1, <1>2 DEF OwnInv, Own, Quiet, Foreign, Helping, SlotInUse, Owing, vars, helping, user, loader, writer
<1>3. ASSUME NEW t \in Threads, Call(t) \/ Step(t) PROVE \A u \in Threads : Own(u)'
  BY <1>3, OtherOwn, OwnStep
<1> QED BY <1>1, <1>2, <1>3 DEF Next, OwnInv

(* It is what the assertions need. *)
LEMMA OwnAsserts == OwnInv => AssertsHold
<1> SUFFICES ASSUME OwnInv, NEW t \in Threads
             PROVE  /\ pc[t] = "get_debt" => control[t] = IDLE
                    /\ pc[t] = "confirm_slot" => debt[t][HELPING] = NONE
                    /\ pc[t] = "confirm_control" =>
                         control[t] = Gen(gen[t]) \/ IsReplacement(control[t])
                    /\ pc[t] = "help_control" => control[t] = IDLE
                    /\ pc[t] = "help_addr" => node[t] # t
  BY DEF AssertsHold
<1>1. Own(t) /\ Published(t)
  BY DEF OwnInv, TypeInv, Located, Placed
<1>2. \A c \in ReplacementWords : IsReplacement(c)
  BY ConstantsOK DEF ReplacementWords, IsReplacement
<1> QED
  BY <1>1, <1>2 DEF Own, Quiet, Foreign, Helping, SlotInUse, Holding, Published, InTransaction

(* The assertions of src/debt/helping.rs never fail, for every number of   *)
(* threads, slots, containers, objects and calls, also when generations    *)
(* repeat: get_debt finds its control word idle, confirm its slot empty    *)
(* and its generation or a replacement in place, and help is not called    *)
(* in a transaction or on the own node.                                    *)
THEOREM AssertionsHold == Spec => []AssertsHold
BY InitOwn, NextOwn, OwnAsserts, PTL DEF Spec

----------------------------------------------------------------------------
(* The generations.  While the counter does not wrap, a helper's copy of a *)
(* generation is never one that its reader is still about to publish.      *)
Past(t) == Helping(t) /\ IsGen(ctl[t]) =>
  /\ ctl[t].gen <= gen[node[t]]
  /\ pc[node[t]] = "get_debt" => ctl[t].gen < gen[node[t]]
Offered(t) ==
  pc[t] \in {"help_store", "help_cas"} /\ control[node[t]] = ctl[t] =>
    env[t] = space_offer[node[t]]
EnvInv == OwnInv /\ EnvelopeExclusive /\ \A t \in Threads : Past(t) /\ Offered(t)

(* A thread counts its own generation up before each transaction. *)
LEMMA GenFrame ==
  ASSUME GenMod = 0, TypeOK, NEW t \in Threads, Call(t) \/ Step(t)
  PROVE  \/ gen'[t] = gen[t] /\ pc'[t] # "get_debt"
         \/ gen'[t] = gen[t] + 1
<1>1. Domains /\ gen[t] \in Nat
  BY TypeDomains DEF TypeOK
<1> USE DEF Domains, heap, helping, user, loader, writer
<1>2. CASE GetDebtAddr(t)
  BY <1>1, <1>2 DEF GetDebtAddr, NextGen
<1>3. CASE ~GetDebtAddr(t)
  <2>1. CASE Call(t)
    BY <1>1, <2>1, PCFacts DEF Call, CallLoad, CallDrop, CallSwap, CallNew, CallCas, CallGuardDrop,
     CallGuardIntoInner, Begin, Dropping
  <2>2. CASE Load(t)
    BY <1>1, <1>3, <2>2 DEF Load, AttemptLoad, NewFast, AttemptConfirm, AttemptPay, GetDebtControl,
     Candidate, ConfirmSlot, ConfirmControl, ConfirmEnvelope, ConfirmOffer, UnusedPay, UnusedDec,
     InnerInc, InnerPay, InnerDec, Loaded, Return
  <2>3. CASE DropPay(t) \/ DropDec(t)
    BY <1>1, <2>3, PCFacts DEF DropPay, DropDec, Dropped, Return
  <2>4. CASE Write(t)
    BY <1>1, <2>4, PCFacts DEF Write, Help, HelpControl, HelpAddr, HelpRecheck, HelpTheir,
     HelpStore, HelpCas, HelpTook, HelpDrop, HelpLoop, HelpSent, HelpFailed,
     Swap, PayInc, PaySlot, PayMore, PayDrop, Release, NextSlot, Return,
     CasCheck, CasExchange, CasDropNew, Dropping
  <2> QED BY <2>1, <2>2, <2>3, <2>4 DEF Step
<1> QED BY <1>2, <1>3

(* What a thread does to its own control word and its own envelopes. *)
LEMMA ControlOwn ==
  ASSUME OwnInv, NEW t \in Threads, Call(t) \/ Step(t)
  PROVE  \/ /\ control'[t] = control[t] /\ space_offer'[t] = space_offer[t]
            /\ active_addr'[t] = active_addr[t]
         \/ control'[t] = IDLE /\ space_offer'[t] = space_offer[t]
         \/ /\ control[t] = IDLE /\ control'[t] = Gen(gen[t]) /\ pc[t] = "get_debt"
            /\ space_offer'[t] = space_offer[t]
         \/ control[t] = IDLE /\ control'[t] = IDLE
<1>1. Domains /\ Own(t)
  BY TypeDomains DEF OwnInv, TypeInv
<1> USE DEF Domains, heap, helping, user, loader, writer
<1>2. CASE UNCHANGED <<control, space_offer, active_addr>>
  BY <1>2
<1>10. CASE GetDebtAddr(t)
  BY <1>1, <1>10 DEF GetDebtAddr, Own, Quiet, InTransaction
<1>3. CASE GetDebtControl(t) \/ ConfirmControl(t)
  BY <1>1, <1>3 DEF GetDebtControl, ConfirmControl, Own, Quiet, InTransaction
<1>4. CASE HelpCas(t)
  BY <1>1, <1>4 DEF HelpCas, HelpSent, HelpFailed, Own, Foreign, Helping
<1>5. CASE ConfirmOffer(t) \/ HelpTook(t)
  BY <1>1, <1>5 DEF ConfirmOffer, HelpTook, Own, Quiet, InTransaction
<1>6. CASE Call(t)
  BY <1>2, <1>6 DEF Call, CallLoad, CallDrop, CallSwap, CallNew, CallCas, CallGuardDrop,
     CallGuardIntoInner
<1>7. CASE Load(t)
  BY <1>2, <1>3, <1>5, <1>7, <1>10 DEF Load, AttemptLoad, NewFast, AttemptConfirm, AttemptPay,
     Candidate, ConfirmSlot, ConfirmEnvelope, UnusedPay, UnusedDec,
     InnerInc, InnerPay, InnerDec
<1>8. CASE DropPay(t) \/ DropDec(t)
  BY <1>2, <1>8 DEF DropPay, DropDec
<1>9. CASE Write(t)
  BY <1>2, <1>4, <1>5, <1>9 DEF Write, Help, HelpControl, HelpAddr, HelpRecheck, HelpTheir,
     HelpStore, HelpDrop, Swap, PayInc, PaySlot, PayMore, PayDrop, Release,
     CasCheck, CasExchange, CasDropNew
<1> QED BY <1>6, <1>7, <1>8, <1>9 DEF Step

(* What a helper knows after a step of its own, and after one of another. *)
LEMMA PastStep ==
  ASSUME GenMod = 0, EnvInv, NEW t \in Threads, Call(t) \/ Step(t)
  PROVE  Past(t)'
<1>1. Domains /\ TypeOK /\ Own(t) /\ Placed(t) /\ Past(t)
  BY TypeDomains DEF EnvInv, OwnInv, TypeInv, Located
<1>2. Own(t)'
  BY OwnStep DEF EnvInv
<1>3. ASSUME Helping(t)' PROVE node'[t] \in Threads /\ node'[t] # t
  <2>1. Placed(t)'
    BY NextTypeInv DEF EnvInv, OwnInv, TypeInv, Located, Next
  <2> QED BY <1>2, <1>3, <2>1 DEF Placed, Walking, Helping, Own, Foreign, HelpPCs
<1>4. \A n \in Threads : control[n] = IDLE \/ (control[n] = Gen(gen[n]) /\ pc[n] # "get_debt")
                         \/ control[n] \in ReplacementWords
  BY DEF EnvInv, OwnInv, TypeInv, Located, Placed, Published, Own, Quiet, InTransaction
<1>5. \A n \in Threads : IsGen(control[n]) =>
         control[n].gen = gen[n] /\ pc[n] # "get_debt"
  <2>1. ~IsGen(IDLE) /\ \A c \in ReplacementWords : ~IsGen(c)
    BY DEF IsGen, ReplacementWords
  <2>2. \A g : Gen(g).gen = g
    BY DEF Gen
  <2> QED BY <1>4, <2>1, <2>2
<1>6. \A n \in Threads \ {t} : pc'[n] = pc[n] /\ gen'[n] = gen[n]
  BY <1>1, StepFrame DEF Frame
<1> SUFFICES ASSUME Helping(t)', IsGen(ctl'[t])
             PROVE  \/ ctl'[t] = ctl[t] /\ node'[t] = node[t] /\ Helping(t)
                    \/ node'[t] = node[t] /\ ctl'[t] = control[node[t]]
  BY <1>1, <1>3, <1>5, <1>6 DEF Past, TypeOK
<1> USE <1>1 DEF Domains, heap, helping, user, loader, writer, Helping
<1>7. CASE Call(t)
  BY <1>7, PCFacts, ConstantsOK DEF Call, CallLoad, CallDrop, CallSwap, CallNew, CallCas, CallGuardDrop,
   CallGuardIntoInner, Begin, Dropping
<1>8. CASE Load(t)
  BY <1>8, ConstantsOK DEF Load, AttemptLoad, NewFast, AttemptConfirm, AttemptPay, GetDebtAddr, GetDebtControl,
     Candidate, ConfirmSlot, ConfirmControl, ConfirmEnvelope, ConfirmOffer, UnusedPay, UnusedDec,
     InnerInc, InnerPay, InnerDec, Loaded, Return
<1>9. CASE DropPay(t) \/ DropDec(t)
  BY <1>9, PCFacts DEF DropPay, DropDec, Dropped, Return
<1>10. CASE Write(t)
  <2>0. pc[t] \notin LoadPCs => ret[t] = NONE
    BY DEF Placed, Walking
  <2>1. CASE Help(t)
    BY <2>1, <2>0, ConstantsOK, PCFacts DEF Help, HelpControl, HelpAddr, HelpRecheck, HelpTheir,
     HelpStore, HelpCas, HelpTook, HelpDrop, HelpLoop, HelpSent, HelpFailed, LoadPCs, IsGen
  <2>2. CASE ~Help(t)
    BY <1>10, <2>0, <2>2, ConstantsOK, PCFacts DEF Write,
     Swap, PayInc, PaySlot, PayMore, PayDrop, Release, NextSlot, Return,
     CasCheck, CasExchange, CasDropNew, Dropping, LoadPCs
  <2> QED BY <2>1, <2>2
<1> QED BY <1>7, <1>8, <1>9, <1>10 DEF Step

(* What the others do makes a helper's copy older, never newer. *)
LEMMA PastOther ==
  ASSUME GenMod = 0, EnvInv, NEW t \in Threads, Call(t) \/ Step(t), NEW u \in Threads, u # t
  PROVE  Past(u)'
<1>1. Frame(t) /\ TypeOK /\ Past(u) /\ Placed(u)
  BY StepFrame, TypeDomains DEF EnvInv, OwnInv, TypeInv, Located
<1>2. (gen'[t] = gen[t] /\ pc'[t] # "get_debt") \/ gen'[t] = gen[t] + 1
  BY <1>1, GenFrame
<1>3. SUFFICES ASSUME Helping(u), IsGen(ctl[u]) PROVE Past(u)'
  BY <1>1 DEF Past, Helping, Frame
<1>4. node[u] \in Threads /\ ctl[u].gen \in Nat /\ node'[u] = node[u] /\ ctl'[u] = ctl[u]
  BY <1>1, <1>3, ConstantsOK DEF Placed, Walking, Helping, HelpPCs, TypeOK, Control, IsGen, GenWords,
    ReplacementWords, Frame
<1> QED BY <1>1, <1>2, <1>3, <1>4 DEF Past, Frame, TypeOK

(* As long as the generation is still there, so is the envelope that the   *)
(* helper was offered.                                                     *)
LEMMA OfferedStep ==
  ASSUME EnvInv, NEW t \in Threads, Call(t) \/ Step(t)
  PROVE  Offered(t)'
<1>1. Domains /\ Own(t) /\ Placed(t) /\ Offered(t)
  BY TypeDomains DEF EnvInv, OwnInv, TypeInv, Located
<1> SUFFICES ASSUME pc'[t] \in {"help_store", "help_cas"} PROVE Offered(t)'
  BY DEF Offered
<1>2. HelpTheir(t) \/ HelpStore(t)
  <2> USE <1>1 DEF Domains
  <2>1. CASE Call(t)
    BY <2>1, PCFacts, ConstantsOK DEF Call, CallLoad, CallDrop, CallSwap, CallNew, CallCas, CallGuardDrop,
     CallGuardIntoInner, Begin, Dropping
  <2>2. CASE Load(t)
    BY <2>2, ConstantsOK DEF Load, AttemptLoad, NewFast, AttemptConfirm, AttemptPay, GetDebtAddr, GetDebtControl,
       Candidate, ConfirmSlot, ConfirmControl, ConfirmEnvelope, ConfirmOffer, UnusedPay, UnusedDec,
       InnerInc, InnerPay, InnerDec, Loaded, Return
  <2>3. CASE DropPay(t) \/ DropDec(t)
    BY <2>3, PCFacts DEF DropPay, DropDec, Dropped, Return
  <2>4. CASE Write(t)
    BY <2>4, ConstantsOK, PCFacts DEF Write, Help, HelpControl, HelpAddr, HelpRecheck,
     HelpCas, HelpTook, HelpDrop, HelpLoop, HelpSent, HelpFailed,
     Swap, PayInc, PaySlot, PayMore, PayDrop, Release, NextSlot, Return,
     CasCheck, CasExchange, CasDropNew, Dropping
  <2> QED BY <2>1, <2>2, <2>3, <2>4 DEF Step
<1> QED BY <1>1, <1>2 DEF Domains, HelpTheir, HelpStore, Offered, helping, loader, writer

(* A reader gets a new offer only after its transaction has ended. *)
LEMMA OfferedOther ==
  ASSUME EnvInv, NEW t \in Threads, Call(t) \/ Step(t), NEW u \in Threads, u # t
  PROVE  Offered(u)'
<1>1. Domains /\ Frame(t) /\ Own(u) /\ Placed(u) /\ Past(u) /\ Offered(u) /\ TypeOK
  BY StepFrame, TypeDomains DEF EnvInv, OwnInv, TypeInv, Located
<1> DEFINE n == node[u]
<1>2. SUFFICES ASSUME pc[u] \in {"help_store", "help_cas"}, control'[n] = ctl[u]
               PROVE  env[u] = space_offer'[n]
  BY <1>1 DEF Offered, Frame
<1>3. n \in Threads /\ IsGen(ctl[u]) /\ Helping(u)
  BY <1>1, <1>2 DEF Placed, Walking, Own, Foreign, Helping, HelpPCs
<1>4. CASE n # t
  <2>1. space_offer'[n] = space_offer[n]
    BY <1>1, <1>3, <1>4 DEF Frame
  <2>2. control'[n] = control[n]
    <3>1. control'[n] = control[n] \/ Sends(t, n)
      BY <1>1, <1>3, <1>4, ControlFrame
    <3>2. \A e : ~IsGen(Replacement(e))
      BY DEF IsGen, Replacement
    <3> QED BY <1>2, <1>3, <3>1, <3>2 DEF Sends
  <2> QED BY <1>1, <1>2, <2>1, <2>2 DEF Offered
<1>5. CASE n = t
  <2>1. ctl[u] # IDLE
    BY <1>3 DEF IsGen
  <2>2. pc[t] = "get_debt" => control'[t] # Gen(gen[t])
    BY <1>1, <1>2, <1>3, <1>5 DEF Past, Gen, TypeOK
  <2>3. control'[t] = control[t] /\ space_offer'[t] = space_offer[t]
    BY <1>2, <1>5, <2>1, <2>2, ControlOwn DEF EnvInv
  <2> QED BY <1>1, <1>2, <1>5, <2>3 DEF Offered
<1> QED BY <1>4, <1>5

(* A step of t leaves every node the envelope that it owns, unless it      *)
(* sends a replacement, which exchanges the two.                           *)
LEMMA EnvelopeStep ==
  ASSUME EnvInv, NEW t \in Threads, Call(t) \/ Step(t)
  PROVE  \/ \A u \in Threads : OwnEnvelope(u)' = OwnEnvelope(u)
         \/ \E n \in Threads :
              /\ OwnEnvelope(t)' = OwnEnvelope(n) /\ OwnEnvelope(n)' = OwnEnvelope(t)
              /\ \A u \in Threads \ {t, n} : OwnEnvelope(u)' = OwnEnvelope(u)
<1>1. Domains /\ Frame(t) /\ Own(t) /\ Placed(t) /\ Offered(t)
  BY StepFrame, TypeDomains DEF EnvInv, OwnInv, TypeInv, Located
<1>2. \A u \in Threads \ {t} : ~Sends(t, u) => OwnEnvelope(u)' = OwnEnvelope(u)
  BY <1>1, ControlFrame DEF Frame, OwnEnvelope
<1>0. ~IsReplacement(IDLE) /\ (\A g : ~IsReplacement(Gen(g))) /\ (\A c : IsGen(c) => ~IsReplacement(c))
      /\ \A e \in Envelopes : IsReplacement(Replacement(e)) /\ Replacement(e).env = e
  BY ConstantsOK DEF IsReplacement, Gen, IsGen, Replacement, ReplacementWords
<1>3. CASE HelpCas(t) /\ control[node[t]] = ctl[t]
  <2>0. PICK n : n = node[t]
    OBVIOUS
  <2>1. n \in Threads \ {t} /\ IsGen(ctl[t]) /\ space_offer[t] \in Envelopes
    BY <2>0, <1>1, <1>3 DEF HelpCas, Own, Foreign, Helping, Placed, Walking, HelpPCs, EnvInv, OwnInv, TypeInv, TypeOK
  <2>2. control[t] = IDLE /\ pc[n] \in InTransaction
    BY <2>0, <1>1, <1>3, <2>1 DEF HelpCas, Own, Quiet, EnvInv, OwnInv, IsGen, InTransaction
  <2>3. OwnEnvelope(t) = space_offer[t] /\ OwnEnvelope(n) = space_offer[n]
    BY <2>0, <1>0, <1>3, <2>1, <2>2 DEF OwnEnvelope, InTransaction, HelpCas
  <2>4. env[t] = space_offer[n]
    BY <2>0, <1>1, <1>3 DEF Offered, HelpCas
  <2>5. /\ control' = [control EXCEPT ![n] = Replacement(space_offer[t])]
        /\ pc' = [pc EXCEPT ![t] = "help_took"] /\ env' = env
    BY <2>0, <1>3 DEF HelpCas, HelpSent, HelpFailed
  <2>6. OwnEnvelope(t)' = env[t]
    BY <1>0, <1>1, <2>1, <2>2, <2>5 DEF OwnEnvelope, Domains
  <2>7. OwnEnvelope(n)' = space_offer[t]
    <3>1. control'[n] = Replacement(space_offer[t])
      BY <1>1, <2>1, <2>5 DEF Domains
    <3> QED BY <1>0, <2>1, <3>1 DEF OwnEnvelope
  <2>8. \A u \in Threads \ {t, n} : OwnEnvelope(u)' = OwnEnvelope(u)
    BY <2>0, <1>2 DEF Sends
  <2> QED BY <2>1, <2>3, <2>4, <2>6, <2>7, <2>8
<1>4. CASE ~(HelpCas(t) /\ control[node[t]] = ctl[t])
  <2>1. \A u \in Threads : ~Sends(t, u)
    <3>1. pc[t] = "help_cas" => HelpCas(t)
      BY DEF Call, CallLoad, CallDrop, CallSwap, CallNew, CallCas, CallGuardDrop,
        CallGuardIntoInner, Begin, Step, Load, AttemptLoad, NewFast, AttemptConfirm, AttemptPay, GetDebtAddr, GetDebtControl,
       Candidate, ConfirmSlot, ConfirmControl, ConfirmEnvelope, ConfirmOffer, UnusedPay, UnusedDec,
       InnerInc, InnerPay, InnerDec, DropPay, DropDec, Write, Help, HelpControl, HelpAddr, HelpRecheck, HelpTheir,
       HelpStore, HelpTook, HelpDrop, Swap, PayInc, PaySlot, PayMore, PayDrop, Release,
       CasCheck, CasExchange, CasDropNew
    <3> QED BY <1>4, <3>1 DEF Sends
  <2>2. OwnEnvelope(t)' = OwnEnvelope(t)
    <3> USE <1>0, <1>1 DEF OwnEnvelope, Own, Quiet, Domains, heap, helping, user, loader, writer
    <3>1. CASE Call(t)
      BY <3>1, PCFacts DEF Call, CallLoad, CallDrop, CallSwap, CallNew, CallCas, CallGuardDrop,
       CallGuardIntoInner, Begin, Dropping
    <3>2. CASE ConfirmControl(t)
      <4>1. CASE control[t] = Gen(gen[t])
        BY <3>2, <4>1 DEF ConfirmControl
      <4>2. CASE control[t] # Gen(gen[t])
        <5>1. IsReplacement(control[t])
          BY <3>2, <4>2, ConstantsOK DEF ConfirmControl, Placed, Published, InTransaction, IsReplacement, ReplacementWords
        <5> QED BY <3>2, <4>2, <5>1 DEF ConfirmControl
      <4> QED BY <4>1, <4>2
    <3>3. CASE ConfirmEnvelope(t) \/ ConfirmOffer(t)
      BY <3>3 DEF ConfirmEnvelope, ConfirmOffer, InTransaction
    <3>4. CASE Load(t) /\ ~(ConfirmControl(t) \/ ConfirmEnvelope(t) \/ ConfirmOffer(t))
      BY <3>4 DEF Load, AttemptLoad, NewFast, AttemptConfirm, AttemptPay, GetDebtAddr, GetDebtControl,
       Candidate, ConfirmSlot, UnusedPay, UnusedDec, InnerInc, InnerPay, InnerDec, Loaded, Return, InTransaction
    <3>5. CASE DropPay(t) \/ DropDec(t)
      BY <3>5, PCFacts DEF DropPay, DropDec, Dropped, Return
    <3>6. CASE Help(t)
      BY <1>4, <3>6, PCFacts DEF Help, HelpControl, HelpAddr, HelpRecheck, HelpTheir, HelpStore,
       HelpCas, HelpTook, HelpDrop, HelpLoop, HelpSent, HelpFailed, InTransaction
    <3>7. CASE Write(t) /\ ~Help(t)
      BY <3>7, PCFacts DEF Write, Swap, PayInc, PaySlot, PayMore, PayDrop, Release, NextSlot, Return,
       CasCheck, CasExchange, CasDropNew, Dropping
    <3> QED BY <3>1, <3>2, <3>3, <3>4, <3>5, <3>6, <3>7 DEF Step
  <2> QED BY <1>2, <2>1, <2>2
<1> QED BY <1>3, <1>4

(* EnvInv is inductive. *)
LEMMA InitEnv == Init => EnvInv
<1> SUFFICES ASSUME Init PROVE EnvInv
  OBVIOUS
<1>1. OwnInv
  BY InitOwn
<1>2. \A t \in Threads : OwnEnvelope(t) = t
  BY DEF Init, OwnEnvelope, IsReplacement
<1>3. \A t \in Threads : Past(t) /\ Offered(t)
  BY ConstantsOK DEF Init, Past, Offered, Helping
<1> QED BY <1>1, <1>2, <1>3 DEF EnvInv, EnvelopeExclusive

LEMMA NextEnv == ASSUME GenMod = 0 PROVE EnvInv /\ [Next]_vars => EnvInv'
<1> SUFFICES ASSUME EnvInv, [Next]_vars PROVE EnvInv'
  OBVIOUS
<1>1. OwnInv'
  BY NextOwn DEF EnvInv
<1>2. CASE UNCHANGED vars
  BY <1>1, <1>2 DEF EnvInv, Past, Offered, EnvelopeExclusive, OwnEnvelope, Helping, vars,
    helping, user, loader, writer
<1>3. ASSUME NEW t \in Threads, Call(t) \/ Step(t) PROVE EnvInv'
  <2>1. \A u \in Threads : Past(u)' /\ Offered(u)'
    BY <1>3, PastStep, PastOther, OfferedStep, OfferedOther
  <2>2. EnvelopeExclusive'
    <3>1. \A m, n \in Threads : OwnEnvelope(m) = OwnEnvelope(n) => m = n
      BY DEF EnvInv, EnvelopeExclusive
    <3>2. CASE \A u \in Threads : OwnEnvelope(u)' = OwnEnvelope(u)
      BY <3>1, <3>2 DEF EnvelopeExclusive
    <3>3. ASSUME NEW n \in Threads,
                 OwnEnvelope(t)' = OwnEnvelope(n), OwnEnvelope(n)' = OwnEnvelope(t),
                 \A u \in Threads \ {t, n} : OwnEnvelope(u)' = OwnEnvelope(u)
          PROVE  EnvelopeExclusive'
      BY <3>1, <3>3, <1>3 DEF EnvelopeExclusive
    <3> QED BY <1>3, <3>2, <3>3, EnvelopeStep
  <2> QED BY <1>1, <2>1, <2>2 DEF EnvInv
<1> QED BY <1>2, <1>3 DEF Next

(* No two nodes own the same envelope, however often envelopes were        *)
(* exchanged (helping::Slots::help and confirm in src/debt/helping.rs),    *)
(* for every number of threads, containers and calls. GenMod = 0: the      *)
(* generations do not wrap.                                                *)
THEOREM EnvelopesExclusive == ASSUME GenMod = 0 PROVE Spec => []EnvelopeExclusive
<1>1. EnvInv => EnvelopeExclusive
  BY DEF EnvInv
<1> QED BY <1>1, InitEnv, NextEnv, PTL DEF Spec
=============================================================================
