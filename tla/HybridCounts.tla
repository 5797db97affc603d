---------------------------- MODULE HybridCounts ----------------------------
(***************************************************************************)
(* Proof that Hybrid conserves the references: Conservation.               *)
(*                                                                         *)
(* The number of claims is a sum over kinds of claims and over threads,    *)
(* and a step changes one term of each sum (Counting).  Balanced says that *)
(* counts and debts move with it; BooksInv, that a variable which is       *)
(* overwritten holds no reference and that an envelope is not refilled.    *)
(***************************************************************************)
EXTENDS HybridProtocol

(* Thread t is in pay_all, or in the load that pay_all makes for a reader. *)
Paying(t) == pc[t] \in HelpPCs \cup {"pay_slot", "pay_more"} \/ ret[t] = "help"

(* Thread t still has to put its result into its handle. *)
Receiving(t) ==
  ret[t] = "user" \/ call[t].op \in {"swap", "into_inner", "compare_and_swap"}

(* The books of a thread: a variable that is about to be overwritten does  *)
(* not hold a reference.                                                   *)
HandleOK(t) == Receiving(t) =>
  call[t].hnd \in HandleIds /\ guard[<<t, call[t].hnd>>] = NONE
ReplOK(t) == repl[t] # NONE =>
  pc[t] \in {"confirm_offer", "unused_pay", "unused_dec", "help_their",
             "help_store", "help_cas", "help_drop"}
HeldOK(t) == held[t] # NONE =>
  /\ call[t].op = "compare_and_swap"
  /\ pc[t] \notin {"idle", "drop_pay", "drop_dec"} /\ ret[t] \notin {"user", "cas"}
NewOK(t) == new[t] # NONE =>
  \/ pc[t] = "swap"
  \/ /\ call[t].op = "compare_and_swap"
     /\ \/ ret[t] = "cas"
        \/ pc[t] \in {"cas_check", "cas_exchange", "cas_drop_new", "drop_pay", "drop_dec"}
OldOK(t) == old[t] # NONE => Paying(t) \/ pc[t] \in {"pay_inc", "pay_drop", "release"}
NodeOK(t) == node[t] # 0 => Paying(t)
IndexOK(t) == pc[t] \in {"pay_slot", "pay_more"} => i[t] \in Slots
CasOK(t) ==
  /\ ret[t] = "cas" => call[t].op = "compare_and_swap"
  /\ pc[t] = "cas_exchange" => held[t].ptr = call[t].cur
Books(t) ==
  /\ HandleOK(t) /\ ReplOK(t) /\ HeldOK(t) /\ NewOK(t) /\ OldOK(t) /\ NodeOK(t)
  /\ IndexOK(t) /\ CasOK(t)

(* The replacement that a helper is about to send is in its envelope. *)
Packed(t) == pc[t] = "help_cas" => handover[space_offer[t]] = repl[t]

(* The inductive invariant, next to the balance itself. *)
BooksInv == EnvInv /\ \A t \in Threads : Books(t) /\ Packed(t)

----------------------------------------------------------------------------
(* The others can only take guards away from t. *)
LEMMA GuardFrame ==
  ASSUME TypeOK, NEW t \in Threads, Call(t) \/ Step(t), NEW u \in Threads, u # t,
         NEW k \in HandleIds
  PROVE  guard'[<<u, k>>] \in {guard[<<u, k>>], NONE}
<1> DEFINE g == <<u, k>>
<1>1. DOMAIN guard = Handles /\ g \in Handles
  BY DEF TypeOK, Handles
<1>0. CASE UNCHANGED guard
  BY <1>0
<1>2. ASSUME NEW res, Return(t, res) PROVE guard'[g] = guard[g]
  BY <1>1, <1>2 DEF Return, Handles
<1> USE DEF user
<1>3. CASE Call(t)
  BY <1>0, <1>1, <1>3 DEF Call, CallLoad, CallDrop, CallSwap, CallNew, CallCas, CallGuardDrop,
     CallGuardIntoInner
<1>4. CASE Load(t)
  BY <1>0, <1>2, <1>4 DEF Load, AttemptLoad, NewFast, AttemptConfirm, AttemptPay, GetDebtAddr, GetDebtControl,
       Candidate, ConfirmSlot, ConfirmControl, ConfirmEnvelope, ConfirmOffer, UnusedPay, UnusedDec,
       InnerInc, InnerPay, InnerDec, Loaded
<1>5. CASE DropPay(t) \/ DropDec(t)
  BY <1>0, <1>2, <1>5 DEF DropPay, DropDec, Dropped
<1>6. CASE Write(t)
  BY <1>0, <1>2, <1>6 DEF Write, Help, HelpControl, HelpAddr, HelpRecheck, HelpTheir,
     HelpStore, HelpCas, HelpTook, HelpDrop, Swap, PayInc, PaySlot, PayMore, PayDrop, Release,
     CasCheck, CasExchange, CasDropNew
<1> QED BY <1>3, <1>4, <1>5, <1>6 DEF Step

(* The books of the others, and those of the thread that acts. *)
LEMMA BooksOther ==
  ASSUME BooksInv, NEW t \in Threads, Call(t) \/ Step(t), NEW u \in Threads, u # t
  PROVE  Books(u)'
<1>1. TypeOK /\ Frame(t) /\ Books(u)
  BY StepFrame, TypeDomains DEF BooksInv, EnvInv, OwnInv, TypeInv
<1>2. HandleOK(u)'
  BY <1>1, GuardFrame DEF Books, HandleOK, Receiving, Frame
<1> QED BY <1>1, <1>2 DEF Books, ReplOK, HeldOK, NewOK, OldOK, NodeOK, IndexOK, CasOK, Paying, Frame

LEMMA BooksStep ==
  ASSUME BooksInv, NEW t \in Threads, Call(t) \/ Step(t)
  PROVE  Books(t)'
<1>1. Domains /\ TypeOK /\ Books(t) /\ Placed(t)
  BY TypeDomains DEF BooksInv, EnvInv, OwnInv, TypeInv, Located
<1>0. \A k \in HandleIds : <<t, k>> \in Handles /\ DOMAIN guard = Handles
  BY <1>1 DEF TypeOK, Handles
<1>6. 1 \in Slots /\ i[t] \in 0..HELPING /\ (i[t] < HELPING => i[t] + 1 \in Slots)
  BY <1>1, ConstantsOK DEF TypeOK, Slots, HELPING
<1> USE <1>1 DEF Domains, Books, HandleOK, Receiving, ReplOK, HeldOK, NewOK, OldOK, NodeOK,
                 IndexOK, CasOK, Paying, HelpPCs, heap, helping, user, loader, writer
<1>2. CASE Call(t)
  <2>0. pc[t] = "idle" => ret[t] = NONE
    BY DEF Placed, Walking, LoadPCs
  <2>1. ASSUME NEW op, NEW s, NEW k, CallLoad(t, op, s, k) \/ CallDrop(t, op, s, k)
        PROVE  Books(t)'
    BY <2>0, <2>1, PCFacts, ConstantsOK DEF CallLoad, CallDrop, Begin, FreeHandles
  <2>2. ASSUME NEW op, NEW s, NEW k, NEW p, CallSwap(t, op, s, k, p) PROVE Books(t)'
    BY <2>0, <2>2, ConstantsOK DEF CallSwap, Begin, FreeHandles
  <2>3. ASSUME NEW s, NEW p, CallNew(t, s, p) PROVE Books(t)'
    BY <2>3 DEF CallNew
  <2>4. ASSUME NEW s, NEW k, NEW c, NEW p, CallCas(t, s, k, c, p) PROVE Books(t)'
    BY <2>0, <2>4, PCFacts, ConstantsOK DEF CallCas, Begin, FreeHandles
  <2>5. ASSUME NEW h \in Handles, CallGuardDrop(t, h) PROVE Books(t)'
    BY <2>0, <2>5, ConstantsOK DEF CallGuardDrop, Begin, Dropping
  <2>6. ASSUME NEW h \in Handles, NEW k \in HandleIds, CallGuardIntoInner(t, h, k) PROVE Books(t)'
    BY <2>0, <1>0, <2>6, ConstantsOK DEF CallGuardIntoInner, Begin, FreeHandles
  <2> QED BY <1>2, <2>1, <2>2, <2>3, <2>4, <2>5, <2>6 DEF Call
<1>3. CASE Load(t)
  <2>1. ASSUME NEW p, NEW d, Loaded(t, p, d), node' = node, old' = old, new' = new, pc[t] \in LoadPCs,
               d = NONE \/ repl[t] = NONE PROVE Books(t)'
    BY <1>0, <2>1, ConstantsOK DEF Loaded, Return, NoCall, LoadPCs
  <2> QED
  BY <1>3, <2>1, ConstantsOK DEF Load, AttemptLoad, NewFast, AttemptConfirm, AttemptPay, GetDebtAddr, GetDebtControl,
       Candidate, ConfirmSlot, ConfirmControl, ConfirmEnvelope, ConfirmOffer, UnusedPay, UnusedDec,
       InnerInc, InnerPay, InnerDec, LoadPCs
<1>4. CASE DropPay(t) \/ DropDec(t)
  BY <1>4, PCFacts, ConstantsOK DEF DropPay, DropDec, Dropped, Return, NoCall, Placed, Walking, LoadPCs
<1>5. CASE Write(t)
  <2>0. pc[t] \notin LoadPCs => ret[t] = NONE
    BY DEF Placed, Walking
  <2>1. CASE Help(t)
    BY <1>6, <2>0, <2>1, ConstantsOK, PCFacts DEF Help, HelpControl, HelpAddr, HelpRecheck, HelpTheir,
     HelpStore, HelpCas, HelpTook, HelpDrop, HelpLoop, HelpSent, HelpFailed, LoadPCs
  <2>2. CASE Swap(t) \/ PayInc(t) \/ PaySlot(t) \/ PayMore(t)
    BY <1>6, <2>0, <2>2, ConstantsOK DEF Swap, PayInc, PaySlot, PayMore, NextSlot, LoadPCs
  <2>3. CASE PayDrop(t) \/ Release(t)
    BY <1>0, <2>0, <2>3, ConstantsOK DEF PayDrop, Release, Return, NoCall, LoadPCs
  <2>4. CASE CasCheck(t) \/ CasExchange(t) \/ CasDropNew(t)
    BY <1>0, <2>0, <2>4, ConstantsOK DEF CasCheck, CasExchange, CasDropNew, Dropping, Return, NoCall, LoadPCs
  <2> QED BY <1>5, <2>1, <2>2, <2>3, <2>4 DEF Write
<1> QED BY <1>2, <1>3, <1>4, <1>5 DEF Step

----------------------------------------------------------------------------
(* The envelopes.  Only a helper writes into one, its own. *)
LEMMA HandoverFrame ==
  ASSUME NEW t \in Threads, Call(t) \/ Step(t)
  PROVE  UNCHANGED handover \/ HelpStore(t)
<1> USE DEF helping
<1>1. CASE Call(t)
  BY <1>1 DEF Call, CallLoad, CallDrop, CallSwap, CallNew, CallCas, CallGuardDrop,
     CallGuardIntoInner
<1>2. CASE Load(t)
  BY <1>2 DEF Load, AttemptLoad, NewFast, AttemptConfirm, AttemptPay, GetDebtAddr, GetDebtControl,
       Candidate, ConfirmSlot, ConfirmControl, ConfirmEnvelope, ConfirmOffer, UnusedPay, UnusedDec,
       InnerInc, InnerPay, InnerDec
<1>3. CASE DropPay(t) \/ DropDec(t)
  BY <1>3 DEF DropPay, DropDec
<1>4. CASE Write(t)
  BY <1>4 DEF Write, Help, HelpControl, HelpAddr, HelpRecheck, HelpTheir,
     HelpCas, HelpTook, HelpDrop, Swap, PayInc, PaySlot, PayMore, PayDrop, Release,
     CasCheck, CasExchange, CasDropNew
<1> QED BY <1>1, <1>2, <1>3, <1>4 DEF Step

(* What a node owns is not written by anybody else. *)
LEMMA HandoverOwned ==
  ASSUME BooksInv, NEW t \in Threads, Call(t) \/ Step(t), NEW n \in Threads, n # t
  PROVE  handover'[OwnEnvelope(n)] = handover[OwnEnvelope(n)]
<1>1. CASE HelpStore(t)
  <2>1. control[t] = IDLE
    BY <1>1 DEF BooksInv, EnvInv, OwnInv, Own, Quiet, HelpStore, InTransaction
  <2>2. OwnEnvelope(t) = space_offer[t]
    BY <1>1, <2>1 DEF OwnEnvelope, IsReplacement, HelpStore
  <2>3. OwnEnvelope(n) # space_offer[t]
    BY <2>2 DEF BooksInv, EnvInv, EnvelopeExclusive
  <2>4. DOMAIN handover = Envelopes
    BY DEF BooksInv, EnvInv, OwnInv, TypeInv, TypeOK
  <2> QED BY <1>1, <2>3, <2>4 DEF HelpStore
<1> QED BY <1>1, HandoverFrame

(* The envelope of a helper is its own (EnvelopeExclusive): nobody else    *)
(* writes into it between the store and the compare_exchange.              *)
LEMMA PackedStep ==
  ASSUME BooksInv, NEW t \in Threads, Call(t) \/ Step(t)
  PROVE  Packed(t)'
<1>1. Domains /\ TypeOK
  BY TypeDomains DEF BooksInv, EnvInv, OwnInv, TypeInv
<1> SUFFICES ASSUME pc'[t] = "help_cas" PROVE Packed(t)'
  BY DEF Packed
<1>2. HelpStore(t)
  <2> USE <1>1 DEF Domains
  <2>1. CASE Call(t)
    BY <2>1, PCFacts, ConstantsOK DEF Call, CallLoad, CallDrop, CallSwap, CallNew, CallCas, CallGuardDrop,
     CallGuardIntoInner, Begin, Dropping
  <2>2. CASE Load(t)
    BY <2>2, ConstantsOK DEF Load, AttemptLoad, NewFast, AttemptConfirm, AttemptPay, GetDebtAddr, GetDebtControl,
       Candidate, ConfirmSlot, ConfirmControl, ConfirmEnvelope, ConfirmOffer, UnusedPay, UnusedDec,
       InnerInc, InnerPay, InnerDec, Loaded, Return
  <2>3. CASE DropPay(t) \/ DropDec(t)
    BY <2>3, PCFacts DEF DropPay, DropDec, Dropped, Return
  <2>4. CASE Write(t)
    BY <2>4, ConstantsOK, PCFacts DEF Write, Help, HelpControl, HelpAddr, HelpRecheck, HelpTheir,
     HelpCas, HelpTook, HelpDrop, HelpLoop, HelpSent, HelpFailed,
     Swap, PayInc, PaySlot, PayMore, PayDrop, Release, NextSlot, Return,
     CasCheck, CasExchange, CasDropNew, Dropping
  <2> QED BY <2>1, <2>2, <2>3, <2>4 DEF Step
<1> QED BY <1>1, <1>2 DEF HelpStore, Packed, TypeOK, loader

LEMMA PackedOther ==
  ASSUME BooksInv, NEW t \in Threads, Call(t) \/ Step(t), NEW u \in Threads, u # t
  PROVE  Packed(u)'
<1>1. Frame(t) /\ Own(u) /\ Packed(u)
  BY StepFrame, TypeDomains DEF BooksInv, EnvInv, OwnInv, TypeInv
<1>2. pc[u] = "help_cas" => OwnEnvelope(u) = space_offer[u]
  BY <1>1 DEF Own, Quiet, OwnEnvelope, IsReplacement, InTransaction
<1> QED BY <1>1, <1>2, HandoverOwned DEF Packed, Frame

(* The replacements on their way: sent by a helper, received by a reader.  *)
LEMMA SentFrame ==
  ASSUME BooksInv, NEW t \in Threads, Call(t) \/ Step(t), NEW n \in Threads
  PROVE  /\ n # t /\ ~Sends(t, n) => Sent(n)' = Sent(n)
         /\ n = t /\ ~ConfirmEnvelope(t) => Sent(n)' = Sent(n)
         /\ n = t /\ ConfirmEnvelope(t) => Sent(n) = handover[env[t]] /\ Sent(n)' = NONE
         /\ n # t /\ Sends(t, n) =>
              HelpCas(t) /\ HelpSent(t) /\ Sent(n) = NONE /\ Sent(n)' = repl[t]
<1>1. Domains /\ Frame(t) /\ Own(t) /\ Own(n) /\ Placed(t) /\ Packed(t)
  BY StepFrame, TypeDomains DEF BooksInv, EnvInv, OwnInv, TypeInv, Located
<1>0. ~IsReplacement(IDLE) /\ (\A g : ~IsReplacement(Gen(g))) /\ (\A c : IsGen(c) => ~IsReplacement(c))
      /\ \A e \in Envelopes : IsReplacement(Replacement(e)) /\ Replacement(e).env = e
  BY ConstantsOK DEF IsReplacement, Gen, IsGen, Replacement, ReplacementWords
<1>2. CASE n # t /\ ~Sends(t, n)
  <2>1. control'[n] = control[n] /\ pc'[n] = pc[n] /\ env'[n] = env[n]
    BY <1>1, <1>2, ControlFrame DEF Frame
  <2>2. handover'[OwnEnvelope(n)] = handover[OwnEnvelope(n)]
    BY <1>2, HandoverOwned
  <2> QED BY <1>2, <2>1, <2>2 DEF Sent, OwnEnvelope
<1>3. CASE n # t /\ Sends(t, n)
  <2>1. HelpCas(t)
    BY <1>3 DEF Sends, Call, CallLoad, CallDrop, CallSwap, CallNew, CallCas, CallGuardDrop,
        CallGuardIntoInner, Begin, Step, Load, AttemptLoad, NewFast, AttemptConfirm, AttemptPay, GetDebtAddr, GetDebtControl,
       Candidate, ConfirmSlot, ConfirmControl, ConfirmEnvelope, ConfirmOffer, UnusedPay, UnusedDec,
       InnerInc, InnerPay, InnerDec, DropPay, DropDec, Write, Help, HelpControl, HelpAddr, HelpRecheck, HelpTheir,
       HelpStore, HelpTook, HelpDrop, Swap, PayInc, PaySlot, PayMore, PayDrop, Release,
       CasCheck, CasExchange, CasDropNew
  <2>2. HelpSent(t) /\ handover' = handover
    BY <1>3, <2>1 DEF HelpCas, Sends
  <2>3. IsGen(control[n]) /\ pc[n] \in InTransaction
    BY <1>1, <1>3 DEF Sends, Own, Foreign, Helping, Quiet, IsGen
  <2>4. space_offer[t] \in Envelopes
    BY DEF BooksInv, EnvInv, OwnInv, TypeInv, TypeOK
  <2>5. Sent(n) = NONE
    BY <1>0, <2>3 DEF Sent, InTransaction
  <2>6. Sent(n)' = repl[t]
    BY <1>0, <1>1, <1>3, <2>2, <2>4 DEF Sent, Sends, Packed
  <2> QED BY <1>3, <2>1, <2>2, <2>5, <2>6
<1>4. CASE n = t /\ ConfirmEnvelope(t)
  BY <1>0, <1>1, <1>4 DEF ConfirmEnvelope, Sent, Own, Quiet, InTransaction, Domains, helping
<1>5. CASE n = t /\ ~ConfirmEnvelope(t)
  <2> USE <1>0, <1>1 DEF Sent, Own, Quiet, Domains, heap, helping, user, loader, writer
  <2>1. CASE Call(t)
    BY <1>5, <2>1, PCFacts DEF Call, CallLoad, CallDrop, CallSwap, CallNew, CallCas, CallGuardDrop,
     CallGuardIntoInner, Begin, Dropping
  <2>2. CASE ConfirmControl(t)
    <3>1. CASE control[t] = Gen(gen[t])
      BY <1>5, <2>2, <3>1 DEF ConfirmControl
    <3>2. CASE control[t] # Gen(gen[t])
      <4>1. IsReplacement(control[t])
        BY <2>2, <3>2, ConstantsOK DEF ConfirmControl, Placed, Published, InTransaction, IsReplacement, ReplacementWords
      <4> QED BY <1>5, <2>2, <3>2, <4>1 DEF ConfirmControl
    <3> QED BY <3>1, <3>2
  <2>3. CASE Load(t) /\ ~(ConfirmControl(t) \/ ConfirmEnvelope(t))
    BY <1>5, <2>3 DEF Load, AttemptLoad, NewFast, AttemptConfirm, AttemptPay, GetDebtAddr, GetDebtControl,
     Candidate, ConfirmSlot, ConfirmOffer, UnusedPay, UnusedDec, InnerInc, InnerPay, InnerDec, Loaded, Return, InTransaction
  <2>4. CASE DropPay(t) \/ DropDec(t)
    BY <1>5, <2>4, PCFacts DEF DropPay, DropDec, Dropped, Return
  <2>5. CASE Help(t)
    <3>1. control'[t] = control[t] /\ control[t] = IDLE /\ pc'[t] # "confirm_envelope" /\ pc[t] # "confirm_envelope"
      BY <2>5, PCFacts DEF Help, HelpControl, HelpAddr, HelpRecheck, HelpTheir, HelpStore,
       HelpCas, HelpTook, HelpDrop, HelpLoop, HelpSent, HelpFailed, InTransaction, Foreign, Helping
    <3> QED BY <1>5, <3>1
  <2>6. CASE Write(t) /\ ~Help(t)
    BY <1>5, <2>6, PCFacts DEF Write, Swap, PayInc, PaySlot, PayMore, PayDrop, Release, NextSlot, Return,
     CasCheck, CasExchange, CasDropNew, Dropping
  <2> QED BY <1>5, <2>1, <2>2, <2>3, <2>4, <2>5, <2>6 DEF Step
<1> QED BY <1>2, <1>3, <1>4, <1>5

----------------------------------------------------------------------------
(* The sets whose elements are counted are finite. *)
LEMMA Finiteness ==
  /\ IsFiniteSet(Threads) /\ IsFiniteSet(Storages)
  /\ IsFiniteSet(Handles) /\ IsFiniteSet(DebtRefs)
<1>1. IsFiniteSet(Threads) /\ IsFiniteSet(Slots)
  BY ConstantsOK, FS_Interval DEF Threads, Slots, HELPING
<1> QED BY <1>1, ConstantsOK, FS_Product DEF Handles, DebtRefs

(* The claims, by the place that holds them. *)
StorageRefs(p) == {s \in Storages : ptr[s] = p}
GuardRefs(p) == {h \in Handles : guard[h] # NONE /\ guard[h].ptr = p}
HeldRefs(p) == {t \in Threads : held[t] # NONE /\ held[t].ptr = p}
NewRefs(p) == {t \in Threads : new[t] = p}
OldRefs(p) == {t \in Threads : old[t] = p}
PrepaidRefs(p) == {t \in Threads : old[t] = p /\ Prepaid(t)}
ValRefs(p) == {t \in Threads : val[t] = p /\ pc[t] \in Referring}
InnerRefs(p) == {t \in Threads : val[t] = p /\ pc[t] \in {"inner_pay", "inner_dec"}}
ReplRefs(p) == {t \in Threads : repl[t] = p}
SentRefs(p) == {n \in Threads : Sent(n) = p}

(* What the threads hold in their variables. *)
Private(p) ==
  Cardinality(HeldRefs(p)) + Cardinality(NewRefs(p)) + Cardinality(OldRefs(p))
  + Cardinality(PrepaidRefs(p)) + Cardinality(ValRefs(p))
  + Cardinality(InnerRefs(p)) + Cardinality(ReplRefs(p))

(* Claims(p), a union of disjoint tagged sets, counted by its parts. *)
Counted(p) ==
  /\ IsFiniteSet(Claims(p))
  /\ Cardinality(Claims(p)) =
       Cardinality(StorageRefs(p)) + Cardinality(GuardRefs(p))
       + Cardinality(SentRefs(p)) + Private(p)
  /\ Cardinality(StorageRefs(p)) \in Nat /\ Cardinality(GuardRefs(p)) \in Nat
  /\ Cardinality(SentRefs(p)) \in Nat /\ Private(p) \in Nat
  /\ Cardinality(Debts(p)) \in Nat

LEMMA ClaimsCount == \A p : Counted(p)
<1> SUFFICES ASSUME NEW p PROVE Counted(p)
  OBVIOUS
<1>1. /\ IsFiniteSet(StorageRefs(p)) /\ IsFiniteSet(GuardRefs(p)) /\ IsFiniteSet(HeldRefs(p))
      /\ IsFiniteSet(NewRefs(p)) /\ IsFiniteSet(OldRefs(p)) /\ IsFiniteSet(PrepaidRefs(p))
      /\ IsFiniteSet(ValRefs(p)) /\ IsFiniteSet(InnerRefs(p)) /\ IsFiniteSet(ReplRefs(p))
      /\ IsFiniteSet(SentRefs(p)) /\ IsFiniteSet(Debts(p))
  <2>1. ASSUME NEW S, IsFiniteSet(S), NEW T, T \subseteq S PROVE IsFiniteSet(T)
    BY <2>1, FS_Subset
  <2> QED
    BY <2>1, Finiteness DEF StorageRefs, GuardRefs, HeldRefs, NewRefs, OldRefs, PrepaidRefs, ValRefs,
       InnerRefs, ReplRefs, SentRefs, Debts
<1> DEFINE A1 == {"storage"} \X StorageRefs(p)
           A2 == {"guard"} \X GuardRefs(p)
           A3 == {"held"} \X HeldRefs(p)
           A4 == {"new"} \X NewRefs(p)
           A5 == {"old"} \X OldRefs(p)
           A6 == {"prepaid"} \X PrepaidRefs(p)
           A7 == {"val"} \X ValRefs(p)
           A8 == {"inner"} \X InnerRefs(p)
           A9 == {"repl"} \X ReplRefs(p)
           A10 == {"sent"} \X SentRefs(p)
           B2 == A1 \cup A2
           B3 == B2 \cup A3
           B4 == B3 \cup A4
           B5 == B4 \cup A5
           B6 == B5 \cup A6
           B7 == B6 \cup A7
           B8 == B7 \cup A8
           B9 == B8 \cup A9
<1>2. Claims(p) = B9 \cup A10
  BY DEF Claims, StorageRefs, GuardRefs, HeldRefs, NewRefs, OldRefs, PrepaidRefs, ValRefs,
       InnerRefs, ReplRefs, SentRefs
<1>3. /\ IsFiniteSet(A1) /\ Cardinality(A1) = Cardinality(StorageRefs(p))
      /\ IsFiniteSet(A2) /\ Cardinality(A2) = Cardinality(GuardRefs(p))
      /\ IsFiniteSet(A3) /\ Cardinality(A3) = Cardinality(HeldRefs(p))
      /\ IsFiniteSet(A4) /\ Cardinality(A4) = Cardinality(NewRefs(p))
      /\ IsFiniteSet(A5) /\ Cardinality(A5) = Cardinality(OldRefs(p))
      /\ IsFiniteSet(A6) /\ Cardinality(A6) = Cardinality(PrepaidRefs(p))
      /\ IsFiniteSet(A7) /\ Cardinality(A7) = Cardinality(ValRefs(p))
      /\ IsFiniteSet(A8) /\ Cardinality(A8) = Cardinality(InnerRefs(p))
      /\ IsFiniteSet(A9) /\ Cardinality(A9) = Cardinality(ReplRefs(p))
      /\ IsFiniteSet(A10) /\ Cardinality(A10) = Cardinality(SentRefs(p))
  BY <1>1, TaggedCount
<1>4. /\ A1 \cap A2 = {} /\ B2 \cap A3 = {} /\ B3 \cap A4 = {} /\ B4 \cap A5 = {}
      /\ B5 \cap A6 = {} /\ B6 \cap A7 = {} /\ B7 \cap A8 = {} /\ B8 \cap A9 = {}
      /\ B9 \cap A10 = {}
  OBVIOUS
<1> HIDE DEF A1, A2, A3, A4, A5, A6, A7, A8, A9, A10
<1>5. IsFiniteSet(B2) /\ Cardinality(B2) = Cardinality(A1) + Cardinality(A2)
      /\ Cardinality(A1) \in Nat /\ Cardinality(A2) \in Nat
  BY <1>3, <1>4, JoinCount
<1> HIDE DEF B2
<1>6. IsFiniteSet(B3) /\ Cardinality(B3) = Cardinality(B2) + Cardinality(A3) /\ Cardinality(A3) \in Nat
  BY <1>3, <1>4, <1>5, JoinCount
<1> HIDE DEF B3
<1>7. IsFiniteSet(B4) /\ Cardinality(B4) = Cardinality(B3) + Cardinality(A4) /\ Cardinality(A4) \in Nat
  BY <1>3, <1>4, <1>6, JoinCount
<1> HIDE DEF B4
<1>8. IsFiniteSet(B5) /\ Cardinality(B5) = Cardinality(B4) + Cardinality(A5) /\ Cardinality(A5) \in Nat
  BY <1>3, <1>4, <1>7, JoinCount
<1> HIDE DEF B5
<1>9. IsFiniteSet(B6) /\ Cardinality(B6) = Cardinality(B5) + Cardinality(A6) /\ Cardinality(A6) \in Nat
  BY <1>3, <1>4, <1>8, JoinCount
<1> HIDE DEF B6
<1>10. IsFiniteSet(B7) /\ Cardinality(B7) = Cardinality(B6) + Cardinality(A7) /\ Cardinality(A7) \in Nat
  BY <1>3, <1>4, <1>9, JoinCount
<1> HIDE DEF B7
<1>11. IsFiniteSet(B8) /\ Cardinality(B8) = Cardinality(B7) + Cardinality(A8) /\ Cardinality(A8) \in Nat
  BY <1>3, <1>4, <1>10, JoinCount
<1> HIDE DEF B8
<1>12. IsFiniteSet(B9) /\ Cardinality(B9) = Cardinality(B8) + Cardinality(A9) /\ Cardinality(A9) \in Nat
  BY <1>3, <1>4, <1>11, JoinCount
<1> HIDE DEF B9
<1>13. IsFiniteSet(B9 \cup A10) /\ Cardinality(B9 \cup A10) = Cardinality(B9) + Cardinality(A10)
       /\ Cardinality(A10) \in Nat
  BY <1>3, <1>4, <1>12, JoinCount
<1>14. Cardinality(Debts(p)) \in Nat
  BY <1>1, FS_CardinalityType
<1> QED
  BY <1>2, <1>3, <1>5, <1>6, <1>7, <1>8, <1>9, <1>10, <1>11, <1>12, <1>13, <1>14 DEF Private, Counted

(* The same in the next state. *)
LEMMA ClaimsCountNext == (\A p : Counted(p))'
BY ClaimsCount, PTL

----------------------------------------------------------------------------
(* Does x, or the guard g, refer to the object at p? *)
Ind(x, p) == IF x = p THEN 1 ELSE 0
GInd(g, p) == IF g = NONE THEN 0 ELSE Ind(g.ptr, p)
MineVal(t, p) ==
  (IF pc[t] \in Referring THEN Ind(val[t], p) ELSE 0)
  + (IF pc[t] \in {"inner_pay", "inner_dec"} THEN Ind(val[t], p) ELSE 0)
MineOld(t, p) == Ind(old[t], p) + (IF Prepaid(t) THEN Ind(old[t], p) ELSE 0)
Mine(t, p) ==
  GInd(held[t], p) + Ind(new[t], p) + MineOld(t, p) + MineVal(t, p) + Ind(repl[t], p)

(* The sum of the private claims moves with the thread that acts. *)
LEMMA PrivateStep ==
  ASSUME NEW t \in Threads, NEW p, Frame(t)
  PROVE  Private(p)' = Private(p) - Mine(t, p) + Mine(t, p)'
<1>1. /\ Cardinality(HeldRefs(p)) \in Nat
      /\ Cardinality(HeldRefs(p))' = Cardinality(HeldRefs(p)) - GInd(held[t], p) + GInd(held[t], p)'
  BY OneChange, Finiteness DEF HeldRefs, GInd, Ind, Frame
<1>2. /\ Cardinality(NewRefs(p)) \in Nat
      /\ Cardinality(NewRefs(p))' = Cardinality(NewRefs(p)) - Ind(new[t], p) + Ind(new[t], p)'
  BY OneChange, Finiteness DEF NewRefs, Ind, Frame
<1>3. /\ Cardinality(OldRefs(p)) \in Nat
      /\ Cardinality(OldRefs(p))' = Cardinality(OldRefs(p)) - Ind(old[t], p) + Ind(old[t], p)'
  BY OneChange, Finiteness DEF OldRefs, Ind, Frame
<1>4. /\ Cardinality(PrepaidRefs(p)) \in Nat
      /\ Cardinality(PrepaidRefs(p))' =
           Cardinality(PrepaidRefs(p)) - (IF Prepaid(t) THEN Ind(old[t], p) ELSE 0)
                                       + (IF Prepaid(t) THEN Ind(old[t], p) ELSE 0)'
  BY OneChange, Finiteness DEF PrepaidRefs, Ind, Frame, Prepaid
<1>5. /\ Cardinality(ValRefs(p)) \in Nat
      /\ Cardinality(ValRefs(p))' =
           Cardinality(ValRefs(p)) - (IF pc[t] \in Referring THEN Ind(val[t], p) ELSE 0)
                                   + (IF pc[t] \in Referring THEN Ind(val[t], p) ELSE 0)'
  BY OneChange, Finiteness DEF ValRefs, Ind, Frame
<1>6. /\ Cardinality(InnerRefs(p)) \in Nat
      /\ Cardinality(InnerRefs(p))' =
           Cardinality(InnerRefs(p))
             - (IF pc[t] \in {"inner_pay", "inner_dec"} THEN Ind(val[t], p) ELSE 0)
             + (IF pc[t] \in {"inner_pay", "inner_dec"} THEN Ind(val[t], p) ELSE 0)'
  BY OneChange, Finiteness DEF InnerRefs, Ind, Frame
<1>7. /\ Cardinality(ReplRefs(p)) \in Nat
      /\ Cardinality(ReplRefs(p))' = Cardinality(ReplRefs(p)) - Ind(repl[t], p) + Ind(repl[t], p)'
  BY OneChange, Finiteness DEF ReplRefs, Ind, Frame
<1>8. /\ GInd(held[t], p) \in Int /\ GInd(held[t], p)' \in Int
      /\ Ind(new[t], p) \in Int /\ Ind(new[t], p)' \in Int
      /\ Ind(old[t], p) \in Int /\ Ind(old[t], p)' \in Int
      /\ Ind(val[t], p) \in Int /\ Ind(val[t], p)' \in Int
      /\ Ind(repl[t], p) \in Int /\ Ind(repl[t], p)' \in Int
  BY DEF GInd, Ind
<1> QED
  BY <1>1, <1>2, <1>3, <1>4, <1>5, <1>6, <1>7, <1>8 DEF Private, Mine, MineVal, MineOld

(* A container, a handle, a slot that gets a new value. *)
LEMMA StorageStep ==
  ASSUME DOMAIN ptr = Storages, NEW s \in Storages, NEW x, NEW p,
         ptr' = [ptr EXCEPT ![s] = x]
  PROVE  Cardinality(StorageRefs(p))' =
           Cardinality(StorageRefs(p)) - Ind(ptr[s], p) + Ind(x, p)
BY OneChange, Finiteness DEF StorageRefs, Ind

(* A step changes one guard at most, one debt at most. *)
LEMMA GuardStep ==
  ASSUME DOMAIN guard = Handles, NEW h \in Handles, NEW x, NEW p,
         guard' = [guard EXCEPT ![h] = x]
  PROVE  Cardinality(GuardRefs(p))' =
           Cardinality(GuardRefs(p)) - GInd(guard[h], p) + GInd(x, p)
BY OneChange, Finiteness DEF GuardRefs, GInd, Ind

LEMMA DebtStep ==
  ASSUME DebtDomains, NEW d \in DebtRefs, NEW x, NEW p,
         debt' = [debt EXCEPT ![d[1]][d[2]] = x]
  PROVE  Cardinality(Debts(p))' =
           Cardinality(Debts(p)) - Ind(Slot(d), p) + Ind(x, p)
<1>1. d = <<d[1], d[2]>> /\ d[1] \in Threads /\ d[2] \in Slots
  BY DEF DebtRefs
<1>2. \A e \in DebtRefs : debt'[e[1]][e[2]] = IF e = d THEN x ELSE debt[e[1]][e[2]]
  BY <1>1 DEF DebtDomains, DebtRefs
<1> QED BY <1>2, OneChange, Finiteness DEF Debts, Owes, Slot, Ind

(* And the replacements on their way: one is sent, or one arrives. *)
LEMMA SentStep ==
  ASSUME BooksInv, NEW t \in Threads, Call(t) \/ Step(t), NEW p
  PROVE  /\ pc[t] \notin {"confirm_envelope", "help_cas"} =>
              Cardinality(SentRefs(p))' = Cardinality(SentRefs(p))
         /\ HelpCas(t) /\ ~HelpSent(t) => Cardinality(SentRefs(p))' = Cardinality(SentRefs(p))
         /\ HelpCas(t) /\ HelpSent(t) =>
              Cardinality(SentRefs(p))' = Cardinality(SentRefs(p)) - Ind(NONE, p) + Ind(repl[t], p)
         /\ ConfirmEnvelope(t) =>
              Cardinality(SentRefs(p))' =
                Cardinality(SentRefs(p)) - Ind(handover[env[t]], p) + Ind(NONE, p)
<1>1. ASSUME \A n \in Threads : Sent(n)' = Sent(n)
      PROVE  Cardinality(SentRefs(p))' = Cardinality(SentRefs(p))
  BY <1>1 DEF SentRefs
<1>2. ASSUME NEW m \in Threads, \A n \in Threads : n # m => Sent(n)' = Sent(n)
      PROVE  Cardinality(SentRefs(p))' = Cardinality(SentRefs(p)) - Ind(Sent(m), p) + Ind(Sent(m), p)'
  BY <1>2, OneChange, Finiteness DEF SentRefs, Ind
<1>3. CASE pc[t] \notin {"confirm_envelope", "help_cas"} \/ (HelpCas(t) /\ ~HelpSent(t))
  <2>1. ~ConfirmEnvelope(t) /\ \A n \in Threads : n # t => ~Sends(t, n)
    BY <1>3, SentFrame DEF ConfirmEnvelope, HelpCas, Sends
  <2> QED BY <1>1, <1>3, <2>1, SentFrame DEF ConfirmEnvelope, HelpCas
<1>4. CASE HelpCas(t) /\ HelpSent(t)
  <2>1. PICK m : m = node[t]
    OBVIOUS
  <2>2. Domains /\ Own(t) /\ m \in Threads /\ m # t
    BY <1>4, <2>1, TypeDomains DEF BooksInv, EnvInv, OwnInv, TypeInv, Located, Placed, Walking, HelpPCs,
      HelpCas, Own, Foreign, Helping
  <2>3. Sends(t, m)
    BY <1>4, <2>1, <2>2 DEF Sends, HelpCas, HelpSent, HelpFailed, Domains
  <2>4. \A n \in Threads : n # m => Sent(n)' = Sent(n)
    BY <1>4, <2>1, SentFrame DEF Sends, ConfirmEnvelope, HelpCas
  <2>5. Sent(m) = NONE /\ Sent(m)' = repl[t]
    BY <2>2, <2>3, SentFrame
  <2> QED BY <1>2, <1>4, <2>2, <2>4, <2>5 DEF Ind, HelpCas, ConfirmEnvelope
<1>5. CASE ConfirmEnvelope(t)
  <2>1. \A n \in Threads : n # t => Sent(n)' = Sent(n)
    BY <1>5, SentFrame DEF Sends, ConfirmEnvelope
  <2>2. Sent(t) = handover[env[t]] /\ Sent(t)' = NONE
    BY <1>5, SentFrame
  <2> QED BY <1>2, <1>5, <2>1, <2>2 DEF Ind, HelpCas, ConfirmEnvelope
<1> QED BY <1>3, <1>4, <1>5 DEF HelpCas, ConfirmEnvelope

----------------------------------------------------------------------------
(* The balance of the object at p. *)
Balanced(p) ==
  cnt[p] + Cardinality(Debts(p)) =
    Cardinality(StorageRefs(p)) + Cardinality(GuardRefs(p)) + Cardinality(SentRefs(p)) + Private(p)

(* A load hands over what it found. *)
LEMMA LoadedMoves ==
  ASSUME BooksInv, NEW t \in Threads, NEW p \in Ptrs, NEW x \in Words, NEW d \in DebtRefs \cup {NONE},
         Loaded(t, x, d), d # NONE => repl[t] = NONE, UNCHANGED <<new, old, node>>, pc[t] \in LoadPCs
  PROVE  Cardinality(GuardRefs(p))' + Mine(t, p)' =
           Cardinality(GuardRefs(p)) + Mine(t, p) - MineVal(t, p) - Ind(repl[t], p) + Ind(x, p)
<1>1. Domains /\ TypeOK /\ Books(t) /\ DOMAIN guard = Handles
  BY TypeDomains DEF BooksInv, EnvInv, OwnInv, TypeInv, TypeOK
<1>2. p # NONE /\ \A k \in HandleIds : <<t, k>> \in Handles
  BY ConstantsOK DEF Handles
<1>3. /\ Cardinality(GuardRefs(p)) \in Nat /\ MineOld(t, p) \in Int /\ MineVal(t, p) \in Int
      /\ Ind(new[t], p) \in Int /\ Ind(repl[t], p) \in Int /\ Ind(x, p) \in Int /\ GInd(held[t], p) \in Int
      /\ Ind(NONE, p) = 0
  BY <1>2, ClaimsCount DEF Counted, MineOld, MineVal, Ind, GInd
<1>4. MineOld(t, p)' = MineOld(t, p) /\ Ind(new[t], p)' = Ind(new[t], p)
  BY <1>1 DEF MineOld, Prepaid, Ind, Loaded, Return, LoadPCs, Domains
<1>0. Protection(x, d) # NONE /\ GInd(Protection(x, d), p) = Ind(x, p) /\ GInd(NONE, p) = 0
  <2>1. Protection(x, d) # NONE
    BY ProtectionFacts, ConstantsOK
  <2> QED BY <2>1 DEF GInd, Protection
<1>5. CASE d # NONE /\ WantsInner(t)
  <2>1. pc'[t] = "inner_inc" /\ val'[t] = x /\ UNCHANGED <<guard, repl, held>> /\ repl[t] = NONE
    BY <1>1, <1>5 DEF Loaded, Domains
  <2>2. MineVal(t, p)' = Ind(x, p)
    BY <2>1 DEF MineVal, Referring, Ind
  <2>3. Cardinality(GuardRefs(p))' = Cardinality(GuardRefs(p))
    BY <2>1 DEF GuardRefs
  <2>4. GInd(held[t], p)' = GInd(held[t], p) /\ Ind(repl[t], p)' = 0 /\ Ind(repl[t], p) = 0
    BY <2>1, <1>2 DEF GInd, Ind
  <2> QED BY <1>3, <1>4, <2>2, <2>3, <2>4 DEF Mine
<1>6. CASE d = NONE \/ ~WantsInner(t)
  <2>1. pc'[t] \in {"idle", "help_their", "cas_check"} /\ val'[t] = NONE
    BY <1>1, <1>6 DEF Loaded, Return, Domains
  <2>2. MineVal(t, p)' = 0
    BY <2>1 DEF MineVal, Referring, Unconfirmed
  <2>3. CASE ret[t] = "user"
    <3>1. Return(t, Protection(x, d)) /\ repl'[t] = NONE /\ held' = held
      BY <1>1, <1>6, <2>3 DEF Loaded, Domains
    <3>2. call[t].hnd \in HandleIds /\ guard[<<t, call[t].hnd>>] = NONE
      BY <1>1, <2>3 DEF Books, HandleOK, Receiving
    <3>3. PICK h : h = <<t, call[t].hnd>>
      OBVIOUS
    <3>4. Cardinality(GuardRefs(p))' = Cardinality(GuardRefs(p)) + Ind(x, p)
      <4>1. h \in Handles /\ guard[h] = NONE /\ guard' = [guard EXCEPT ![h] = Protection(x, d)]
        BY <1>0, <1>2, <3>1, <3>2, <3>3 DEF Return
      <4>2. Cardinality(GuardRefs(p))' =
              Cardinality(GuardRefs(p)) - GInd(guard[h], p) + GInd(Protection(x, d), p)
        BY <1>1, <4>1, GuardStep
      <4> QED BY <1>0, <1>3, <4>1, <4>2
    <3>5. GInd(held[t], p)' = GInd(held[t], p) /\ Ind(repl[t], p)' = 0
      BY <3>1, <1>2 DEF GInd, Ind
    <3> QED BY <1>3, <1>4, <2>2, <3>4, <3>5 DEF Mine
  <2>4. CASE ret[t] = "help"
    <3>1. guard' = guard /\ repl'[t] = x /\ held' = held
      BY <1>1, <1>6, <2>4 DEF Loaded, Domains
    <3>2. Cardinality(GuardRefs(p))' = Cardinality(GuardRefs(p))
      BY <3>1 DEF GuardRefs
    <3>3. GInd(held[t], p)' = GInd(held[t], p) /\ Ind(repl[t], p)' = Ind(x, p)
      BY <3>1 DEF GInd, Ind
    <3> QED BY <1>3, <1>4, <2>2, <3>2, <3>3 DEF Mine
  <2>5. CASE ret[t] = "cas"
    <3>1. guard' = guard /\ repl'[t] = NONE /\ held'[t] = Protection(x, d)
      BY <1>1, <1>6, <2>5 DEF Loaded, Domains
    <3>2. Cardinality(GuardRefs(p))' = Cardinality(GuardRefs(p))
      BY <3>1 DEF GuardRefs
    <3>3. GInd(held[t], p)' = Ind(x, p) /\ Ind(repl[t], p)' = 0 /\ GInd(held[t], p) = 0
      <4>1. held[t] = NONE
        BY <1>1, <2>5 DEF Books, HeldOK
      <4>2. GInd(held[t], p)' = GInd(Protection(x, d), p)
        BY <3>1 DEF GInd
      <4> QED BY <1>0, <1>2, <3>1, <4>1, <4>2 DEF Ind
    <3> QED BY <1>3, <1>4, <2>2, <3>2, <3>3 DEF Mine
  <2> QED BY <1>1, <1>6, <2>3, <2>4, <2>5 DEF Loaded
<1> QED BY <1>5, <1>6

(* The facts that the balance of every step needs. *)
LEMMA BalanceFacts ==
  ASSUME BooksInv, NEW t \in Threads, Call(t) \/ Step(t), NEW p \in Ptrs
  PROVE  /\ Domains /\ TypeOK /\ Books(t) /\ Placed(t) /\ Own(t) /\ DebtDomains
         /\ DOMAIN guard = Handles /\ DOMAIN ptr = Storages
         /\ Private(p)' = Private(p) - Mine(t, p) + Mine(t, p)'
         /\ cnt[p] \in Int /\ Private(p) \in Int /\ Cardinality(StorageRefs(p)) \in Int
         /\ Cardinality(GuardRefs(p)) \in Int /\ Cardinality(SentRefs(p)) \in Int
         /\ Cardinality(Debts(p)) \in Int /\ Mine(t, p) \in Int /\ Mine(t, p)' \in Int
         /\ UNCHANGED cnt => cnt'[p] = cnt[p]
         /\ UNCHANGED ptr => Cardinality(StorageRefs(p))' = Cardinality(StorageRefs(p))
         /\ UNCHANGED guard => Cardinality(GuardRefs(p))' = Cardinality(GuardRefs(p))
         /\ UNCHANGED debt => Cardinality(Debts(p))' = Cardinality(Debts(p))
         /\ \A x : /\ Inc(x)[p] = cnt[p] + Ind(x, p) /\ Dec(x)[p] = cnt[p] - Ind(x, p)
                   /\ Ind(x, p) \in Int /\ GInd(x, p) \in Int
         /\ Ind(NONE, p) = 0 /\ GInd(NONE, p) = 0
<1>1. /\ Domains /\ TypeOK /\ Books(t) /\ Placed(t) /\ Own(t) /\ DebtDomains
      /\ DOMAIN guard = Handles /\ DOMAIN ptr = Storages
  BY TypeDomains DEF BooksInv, EnvInv, OwnInv, TypeInv, TypeOK, Located, DebtDomains
<1>2. Private(p)' = Private(p) - Mine(t, p) + Mine(t, p)'
  BY <1>1, PrivateStep, StepFrame
<1>3. /\ cnt[p] \in Int /\ Private(p) \in Int /\ Cardinality(StorageRefs(p)) \in Int
      /\ Cardinality(GuardRefs(p)) \in Int /\ Cardinality(SentRefs(p)) \in Int
      /\ Cardinality(Debts(p)) \in Int
  BY <1>1, ClaimsCount DEF TypeOK, Counted
<1>4. Mine(t, p) \in Int /\ Mine(t, p)' \in Int
  BY DEF Mine, MineVal, MineOld, Ind, GInd
<1>5. p # NONE /\ p # Null /\ cnt \in [Ptrs -> Int]
  BY <1>1, ConstantsOK DEF TypeOK
<1>6. ASSUME NEW x
      PROVE  Inc(x)[p] = cnt[p] + Ind(x, p) /\ Dec(x)[p] = cnt[p] - Ind(x, p)
  BY <1>5 DEF Inc, Dec, Ind
<1>7. /\ UNCHANGED ptr => Cardinality(StorageRefs(p))' = Cardinality(StorageRefs(p))
      /\ UNCHANGED guard => Cardinality(GuardRefs(p))' = Cardinality(GuardRefs(p))
      /\ UNCHANGED debt => Cardinality(Debts(p))' = Cardinality(Debts(p))
  BY DEF StorageRefs, GuardRefs, Debts, Owes
<1>8. Ind(NONE, p) = 0 /\ GInd(NONE, p) = 0 /\ \A x : Ind(x, p) \in Int /\ GInd(x, p) \in Int
  BY <1>5 DEF Ind, GInd
<1> QED BY <1>1, <1>2, <1>3, <1>4, <1>6, <1>7, <1>8

(* Paying what d owes. *)
LEMMA PayMoves ==
  ASSUME DebtDomains, NEW d \in DebtRefs, NEW x, Owes(d, x), Pay(d), NEW p \in Ptrs
  PROVE  Cardinality(Debts(p))' = Cardinality(Debts(p)) - Ind(x, p)
<1>1. Cardinality(Debts(p))' = Cardinality(Debts(p)) - Ind(Slot(d), p) + Ind(NONE, p)
  BY DebtStep DEF Pay
<1>2. Slot(d) = x /\ Ind(NONE, p) = 0 /\ Ind(x, p) \in Int /\ Cardinality(Debts(p)) \in Nat
  BY ConstantsOK, ClaimsCount DEF Counted, Slot, Owes, Ind
<1> QED BY <1>1, <1>2

(* The steps of a load balance. *)
LEMMA LoadBalance ==
  ASSUME BooksInv, NEW t \in Threads, Load(t), NEW p \in Ptrs, Balanced(p)
  PROVE  Balanced(p)'
<1>0. Call(t) \/ Step(t)
  BY DEF Step
<1>1. /\ Domains /\ TypeOK /\ Books(t) /\ Placed(t) /\ Own(t) /\ DebtDomains
      /\ Private(p)' = Private(p) - Mine(t, p) + Mine(t, p)'
      /\ cnt[p] \in Int /\ Private(p) \in Int /\ Cardinality(StorageRefs(p)) \in Int
      /\ Cardinality(GuardRefs(p)) \in Int /\ Cardinality(SentRefs(p)) \in Int
      /\ Cardinality(Debts(p)) \in Int /\ Mine(t, p) \in Int /\ Mine(t, p)' \in Int
      /\ UNCHANGED cnt => cnt'[p] = cnt[p]
      /\ UNCHANGED ptr => Cardinality(StorageRefs(p))' = Cardinality(StorageRefs(p))
      /\ UNCHANGED guard => Cardinality(GuardRefs(p))' = Cardinality(GuardRefs(p))
      /\ UNCHANGED debt => Cardinality(Debts(p))' = Cardinality(Debts(p))
      /\ \A x : /\ Inc(x)[p] = cnt[p] + Ind(x, p) /\ Dec(x)[p] = cnt[p] - Ind(x, p)
                /\ Ind(x, p) \in Int
      /\ Ind(NONE, p) = 0
  BY <1>0, BalanceFacts
<1>2. /\ pc[t] # "confirm_envelope" => Cardinality(SentRefs(p))' = Cardinality(SentRefs(p))
      /\ ConfirmEnvelope(t) =>
           Cardinality(SentRefs(p))' = Cardinality(SentRefs(p)) - Ind(handover[env[t]], p) + Ind(NONE, p)
  <2>1. pc[t] # "help_cas"
    BY DEF Load, AttemptLoad, NewFast, AttemptConfirm, AttemptPay, GetDebtAddr, GetDebtControl,
       Candidate, ConfirmSlot, ConfirmControl, ConfirmEnvelope, ConfirmOffer, UnusedPay, UnusedDec,
       InnerInc, InnerPay, InnerDec
  <2> QED BY <1>0, <2>1, SentStep
<1>3. repl[t] # NONE => pc[t] \in {"confirm_offer", "unused_pay", "unused_dec"} \cup HelpPCs
  BY <1>1 DEF Books, ReplOK, HelpPCs
<1>4. val[t] \in Words /\ repl[t] \in Words /\ dref[t] \in DebtRefs \cup {NONE} /\ NONE \in DebtRefs \cup {NONE}
  BY <1>1 DEF TypeOK
<1> USE DEF heap, helping, user, loader, writer
<1>5. ASSUME UNCHANGED <<ptr, cnt, debt, guard>>, pc[t] # "confirm_envelope", Mine(t, p)' = Mine(t, p)
      PROVE  Balanced(p)'
  BY <1>1, <1>2, <1>5 DEF Balanced
<1>L. ASSUME NEW x \in Words, NEW d \in DebtRefs \cup {NONE}, Loaded(t, x, d), d # NONE => repl[t] = NONE,
             UNCHANGED <<new, old, node, ptr>>, pc[t] \in LoadPCs \ {"confirm_envelope"},
             NEW c \in Int, cnt'[p] = cnt[p] + c,
             NEW e \in Int, Cardinality(Debts(p))' = Cardinality(Debts(p)) + e,
             c + e = Ind(x, p) - MineVal(t, p) - Ind(repl[t], p)
      PROVE  Balanced(p)'
  <2>1. Cardinality(GuardRefs(p))' + Mine(t, p)' =
           Cardinality(GuardRefs(p)) + Mine(t, p) - MineVal(t, p) - Ind(repl[t], p) + Ind(x, p)
    BY <1>L, LoadedMoves
  <2>2. Cardinality(GuardRefs(p))' \in Int /\ MineVal(t, p) \in Int
    BY ClaimsCountNext DEF Counted, MineVal, Ind
  <2>3. Cardinality(StorageRefs(p))' = Cardinality(StorageRefs(p)) /\ Cardinality(SentRefs(p))' = Cardinality(SentRefs(p))
    BY <1>1, <1>2, <1>L
  <2>4. /\ cnt[p] \in Int /\ Private(p) \in Int /\ Cardinality(StorageRefs(p)) \in Int
        /\ Cardinality(GuardRefs(p)) \in Int /\ Cardinality(SentRefs(p)) \in Int
        /\ Cardinality(Debts(p)) \in Int /\ Mine(t, p) \in Int /\ Mine(t, p)' \in Int
        /\ Ind(x, p) \in Int /\ Ind(repl[t], p) \in Int
        /\ Private(p)' = Private(p) - Mine(t, p) + Mine(t, p)'
    BY <1>1
  <2>5. cnt'[p] = cnt[p] + c /\ Cardinality(Debts(p))' = Cardinality(Debts(p)) + e
        /\ c + e = Ind(x, p) - MineVal(t, p) - Ind(repl[t], p) /\ c \in Int /\ e \in Int
    BY <1>L
  <2> QED BY <2>1, <2>2, <2>3, <2>4, <2>5 DEF Balanced
<1>6. CASE AttemptLoad(t) \/ GetDebtAddr(t) \/ GetDebtControl(t) \/ Candidate(t) \/ ConfirmControl(t) \/ ConfirmOffer(t)
  <2>1. Mine(t, p)' = Mine(t, p)
    BY <1>1, <1>6 DEF AttemptLoad, GetDebtAddr, GetDebtControl, Candidate, ConfirmControl, ConfirmOffer,
      Mine, MineVal, MineOld, Ind, GInd, Prepaid, Referring, Unconfirmed, Domains
  <2> QED BY <1>5, <1>6, <2>1 DEF AttemptLoad, GetDebtAddr, GetDebtControl, Candidate, ConfirmControl, ConfirmOffer
<1>7. CASE NewFast(t) \/ ConfirmSlot(t)
  <2>1. CASE NewFast(t) /\ pc'[t] = "fallback"
    <3>1. UNCHANGED <<ptr, cnt, debt, guard>> /\ pc[t] = "new_fast"
      BY <1>1, <2>1 DEF NewFast, Domains
    <3>2. Mine(t, p)' = Mine(t, p)
      BY <1>1, <2>1 DEF NewFast,
        Mine, MineVal, MineOld, Ind, GInd, Prepaid, Referring, Unconfirmed, Domains
    <3> QED BY <1>5, <3>1, <3>2
  <2>2. CASE ~(NewFast(t) /\ pc'[t] = "fallback")
    <3>1. PICK d \in DebtRefs : /\ Slot(d) = NONE
                                /\ debt' = [debt EXCEPT ![d[1]][d[2]] = val[t]]
      <4>1. CASE NewFast(t)
        <5>1. PICK s \in FastSlots : debt[t][s] = NONE /\ debt' = [debt EXCEPT ![t][s] = val[t]]
          BY <1>1, <2>2, <4>1 DEF NewFast, Domains
        <5>2. <<t, s>> \in DebtRefs
          BY ConstantsOK DEF DebtRefs, Slots, FastSlots, HELPING
        <5> QED BY <5>1, <5>2 DEF Slot
      <4>2. CASE ConfirmSlot(t)
        <5>1. <<t, HELPING>> \in DebtRefs
          BY ConstantsOK DEF DebtRefs, Slots, HELPING
        <5>2. debt[t][HELPING] = NONE
          BY <1>1, <4>2 DEF ConfirmSlot, Own, SlotInUse, Holding
        <5> QED BY <4>2, <5>1, <5>2 DEF ConfirmSlot, Slot
      <4> QED BY <1>7, <4>1, <4>2
    <3>2. Cardinality(Debts(p))' = Cardinality(Debts(p)) - Ind(Slot(d), p) + Ind(val[t], p)
      BY <1>1, <3>1, DebtStep
    <3>3. Mine(t, p)' = Mine(t, p) + Ind(val[t], p)
      BY <1>1, <1>7, <2>2 DEF NewFast, ConfirmSlot,
        Mine, MineVal, MineOld, Ind, GInd, Prepaid, Referring, Unconfirmed, Domains
    <3> QED BY <1>1, <1>2, <1>7, <3>1, <3>2, <3>3 DEF Balanced, NewFast, ConfirmSlot
  <2> QED BY <2>1, <2>2
<1>8. CASE AttemptConfirm(t)
  <2>1. CASE UNCHANGED val /\ pc'[t] = "attempt_pay"
    <3>1. Mine(t, p)' = Mine(t, p)
      BY <1>1, <1>8, <2>1 DEF AttemptConfirm, Loaded, Return, Mine, MineVal, MineOld, Ind, GInd, Prepaid, Referring, Unconfirmed, Domains
    <3> QED BY <1>1, <1>5, <1>8, <2>1, <3>1 DEF AttemptConfirm, Loaded, Return, Domains
  <2>2. CASE Loaded(t, val[t], dref[t])
    <3>1. repl[t] = NONE /\ MineVal(t, p) = Ind(val[t], p) /\ pc[t] \in LoadPCs \ {"confirm_envelope"}
      BY <1>3, <1>8 DEF AttemptConfirm, HelpPCs, MineVal, Referring, Unconfirmed, Ind, LoadPCs
    <3>2. UNCHANGED <<new, old, node, ptr>> /\ cnt'[p] = cnt[p] + 0
          /\ Cardinality(Debts(p))' = Cardinality(Debts(p)) + 0
      BY <1>1, <1>8 DEF AttemptConfirm
    <3> QED BY <1>L, <1>1, <1>4, <2>2, <3>1, <3>2
  <2> QED BY <1>1, <1>8, <2>1, <2>2 DEF AttemptConfirm, Domains
<1>9. CASE AttemptPay(t)
  <2>0. repl[t] = NONE /\ MineVal(t, p) = Ind(val[t], p) /\ pc[t] \in LoadPCs \ {"confirm_envelope"}
        /\ dref[t] \in DebtRefs
    BY <1>1, <1>3, <1>9, OwingRef DEF AttemptPay, HelpPCs, MineVal, Referring, Unconfirmed, Ind, LoadPCs, Own
  <2>1. CASE Owes(dref[t], val[t])
    <3>1. Cardinality(Debts(p))' = Cardinality(Debts(p)) - Ind(val[t], p)
      BY <1>1, <1>9, <2>0, <2>1, PayMoves DEF AttemptPay
    <3>2. Mine(t, p)' = Mine(t, p) - Ind(val[t], p)
      BY <1>1, <1>9, <2>1 DEF AttemptPay,
        Mine, MineVal, MineOld, Ind, GInd, Prepaid, Referring, Unconfirmed, Domains
    <3>3. UNCHANGED <<ptr, cnt, guard>>
      BY <1>9, <2>1 DEF AttemptPay
    <3> QED BY <1>1, <1>2, <2>0, <3>1, <3>2, <3>3 DEF Balanced
  <2>2. CASE ~Owes(dref[t], val[t])
    <3>1. Loaded(t, val[t], NONE) /\ UNCHANGED <<new, old, node, ptr>> /\ cnt'[p] = cnt[p] + 0
          /\ Cardinality(Debts(p))' = Cardinality(Debts(p)) + 0
      BY <1>1, <1>9, <2>2 DEF AttemptPay
    <3> QED BY <1>L, <1>1, <1>4, <2>0, <3>1
  <2> QED BY <2>1, <2>2
<1>10. CASE ConfirmEnvelope(t)
  <2>1. Mine(t, p)' = Mine(t, p) + Ind(handover[env[t]], p)
    <3>1. repl[t] = NONE
      BY <1>3, <1>10 DEF ConfirmEnvelope, HelpPCs
    <3> QED BY <1>1, <1>10, <3>1 DEF ConfirmEnvelope,
        Mine, MineVal, MineOld, Ind, GInd, Prepaid, Referring, Unconfirmed, Domains
  <2>2. UNCHANGED <<ptr, cnt, guard, debt>>
    BY <1>10 DEF ConfirmEnvelope
  <2> QED BY <1>1, <1>2, <1>10, <2>1, <2>2 DEF Balanced
<1>11. CASE UnusedPay(t)
  <2>0. MineVal(t, p) = Ind(val[t], p) /\ pc[t] \in LoadPCs \ {"confirm_envelope"}
        /\ dref[t] \in DebtRefs
    BY <1>1, <1>11, OwingRef DEF UnusedPay, Holding, MineVal, Referring, Unconfirmed, Ind, LoadPCs, Own
  <2>1. CASE Owes(dref[t], val[t])
    <3>1. Cardinality(Debts(p))' = Cardinality(Debts(p)) - Ind(val[t], p)
      BY <1>1, <1>11, <2>0, <2>1, PayMoves DEF UnusedPay
    <3>2. Loaded(t, repl[t], NONE) /\ UNCHANGED <<new, old, node, ptr>> /\ cnt'[p] = cnt[p] + 0
      BY <1>1, <1>11, <2>1 DEF UnusedPay
    <3>3. Cardinality(Debts(p))' = Cardinality(Debts(p)) + (0 - Ind(val[t], p))
      BY <1>1, <3>1
    <3> QED BY <1>L, <1>1, <1>4, <2>0, <3>2, <3>3
  <2>2. CASE ~Owes(dref[t], val[t])
    <3>1. Mine(t, p)' = Mine(t, p)
      BY <1>1, <1>11, <2>2 DEF UnusedPay,
        Mine, MineVal, MineOld, Ind, GInd, Prepaid, Referring, Unconfirmed, Domains
    <3>2. UNCHANGED <<ptr, cnt, guard, debt>>
      BY <1>11, <2>2 DEF UnusedPay
    <3> QED BY <1>5, <2>0, <3>1, <3>2
  <2> QED BY <2>1, <2>2
<1>12. CASE UnusedDec(t)
  <2>1. MineVal(t, p) = Ind(val[t], p) /\ pc[t] \in LoadPCs \ {"confirm_envelope"}
    BY <1>12 DEF UnusedDec, MineVal, Referring, Unconfirmed, Ind, LoadPCs
  <2>2. Loaded(t, repl[t], NONE) /\ UNCHANGED <<new, old, node, ptr>>
        /\ cnt'[p] = cnt[p] + (0 - Ind(val[t], p)) /\ Cardinality(Debts(p))' = Cardinality(Debts(p)) + 0
    BY <1>1, <1>12 DEF UnusedDec, DropRef
  <2> QED BY <1>L, <1>1, <1>4, <2>1, <2>2
<1>13. CASE InnerInc(t)
  <2>1. Mine(t, p)' = Mine(t, p) + Ind(val[t], p)
    BY <1>1, <1>13 DEF InnerInc,
        Mine, MineVal, MineOld, Ind, GInd, Prepaid, Referring, Unconfirmed, Domains
  <2>2. UNCHANGED <<ptr, guard, debt>> /\ cnt'[p] = cnt[p] + Ind(val[t], p)
    BY <1>1, <1>13 DEF InnerInc, TakeRef
  <2> QED BY <1>1, <1>2, <1>13, <2>1, <2>2 DEF Balanced, InnerInc
<1>14. CASE InnerPay(t)
  <2>0. MineVal(t, p) = Ind(val[t], p) + Ind(val[t], p) /\ pc[t] \in LoadPCs \ {"confirm_envelope"}
        /\ dref[t] \in DebtRefs /\ repl[t] = NONE
    BY <1>1, <1>3, <1>14, OwingRef DEF InnerPay, Holding, HelpPCs, MineVal, Referring, Unconfirmed, Ind, LoadPCs, Own
  <2>1. CASE Owes(dref[t], val[t])
    <3>1. Cardinality(Debts(p))' = Cardinality(Debts(p)) - Ind(val[t], p)
      BY <1>1, <1>14, <2>0, <2>1, PayMoves DEF InnerPay
    <3>2. Loaded(t, val[t], NONE) /\ UNCHANGED <<new, old, node, ptr>> /\ cnt'[p] = cnt[p] + 0
      BY <1>1, <1>14, <2>1 DEF InnerPay
    <3>3. Cardinality(Debts(p))' = Cardinality(Debts(p)) + (0 - Ind(val[t], p))
      BY <1>1, <3>1
    <3> QED BY <1>L, <1>1, <1>4, <2>0, <3>2, <3>3
  <2>2. CASE ~Owes(dref[t], val[t])
    <3>1. Mine(t, p)' = Mine(t, p)
      BY <1>1, <1>14, <2>2 DEF InnerPay,
        Mine, MineVal, MineOld, Ind, GInd, Prepaid, Referring, Unconfirmed, Domains
    <3>2. UNCHANGED <<ptr, cnt, guard, debt>>
      BY <1>14, <2>2 DEF InnerPay
    <3> QED BY <1>5, <2>0, <3>1, <3>2
  <2> QED BY <2>1, <2>2
<1>15. CASE InnerDec(t)
  <2>1. MineVal(t, p) = Ind(val[t], p) + Ind(val[t], p) /\ pc[t] \in LoadPCs \ {"confirm_envelope"}
        /\ repl[t] = NONE
    BY <1>3, <1>15 DEF InnerDec, HelpPCs, MineVal, Referring, Unconfirmed, Ind, LoadPCs
  <2>2. Loaded(t, val[t], NONE) /\ UNCHANGED <<new, old, node, ptr>>
        /\ cnt'[p] = cnt[p] + (0 - Ind(val[t], p)) /\ Cardinality(Debts(p))' = Cardinality(Debts(p)) + 0
    BY <1>1, <1>15 DEF InnerDec, DropRef
  <2> QED BY <1>L, <1>1, <1>4, <2>1, <2>2
<1> QED
  BY <1>6, <1>7, <1>8, <1>9, <1>10, <1>11, <1>12, <1>13, <1>14, <1>15 DEF Load

(* A call that ends puts its result into its handle. *)
LEMMA ReturnMoves ==
  ASSUME BooksInv, NEW t \in Threads, NEW p \in Ptrs, NEW x, Return(t, x), x # NONE => Receiving(t)
  PROVE  Cardinality(GuardRefs(p))' = Cardinality(GuardRefs(p)) + GInd(x, p)
<1>1. Cardinality(GuardRefs(p)) \in Nat /\ GInd(NONE, p) = 0 /\ GInd(x, p) \in Int
  BY ClaimsCount DEF Counted, GInd, Ind
<1>2. CASE x = NONE
  BY <1>1, <1>2 DEF Return, GuardRefs
<1>3. CASE x # NONE
  <2>1. PICK h : h = <<t, call[t].hnd>>
    OBVIOUS
  <2>2. h \in Handles /\ guard[h] = NONE
    BY <1>3, <2>1 DEF BooksInv, Books, HandleOK, Handles
  <2>3. DOMAIN guard = Handles /\ guard' = [guard EXCEPT ![h] = x]
    BY <1>3, <2>1 DEF Return, BooksInv, EnvInv, OwnInv, TypeInv, TypeOK
  <2>4. Cardinality(GuardRefs(p))' = Cardinality(GuardRefs(p)) - GInd(guard[h], p) + GInd(x, p)
    BY <2>2, <2>3, GuardStep
  <2> QED BY <1>1, <2>2, <2>4
<1> QED BY <1>2, <1>3

(* Beginning a call balances. *)
LEMMA CallBalance ==
  ASSUME BooksInv, NEW t \in Threads, Call(t), NEW p \in Ptrs, Balanced(p)
  PROVE  Balanced(p)'
<1>0. (Call(t) \/ Step(t)) /\ pc[t] = "idle"
  BY DEF Call, CallLoad, CallDrop, CallSwap, CallNew, CallCas, CallGuardDrop, CallGuardIntoInner, Begin
<1>1. /\ Domains /\ TypeOK /\ Books(t) /\ Placed(t) /\ Own(t) /\ DebtDomains
      /\ DOMAIN guard = Handles /\ DOMAIN ptr = Storages
      /\ Private(p)' = Private(p) - Mine(t, p) + Mine(t, p)'
      /\ cnt[p] \in Int /\ Private(p) \in Int /\ Cardinality(StorageRefs(p)) \in Int
      /\ Cardinality(GuardRefs(p)) \in Int /\ Cardinality(SentRefs(p)) \in Int
      /\ Cardinality(Debts(p)) \in Int /\ Mine(t, p) \in Int /\ Mine(t, p)' \in Int
      /\ UNCHANGED cnt => cnt'[p] = cnt[p]
      /\ UNCHANGED ptr => Cardinality(StorageRefs(p))' = Cardinality(StorageRefs(p))
      /\ UNCHANGED guard => Cardinality(GuardRefs(p))' = Cardinality(GuardRefs(p))
      /\ UNCHANGED debt => Cardinality(Debts(p))' = Cardinality(Debts(p))
      /\ \A x : /\ Inc(x)[p] = cnt[p] + Ind(x, p) /\ Dec(x)[p] = cnt[p] - Ind(x, p)
                /\ Ind(x, p) \in Int /\ GInd(x, p) \in Int
      /\ Ind(NONE, p) = 0 /\ GInd(NONE, p) = 0
  BY <1>0, BalanceFacts
<1>2. Cardinality(SentRefs(p))' = Cardinality(SentRefs(p))
  BY <1>0, SentStep
<1>3. new[t] = NONE /\ old[t] = NONE /\ node[t] = 0
  BY <1>0, <1>1, ConstantsOK DEF Books, NewOK, OldOK, NodeOK, Paying, HelpPCs, Placed, Walking, LoadPCs
<1> USE DEF heap, helping, user, loader, writer
<1>4. ASSUME NEW op, NEW s \in Storages, NEW k, CallLoad(t, op, s, k) PROVE Balanced(p)'
  <2>1. UNCHANGED <<ptr, cnt, debt, guard>> /\ Mine(t, p)' = Mine(t, p)
    BY <1>1, <1>4, PCFacts DEF CallLoad, Begin, Mine, MineVal, MineOld, Ind, GInd, Prepaid, Referring, Unconfirmed, Domains
  <2> QED BY <1>1, <1>2, <2>1 DEF Balanced
<1>5. ASSUME NEW op, NEW s \in Storages, NEW k, CallDrop(t, op, s, k) PROVE Balanced(p)'
  <2>1. Cardinality(StorageRefs(p))' = Cardinality(StorageRefs(p)) - Ind(ptr[s], p) + Ind(NONE, p)
    BY <1>1, <1>5, StorageStep DEF CallDrop
  <2>2. UNCHANGED <<cnt, debt, guard>> /\ Mine(t, p)' = Mine(t, p) + Ind(ptr[s], p)
    <3>1. /\ held' = held /\ new' = new /\ repl' = repl /\ node' = node /\ old'[t] = ptr[s]
          /\ pc'[t] = "pay_inc" /\ UNCHANGED <<cnt, debt, guard>>
      BY <1>1, <1>5 DEF CallDrop, Begin, Domains
    <3> QED BY <1>0, <1>1, <1>3, <3>1 DEF Mine, MineVal, MineOld, Ind, GInd, Prepaid, Referring, Unconfirmed, Domains
  <2> QED BY <1>1, <1>2, <2>1, <2>2 DEF Balanced
<1>6. ASSUME NEW op, NEW s \in Storages, NEW k, NEW x, CallSwap(t, op, s, k, x) PROVE Balanced(p)'
  <2>1. UNCHANGED <<ptr, debt, guard>> /\ cnt'[p] = cnt[p] + Ind(x, p) /\ Mine(t, p)' = Mine(t, p) + Ind(x, p)
    <3>1. /\ held' = held /\ old' = old /\ repl' = repl /\ node' = node /\ new'[t] = x
          /\ pc'[t] = "swap" /\ UNCHANGED <<ptr, debt, guard>> /\ cnt' = Inc(x)
      BY <1>1, <1>6 DEF CallSwap, Begin, TakeRef, Domains
    <3> QED BY <1>0, <1>1, <1>3, <3>1 DEF Mine, MineVal, MineOld, Ind, GInd, Prepaid, Referring, Unconfirmed, Domains
  <2>2. Ind(x, p) \in Int
    BY DEF Ind
  <2> QED BY <1>1, <1>2, <2>1, <2>2 DEF Balanced
<1>7. ASSUME NEW s \in Storages, NEW k, NEW c, NEW x, CallCas(t, s, k, c, x) PROVE Balanced(p)'
  <2>1. UNCHANGED <<ptr, debt, guard>> /\ cnt'[p] = cnt[p] + Ind(x, p) /\ Mine(t, p)' = Mine(t, p) + Ind(x, p)
    <3>1. /\ held' = held /\ old' = old /\ repl' = repl /\ node' = node /\ new'[t] = x
          /\ pc'[t] = LoadEntry /\ UNCHANGED <<ptr, debt, guard>> /\ cnt' = Inc(x)
      BY <1>1, <1>7 DEF CallCas, Begin, Domains
    <3> QED BY <1>0, <1>1, <1>3, <3>1, PCFacts DEF Mine, MineVal, MineOld, Ind, GInd, Prepaid, Referring, Unconfirmed, Domains
  <2>2. Ind(x, p) \in Int
    BY DEF Ind
  <2> QED BY <1>1, <1>2, <2>1, <2>2 DEF Balanced
<1>8. ASSUME NEW s \in Storages, NEW x, CallNew(t, s, x) PROVE Balanced(p)'
  <2>1. Cardinality(StorageRefs(p))' = Cardinality(StorageRefs(p)) - Ind(ptr[s], p) + Ind(x, p)
    BY <1>1, <1>8, StorageStep DEF CallNew
  <2>2. ptr[s] = NONE /\ UNCHANGED <<debt, guard>> /\ cnt'[p] = cnt[p] + Ind(x, p) /\ Mine(t, p)' = Mine(t, p)
    BY <1>1, <1>8 DEF CallNew, Live, TakeRef, Mine, MineVal, MineOld, Prepaid
  <2> QED BY <1>1, <1>2, <2>1, <2>2 DEF Balanced
<1>9. ASSUME NEW h \in Handles, NEW k, CallGuardDrop(t, h) \/ CallGuardIntoInner(t, h, k) PROVE Balanced(p)'
  <2>1. Cardinality(GuardRefs(p))' = Cardinality(GuardRefs(p)) - GInd(guard[h], p) + GInd(NONE, p)
    BY <1>1, <1>9, GuardStep DEF CallGuardDrop, CallGuardIntoInner
  <2>2. /\ UNCHANGED <<ptr, cnt, debt, new, old, node, repl, held>> /\ guard[h] # NONE
        /\ pc'[t] \in {"drop_pay", "drop_dec", "inner_inc"} /\ val'[t] = guard[h].ptr
    BY <1>1, <1>9 DEF CallGuardDrop, CallGuardIntoInner, Begin, Dropping, Domains
  <2>3. Mine(t, p)' = Mine(t, p) + GInd(guard[h], p)
    BY <1>0, <1>1, <2>2 DEF Mine, MineVal, MineOld, Ind, GInd, Prepaid, Referring, Unconfirmed, Domains
  <2> QED BY <1>1, <1>2, <2>1, <2>2, <2>3 DEF Balanced
<1> QED BY <1>4, <1>5, <1>6, <1>7, <1>8, <1>9 DEF Call

(* The end of a guard balances. *)
LEMMA DropBalance ==
  ASSUME BooksInv, NEW t \in Threads, DropPay(t) \/ DropDec(t), NEW p \in Ptrs, Balanced(p)
  PROVE  Balanced(p)'
<1>0. (Call(t) \/ Step(t)) /\ pc[t] \in {"drop_pay", "drop_dec"}
  BY DEF Step, DropPay, DropDec
<1>1. /\ Domains /\ TypeOK /\ Books(t) /\ Placed(t) /\ Own(t) /\ DebtDomains
      /\ DOMAIN guard = Handles /\ DOMAIN ptr = Storages
      /\ Private(p)' = Private(p) - Mine(t, p) + Mine(t, p)'
      /\ cnt[p] \in Int /\ Private(p) \in Int /\ Cardinality(StorageRefs(p)) \in Int
      /\ Cardinality(GuardRefs(p)) \in Int /\ Cardinality(SentRefs(p)) \in Int
      /\ Cardinality(Debts(p)) \in Int /\ Mine(t, p) \in Int /\ Mine(t, p)' \in Int
      /\ UNCHANGED cnt => cnt'[p] = cnt[p]
      /\ UNCHANGED ptr => Cardinality(StorageRefs(p))' = Cardinality(StorageRefs(p))
      /\ UNCHANGED guard => Cardinality(GuardRefs(p))' = Cardinality(GuardRefs(p))
      /\ UNCHANGED debt => Cardinality(Debts(p))' = Cardinality(Debts(p))
      /\ \A x : /\ Inc(x)[p] = cnt[p] + Ind(x, p) /\ Dec(x)[p] = cnt[p] - Ind(x, p)
                /\ Ind(x, p) \in Int /\ GInd(x, p) \in Int
      /\ Ind(NONE, p) = 0 /\ GInd(NONE, p) = 0
  BY <1>0, BalanceFacts
<1>2. Cardinality(SentRefs(p))' = Cardinality(SentRefs(p))
  BY <1>0, SentStep
<1> USE DEF heap, helping, user, loader, writer
<1>3. ASSUME Dropped(t), UNCHANGED <<new, old, node, repl, held>>
      PROVE  /\ Mine(t, p)' = Mine(t, p) - Ind(val[t], p)
             /\ Cardinality(GuardRefs(p))' = Cardinality(GuardRefs(p))
  <2>1. pc'[t] \in {LoadEntry, "idle"} /\ UNCHANGED guard
    BY <1>1, <1>3 DEF Dropped, Return, Domains
  <2>2. Mine(t, p)' = Mine(t, p) - Ind(val[t], p)
    BY <1>0, <1>1, <1>3, <2>1, PCFacts DEF Mine, MineVal, MineOld, Ind, GInd, Prepaid, Referring, Unconfirmed, Domains
  <2> QED BY <1>1, <2>1, <2>2
<1>4. CASE DropPay(t) /\ Owes(dref[t], val[t])
  <2>1. dref[t] \in DebtRefs
    BY <1>1, <1>4, OwingRef DEF DropPay, Own
  <2>2. Cardinality(Debts(p))' = Cardinality(Debts(p)) - Ind(val[t], p)
    BY <1>1, <1>4, <2>1, PayMoves DEF DropPay
  <2>3. Dropped(t) /\ UNCHANGED <<ptr, cnt, new, old, node, repl, held>>
    BY <1>4 DEF DropPay
  <2> QED BY <1>1, <1>2, <1>3, <2>2, <2>3 DEF Balanced
<1>5. CASE DropPay(t) /\ ~Owes(dref[t], val[t])
  <2>1. UNCHANGED <<ptr, cnt, debt, guard>> /\ Mine(t, p)' = Mine(t, p)
    BY <1>1, <1>5 DEF DropPay, Mine, MineVal, MineOld, Ind, GInd, Prepaid, Referring, Unconfirmed, Domains
  <2> QED BY <1>1, <1>2, <2>1 DEF Balanced
<1>6. CASE DropDec(t)
  <2>1. Dropped(t) /\ UNCHANGED <<ptr, debt, new, old, node, repl, held>> /\ cnt'[p] = cnt[p] - Ind(val[t], p)
    BY <1>1, <1>6 DEF DropDec
  <2> QED BY <1>1, <1>2, <1>3, <2>1 DEF Balanced
<1> QED BY <1>4, <1>5, <1>6

(* The steps of a writer, the help that it gives included, balance. *)
LEMMA WriteBalance ==
  ASSUME BooksInv, NEW t \in Threads, Write(t), NEW p \in Ptrs, Balanced(p)
  PROVE  Balanced(p)'
<1>0. (Call(t) \/ Step(t)) /\ pc[t] # "confirm_envelope"
  BY DEF Step, Write, Help, HelpControl, HelpAddr, HelpRecheck, HelpTheir,
     HelpStore, HelpCas, HelpTook, HelpDrop, Swap, PayInc, PaySlot, PayMore, PayDrop, Release,
     CasCheck, CasExchange, CasDropNew
<1>1. /\ Domains /\ TypeOK /\ Books(t) /\ Placed(t) /\ Own(t) /\ DebtDomains
      /\ DOMAIN guard = Handles /\ DOMAIN ptr = Storages
      /\ Private(p)' = Private(p) - Mine(t, p) + Mine(t, p)'
      /\ cnt[p] \in Int /\ Private(p) \in Int /\ Cardinality(StorageRefs(p)) \in Int
      /\ Cardinality(GuardRefs(p)) \in Int /\ Cardinality(SentRefs(p)) \in Int
      /\ Cardinality(Debts(p)) \in Int /\ Mine(t, p) \in Int /\ Mine(t, p)' \in Int
      /\ UNCHANGED cnt => cnt'[p] = cnt[p]
      /\ UNCHANGED ptr => Cardinality(StorageRefs(p))' = Cardinality(StorageRefs(p))
      /\ UNCHANGED guard => Cardinality(GuardRefs(p))' = Cardinality(GuardRefs(p))
      /\ UNCHANGED debt => Cardinality(Debts(p))' = Cardinality(Debts(p))
      /\ \A x : /\ Inc(x)[p] = cnt[p] + Ind(x, p) /\ Dec(x)[p] = cnt[p] - Ind(x, p)
                /\ Ind(x, p) \in Int /\ GInd(x, p) \in Int
      /\ Ind(NONE, p) = 0 /\ GInd(NONE, p) = 0
  BY <1>0, BalanceFacts
<1>2. pc[t] # "help_cas" => Cardinality(SentRefs(p))' = Cardinality(SentRefs(p))
  BY <1>0, SentStep
<1>3. ret[t] # "help" /\ pc[t] \notin HelpPCs \cup {"pay_slot", "pay_more"} => node[t] = 0
  BY <1>1 DEF Books, NodeOK, Paying
<1>4. pc[t] \notin LoadPCs => ret[t] = NONE
  BY <1>1 DEF Placed, Walking
<1>5. ASSUME UNCHANGED <<ptr, cnt, debt, guard>>, pc[t] # "help_cas", Mine(t, p)' = Mine(t, p)
      PROVE  Balanced(p)'
  BY <1>1, <1>2, <1>5 DEF Balanced
<1>6. pc[t] \in HelpPCs \cup {"pay_slot", "pay_more"} => node[t] \in Threads
  BY <1>1 DEF Placed, Walking
<1> USE DEF heap, helping, user, loader, writer
<1>7. CASE Swap(t)
  <2>1. PICK s : s = call[t].st
    OBVIOUS
  <2>2. s \in Storages
    BY <1>1, <1>7, <2>1, CallFacts DEF Swap, Placed, Housed, GuardPCs, TypeOK
  <2>3. Cardinality(StorageRefs(p))' = Cardinality(StorageRefs(p)) - Ind(ptr[s], p) + Ind(new[t], p)
    <3>1. PICK x : x = new[t]
      OBVIOUS
    <3>2. DOMAIN ptr = Storages /\ ptr' = [ptr EXCEPT ![s] = x]
      BY <1>1, <1>7, <2>1, <3>1 DEF Swap
    <3> QED BY <2>2, <3>1, <3>2, StorageStep
  <2>4. old[t] = NONE /\ node[t] = 0
    BY <1>1, <1>3, <1>4, <1>7, ConstantsOK DEF Swap, Books, OldOK, Paying, HelpPCs, LoadPCs
  <2>5. /\ UNCHANGED <<cnt, debt, guard, held, repl, node>> /\ new'[t] = NONE /\ old'[t] = ptr[s]
        /\ pc[t] = "swap" /\ pc'[t] = "pay_inc"
    BY <1>1, <1>7, <2>1 DEF Swap, Domains
  <2>6. Mine(t, p)' = Mine(t, p) - Ind(new[t], p) + Ind(ptr[s], p)
    BY <1>1, <2>4, <2>5 DEF Mine, MineVal, MineOld, Ind, GInd, Prepaid, Referring, Unconfirmed, Domains
  <2> QED BY <1>1, <1>2, <2>3, <2>5, <2>6 DEF Balanced
<1>8. CASE PayInc(t)
  <2>1. node[t] = 0 /\ N # 0
    BY <1>3, <1>4, <1>8, ConstantsOK DEF PayInc, LoadPCs, HelpPCs
  <2>2. /\ UNCHANGED <<ptr, debt, guard, held, repl, new, old>> /\ node'[t] = N
        /\ pc[t] = "pay_inc" /\ pc'[t] = "help_control" /\ cnt'[p] = cnt[p] + Ind(old[t], p)
    BY <1>1, <1>8 DEF PayInc, TakeRef, Domains
  <2>3. Mine(t, p)' = Mine(t, p) + Ind(old[t], p)
    BY <1>1, <2>1, <2>2 DEF Mine, MineVal, MineOld, Ind, GInd, Prepaid, Referring, Unconfirmed, Domains
  <2> QED BY <1>1, <1>2, <2>2, <2>3 DEF Balanced
<1>9. CASE HelpControl(t) \/ HelpAddr(t) \/ HelpRecheck(t) \/ HelpTheir(t) \/ HelpStore(t) \/ HelpTook(t) \/ CasCheck(t)
  <2>1. /\ UNCHANGED <<ptr, cnt, debt, guard, held, repl, new, old, node>>
        /\ pc[t] \in (HelpPCs \ {"help_cas"}) \cup {"cas_check"}
        /\ pc'[t] \in HelpPCs \cup {LoadEntry, "pay_slot", "cas_exchange", "cas_drop_new"}
    BY <1>1, <1>9 DEF HelpControl, HelpAddr, HelpRecheck, HelpTheir, HelpStore, HelpTook, HelpLoop, CasCheck, Domains, HelpPCs
  <2>2. Mine(t, p)' = Mine(t, p)
    BY <1>1, <1>9, <2>1, PCFacts DEF HelpPCs, Mine, MineVal, MineOld, Ind, GInd, Prepaid, Referring, Unconfirmed, Domains
  <2> QED BY <1>5, <2>1, <2>2 DEF HelpPCs
<1>10. CASE HelpCas(t) /\ HelpSent(t)
  <2>1. Cardinality(SentRefs(p))' = Cardinality(SentRefs(p)) - Ind(NONE, p) + Ind(repl[t], p)
    BY <1>0, <1>10, SentStep
  <2>2. /\ UNCHANGED <<ptr, cnt, debt, guard, held, new, old, node>> /\ repl'[t] = NONE
        /\ pc[t] = "help_cas" /\ pc'[t] = "help_took"
    BY <1>1, <1>10 DEF HelpCas, HelpSent, Domains
  <2>3. Mine(t, p)' = Mine(t, p) - Ind(repl[t], p)
    BY <1>1, <2>2 DEF Mine, MineVal, MineOld, Ind, GInd, Prepaid, Referring, Unconfirmed, Domains
  <2> QED BY <1>1, <2>1, <2>2, <2>3 DEF Balanced
<1>11. CASE HelpCas(t) /\ ~HelpSent(t)
  <2>1. Cardinality(SentRefs(p))' = Cardinality(SentRefs(p))
    BY <1>0, <1>11, SentStep
  <2>2. /\ UNCHANGED <<ptr, cnt, debt, guard, held, new, old, node, repl>>
        /\ pc[t] = "help_cas" /\ pc'[t] = "help_drop"
    BY <1>1, <1>11 DEF HelpCas, HelpFailed, Domains
  <2>3. Mine(t, p)' = Mine(t, p)
    BY <1>1, <2>2 DEF Mine, MineVal, MineOld, Ind, GInd, Prepaid, Referring, Unconfirmed, Domains
  <2> QED BY <1>1, <2>1, <2>2, <2>3 DEF Balanced
<1>12. CASE HelpDrop(t)
  <2>1. /\ UNCHANGED <<ptr, debt, guard, held, new, old, node>> /\ repl'[t] = NONE
        /\ pc[t] = "help_drop" /\ pc'[t] \in {"help_addr", "pay_slot"} /\ cnt'[p] = cnt[p] - Ind(repl[t], p)
    BY <1>1, <1>12 DEF HelpDrop, HelpLoop, DropRef, Domains
  <2>2. Mine(t, p)' = Mine(t, p) - Ind(repl[t], p)
    BY <1>1, <2>1 DEF Mine, MineVal, MineOld, Ind, GInd, Prepaid, Referring, Unconfirmed, Domains
  <2> QED BY <1>1, <1>2, <2>1, <2>2 DEF Balanced
<1>13. ASSUME NextSlot(t), pc[t] \in {"pay_slot", "pay_more"}, UNCHANGED <<held, new, old, repl>>
       PROVE  Mine(t, p)' = Mine(t, p) + (IF pc[t] = "pay_more" THEN Ind(old[t], p) ELSE 0)
  <2>1. node[t] \in Nat /\ node[t] # 0
    BY <1>6, <1>13 DEF Threads
  <2>2. /\ pc'[t] \in {"pay_slot", "help_control", "pay_drop"}
        /\ pc'[t] # "pay_drop" => node'[t] # 0
    BY <1>1, <1>13, <2>1 DEF NextSlot, Domains
  <2> QED BY <1>1, <1>13, <2>1, <2>2 DEF Mine, MineVal, MineOld, Ind, GInd, Prepaid, Referring, Unconfirmed, Domains
<1>14. CASE PaySlot(t) /\ Owes(<<node[t], i[t]>>, old[t]) /\ UNCHANGED <<node, i>>
  <2>1. <<node[t], i[t]>> \in DebtRefs
    BY <1>1, <1>6, <1>14 DEF PaySlot, Books, IndexOK, DebtRefs
  <2>2. Cardinality(Debts(p))' = Cardinality(Debts(p)) - Ind(old[t], p)
    BY <1>1, <1>14, <2>1, PayMoves DEF PaySlot
  <2>3. /\ UNCHANGED <<ptr, cnt, guard, held, new, old, node, repl>> /\ node[t] \in Threads
        /\ pc[t] = "pay_slot" /\ pc'[t] = "pay_more"
    BY <1>1, <1>6, <1>14 DEF PaySlot, Domains
  <2>4. Mine(t, p)' = Mine(t, p) - Ind(old[t], p)
    BY <1>1, <2>3 DEF Threads, Mine, MineVal, MineOld, Ind, GInd, Prepaid, Referring, Unconfirmed, Domains
  <2> QED BY <1>1, <1>2, <2>2, <2>3, <2>4 DEF Balanced
<1>15. CASE PaySlot(t) /\ ~Owes(<<node[t], i[t]>>, old[t])
  <2>1. NextSlot(t) /\ UNCHANGED <<ptr, cnt, debt, guard, held, new, old, repl>> /\ pc[t] = "pay_slot"
    BY <1>15 DEF PaySlot
  <2> QED BY <1>1, <1>5, <1>13, <2>1
<1>16. CASE PayMore(t)
  <2>1. /\ NextSlot(t) /\ UNCHANGED <<ptr, debt, guard, held, new, old, repl>> /\ pc[t] = "pay_more"
        /\ cnt'[p] = cnt[p] + Ind(old[t], p)
    BY <1>1, <1>16 DEF PayMore, TakeRef
  <2> QED BY <1>1, <1>2, <1>13, <2>1 DEF Balanced
<1>17. CASE PayDrop(t)
  <2>1. node[t] = 0 /\ pc[t] = "pay_drop"
    BY <1>3, <1>4, <1>17, ConstantsOK DEF PayDrop, LoadPCs, HelpPCs
  <2>2. UNCHANGED <<ptr, debt, held, new, node, repl>> /\ cnt'[p] = cnt[p] - Ind(old[t], p)
    BY <1>1, <1>17 DEF PayDrop, DropRef
  <2>3. CASE call[t].op \in {"swap", "into_inner"}
    <3>1. Return(t, Protection(old[t], NONE)) /\ old'[t] = NONE /\ pc'[t] = "idle"
      BY <1>1, <1>17, <2>3 DEF PayDrop, Return, Domains
    <3>2. GInd(Protection(old[t], NONE), p) = Ind(old[t], p)
      <4>1. Protection(old[t], NONE) # NONE
        BY <1>1, ProtectionFacts, ConstantsOK DEF TypeOK
      <4> QED BY <4>1 DEF GInd, Protection
    <3>3. Cardinality(GuardRefs(p))' = Cardinality(GuardRefs(p)) + GInd(Protection(old[t], NONE), p)
      BY <2>3, <3>1, ReturnMoves DEF Receiving
    <3>4. Mine(t, p)' = Mine(t, p) - Ind(old[t], p) - Ind(old[t], p)
      BY <1>1, <2>1, <2>2, <3>1 DEF Mine, MineVal, MineOld, Ind, GInd, Prepaid, Referring, Unconfirmed, Domains
    <3> QED BY <1>1, <1>2, <2>1, <2>2, <3>2, <3>3, <3>4 DEF Balanced
  <2>4. CASE call[t].op \notin {"swap", "into_inner"}
    <3>1. UNCHANGED <<guard, old>> /\ pc'[t] = "release"
      BY <1>1, <1>17, <2>4 DEF PayDrop, Domains
    <3>2. Mine(t, p)' = Mine(t, p) - Ind(old[t], p)
      BY <1>1, <2>1, <2>2, <3>1 DEF Mine, MineVal, MineOld, Ind, GInd, Prepaid, Referring, Unconfirmed, Domains
    <3> QED BY <1>1, <1>2, <2>1, <2>2, <3>1, <3>2 DEF Balanced
  <2> QED BY <2>3, <2>4
<1>18. CASE Release(t)
  <2>1. node[t] = 0 /\ pc[t] = "release"
    BY <1>3, <1>4, <1>18, ConstantsOK DEF Release, LoadPCs, HelpPCs
  <2>2. /\ UNCHANGED <<ptr, debt, new, node, repl>> /\ cnt'[p] = cnt[p] - Ind(old[t], p) /\ Return(t, held[t])
        /\ old'[t] = NONE /\ held'[t] = NONE /\ pc'[t] = "idle"
    BY <1>1, <1>18 DEF Release, DropRef, Return, Domains
  <2>3. Cardinality(GuardRefs(p))' = Cardinality(GuardRefs(p)) + GInd(held[t], p)
    BY <1>1, <2>2, ReturnMoves DEF Receiving, Books, HeldOK
  <2>4. Mine(t, p)' = Mine(t, p) - Ind(old[t], p) - GInd(held[t], p)
    BY <1>1, <2>1, <2>2 DEF Mine, MineVal, MineOld, Ind, GInd, Prepaid, Referring, Unconfirmed, Domains
  <2> QED BY <1>1, <1>2, <2>1, <2>2, <2>3, <2>4 DEF Balanced
<1>19. CASE CasDropNew(t)
  <2>1. node[t] = 0 /\ pc[t] = "cas_drop_new"
    BY <1>3, <1>4, <1>19, ConstantsOK DEF CasDropNew, LoadPCs, HelpPCs
  <2>2. /\ UNCHANGED <<ptr, debt, old, node, repl>> /\ cnt'[p] = cnt[p] - Ind(new[t], p) /\ Return(t, held[t])
        /\ new'[t] = NONE /\ held'[t] = NONE /\ pc'[t] = "idle"
    BY <1>1, <1>19 DEF CasDropNew, DropRef, Return, Domains
  <2>3. Cardinality(GuardRefs(p))' = Cardinality(GuardRefs(p)) + GInd(held[t], p)
    BY <1>1, <2>2, ReturnMoves DEF Receiving, Books, HeldOK
  <2>4. Mine(t, p)' = Mine(t, p) - Ind(new[t], p) - GInd(held[t], p)
    BY <1>1, <2>1, <2>2 DEF Mine, MineVal, MineOld, Ind, GInd, Prepaid, Referring, Unconfirmed, Domains
  <2> QED BY <1>1, <1>2, <2>1, <2>2, <2>3, <2>4 DEF Balanced
<1>20. CASE CasExchange(t)
  <2>1. node[t] = 0 /\ pc[t] = "cas_exchange" /\ held[t].ptr = call[t].cur
        /\ held[t] # NONE /\ UNCHANGED <<cnt, debt, guard, repl, node>>
    <3>1. held[t] # NONE
      BY <1>1, <1>20, ConstantsOK DEF CasExchange, Placed, Equipped
    <3> QED BY <1>1, <1>3, <1>4, <1>20, <3>1, ConstantsOK DEF CasExchange, LoadPCs, HelpPCs, Books, CasOK
  <2>2. CASE pc'[t] = "pay_inc"
    <3>1. PICK s : s = call[t].st
      OBVIOUS
    <3>2. /\ ptr[s] = call[t].cur /\ ptr' = [ptr EXCEPT ![s] = new[t]] /\ held' = held
          /\ old'[t] = held[t].ptr /\ new'[t] = NONE
      BY <1>1, <1>20, <2>2, <3>1 DEF CasExchange, Dropping, Domains
    <3>3. s \in Storages
      BY <1>1, <2>1, <3>1, CallFacts DEF Placed, Housed, GuardPCs, TypeOK
    <3>4. Cardinality(StorageRefs(p))' = Cardinality(StorageRefs(p)) - Ind(ptr[s], p) + Ind(new[t], p)
      <4>1. PICK x : x = new[t]
        OBVIOUS
      <4>2. DOMAIN ptr = Storages /\ ptr' = [ptr EXCEPT ![s] = x]
        BY <1>1, <3>2, <4>1
      <4> QED BY <3>3, <4>1, <4>2, StorageStep
    <3>5. old[t] = NONE
      BY <1>1, <1>4, <2>1, ConstantsOK DEF Books, OldOK, Paying, HelpPCs, LoadPCs
    <3>6. Mine(t, p)' = Mine(t, p) - Ind(new[t], p) + Ind(held[t].ptr, p)
      BY <1>1, <2>1, <2>2, <3>2, <3>5 DEF Mine, MineVal, MineOld, Ind, GInd, Prepaid, Referring, Unconfirmed, Domains
    <3> QED BY <1>1, <1>2, <2>1, <3>2, <3>4, <3>6 DEF Balanced
  <2>3. CASE pc'[t] # "pay_inc"
    <3>1. /\ val'[t] = held[t].ptr /\ held'[t] = NONE /\ UNCHANGED <<ptr, old, new>>
          /\ pc'[t] \in {"drop_pay", "drop_dec"}
      BY <1>1, <1>20, <2>3 DEF CasExchange, Dropping, Domains
    <3>2. Mine(t, p)' = Mine(t, p)
      BY <1>1, <2>1, <3>1 DEF Mine, MineVal, MineOld, Ind, GInd, Prepaid, Referring, Unconfirmed, Domains
    <3> QED BY <1>5, <2>1, <3>1, <3>2
  <2> QED BY <2>2, <2>3
<1> QED
  BY <1>7, <1>8, <1>9, <1>10, <1>11, <1>12, <1>14, <1>15, <1>16, <1>17, <1>18, <1>19, <1>20
     DEF Write, Help, PaySlot

(* Together they are inductive. *)
LEMMA InitBooks == Init => BooksInv /\ \A p \in Ptrs : Balanced(p)
<1> SUFFICES ASSUME Init PROVE BooksInv /\ \A p \in Ptrs : Balanced(p)
  OBVIOUS
<1>1. BooksInv
  BY InitEnv, ConstantsOK DEF Init, BooksInv, Books, HandleOK, Receiving, ReplOK, HeldOK, NewOK, OldOK, NodeOK,
     IndexOK, CasOK, Paying, HelpPCs, Packed, NoCall
<1>2. ASSUME NEW p \in Ptrs PROVE Balanced(p)
  <2>1. p # NONE
    BY ConstantsOK
  <2>2. /\ GuardRefs(p) = {} /\ HeldRefs(p) = {} /\ NewRefs(p) = {} /\ OldRefs(p) = {}
        /\ PrepaidRefs(p) = {} /\ ValRefs(p) = {} /\ InnerRefs(p) = {} /\ ReplRefs(p) = {}
    BY <2>1 DEF Init, GuardRefs, HeldRefs, NewRefs, OldRefs, PrepaidRefs, ValRefs, InnerRefs, ReplRefs
  <2>3. SentRefs(p) = {} /\ Debts(p) = {}
    BY <2>1 DEF Init, SentRefs, Sent, IsReplacement, Debts, Owes, DebtRefs
  <2>4. cnt[p] = Cardinality(StorageRefs(p))
    BY DEF Init, StorageRefs
  <2>5. Cardinality(StorageRefs(p)) \in Nat
    BY ClaimsCount DEF Counted
  <2> QED BY <2>2, <2>3, <2>4, <2>5, FS_EmptySet DEF Balanced, Private
<1> QED BY <1>1, <1>2

LEMMA NextBooks ==
  ASSUME GenMod = 0
  PROVE  BooksInv /\ (\A p \in Ptrs : Balanced(p)) /\ [Next]_vars =>
           BooksInv' /\ (\A p \in Ptrs : Balanced(p))'
<1> SUFFICES ASSUME BooksInv, \A p \in Ptrs : Balanced(p), [Next]_vars
             PROVE  BooksInv' /\ (\A p \in Ptrs : Balanced(p))'
  OBVIOUS
<1>1. EnvInv'
  BY NextEnv DEF BooksInv
<1>2. CASE UNCHANGED vars
  <2> USE DEF vars, heap, helping, user, loader, writer
  <2>1. ASSUME NEW t \in Threads PROVE Books(t)' /\ Packed(t)'
    BY <1>2 DEF BooksInv, Books, HandleOK, Receiving, ReplOK, HeldOK, NewOK, OldOK, NodeOK,
      IndexOK, CasOK, Paying, Packed
  <2>2. ASSUME NEW p \in Ptrs PROVE Balanced(p)'
    BY <1>2 DEF Balanced, StorageRefs, GuardRefs, SentRefs, Sent, Private, Debts, Owes,
      HeldRefs, NewRefs, OldRefs, PrepaidRefs, Prepaid, ValRefs, InnerRefs, ReplRefs
  <2> QED BY <1>1, <2>1, <2>2 DEF BooksInv
<1>3. ASSUME NEW t \in Threads, Call(t) \/ Step(t) PROVE BooksInv' /\ (\A p \in Ptrs : Balanced(p))'
  <2>1. \A u \in Threads : Books(u)' /\ Packed(u)'
    BY <1>3, BooksStep, BooksOther, PackedStep, PackedOther
  <2>2. ASSUME NEW p \in Ptrs PROVE Balanced(p)'
    BY <1>3, LoadBalance, CallBalance, DropBalance, WriteBalance DEF Step
  <2> QED BY <1>1, <2>1, <2>2 DEF BooksInv
<1> QED BY <1>2, <1>3 DEF Next

(* Every reference is counted or owed exactly once, for every number of    *)
(* threads, slots, containers, objects and calls: nothing leaks, no debt   *)
(* is paid twice and nothing is dropped twice (Debt::pay and pay_all in    *)
(* src/debt/mod.rs, the replacements of src/debt/helping.rs, the drops and *)
(* into_inner of src/strategy/hybrid.rs).  GenMod = 0: the generations do  *)
(* not wrap.                                                               *)
THEOREM ReferencesConserved == ASSUME GenMod = 0 PROVE Spec => []Conservation
<1>1. BooksInv /\ (\A p \in Ptrs : Balanced(p)) => Conservation
  BY ClaimsCount DEF Counted, Balanced, Conservation
<1> QED BY <1>1, InitBooks, NextBooks, PTL DEF Spec
=============================================================================
