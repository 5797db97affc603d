--------------------------- MODULE DebtListProofs ---------------------------
(***************************************************************************)
(* Proofs about DebtList, for every number of threads, nodes, calls and    *)
(* generations: types, the unique owner of a node, the exact count of the  *)
(* reservations, complete walks; while no generation wraps, transactions   *)
(* that start on an idle control word; and, without the race of list_aba,  *)
(* cooldowns that wait for the writers and helps that are in time.         *)
(***************************************************************************)
EXTENDS DebtList, Counting

(* Where a thread has a node at hand in cur or pos, and where its own. *)
Visiting == {"check", "check_writers", "check_release", "claim"}
InWalk == {"reserve", "help", "help_recheck", "help_cas", "unreserve"}
Giving == {"get_debt", "cool_reserve", "cool_swap", "cool_release"}
Getting == Visiting \cup {"get", "new_node", "prepend"}

(* What makes TypeOK inductive: a thread that goes on to use a node has    *)
(* one, and a list that somebody looks at is not empty.                    *)
LocatedAt(t) ==
  /\ pc[t] \in Visiting \cup {"prepend"} => cur[t] \in Nodes
  /\ pc[t] \in InWalk => pos[t] \in Nodes /\ op[t] = "write"
  /\ pc[t] = "walk" => op[t] = "write"
  /\ pc[t] \in Getting => op[t] \in {"load", "write"}
  /\ pc[t] \in Giving \cup InWalk \cup {"walk"} => node[t] \in Nodes
  /\ op[t] = "write" /\ tls[t] = "there" /\ pc[t] \in Giving \cup {"confirm"} => pos[t] \in Nodes
  /\ pc[t] = "confirm" /\ tls[t] = "gone" => node[t] \in Nodes
  /\ Nested(t) => /\ tls[t] = "gone" /\ op[t] = "write" /\ pos[t] \in Nodes
                  /\ pc[t] \in Getting \cup Giving \cup {"confirm"}
Located == \A t \in Threads : LocatedAt(t)
NonEmpty ==
  head = NONE => \A t \in Threads :
    node[t] = NONE /\ outer[t] = NONE /\ pc[t] \notin Visiting \cup {"walk"}

TypeInv == TypeOK /\ Located /\ NonEmpty

(* A node that is not yet in the list is marked as used and known to       *)
(* nobody but the thread that is about to prepend it.                      *)
Hidden ==
  \A n \in Nodes : n > allocated =>
    /\ in_use[n] = NODE_USED
    /\ \A t \in Threads :
         /\ node[t] # n /\ outer[t] # n
         /\ pc[t] = "prepend" => cur[t] # n
Fresh ==
  \A t \in Threads : pc[t] = "prepend" =>
    /\ in_use[cur[t]] = NODE_USED
    /\ \A u \in Threads :
         /\ node[u] # cur[t] /\ outer[u] # cur[t]
         /\ pc[u] = "prepend" /\ cur[u] = cur[t] => u = t

OwnerInv == TypeInv /\ UniqueOwner /\ Hidden /\ Fresh

----------------------------------------------------------------------------
LEMMA InitTypeInv == Init => TypeInv
BY DebtListConstants
   DEF Init, TypeInv, TypeOK, Located, LocatedAt, NonEmpty, NodeOrNone, PCs, InWalk, Giving, Getting, Nested,
       Visiting, Gens, NODE_UNUSED, NODE_USED, NODE_COOLDOWN

(* A writer in help keeps its node, or has a second one to get. *)
KeepsNode(t) ==
  /\ UNCHANGED <<node, outer>>
  /\ \/ pc' = [pc EXCEPT ![t] = "get_debt"] /\ tls[t] = "there"
     \/ pc' = [pc EXCEPT ![t] = "help_recheck"]
     \/ pc' = [pc EXCEPT ![t] = "unreserve"]
SecondNode(t) ==
  /\ tls[t] = "gone"
  /\ outer' = [outer EXCEPT ![t] = node[t]]
  /\ node' = [node EXCEPT ![t] = NONE]
  /\ pc' = [pc EXCEPT ![t] = "get"]
Helps(t) ==
  /\ pc[t] \in InWalk /\ op[t] = "write"
  /\ KeepsNode(t) \/ SecondNode(t)
  /\ UNCHANGED <<head, next, in_use, active_writers, allocated, op, gen, cur, pos,
                 tls, calls, lives, txn, todo, early>>

(* What the three steps of help do to the node of the helper. *)
LEMMA HelpShape ==
  ASSUME TypeInv, NEW t \in Threads, Help(t) \/ HelpRecheck(t) \/ HelpCas(t)
  PROVE  /\ Helps(t)
         /\ ctl' \in [Threads -> Gens \cup {IDLE, REPLACEMENT}] /\ saw' \in [Threads -> Nat]
         /\ control' \in [Nodes -> Gens \cup {IDLE, REPLACEMENT}]
<1> USE DebtListConstants
    DEF TypeInv, TypeOK, Located, LocatedAt, InWalk, shared, Goto, HelpLoop, Replacement
<1>1. pc[t] \in InWalk /\ op[t] = "write" /\ pos[t] \in Nodes
  BY DEF Help, HelpRecheck, HelpCas
<1>2. Helps(t)
  BY <1>1 DEF Helps, KeepsNode, SecondNode, Help, HelpRecheck, HelpCas
<1>3. ctl' \in [Threads -> Gens \cup {IDLE, REPLACEMENT}] /\ saw' \in [Threads -> Nat]
  <2>1. PICK c \in Gens \cup {IDLE, REPLACEMENT}, k \in Nat :
          ctl' = [ctl EXCEPT ![t] = c] /\ saw' = [saw EXCEPT ![t] = k]
    <3>1. IDLE \in Gens \cup {IDLE, REPLACEMENT} /\ 0 \in Nat
      OBVIOUS
    <3>2. control[pos[t]] \in Gens \cup {IDLE, REPLACEMENT} /\ txn[pos[t]] \in Nat
      BY <1>1
    <3> QED BY <3>1, <3>2 DEF Help, HelpRecheck, HelpCas, IsGen
  <2> QED BY <2>1
<1>4. control' \in [Nodes -> Gens \cup {IDLE, REPLACEMENT}]
  BY <1>1 DEF Help, HelpRecheck, HelpCas
<1> QED BY <1>2, <1>3, <1>4

(* The type invariant is preserved, action by action. *)
LEMMA NextTypeInv == TypeInv /\ [Next]_vars => TypeInv'
<1> SUFFICES ASSUME TypeInv, [Next]_vars PROVE TypeInv'
  OBVIOUS
<1> USE DebtListConstants
    DEF TypeInv, TypeOK, Located, LocatedAt, NonEmpty, NodeOrNone, PCs, InWalk, Giving, Getting,
        Visiting, Nested, shared, local, helps, life, history, Goto, AtNode
<1>1. ASSUME NEW t \in Threads, NEW o \in Ops[t], Call(t, o) PROVE TypeInv'
  <2>1. TypeOK'
    <3> HIDE DEF Located, NonEmpty
    <3> QED BY <1>1 DEF Call, Entry
  <2>2. Located'
    <3>1. ASSUME NEW u \in Threads, u # t PROVE LocatedAt(u)'
      BY <1>1, <3>1 DEF Call
    <3>2. LocatedAt(t)'
      BY <1>1 DEF Call, Entry
    <3> HIDE DEF LocatedAt
    <3> QED BY <3>1, <3>2
  <2>3. NonEmpty'
    BY <1>1 DEF Call, Entry
  <2> QED BY <2>1, <2>2, <2>3
<1>2. ASSUME NEW t \in Threads, Exit(t) \/ LateEnd(t) PROVE TypeInv'
  <2>1. CASE Exit(t)
    BY <2>1 DEF Exit
  <2>2. CASE LateEnd(t)
    <3>1. TypeOK'
      BY <2>2 DEF LateEnd
    <3>2. Located'
      BY <2>2 DEF LateEnd
    <3>3. NonEmpty'
      BY <2>2 DEF LateEnd
    <3> QED BY <3>1, <3>2, <3>3
  <2> QED BY <1>2, <2>1, <2>2
<1>3. ASSUME NEW t \in Threads, Step(t) PROVE TypeInv'
  <2>1. CASE Get(t)
    BY <2>1 DEF Get, Visit
  <2>2. CASE CheckInUse(t)
    BY <2>2 DEF CheckInUse
  <2>3. CASE CheckWriters(t)
    BY <2>3 DEF CheckWriters
  <2>4. CASE CheckRelease(t)
    BY <2>4 DEF CheckRelease
  <2>5. CASE Claim(t)
    <3>1. cur[t] \in Nodes /\ next[cur[t]] \in NodeOrNone
      BY <2>5 DEF Claim
    <3>4. TypeOK'
      <4> HIDE DEF Located, LocatedAt, NonEmpty, InWalk, Giving, Getting, Visiting, Nested
      <4>1. pc' \in [Threads -> PCs]
        BY <2>5 DEF Claim, Visit, Take, Entry
      <4>2. node' \in [Threads -> NodeOrNone] /\ cur' \in [Threads -> NodeOrNone]
        BY <2>5, <3>1 DEF Claim, Visit, Take
      <4>3. in_use' \in [Nodes -> {NODE_UNUSED, NODE_USED, NODE_COOLDOWN}]
        BY <2>5 DEF Claim
      <4> QED BY <2>5, <4>1, <4>2, <4>3 DEF Claim
    <3>2. Located'
      <4>1. ASSUME NEW u \in Threads, u # t PROVE LocatedAt(u)'
        BY <2>5, <4>1 DEF Claim, Visit, Take
      <4>2. CASE in_use[cur[t]] = NODE_UNUSED
        BY <2>5, <3>1, <4>2 DEF Claim, Take, Entry
      <4>3. CASE in_use[cur[t]] # NODE_UNUSED
        <5>1. LocatedAt(t)'
          BY <2>5, <3>1, <4>3 DEF Claim, Visit
        <5> HIDE DEF LocatedAt
        <5> QED BY <4>1, <5>1
      <4> QED BY <4>2, <4>3
    <3>3. NonEmpty'
      BY <2>5 DEF Claim, Visit, Take, Entry
    <3> QED BY <3>2, <3>3, <3>4
  <2>6. CASE NewNode(t)
    <3>1. allocated + 1 \in Nodes /\ allocated' \in 0..MaxNodes
      BY <2>6 DEF NewNode, Nodes
    <3>2. TypeOK'
      BY <2>6, <3>1 DEF NewNode
    <3>3. Located' /\ NonEmpty'
      BY <2>6, <3>1 DEF NewNode
    <3> QED BY <3>2, <3>3
  <2>7. CASE Prepend(t)
    <3>1. cur[t] \in Nodes /\ next[cur[t]] \in NodeOrNone
      BY <2>7 DEF Prepend
    <3>4. TypeOK'
      <4> HIDE DEF Located, LocatedAt, NonEmpty, InWalk, Giving, Getting, Visiting, Nested
      <4>1. pc' \in [Threads -> PCs]
        BY <2>7 DEF Prepend, Take, Entry
      <4>2. node' \in [Threads -> NodeOrNone] /\ cur' \in [Threads -> NodeOrNone]
        BY <2>7, <3>1 DEF Prepend, Take
      <4>3. head' \in NodeOrNone /\ next' \in [Nodes -> NodeOrNone]
        BY <2>7, <3>1 DEF Prepend
      <4> QED BY <2>7, <4>1, <4>2, <4>3 DEF Prepend
    <3>2. Located'
      BY <2>7 DEF Prepend, Take, Entry
    <3>3. NonEmpty'
      BY <2>7 DEF Prepend, Take, Entry
    <3> QED BY <3>2, <3>3, <3>4
  <2>8. CASE NewHelping(t)
    <3>1. (gen[t] + 1) % GenMod \in Gens
      BY DEF Gens
    <3> QED BY <2>8, <3>1 DEF NewHelping
  <2>9. CASE ConfirmHelping(t)
    <3>1. TypeOK'
      <4> HIDE DEF Located, LocatedAt, NonEmpty, InWalk, Giving, Getting, Visiting, Nested
      <4>1. \/ pc' = [pc EXCEPT ![t] = "cool_reserve"] /\ op' = op
            \/ pc' = [pc EXCEPT ![t] = "idle"] /\ op' = [op EXCEPT ![t] = "none"]
            \/ pc' = [pc EXCEPT ![t] = "help_cas"] /\ op' = op
        BY <2>9 DEF ConfirmHelping, Finish
      <4>2. control' \in [Nodes -> Gens \cup {IDLE, REPLACEMENT}]
        BY <2>9 DEF ConfirmHelping
      <4>3. pc' \in [Threads -> PCs]
        BY <4>1
      <4>4. op' \in [Threads -> {"none", "load", "write", "exit"}]
        BY <4>1
      <4> QED BY <2>9, <4>2, <4>3, <4>4 DEF ConfirmHelping
    <3>2. Located'
      BY SMTT(60), <2>9 DEF ConfirmHelping, Finish
    <3>3. NonEmpty'
      BY <2>9 DEF ConfirmHelping, Finish
    <3> QED BY <3>1, <3>2, <3>3
  <2>17. CASE ConfirmPanics(t)
    <3>1. TypeOK'
      BY SMTT(60), <2>17 DEF ConfirmPanics
    <3>2. Located'
      <4>1. /\ UNCHANGED <<node, cur, pos, op, tls, outer>> /\ pc' = [pc EXCEPT ![t] = "panic"]
            /\ pc[t] = "confirm" /\ ~Nested(t)
        BY <2>17 DEF ConfirmPanics
      <4> QED BY <4>1
    <3>3. NonEmpty'
      BY <2>17 DEF ConfirmPanics
    <3> QED BY <3>1, <3>2, <3>3
  <2>10. CASE CoolReserve(t)
    BY <2>10 DEF CoolReserve
  <2>11. CASE CoolSwap(t)
    BY <2>11 DEF CoolSwap, OnNode
  <2>12. CASE CoolRelease(t)
    <3>1. 0 \in Gens /\ node[t] \in Nodes
      BY <2>12 DEF Gens, CoolRelease
    <3>2. CASE Ends(t)
      <4>1. TypeOK'
        <5> HIDE DEF Located, LocatedAt, NonEmpty, InWalk, Giving, Getting, Visiting, Nested
        <5>1. pc' \in [Threads -> PCs] /\ op' \in [Threads -> {"none", "load", "write", "exit"}]
          BY <3>2 DEF Ends, Finish
        <5>2. node' \in [Threads -> NodeOrNone] /\ gen' \in [Threads -> Gens]
          BY <3>1, <3>2 DEF Ends
        <5>3. \/ tls' = [tls EXCEPT ![t] = "gone"] /\ lives' = lives
              \/ tls' = tls /\ lives' = [lives EXCEPT ![t] = @ + 1]
          BY <3>2 DEF Ends
        <5>4. active_writers' = [active_writers EXCEPT ![node[t]] = @ - 1]
          BY <2>12 DEF CoolRelease
        <5>5. tls' \in [Threads -> {"there", "gone"}]
          BY <5>3
        <5>6. lives' \in [Threads -> Nat]
          BY <5>3
        <5>7. active_writers' \in [Nodes -> Int]
          BY <3>1, <5>4
        <5> QED BY <2>12, <3>2, <5>1, <5>2, <5>5, <5>6, <5>7 DEF CoolRelease, Ends
      <4>2. Located'
        BY SMTT(60), <2>12, <3>2 DEF CoolRelease, Ends, Finish
      <4>3. NonEmpty'
        BY <2>12, <3>2 DEF CoolRelease, Ends, Finish
      <4> QED BY <4>1, <4>2, <4>3
    <3>3. CASE DropsTmp(t)
      <4>1. TypeOK'
        BY SMTT(60), <2>12, <3>1, <3>3 DEF CoolRelease, DropsTmp, Finish
      <4>2. Located'
        BY SMTT(60), <2>12, <3>3 DEF CoolRelease, DropsTmp, Finish
      <4>3. NonEmpty'
        BY <2>12, <3>3 DEF CoolRelease, DropsTmp, Finish
      <4> QED BY <4>1, <4>2, <4>3
    <3>4. CASE Discards(t)
      <4>1. TypeOK'
        BY SMTT(60), <2>12, <3>1, <3>4 DEF CoolRelease, Discards, Finish
      <4>2. Located'
        BY SMTT(60), <2>12, <3>4 DEF CoolRelease, Discards, Finish
      <4>3. NonEmpty'
        BY <2>12, <3>4 DEF CoolRelease, Discards, Finish
      <4> QED BY <4>1, <4>2, <4>3
    <3> QED BY <2>12, <3>2, <3>3, <3>4 DEF CoolRelease
  <2>13. CASE Walk(t)
    <3>1. Published \in SUBSET Nodes
      BY DEF Published, Nodes
    <3> QED BY <2>13, <3>1 DEF Walk
  <2>14. CASE Reserve(t)
    BY <2>14 DEF Reserve
  <2>15. CASE Help(t) \/ HelpRecheck(t) \/ HelpCas(t)
    <3>1. /\ Helps(t)
          /\ ctl' \in [Threads -> Gens \cup {IDLE, REPLACEMENT}] /\ saw' \in [Threads -> Nat]
          /\ control' \in [Nodes -> Gens \cup {IDLE, REPLACEMENT}]
      BY <2>15, HelpShape
    <3>2. CASE KeepsNode(t)
      <4>1. TypeOK'
        BY <3>1, <3>2 DEF Helps, KeepsNode
      <4>2. Located'
        <5>1. ASSUME NEW u \in Threads, u # t PROVE LocatedAt(u)'
          BY <3>1, <3>2, <5>1 DEF Helps, KeepsNode
        <5>2. LocatedAt(t)'
          <6>1. /\ pos[t] \in Nodes /\ node[t] \in Nodes /\ ~Nested(t)
                /\ UNCHANGED <<pos, node, outer, tls, op>>
            BY <3>1, <3>2 DEF Helps, KeepsNode
          <6>2. CASE pc' = [pc EXCEPT ![t] = "get_debt"] /\ tls[t] = "there"
            BY <6>1, <6>2
          <6>3. CASE pc' = [pc EXCEPT ![t] = "help_recheck"] \/ pc' = [pc EXCEPT ![t] = "unreserve"]
            BY <3>1, <6>1, <6>3 DEF Helps
          <6> QED BY <3>2, <6>2, <6>3 DEF KeepsNode
        <5> HIDE DEF LocatedAt
        <5> QED BY <5>1, <5>2
      <4>3. NonEmpty'
        BY <3>1, <3>2 DEF Helps, KeepsNode
      <4> QED BY <4>1, <4>2, <4>3
    <3>3. CASE SecondNode(t)
      <4>1. TypeOK'
        BY <3>1, <3>3 DEF Helps, SecondNode
      <4>2. Located'
        BY <3>1, <3>3 DEF Helps, SecondNode
      <4>3. NonEmpty'
        BY <3>1, <3>3 DEF Helps, SecondNode
      <4> QED BY <4>1, <4>2, <4>3
    <3> QED BY <3>1, <3>2, <3>3 DEF Helps
  <2>16. CASE Unreserve(t)
    BY SMTT(60), <2>16 DEF Unreserve, Finish
  <2> QED
    BY <1>3, <2>1, <2>2, <2>3, <2>4, <2>5, <2>6, <2>7, <2>8, <2>9, <2>10, <2>11,
       <2>12, <2>13, <2>14, <2>15, <2>16, <2>17 DEF Step
<1>4. CASE UNCHANGED vars
  BY <1>4 DEF vars
<1> QED
  BY <1>1, <1>2, <1>3, <1>4 DEF Next

(* Type correctness of the list and of the threads that use it. *)
THEOREM TypeCorrect == Spec => []TypeOK
<1>1. TypeInv => TypeOK
  BY DEF TypeInv
<1> QED
  BY InitTypeInv, NextTypeInv, <1>1, PTL DEF Spec

----------------------------------------------------------------------------
LEMMA InitOwnerInv == Init => OwnerInv
<1> SUFFICES ASSUME Init PROVE OwnerInv
  OBVIOUS
<1>1. TypeInv
  BY InitTypeInv
<1>2. UniqueOwner /\ Hidden /\ Fresh
  BY DebtListConstants DEF Init, UniqueOwner, Owns, Hidden, Fresh
<1> QED
  BY <1>1, <1>2 DEF OwnerInv

(* Steps that touch neither owners nor marks, and prepend nothing new. *)
Quiet ==
  /\ UNCHANGED <<in_use, node, outer, allocated>>
  /\ \A u \in Threads :
       /\ pc'[u] = "prepend" => pc[u] = "prepend" /\ cur'[u] = cur[u]
       /\ pc[u] = "cool_release" => pc'[u] = "cool_release"

LEMMA QuietOwnerInv == OwnerInv /\ Quiet => (UniqueOwner /\ Hidden /\ Fresh)'
BY DEF OwnerInv, Quiet, UniqueOwner, Owns, Hidden, Fresh

LEMMA NextOwnerInv == OwnerInv /\ [Next]_vars => OwnerInv'
<1> SUFFICES ASSUME OwnerInv, [Next]_vars PROVE (UniqueOwner /\ Hidden /\ Fresh)'
  BY NextTypeInv DEF OwnerInv
<1>0. TypeInv /\ TypeInv'
  BY NextTypeInv DEF OwnerInv
<1> USE DebtListConstants, <1>0
    DEF TypeInv, TypeOK, Located, LocatedAt, OwnerInv, UniqueOwner, Owns, Hidden, Fresh,
        NodeOrNone, Visiting, InWalk, Giving, Getting, Nested, shared, local, helps, life,
        history, Goto, AtNode,
        NODE_UNUSED, NODE_USED, NODE_COOLDOWN
<1>1. ASSUME NEW t \in Threads, NEW o \in Ops[t], Call(t, o) PROVE Quiet
  BY <1>1 DEF Call, Entry, Quiet
<1>2. ASSUME NEW t \in Threads, Exit(t) \/ LateEnd(t) PROVE Quiet
  BY <1>2 DEF Exit, LateEnd, Quiet
<1>3. ASSUME NEW t \in Threads, Step(t) PROVE (UniqueOwner /\ Hidden /\ Fresh)'
  <2>1. CASE Get(t) \/ CheckInUse(t) \/ CheckWriters(t)
    <3>1. Quiet
      BY <2>1 DEF Get, Visit, CheckInUse, CheckWriters, Quiet
    <3> QED BY <3>1, QuietOwnerInv
  (* The exchange frees only a node in cooldown, which nobody owns. *)
  <2>2. CASE CheckRelease(t)
    BY <2>2 DEF CheckRelease
  (* A claimed node was unused, hence nobody's and in the list. *)
  <2>3. CASE Claim(t)
    <3>1. UniqueOwner'
      BY SMTT(60), <2>3 DEF Claim, Visit, Take, Entry
    <3>2. Hidden'
      <4>1. cur[t] \in Nodes /\ (in_use[cur[t]] = NODE_UNUSED => ~(cur[t] > allocated))
        BY <2>3 DEF Claim
      <4>2. pc'[t] # "prepend"
        BY <2>3 DEF Claim, Visit, Take, Entry
      <4>3. \A n \in Nodes : n > allocated => in_use'[n] = in_use[n] /\ node'[t] # n
        BY <2>3, <4>1 DEF Claim, Visit, Take
      <4>4. \A u \in Threads \ {t} : pc'[u] = pc[u] /\ node'[u] = node[u] /\ cur'[u] = cur[u]
        BY <2>3 DEF Claim, Visit, Take
      <4>5. UNCHANGED <<allocated, outer>>
        BY <2>3 DEF Claim
      <4> QED BY SMTT(60), <4>2, <4>3, <4>4, <4>5
    <3>3. Fresh'
      <4>1. pc'[t] # "prepend"
        BY <2>3 DEF Claim, Visit, Take, Entry
      <4>2. \A u \in Threads \ {t} : pc'[u] = pc[u] /\ node'[u] = node[u] /\ cur'[u] = cur[u]
        BY <2>3 DEF Claim, Visit, Take
      <4>3. \A n \in Nodes : in_use[n] = NODE_USED => in_use'[n] = NODE_USED /\ (node'[t] = n => node[t] = n)
        BY <2>3 DEF Claim, Visit, Take
      <4>4. outer' = outer
        BY <2>3 DEF Claim
      <4>5. \A u \in Threads : pc[u] = "prepend" => cur[u] \in Nodes
        OBVIOUS
      <4> HIDE DEF TypeInv, UniqueOwner, Hidden
      <4> QED BY <4>1, <4>2, <4>3, <4>4, <4>5
    <3> QED BY <3>1, <3>2, <3>3
  <2>4. CASE NewNode(t)
    <3>1. allocated + 1 \in Nodes /\ allocated + 1 > allocated
      BY <2>4 DEF NewNode, Nodes
    <3>2. UniqueOwner'
      BY <2>4, <3>1 DEF NewNode
    <3>3. Hidden'
      BY <2>4, <3>1 DEF NewNode, Nodes
    <3>4. Fresh'
      BY <2>4, <3>1 DEF NewNode
    <3> QED BY <3>2, <3>3, <3>4
  <2>5. CASE Prepend(t)
    <3>1. UniqueOwner'
      BY <2>5 DEF Prepend, Take, Entry
    <3>2. Hidden'
      BY <2>5 DEF Prepend, Take, Entry
    <3>3. Fresh'
      <4>1. CASE head = next[cur[t]] /\ Take(t)
        <5>1. pc'[t] # "prepend"
          BY <4>1 DEF Take, Entry
        <5> QED BY <2>5, <4>1, <5>1 DEF Prepend, Take
      <4>2. CASE UNCHANGED <<node, cur, pc>>
        BY <2>5, <4>2 DEF Prepend
      <4> QED BY <2>5, <4>1, <4>2 DEF Prepend
    <3> QED BY <3>1, <3>2, <3>3
  <2>6. CASE NewHelping(t) \/ ConfirmHelping(t) \/ ConfirmPanics(t)
    <3>1. Quiet
      BY <2>6 DEF NewHelping, ConfirmHelping, ConfirmPanics, Finish, Quiet
    <3> QED BY <3>1, QuietOwnerInv
  <2>7. CASE CoolReserve(t)
    <3>1. Quiet
      BY <2>7 DEF CoolReserve, Quiet
    <3> QED BY <3>1, QuietOwnerInv
  (* The owner stops being it as it marks the node. *)
  <2>8. CASE CoolSwap(t)
    <3>1. UniqueOwner'
      BY <2>8 DEF CoolSwap
    <3>2. Hidden'
      BY <2>8 DEF CoolSwap
    <3>3. Fresh'
      BY <2>8 DEF CoolSwap
    <3> QED BY <3>1, <3>2, <3>3
  (* The node that is given up was not the thread's own any more. *)
  <2>9. CASE CoolRelease(t)
    <3>1. CASE Ends(t) \/ Discards(t)
      <4>1. /\ node' = [node EXCEPT ![t] = NONE] /\ UNCHANGED <<in_use, outer, allocated, cur>>
            /\ pc' = [pc EXCEPT ![t] = "idle"] \/ pc' = [pc EXCEPT ![t] = "confirm"]
        BY <2>9, <3>1 DEF CoolRelease, Ends, Discards, Finish
      <4>2. NONE \notin Nodes
        OBVIOUS
      <4>3. UniqueOwner'
        BY <4>1, <4>2
      <4>4. Hidden' /\ Fresh'
        BY <4>1, <4>2
      <4> QED BY <4>3, <4>4
    <3>2. CASE DropsTmp(t)
      <4>1. UniqueOwner'
        BY SMTT(60), <2>9, <3>2 DEF CoolRelease, DropsTmp, Finish
      <4>2. Hidden' /\ Fresh'
        BY SMTT(60), <2>9, <3>2 DEF CoolRelease, DropsTmp, Finish
      <4> QED BY <4>1, <4>2
    <3> QED BY <2>9, <3>1, <3>2 DEF CoolRelease
  <2>10. CASE Walk(t) \/ Reserve(t)
    <3>1. Quiet
      BY <2>10 DEF Walk, Reserve, Quiet
    <3> QED BY <3>1, QuietOwnerInv
  (* A thread that makes a replacement keeps its node, if in outer. *)
  <2>11. CASE Help(t) \/ HelpRecheck(t) \/ HelpCas(t)
    <3>1. Helps(t)
      BY <2>11, HelpShape
    <3>2. CASE KeepsNode(t)
      <4>1. Quiet
        BY <3>1, <3>2 DEF Helps, KeepsNode, Quiet
      <4> QED BY <4>1, QuietOwnerInv
    <3>3. CASE SecondNode(t)
      <4>1. node[t] \in Nodes /\ ~Nested(t)
        BY <3>1 DEF Helps
      <4>2. UniqueOwner'
        BY <3>1, <3>3, <4>1 DEF Helps, SecondNode
      <4>3. Hidden' /\ Fresh'
        BY <3>1, <3>3, <4>1 DEF Helps, SecondNode
      <4> QED BY <4>2, <4>3
    <3> QED BY <3>1, <3>2, <3>3 DEF Helps
  <2>12. CASE Unreserve(t)
    <3>1. Quiet
      BY <2>12 DEF Unreserve, Finish, Quiet
    <3> QED BY <3>1, QuietOwnerInv
  <2> QED
    BY <1>3, <2>1, <2>2, <2>3, <2>4, <2>5, <2>6, <2>7, <2>8, <2>9, <2>10, <2>11,
       <2>12 DEF Step
<1>4. CASE UNCHANGED vars
  BY <1>4 DEF vars, Quiet
<1> QED
  BY <1>1, <1>2, <1>3, <1>4, QuietOwnerInv DEF Next

(* No two threads own the same node, and an owned node is marked as used,  *)
(* for any number of threads, nodes and generations, and also while nodes  *)
(* are given up in the middle of a load.                                   *)
THEOREM OwnerUnique == Spec => []UniqueOwner
<1>1. OwnerInv => UniqueOwner
  BY DEF OwnerInv
<1> QED
  BY InitOwnerInv, NextOwnerInv, <1>1, PTL DEF Spec

----------------------------------------------------------------------------
(* The walks.  One thread takes one step of list.rs, or of its caller. *)
Act(t) == (\E o \in Ops[t] : Call(t, o)) \/ Exit(t) \/ LateEnd(t) \/ Step(t)

(* What belongs to the other threads stays. *)
Frame(t) == \A u \in Threads \ {t} :
  /\ pc'[u] = pc[u] /\ op'[u] = op[u] /\ node'[u] = node[u] /\ cur'[u] = cur[u]
  /\ pos'[u] = pos[u] /\ tls'[u] = tls[u] /\ outer'[u] = outer[u]
  /\ ctl'[u] = ctl[u] /\ todo'[u] = todo[u] /\ gen'[u] = gen[u] /\ saw'[u] = saw[u]

(* All that the frames need of TypeOK. *)
Domains ==
  /\ DOMAIN pc = Threads /\ DOMAIN op = Threads /\ DOMAIN node = Threads
  /\ DOMAIN cur = Threads /\ DOMAIN pos = Threads /\ DOMAIN tls = Threads
  /\ DOMAIN outer = Threads /\ DOMAIN ctl = Threads /\ DOMAIN todo = Threads
  /\ DOMAIN gen = Threads /\ DOMAIN saw = Threads
  /\ DOMAIN next = Nodes /\ DOMAIN control = Nodes /\ DOMAIN active_writers = Nodes

LEMMA TypeDomains == TypeOK => Domains
BY DEF TypeOK, Domains

(* A step of t leaves the variables of the other threads alone. *)
LEMMA ActFrame ==
  ASSUME Domains, NEW t \in Threads, Act(t)
  PROVE  Frame(t)
<1> USE DEF Domains, Frame, shared, local, helps, life, history, Goto, AtNode, Finish
<1>1. CASE Exit(t) \/ LateEnd(t) \/ \E o \in Ops[t] : Call(t, o)
  BY <1>1 DEF Exit, LateEnd, Call
<1>2. CASE Get(t) \/ CheckInUse(t) \/ CheckWriters(t) \/ CheckRelease(t) \/ Claim(t) \/ NewNode(t)
  BY <1>2 DEF Get, CheckInUse, CheckWriters, CheckRelease, Claim, NewNode, Visit, Take
<1>3. CASE Prepend(t) \/ NewHelping(t) \/ ConfirmHelping(t) \/ ConfirmPanics(t)
  BY <1>3 DEF Prepend, NewHelping, ConfirmHelping, ConfirmPanics, Take
<1>4. CASE CoolReserve(t) \/ CoolSwap(t) \/ CoolRelease(t)
  BY <1>4 DEF CoolReserve, CoolSwap, CoolRelease, Ends, DropsTmp, Discards
<1>5. CASE Walk(t) \/ Reserve(t) \/ Unreserve(t)
  BY <1>5 DEF Walk, Reserve, Unreserve
<1>6. CASE Help(t) \/ HelpRecheck(t) \/ HelpCas(t)
  BY <1>6 DEF Help, HelpRecheck, HelpCas, HelpLoop, Replacement
<1> QED BY <1>1, <1>2, <1>3, <1>4, <1>5, <1>6 DEF Act, Step

(* Where a thread is not on a node: pos is set by a walk and empty again   *)
(* at its end.                                                             *)
Cooling == {"cool_reserve", "cool_swap", "cool_release"}
Positioned(t) ==
  /\ pc[t] = "idle" => op[t] = "none"
  /\ op[t] # "write" => pos[t] = NONE
  /\ op[t] = "write" /\ ~Nested(t) /\ pc[t] \in Getting \cup {"walk"} => pos[t] = NONE
  /\ op[t] = "write" /\ ~Nested(t) /\ tls[t] = "gone" /\ pc[t] \in Cooling => pos[t] = NONE
  /\ op[t] = "write" /\ tls[t] = "gone" /\ pc[t] \in {"get_debt", "confirm"} => Nested(t)

(* Walks clear pos when they end. *)
LEMMA PositionedStep ==
  ASSUME TypeInv, NEW t \in Threads, Positioned(t), Act(t)
  PROVE  Positioned(t)'
<1>1. Domains /\ LocatedAt(t)
  BY TypeDomains DEF TypeInv, Located
<1> USE <1>1, DebtListConstants
    DEF Domains, LocatedAt, Positioned, Nested, Cooling, Getting, Visiting, InWalk, Giving,
        shared, local, helps, life, history, Goto, AtNode, Finish, Entry
<1>2. CASE Exit(t) \/ LateEnd(t) \/ \E o \in Ops[t] : Call(t, o)
  BY <1>2 DEF Exit, LateEnd, Call
<1>3. CASE Get(t) \/ CheckInUse(t) \/ CheckWriters(t) \/ CheckRelease(t) \/ Claim(t) \/ NewNode(t)
  BY <1>3 DEF Get, CheckInUse, CheckWriters, CheckRelease, Claim, NewNode, Visit, Take
<1>4. CASE Prepend(t) \/ NewHelping(t) \/ ConfirmHelping(t) \/ ConfirmPanics(t)
  BY <1>4 DEF Prepend, NewHelping, ConfirmHelping, ConfirmPanics, Take
<1>5. CASE CoolReserve(t) \/ CoolSwap(t) \/ CoolRelease(t)
  BY <1>5 DEF CoolReserve, CoolSwap, CoolRelease, Ends, DropsTmp, Discards
<1>6. CASE Walk(t) \/ Reserve(t) \/ Unreserve(t)
  BY <1>6 DEF Walk, Reserve, Unreserve
<1>7. CASE Help(t) \/ HelpRecheck(t) \/ HelpCas(t)
  BY <1>7 DEF Help, HelpRecheck, HelpCas, HelpLoop, Replacement
<1> QED BY <1>2, <1>3, <1>4, <1>5, <1>6, <1>7 DEF Act, Step

(* The threads that put node n into cooldown and hold a reservation of it. *)
CoolingNode(n) == {t \in Threads : node[t] = n /\ pc[t] \in {"cool_swap", "cool_release"}}
One(b) == IF b THEN 1 ELSE 0

(* The inductive invariant of the reservations. *)
PosInv == TypeInv /\ \A t \in Threads : Positioned(t)
ReservationInv == PosInv /\ ReservationCount

(* A step changes the count of a node exactly as it enters or leaves it. *)
LEMMA ReservationMoves ==
  ASSUME PosInv, NEW t \in Threads, Act(t), NEW n \in Nodes
  PROVE  active_writers'[n] = active_writers[n]
           - One(t \in OnNode(n)) + One((t \in OnNode(n))')
           - One(t \in CoolingNode(n)) + One((t \in CoolingNode(n))')
<1>1. Domains /\ LocatedAt(t) /\ Positioned(t)
  BY TypeDomains DEF PosInv, TypeInv, Located
<1>0. active_writers[n] \in Int /\ n # NONE /\ next \in [Nodes -> NodeOrNone]
  BY DebtListConstants DEF PosInv, TypeInv, TypeOK
<1> USE <1>1, <1>0, DebtListConstants
    DEF Domains, LocatedAt, Positioned, Nested, Cooling, Getting, Visiting, InWalk, Giving,
        shared, local, helps, life, history, Goto, AtNode, Finish, Entry, One, OnNode, CoolingNode
<1>2. CASE Exit(t) \/ LateEnd(t) \/ \E o \in Ops[t] : Call(t, o)
  BY <1>2 DEF Exit, LateEnd, Call
<1>3. CASE Get(t) \/ CheckInUse(t) \/ CheckWriters(t) \/ CheckRelease(t) \/ Claim(t) \/ NewNode(t)
  BY <1>3 DEF Get, CheckInUse, CheckWriters, CheckRelease, Claim, NewNode, Visit, Take
<1>4. CASE Prepend(t) \/ NewHelping(t) \/ ConfirmHelping(t)
  BY <1>4 DEF Prepend, NewHelping, ConfirmHelping, Take
<1>5. CASE ConfirmPanics(t)
  BY <1>5 DEF ConfirmPanics
<1>6. CASE CoolReserve(t) \/ CoolSwap(t)
  BY <1>6 DEF CoolReserve, CoolSwap
<1>7. CASE CoolRelease(t)
  BY <1>7 DEF CoolRelease, Ends, DropsTmp, Discards
<1>8. CASE Walk(t) \/ Reserve(t)
  BY <1>8 DEF Walk, Reserve
<1>9. CASE Unreserve(t)
  BY <1>9 DEF Unreserve
<1>10. CASE Help(t) \/ HelpRecheck(t) \/ HelpCas(t)
  BY <1>10 DEF Help, HelpRecheck, HelpCas, HelpLoop, Replacement
<1> QED BY <1>2, <1>3, <1>4, <1>5, <1>6, <1>7, <1>8, <1>9, <1>10 DEF Act, Step

(* So the count stays the number of the threads that hold one. *)
LEMMA ReservationStep ==
  ASSUME ReservationInv, NEW t \in Threads, Act(t)
  PROVE  ReservationCount'
<1>1. Frame(t)
  BY TypeDomains, ActFrame DEF ReservationInv, PosInv, TypeInv
<1> SUFFICES ASSUME NEW n \in Nodes
             PROVE  active_writers'[n] = Cardinality(OnNode(n)') + Cardinality(CoolingNode(n)')
  BY DEF ReservationCount, CoolingNode
<1>2. PICK P : P = OnNode(n)'
  OBVIOUS
<1>3. PICK Q : Q = CoolingNode(n)'
  OBVIOUS
<1>4. /\ P \in SUBSET Threads /\ Q \in SUBSET Threads
      /\ OnNode(n) \in SUBSET Threads /\ CoolingNode(n) \in SUBSET Threads
      /\ \A u \in Threads : u # t => (u \in OnNode(n) <=> u \in P)
      /\ \A u \in Threads : u # t => (u \in CoolingNode(n) <=> u \in Q)
  BY <1>1, <1>2, <1>3 DEF OnNode, CoolingNode, Frame
<1>5. /\ Cardinality(OnNode(n)) \in Nat /\ Cardinality(P) \in Nat
      /\ Cardinality(P) = Cardinality(OnNode(n)) - One(t \in OnNode(n)) + One(t \in P)
  BY <1>4, OneChange, DebtListConstants DEF One
<1>6. /\ Cardinality(CoolingNode(n)) \in Nat /\ Cardinality(Q) \in Nat
      /\ Cardinality(Q) = Cardinality(CoolingNode(n)) - One(t \in CoolingNode(n)) + One(t \in Q)
  BY <1>4, OneChange, DebtListConstants DEF One
<1>7. active_writers[n] = Cardinality(OnNode(n)) + Cardinality(CoolingNode(n))
  BY DEF ReservationInv, ReservationCount, CoolingNode
<1>8. active_writers'[n] = active_writers[n]
           - One(t \in OnNode(n)) + One(t \in P) - One(t \in CoolingNode(n)) + One(t \in Q)
  BY <1>2, <1>3, ReservationMoves DEF ReservationInv
<1> QED BY <1>2, <1>3, <1>5, <1>6, <1>7, <1>8 DEF One

(* PosInv is inductive. *)
LEMMA InitPosInv == Init => PosInv
BY InitTypeInv DEF Init, PosInv, Positioned, Nested, Getting, Visiting, Cooling

LEMMA NextPosInv == PosInv /\ [Next]_vars => PosInv'
<1> SUFFICES ASSUME PosInv, [Next]_vars PROVE PosInv'
  OBVIOUS
<1>1. TypeInv /\ TypeInv'
  BY NextTypeInv DEF PosInv
<1>2. CASE UNCHANGED vars
  BY <1>1, <1>2 DEF vars, shared, local, helps, life, history, PosInv, Positioned, Nested
<1>3. ASSUME NEW t \in Threads, Act(t), NEW u \in Threads PROVE Positioned(u)'
  <2>1. CASE u = t
    BY <1>1, <1>3, <2>1, PositionedStep DEF PosInv
  <2>2. CASE u # t
    <3>1. Frame(t)
      BY <1>1, <1>3, TypeDomains, ActFrame DEF TypeInv
    <3> QED BY <2>2, <3>1 DEF PosInv, Positioned, Nested, Frame
  <2> QED BY <2>1, <2>2
<1> QED BY <1>1, <1>2, <1>3 DEF Next, Act, PosInv

LEMMA InitReservationInv == Init => ReservationInv
<1> SUFFICES ASSUME Init PROVE ReservationCount
  BY InitPosInv DEF ReservationInv
<1> SUFFICES ASSUME NEW n \in Nodes
             PROVE  active_writers[n] = Cardinality(OnNode(n)) + Cardinality(CoolingNode(n))
  BY DEF ReservationCount, CoolingNode
<1>1. OnNode(n) = {} /\ CoolingNode(n) = {} /\ active_writers[n] = 0
  BY DebtListConstants DEF Init, OnNode, CoolingNode
<1> QED BY <1>1, FS_EmptySet

LEMMA NextReservationInv == ReservationInv /\ [Next]_vars => ReservationInv'
<1> SUFFICES ASSUME ReservationInv, [Next]_vars PROVE ReservationCount'
  BY NextPosInv DEF ReservationInv
<1>1. CASE UNCHANGED vars
  BY <1>1 DEF vars, shared, local, helps, life, history, ReservationInv, ReservationCount, OnNode
<1> QED BY <1>1, ReservationStep DEF Next, Act

(* active_writers counts the reservations of a node exactly, for any       *)
(* number of threads: none is lost or dropped twice, neither by a walk nor *)
(* by a thread that gives its node up, wraps its generation, panics or has *)
(* lost its thread local storage (src/debt/list.rs, NodeReservation).      *)
THEOREM ReservationsCounted == Spec => []ReservationCount
<1>1. ReservationInv => ReservationCount
  BY DEF ReservationInv
<1> QED BY InitReservationInv, NextReservationInv, <1>1, PTL DEF Spec

----------------------------------------------------------------------------
(* The list as the walks see it.  A set of nodes is closed when no link    *)
(* leads out of it, and n reaches Q when every closed set with n has all   *)
(* of Q.                                                                   *)
Closed(S) == \A n \in S : next[n] \in S \cup {NONE}
Reaches(n, Q) == \A S \in SUBSET Nodes : Closed(S) /\ n \in S => Q \subseteq S

(* Nothing leads to a node before it is published. *)
Linked ==
  /\ head \in Published \cup {NONE}
  /\ \A n \in Nodes : next[n] \in Published \cup {NONE}
  /\ \A t \in Threads : pos[t] \in Published \cup {NONE}
Reached ==
  /\ Reaches(head, Published) /\ (head = NONE => Published = {})
  /\ \A t \in Threads : Reaches(pos[t], todo[t]) /\ (pos[t] = NONE => todo[t] = {})

(* The inductive invariant of the walks. *)
WalkInv == OwnerInv /\ PosInv /\ Linked /\ Reached

(* What a step does to the list and to the walks. *)
Relinks(m) ==
  /\ m \in Nodes \ Published /\ Published' = Published
  /\ next' = [next EXCEPT ![m] = head] /\ UNCHANGED <<head, pos, todo>>
Publishes(m) ==
  /\ m \in Nodes /\ Published' = Published \cup {m}
  /\ head = next[m] /\ head' = m /\ UNCHANGED <<next, pos, todo>>
Follows(t) ==
  /\ Published' = Published /\ UNCHANGED <<head, next>> /\ pos[t] \in Nodes
  /\ pos' = [pos EXCEPT ![t] = next[pos[t]]]
  /\ todo' = [todo EXCEPT ![t] = @ \ {pos[t]}]
Starts(t) ==
  /\ Published' = Published /\ UNCHANGED <<head, next>> /\ head # NONE
  /\ pos' = [pos EXCEPT ![t] = head]
  /\ todo' = [todo EXCEPT ![t] = Published]
Stays == Published' = Published /\ UNCHANGED <<head, next, pos, todo>>

(* Only allocation and prepend touch the set of published nodes. *)
LEMMA PublishedFrame ==
  ASSUME Domains, NEW t \in Threads, Act(t), UNCHANGED allocated,
         pc'[t] # "prepend" /\ pc[t] # "prepend"
  PROVE  Published' = Published
BY ActFrame DEF Published, Frame

(* Every step does one of these. *)
LEMMA ListSteps ==
  ASSUME WalkInv, NEW t \in Threads, Act(t)
  PROVE  (\E m : Relinks(m) \/ Publishes(m)) \/ Follows(t) \/ Starts(t) \/ Stays
<1>1. Domains /\ LocatedAt(t) /\ Frame(t) /\ NonEmpty /\ allocated \in 0..MaxNodes
  BY TypeDomains, ActFrame DEF WalkInv, OwnerInv, TypeInv, TypeOK, Located
<1> USE <1>1, DebtListConstants
    DEF Domains, shared, local, helps, life, history, Goto, AtNode, Finish, Entry
<1>2. CASE Exit(t) \/ LateEnd(t) \/ \E o \in Ops[t] : Call(t, o)
  BY <1>2, PublishedFrame DEF Exit, LateEnd, Call, Stays
<1>3. CASE Get(t) \/ CheckInUse(t) \/ CheckWriters(t) \/ CheckRelease(t) \/ Claim(t)
  BY <1>3, PublishedFrame DEF Get, CheckInUse, CheckWriters, CheckRelease, Claim, Visit, Take, Stays
<1>4. CASE NewNode(t)
  <2>1. allocated + 1 \in Nodes \ Published
    BY <1>4 DEF NewNode, Nodes, Published
  <2>2. Published' = Published
    BY <1>4 DEF NewNode, Published, Frame
  <2> QED BY <1>4, <2>1, <2>2 DEF NewNode, Relinks
<1>5. CASE Prepend(t)
  <2>1. cur[t] \in Nodes \ Published /\ cur[t] \in 1..allocated
    BY <1>5 DEF Prepend, Published, LocatedAt, Visiting, WalkInv, OwnerInv, Hidden, Nodes
  <2>2. CASE next' = [next EXCEPT ![cur[t]] = head] /\ UNCHANGED <<head, cur, pc>>
    <3>1. Published' = Published
      BY <1>5, <2>2 DEF Prepend, Published
    <3> QED BY <1>5, <2>1, <2>2, <3>1 DEF Prepend, Relinks
  <2>3. CASE head = next[cur[t]] /\ head' = cur[t] /\ Take(t) /\ UNCHANGED next
    <3>1. pc[t] = "prepend" /\ pc'[t] # "prepend" /\ allocated' = allocated
      BY <1>5, <2>3 DEF Prepend, Take
    <3>2. \A u \in Threads : pc[u] = "prepend" /\ cur[u] = cur[t] => u = t
      BY <3>1 DEF WalkInv, OwnerInv, Fresh
    <3>3. Published' = Published \cup {cur[t]}
      BY <2>1, <3>1, <3>2 DEF Published, Frame
    <3> QED BY <1>5, <2>1, <2>3, <3>3 DEF Prepend, Publishes
  <2> QED BY <1>5, <2>2, <2>3 DEF Prepend
<1>6. CASE NewHelping(t) \/ ConfirmHelping(t) \/ ConfirmPanics(t)
  BY <1>6, PublishedFrame DEF NewHelping, ConfirmHelping, ConfirmPanics, Stays
<1>7. CASE CoolReserve(t) \/ CoolSwap(t) \/ CoolRelease(t)
  BY <1>7, PublishedFrame DEF CoolReserve, CoolSwap, CoolRelease, Ends, DropsTmp, Discards, Stays
<1>8. CASE Walk(t)
  BY <1>8, PublishedFrame DEF Walk, Starts, NonEmpty
<1>9. CASE Reserve(t) \/ Help(t) \/ HelpRecheck(t) \/ HelpCas(t)
  BY <1>9, PublishedFrame DEF Reserve, Help, HelpRecheck, HelpCas, HelpLoop, Replacement, Stays
<1>10. CASE Unreserve(t)
  BY <1>10, PublishedFrame DEF Unreserve, Follows, LocatedAt, InWalk
<1> QED BY <1>2, <1>3, <1>4, <1>5, <1>6, <1>7, <1>8, <1>9, <1>10 DEF Act, Step

(* A node gets links before it is published, and none afterwards. *)
LEMMA LinkedStep ==
  ASSUME WalkInv, NEW t \in Threads, Act(t)
  PROVE  Linked'
<1>1. Domains
  BY TypeDomains DEF WalkInv, OwnerInv, TypeInv
<1> QED BY <1>1, ListSteps DEF WalkInv, Linked, Domains, Relinks, Publishes, Follows, Starts, Stays

(* A walk that follows a link loses nothing but the node it leaves. *)
LEMMA ReachedStep ==
  ASSUME WalkInv, NEW t \in Threads, Act(t)
  PROVE  Reached'
<1>1. Domains /\ Linked /\ Reached /\ NONE \notin Nodes /\ Published \subseteq Nodes
      /\ allocated \in 0..MaxNodes /\ next \in [Nodes -> NodeOrNone] /\ todo \in [Threads -> SUBSET Nodes]
  <2>1. TypeOK /\ Linked /\ Reached
    BY DEF WalkInv, OwnerInv, TypeInv
  <2>2. Domains /\ allocated \in 0..MaxNodes /\ next \in [Nodes -> NodeOrNone]
        /\ todo \in [Threads -> SUBSET Nodes]
    BY <2>1, TypeDomains DEF TypeOK
  <2>3. Published \subseteq Nodes
    BY <2>2, DebtListConstants DEF Published, Nodes
  <2> QED BY <2>1, <2>2, <2>3, DebtListConstants
<1>2. ASSUME NEW m, Relinks(m) PROVE Reached'
  <2>1. ASSUME NEW S \in SUBSET Nodes, Closed(S)'
        PROVE  Closed(S \ {m}) /\ S \ {m} \in SUBSET Nodes
    BY <1>1, <1>2, <2>1 DEF Relinks, Closed, Domains, Linked
  <2>2. ASSUME NEW n \in Published \cup {NONE}, NEW Q, Reaches(n, Q),
               NEW S \in SUBSET Nodes, Closed(S)', n \in S
        PROVE  Q \subseteq S
    <3>1. n \in S \ {m}
      BY <1>1, <1>2, <2>2 DEF Relinks
    <3>2. Q \subseteq S \ {m}
      BY <2>1, <2>2, <3>1 DEF Reaches
    <3> QED BY <3>2
  <2>3. /\ head' = head /\ pos' = pos /\ todo' = todo /\ Published' = Published
    BY <1>2 DEF Relinks
  <2>4. Reaches(head, Published)'
    BY <1>1, <2>2, <2>3 DEF Reaches, Linked, Reached
  <2>5. ASSUME NEW u \in Threads PROVE Reaches(pos[u], todo[u])'
    BY <1>1, <2>2, <2>3 DEF Reaches, Linked, Reached
  <2> QED BY <1>1, <2>3, <2>4, <2>5 DEF Reached
<1>3. ASSUME NEW m, Publishes(m) PROVE Reached'
  <2>1. \A S : Closed(S)' <=> Closed(S)
    BY <1>3 DEF Closed, Publishes
  <2>2. ASSUME NEW S \in SUBSET Nodes, Closed(S), m \in S PROVE Published \cup {m} \subseteq S
    BY <1>1, <1>3, <2>2 DEF Closed, Publishes, Reached, Reaches
  <2>3. Reaches(head, Published)' /\ head' # NONE
    BY <1>1, <1>3, <2>1, <2>2 DEF Reaches, Publishes
  <2>4. ASSUME NEW u \in Threads PROVE Reaches(pos[u], todo[u])'
    BY <1>1, <1>3, <2>1 DEF Reaches, Reached, Publishes
  <2> QED BY <1>1, <1>3, <2>3, <2>4 DEF Reached, Publishes
<1>4. CASE Follows(t)
  <2>1. \A S : Closed(S)' <=> Closed(S)
    BY <1>4 DEF Closed, Follows
  <2>2. PICK n \in Nodes : n = pos[t]
    BY <1>4 DEF Follows
  <2>3. next[n] = NONE => todo[t] \subseteq {n}
    <3>1. next[n] = NONE => Closed({n})
      BY DEF Closed
    <3> QED BY <1>1, <2>2, <3>1 DEF Reached, Reaches
  <2>4. ASSUME NEW S \in SUBSET Nodes, Closed(S), next[n] \in S PROVE todo[t] \ {n} \subseteq S
    <3>1. Closed(S \cup {n}) /\ S \cup {n} \in SUBSET Nodes
      BY <2>4 DEF Closed
    <3> QED BY <1>1, <2>2, <3>1 DEF Reached, Reaches
  <2>5. pos'[t] = next[n] /\ todo'[t] = todo[t] \ {n}
    BY <1>1, <1>4, <2>2 DEF Follows, Domains
  <2>6. Reaches(pos[t], todo[t])' /\ (pos'[t] = NONE => todo'[t] = {})
    BY <2>1, <2>3, <2>4, <2>5 DEF Reaches
  <2>7. ASSUME NEW u \in Threads, u # t
        PROVE  Reaches(pos[u], todo[u])' /\ (pos'[u] = NONE => todo'[u] = {})
    <3>1. pos'[u] = pos[u] /\ todo'[u] = todo[u]
      BY <1>1, <1>4, <2>7 DEF Follows, Domains
    <3> QED BY <1>1, <2>1, <3>1 DEF Reached, Reaches
  <2>8. Reaches(head, Published)' /\ (head' = NONE => Published' = {})
    BY <1>1, <1>4, <2>1 DEF Follows, Reached, Reaches
  <2> QED BY <2>6, <2>7, <2>8 DEF Reached
<1>5. CASE Starts(t)
  <2>1. \A S : Closed(S)' <=> Closed(S)
    BY <1>5 DEF Closed, Starts
  <2>2. Reaches(head, Published)' /\ (head' = NONE => Published' = {})
    BY <1>1, <1>5, <2>1 DEF Starts, Reached, Reaches
  <2>3. ASSUME NEW u \in Threads
        PROVE  Reaches(pos[u], todo[u])' /\ (pos'[u] = NONE => todo'[u] = {})
    <3>1. CASE u # t
      <4>1. pos'[u] = pos[u] /\ todo'[u] = todo[u]
        BY <1>1, <1>5, <3>1 DEF Starts, Domains
      <4> QED BY <1>1, <2>1, <4>1 DEF Reached, Reaches
    <3>2. CASE u = t
      <4>1. pos'[u] = head /\ todo'[u] = Published /\ head # NONE
        BY <1>1, <1>5, <3>2 DEF Starts, Domains
      <4> QED BY <1>1, <2>1, <4>1 DEF Reached, Reaches
    <3> QED BY <3>1, <3>2
  <2> QED BY <2>2, <2>3 DEF Reached
<1>6. CASE Stays
  <2>1. \A S : Closed(S)' <=> Closed(S)
    BY <1>6 DEF Closed, Stays
  <2> QED BY <1>1, <1>6, <2>1 DEF Stays, Reached, Reaches
<1> QED BY <1>2, <1>3, <1>4, <1>5, <1>6, ListSteps

(* WalkInv is inductive. *)
LEMMA InitWalkInv == Init => WalkInv
<1> SUFFICES ASSUME Init PROVE Linked /\ Reached
  BY InitOwnerInv, InitPosInv DEF WalkInv
<1>1. Published = {}
  BY DEF Init, Published
<1>2. head = NONE /\ \A t \in Threads : pos[t] = NONE /\ todo[t] = {}
  BY DEF Init
<1>3. \A n \in Nodes : next[n] = NONE
  BY DEF Init
<1> QED BY <1>1, <1>2, <1>3 DEF Linked, Reached, Reaches

LEMMA NextWalkInv == WalkInv /\ [Next]_vars => WalkInv'
<1> SUFFICES ASSUME WalkInv, [Next]_vars PROVE WalkInv'
  OBVIOUS
<1>1. OwnerInv' /\ PosInv'
  BY NextOwnerInv, NextPosInv DEF WalkInv
<1>2. CASE UNCHANGED vars
  BY <1>1, <1>2 DEF vars, shared, local, helps, life, history, WalkInv, Linked, Reached, Reaches,
     Closed, Published
<1>3. ASSUME NEW t \in Threads, Act(t) PROVE WalkInv'
  BY <1>1, <1>3, LinkedStep, ReachedStep DEF WalkInv
<1> QED BY <1>2, <1>3 DEF Next, Act

(* A walk visits every node that was in the list when it began, however    *)
(* many nodes other threads prepend, claim and give up meanwhile           *)
(* (Node::traverse against the prepend in Node::get, src/debt/list.rs).    *)
THEOREM WalksComplete == Spec => []WalkComplete
<1>1. WalkInv => WalkComplete
  BY DEF WalkInv, PosInv, Positioned, Reached, WalkComplete
<1> QED BY InitWalkInv, NextWalkInv, <1>1, PTL DEF Spec

----------------------------------------------------------------------------
(* The control words.  No counter wraps while a thread lives: with 2^62    *)
(* (or 2^30) generations this is what the code counts on.                  *)
NoWrap == \A t \in Threads : pc[t] = "get_debt" => gen[t] + 1 < GenMod

(* Thread t is in help and has read a generation. *)
HasRead(t) ==
  pc[t] \in {"help_recheck", "help_cas"} \/ Nested(t)
    \/ (op[t] = "write" /\ pc[t] \in {"get_debt", "confirm"})

(* A control word that is not idle belongs to a transaction in progress. *)
Transacting(n) == control[n] # IDLE => \E t \in Threads : node[t] = n /\ pc[t] = "confirm"
IdleInv ==
  /\ OwnerInv /\ PosInv
  /\ \A t \in Threads : HasRead(t) => IsGen(ctl[t])
  /\ \A t \in Threads : pc[t] \in Cooling /\ tls[t] = "there" => op[t] = "exit"
  /\ \A n \in Nodes : Transacting(n)

(* A helper has read a generation, not an idle word. *)
LEMMA HasReadStep ==
  ASSUME IdleInv, NEW t \in Threads, Act(t), NoWrap, HasRead(t)'
  PROVE  IsGen(ctl'[t])
<1>1. Domains /\ LocatedAt(t) /\ Positioned(t) /\ (HasRead(t) => IsGen(ctl[t]))
      /\ (pc[t] \in Cooling /\ tls[t] = "there" => op[t] = "exit")
  BY TypeDomains DEF IdleInv, PosInv, TypeInv, Located
<1> USE <1>1, DebtListConstants
    DEF Domains, LocatedAt, Positioned, HasRead, Nested, Cooling, Getting, Visiting, InWalk, Giving,
        shared, local, helps, life, history, Goto, AtNode, Finish, Entry
<1>2. CASE Exit(t) \/ LateEnd(t) \/ \E o \in Ops[t] : Call(t, o)
  BY <1>2 DEF Exit, LateEnd, Call
<1>3. CASE Get(t) \/ CheckInUse(t) \/ CheckWriters(t) \/ CheckRelease(t) \/ Claim(t) \/ NewNode(t)
  BY <1>3 DEF Get, CheckInUse, CheckWriters, CheckRelease, Claim, NewNode, Visit, Take
<1>4. CASE Prepend(t) \/ NewHelping(t) \/ ConfirmHelping(t) \/ ConfirmPanics(t)
  BY <1>4 DEF Prepend, NewHelping, ConfirmHelping, ConfirmPanics, Take
<1>5. CASE CoolReserve(t) \/ CoolSwap(t) \/ CoolRelease(t)
  BY <1>5 DEF CoolReserve, CoolSwap, CoolRelease, Ends, DropsTmp, Discards
<1>6. CASE Walk(t) \/ Reserve(t) \/ Unreserve(t)
  BY <1>6 DEF Walk, Reserve, Unreserve
<1>7. CASE Help(t) \/ HelpRecheck(t) \/ HelpCas(t)
  BY <1>7 DEF Help, HelpRecheck, HelpCas, HelpLoop, Replacement
<1> QED BY <1>2, <1>3, <1>4, <1>5, <1>6, <1>7 DEF Act, Step

(* Without a wrap, a transaction does not give its node up. *)
LEMMA GenStep ==
  ASSUME IdleInv, NEW t \in Threads, NewHelping(t), NoWrap
  PROVE  pc' = [pc EXCEPT ![t] = "confirm"]
<1>1. gen[t] \in 0..(GenMod - 1) /\ gen[t] + 1 < GenMod
  BY DEF NewHelping, NoWrap, IdleInv, PosInv, TypeInv, TypeOK, Gens
<1>2. (gen[t] + 1) % GenMod # 0
  <2>1. (gen[t] + 1) % GenMod = gen[t] + 1
    BY <1>1, DebtListConstants
  <2> QED BY <1>1, <2>1
<1> QED BY <1>2 DEF NewHelping, Goto

(* Nor does anything but the end of a thread. *)
LEMMA CoolingStep ==
  ASSUME IdleInv, NEW t \in Threads, Act(t), NoWrap, pc'[t] \in Cooling, tls'[t] = "there"
  PROVE  op'[t] = "exit"
<1>1. Domains /\ (pc[t] \in Cooling /\ tls[t] = "there" => op[t] = "exit")
  BY TypeDomains DEF IdleInv, PosInv, TypeInv
<1> USE <1>1, DebtListConstants
    DEF Domains, Cooling, shared, local, helps, life, history, Goto, AtNode, Finish, Entry
<1>2. CASE Exit(t) \/ LateEnd(t) \/ \E o \in Ops[t] : Call(t, o)
  BY <1>2 DEF Exit, LateEnd, Call
<1>3. CASE Get(t) \/ CheckInUse(t) \/ CheckWriters(t) \/ CheckRelease(t) \/ Claim(t) \/ NewNode(t)
  BY <1>3 DEF Get, CheckInUse, CheckWriters, CheckRelease, Claim, NewNode, Visit, Take
<1>4. CASE Prepend(t) \/ ConfirmHelping(t) \/ ConfirmPanics(t)
  BY <1>4 DEF Prepend, ConfirmHelping, ConfirmPanics, Take
<1>8. CASE NewHelping(t)
  BY <1>8, GenStep
<1>5. CASE CoolReserve(t) \/ CoolSwap(t) \/ CoolRelease(t)
  BY <1>5 DEF CoolReserve, CoolSwap, CoolRelease, Ends, DropsTmp, Discards
<1>6. CASE Walk(t) \/ Reserve(t) \/ Unreserve(t)
  BY <1>6 DEF Walk, Reserve, Unreserve
<1>7. CASE Help(t) \/ HelpRecheck(t) \/ HelpCas(t)
  BY <1>7 DEF Help, HelpRecheck, HelpCas, HelpLoop, Replacement
<1> QED BY <1>2, <1>3, <1>4, <1>5, <1>6, <1>7, <1>8 DEF Act, Step

(* A control word is set by its owner for its transaction, and by a helper *)
(* only while that lasts.                                                  *)
LEMMA TransactingStep ==
  ASSUME IdleInv, NEW t \in Threads, Act(t), NoWrap, NEW n \in Nodes
  PROVE  Transacting(n)'
<1>1. Domains /\ Frame(t) /\ LocatedAt(t) /\ Transacting(n) /\ NONE \notin Nodes
      /\ (pc[t] \in Cooling /\ tls[t] = "there" => op[t] = "exit")
  BY TypeDomains, ActFrame, DebtListConstants DEF IdleInv, PosInv, TypeInv, Located
<1>0. ASSUME control'[n] \in {control[n], IDLE}, control'[n] # IDLE => ~(pc[t] = "confirm" /\ node[t] = n)
      PROVE  Transacting(n)'
  BY <1>0, <1>1 DEF Transacting, Frame
<1> USE <1>1 DEF Domains, shared, local, helps, life, history
<1>2. CASE Exit(t) \/ LateEnd(t) \/ \E o \in Ops[t] : Call(t, o)
  BY <1>0, <1>2 DEF Exit, LateEnd, Call
<1>3. CASE Get(t) \/ CheckInUse(t) \/ CheckWriters(t) \/ CheckRelease(t) \/ Claim(t) \/ NewNode(t) \/ Prepend(t)
  BY <1>0, <1>3 DEF Get, CheckInUse, CheckWriters, CheckRelease, Claim, NewNode, Prepend
<1>4. CASE NewHelping(t)
  <2>1. pc'[t] = "confirm" /\ node' = node
    BY <1>4, GenStep DEF NewHelping
  <2>2. CASE node[t] = n
    BY <2>1, <2>2 DEF Transacting
  <2>3. CASE node[t] # n
    BY <1>0, <1>4, <2>3 DEF NewHelping
  <2> QED BY <2>2, <2>3
<1>5. CASE ConfirmHelping(t) \/ ConfirmPanics(t)
  BY <1>0, <1>5 DEF ConfirmHelping, ConfirmPanics
<1>6. CASE CoolReserve(t) \/ CoolSwap(t) \/ CoolRelease(t)
  BY <1>0, <1>6 DEF CoolReserve, CoolSwap, CoolRelease
<1>7. CASE Walk(t) \/ Reserve(t) \/ Unreserve(t) \/ Help(t) \/ HelpRecheck(t)
  BY <1>0, <1>7 DEF Walk, Reserve, Unreserve, Help, HelpRecheck
<1>8. CASE HelpCas(t)
  <2>1. IsGen(ctl[t]) /\ IDLE \notin Gens
    BY <1>8, DebtListConstants DEF HelpCas, IdleInv, HasRead
  <2>2. control'[n] # IDLE => control[n] # IDLE
    BY <1>8, <2>1 DEF HelpCas, IsGen
  <2>3. pc[t] # "confirm"
    BY <1>8 DEF HelpCas
  <2> QED BY <2>2, <2>3 DEF Transacting, Frame
<1> QED BY <1>2, <1>3, <1>4, <1>5, <1>6, <1>7, <1>8 DEF Act, Step

(* IdleInv is inductive as long as nothing wraps. *)
LEMMA InitIdleInv == Init => IdleInv
BY InitOwnerInv, InitPosInv DEF Init, IdleInv, HasRead, Nested, Cooling, Transacting

LEMMA NextIdleInv == IdleInv /\ NoWrap /\ [Next]_vars => IdleInv'
<1> SUFFICES ASSUME IdleInv, NoWrap, [Next]_vars PROVE IdleInv'
  OBVIOUS
<1>1. OwnerInv' /\ PosInv'
  BY NextOwnerInv, NextPosInv DEF IdleInv
<1>2. CASE UNCHANGED vars
  BY <1>1, <1>2 DEF vars, shared, local, helps, life, history, IdleInv, HasRead, Nested, Transacting
<1>3. ASSUME NEW t \in Threads, Act(t) PROVE IdleInv'
  <2>1. Frame(t)
    BY <1>3, TypeDomains, ActFrame DEF IdleInv, PosInv, TypeInv
  <2>2. ASSUME NEW u \in Threads PROVE (HasRead(u) => IsGen(ctl[u]))'
    BY <1>3, <2>1, HasReadStep DEF IdleInv, HasRead, Nested, Frame
  <2>3. ASSUME NEW u \in Threads PROVE (pc[u] \in Cooling /\ tls[u] = "there" => op[u] = "exit")'
    BY <1>3, <2>1, CoolingStep DEF IdleInv, Frame
  <2>4. \A n \in Nodes : Transacting(n)'
    BY <1>3, TransactingStep
  <2> QED BY <1>1, <2>2, <2>3, <2>4 DEF IdleInv
<1> QED BY <1>2, <1>3 DEF Next, Act

(* As long as no generation counter wraps, every transaction starts on an  *)
(* idle control word, also on a node taken over from a thread that ended,  *)
(* and whatever slow helpers do: the assertion "Left control in wrong      *)
(* state" of get_debt in src/debt/helping.rs.                              *)
THEOREM TransactionsStartIdle == Spec /\ []NoWrap => []StartsIdle
<1>1. IdleInv => StartsIdle
  <2> SUFFICES ASSUME IdleInv, NEW t \in Threads, pc[t] = "get_debt" PROVE control[node[t]] = IDLE
    BY DEF StartsIdle
  <2>1. node[t] \in Nodes
    BY DEF IdleInv, PosInv, TypeInv, Located, LocatedAt, Giving
  <2> QED BY <2>1 DEF IdleInv, Transacting, OwnerInv, UniqueOwner, Owns
<1> QED BY InitIdleInv, NextIdleInv, <1>1, PTL DEF Spec

----------------------------------------------------------------------------
(* The cooldown.  What goes wrong in the run list_aba is excluded by a     *)
(* hypothesis: no thread puts a node into cooldown while another one is    *)
(* about to end, with its exchange in check_cooldown, a cooldown of this   *)
(* node that it saw.  That cooldown must have been over by then, since the *)
(* node has got a new owner.                                               *)
NoLateRelease ==
  \A t, u \in Threads : pc[t] = "cool_swap" /\ pc[u] = "check_release" => cur[u] # node[t]

(* The writers that a cooldown has to wait for are still on the node, and  *)
(* a thread that saw none of them ends no cooldown that still has some.    *)
EarlyOn == \A n \in Nodes : early[n] \subseteq OnNode(n)
Drained ==
  \A t \in Threads :
    pc[t] = "check_release" /\ in_use[cur[t]] = NODE_COOLDOWN => early[cur[t]] = {}
DrainInv == ReservationInv /\ CooldownDrains /\ EarlyOn /\ Drained

(* Thread u has node n for transactions of its own, not for a walk only.   *)
Runs(u, n) ==
  node[u] = n /\ pc[u] # "cool_release" /\ (tls[u] = "gone" /\ op[u] = "write" => Nested(u))

(* While a helper h has a generation in hand, the owner it read it from is *)
(* still there and past it if it went on to a later transaction, or the    *)
(* cooldown of the node waits for h.                                       *)
InTime(h) ==
  \/ h \in early[pos[h]]
  \/ \E u \in Threads :
       /\ Runs(u, pos[h]) /\ ctl[h] <= gen[u]
       /\ txn[pos[h]] = saw[h] \/ ctl[h] < gen[u]

(* A thread that looks for a node has none; a generation in a control word *)
(* is the current one of the owner.                                        *)
Homeless(t) == pc[t] \in Getting \/ (pc[t] = "idle" /\ tls[t] = "gone") => node[t] = NONE
Worded(t) ==
  pc[t] = "confirm" /\ node[t] \in Nodes /\ IsGen(control[node[t]]) => control[node[t]] = gen[t]
HelpInv ==
  /\ IdleInv /\ DrainInv
  /\ \A t \in Threads : Homeless(t) /\ Worded(t) /\ (HasRead(t) => InTime(t))

(* A writer leaves a node only together with the mark that it was there.   *)
LEMMA EarlyStep ==
  ASSUME PosInv, EarlyOn, NEW t \in Threads, Act(t)
  PROVE  EarlyOn'
<1>1. Domains /\ Frame(t) /\ LocatedAt(t) /\ Positioned(t) /\ NONE \notin Nodes
      /\ early \in [Nodes -> SUBSET Threads] /\ next \in [Nodes -> NodeOrNone]
      /\ \A n \in Nodes, u \in Threads : u \in early[n] => u \in OnNode(n)
  BY TypeDomains, ActFrame, DebtListConstants DEF PosInv, TypeInv, TypeOK, Located, EarlyOn
<1>2. ASSUME NEW n \in Nodes, t \in early'[n] PROVE t \in OnNode(n)'
  <2> USE <1>1, <1>2
      DEF Domains, LocatedAt, Positioned, OnNode, Nested, Cooling, Getting, Visiting, InWalk, Giving,
          shared, local, helps, life, history, Goto, AtNode, Finish, Entry
  <2>2. CASE Exit(t) \/ LateEnd(t) \/ \E o \in Ops[t] : Call(t, o)
    BY <2>2 DEF Exit, LateEnd, Call
  <2>3. CASE Get(t) \/ CheckInUse(t) \/ CheckWriters(t) \/ CheckRelease(t) \/ Claim(t) \/ NewNode(t)
    BY <2>3 DEF Get, CheckInUse, CheckWriters, CheckRelease, Claim, NewNode, Visit, Take
  <2>4. CASE Prepend(t) \/ NewHelping(t) \/ ConfirmHelping(t) \/ ConfirmPanics(t)
    BY <2>4 DEF Prepend, NewHelping, ConfirmHelping, ConfirmPanics, Take
  <2>5. CASE CoolReserve(t) \/ CoolSwap(t) \/ CoolRelease(t)
    BY <2>5 DEF CoolReserve, CoolSwap, CoolRelease, Ends, DropsTmp, Discards
  <2>6. CASE Walk(t) \/ Reserve(t) \/ Unreserve(t)
    BY <2>6 DEF Walk, Reserve, Unreserve
  <2>7. CASE Help(t) \/ HelpRecheck(t) \/ HelpCas(t)
    BY <2>7 DEF Help, HelpRecheck, HelpCas, HelpLoop, Replacement
  <2> QED BY <2>2, <2>3, <2>4, <2>5, <2>6, <2>7 DEF Act, Step
<1>3. ASSUME NEW n \in Nodes, NEW u \in Threads \ {t}, u \in early'[n] PROVE u \in OnNode(n)'
  <2>1. u \in OnNode(n)
    <3> USE <1>1, <1>3 DEF shared, local, helps, life, history
    <3>2. CASE Exit(t) \/ LateEnd(t) \/ \E o \in Ops[t] : Call(t, o)
      BY <3>2 DEF Exit, LateEnd, Call
    <3>3. CASE Get(t) \/ CheckInUse(t) \/ CheckWriters(t) \/ CheckRelease(t) \/ Claim(t) \/ NewNode(t)
      BY <3>3 DEF Get, CheckInUse, CheckWriters, CheckRelease, Claim, NewNode
    <3>4. CASE Prepend(t) \/ NewHelping(t) \/ ConfirmHelping(t) \/ ConfirmPanics(t)
      BY <3>4 DEF Prepend, NewHelping, ConfirmHelping, ConfirmPanics
    <3>5. CASE CoolReserve(t) \/ CoolSwap(t) \/ CoolRelease(t)
      BY <3>5 DEF CoolReserve, CoolSwap, CoolRelease
    <3>6. CASE Walk(t) \/ Reserve(t) \/ Unreserve(t)
      BY <3>6 DEF Walk, Reserve, Unreserve
    <3>7. CASE Help(t) \/ HelpRecheck(t) \/ HelpCas(t)
      BY <3>7 DEF Help, HelpRecheck, HelpCas
    <3> QED BY <3>2, <3>3, <3>4, <3>5, <3>6, <3>7 DEF Act, Step
  <2> QED BY <1>1, <1>3, <2>1 DEF Frame, OnNode
<1>4. early' \in [Nodes -> SUBSET Threads]
  <2> USE <1>1 DEF shared, local, helps, life, history
  <2>2. CASE Exit(t) \/ LateEnd(t) \/ \E o \in Ops[t] : Call(t, o)
    BY <2>2 DEF Exit, LateEnd, Call
  <2>3. CASE Get(t) \/ CheckInUse(t) \/ CheckWriters(t) \/ CheckRelease(t) \/ Claim(t) \/ NewNode(t)
    BY <2>3 DEF Get, CheckInUse, CheckWriters, CheckRelease, Claim, NewNode
  <2>4. CASE Prepend(t) \/ NewHelping(t) \/ ConfirmHelping(t) \/ ConfirmPanics(t)
    BY <2>4 DEF Prepend, NewHelping, ConfirmHelping, ConfirmPanics
  <2>5. CASE CoolReserve(t) \/ CoolSwap(t) \/ CoolRelease(t)
    BY <2>5 DEF CoolReserve, CoolSwap, CoolRelease, OnNode
  <2>6. CASE Walk(t) \/ Reserve(t) \/ Unreserve(t)
    BY <2>6 DEF Walk, Reserve, Unreserve
  <2>7. CASE Help(t) \/ HelpRecheck(t) \/ HelpCas(t)
    BY <2>7 DEF Help, HelpRecheck, HelpCas
  <2> QED BY <2>2, <2>3, <2>4, <2>5, <2>6, <2>7 DEF Act, Step
<1> QED BY <1>2, <1>3, <1>4 DEF EarlyOn

(* A node without reservations has no writer on it. *)
LEMMA NobodyThere ==
  ASSUME ReservationInv, NEW n \in Nodes, active_writers[n] = 0
  PROVE  OnNode(n) = {}
<1>1. /\ OnNode(n) \in SUBSET Threads /\ CoolingNode(n) \in SUBSET Threads
      /\ active_writers[n] = Cardinality(OnNode(n)) + Cardinality(CoolingNode(n))
  BY DEF OnNode, CoolingNode, ReservationInv, ReservationCount
<1>2. IsFiniteSet(OnNode(n)) /\ IsFiniteSet(CoolingNode(n))
  BY <1>1, DebtListConstants, FS_Subset
<1>3. Cardinality(OnNode(n)) \in Nat /\ Cardinality(CoolingNode(n)) \in Nat
  BY <1>2, FS_CardinalityType
<1>4. Cardinality(OnNode(n)) = 0
  BY <1>1, <1>3
<1> QED BY <1>2, <1>4, FS_EmptySet

(* A cooldown starts with the writers of the moment, and ends when a       *)
(* thread has seen a moment of this cooldown without any.                  *)
LEMMA DrainStep ==
  ASSUME DrainInv, NoLateRelease, NEW t \in Threads, Act(t)
  PROVE  (CooldownDrains /\ Drained)'
<1>1. Domains /\ Frame(t) /\ LocatedAt(t) /\ TypeOK /\ ReservationInv
      /\ CooldownDrains /\ Drained /\ EarlyOn
  BY TypeDomains, ActFrame DEF DrainInv, ReservationInv, PosInv, TypeInv, Located
<1>2. \A u \in Threads : pc[u] = "check_release" => cur[u] \in Nodes
  BY DEF DrainInv, ReservationInv, PosInv, TypeInv, Located, LocatedAt, Visiting
<1>0. ASSUME in_use' = in_use, pc'[t] # "check_release", \A n \in Nodes : early'[n] \subseteq early[n]
      PROVE  (CooldownDrains /\ Drained)'
  <2>1. CooldownDrains'
    BY <1>0, <1>1 DEF CooldownDrains
  <2>2. ASSUME NEW u \in Threads, pc'[u] = "check_release", in_use'[cur'[u]] = NODE_COOLDOWN
        PROVE  early'[cur'[u]] = {}
    <3>1. u # t /\ pc[u] = "check_release" /\ cur'[u] = cur[u] /\ cur[u] \in Nodes
      BY <1>0, <1>1, <1>2, <2>2 DEF Frame
    <3>2. early[cur[u]] = {}
      BY <1>0, <1>1, <2>2, <3>1 DEF Drained
    <3> QED BY <1>0, <3>1, <3>2
  <2> QED BY <2>1, <2>2 DEF Drained
<1> USE <1>1 DEF Domains, TypeOK, shared, local, helps, life, history, Goto, AtNode, Finish, Entry
<1>3. CASE Exit(t) \/ LateEnd(t) \/ \E o \in Ops[t] : Call(t, o)
  BY <1>0, <1>3 DEF Exit, LateEnd, Call
<1>4. CASE Get(t) \/ CheckInUse(t) \/ NewNode(t) \/ Prepend(t)
  BY <1>0, <1>4 DEF Get, CheckInUse, NewNode, Prepend, Visit, Take
<1>5. CASE CheckWriters(t)
  <2>1. cur' = cur /\ in_use' = in_use /\ early' = early /\ cur[t] \in Nodes
    BY <1>5 DEF CheckWriters, LocatedAt, Visiting
  <2>2. pc'[t] = "check_release" => early[cur[t]] = {}
    BY <1>5, <2>1, NobodyThere DEF CheckWriters, EarlyOn
  <2> QED BY <1>2, <2>1, <2>2 DEF CooldownDrains, Drained, Frame
<1>6. CASE CheckRelease(t)
  <2>1. cur' = cur /\ early' = early /\ cur[t] \in Nodes /\ pc'[t] = "claim" /\ pc[t] = "check_release"
    BY <1>6 DEF CheckRelease, LocatedAt, Visiting
  <2>2. CASE in_use[cur[t]] # NODE_COOLDOWN
    BY <1>0, <1>6, <2>1, <2>2 DEF CheckRelease
  <2>3. CASE in_use[cur[t]] = NODE_COOLDOWN
    <3>1. early[cur[t]] = {} /\ in_use' = [in_use EXCEPT ![cur[t]] = NODE_UNUSED]
      BY <1>6, <2>1, <2>3 DEF CheckRelease, Drained
    <3> QED BY <1>2, <2>1, <3>1 DEF CooldownDrains, Drained, Frame, NODE_UNUSED, NODE_COOLDOWN
  <2> QED BY <2>2, <2>3
<1>7. CASE Claim(t)
  <2>1. early' = early /\ cur[t] \in Nodes /\ pc'[t] # "check_release"
    BY <1>7 DEF Claim, Visit, Take, LocatedAt, Visiting
  <2>2. CASE in_use' = in_use
    BY <1>0, <2>1, <2>2
  <2>3. CASE in_use[cur[t]] = NODE_UNUSED /\ in_use' = [in_use EXCEPT ![cur[t]] = NODE_USED]
    BY <1>2, <2>1, <2>3 DEF CooldownDrains, Drained, Frame, NODE_UNUSED, NODE_USED, NODE_COOLDOWN
  <2> QED BY <1>7, <2>2, <2>3 DEF Claim
<1>8. CASE NewHelping(t) \/ ConfirmHelping(t) \/ ConfirmPanics(t)
  BY <1>0, <1>8 DEF NewHelping, ConfirmHelping, ConfirmPanics
<1>9. CASE CoolReserve(t) \/ CoolRelease(t)
  BY <1>0, <1>9 DEF CoolReserve, CoolRelease, Ends, DropsTmp, Discards
<1>10. CASE CoolSwap(t)
  <2>1. /\ node[t] \in Nodes /\ cur' = cur /\ pc'[t] = "cool_release"
        /\ in_use' = [in_use EXCEPT ![node[t]] = NODE_COOLDOWN]
        /\ \A n \in Nodes : n # node[t] => early'[n] = early[n]
        /\ \A u \in Threads : pc[u] = "check_release" => cur[u] # node[t]
    BY <1>10 DEF CoolSwap, LocatedAt, Giving, NoLateRelease
  <2> QED BY <1>2, <2>1 DEF CooldownDrains, Drained, Frame, NODE_UNUSED, NODE_COOLDOWN
<1>11. CASE Walk(t) \/ Reserve(t) \/ Unreserve(t)
  BY <1>0, <1>11 DEF Walk, Reserve, Unreserve
<1>12. CASE Help(t) \/ HelpRecheck(t) \/ HelpCas(t)
  BY <1>0, <1>12 DEF Help, HelpRecheck, HelpCas, HelpLoop, Replacement
<1> QED BY <1>3, <1>4, <1>5, <1>6, <1>7, <1>8, <1>9, <1>10, <1>11, <1>12 DEF Act, Step

(* The reservations and the cooldowns together are inductive. *)
LEMMA InitDrainInv == Init => DrainInv
BY InitReservationInv DEF Init, DrainInv, CooldownDrains, EarlyOn, Drained

LEMMA NextDrainInv == DrainInv /\ NoLateRelease /\ [Next]_vars => DrainInv'
<1> SUFFICES ASSUME DrainInv, NoLateRelease, [Next]_vars PROVE DrainInv'
  OBVIOUS
<1>1. ReservationInv'
  BY NextReservationInv DEF DrainInv
<1>2. CASE UNCHANGED vars
  BY <1>1, <1>2 DEF vars, shared, local, helps, life, history, DrainInv, CooldownDrains, EarlyOn,
     Drained, OnNode
<1>3. ASSUME NEW t \in Threads, Act(t) PROVE DrainInv'
  <2>1. EarlyOn'
    BY <1>3, EarlyStep DEF DrainInv, ReservationInv
  <2>2. (CooldownDrains /\ Drained)'
    BY <1>3, DrainStep
  <2> QED BY <1>1, <2>1, <2>2 DEF DrainInv
<1> QED BY <1>2, <1>3 DEF Next, Act

(* As long as no late exchange of check_cooldown meets a further cooldown  *)
(* of its node, a node leaves a cooldown only after all writers that were  *)
(* on it when that started have left: the zero that check_cooldown sees in *)
(* active_writers is one of after start_cooldown (src/debt/list.rs).       *)
THEOREM CooldownsDrain == Spec /\ []NoLateRelease => []CooldownDrains
<1>1. DrainInv => CooldownDrains
  BY DEF DrainInv
<1> QED BY InitDrainInv, NextDrainInv, <1>1, PTL DEF Spec

(* A thread looks for a node when it has none. *)
LEMMA HomelessStep ==
  ASSUME IdleInv, NEW t \in Threads, Homeless(t), Act(t), NoWrap
  PROVE  Homeless(t)'
<1>1. Domains /\ LocatedAt(t) /\ Positioned(t)
      /\ (pc[t] \in Cooling /\ tls[t] = "there" => op[t] = "exit")
  BY TypeDomains DEF IdleInv, PosInv, TypeInv, Located
<1> USE <1>1, DebtListConstants
    DEF Domains, LocatedAt, Positioned, Homeless, Nested, Cooling, Getting, Visiting, InWalk, Giving,
        shared, local, helps, life, history, Goto, AtNode, Finish, Entry
<1>2. CASE Exit(t) \/ LateEnd(t) \/ \E o \in Ops[t] : Call(t, o)
  BY <1>2 DEF Exit, LateEnd, Call
<1>3. CASE Get(t) \/ CheckInUse(t) \/ CheckWriters(t) \/ CheckRelease(t) \/ Claim(t) \/ NewNode(t)
  BY <1>3 DEF Get, CheckInUse, CheckWriters, CheckRelease, Claim, NewNode, Visit, Take
<1>4. CASE Prepend(t) \/ NewHelping(t) \/ ConfirmHelping(t) \/ ConfirmPanics(t)
  BY <1>4 DEF Prepend, NewHelping, ConfirmHelping, ConfirmPanics, Take
<1>5. CASE CoolReserve(t) \/ CoolSwap(t) \/ CoolRelease(t)
  BY <1>5 DEF CoolReserve, CoolSwap, CoolRelease, Ends, DropsTmp, Discards
<1>6. CASE Walk(t) \/ Reserve(t) \/ Unreserve(t)
  BY <1>6 DEF Walk, Reserve, Unreserve
<1>7. CASE Help(t) \/ HelpRecheck(t) \/ HelpCas(t)
  BY <1>7 DEF Help, HelpRecheck, HelpCas, HelpLoop, Replacement
<1> QED BY <1>2, <1>3, <1>4, <1>5, <1>6, <1>7 DEF Act, Step

(* What a step does to the generation of a thread u that is in the midst   *)
(* of its transactions on n, and to the number of transactions of n: only  *)
(* u counts, both; or u puts the node into cooldown.                       *)
Continues(u, n) ==
  /\ Runs(u, n)'
  /\ (gen'[u] = gen[u] /\ txn'[n] = txn[n]) \/ gen'[u] = gen[u] + 1

(* The owner's own steps. *)
LEMMA OwnerContinues ==
  ASSUME IdleInv, NoWrap, NEW t \in Threads, Homeless(t), Act(t), NEW n \in Nodes, Runs(t, n)
  PROVE  Continues(t, n) \/ early'[n] = OnNode(n)
<1>1. Domains /\ LocatedAt(t) /\ Positioned(t)
      /\ (pc[t] \in Cooling /\ tls[t] = "there" => op[t] = "exit")
      /\ gen \in [Threads -> Gens] /\ DOMAIN early = Nodes /\ NONE \notin Nodes
  BY TypeDomains, DebtListConstants DEF IdleInv, PosInv, TypeInv, TypeOK, Located
<1> USE <1>1
    DEF Continues, Runs, Domains, LocatedAt, Positioned, Homeless, Nested, Cooling, Getting, Visiting,
        InWalk, Giving, shared, local, helps, life, history, Goto, AtNode, Finish, Entry
<1>2. CASE Exit(t) \/ LateEnd(t) \/ \E o \in Ops[t] : Call(t, o)
  BY <1>2 DEF Exit, LateEnd, Call
<1>3. CASE Get(t) \/ CheckInUse(t) \/ CheckWriters(t) \/ CheckRelease(t) \/ Claim(t) \/ NewNode(t)
  BY <1>3 DEF Get, CheckInUse, CheckWriters, CheckRelease, Claim, NewNode
<1>4. CASE Prepend(t) \/ ConfirmHelping(t) \/ ConfirmPanics(t)
  BY <1>4 DEF Prepend, ConfirmHelping, ConfirmPanics
<1>5. CASE NewHelping(t)
  <2>1. gen[t] \in 0..(GenMod - 1) /\ gen[t] + 1 < GenMod
    BY <1>5 DEF NewHelping, NoWrap, Gens
  <2>2. (gen[t] + 1) % GenMod = gen[t] + 1
    BY <2>1, DebtListConstants
  <2>3. gen'[t] = gen[t] + 1 /\ pc'[t] = "confirm" /\ UNCHANGED <<node, op, tls, outer>>
    BY <1>5, <2>2, GenStep DEF NewHelping
  <2> QED BY <2>3
<1>6. CASE CoolReserve(t) \/ CoolRelease(t)
  BY <1>6 DEF CoolReserve, CoolRelease
<1>7. CASE CoolSwap(t)
  BY <1>7 DEF CoolSwap
<1>8. CASE Walk(t) \/ Reserve(t) \/ Unreserve(t)
  BY <1>8 DEF Walk, Reserve, Unreserve
<1>9. CASE Help(t) \/ HelpRecheck(t) \/ HelpCas(t)
  BY <1>9 DEF Help, HelpRecheck, HelpCas, HelpLoop, Replacement
<1> QED BY <1>2, <1>3, <1>4, <1>5, <1>6, <1>7, <1>8, <1>9 DEF Act, Step

(* No other thread counts transactions of the node. *)
LEMMA OthersContinue ==
  ASSUME IdleInv, NEW t \in Threads, Act(t), NEW u \in Threads \ {t}, NEW n \in Nodes, Runs(u, n)
  PROVE  Continues(u, n)
<1>1. Domains /\ Frame(t) /\ DOMAIN txn = Nodes
  BY TypeDomains, ActFrame DEF IdleInv, PosInv, TypeInv, TypeOK
<1>2. txn'[n] = txn[n]
  <2> USE <1>1 DEF shared, local, helps, life, history
  <2>2. CASE Exit(t) \/ LateEnd(t) \/ \E o \in Ops[t] : Call(t, o)
    BY <2>2 DEF Exit, LateEnd, Call
  <2>3. CASE Get(t) \/ CheckInUse(t) \/ CheckWriters(t) \/ CheckRelease(t) \/ Claim(t) \/ NewNode(t)
    BY <2>3 DEF Get, CheckInUse, CheckWriters, CheckRelease, Claim, NewNode
  <2>4. CASE Prepend(t) \/ ConfirmHelping(t) \/ ConfirmPanics(t)
    BY <2>4 DEF Prepend, ConfirmHelping, ConfirmPanics
  <2>5. CASE NewHelping(t)
    <3>1. node[t] # n
      BY <2>5 DEF NewHelping, Runs, IdleInv, OwnerInv, UniqueOwner, Owns
    <3> QED BY <2>5, <3>1 DEF NewHelping
  <2>6. CASE CoolReserve(t) \/ CoolSwap(t) \/ CoolRelease(t)
    BY <2>6 DEF CoolReserve, CoolSwap, CoolRelease
  <2>7. CASE Walk(t) \/ Reserve(t) \/ Unreserve(t)
    BY <2>7 DEF Walk, Reserve, Unreserve
  <2>8. CASE Help(t) \/ HelpRecheck(t) \/ HelpCas(t)
    BY <2>8 DEF Help, HelpRecheck, HelpCas
  <2> QED BY <2>2, <2>3, <2>4, <2>5, <2>6, <2>7, <2>8 DEF Act, Step
<1> QED BY <1>1, <1>2 DEF Continues, Runs, Nested, Frame

(* A generation in a control word is the current one of its owner. *)
LEMMA WordedStep ==
  ASSUME IdleInv, NoWrap, NEW t \in Threads, Act(t), NEW u \in Threads, Worded(u)
  PROVE  Worded(u)'
<1>1. Domains /\ Frame(t) /\ LocatedAt(t) /\ NONE \notin Nodes
      /\ (pc[t] \in Cooling /\ tls[t] = "there" => op[t] = "exit")
      /\ IDLE \notin Gens /\ REPLACEMENT \notin Gens
  BY TypeDomains, ActFrame, DebtListConstants DEF IdleInv, PosInv, TypeInv, Located
<1> USE <1>1 DEF Domains, Worded, IsGen
<1>0. ASSUME control' = control, u = t => pc'[t] # "confirm" PROVE Worded(u)'
  BY <1>0 DEF Frame
<1> USE DEF shared, local, helps, life, history, Goto, AtNode, Finish, Entry
<1>2. CASE Exit(t) \/ LateEnd(t) \/ \E o \in Ops[t] : Call(t, o)
  BY <1>0, <1>2 DEF Exit, LateEnd, Call
<1>3. CASE Get(t) \/ CheckInUse(t) \/ CheckWriters(t) \/ CheckRelease(t) \/ Claim(t) \/ NewNode(t) \/ Prepend(t)
  <2>1. control' = control
    BY <1>3 DEF Get, CheckInUse, CheckWriters, CheckRelease, Claim, NewNode, Prepend
  <2>2. pc'[t] # "confirm"
    BY <1>3 DEF Get, CheckInUse, CheckWriters, CheckRelease, Claim, NewNode, Prepend, Visit, Take
  <2> QED BY <1>0, <2>1, <2>2
<1>4. CASE NewHelping(t)
  <2>1. CASE u = t
    BY <1>4, <2>1 DEF NewHelping
  <2>2. CASE u # t /\ pc[u] = "confirm" /\ node[u] \in Nodes
    <3>1. node[t] # node[u]
      BY <1>4, <2>2 DEF NewHelping, IdleInv, OwnerInv, UniqueOwner, Owns
    <3> QED BY <1>4, <2>2, <3>1 DEF NewHelping, Frame
  <2> QED BY <2>1, <2>2 DEF Frame
<1>5. CASE ConfirmHelping(t)
  BY <1>5 DEF ConfirmHelping, Frame
<1>6. CASE ConfirmPanics(t)
  BY <1>0, <1>6 DEF ConfirmPanics
<1>7. CASE CoolReserve(t) \/ CoolSwap(t) \/ CoolRelease(t)
  BY <1>0, <1>7 DEF CoolReserve, CoolSwap, CoolRelease, Ends, DropsTmp, Discards, Cooling
<1>8. CASE Walk(t) \/ Reserve(t) \/ Unreserve(t) \/ Help(t) \/ HelpRecheck(t)
  BY <1>0, <1>8 DEF Walk, Reserve, Unreserve, Help, HelpRecheck, HelpLoop, Replacement
<1>9. CASE HelpCas(t)
  <2>1. pc'[t] # "confirm" /\ \A n \in Nodes : control'[n] \in {control[n], REPLACEMENT}
    BY <1>9 DEF HelpCas, HelpLoop, Replacement
  <2> QED BY <2>1 DEF Frame
<1> QED BY <1>2, <1>3, <1>4, <1>5, <1>6, <1>7, <1>8, <1>9 DEF Act, Step

(* A helper keeps what it read until it reads anew. *)
Keeps(t) == HasRead(t) /\ ctl'[t] = ctl[t] /\ saw'[t] = saw[t] /\ pos'[t] = pos[t]
Reads(t) ==
  /\ pc[t] \in InWalk /\ IsGen(control[pos[t]]) /\ UNCHANGED <<pos, gen, txn>>
  /\ ctl'[t] = control[pos[t]] /\ saw'[t] = txn[pos[t]]

LEMMA ReadStep ==
  ASSUME IdleInv, NoWrap, NEW t \in Threads, Act(t), HasRead(t)'
  PROVE  Keeps(t) \/ Reads(t)
<1>1. Domains /\ LocatedAt(t) /\ Positioned(t) /\ IDLE \notin Gens
      /\ (pc[t] \in Cooling /\ tls[t] = "there" => op[t] = "exit")
  BY TypeDomains, DebtListConstants DEF IdleInv, PosInv, TypeInv, Located
<1> USE <1>1
    DEF Keeps, Reads, Domains, LocatedAt, Positioned, HasRead, Nested, Cooling, Getting, Visiting, InWalk,
        Giving, shared, local, helps, life, history, Goto, AtNode, Finish, Entry
<1>2. CASE Exit(t) \/ LateEnd(t) \/ \E o \in Ops[t] : Call(t, o)
  BY <1>2 DEF Exit, LateEnd, Call
<1>3. CASE Get(t) \/ CheckInUse(t) \/ CheckWriters(t) \/ CheckRelease(t) \/ Claim(t) \/ NewNode(t)
  BY <1>3 DEF Get, CheckInUse, CheckWriters, CheckRelease, Claim, NewNode, Visit, Take
<1>4. CASE Prepend(t) \/ NewHelping(t) \/ ConfirmHelping(t) \/ ConfirmPanics(t)
  BY <1>4 DEF Prepend, NewHelping, ConfirmHelping, ConfirmPanics, Take
<1>5. CASE CoolReserve(t) \/ CoolSwap(t) \/ CoolRelease(t)
  BY <1>5 DEF CoolReserve, CoolSwap, CoolRelease, Ends, DropsTmp, Discards
<1>6. CASE Walk(t) \/ Reserve(t) \/ Unreserve(t)
  BY <1>6 DEF Walk, Reserve, Unreserve
<1>7. CASE Help(t)
  BY <1>7 DEF Help, HelpLoop, Replacement, IsGen
<1>8. CASE HelpRecheck(t)
  BY <1>8 DEF HelpRecheck, HelpLoop, Replacement, IsGen
<1>9. CASE HelpCas(t)
  BY <1>9 DEF HelpCas, HelpLoop, Replacement, IsGen
<1> QED BY <1>2, <1>3, <1>4, <1>5, <1>6, <1>7, <1>8, <1>9 DEF Act, Step

(* A helper that has read a generation is on the node. *)
LEMMA HelperThere ==
  ASSUME IdleInv, NEW h \in Threads, HasRead(h)
  PROVE  pos[h] \in Nodes /\ h \in OnNode(pos[h]) /\ ctl[h] \in Gens
<1>1. LocatedAt(h) /\ Positioned(h) /\ IsGen(ctl[h]) /\ tls[h] \in {"there", "gone"}
  BY DEF IdleInv, PosInv, TypeInv, TypeOK, Located
<1>2. pos[h] \in Nodes
  BY <1>1 DEF LocatedAt, Positioned, HasRead, InWalk, Giving
<1>3. pc[h] \notin {"reserve", "panic"}
  BY <1>1 DEF LocatedAt, HasRead, Getting, Visiting, Giving
<1> QED BY <1>1, <1>2, <1>3 DEF OnNode, IsGen

(* A cooldown waits for a helper until the helper is done. *)
LEMMA EarlyStays ==
  ASSUME IdleInv, NEW t \in Threads, Act(t), NEW h \in Threads, HasRead(h), HasRead(h)',
         h \in early[pos[h]]
  PROVE  h \in early'[pos[h]]
<1>1. Domains /\ Frame(t) /\ LocatedAt(t) /\ LocatedAt(h) /\ early \in [Nodes -> SUBSET Threads]
  BY TypeDomains, ActFrame DEF IdleInv, PosInv, TypeInv, TypeOK, Located
<1>2. pos[h] \in Nodes /\ h \in OnNode(pos[h])
  BY HelperThere
<1> USE <1>1, <1>2 DEF Domains, shared, local, helps, life, history, Goto, AtNode, Finish
<1>3. CASE Exit(t) \/ LateEnd(t) \/ \E o \in Ops[t] : Call(t, o)
  BY <1>3 DEF Exit, LateEnd, Call
<1>4. CASE Get(t) \/ CheckInUse(t) \/ CheckWriters(t) \/ CheckRelease(t) \/ Claim(t) \/ NewNode(t)
  BY <1>4 DEF Get, CheckInUse, CheckWriters, CheckRelease, Claim, NewNode
<1>5. CASE Prepend(t) \/ NewHelping(t) \/ ConfirmHelping(t)
  BY <1>5 DEF Prepend, NewHelping, ConfirmHelping
<1>6. CASE ConfirmPanics(t)
  BY <1>6, DebtListConstants DEF ConfirmPanics, HasRead, Nested, LocatedAt
<1>7. CASE CoolReserve(t) \/ CoolSwap(t) \/ CoolRelease(t)
  BY <1>7 DEF CoolReserve, CoolSwap, CoolRelease
<1>8. CASE Walk(t) \/ Reserve(t)
  BY <1>8 DEF Walk, Reserve
<1>9. CASE Unreserve(t)
  BY <1>9 DEF Unreserve, HasRead, Nested, LocatedAt, Getting, Visiting, Giving
<1>10. CASE Help(t) \/ HelpRecheck(t) \/ HelpCas(t)
  BY <1>10 DEF Help, HelpRecheck, HelpCas
<1> QED BY <1>3, <1>4, <1>5, <1>6, <1>7, <1>8, <1>9, <1>10 DEF Act, Step

(* What a helper reads is the generation of an owner in its transaction. *)
LEMMA ReadsOwner ==
  ASSUME HelpInv, NEW t \in Threads, Act(t), Reads(t)
  PROVE  \E u \in Threads \ {t} : Runs(u, pos[t]) /\ gen[u] = ctl'[t]
<1>1. pos[t] \in Nodes /\ control[pos[t]] # IDLE /\ pc[t] # "confirm"
  BY DebtListConstants
     DEF Reads, IsGen, HelpInv, IdleInv, PosInv, TypeInv, Located, LocatedAt, InWalk
<1>2. PICK u \in Threads : node[u] = pos[t] /\ pc[u] = "confirm"
  BY <1>1 DEF HelpInv, IdleInv, Transacting
<1>3. Runs(u, pos[t])
  BY <1>2 DEF Runs, HelpInv, IdleInv, PosInv, Positioned
<1>4. gen[u] = control[pos[t]]
  BY <1>1, <1>2 DEF HelpInv, Worded, Reads
<1> QED BY <1>1, <1>2, <1>3, <1>4 DEF Reads

(* A step leaves every helper in time. *)
LEMMA InTimeStep ==
  ASSUME HelpInv, NoWrap, NEW t \in Threads, Act(t), NEW h \in Threads, HasRead(h)'
  PROVE  InTime(h)'
<1>1. Domains /\ Frame(t) /\ IdleInv /\ gen \in [Threads -> Gens]
      /\ \A u \in Threads : Homeless(u) /\ (HasRead(u) => InTime(u))
  BY TypeDomains, ActFrame DEF HelpInv, IdleInv, PosInv, TypeInv, TypeOK
<1>2. CASE Keeps(h)
  <2>1. /\ HasRead(h) /\ InTime(h) /\ pos[h] \in Nodes /\ ctl[h] \in Gens
        /\ ctl'[h] = ctl[h] /\ saw'[h] = saw[h] /\ pos'[h] = pos[h]
    BY <1>1, <1>2, HelperThere DEF Keeps
  <2>2. h \in OnNode(pos[h])
    BY <1>1, <2>1, HelperThere
  <2>3. CASE h \in early[pos[h]]
    BY <1>1, <2>1, <2>3, EarlyStays DEF InTime
  <2>4. ASSUME NEW u \in Threads, Runs(u, pos[h]), ctl[h] <= gen[u],
               txn[pos[h]] = saw[h] \/ ctl[h] < gen[u]
        PROVE  InTime(h)'
    <3>1. Continues(u, pos[h]) \/ early'[pos[h]] = OnNode(pos[h])
      BY <1>1, <2>1, <2>4, OwnerContinues, OthersContinue
    <3>2. CASE early'[pos[h]] = OnNode(pos[h])
      BY <2>1, <2>2, <3>2 DEF InTime
    <3>3. CASE Continues(u, pos[h])
      <4>1. gen[u] \in Nat /\ ctl[h] \in Nat
        BY <1>1, <2>1 DEF Gens
      <4>2. ctl[h] <= gen'[u] /\ (txn'[pos[h]] = saw[h] \/ ctl[h] < gen'[u])
        BY <2>4, <3>3, <4>1 DEF Continues
      <4> QED BY <2>1, <3>3, <4>2 DEF Continues, Runs, InTime
    <3> QED BY <3>1, <3>2, <3>3
  <2> QED BY <2>1, <2>3, <2>4 DEF InTime
<1>3. CASE h = t /\ Reads(t)
  <2>1. PICK u \in Threads \ {t} : Runs(u, pos[t]) /\ gen[u] = ctl'[t]
    BY <1>3, ReadsOwner
  <2>2. Runs(u, pos[t])' /\ gen'[u] = gen[u] /\ gen[u] \in Nat
    BY <1>1, <1>3, <2>1 DEF Runs, Nested, Frame, Reads, Gens
  <2> QED BY <1>3, <2>1, <2>2 DEF InTime, Reads, Runs
<1>4. CASE h # t
  BY <1>1, <1>2, <1>4 DEF Keeps, Frame, HasRead, Nested
<1> QED BY <1>1, <1>2, <1>3, <1>4, ReadStep

(* HelpInv is inductive under the two hypotheses. *)
LEMMA InitHelpInv == Init => HelpInv
<1> SUFFICES ASSUME Init, NEW t \in Threads PROVE Homeless(t) /\ Worded(t) /\ ~HasRead(t)
  BY InitIdleInv, InitDrainInv DEF HelpInv
<1> QED BY DEF Init, Homeless, Worded, HasRead, Nested

LEMMA NextHelpInv == HelpInv /\ NoWrap /\ NoLateRelease /\ [Next]_vars => HelpInv'
<1> SUFFICES ASSUME HelpInv, NoWrap, NoLateRelease, [Next]_vars PROVE HelpInv'
  OBVIOUS
<1>1. IdleInv' /\ DrainInv'
  BY NextIdleInv, NextDrainInv DEF HelpInv
<1>2. CASE UNCHANGED vars
  BY <1>1, <1>2
     DEF vars, shared, local, helps, life, history, HelpInv, Homeless, Worded, HasRead, InTime, Runs, Nested
<1>3. ASSUME NEW t \in Threads, Act(t), NEW u \in Threads
      PROVE  (Homeless(u) /\ Worded(u) /\ (HasRead(u) => InTime(u)))'
  <2>1. Frame(t) /\ IdleInv
    BY <1>3, TypeDomains, ActFrame DEF HelpInv, IdleInv, PosInv, TypeInv
  <2>2. Homeless(u)'
    BY <1>3, <2>1, HomelessStep DEF HelpInv, Homeless, Frame
  <2>3. Worded(u)'
    BY <1>3, <2>1, WordedStep DEF HelpInv
  <2> QED BY <1>3, <2>2, <2>3, InTimeStep
<1> QED BY <1>1, <1>2, <1>3 DEF Next, Act, HelpInv

(* As long as no generation wraps and no late exchange of check_cooldown   *)
(* meets a further cooldown, the exchange in help succeeds only on the     *)
(* transaction whose generation the helper read, also when the node has    *)
(* changed hands and its generations start from 0 again: what the cooldown *)
(* in src/debt/list.rs is for.                                             *)
THEOREM HelpIsForItsTransaction ==
  Spec /\ []NoWrap /\ []NoLateRelease => []HelpsSameTransaction
<1>1. HelpInv => HelpsSameTransaction
  <2> SUFFICES ASSUME HelpInv, NEW t \in Threads, pc[t] = "help_cas", control[pos[t]] = ctl[t]
               PROVE  txn[pos[t]] = saw[t]
    BY DEF HelpsSameTransaction
  <2>1. HasRead(t) /\ InTime(t) /\ IsGen(ctl[t]) /\ pos[t] \in Nodes
    BY DEF HelpInv, IdleInv, HasRead, PosInv, TypeInv, Located, LocatedAt, InWalk
  <2>2. PICK o \in Threads : node[o] = pos[t] /\ pc[o] = "confirm"
    BY <2>1, DebtListConstants DEF HelpInv, IdleInv, Transacting, IsGen
  <2>3. gen[o] = ctl[t] /\ gen[o] \in Nat
    BY <2>1, <2>2 DEF HelpInv, Worded, IsGen, Gens
  <2>4. in_use[pos[t]] = NODE_USED /\ \A u \in Threads : Runs(u, pos[t]) => u = o
    BY <2>1, <2>2 DEF HelpInv, IdleInv, OwnerInv, UniqueOwner, Owns, Runs
  <2>5. t \notin early[pos[t]]
    BY <2>1, <2>4 DEF HelpInv, DrainInv, CooldownDrains, NODE_USED, NODE_COOLDOWN
  <2> QED BY <2>1, <2>3, <2>4, <2>5 DEF InTime
<1> QED BY InitHelpInv, NextHelpInv, <1>1, PTL DEF Spec
=============================================================================
