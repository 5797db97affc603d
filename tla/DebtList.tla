------------------------------ MODULE DebtList ------------------------------
(***************************************************************************)
(* The global list of debt nodes (src/debt/list.rs): how threads find,     *)
(* claim, create and give up their node, how writers walk the list and     *)
(* reserve its nodes, and how the cooldown and the generations keep a slow *)
(* writer from helping a later transaction of the same node.               *)
(*                                                                         *)
(* Of a load only the transaction on the control word is kept, of a write  *)
(* only the walk with its help; module Hybrid has the rest.  One action is *)
(* one access to shared memory.                                            *)
(***************************************************************************)
EXTENDS Integers, FiniteSets

CONSTANTS
  Threads,    \* the places where threads run, one after the other
  MaxNodes,   \* bound: nodes that can be allocated
  GenMod,     \* generations before the counter wraps to 0 (2^62 or 2^30)
  Ops,        \* Ops[t]: the calls made in place t, of {"load", "write"}
  MaxCalls,   \* bound: calls made in place t, over all its threads
  MaxLives,   \* bound: threads that run in place t, one after the other
  Late,       \* places whose threads go on without thread local storage
  NONE, IDLE, REPLACEMENT   \* no node; two control words: idle, filled envelope

NODE_UNUSED == 0
NODE_USED == 1
NODE_COOLDOWN == 2

Nodes == 1..MaxNodes
NodeOrNone == Nodes \cup {NONE}

Gens == 0..(GenMod - 1)               \* control: a generation
IsGen(c) == c \in Gens

ASSUME DebtListConstants ==
  /\ IsFiniteSet(Threads) /\ MaxNodes \in Nat /\ GenMod \in Nat \ {0, 1}
  /\ Ops \in [Threads -> SUBSET {"load", "write"}]
  /\ MaxCalls \in [Threads -> Nat] /\ MaxLives \in [Threads -> Nat]
  /\ Late \subseteq Threads
  /\ NONE \notin Nodes
  /\ IDLE \notin Gens /\ REPLACEMENT \notin Gens /\ IDLE # REPLACEMENT

VARIABLES
  head, next,               \* LIST_HEAD and Node::next
  in_use, active_writers,   \* of every node
  control,                  \* the control word of its helping slots
  allocated,                \* nodes 1..allocated exist
  pc, op, node, gen,        \* of every thread; node and gen are thread-local
  cur, pos,                 \* the node at hand in Node::get, in Debt::pay_all
  tls,                      \* its thread local storage: "there" or "gone"
  outer,                    \* its node while a load it makes has one of its own
  ctl,                      \* what help read from the control word
  calls, lives,             \* calls made, threads ended in this place
  txn, saw,                 \* history: transactions on a node, the one help saw
  todo,                     \* history: nodes the walk of a writer has to visit
  early                     \* history: writers on a node since before cooldown

shared == <<head, next, in_use, active_writers, control, allocated>>
helps == <<pos, ctl>>
life == <<tls, outer, calls, lives>>
local == <<op, node, gen, cur, helps, life>>
history == <<txn, saw, todo, early>>
vars == <<shared, pc, local, history>>

Init ==
  /\ head = NONE
  /\ next = [n \in Nodes |-> NONE]
  /\ in_use = [n \in Nodes |-> NODE_USED]
  /\ active_writers = [n \in Nodes |-> 0]
  /\ control = [n \in Nodes |-> IDLE]
  /\ allocated = 0
  /\ pc = [t \in Threads |-> "idle"]
  /\ op = [t \in Threads |-> "none"]
  /\ node = [t \in Threads |-> NONE]
  /\ gen = [t \in Threads |-> 0]
  /\ cur = [t \in Threads |-> NONE]
  /\ pos = [t \in Threads |-> NONE]
  /\ tls = [t \in Threads |-> "there"]
  /\ outer = [t \in Threads |-> NONE]
  /\ ctl = [t \in Threads |-> IDLE]
  /\ calls = [t \in Threads |-> 0]
  /\ lives = [t \in Threads |-> 0]
  /\ txn = [n \in Nodes |-> 0]
  /\ saw = [t \in Threads |-> 0]
  /\ todo = [t \in Threads |-> {}]
  /\ early = [n \in Nodes |-> {}]

Goto(t, l) == pc' = [pc EXCEPT ![t] = l]
AtNode(t, n) == cur' = [cur EXCEPT ![t] = n]

(* The end of a call. *)
Finish(t) == Goto(t, "idle") /\ op' = [op EXCEPT ![t] = "none"]

(* The nodes that went into the list. *)
Published ==
  {n \in 1..allocated : \A t \in Threads : ~(pc[t] = "prepend" /\ cur[t] = n)}

----------------------------------------------------------------------------
(* LocalNode::with: the operation needs a node first. *)
Entry(o) == IF o = "load" THEN "get_debt" ELSE "walk"

Call(t, o) ==
  /\ pc[t] = "idle" /\ calls[t] < MaxCalls[t] /\ lives[t] < MaxLives[t]
  /\ o \in Ops[t]
  /\ calls' = [calls EXCEPT ![t] = @ + 1]
  /\ op' = [op EXCEPT ![t] = o]
  /\ Goto(t, IF node[t] = NONE THEN "get" ELSE Entry(o))
  /\ UNCHANGED <<shared, node, gen, cur, helps, tls, outer, lives, history>>

(* A load that a writer makes on its own while it has a temporary node.    *)
Nested(t) == outer[t] # NONE

(* The thread has the node cur[t], and goes on with what it needs it for.  *)
Take(t) ==
  /\ node' = [node EXCEPT ![t] = cur[t]]
  /\ AtNode(t, NONE)
  /\ Goto(t, IF Nested(t) THEN "get_debt" ELSE Entry(op[t]))

(* Node::get: traverse looks for a node to reuse, else makes a new one. *)
Visit(t, n) == AtNode(t, n) /\ Goto(t, IF n = NONE THEN "new_node" ELSE "check")

Get(t) ==
  /\ pc[t] = "get"
  /\ Visit(t, head)
  /\ UNCHANGED <<shared, op, node, gen, helps, life, history>>

(* Node::check_cooldown, its three accesses. *)
CheckInUse(t) ==
  /\ pc[t] = "check"
  /\ Goto(t, IF in_use[cur[t]] = NODE_COOLDOWN THEN "check_writers" ELSE "claim")
  /\ UNCHANGED <<shared, local, history>>

(* Mutant: the writers on the node are not waited for. *)
CheckWriters_Ignores(t) ==
  /\ pc[t] = "check_writers"
  /\ Goto(t, "check_release")
  /\ UNCHANGED <<shared, local, history>>

CheckWriters(t) ==
  /\ pc[t] = "check_writers"
  /\ Goto(t, IF active_writers[cur[t]] = 0 THEN "check_release" ELSE "claim")
  /\ UNCHANGED <<shared, local, history>>

(* Mutant: a store in place of the exchange. *)
CheckRelease_Stores(t) ==
  /\ pc[t] = "check_release"
  /\ in_use' = [in_use EXCEPT ![cur[t]] = NODE_UNUSED]
  /\ Goto(t, "claim")
  /\ UNCHANGED <<head, next, active_writers, control, allocated, local, history>>

CheckRelease(t) ==
  /\ pc[t] = "check_release"
  /\ in_use' = IF in_use[cur[t]] = NODE_COOLDOWN
               THEN [in_use EXCEPT ![cur[t]] = NODE_UNUSED] ELSE in_use
  /\ Goto(t, "claim")
  /\ UNCHANGED <<head, next, active_writers, control, allocated, local, history>>

Claim(t) ==
  /\ pc[t] = "claim"
  /\ \/ /\ in_use[cur[t]] = NODE_UNUSED
        /\ in_use' = [in_use EXCEPT ![cur[t]] = NODE_USED]
        /\ Take(t)
     \/ /\ in_use[cur[t]] # NODE_UNUSED
        /\ Visit(t, next[cur[t]])
        /\ UNCHANGED <<in_use, node>>
  /\ UNCHANGED <<head, next, active_writers, control, allocated,
                 op, gen, helps, life, history>>

(* A new node, in use from the start, and the first read of LIST_HEAD ... *)
NewNode(t) ==
  /\ pc[t] = "new_node" /\ allocated < MaxNodes
  /\ allocated' = allocated + 1
  /\ next' = [next EXCEPT ![allocated + 1] = head]
  /\ AtNode(t, allocated + 1)
  /\ Goto(t, "prepend")
  /\ UNCHANGED <<head, in_use, active_writers, control, op, node, gen, helps,
                 life, history>>

(* Mutant: a store in place of the exchange. *)
Prepend_Stores(t) ==
  /\ pc[t] = "prepend"
  /\ head' = cur[t]
  /\ Take(t)
  /\ UNCHANGED <<next, in_use, active_writers, control, allocated, op, gen, helps,
                 life, history>>

(* ... which compare_exchange_weak retries until it goes in. *)
Prepend(t) ==
  /\ pc[t] = "prepend"
  /\ \/ /\ head = next[cur[t]]
        /\ head' = cur[t]
        /\ Take(t)
        /\ UNCHANGED next
     \/ /\ next' = [next EXCEPT ![cur[t]] = head]
        /\ UNCHANGED <<head, node, cur, pc>>
  /\ UNCHANGED <<in_use, active_writers, control, allocated, op, gen, helps,
                 life, history>>

----------------------------------------------------------------------------
(* The transaction of a load: the user's own, or the one by which a writer *)
(* makes a replacement.                                                    *)

(* Mutant: the counter does not wrap. *)
NewHelping_Overflows(t) ==
  /\ pc[t] = "get_debt"
  /\ gen' = [gen EXCEPT ![t] = @ + 1]
  /\ control' = [control EXCEPT ![node[t]] = gen[t] + 1]
  /\ txn' = [txn EXCEPT ![node[t]] = @ + 1]
  /\ Goto(t, "confirm")
  /\ UNCHANGED <<head, next, in_use, active_writers, allocated,
                 op, node, cur, helps, life, saw, todo, early>>

(* new_helping: the next generation; when it wraps, the node is given up.  *)
NewHelping(t) ==
  LET g == (gen[t] + 1) % GenMod IN
  /\ pc[t] = "get_debt"
  /\ gen' = [gen EXCEPT ![t] = g]
  /\ control' = [control EXCEPT ![node[t]] = g]
  /\ txn' = [txn EXCEPT ![node[t]] = @ + 1]
  /\ Goto(t, IF g = 0 THEN "cool_reserve" ELSE "confirm")
  /\ UNCHANGED <<head, next, in_use, active_writers, allocated,
                 op, node, cur, helps, life, saw, todo, early>>

(* Mutant: the control word is not put back. *)
ConfirmHelping_Leaves(t) ==
  /\ pc[t] = "confirm" /\ node[t] # NONE
  /\ \/ op[t] = "load" /\ Finish(t)
     \/ op[t] = "write" /\ Goto(t, "help_cas") /\ UNCHANGED op
  /\ UNCHANGED <<shared, node, gen, cur, helps, life, history>>

(* confirm_helping ends the transaction, and a temporary node its use.     *)
(* Without a node it panics, and a writer that helps loses its reservation *)
(* as the stack unwinds.                                                   *)
ConfirmHelping(t) ==
  /\ pc[t] = "confirm" /\ node[t] # NONE
  /\ control' = [control EXCEPT ![node[t]] = IDLE]
  /\ \/ tls[t] = "gone" /\ Goto(t, "cool_reserve") /\ UNCHANGED op
     \/ tls[t] = "there" /\ op[t] = "load" /\ Finish(t)
     \/ tls[t] = "there" /\ op[t] = "write" /\ Goto(t, "help_cas") /\ UNCHANGED op
  /\ UNCHANGED <<head, next, in_use, active_writers, allocated,
                 node, gen, cur, helps, life, history>>

ConfirmPanics(t) ==
  /\ pc[t] = "confirm" /\ node[t] = NONE
  /\ Goto(t, "panic")
  /\ \/ op[t] = "load" /\ UNCHANGED <<active_writers, early>>
     \/ /\ op[t] = "write"
        /\ active_writers' = [active_writers EXCEPT ![pos[t]] = @ - 1]
        /\ early' = [early EXCEPT ![pos[t]] = @ \ {t}]
  /\ UNCHANGED <<head, next, in_use, control, allocated, local, txn, saw, todo>>

(* Node::start_cooldown, of a thread that ends or whose generation wrapped *)
(* and of a temporary node.                                                *)
CoolReserve(t) ==
  /\ pc[t] = "cool_reserve"
  /\ active_writers' = [active_writers EXCEPT ![node[t]] = @ + 1]
  /\ Goto(t, "cool_swap")
  /\ UNCHANGED <<head, next, in_use, control, allocated, local, history>>

(* The writers that are on the node at this moment. *)
OnNode(n) == {t \in Threads : pos[t] = n /\ pc[t] \notin {"reserve", "panic"}}

CoolSwap(t) ==
  /\ pc[t] = "cool_swap"
  /\ in_use' = [in_use EXCEPT ![node[t]] = NODE_COOLDOWN]
  /\ early' = [early EXCEPT ![node[t]] = OnNode(node[t])]
  /\ Goto(t, "cool_release")
  /\ UNCHANGED <<head, next, active_writers, control, allocated, local,
                 txn, saw, todo>>

(* Mutant: the reservation is kept. *)
CoolRelease_Keeps(t) ==
  /\ pc[t] = "cool_release"
  /\ node' = [node EXCEPT ![t] = NONE]
  /\ op[t] = "exit"
  /\ gen' = [gen EXCEPT ![t] = 0]
  /\ lives' = [lives EXCEPT ![t] = @ + 1]
  /\ Finish(t)
  /\ UNCHANGED <<shared, cur, helps, tls, outer, calls, history>>

(* Mutant: a thread whose generation wrapped keeps the node. *)
CoolRelease_NoTake(t) ==
  /\ pc[t] = "cool_release" /\ op[t] # "exit"
  /\ active_writers' = [active_writers EXCEPT ![node[t]] = @ - 1]
  /\ Goto(t, "confirm")
  /\ UNCHANGED <<head, next, in_use, control, allocated, local, history>>

(* A thread that ends makes place for the next one, which starts with no   *)
(* node and with generation 0, or makes further calls with temporary nodes. *)
Ends(t) ==
  /\ op[t] = "exit"
  /\ node' = [node EXCEPT ![t] = NONE]
  /\ gen' = [gen EXCEPT ![t] = 0]
  /\ \/ t \in Late /\ tls' = [tls EXCEPT ![t] = "gone"] /\ UNCHANGED lives
     \/ t \notin Late /\ lives' = [lives EXCEPT ![t] = @ + 1] /\ UNCHANGED tls
  /\ Finish(t)
  /\ UNCHANGED outer

(* Mutant: the writer goes on with the node of the load it made. *)
DropsTmp_KeepsInner(t) ==
  /\ tls[t] = "gone"
  /\ outer' = [outer EXCEPT ![t] = NONE]
  /\ gen' = [gen EXCEPT ![t] = 0]
  /\ \/ Nested(t) /\ Goto(t, "help_cas") /\ UNCHANGED <<op, node>>
     \/ ~Nested(t) /\ Finish(t) /\ node' = [node EXCEPT ![t] = NONE]
  /\ UNCHANGED <<tls, lives>>

(* A temporary node was used just once, with generations of its own. *)
DropsTmp(t) ==
  /\ tls[t] = "gone"
  /\ node' = [node EXCEPT ![t] = outer[t]]
  /\ outer' = [outer EXCEPT ![t] = NONE]
  /\ gen' = [gen EXCEPT ![t] = 0]
  /\ IF Nested(t) THEN Goto(t, "help_cas") /\ UNCHANGED op ELSE Finish(t)
  /\ UNCHANGED <<tls, lives>>

(* The generation wrapped: LocalNode::new_helping takes the node. *)
Discards(t) ==
  /\ tls[t] = "there" /\ op[t] # "exit"
  /\ node' = [node EXCEPT ![t] = NONE]
  /\ Goto(t, "confirm")
  /\ UNCHANGED <<gen, op, tls, outer, lives>>

(* The drop of the reservation, and what the cooldown was for. *)
CoolRelease(t) ==
  /\ pc[t] = "cool_release"
  /\ active_writers' = [active_writers EXCEPT ![node[t]] = @ - 1]
  /\ Ends(t) \/ DropsTmp(t) \/ Discards(t)
  /\ UNCHANGED <<head, next, in_use, control, allocated, cur, helps, calls, history>>

(* The end of a thread: LocalNode::drop. *)
Exit(t) ==
  /\ pc[t] = "idle" /\ lives[t] < MaxLives[t] /\ node[t] # NONE
  /\ op' = [op EXCEPT ![t] = "exit"]
  /\ Goto(t, "cool_reserve")
  /\ UNCHANGED <<shared, node, gen, cur, helps, life, history>>

(* The end of a thread whose storage is gone: there is no node to give up. *)
LateEnd(t) ==
  /\ pc[t] = "idle" /\ tls[t] = "gone"
  /\ tls' = [tls EXCEPT ![t] = "there"]
  /\ lives' = [lives EXCEPT ![t] = @ + 1]
  /\ UNCHANGED <<shared, pc, op, node, gen, cur, helps, outer, calls, history>>

----------------------------------------------------------------------------
(* Debt::pay_all: the walk of a writer. *)

Walk(t) ==
  /\ pc[t] = "walk"
  /\ pos' = [pos EXCEPT ![t] = head]
  /\ todo' = [todo EXCEPT ![t] = Published]
  /\ Goto(t, "reserve")
  /\ UNCHANGED <<shared, op, node, gen, cur, ctl, life, txn, saw, early>>

Reserve(t) ==
  /\ pc[t] = "reserve"
  /\ active_writers' = [active_writers EXCEPT ![pos[t]] = @ + 1]
  /\ Goto(t, "help")
  /\ UNCHANGED <<head, next, in_use, control, allocated, local, history>>

(* The replacement is the result of a load of our own, which takes the     *)
(* thread's node or, when there is no thread local storage, a second one.  *)
Replacement(t) ==
  \/ tls[t] = "there" /\ Goto(t, "get_debt") /\ UNCHANGED <<node, outer>>
  \/ /\ tls[t] = "gone"
     /\ outer' = [outer EXCEPT ![t] = node[t]]
     /\ node' = [node EXCEPT ![t] = NONE]
     /\ Goto(t, "get")

(* The head of help's loop, with c in the variable control: a reader that  *)
(* loads from our container gets a replacement, a reader of another one is *)
(* looked at again.                                                        *)
HelpLoop(t, c) ==
  \/ /\ IsGen(c)
     /\ ctl' = [ctl EXCEPT ![t] = c]
     /\ saw' = [saw EXCEPT ![t] = txn[pos[t]]]
     /\ \/ Replacement(t)
        \/ Goto(t, "help_recheck") /\ UNCHANGED <<node, outer>>
  \/ /\ ~IsGen(c)
     /\ ctl' = [ctl EXCEPT ![t] = IDLE]
     /\ saw' = [saw EXCEPT ![t] = 0]
     /\ Goto(t, "unreserve")
     /\ UNCHANGED <<node, outer>>

Help(t) ==
  /\ pc[t] = "help"
  /\ HelpLoop(t, control[pos[t]])
  /\ UNCHANGED <<shared, op, gen, cur, pos, tls, calls, lives, txn, todo, early>>

HelpRecheck(t) ==
  /\ pc[t] = "help_recheck"
  /\ HelpLoop(t, IF control[pos[t]] = ctl[t] THEN IDLE ELSE control[pos[t]])
  /\ UNCHANGED <<shared, op, gen, cur, pos, tls, calls, lives, txn, todo, early>>

HelpCas(t) ==
  /\ pc[t] = "help_cas"
  /\ \/ /\ control[pos[t]] = ctl[t]
        /\ control' = [control EXCEPT ![pos[t]] = REPLACEMENT]
        /\ ctl' = [ctl EXCEPT ![t] = IDLE]
        /\ saw' = [saw EXCEPT ![t] = 0]
        /\ Goto(t, "unreserve")
        /\ UNCHANGED <<node, outer>>
     \/ /\ control[pos[t]] # ctl[t]
        /\ HelpLoop(t, control[pos[t]])
        /\ UNCHANGED control
  /\ UNCHANGED <<head, next, in_use, active_writers, allocated, op, gen, cur,
                 pos, tls, calls, lives, txn, todo, early>>

(* The drop of the reservation, and the next node of the walk; a temporary *)
(* node ends with the call.                                                *)
Unreserve(t) ==
  /\ pc[t] = "unreserve"
  /\ active_writers' = [active_writers EXCEPT ![pos[t]] = @ - 1]
  /\ early' = [early EXCEPT ![pos[t]] = @ \ {t}]
  /\ todo' = [todo EXCEPT ![t] = @ \ {pos[t]}]
  /\ pos' = [pos EXCEPT ![t] = next[pos[t]]]
  /\ \/ next[pos[t]] # NONE /\ Goto(t, "reserve") /\ UNCHANGED op
     \/ next[pos[t]] = NONE /\ tls[t] = "there" /\ Finish(t)
     \/ next[pos[t]] = NONE /\ tls[t] = "gone" /\ Goto(t, "cool_reserve") /\ UNCHANGED op
  /\ UNCHANGED <<head, next, in_use, control, allocated, node, gen, cur, ctl,
                 life, txn, saw>>

----------------------------------------------------------------------------
Step(t) ==
  \/ Get(t) \/ CheckInUse(t) \/ CheckWriters(t) \/ CheckRelease(t)
  \/ Claim(t) \/ NewNode(t) \/ Prepend(t)
  \/ NewHelping(t) \/ ConfirmHelping(t) \/ ConfirmPanics(t)
  \/ CoolReserve(t) \/ CoolSwap(t) \/ CoolRelease(t)
  \/ Walk(t) \/ Reserve(t) \/ Help(t) \/ HelpRecheck(t) \/ HelpCas(t)
  \/ Unreserve(t)

Next == \E t \in Threads : (\E o \in Ops[t] : Call(t, o)) \/ Exit(t) \/ LateEnd(t) \/ Step(t)

Spec == Init /\ [][Next]_vars

----------------------------------------------------------------------------
(* Properties. *)

PCs == {"idle", "get", "check", "check_writers", "check_release", "claim",
        "new_node", "prepend", "get_debt", "confirm", "cool_reserve",
        "cool_swap", "cool_release", "walk", "reserve", "help",
        "help_recheck", "help_cas", "unreserve", "panic"}

(* Type invariant of the list and of the threads that use it. *)
TypeOK ==
  /\ head \in NodeOrNone
  /\ next \in [Nodes -> NodeOrNone]
  /\ in_use \in [Nodes -> {NODE_UNUSED, NODE_USED, NODE_COOLDOWN}]
  /\ active_writers \in [Nodes -> Int]
  /\ control \in [Nodes -> Gens \cup {IDLE, REPLACEMENT}]
  /\ allocated \in 0..MaxNodes
  /\ pc \in [Threads -> PCs]
  /\ op \in [Threads -> {"none", "load", "write", "exit"}]
  /\ node \in [Threads -> NodeOrNone]
  /\ gen \in [Threads -> Gens]
  /\ cur \in [Threads -> NodeOrNone]
  /\ pos \in [Threads -> NodeOrNone]
  /\ tls \in [Threads -> {"there", "gone"}]
  /\ outer \in [Threads -> NodeOrNone]
  /\ ctl \in [Threads -> Gens \cup {IDLE, REPLACEMENT}]
  /\ calls \in [Threads -> Nat] /\ lives \in [Threads -> Nat]
  /\ txn \in [Nodes -> Nat] /\ saw \in [Threads -> Nat]
  /\ todo \in [Threads -> SUBSET Nodes]
  /\ early \in [Nodes -> SUBSET Threads]

(* Thread t may write to the slots of node n. *)
Owns(t, n) == (node[t] = n /\ pc[t] # "cool_release") \/ outer[t] = n

(* A node in the hands of a thread is marked as used and no other thread   *)
(* has it: what every debug_assert on in_use in LocalNode relies on.  A    *)
(* thread without local storage that has two nodes has two different ones. *)
UniqueOwner ==
  \A n \in Nodes, t \in Threads : Owns(t, n) =>
    /\ in_use[n] = NODE_USED
    /\ node[t] # outer[t]
    /\ \A u \in Threads : Owns(u, n) => u = t

(* active_writers counts the writers on the node and the thread that puts  *)
(* it into cooldown: no reservation is lost or dropped twice.              *)
ReservationCount ==
  \A n \in Nodes : active_writers[n] =
    Cardinality(OnNode(n)) +
    Cardinality({t \in Threads : node[t] = n /\ pc[t] \in {"cool_swap", "cool_release"}})

(* A walk visits every node that was in the list when it started, so that  *)
(* no debt is missed (Node::traverse against the prepend in Node::get).    *)
WalkComplete == \A t \in Threads : pc[t] = "idle" => todo[t] = {}

(* A node leaves its cooldown only when all writers that were on it when   *)
(* the cooldown started have left it (check_cooldown: "the 0 we observe    *)
(* happened some time after start_cooldown").                              *)
CooldownDrains ==
  \A n \in Nodes : in_use[n] # NODE_COOLDOWN => early[n] = {}

(* help's compare_exchange cannot succeed on a later transaction of the    *)
(* node than the one whose generation it read, also when the node has got  *)
(* a new owner who counts its generations from 0 again.                    *)
HelpsSameTransaction ==
  \A t \in Threads :
    pc[t] = "help_cas" /\ control[pos[t]] = ctl[t] => txn[pos[t]] = saw[t]

(* A thread starts its transactions on an idle control word, also on a     *)
(* node that it took over ("Left control in wrong state").                 *)
StartsIdle ==
  \A t \in Threads : pc[t] = "get_debt" => control[node[t]] = IDLE

(* LocalNode::with ensures that the node is set: no call ends in a panic.  *)
NoPanic == \A t \in Threads : pc[t] # "panic"
=============================================================================
