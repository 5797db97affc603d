# A TLA+ model of arc-swap

`arc-swap` is a Rust library (version 1.9.2, `src/`) that provides `ArcSwapAny`: a
container of an `Arc` that many threads read and replace at the same time.  Reading is
meant to be wait-free and to touch no shared counter.  The price is the protocol under
`src/debt` and `src/strategy/hybrid.rs`, which is what this project is about: a reader
that takes a pointer without counting it writes a *debt* into a slot of its own, and a
writer that takes a pointer out of a container first *pays* all debts on it.

All paths below are relative to the root of the repository, so the library's own code
is in `src/` (`PROJECT.json` names the same files with one more `src/` in front).

## Inventory

### Components

| Component | Source | State | Operations |
| --- | --- | --- | --- |
| `ArcSwapAny`, `Guard` | `src/lib.rs` | `ptr`: one atomic pointer per container | `new`, `load`, `load_full`, `store`, `swap`, `compare_and_swap`, `rcu`, `into_inner`, drop; drop and `into_inner` of a guard |
| `HybridStrategy`, `HybridProtection` | `src/strategy/hybrid.rs` | a guard: pointer and optional debt | `attempt`, `fallback`, `wait_for_readers`, `compare_and_swap` |
| debts | `src/debt/mod.rs` | `Debt`: an atomic word, the pointer owed or `NONE` | `pay`, `pay_all` |
| fast slots | `src/debt/fast.rs` | 8 debts and a rotating offset per node | `get_debt` |
| helping slots | `src/debt/helping.rs` | per node: one debt, `control`, `active_addr`, `space_offer`, one `Handover` | `get_debt`, `help`, `confirm` |
| debt list | `src/debt/list.rs` | `LIST_HEAD`; per node `in_use`, `active_writers`, `next`; per thread its node and generation | `Node::get`, `traverse`, `start_cooldown`, `check_cooldown`, `reserve_writer`, `LocalNode::with`, `new_fast`, `new_helping`, `confirm_helping`, thread exit |
| `RefCnt` | `src/ref_cnt.rs`, `src/as_raw.rs`, `src/weak.rs` | the strong count (outside of the crate) | `inc`, `dec`, `into_ptr`, `from_ptr` |
| RwLock strategy | `src/strategy/rw_lock.rs` | a lock beside the pointer, per container | `load`, `wait_for_readers`, `compare_and_swap` |
| `Cache`, `MapCache` | `src/cache.rs` | a cached `Arc` | `load`, `revalidate` |
| `Access`, `DynAccess`, `Map`, `Constant` | `src/access.rs` | none | projections of a guard |
| serde support | `src/serde.rs` | none | one load, one construction |

### How they interact

`load` runs `LocalNode::with`, which finds the thread's node (or claims or creates one),
and then `HybridStrategy::load`.  `attempt` reads the container, puts the pointer into a
free fast slot and reads the container again; when the pointer changed in between and
the debt is still there, or when no fast slot is free, `fallback` runs a transaction on
the helping slot: publish the address of the container, publish a generation in
`control`, read the container, put the debt, take the generation back.

Every operation that takes a pointer out of a container ends in `Debt::pay_all`: it
walks all nodes, reserves each one, first helps its reader - when `control` holds a
generation and `active_addr` is our container, it makes a replacement *by a load of its
own* and hands it over in an envelope - and then pays every slot that owes the old
pointer with a reference it pre-paid.

Nodes are shared over time: a thread that ends puts its node into cooldown, and another
thread may claim it when no writer is on it any more.  A thread that makes calls after
its thread local storage is gone claims a node for each call and gives it up again at
its end; the load by which a writer helps is a call of its own, so such a writer has two.

With the RwLock strategy a load reads and counts under the read lock, a swap exchanges
without a lock and then takes the write lock once, and `compare_and_swap` runs under it.

`rcu` is a loop over `load` and `compare_and_swap`.  A `Cache` owns a reference and
compares its address with the container's at every load.  An `Access` is a chain of
adaptors (pointers, `DynAccess`, `AccessConvert`, `Map`) around a container or a
`Constant`; its guard is a chain of guards around the container's.

### What is hard here

* readers, helpers and payers interleave on five atomics per node plus the container;
* a pointer that was read can be freed, and its address reused, before the debt is in;
* a debt may be paid by anybody, at any time, by somebody who cares for another
  container, and the owner finds out only when it wants to return it;
* guards move between threads, outlive their containers, and are dropped by others;
* a helper may be delayed for so long that the reader is in another transaction, on
  another container, or that the node belongs to another thread;
* a writer that helps is itself a reader that others help: helps nest and chase each other;
* the generation counter wraps, fast slots run out, the thread-local node disappears;
* under the RwLock strategy a swap replaces a pointer that a reader has read and not yet
  counted;
* `rcu` and `Cache` compare addresses, and addresses come back.

`PROJECT.json` lists these, one by one and each at its line, under `hazards`.

### What makes it correct

* **Containers and guards**: every reference is counted or owed exactly once
  (`Conservation`); nobody who may use a pointer ever sees freed memory (`NoDangling`);
  a load returns what the container held at a moment during the load (`LoadFresh`).
* **Helping slots**: envelopes have one owner (`EnvelopeExclusive`); the assertions
  in the code hold (`AssertsHold`); a help never reaches another transaction
  (`HelpsSameTransaction`).
* **Debt list**: a node has one owner (`UniqueOwner`), reservations are counted
  (`ReservationCount`), a walk misses no node (`WalkComplete`), a cooldown outlasts the
  writers it waits for (`CooldownDrains`), a node is handed over in a clean state
  (`StartsIdle`).
* **Progress**: readers are wait-free (`ReadersWaitFree`), writers wait for nobody
  (`WritersFinishAlone`).
* **RwLock strategy**: it implements the abstract container (`Implements`), makes only
  values that their type has (`TypeOK`), and its calls return (`CallsReturn`).
* **rcu**: an update goes in exactly once, computed from the value it replaces
  (`RcuOnce`); an attempt fails only if somebody else changed the container
  (`RcuLockFree`).
* **Cache and Access**: a cache never shows what the container did not hold during the
  load (`CacheFresh`); a guard shows the selected part of one object for all its life
  (`GuardStable`).

## The modules

| Module | Contents |
| --- | --- |
| `Hybrid` | containers, reference counts, debts, helping slots and the threads that run all calls of `ArcSwapAny` and `Guard` |
| `MCHybrid` | which thread makes which calls, per run |
| `Counting` | three lemmas on cardinalities, for the proofs that count references and reservations |
| `HybridProofs` | type correctness of `Hybrid` |
| `HybridProtocol` | the helping protocol: the assertions hold, an envelope has one owner |
| `HybridCounts` | every reference is counted or owed exactly once |
| `HybridAlive` | nobody holds freed memory; loads are fresh |
| `DebtList` | the list of nodes, ownership, cooldown, reservations, generations |
| `MCDebtList` | which thread makes which calls, per run |
| `DebtListProofs` | type correctness of `DebtList`; unique owners, exact reservations, complete walks, idle control words, cooldowns that drain, helps in time |
| `Container` | the abstract specification: what a strategy promises to `ArcSwapAny` and that to its users |
| `SmartPtr` | `RefCnt` and `AsRaw`: the types of pointers, to raw pointers and back |
| `RwLock` | one `ArcSwapAny` with the RwLock strategy, over `SmartPtr`; implements `Container` |
| `RwLockProofs` | type correctness of `RwLock`, and that it implements `Container` |
| `MCRwLock` | the types and the calls of its run |
| `Access` | accesses and their guards as sequences of adaptors; load and deref as folds |
| `Clients` | `rcu`, `store`, `Cache`, accesses, `Debug` and `Serialize` on one container; extends `Container` and `Access` |
| `ClientsProofs` | `rcu` updates once and is lock-free, caches are fresh, guards are stable |
| `MCClients` | the calls and the accesses of its run |

`Container` is the joint between the two halves: `RwLock` is shown to implement it, and
`Clients` takes its steps from it, so what holds of the clients holds of them on top of
the RwLock strategy.  For `Hybrid` the same promise is stated directly, by `LoadFresh`,
`Conservation` and `NoDangling`, because the finding `hybrid_reuse` is just that the
code does not keep it when several containers share the addresses.  With one container
all three are theorems; `Clients` on top of the default strategy is a statement about
runs in which containers do not meet in this way.

### `Hybrid`

One action is one access to shared memory.  The code uses `SeqCst` for all of these but
the search for a free fast slot (`src/debt/fast.rs:54`, only the owner fills them) and
the failure of an exchange; the model is sequentially consistent, see *Not modelled*.  What a thread does with its own
variables between two accesses belongs to the first one.

Shared state: `ptr[s]` is the pointer in container `s` (`NONE`: there is none),
`cnt[p]` the strong count of the object at address `p`.  `debt[n][1..DEBT_SLOT_CNT]`
are the fast slots of node `n`, `debt[n][HELPING]` its helping slot; `control`,
`active_addr`, `space_offer` are the fields of `helping::Slots`, and `handover[e]` the
word in envelope `e`.  The control word's tag and payload are a record: `IDLE`, `Gen(g)`
or `Replacement(e)`.  Addresses are model values that are allocated again as soon as the
count is zero, so every reuse of memory that an allocator could choose is tried.

A thread's stack is `pc`, `call`, and the variables of the load (`val`, `dref`, `gen`,
`env`, `repl`) and of the writer (`old`, `new`, `node`, `i`, `ctl`, `held`).  A load
inside of a write uses the same actions; `ret` says where it returns to: to the user, to
`compare_and_swap`, or to `help`.

| Code | Actions |
| --- | --- |
| `HybridProtection::attempt` | `AttemptLoad`, `NewFast`, `AttemptConfirm`, `AttemptPay` |
| `HybridProtection::fallback`, `helping::get_debt`, `confirm` | `GetDebtAddr`, `GetDebtControl`, `Candidate`, `ConfirmSlot`, `ConfirmControl`, `ConfirmEnvelope`, `ConfirmOffer`, `UnusedPay`, `UnusedDec` |
| `HybridProtection::into_inner` | `InnerInc`, `InnerPay`, `InnerDec` |
| `HybridProtection::drop` | `DropPay`, `DropDec` |
| `ArcSwapAny::swap`, `HybridStrategy::compare_and_swap` | `Swap`, `CasCheck`, `CasExchange`, `CasDropNew` |
| `Debt::pay_all` | `PayInc`, `PaySlot`, `PayMore`, `PayDrop`, `Release` |
| `helping::Slots::help` | `HelpControl`, `HelpAddr`, `HelpRecheck`, `HelpTheir`, `HelpStore`, `HelpCas`, `HelpTook`, `HelpDrop` |
| the user's calls | `CallLoad`, `CallSwap`, `CallCas`, `CallNew`, `CallDrop`, `CallGuardDrop`, `CallGuardIntoInner` |

Abstractions.  The search for a free fast slot is one step: only the owner of the node
fills its slots, so a slot found free stays free, and the rotating offset only chooses
between the free ones.  Thread `t` owns node `t` for the whole behaviour; what that
rests on is the subject of `DebtList`.  `compare_exchange_weak` may fail for no reason.
`None` and dangling `Weak`s are `Null`, which has no count.  `seen` is a history
variable: the objects that the container of a running load held since the load began.
It forgets an object that is freed, so an address that was reused counts as new only
when it was stored again.

### `DebtList`

Nodes are numbers in order of allocation, `head` and `next` the list, `in_use` and
`active_writers` as in `Node`.  Of a load only the transaction on the control word is
kept, of a write only the walk with its help, so that threads can come and go.  A place
in `Threads` runs several threads one after the other, each starting without a node and
with generation 0.  Whether the reader at hand loads from the writer's container is a
free choice.

A thread in a place of `Late` goes on after its node was dropped (`tls` is "gone").
Each of its calls gets a node, and gives it up when it is done (`DropsTmp`).  The load
that makes a replacement runs `LocalNode::with` again (`Replacement`): the node of the
write waits in `outer` while the load has its own in `node`, and comes back when that
one has been put into cooldown.  The generations of each of these nodes start from 0.

| Code | Actions |
| --- | --- |
| `LocalNode::with`, `Node::get`, `traverse` | `Call`, `Get`, `CheckInUse`, `CheckWriters`, `CheckRelease`, `Claim`, `NewNode`, `Prepend` |
| `new_helping`, `confirm_helping` | `NewHelping`, `ConfirmHelping`, `ConfirmPanics` |
| `start_cooldown`, thread exit | `CoolReserve`, `CoolSwap`, `CoolRelease` (`Ends`, `DropsTmp`, `Discards`), `Exit`, `LateEnd` |
| `Debt::pay_all`, `NodeReservation`, `help` | `Walk`, `Reserve`, `Help`, `HelpRecheck`, `HelpCas`, `Unreserve` |

History variables: `txn` numbers the transactions of a node, `saw` is the one whose
generation a helper read, `todo` the nodes a walk still has to visit, `early` the
writers that were on a node when its cooldown began.

### `Container`

The state is the pointer in the container (`ptr`), what each place outside of it holds
(`hold`, a place is a variable of a thread), the addresses with an object (`live`), and
for every thread its unfinished load or `compare_and_swap` (`call`) with what it may
return (`window`).  `Becomes` is the promise: an object lives as long as the container or
a place refers to it, and no longer; a load returns what the container held since the
load began, if that is still alive.  Each operation is one step.

### `RwLock` and the refinement

One action is one access to the lock, the pointer or a count.  The lock is external,
`std::sync::RwLock`, modelled by who may hold it together.  Values are those of module
`SmartPtr`: `Full(p)` owns a count of the object at `p`, `Empty` is `Weak::new()`, `None`
is `None`.  `FromPtr` depends on the type of the container, which is chosen at the start,
so one run goes through all of them.  A container of a type that is not `Sync` (`Rc`) is
used by one thread.

`Implements` is `Container!Spec` under the mapping `hold <- Held` (the argument and the
result of each thread, as addresses), `live <- Alive` (the addresses with a count above
zero), `window <- seen`, `call <- Promised` (a call counts as unfinished until its read
or exchange).  So `Read` is the abstract `Load`, although the count follows later:
`live` must not change in between, which is what waiting for the readers is for.

| Code | Actions |
| --- | --- |
| `load` | `ReadLock`, `Read`, `ReadInc`, `ReadUnlock` |
| `ArcSwapAny::swap`, `wait_for_readers` | `Swap`, `WaitLock`, `WaitUnlock`, `Release` |
| `compare_and_swap` | `CasLock`, `CasExchange`, `CasInc`, `CasDropNew`, `CasUnlock` |
| the user's calls | `Argument`, `CallNew`, `CallLoad`, `CallSwap`, `CallCas`, `CallDrop`, `GuardDrop` |

### `Access` and `Clients`

An access is what is innermost (a container whose guard is looked through as it is or by
`DirectDeref`, or a constant) and its layers.  `AccessLoad` folds the layers into the
layers of the guard, `Deref` folds what one sees from the inside out, and `Part` says
independently of both what should be seen.  A configuration is an object with parts
that have parts, so that projections applied in the wrong order show.

In `Clients` every action is one step of `Container` or a private one.  `obj` is what is
in the object at an address, rewritten when the address is used again.  The closure of
`rcu` adds one.  History: `log` holds the exchanges of the running `rcu`, `since` what the
container held since a thread's call began, `credit` how often it changed since an `rcu`
began, less that `rcu`'s failed exchanges.

| Code | Actions |
| --- | --- |
| `ArcSwapAny::rcu` | `Rcu`, `RcuLoad`, `RcuF`, `RcuBegin`, `RcuCas`, `RcuDropNew`, `RcuCheck`, `RcuDone` |
| `ArcSwapAny::store` | `Store`, `StoreSwap`, `StoreDrop` |
| `Cache`, `MapCache` | `CacheNew`, `CacheLoad`, `Revalidate`, `Refill`, `CacheFill`, `CacheAssign`, `CacheUse`, `CacheDrop` |
| `Access`, `Debug`, `Serialize` | `AccessBegin`, `Fmt`, `Serialize`, `AccessGuard`, `AccessDrop` |

## The runs

All runs use the specification as it is; a configuration only gives constants a value.
Deadlock is not checked, because the bounded number of calls comes to an end.

| Run | Instance | Checks |
| --- | --- | --- |
| `hybrid_help` | 3 threads, 2 containers, 4 addresses, no fast slot; a load, two stores | `TypeOK`, `Conservation`, `NoDangling`, `EnvelopeExclusive`, `LoadFresh` |
| `hybrid_fast` | 2 threads, 1 fast slot; 3 loads, drops, conversions against 3 stores, drops of sent guards, and the creation and end of the container | `Conservation`, `NoDangling`, `LoadFresh` |
| `hybrid_cas` | 2 threads, 2 `compare_and_swap`s each, swaps, `None` | `Conservation`, `NoDangling`, `LoadFresh` |
| `hybrid_live` | 2 threads, 1 container; 3 loads and stores against a store; no symmetry | `AssertsHold`, `LoadFresh`, `ReadersWaitFree`, `WritersFinishAlone` |
| `hybrid_reuse` | as `hybrid_help` with a fast slot and one more store | violates `LoadFresh` |
| `hybrid_livelock` | as `hybrid_live` with 2 loads and stores, default strategy with all fast slots taken | violates `WritersFinish` |
| `list_once` | 3 threads that end, 3 nodes | `UniqueOwner`, `WalkComplete`, `CooldownDrains`, `HelpsSameTransaction`, `StartsIdle` |
| `list_wrap` | 2 places, 4 nodes, the generation wraps after 2, calls after the storage is gone | `TypeOK`, `UniqueOwner`, `ReservationCount` |
| `list_aba` | as `list_once`, each reader's place runs two threads | violates `HelpsSameTransaction` |
| `list_panic` | as `list_wrap`, without calls after the storage is gone | violates `NoPanic` |
| `rwlock` | 3 threads, 2 addresses, 7 types of pointer, one call each | `TypeOK`, `Implements`, `CallsReturn` |
| `clients` | 2 threads, 5 addresses; an `rcu`, access, `Debug` or `Serialize` against 4 of `rcu`, `store`, `Cache` loads | `RcuOnce`, `RcuLockFree`, `CacheFresh`, `GuardStable` |

Why the bounds are enough for the interesting cases.  The protocol is about a reader, a
writer that interferes with it, and a second writer that interferes with that one while
it helps: `hybrid_help` has all three, and since the walk goes from the newest node to
the oldest, the third thread meets the second in the middle of its nested load.  With
two containers a helper can be in the wrong one.  No fast slots (`Config::USE_FAST` is
false, the strategy of `src/strategy/test_strategies.rs`) is the shortest way into the
helping slot; one fast slot (`hybrid_fast`, `hybrid_cas`) is the smallest number with
which a load can both use it and run out of it.  Three addresses for one container are
the current object, the one that is being replaced and one to reuse.  Each passing
property is broken by at least one plausible mistake in the code, listed under
`mutants` in `PROJECT.json` and written next to the action it changes.

`GenMod` is the number of generations before the counter wraps.  In runs that cannot
retry without end it is 0 (never).  A retry takes a new generation, so runs with endless
retries need a counter that comes round; they use 4.  In `hybrid_live` the few calls cannot take a delayed helper all the way round; in `hybrid_cas` the
spurious failures of `compare_exchange_weak` can, and the properties hold nevertheless.
What the code does at a real wrap, after 2^62 transactions, is in `DebtList`.

`rwlock`: the protocol has three parties, a reader between its read and its count, a
swap, and a `compare_and_swap` that holds the write lock; with two addresses one is
free to be reused.  `Option<Arc>` is not among the types, since it differs from `Weak`
in nothing but the name of the value without an object.  `clients`: four calls against
an `rcu` are a store, a store back of the cached object, a load of the cache and one
more; five addresses are the container's, the two of the `rcu`, the cache's and a free
one, so that an address can be freed and reused at every point.

Symmetry: addresses, handles and containers are interchangeable, threads are not (their order is
that of the list).  It is not used for the liveness runs.

### Fairness

`ReadersWaitFree` assumes weak fairness of the steps of the reader alone; all other
threads may stop anywhere, for ever.  `WritersFinishAlone` assumes that from some moment
on only the writer takes steps, which is what "never waits for another thread" means.
`FairSpec`, used for `hybrid_livelock`, has weak fairness for each thread: every thread
that is in a call is scheduled again and again.  No call on a hybrid container blocks, so an
operating system that runs all its threads provides this; no fairness is assumed of the
user's decision to make a call, nor of any particular branch.

`RwLock!Spec` has weak fairness of the steps of each thread.  A thread that waits for
the lock is enabled only while it is free, so this says that a lock that stays free is
given to somebody, and `CallsReturn` is that nobody keeps it and nobody waits in a
circle.  With the bounded number of calls the competitors come to an end; whether a
stream of readers that never ends lets a writer in is a matter of `std::sync::RwLock`.
`Clients` assumes no fairness: lock-freedom of `rcu` is the safety property
`RcuLockFree`, a failure for every change by others at most.

## What is proved

`TLAPS` proves the theorems below, for every number of threads, slots, nodes,
containers, addresses, types and calls, from the named assumptions on the constants
(`ConstantsOK`, `DebtListConstants`, `RwLockConstants`, `ContainerConstants`,
`ClientConstants`: the constants have their types, the sets that are counted are finite,
and the marker values are not among the values they mark).  Each safety theorem rests on
an inductive invariant, which TLC checked on the instances of the runs before it was
proved.

| Theorem | States | Inductive invariant | Further hypothesis |
| --- | --- | --- | --- |
| `HybridProofs!TypeCorrect` | `TypeOK` | `TypeInv` | |
| `HybridProtocol!AssertionsHold` | `AssertsHold` | `OwnInv` | |
| `HybridProtocol!EnvelopesExclusive` | `EnvelopeExclusive` | `EnvInv` | `GenMod = 0` |
| `HybridCounts!ReferencesConserved` | `Conservation` | `BooksInv`, `Balanced` | `GenMod = 0` |
| `HybridAlive!NoDanglingReferences` | `NoDangling` | `AliveInv` | `GenMod = 0` |
| `HybridAlive!LoadsAreFresh` | `LoadFresh` | `FreshInv` | `GenMod = 0`; one container, or no fast slots |
| `DebtListProofs!TypeCorrect` | `TypeOK` | `TypeInv` | |
| `DebtListProofs!OwnerUnique` | `UniqueOwner` | `OwnerInv` | |
| `DebtListProofs!ReservationsCounted` | `ReservationCount` | `ReservationInv` | |
| `DebtListProofs!WalksComplete` | `WalkComplete` | `WalkInv` | |
| `DebtListProofs!TransactionsStartIdle` | `StartsIdle` | `IdleInv` | `[]NoWrap` |
| `DebtListProofs!CooldownsDrain` | `CooldownDrains` | `DrainInv` | `[]NoLateRelease` |
| `DebtListProofs!HelpIsForItsTransaction` | `HelpsSameTransaction` | `HelpInv` | `[]NoWrap`, `[]NoLateRelease` |
| `RwLockProofs!TypeCorrect` | `TypeOK` | `RwInv` | |
| `RwLockProofs!RwLockImplements` | `Implements` | `RwInv` | |
| `ClientsProofs!RcuUpdatesOnce` | `RcuOnce` | `ClientInv` | |
| `ClientsProofs!RcuIsLockFree` | `RcuLockFree` | `ClientInv` | |
| `ClientsProofs!CachesAreFresh` | `CacheFresh` | `ClientInv` | |
| `ClientsProofs!GuardsAreStable` | `GuardStable` | `ClientInv` | the folds of `Access` agree |

`GenMod = 0` says that generations do not repeat, and `NoWrap` the same of `DebtList`:
no counter comes to its last value.  The counter has 62 bits (30 on 32-bit targets);
what happens at the wrap is the matter of `list_panic` and `list_wrap`.  `NoLateRelease`
says that nobody puts a node into cooldown while another thread stands before the
exchange by which it means to end an earlier cooldown of that node: the race of
`list_aba` and nothing more.  The hypothesis of `LoadsAreFresh` excludes `hybrid_reuse`.

### The hybrid strategy

The theorems build on each other.

* `TypeInv`.  `TypeOK` is not inductive: a step that follows a pointer (the node of a
  walk, the envelope in a replaced control word, the container of a call) needs it to be
  there.  `Located` adds, per thread, `Housed` (only the calls on a guard have no
  container, and those never enter a load or a write), `Walking` (a writer that helps or
  pays is at a node, also during the load it makes for a replacement), `Published` (in a
  transaction the control word is the thread's own generation or a replacement: the
  `unreachable` arm of `confirm`) and `Equipped` (an envelope and the guard of
  `compare_and_swap` are at hand where they are used).  `Undisturbed` is the frame: a step
  of `t` changes of another thread's part nothing but its control word, and that only from
  a generation to a replacement.
* `OwnInv` adds what belongs to a thread alone: outside its transactions its control word
  is idle (`Quiet`), it never helps itself and never works on an idle word (`Foreign`), and
  its helping slot, when in use, has the pointer that it is confirming (`SlotInUse`).
  The assertions follow.
* `EnvInv` adds two facts about a helper, which may be delayed for any time: the
  generation it has read is not one that its reader has still to publish (`Past`), and if
  the reader's control word is still the one it read, the envelope it was offered is still
  the reader's (`Offered`).  `Past` is where generations must not repeat.
* `BooksInv` says that a variable which is about to be overwritten holds no reference, and
  that a replacement on its way is in its envelope.  With it every step changes the
  number of claims and `cnt[p]` plus the debts on `p` alike: `Balanced`.  The claims are
  summed by kind and thread, and `Counting!OneChange` is applied to the one term that a
  step changes.
* `AliveInv` is the argument for the safety of the strategy.  Every debt has a claim of its
  own that relies on it (`DebtHeld`), so by `Conservation` a count of zero leaves no claim
  without a debt.  But a debt that was confirmed is `Protected`: its pointer is still in
  some container, or a writer that took it out has still to come to that slot, and these
  are claims without a debt.  For the helping slot this needs `Candid`: as long as nobody
  helped a transaction, its candidate is in the container, or was taken out by a writer of
  this container that has still to come to this node and help; that the writer cannot pass
  it by is `Addr` and `Elsewhere`.  The writer may be in any depth of helping at that time.
* `FreshInv` follows the window of each load, the objects that its container held since it
  began and that were not freed since.  What the container holds is in it (`Window`), and so
  is a pointer that was confirmed (`Confirmed`) and a replacement that was handed over
  (`Received`).  For the replacement, the window of the helper's own load lies inside its
  reader's as long as the generation it read is still there (`Serving`).  The hard case is
  a debt that somebody paid before the attempt confirmed it: the writer who pays holds the
  object, which is therefore not freed, and took it out of this very container, so that it
  is in the window (`Reread`, `Paid`).  Here a writer of another container has to be
  excluded.  That nothing else leaves a window is `AliveInv`: an object is freed only
  when no claim but those of unconfirmed loads is left on it.

### The debt list

* `TypeInv` adds `Located` (a thread that goes on to use a node has one) and `NonEmpty`
  (the list is empty only while nobody has a node: the `expect` of `traverse`'s users).
* `OwnerInv` adds `Hidden` (a node that is not allocated is marked as used and belongs to
  nobody) and `Fresh` (a node about to be prepended is marked as used and known to one
  thread only): without them a thread could claim a node that its creator is just about to
  take.
* `ReservationInv` adds `Positioned` (where a thread is in a walk, a give-up or a nested
  load), from which each step's effect on the threads at a node is known exactly.
* `WalkInv` is about reachability, without paths: a set of nodes is `Closed` when no link
  leads out of it, and `Reached` says that every closed set with the walk's position has all
  of the nodes still to be visited, and one with `head` all published nodes.  A prepend
  changes the link of an unpublished node only (`Linked`).
* `IdleInv` adds that a control word that is not idle belongs to a transaction in
  progress.  It needs `NoWrap`, since at a wrap the node is given up in the middle of one.
* `DrainInv` is about the writers that were on a node when its cooldown began (`early`):
  they are on it until they take back their mark (`EarlyOn`), so a thread that reads
  `active_writers = 0` during this cooldown knows that none is left, and still knows it
  at its exchange (`Drained`), by `ReservationCount` and `NoLateRelease`.
* `HelpInv` adds that a helper is in time (`InTime`): the owner of whose transaction it read
  the generation still has the node, and is past that generation if it began another
  transaction; or the owner gave the node up, and the cooldown waits for the helper.

### RwLock and its refinement

`RwInv` has the exclusion of the lock (`Excludes`), what the variables hold at each point
(`Shape`), that `cnt[p]` is exactly the number of owners of `p` (`Exact`), and `Covered`: a
pointer that a reader has read and not counted is in the container, or its writer is still
waiting for the write lock.  The last is why `wait_for_readers` works, and with `Exact` it
gives that the reader's count goes to an object that lives.  The refinement maps the read
of a load, the exchange of a swap and that of a `compare_and_swap` to the abstract calls'
effects and the rest to stuttering or to the abstract bookkeeping; the initial
state and one step per action are proved separately, the abstract container's history
(`seen`) through `SeenOK`.

### The clients

`ClientInv` is about `Clients` on top of any container that keeps the promise of
`Container`.  `ContainerInv`: what anybody holds lives, and what a load may still return
lives.  `RcuInv`: the new value was computed from the current one, which is
held and so cannot be freed and come back as another object (this is the ABA that
`compare_and_swap` on addresses would otherwise have).  `CreditInv`: each failure is paid
for by a change of somebody else.  `SinceInv`: what a cache is about to show was in the
container since the load began.  `AccessInv`: a guard holds the object that was loaded.
`GuardsAreStable` has a hypothesis about the operators of `Access` alone, no variable
occurs in it: `Deref(AccessLoad(a), n) = Part(a, n)`.  It is an induction over the layers
of an access.

### Only model-checked

* Liveness, out of the prover's reach: `ReadersWaitFree`, `WritersFinishAlone`,
  `CallsReturn`.
* The hypothesis of `GuardsAreStable`, an induction over data; TLC evaluates it as part of
  `GuardStable`.
* `LoadFresh` with several containers and fast slots: it does not hold in general
  (`hybrid_reuse`), but on the instances of the passing runs, where the addresses of two
  containers cannot cross in this way.
* `CooldownDrains` and `HelpsSameTransaction` do not hold in general (`list_aba`); beyond
  `NoLateRelease` they are checked on instances where each thread ends at most once.
* What the violated runs are about.

## Findings

* `list_panic`: when the generation wraps, `new_helping` gives the node up in the middle
  of the load, and `confirm_helping` of the same load then finds none and panics.  The
  counter has 62 bits (30 on 32-bit targets), so this takes that many fallbacks.
* `list_aba`: `check_cooldown` reads "in cooldown" and "no writers" and then exchanges;
  in between the node can be released, claimed and put into cooldown again, and the
  exchange ends that second cooldown while a writer is on the node.  If that writer is in
  the middle of a help, the next owner, which counts its generations from 0 again, can
  start a transaction with the very generation the writer read, and the writer's exchange
  hands it a replacement that was loaded for the previous owner's transaction.  It takes
  a writer, three readers' threads (one started after another ended), and a reader that
  stops inside `check_cooldown` while another one claims the node and gives it up.
* `hybrid_reuse`: the comment in `attempt` takes a paid debt as evidence that the
  pointer of the first read is fine.  It is safe to use, but the writer who paid may be
  one of another container in which the freed address was reused: the load then returns
  an object that its container never held.
* `hybrid_livelock`: writers are documented as lock-free, but two writers that help each
  other through their own helping slots can make each other's help fail for ever.  The
  cycle needs an exact alternation of the two.  (In the model it also needs the generation
  to come round, since a behaviour that repeats has to repeat its generations; no
  comparison in the cycle succeeds or fails because of that.)

## Not modelled

* Orderings weaker than sequential consistency (TLC and TLAPS have no model of them).
  The weaker accesses, most of them to `active_writers` and in `check_cooldown`
  (`src/debt/list.rs:56`, `133`, `136`, `143`), are taken as `SeqCst`.
* Destructors of the user's values: one that panics or uses the container while the
  RwLock strategy drops a value under its write lock (`src/strategy/rw_lock.rs:58`)
  poisons the lock or waits for itself.
* `Option<Weak>` with an empty `Weak` in it: its pointer is the null pointer of `None`
  and it comes back as `None`, as with the nested `Option`s of `src/lib.rs:317`.
* `Hybrid` as an implementation of `Container`, see *The modules*.
* Documentation, tests and the type-level parts (`Strategy`, `Sealed`, the marker traits,
  the compile-fail tests): nothing there takes a step.
* The strong count never overflows; `Weak` counts are not distinguished from strong ones.

## Plan

1. `Hybrid` with its runs and type correctness. *Done.*
2. `DebtList` with its runs, type correctness and the unique owner. *Done.*
3. `Container` and the refinement by `RwLock`, `SmartPtr`. *Done.*
4. `Access` and `Clients`: `rcu`, `Cache`, accesses. *Done.*
5. Temporary nodes in `DebtList`. *Done*, with their proofs.
6. Theorems: type correctness, exclusion and the refinement of `RwLock`; the
   invariants of `Clients`; reservations, walks, idle control words, cooldowns and late
   helps of `DebtList`; assertions, envelopes, conservation, liveness of memory and fresh
   loads of `Hybrid`. *Done.*
7. Left: a statement of what `LoadFresh` becomes with several containers and fast slots (the
   value is one of the type, and alive), and of the wrap of a generation in `Hybrid`.
