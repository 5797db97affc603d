----------------------------- MODULE Container -----------------------------
(***************************************************************************)
(* What a strategy promises to ArcSwapAny, and ArcSwapAny to its users: a  *)
(* place that holds one reference counted pointer, which threads load,     *)
(* swap and compare-and-swap in single steps, and objects that live exactly*)
(* as long as somebody refers to them.  How references are counted, owed   *)
(* or protected is not said here.                                          *)
(***************************************************************************)
CONSTANTS
  Threads,
  Roles,       \* the variables of a thread that can hold a reference
  Ptrs,        \* addresses that an object can have
  Null,        \* the pointer of None or of an empty Weak
  NONE         \* no reference, or no container

Places == Threads \X Roles
Own(t) == {t} \X Roles
Words == Ptrs \cup {Null, NONE}
NoCall == [op |-> "none", cur |-> NONE]
Loading == {"load", "compare_and_swap"}

ASSUME ContainerConstants == Null \notin Ptrs /\ NONE \notin Ptrs /\ NONE # Null

VARIABLES
  ptr,         \* the pointer in the container, NONE: there is no container
  hold,        \* hold[r]: the pointer that place r has a reference to
  live,        \* the addresses at which there is an object
  window,      \* window[t]: what the container held since t's load began
  call         \* call[t]: the load or compare_and_swap t has not got through

cvars == <<ptr, hold, live, window, call>>

(* The container holds p, the places h, and the calls c are in progress.   *)
(* An object lives while it is referred to; a load can return what was in  *)
(* the container since it began and still lives.                           *)
Becomes(p, h, c) ==
  /\ ptr' = p /\ hold' = h /\ call' = c
  /\ live' = Ptrs \cap ({p} \cup {h[r] : r \in Places})
  /\ window' = [t \in Threads |->
                  IF c[t].op \in Loading
                  THEN (window[t] \cup {p}) \cap (live' \cup {Null}) ELSE {}]

Init ==
  /\ ptr \in Words
  /\ hold = [r \in Places |-> NONE]
  /\ live = Ptrs \cap {ptr}
  /\ window = [t \in Threads |-> {}]
  /\ call = [t \in Threads |-> NoCall]

----------------------------------------------------------------------------
(* References outside of the container: a new object, None, a clone of     *)
(* what somebody holds; an assignment, which drops what was in r; a drop.  *)

Acquire(r, p) ==
  /\ hold[r] = NONE
  /\ p = Null \/ p \in Ptrs \ live \/ \E q \in Places : p = hold[q] /\ p # NONE
  /\ Becomes(ptr, [hold EXCEPT ![r] = p], call)

Assign(r, q) ==
  /\ hold[q] # NONE /\ q # r
  /\ Becomes(ptr, [hold EXCEPT ![r] = hold[q], ![q] = NONE], call)

Drop(r) == hold[r] # NONE /\ Becomes(ptr, [hold EXCEPT ![r] = NONE], call)

----------------------------------------------------------------------------
Begin(t, op, c) ==
  /\ call[t] = NoCall /\ ptr # NONE /\ op \in Loading
  /\ Becomes(ptr, hold, [call EXCEPT ![t] = [op |-> op, cur |-> c]])

(* InnerStrategy::load *)
Load(t, r) ==
  /\ call[t].op = "load" /\ hold[r] = NONE
  /\ \E p \in window[t] :
       Becomes(ptr, [hold EXCEPT ![r] = p], [call EXCEPT ![t] = NoCall])

(* Put what q holds into the container and take into r what was there. *)
Exchange(q, r, c) ==
  /\ ptr # NONE /\ hold[q] # NONE /\ (hold[r] = NONE \/ r = q)
  /\ Becomes(hold[q], [hold EXCEPT ![q] = NONE, ![r] = ptr], c)

(* ArcSwapAny::swap, its reference protected by wait_for_readers. *)
Swap(q, r) == Exchange(q, r, call)

(* CaS::compare_and_swap: either exchange the current value, or load one   *)
(* that differs from it and keep the new value (which the caller drops).   *)
CompareAndSwap(t, q, r) ==
  LET done == [call EXCEPT ![t] = NoCall] IN
  /\ call[t].op = "compare_and_swap" /\ hold[r] = NONE
  /\ \/ ptr = call[t].cur /\ Exchange(q, r, done)
     \/ \E p \in window[t] \ {call[t].cur} :
          Becomes(ptr, [hold EXCEPT ![r] = p], done)

(* The container is made from the value in q, and ends with its value in r.*)
Create(q) ==
  /\ ptr = NONE /\ hold[q] # NONE
  /\ Becomes(hold[q], [hold EXCEPT ![q] = NONE], call)

Destroy(r) ==
  /\ ptr # NONE /\ hold[r] = NONE /\ \A t \in Threads : call[t] = NoCall
  /\ Becomes(NONE, [hold EXCEPT ![r] = ptr], call)

Next ==
  \E t \in Threads : \E r \in Own(t) :
    \/ Drop(r) \/ Create(r) \/ Destroy(r) \/ Load(t, r)
    \/ \E p \in Words : Acquire(r, p)
    \/ \E op \in Loading, c \in Words : Begin(t, op, c)
    \/ \E q \in Own(t) : Assign(r, q) \/ Swap(q, r) \/ CompareAndSwap(t, q, r)

Spec == Init /\ [][Next]_cvars
=============================================================================
