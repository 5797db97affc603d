------------------------------ MODULE SmartPtr ------------------------------
(***************************************************************************)
(* RefCnt: the smart pointers that a container can hold, and how each of   *)
(* them becomes a raw pointer and comes back.  A type is described by the  *)
(* values that have no object behind them and by whether it may be shared  *)
(* between threads; a value that does have one owns one count of it.       *)
(***************************************************************************)
EXTENDS Integers

CONSTANTS
  Ptrs,       \* addresses of objects
  Null,       \* the null pointer
  NONE        \* no value

Type(none, empty, sync) == [none |-> none, empty |-> empty, sync |-> sync]

Arc == Type(FALSE, FALSE, TRUE)
Rc == Type(FALSE, FALSE, FALSE)
PinArc == Type(FALSE, FALSE, TRUE)
PinRc == Type(FALSE, FALSE, FALSE)
Weak == Type(FALSE, TRUE, TRUE)       \* empty: Weak::new()
RcWeak == Type(FALSE, TRUE, FALSE)
Option(T) == [T EXCEPT !.none = TRUE]

Full(p) == [is |-> "full", at |-> p]
Empty == [is |-> "empty", at |-> NONE]
None == [is |-> "none", at |-> NONE]
ValuesOf(T) ==
  {Full(p) : p \in Ptrs} \cup (IF T.empty THEN {Empty} ELSE {})
    \cup (IF T.none THEN {None} ELSE {})

(* into_ptr freezes the value, its count included; as_ptr only looks at it *)
(* (the shallow copies that it makes are forgotten again).                 *)
IntoPtr(v) == IF v.is = "full" THEN v.at ELSE Null
AsPtr(v) == IntoPtr(v)

(* from_ptr.  Of the two values that are null in Option<Weak>, None comes  *)
(* back, the limit that ArcSwapAny documents for nested Options.           *)
FromPtr(T, p) ==
  IF p # Null THEN Full(p) ELSE IF T.none THEN None ELSE Empty

(* The counts after a clone or a drop of v. *)
Cloned(cnt, v) == IF v.is = "full" THEN [cnt EXCEPT ![v.at] = @ + 1] ELSE cnt
Dropped(cnt, v) == IF v.is = "full" THEN [cnt EXCEPT ![v.at] = @ - 1] ELSE cnt

(* AsRaw: compare_and_swap may be told to expect the pointer of a value or *)
(* of a guard (as_ptr), or any raw pointer at all.                         *)
AsRaw == Ptrs \cup {Null}
=============================================================================
