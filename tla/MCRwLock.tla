------------------------------ MODULE MCRwLock ------------------------------
(* Small instances of module RwLock. *)
EXTENDS RwLock

(* Option<Arc> behaves as Weak does: it has one value without an object. *)
All_Types == {Arc, Rc, PinArc, PinRc, Weak, RcWeak, Option(Rc)}

(* A reader, and two writers that compete.  With a type that is not Sync   *)
(* the first thread is alone.                                              *)
RwLock_Ops == <<{"new", "load", "drop"}, {"store", "into_inner"},
                {"swap", "compare_and_swap"}>>
RwLock_Calls == <<1, 1, 1>>
=============================================================================
