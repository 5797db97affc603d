------------------------------ MODULE MCHybrid ------------------------------
(* Small instances of module Hybrid: which thread makes which calls. *)
EXTENDS Hybrid, TLC

(* Every container starts with an object of its own. *)
OneEach == {f \in [Storages -> Ptrs] :
              \A a, b \in Storages : f[a] = f[b] => a = b}
Symmetry == Permutations(Ptrs) \cup Permutations(HandleIds) \cup Permutations(Storages)

(* A reader that has to use the helping slot, and two writers. *)
Help_Ops == <<{"load"}, {"store"}, {"store"}>>
Help_Calls == <<1, 1, 1>>

(* Two threads that read and write by turns and help each other. *)
Again_Ops == <<{"load", "store"}, {"store"}>>
Again_Calls == <<3, 1>>

(* Guards of both kinds, kept, sent to the writer, dropped and converted,  *)
(* of a container that is taken apart and made anew under them.            *)
Fast_Ops == <<{"load", "load_full", "guard_drop", "guard_into_inner"},
              {"new", "store", "drop", "into_inner", "guard_drop"}>>
Fast_Calls == <<3, 3>>

(* Writers that compete, one of which lets go of what it got. *)
Cas_Ops == <<{"compare_and_swap"}, {"compare_and_swap", "swap", "guard_drop"}>>
Cas_Calls == <<2, 2>>

(* A reader and two writers, one of them twice, of two containers. *)
Two3_Ops == <<{"load"}, {"store"}, {"store"}>>
Two3_Calls == <<1, 1, 2>>

(* Two threads, one of which reads and writes. *)
Live_Ops == <<{"load", "store"}, {"store"}>>
Live_Calls == <<2, 1>>
=============================================================================
