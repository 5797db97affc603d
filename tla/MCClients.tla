----------------------------- MODULE MCClients -----------------------------
(* A small instance of module Clients. *)
EXTENDS Clients, TLC

Symmetry == Permutations(Ptrs)

Some_Accesses ==
  {Direct,
   Map(Map(Direct, "a"), "b"),
   Map(Around("AccessConvert", Around("Dyn", Map(Around("Pointer", Guarded), "b"))), "a"),
   Around("Dyn", Map(Constant, "b"))}

Client_Ops == <<{"rcu", "fmt", "serialize", "access"}, {"rcu", "store", "cache"}>>
Client_Calls == <<1, 4>>
=============================================================================
