----------------------------- MODULE MCDebtList -----------------------------
(* Small instances of module DebtList. *)
EXTENDS DebtList

(* Two readers and a writer; each thread ends at most once. *)
Once_Ops == <<{"load"}, {"load"}, {"write"}>>
Once_Calls == <<1, 1, 1>>
Once_Lives == <<1, 1, 1>>

(* The same, with new threads in the place of the readers that ended. *)
Again_Calls == <<2, 2, 1>>
Again_Lives == <<2, 2, 1>>

(* A reader and a writer whose generations wrap. *)
Wrap_Ops == <<{"load"}, {"write"}>>
Wrap_Calls == <<2, 2>>
Wrap_Lives == <<2, 1>>

(* The same, and each may go on after its thread local storage is gone. *)
Late_Calls == <<2, 3>>
=============================================================================
