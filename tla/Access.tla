------------------------------- MODULE Access -------------------------------
(***************************************************************************)
(* Access, DynAccess, Map and Constant: an access is a container or a      *)
(* constant in layers of adaptors, outermost first.  Loading it loads what *)
(* is innermost once and puts the guard into a guard per layer; looking    *)
(* through the guard goes the same way, from the inside out.               *)
(***************************************************************************)
EXTENDS Sequences
LOCAL INSTANCE SequencesExt

CONSTANT Fields      \* the fields that a projection can select

(* The configuration n: it has parts, and these have parts. *)
Cfg(n) == [f \in Fields |-> [g \in Fields |-> <<n, f, g>>]]

(* Innermost: an ArcSwapAny, with its guard or with DirectDeref, or a      *)
(* constant.  Around it: pointers, dyn DynAccess, AccessConvert and Maps.  *)
Guarded == [leaf |-> "Guard", layers |-> <<>>]
Direct == [leaf |-> "DirectDeref", layers |-> <<>>]
Constant == [leaf |-> "ConstantDeref", layers |-> <<>>]
Around(k, a) == [a EXCEPT !.layers = <<[k |-> k]>> \o @]
Map(a, f) == [a EXCEPT !.layers = <<[k |-> "Map", f |-> f]>> \o @]

(* Access::load of a layer, g being the guard of what it is around. *)
PointerLoad(g) == g
DynLoad(g) == <<[k |-> "DynGuard"]>> \o g
ConvertLoad(g) == g
MapLoad(l, g) == <<[k |-> "MapGuard", f |-> l.f]>> \o g

LayerLoad(l, g) ==
  CASE l.k = "Pointer" -> PointerLoad(g)
    [] l.k = "Dyn" -> DynLoad(g)
    [] l.k = "AccessConvert" -> ConvertLoad(g)
    [] l.k = "Map" -> MapLoad(l, g)

(* The guard of access a: what is around the innermost guard. *)
AccessLoad(a) == FoldRight(LayerLoad, a.layers, <<>>)

(* Deref of a guard, x being what the guard inside it shows. *)
DynGuardDeref(x) == x
MapGuardDeref_First(g, x) == x["a"]           \* mutant: always the same part
MapGuardDeref(g, x) == x[g.f]

LayerDeref(g, x) ==
  CASE g.k = "DynGuard" -> DynGuardDeref(x)
    [] g.k = "MapGuard" -> MapGuardDeref(g, x)

(* What one sees through guard g with object contents n at its inside. *)
Deref(g, n) == FoldRight(LayerDeref, g, Cfg(n))

(* What access a should show: the parts that its Maps select, the innermost*)
(* Map first.                                                              *)
Selects(a) == Reverse(SelectSeq(a.layers, LAMBDA l : l.k = "Map"))
Part(a, n) ==
  LET s == Selects(a) IN
  CASE Len(s) = 0 -> Cfg(n)
    [] Len(s) = 1 -> Cfg(n)[s[1].f]
    [] Len(s) = 2 -> Cfg(n)[s[1].f][s[2].f]
=============================================================================
