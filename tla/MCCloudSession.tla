--------------------------- MODULE MCCloudSession ---------------------------
(* Instances of CloudSession for TLC. *)
EXTENDS CloudSession

Ordinary == [late |-> FALSE, strict |-> FALSE, warm |-> FALSE, shared |-> FALSE]
OrdinaryKind == {Ordinary}

\* Every kind of module; upload commands with the ordinary one.
MCKinds == {k \in ModuleKinds : k.shared => k = [Ordinary EXCEPT !.shared = TRUE]}
=============================================================================
