--------------------------- MODULE MCStreamProxy ---------------------------
(* Two client slots and two remotes, one of whose rules leaves a host out. *)
EXTENDS StreamProxy, TLC

CONSTANTS r1, r2, h1, h2

MCRule == [r \in Remote |-> IF r = r1 THEN {h1} ELSE {h1, h2}]

Symmetry == Permutations(Client)
=============================================================================
