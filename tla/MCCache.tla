------------------------------ MODULE MCCache ------------------------------
(* Small instances of Cache for TLC.  Clients and addresses are model values  *)
(* that nothing orders, so the safety runs identify their permutations.       *)
EXTENDS Cache, TLC

Symmetry == Permutations(Addr) \union Permutations(Clients)
=============================================================================
