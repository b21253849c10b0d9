---------------------------- MODULE MCPageCache ----------------------------
(* Small instances of PageCache for TLC: the extents the clients map.  Disjoint *)
(* addresses with a page that grows at one of them.                          *)
EXTENDS PageCache, TLC

Symmetry == Permutations(Clients)

Growing == {<<0, 1>>, <<0, 2>>, <<2, 1>>}
Spread  == Growing \union {<<3, 1>>}
=============================================================================
