--------------------------- MODULE MCProxyControl ---------------------------
(* ProxyControl for TLC: two commands in flight and two keys. *)
EXTENDS ProxyControl, TLC

Symmetry == Permutations(Task)
=============================================================================
