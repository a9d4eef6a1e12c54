--------------------------- MODULE MCMultithread ---------------------------
(* Multithread with symmetric connections and descriptors.                 *)
EXTENDS Multithread, TLC

Symmetry == Permutations(Conns) \cup Permutations(Fds)
=============================================================================
