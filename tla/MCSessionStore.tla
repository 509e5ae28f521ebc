--------------------------- MODULE MCSessionStore ---------------------------
(* SessionStore on a small instance; mutations and fields are interchangeable. *)
EXTENDS SessionStore, TLC

Symmetry == Permutations(Op)

=============================================================================
