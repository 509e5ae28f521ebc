---------------------------- MODULE MCSessionRun ----------------------------
(* Small instances of SessionRun. *)
EXTENDS SessionRun, TLC

\* Run ids and calls are interchangeable: no definition names one of them.
Symmetry == Permutations(Run) \cup Permutations(Call) \cup Permutations(Request) \cup Permutations(Text)

=============================================================================
