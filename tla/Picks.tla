------------------------------- MODULE Picks -------------------------------
(***************************************************************************)
(* What a filter leaves of a sequence, as a function of the positions that *)
(* it keeps or of what it makes of each element: the forms of SelectSeq    *)
(* that can be reasoned about.                                             *)
(***************************************************************************)
EXTENDS Naturals, Sequences, SequencesExt

(* The elements at these positions, in their order. *)
Picked(items, positions) ==
  LET first[n \in 0..Len(items)] ==
        IF n = 0 THEN <<>>
        ELSE IF n \in positions THEN Append(first[n - 1], items[n]) ELSE first[n - 1]
  IN first[Len(items)]

(* The sequences that Of makes of the elements, one after the other. *)
Each(items, Of(_)) == FlattenSeq([i \in 1..Len(items) |-> Of(items[i])])
=============================================================================
