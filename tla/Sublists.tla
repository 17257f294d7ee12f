------------------------------ MODULE Sublists ------------------------------
(***************************************************************************)
(* What the loops over a list with a continue in them leave of it.         *)
(***************************************************************************)
EXTENDS Integers, Sequences

\* The entries of a list that are in a set, in their order.
Sublist(list, S) ==
    LET left[n \in 0..Len(list)] ==
            IF n = 0 THEN <<>>
            ELSE IF list[n] \in S THEN Append(left[n - 1], list[n]) ELSE left[n - 1]
    IN  left[Len(list)]
=============================================================================
