------------------------------ MODULE Selection ------------------------------
(***************************************************************************)
(* The items of a sequence at some of its places, in their order: what a   *)
(* comprehension with a condition keeps of a list, and what is left of a   *)
(* deque that was popped from its left.                                    *)
(***************************************************************************)
EXTENDS Integers, Sequences

KeptAt(seq, places) ==
    LET kept[n \in 0..Len(seq)] ==
            IF n = 0 THEN <<>>
            ELSE IF n \in places THEN Append(kept[n - 1], seq[n])
            ELSE kept[n - 1]
    IN  kept[Len(seq)]
=============================================================================
