---------------------------- MODULE BookContent ----------------------------
(***************************************************************************)
(* What an order book holds, for the two local copies the program keeps    *)
(* (Binance depth, Lighter order book).  A message carries absolute sizes, *)
(* so writing a change twice is harmless and writing an old one is not.    *)
(*                                                                         *)
(* A change is abstracted to the side it is on, a book to the number of    *)
(* the last change written to each side; 0 is an empty side.               *)
(***************************************************************************)
EXTENDS Integers, Sequences, SequencesExt

CONSTANT Sides          \* the parts of a book that are told apart

Empty == [s \in Sides |-> 0]

\* The book after the changes with these numbers are written over it.
Overwrite(book, log, ids) ==
    [s \in Sides |->
        LET hits == {i \in ids : log[i] = s}
        IN  IF hits = {} THEN book[s] ELSE Max(hits)]

\* The book of the exchange after its first n changes.
BookAt(log, n) == Overwrite(Empty, log, 1..n)

TwoSided(book) == \A s \in Sides : book[s] # 0
=============================================================================
