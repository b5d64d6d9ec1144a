---------------------------- MODULE BookReplica ----------------------------
(***************************************************************************)
(* What a local copy of an exchange's order book promises: while it is in  *)
(* use it is the book the exchange had at some moment, and that moment     *)
(* never moves back.  Nothing is promised of a copy that is not in use.    *)
(***************************************************************************)
EXTENDS BookContent

VARIABLES
    log,        \* the changes of the exchange's book, in order
    used,       \* the copy is in use
    pos,        \* it is the book after this many changes
    copy        \* the copy; Empty while it is not in use

vars == <<log, used, pos, copy>>

Init == log = <<>> /\ ~used /\ pos = 0 /\ copy = Empty

\* The exchange's book changes, by any number of changes at a time.
Change ==
    /\ Len(log') >= Len(log)
    /\ SubSeq(log', 1, Len(log)) = log
    /\ UNCHANGED <<used, pos, copy>>

Drop == used /\ ~used' /\ pos' = 0 /\ copy' = Empty /\ UNCHANGED log

\* A copy is taken into use, or moves on to a later book.
Hold ==
    /\ used' /\ UNCHANGED log
    /\ pos' \in (IF used THEN pos ELSE 0)..Len(log)
    /\ copy' = BookAt(log, pos')

Next == Change \/ Drop \/ Hold

Spec == Init /\ [][Next]_vars
=============================================================================
