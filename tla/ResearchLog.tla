---------------------------- MODULE ResearchLog ----------------------------
(***************************************************************************)
(* ResearchJsonlLogger: rows appended to a file per day, files of earlier  *)
(* days compressed and then removed, and what is too old or too much       *)
(* deleted.  One stream; rows are counted, and the clean-up comes with an  *)
(* append when its interval has passed.  The process may stop while it     *)
(* compresses, and a full disk may stop the compression.                   *)
(***************************************************************************)
EXTENDS Integers, FiniteSetsExt

CONSTANTS
    Days,           \* bound: days are 0..Days
    RowsPerDay,     \* bound: rows of a day
    RawKeep,        \* raw_retention_days
    GzKeep,         \* compressed_retention_days
    MaxBytes,        \* max_total_bytes; a compressed file counts 1, a raw one its rows
    Compressing     \* what compress_previous_days may be

ASSUME ResearchAssumption ==
    /\ {Days, RowsPerDay, RawKeep, GzKeep, MaxBytes} \subseteq Nat
    /\ Compressing \subseteq BOOLEAN

VARIABLES
    today,
    raw,        \* rows in <stream>_<day>.jsonl; 0: no file
    gz,         \* <stream>_<day>.jsonl.gz: [rows, on], on the day it was made; {}: none
    compress,   \* compress_previous_days
    appended,   \* history: rows ever appended, per day
    expired,    \* history: days of which a file was deleted for its age or the size
    torn        \* history: days whose compression was cut short

researchVars == <<today, raw, gz, compress, appended, expired, torn>>

DaySet == 0..Days
GzFile(n, day) == {[rows |-> n, on |-> day]}
RowsIn(file) == MapThenSumSet(LAMBDA f : f.rows, file)

ResearchInit ==
    /\ today = 0 /\ compress \in Compressing
    /\ raw = [d \in DaySet |-> 0] /\ gz = [d \in DaySet |-> {}]
    /\ appended = [d \in DaySet |-> 0] /\ expired = {} /\ torn = {}

-----------------------------------------------------------------------------
(* cleanup, over a state [raw, gz, gone]. *)

\* Mutant: today's file is compressed too.
UpToToday == {d \in DaySet : compress /\ raw[d] > 0}

\* The raw files of other days.
Past == {d \in DaySet : compress /\ raw[d] > 0 /\ d # today}

\* A compressed file that is there already is taken for the whole.
Compressed ==
    [raw |-> [d \in DaySet |-> IF d \in Past THEN 0 ELSE raw[d]],
     gz |-> [d \in DaySet |->
                IF d \in Past /\ gz[d] = {} THEN GzFile(raw[d], today) ELSE gz[d]],
     gone |-> {}]

\* raw_cutoff, gz_cutoff.
Aged(s) ==
    LET oldRaw == {d \in DaySet : s.raw[d] > 0 /\ d < today - RawKeep}
        oldGz == {d \in DaySet : \E f \in s.gz[d] : f.on < today - GzKeep}
    IN  [raw |-> [d \in DaySet |-> IF d \in oldRaw THEN 0 ELSE s.raw[d]],
         gz |-> [d \in DaySet |-> IF d \in oldGz THEN {} ELSE s.gz[d]],
         gone |-> s.gone \cup oldRaw \cup oldGz]

SizeOf(s) == MapThenSumSet(LAMBDA d : s.raw[d] + Cardinality(s.gz[d]), DaySet)

\* Before in the order of deletion: the older file, on one day by its own day.
Before(s, a, b) ==
    \E f \in s.gz[a], g \in s.gz[b] : f.on < g.on \/ (f.on = g.on /\ a < b)

\* _enforce_size_limit: the oldest compressed files go, and no others.
Fitted(s) ==
    LET first == {d \in DaySet : s.gz[d] # {} /\
            Cardinality({e \in DaySet : Before(s, e, d)}) < SizeOf(s) - MaxBytes}
    IN  [s EXCEPT !.gz = [d \in DaySet |-> IF d \in first THEN {} ELSE s.gz[d]],
                  !.gone = @ \cup first]

Cleaned == Fitted(Aged(Compressed))

\* maybe_cleanup_locked, when the interval has passed.
Cleanup ==
    /\ raw' = Cleaned.raw /\ gz' = Cleaned.gz
    /\ expired' = expired \cup Cleaned.gone
    /\ UNCHANGED <<today, compress, appended, torn>>

\* The process stops, or the disk is full, while day d is compressed: a part of it
\* is in the compressed file, and the raw one is still there.
CutShort(d) ==
    /\ d \in Past /\ gz[d] = {}
    /\ \E n \in 0..(raw[d] - 1) : gz' = [gz EXCEPT ![d] = GzFile(n, today)]
    /\ torn' = torn \cup {d}
    /\ UNCHANGED <<today, raw, compress, appended, expired>>

-----------------------------------------------------------------------------

AppendRow ==
    /\ raw[today] < RowsPerDay
    /\ raw' = [raw EXCEPT ![today] = @ + 1]
    /\ appended' = [appended EXCEPT ![today] = @ + 1]
    /\ UNCHANGED <<today, gz, compress, expired, torn>>

Midnight ==
    /\ today < Days /\ today' = today + 1
    /\ UNCHANGED <<raw, gz, compress, appended, expired, torn>>

ResearchNext ==
    \/ AppendRow
    \/ Cleanup
    \/ \E d \in DaySet : CutShort(d)
    \/ Midnight

ResearchSpec == ResearchInit /\ [][ResearchNext]_researchVars

-----------------------------------------------------------------------------
(* Properties. *)

\* Every row is in its day's file, raw or compressed, once, until the file is
\* deleted for its age or for the size; today's file is never touched.  A
\* compression that was cut short breaks this: the next clean-up takes the part for
\* the whole.
RowsKept ==
    /\ \A d \in DaySet \ (expired \cup torn) : raw[d] + RowsIn(gz[d]) = appended[d]
    /\ raw[today] = appended[today]
=============================================================================
