---------------------------- MODULE RateLimiter ----------------------------
(***************************************************************************)
(* The write gate: the sliding window of ops, the floor between sends, the *)
(* pacing by volume quota, the 429 backoff with its ladder, the short      *)
(* backoff after a nonce error, and quota recovery, which has a pacing of  *)
(* its own.  Its users are the paced sender, a reconciler that cancels and *)
(* the recovery task; they share the window and the write lock.            *)
(*                                                                         *)
(* Times are kept as ages and remaining times, capped where nothing looks  *)
(* further, so that a behaviour may go on for ever.                        *)
(***************************************************************************)
EXTENDS Integers, Sequences, SequencesExt

CONSTANTS
    Window, Budget,         \* _RL_WINDOW_SECONDS, _RL_OPS_PER_WINDOW
    MinGap,                 \* _RL_MIN_SEND_INTERVAL, and for cancels alike
    FreeGap,                \* _RL_FREE_SLOT_INTERVAL
    ShortWait,              \* a backoff this close to its end is waited for
    NoncePause,             \* duration of the backoff after a nonce error
    BackoffBase, BackoffMax, ResetAfter, Decay,
    MaxBatch,               \* bound: ops in a batch
    MaxAttempts             \* _QR_MAX_ATTEMPTS

ASSUME RateAssumption ==
    /\ {Window, Budget, FreeGap, BackoffBase, ResetAfter, MaxBatch, MaxAttempts}
            \subseteq Nat \ {0}
    /\ {MinGap, ShortWait, NoncePause, Decay, BackoffMax} \subseteq Nat
    /\ 2 * MinGap <= FreeGap /\ BackoffBase <= BackoffMax /\ NoncePause <= BackoffMax
    /\ MaxBatch <= Budget

VARIABLES
    ages,       \* _op_timestamps, as ages, oldest first
    since,      \* age of _last_send_time
    backoff,    \* what is left of _global_backoff_until
    level,      \* _global_backoff_consecutive
    wins,       \* _consecutive_successes
    quiet,      \* age of _last_backoff_trigger_time
    quota,      \* volume quota: by the pacing it calls for
    user,       \* each user: where it is, time left to sleep, ops it carries,
                \* history: whether the quota it saw called for a free slot, and
                \* whether someone sent since it looked at the window
    attempts,   \* attempts of the recovery in progress
    cooled,     \* _QR_COOLDOWN has passed since the last recovery
    over        \* history: who filled the window beyond the budget knew no better

ladder == <<backoff, level, wins, quiet>>
sends == <<ages, since, over>>
rateVars == <<ages, since, backoff, level, wins, quiet, quota, user, attempts,
              cooled, over>>

Users == {"sender", "canceller", "recovery"}
Pace == [full |-> 1, mid |-> 2, critical |-> 0, zero |-> 0]    \* 0: free slots
Free(q) == Pace[q] = 0
Off == [at |-> "off", wait |-> 0, ops |-> 0, free |-> FALSE, stale |-> FALSE]
CancelOnly(w) == w = "canceller"

Clip(a, b) == IF a < b THEN a ELSE b
Above(a) == IF a > 0 THEN a ELSE 0

RateInit ==
    /\ ages = <<>> /\ since = FreeGap
    /\ backoff = 0 /\ level = 0 /\ wins = 0 /\ quiet = Decay + 1
    /\ quota = "full"
    /\ user = [w \in Users |-> Off]
    /\ attempts = 0 /\ cooled = TRUE /\ over = FALSE

Recovering == attempts > 0

-----------------------------------------------------------------------------
(* Time passes for everyone.                                               *)

\* _prune_op_window: from the oldest on, up to the first still in the window.
Pruned(s) ==
    LET kept == {i \in 1..(Len(s) + 1) : i > Len(s) \/ s[i] <= Window}
    IN  SubSeq(s, Min(kept), Len(s))

Tick ==
    /\ ages' = Pruned([i \in DOMAIN ages |-> ages[i] + 1])
    /\ since' = Clip(since + 1, FreeGap)
    /\ quiet' = Clip(quiet + 1, Decay + 1)
    /\ backoff' = Above(backoff - 1)
    /\ user' = [w \in Users |-> [user[w] EXCEPT !.wait = Above(@ - 1)]]
    /\ over' = (over /\ Len(ages') > Budget)
    /\ UNCHANGED <<level, wins, quota, attempts, cooled>>

-----------------------------------------------------------------------------
(* _wait_for_write_slot.                                                   *)

\* Mutant: it waits for one op less than are in the way.
UntilOneLess(n) ==
    IF Len(ages) + n <= Budget THEN 0
    ELSE LET i == Len(ages) + n - Budget - 1
         IN  IF i < 1 THEN 0 ELSE Window - ages[i] + 1

\* _time_until_ops_free: the op at this index has to leave the window, and it
\* is one more than is needed.
TimeUntilFree(n) ==
    IF Len(ages) + n <= Budget THEN 0
    ELSE Window - ages[Clip(Len(ages) + n - Budget + 1, Len(ages))] + 1

\* Mutant: the free slot is waited for only when nothing is left.
OnlyAtZero(w) == ~CancelOnly(w) /\ quota = "zero"

\* Who waits for a free slot.
PacedFree(w) == ~CancelOnly(w) /\ Free(quota)

Waits(w, n) ==
    [window |-> TimeUntilFree(n),
     floor  |-> MinGap - since,
     quota  |-> IF PacedFree(w) THEN FreeGap - since
                ELSE IF CancelOnly(w) THEN 0
                ELSE MinGap * Pace[quota] - since]

Phases == <<"window", "floor", "quota">>

\* Run on from phase p up to the first that sleeps; after it, to the next.
RunOn(w, p, n) ==
    LET stops == {q \in p..3 : Waits(w, n)[Phases[q]] > 0}
        q == Min(stops)
        free == ~CancelOnly(w) /\ Free(quota)
        seen == IF p = 1 THEN FALSE ELSE user[w].stale
    IN  IF stops = {}
        THEN user' = [user EXCEPT ![w] =
                [at |-> "lock", wait |-> 0, ops |-> n, free |-> free, stale |-> seen]]
        ELSE user' = [user EXCEPT ![w] =
                [at |-> IF q = 3 THEN "gate" ELSE Phases[q + 1],
                 wait |-> Waits(w, n)[Phases[q]],
                 ops |-> n, free |-> free, stale |-> seen]]

GateRest == UNCHANGED <<sends, ladder, quota, attempts, cooled>>

\* While a recovery is in progress the loop posts no ops.
Enter(w, n) ==
    /\ user[w].at = "off" /\ w # "recovery"
    /\ w = "sender" => ~Recovering
    /\ w = "canceller" => n = 1
    /\ backoff <= ShortWait
    /\ IF backoff > 0
       THEN user' = [user EXCEPT ![w] = [Off EXCEPT !.at = "window",
                                         !.wait = backoff, !.ops = n]]
       ELSE RunOn(w, 1, n)
    /\ GateRest

Wake(w) ==
    /\ user[w].wait = 0
    /\ \/ \E p \in 1..3 : user[w].at = Phases[p] /\ RunOn(w, p, user[w].ops)
       \/ user[w].at = "gate" /\ user' = [user EXCEPT ![w].at = "lock"]
    /\ GateRest

-----------------------------------------------------------------------------
(* sign_and_send_batch, from the lock to the answer.                       *)

\* Mutant: a writer does not wait for the lock.
Unlocked == FALSE

LockTaken == \E w \in Users : user[w].at \in {"sign", "sent"}

\* Mutant: the backoff is not looked at again under the lock.
NotLookedAt == TRUE

NoBackoffNow == backoff = 0

\* The sender pulls the freshest ops, which may be more, or fewer, than those
\* the gate was opened for.
Lock(w, n) ==
    /\ user[w].at = "lock" /\ ~LockTaken /\ w # "recovery"
    /\ w = "canceller" => n = user[w].ops
    /\ user' = [user EXCEPT ![w] =
            IF NoBackoffNow
            THEN [@ EXCEPT !.at = "sign", !.ops = IF quota = "zero" THEN 1 ELSE n,
                           !.stale = user[w].stale \/ (n > user[w].ops /\ quota # "zero")]
            ELSE Off]
    /\ GateRest

\* _record_ops_sent, and the batch goes out.
Record(w, n) ==
    /\ ages' = ages \o [i \in 1..n |-> 0]
    /\ since' = 0
    /\ over' = (over \/ (Len(ages') > Budget /\ user[w].stale))
    /\ user' = [v \in Users |->
            IF v = w THEN [Off EXCEPT !.at = "sent"]
            ELSE [user[v] EXCEPT !.stale = user[v].at # "off"]]

Send(w) ==
    /\ user[w].at = "sign"
    /\ Record(w, user[w].ops)
    /\ UNCHANGED <<ladder, quota, attempts, cooled>>

-----------------------------------------------------------------------------
(* The ladder.                                                             *)

\* Mutant: the cap is left out.
NoTopRung == BackoffBase * 2 ^ level

Rung == Clip(BackoffBase * 2 ^ level, BackoffMax)

\* _trigger_global_backoff.
TriggerBackoff ==
    /\ level' = Clip(level + 1, BackoffMax)
    /\ backoff' = Rung
    /\ wins' = 0 /\ quiet' = 0

PauseLeft == IF backoff > NoncePause THEN backoff ELSE NoncePause

\* _trigger_nonce_recovery_backoff.
TriggerNoncePause ==
    /\ backoff' = PauseLeft
    /\ wins' = 0 /\ quiet' = 0
    /\ UNCHANGED level

\* _reset_global_backoff: enough successes, or time, take the ladder down.
Success ==
    /\ IF level > 0 /\ (quiet > Decay \/ wins + 1 >= ResetAfter)
       THEN level' = 0 /\ wins' = 0
       ELSE UNCHANGED level /\ wins' = Clip(wins + 1, ResetAfter - 1)
    /\ UNCHANGED <<backoff, quiet>>

Answer(w, code) ==
    /\ user[w].at = "sent" /\ w # "recovery"
    /\ user' = [user EXCEPT ![w] = Off]
    /\ \/ code = "ok" /\ Success /\ quota' \in DOMAIN Pace
       \/ code = "429" /\ TriggerBackoff /\ UNCHANGED quota
       \/ code = "nonce" /\ TriggerNoncePause /\ UNCHANGED quota
       \/ code = "quota" /\ quota' = "zero" /\ UNCHANGED ladder
       \/ code = "rejected" /\ UNCHANGED <<ladder, quota>>
    /\ UNCHANGED <<sends, attempts, cooled>>

-----------------------------------------------------------------------------
(* _attempt_quota_recovery.                                                *)

\* Each attempt waits for its free slot from the last send there was.
NextAttempt(k) ==
    /\ attempts' = k
    /\ user' = [user EXCEPT !["recovery"] =
            [at |-> "gate", wait |-> Above(FreeGap - since), ops |-> 1,
             free |-> TRUE, stale |-> FALSE]]

RecoveryStart ==
    /\ Free(quota) /\ cooled /\ ~Recovering
    /\ NextAttempt(1)
    /\ cooled' = FALSE
    /\ UNCHANGED <<sends, ladder, quota>>

\* It asks neither the window nor the backoff; what it sends is counted.
RecoverySend ==
    /\ user["recovery"].at = "lock" /\ ~LockTaken
    /\ ages' = Append(ages, 0) /\ since' = 0
    /\ over' = (over \/ Len(ages') > Budget)
    /\ user' = [v \in Users |->
            IF v = "recovery" THEN [Off EXCEPT !.at = "sent"]
            ELSE [user[v] EXCEPT !.stale = user[v].at # "off"]]
    /\ UNCHANGED <<ladder, quota, attempts, cooled>>

\* Another attempt only if the quota rose and is not at its target yet.
RecoveryAnswer(q) ==
    /\ user["recovery"].at = "sent"
    /\ quota' = q
    /\ \/ q = "critical" /\ attempts < MaxAttempts /\ NextAttempt(attempts + 1)
       \/ attempts' = 0 /\ user' = [user EXCEPT !["recovery"] = Off]
    /\ UNCHANGED <<sends, ladder, cooled>>

\* No prices, no size, or the loss limit: nothing is sent.
RecoveryGivesUp ==
    /\ user["recovery"].at = "lock"
    /\ attempts' = 0 /\ user' = [user EXCEPT !["recovery"] = Off]
    /\ UNCHANGED <<sends, ladder, quota, cooled>>

Cooldown ==
    /\ ~cooled /\ ~Recovering
    /\ cooled' = TRUE
    /\ UNCHANGED <<sends, ladder, quota, user, attempts>>

-----------------------------------------------------------------------------

Locks(w) == \E n \in 1..MaxBatch : Lock(w, n)
Answers(w) == \E code \in {"ok", "429", "nonce", "quota", "rejected"} : Answer(w, code)
RecoveryAnswers == \E q \in DOMAIN Pace : RecoveryAnswer(q)

RateNext ==
    \/ Tick
    \/ \E w \in Users : \/ \E n \in 1..MaxBatch : Enter(w, n)
                        \/ Wake(w) \/ Locks(w) \/ Send(w) \/ Answers(w)
    \/ RecoveryStart \/ RecoverySend \/ RecoveryAnswers \/ RecoveryGivesUp
    \/ Cooldown

RateSpec == RateInit /\ [][RateNext]_rateVars

-----------------------------------------------------------------------------
(* Properties. *)

RateTypeOK ==
    /\ \A i \in DOMAIN ages : ages[i] \in 0..Window
    /\ since \in 0..FreeGap /\ backoff \in 0..BackoffMax
    /\ level \in 0..BackoffMax /\ wins \in 0..(ResetAfter - 1) /\ quiet \in 0..(Decay + 1)
    /\ quota \in DOMAIN Pace
    /\ \A w \in Users :
        /\ user[w].at \in {"off", "window", "floor", "quota", "gate", "lock", "sign", "sent"}
        /\ user[w].wait \in 0..(Window + BackoffMax + FreeGap) /\ user[w].ops \in 0..MaxBatch
    /\ attempts \in 0..MaxAttempts
    /\ {cooled, over} \subseteq BOOLEAN

\* The window is overdrawn only by a writer that was let through before
\* another one sent, by a batch that grew behind the gate, or by a recovery
\* (which does not ask): alone, the gate's one look and one sleep suffice.
WindowHolds == Len(ages) <= Budget \/ over

\* No batch goes out during a backoff, however long its writer slept or waited
\* for the lock since it looked; and so the ladder climbs one rung per backoff,
\* not one per writer in flight: with the lock, and the second look under it,
\* nobody is left to be refused once a backoff has begun.
Sends(w) == user[w].at = "sign" /\ user'[w].at = "sent"

BackoffIsWaitedOut ==
    [][/\ \A w \in Users : Sends(w) => backoff = 0
       /\ level' > level => backoff = 0]_rateVars

\* Without quota a quote goes out in a free slot of its own, unless someone
\* else sent while it waited (cancels are let through, and use the slot up).
FreeSlotIsFree ==
    [][\A w \in Users :
        Sends(w) /\ user[w].free /\ ~user[w].stale => since >= FreeGap]_rateVars
=============================================================================
