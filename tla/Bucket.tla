------------------------------- MODULE Bucket -------------------------------
(***************************************************************************)
(* The value of one TokenBucket object of src/blitz/ratelimit.py and what  *)
(* each of its methods does to it.                                         *)
(*                                                                         *)
(* Tokens are measured by the time it takes to refill them, in ticks: the  *)
(* bucket gains one unit per tick, one token is worth Cost = 1/refill_rate *)
(* ticks, and the capacity rate * burst_multiplier is worth Burst =        *)
(* burst_multiplier seconds whatever the rate.                             *)
(*                                                                         *)
(* The code refills lazily: tokens is brought up to date from _last_refill *)
(* when the bucket is next used.  level is the up-to-date value and        *)
(* unsynced the time since _last_refill (saturating at Burst), which only  *)
(* drain() can tell apart from an eager refill: it zeroes tokens and       *)
(* leaves _last_refill where it was.                                       *)
(***************************************************************************)
EXTENDS Integers

CONSTANTS
    Cost,        \* what one token is worth, in ticks
    Burst,       \* the capacity, in ticks
    Pauses       \* the durations given to pause(), in ticks

ASSUME BucketAssumption ==
    /\ Cost \in Nat \ {0}
    /\ Burst \in Nat \ {0}
    /\ Pauses \subseteq Nat

UpTo(bound, n) == IF n > bound THEN bound ELSE n

NotBelow(bound, n) == IF n < bound THEN bound ELSE n

BucketType == [level : Int, unsynced : 0 .. Burst]

\* __init__: a full bucket
NewBucket == [level |-> Burst, unsynced |-> 0]

\* Mutant of WaitFor: a task waits out a pause, not its own token.
WaitForPauseOnly(b) == NotBelow(0, 0 - b.level)

\* How long acquire() sleeps: the deficit at the refill rate.
WaitFor(b) == NotBelow(0, Cost - b.level)

\* Mutant of Acquired: a task that has to wait leaves the bucket as it is.
AcquiredIfWhole(b) ==
    [level |-> IF b.level >= Cost THEN b.level - Cost ELSE b.level, unsynced |-> 0]

\* acquire(): _refill(), then tokens = max(0, tokens - 1).
Acquired(b) == [level |-> NotBelow(0, b.level - Cost), unsynced |-> 0]

\* drain(): tokens = 0, and the next _refill() adds the time since _last_refill.
Drained(b) == [b EXCEPT !.level = b.unsynced]

\* Mutant of Paused: a pause adds to the one under way.
PausedFurther(b, seconds) ==
    [level |-> (IF b.level < 0 THEN b.level ELSE 0) - seconds, unsynced |-> 0]

\* Mutant of Paused: the bucket is emptied and no deficit is left.
PausedToZero(b, seconds) == [level |-> 0, unsynced |-> 0]

\* pause(seconds)
Paused(b, seconds) == [level |-> -seconds, unsynced |-> 0]

\* Mutant of Refilled: the capacity is not enforced.
RefilledOver(b) ==
    [level |-> b.level + 1, unsynced |-> UpTo(Burst, b.unsynced + 1)]

\* One tick later, as _refill() and current_tokens see it.
Refilled(b) ==
    [level    |-> UpTo(Burst, b.level + 1),
     unsynced |-> UpTo(Burst, b.unsynced + 1)]
=============================================================================
