------------------------------ MODULE Metrics ------------------------------
(***************************************************************************)
(* MetricsCollector (src/blitz/metrics.py): the event loop records         *)
(* requests, and the thread started by live() prints snapshots.            *)
(*                                                                         *)
(* There is no lock.  record() is called by the event loop only, one call  *)
(* at a time, and the display thread may run between any two of its        *)
(* statements, and the other way round.  Statements between which the      *)
(* other thread sees nothing the properties tell apart are one action:     *)
(*                                                                         *)
(*    Enter         _domains[domain], which inserts a new domain           *)
(*    CountDomain   the counters of the domain                             *)
(*    StampDomain   its window of timestamps                               *)
(*    CountTotals   the global counters                                    *)
(*    StampTotal    the global window                                      *)
(*                                                                         *)
(* and of reset(), which runs in the event loop as well:                   *)
(*                                                                         *)
(*    ClearDomains  _domains.clear()                                       *)
(*    ZeroTotals    the global counters                                    *)
(*    ClearRecent   _recent_times.clear()                                  *)
(*                                                                         *)
(* An iterator over a deque raises RuntimeError at its next step when the  *)
(* deque has been changed since it was made, an iterator over a dictionary *)
(* when its size is another.  Nothing catches that in the display thread.  *)
(*                                                                         *)
(* A timestamp is kept as its age in ticks, and a deque of them, which is  *)
(* always in the order of time, as how many it has of each age.  A call    *)
(* takes no time against a tick, so the two stamps of a request have the   *)
(* same age.                                                               *)
(***************************************************************************)
EXTENDS Integers, Sequences, FiniteSets, Functions

CONSTANTS
    Domains,
    Outcomes,       \* what is recorded: success or not, and the retries
    Keep,           \* how long timestamps are kept, in ticks (60 s)
    MaxRecords      \* bound: calls of record() between two resets

None == "none"

Recent == "recent"

ASSUME MetricsAssumption ==
    /\ IsFiniteSet(Domains) /\ Domains \cap {None, Recent, "dropped"} = {}
    /\ Outcomes \subseteq [success : BOOLEAN, retries : Nat]
    /\ Keep \in Nat /\ MaxRecords \in Nat \ {0}

VARIABLES
    order,      \* the keys of _domains, in the order of their insertion
    per,        \* per domain: its DomainMetrics
    totals,     \* _total_requests, _total_errors, _total_retries
    recent,     \* _recent_times
    call,       \* the call of record() or reset() under way
    reader      \* the display thread, and the snapshot it is taking

vars == <<order, per, totals, recent, call, reader>>

Ages == 0 .. Keep + 1      \* Keep + 1: too old to be kept

NoStamps == [age \in Ages |-> 0]

Fresh == [requests |-> 0, successes |-> 0, errors |-> 0, retries |-> 0, window |-> NoStamps]

NoTotals == [requests |-> 0, errors |-> 0, retries |-> 0]

NoCall == [at |-> "none"]

Places == {"sleeping", "totals", "rate", "domains", "domain", "printing", "dead"}

\* total and sum are parts of the snapshot.  on is the deque being iterated -
\* "dropped" when it belongs to a domain that a reset threw away - and broken says
\* that it was changed.  size and pos are those of the iterator over _domains.
\* reset is history: reset() was under way at some moment of the snapshot.
Asleep == [at |-> "sleeping", total |-> 0, sum |-> 0, size |-> 0, pos |-> 0,
           on |-> None, broken |-> FALSE, reset |-> FALSE]

TypeOK ==
    /\ order \in Seq(Domains) /\ IsInjective(order)
    /\ per \in [Domains -> [requests : Nat, successes : Nat, errors : Nat, retries : Nat,
                            window : [Ages -> Nat]]]
    /\ totals \in [requests : Nat, errors : Nat, retries : Nat]
    /\ recent \in [Ages -> Nat]
    /\ \/ call = NoCall
       \/ call \in [at : {"counting", "stamping", "totalling", "ending"},
                    domain : Domains, success : BOOLEAN, retries : Nat]
       \/ call \in [at : {"cleared", "zeroed"}]
    /\ reader \in [at : Places, total : Nat, sum : Nat, size : Nat, pos : Nat,
                   on : Domains \cup {None, Recent, "dropped"}, broken : BOOLEAN, reset : BOOLEAN]

Init ==
    /\ order = <<>>
    /\ per = [d \in Domains |-> Fresh]
    /\ totals = NoTotals
    /\ recent = NoStamps
    /\ call = NoCall
    /\ reader = Asleep

(***************************************************************************)
(* The event loop.                                                         *)
(***************************************************************************)
\* The reader's iterator notices when its deque is changed.
Changed(deque) == reader' = [reader EXCEPT !.broken = @ \/ reader.on = deque]

\* Mutant of Stamped: what is a minute old is dropped too.
StampedShort(times) == [times EXCEPT ![0] = @ + 1, ![Keep] = 0, ![Keep + 1] = 0]

\* Append now, then drop from the left what is older than a minute.
Stamped(times) == [times EXCEPT ![0] = @ + 1, ![Keep + 1] = 0]

\* Mutant of Enter: the domain is inserted again for every request.
EnterAgain(d, outcome) ==
    /\ call = NoCall /\ totals.requests < MaxRecords
    /\ order' = Append(order, d)
    /\ call' = [at |-> "counting", domain |-> d,
                success |-> outcome.success, retries |-> outcome.retries]
    /\ UNCHANGED <<per, totals, recent, reader>>

Enter(d, outcome) ==
    /\ call = NoCall /\ totals.requests < MaxRecords
    /\ order' = IF d \in Range(order) THEN order ELSE Append(order, d)
    /\ call' = [at |-> "counting", domain |-> d,
                success |-> outcome.success, retries |-> outcome.retries]
    /\ UNCHANGED <<per, totals, recent, reader>>

CountDomain ==
    /\ call.at = "counting"
    /\ per' = [per EXCEPT ![call.domain].requests = @ + 1,
                          ![call.domain].successes = @ + (IF call.success THEN 1 ELSE 0),
                          ![call.domain].errors = @ + (IF call.success THEN 0 ELSE 1),
                          ![call.domain].retries = @ + call.retries]
    /\ call' = [call EXCEPT !.at = "stamping"]
    /\ UNCHANGED <<order, totals, recent, reader>>

StampDomain ==
    /\ call.at = "stamping"
    /\ per' = [per EXCEPT ![call.domain].window = Stamped(@)]
    /\ Changed(call.domain)
    /\ call' = [call EXCEPT !.at = "totalling"]
    /\ UNCHANGED <<order, totals, recent>>

CountTotals ==
    /\ call.at = "totalling"
    /\ totals' = [requests |-> totals.requests + 1,
                  errors   |-> totals.errors + (IF call.success THEN 0 ELSE 1),
                  retries  |-> totals.retries + call.retries]
    /\ call' = [call EXCEPT !.at = "ending"]
    /\ UNCHANGED <<order, per, recent, reader>>

StampTotal ==
    /\ call.at = "ending"
    /\ recent' = Stamped(recent)
    /\ Changed(Recent)
    /\ call' = NoCall
    /\ UNCHANGED <<order, per, totals>>

\* reset() begins.  The DomainMetrics objects are dropped, not cleared.
ClearDomains ==
    /\ call = NoCall
    /\ order' = <<>>
    /\ per' = [d \in Domains |-> Fresh]
    /\ reader' = [reader EXCEPT !.on = IF @ \in Domains THEN "dropped" ELSE @,
                                !.reset = TRUE]
    /\ call' = [at |-> "cleared"]
    /\ UNCHANGED <<totals, recent>>

\* Mutant of ZeroTotals: the count of retries is forgotten.
ZeroTotalsButRetries ==
    /\ call.at = "cleared"
    /\ totals' = [NoTotals EXCEPT !.retries = totals.retries]
    /\ call' = [at |-> "zeroed"]
    /\ UNCHANGED <<order, per, recent, reader>>

ZeroTotals ==
    /\ call.at = "cleared"
    /\ totals' = NoTotals
    /\ call' = [at |-> "zeroed"]
    /\ UNCHANGED <<order, per, recent, reader>>

\* The last statement of reset().  Clearing an empty deque does not change it.
ClearRecent ==
    /\ call.at = "zeroed"
    /\ recent' = NoStamps
    /\ reader' = [reader EXCEPT !.broken = @ \/ (reader.on = Recent /\ recent # NoStamps)]
    /\ call' = NoCall
    /\ UNCHANGED <<order, per, totals>>

Older(times) ==
    [age \in Ages |-> (IF age > 0 THEN times[age - 1] ELSE 0)
                       + (IF age > Keep THEN times[age] ELSE 0)]

Tick ==
    /\ call = NoCall
    /\ per' = [d \in Domains |-> [per[d] EXCEPT !.window = Older(@)]]
    /\ recent' = Older(recent)
    /\ UNCHANGED <<order, totals, call, reader>>

(***************************************************************************)
(* The display thread: snapshot() and its parts.                           *)
(***************************************************************************)
ReadTotals ==
    /\ reader.at = "sleeping"
    /\ reader' = [Asleep EXCEPT !.at = "totals", !.total = totals.requests,
                                !.reset = call.at \in {"cleared", "zeroed"}]

\* _global_rps: the iterator over _recent_times is made, and used up.
BeginRate ==
    /\ reader.at = "totals"
    /\ reader' = [reader EXCEPT !.at = "rate", !.on = Recent, !.broken = FALSE]

EndRate ==
    /\ reader.at = "rate" /\ ~reader.broken
    /\ reader' = [reader EXCEPT !.at = "domains", !.on = None, !.size = Len(order)]

\* The next domain: its counters are read and its rps() begins.
NextDomain ==
    /\ reader.at = "domains" /\ Len(order) = reader.size /\ reader.pos < Len(order)
    /\ LET d == order[reader.pos + 1]
       IN reader' = [reader EXCEPT !.at = "domain", !.pos = @ + 1, !.on = d, !.broken = FALSE,
                                   !.sum = @ + per[d].requests]

EndDomain ==
    /\ reader.at = "domain" /\ ~reader.broken
    /\ reader' = [reader EXCEPT !.at = "domains", !.on = None]

\* Mutant of Show: the total is read after the domains.
ShowLatest ==
    /\ reader.at = "domains" /\ Len(order) = reader.size /\ reader.pos >= Len(order)
    /\ reader' = [reader EXCEPT !.at = "printing", !.total = totals.requests]

Show ==
    /\ reader.at = "domains" /\ Len(order) = reader.size /\ reader.pos >= Len(order)
    /\ reader' = [reader EXCEPT !.at = "printing"]

Sleep ==
    /\ reader.at = "printing"
    /\ reader' = Asleep

\* RuntimeError ends the thread.
Crash ==
    /\ \/ reader.at \in {"rate", "domain"} /\ reader.broken
       \/ reader.at = "domains" /\ Len(order) # reader.size
    /\ reader' = [Asleep EXCEPT !.at = "dead"]

Display ==
    /\ ReadTotals \/ BeginRate \/ EndRate \/ NextDomain \/ EndDomain \/ Show \/ Sleep \/ Crash
    /\ UNCHANGED <<order, per, totals, recent, call>>

Next ==
    \/ \E d \in Domains, outcome \in Outcomes : Enter(d, outcome)
    \/ CountDomain \/ StampDomain \/ CountTotals \/ StampTotal
    \/ ClearDomains \/ ZeroTotals \/ ClearRecent \/ Tick
    \/ Display

Spec == Init /\ [][Next]_vars

(***************************************************************************)
(* Properties.                                                             *)
(***************************************************************************)
\* A sum of natural numbers, as the number of pairs <<d, n>> with n up to the number of d.
Units(count) == UNION {{d} \X (1 .. count[d]) : d \in Domains}

SumOf(count) == Cardinality(Units(count))

Total(field) == SumOf([d \in Domains |-> per[d][field]])

\* Between two calls the global counters are the sums of those of the domains,
\* through any number of resets; and every request of a domain is a success or an
\* error (metrics.py:66-71, 156-160, 198-205).
CountersAgree ==
    call = NoCall =>
        /\ \A f \in DOMAIN totals : Total(f) = totals[f]
        /\ \A d \in Domains : per[d].requests = per[d].successes + per[d].errors

\* The global window has as many stamps of each age as the domains' windows together,
\* although each is cut only when something is put into it, so that the global rate is
\* the sum of the domains' over any time up to a minute; and the global window grows no
\* longer than the traffic of a minute before the last request (metrics.py:73-77, 161-166).
RatesAgree ==
    call = NoCall =>
        /\ \A age \in 0 .. Keep : recent[age] = SumOf([d \in Domains |-> per[d].window[age]])
        /\ recent[0] > 0 => recent[Keep + 1] = 0

\* A snapshot that no reset() overlaps covers its own total when it is printed: the
\* requests of the domains it lists add up to no less than the total read first and
\* no more than has been counted by now, whatever was recorded in between.  One that
\* does meet a reset() may not: between metrics.py:198 and 200 it finds the old total
\* and no domains (metrics.py:184-193).
SnapshotCovered ==
    reader.at = "printing" /\ ~reader.reset =>
        reader.total <= reader.sum /\ reader.sum <= Total("requests")

\* "The thread stops automatically when the Python process exits" (metrics.py:215),
\* and not before.
DisplayLives == reader.at # "dead"
=============================================================================
