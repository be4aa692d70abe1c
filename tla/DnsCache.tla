------------------------------ MODULE DnsCache ------------------------------
(***************************************************************************)
(* AsyncDNSCache (src/blitz/dns_cache.py) used by concurrent callers.      *)
(*                                                                         *)
(* Only the lookup itself suspends: what resolve() does before it, and     *)
(* what it does with the answer, are one action each.  A lookup is made by *)
(* a caller (a miss) or by a background refresh task (a hit close to       *)
(* expiry), and the answers come in any order.                             *)
(*                                                                         *)
(* Entries hold the time they have left.  At 0 an entry has expired and is *)
(* still there, until the next resolve() of the host removes it.  Which    *)
(* addresses an answer lists, and their rotation, is left out.             *)
(***************************************************************************)
EXTENDS Integers, FiniteSets

CONSTANTS
    Hosts,
    Callers,      \* bound: callers with a lookup of their own under way
    Tasks,        \* bound: refresh tasks under way
    TTLs,         \* the ttl of an answer, in ticks
    NegativeTTL,  \* negative_ttl, in ticks
    Margin        \* prefetch_margin, in ticks

None == "none"

ASSUME CacheAssumption ==
    /\ Callers \cap Tasks = {} /\ None \notin Hosts \cup Tasks
    /\ TTLs \subseteq Nat \ {0} /\ NegativeTTL \in Nat /\ Margin \in Nat

VARIABLES
    positive,     \* _cache: per host, ticks to expiry or Absent
    negative,     \* _negative: per host, ticks to expiry or Absent
    refreshing,   \* _refresh_tasks: per host, the task or None
    looking,      \* per caller and task: the host it looks up, or None
    closer,       \* where the call of close() is
    doomed,       \* the tasks close() has cancelled and not seen end
    outdated,     \* history: lookups begun before the last invalidate() of the host
    stale,        \* history: hosts whose positive entry is the answer to one
    late          \* history: a refresh was begun after close() was called

cacheVars == <<positive, negative>>
closeVars == <<closer, doomed>>
histVars == <<outdated, stale, late>>
vars == <<cacheVars, refreshing, looking, closeVars, histVars>>

Absent == -1

Lookers == Callers \cup Tasks

TypeOK ==
    /\ positive \in [Hosts -> {Absent, 0} \cup Nat]
    /\ negative \in [Hosts -> Absent .. NegativeTTL]
    /\ refreshing \in [Hosts -> Tasks \cup {None}]
    /\ looking \in [Lookers -> Hosts \cup {None}]
    /\ closer \in {"open", "gathering", "closed"}
    /\ doomed \subseteq Tasks
    /\ outdated \subseteq Lookers /\ stale \subseteq Hosts /\ late \in BOOLEAN

Init ==
    /\ positive = [h \in Hosts |-> Absent]
    /\ negative = [h \in Hosts |-> Absent]
    /\ refreshing = [h \in Hosts |-> None]
    /\ looking = [l \in Lookers |-> None]
    /\ closer = "open" /\ doomed = {}
    /\ outdated = {} /\ stale = {} /\ late = FALSE

Blocked(h) == negative[h] > 0

Fresh(h) == positive[h] > 0

Running == {t \in Tasks : looking[t] # None}

\* A lookup ends.
Ended(l) ==
    /\ looking' = [looking EXCEPT ![l] = None]
    /\ outdated' = outdated \ {l}

(***************************************************************************)
(* resolve().  A blocked host raises, and nothing changes.                 *)
(***************************************************************************)
\* Mutant of Unblocked: the negative cache is read and not acted upon.
UnblockedAnyhow(h) == negative' = negative

\* The negative entry is absent, or has expired and is removed.
Unblocked(h) ==
    /\ ~Blocked(h)
    /\ negative' = [negative EXCEPT ![h] = Absent]

\* Mutant of ScheduleRefresh: a refresh under way is not looked for.
ScheduleRefreshAlways(h) ==
    \E t \in Tasks \ Running :
        /\ t \notin {refreshing[g] : g \in Hosts}
        /\ refreshing' = [refreshing EXCEPT ![h] = t]
        /\ looking' = [looking EXCEPT ![t] = h]
        /\ late' = (late \/ closer # "open")

\* _schedule_refresh, unless the task registered for the host is still running
ScheduleRefresh(h) ==
    \/ /\ refreshing[h] \in Running
       /\ UNCHANGED <<refreshing, looking, late>>
    \/ /\ refreshing[h] \notin Running
       /\ \E t \in Tasks \ Running :
             /\ t \notin {refreshing[g] : g \in Hosts}
             /\ refreshing' = [refreshing EXCEPT ![h] = t]
             /\ looking' = [looking EXCEPT ![t] = h]
             /\ late' = (late \/ closer # "open")

\* Mutant of Hit: an entry that is used lives on.
HitExtending(h) ==
    /\ Fresh(h) /\ Unblocked(h)
    /\ \E ttl \in TTLs : positive' = [positive EXCEPT ![h] = ttl]
    /\ UNCHANGED <<refreshing, looking, closeVars, histVars>>

\* The cached answer is returned, and refreshed if it is about to expire.
Hit(h) ==
    /\ Fresh(h) /\ Unblocked(h)
    /\ IF positive[h] < Margin
       THEN ScheduleRefresh(h)
       ELSE UNCHANGED <<refreshing, looking, late>>
    /\ UNCHANGED <<positive, closeVars, outdated, stale>>

\* No entry, or an expired one: it is removed and the caller looks the host up.
Miss(c, h) ==
    /\ looking[c] = None
    /\ ~Fresh(h) /\ Unblocked(h)
    /\ positive' = [positive EXCEPT ![h] = Absent]
    /\ looking' = [looking EXCEPT ![c] = h]
    /\ stale' = stale \ {h}
    /\ UNCHANGED <<refreshing, closeVars, outdated, late>>

(***************************************************************************)
(* The answers.                                                            *)
(***************************************************************************)
\* An answer for host h is stored.  The negative cache is not looked at.
Stored(l, h) ==
    /\ \E ttl \in TTLs : positive' = [positive EXCEPT ![h] = ttl]
    /\ stale' = IF l \in outdated THEN stale \cup {h} ELSE stale \ {h}

\* The caller's lookup succeeds.
Answer(c) ==
    /\ looking[c] # None
    /\ Stored(c, looking[c]) /\ Ended(c)
    /\ UNCHANGED <<negative, refreshing, closeVars, late>>

\* Mutant of Fail: the time is added to what is left of an earlier block.
FailAdding(c) ==
    /\ looking[c] # None
    /\ negative' = [negative EXCEPT ![looking[c]] = @ + NegativeTTL]
    /\ Ended(c)
    /\ UNCHANGED <<positive, refreshing, closeVars, stale, late>>

\* The caller's lookup fails.  The positive cache is not looked at.
Fail(c) ==
    /\ looking[c] # None
    /\ negative' = [negative EXCEPT ![looking[c]] = NegativeTTL]
    /\ Ended(c)
    /\ UNCHANGED <<positive, refreshing, closeVars, stale, late>>

\* The caller is cancelled in its lookup.
Cancel(c) ==
    /\ looking[c] # None
    /\ Ended(c)
    /\ UNCHANGED <<cacheVars, refreshing, closeVars, stale, late>>

\* The finally block of _background_refresh: whichever task is registered goes.
Unregistered(h) == refreshing' = [refreshing EXCEPT ![h] = None]

RefreshAnswer(t) ==
    /\ looking[t] # None /\ t \notin doomed
    /\ Stored(t, looking[t]) /\ Ended(t)
    /\ Unregistered(looking[t])
    /\ UNCHANGED <<negative, closeVars, late>>

\* A refresh that fails leaves no trace.
RefreshFail(t) ==
    /\ looking[t] # None /\ t \notin doomed
    /\ Ended(t)
    /\ Unregistered(looking[t])
    /\ UNCHANGED <<cacheVars, closeVars, stale, late>>

\* The cancellation by close() arrives: in the lookup, or before the task's
\* first step, and then the finally block does not run.
RefreshCancelled(t) ==
    /\ t \in doomed
    /\ Ended(t)
    /\ doomed' = doomed \ {t}
    /\ Unregistered(looking[t]) \/ UNCHANGED refreshing
    /\ UNCHANGED <<cacheVars, closer, stale, late>>

LookupEnds(l) ==
    \/ l \in Callers /\ (Answer(l) \/ Fail(l))
    \/ l \in Tasks /\ (RefreshAnswer(l) \/ RefreshFail(l) \/ RefreshCancelled(l))

(***************************************************************************)
(* The rest of the interface, and time.                                    *)
(***************************************************************************)
\* invalidate()
Invalidate(h) ==
    /\ positive' = [positive EXCEPT ![h] = Absent]
    /\ negative' = [negative EXCEPT ![h] = Absent]
    /\ outdated' = outdated \cup {l \in Lookers : looking[l] = h}
    /\ stale' = stale \ {h}
    /\ UNCHANGED <<refreshing, looking, closeVars, late>>

\* Mutant of Close: the tasks are cancelled and not waited for.
CloseAtOnce ==
    /\ closer = "open"
    /\ closer' = "closed"
    /\ doomed' = {refreshing[h] : h \in Hosts} \cap Running
    /\ refreshing' = [h \in Hosts |-> None]
    /\ UNCHANGED <<cacheVars, looking, histVars>>

\* close() up to its gather
Close ==
    /\ closer = "open"
    /\ closer' = "gathering"
    /\ doomed' = {refreshing[h] : h \in Hosts} \cap Running
    /\ UNCHANGED <<cacheVars, refreshing, looking, histVars>>

\* Mutant of CloseReturns: the tasks are relied upon to unregister themselves.
CloseReturnsWhenEmpty ==
    /\ closer = "gathering" /\ \A h \in Hosts : refreshing[h] = None
    /\ closer' = "closed"
    /\ UNCHANGED <<cacheVars, refreshing, looking, doomed, histVars>>

\* The tasks that were cancelled have ended, and _refresh_tasks is cleared.
CloseReturns ==
    /\ closer = "gathering" /\ doomed = {}
    /\ closer' = "closed"
    /\ refreshing' = [h \in Hosts |-> None]
    /\ UNCHANGED <<cacheVars, looking, doomed, histVars>>

OneLess(n) == IF n > 0 THEN n - 1 ELSE n

Tick ==
    /\ positive' = [h \in Hosts |-> OneLess(positive[h])]
    /\ negative' = [h \in Hosts |-> OneLess(negative[h])]
    /\ UNCHANGED <<refreshing, looking, closeVars, histVars>>

Next ==
    \/ \E h \in Hosts : Hit(h) \/ Invalidate(h) \/ \E c \in Callers : Miss(c, h)
    \/ \E c \in Callers : Cancel(c)
    \/ \E l \in Lookers : LookupEnds(l)
    \/ Close \/ CloseReturns
    \/ Tick

\* Time passes and every lookup is answered, fails or is cancelled.
Fairness ==
    /\ WF_vars(Tick) /\ WF_vars(CloseReturns)
    /\ \A l \in Lookers : WF_vars(LookupEnds(l))

Spec == Init /\ [][Next]_vars /\ Fairness

(***************************************************************************)
(* Properties.                                                             *)
(***************************************************************************)
\* Until close() is called there is at most one refresh under way per host, and
\* it is the one registered for the host, however refreshes end and entries are
\* invalidated meanwhile (dns_cache.py:168-183).
OneRefresh ==
    closer = "open" =>
        /\ \A t \in Running : refreshing[looking[t]] = t
        /\ \A h \in Hosts : refreshing[h] # None => looking[refreshing[h]] = h

\* "After NEGATIVE_TTL, the hostname can be resolved again"
\* (tests/test_dns_cache.py:141): however often it is asked for in the meantime,
\* and although each failure that arrives late blocks it anew.
BlockLifts == \A h \in Hosts : Blocked(h) ~> ~Blocked(h)

\* An answer from before an invalidate() that is stored after it
\* (dns_cache.py:126-134, 178-179) is served until it expires, and not for ever.
StaleFades == \A h \in Hosts : h \in stale /\ Fresh(h) ~> ~(h \in stale /\ Fresh(h))

\* "Cancel all background refresh tasks" (dns_cache.py:150): when close() has
\* returned none is left, unless a resolve() began one while close() waited.
ClosedQuiet == closer = "closed" /\ ~late => Running = {}

\* close() returns, although the tasks it waits for do not all clean up after
\* themselves (dns_cache.py:151-156).
CloseEnds == closer = "gathering" ~> closer = "closed"
=============================================================================
