--------------------------- MODULE DnsCache_proofs ---------------------------
(***************************************************************************)
(* Proofs about DnsCache, for any hosts, callers and tasks.                *)
(*                                                                         *)
(* While the cache is open the registered tasks and the running ones are   *)
(* the same, host by host (OneRefresh); so close() finds all of them, and  *)
(* CloseInv follows what becomes of them.                                  *)
(***************************************************************************)
EXTENDS DnsCache, TLAPS

CloseInv ==
    /\ doomed \subseteq Running
    /\ closer = "open" => doomed = {} /\ ~late
    /\ closer = "gathering" /\ ~late => Running \subseteq doomed
    /\ ClosedQuiet

IInv == TypeOK /\ OneRefresh /\ CloseInv

(***************************************************************************)
(* Steps that leave the tasks alone, or end or begin one.                  *)
(***************************************************************************)
\* What only callers do leaves the invariants of the tasks as they are.
LEMMA CallerLemma ==
    ASSUME TypeOK, OneRefresh, CloseInv, NEW c \in Callers, NEW v,
           looking' = [looking EXCEPT ![c] = v],
           UNCHANGED <<refreshing, closer, doomed, late>>
    PROVE  OneRefresh' /\ CloseInv'
<1>1. \A t \in Tasks : looking'[t] = looking[t]
  BY CacheAssumption DEF TypeOK, Lookers
<1>2. Running' = Running
  BY <1>1 DEF Running
<1>3. OneRefresh'
  <2>1. \A h \in Hosts : refreshing[h] \in Tasks \cup {None}
    BY DEF TypeOK
  <2> QED BY <1>1, <1>2, <2>1 DEF OneRefresh, Running
<1> QED BY <1>2, <1>3 DEF CloseInv, ClosedQuiet

\* A step that leaves tasks and close() alone leaves their invariants alone.
LEMMA IdleLemma ==
    ASSUME OneRefresh, CloseInv, UNCHANGED <<looking, refreshing, closer, doomed, late>>
    PROVE  OneRefresh' /\ CloseInv'
  BY DEF OneRefresh, CloseInv, ClosedQuiet, Running

\* A task that ends and unregisters its host leaves one refresh for each other host.
LEMMA TaskEndsLemma ==
    ASSUME TypeOK, OneRefresh, CloseInv, NEW t \in Tasks, looking[t] # None,
           looking' = [looking EXCEPT ![t] = None],
           \/ Unregistered(looking[t]) /\ t \notin doomed /\ doomed' = doomed
           \/ /\ Unregistered(looking[t]) \/ UNCHANGED refreshing
              /\ t \in doomed /\ doomed' = doomed \ {t},
           UNCHANGED <<closer, late>>
    PROVE  OneRefresh' /\ CloseInv' /\ refreshing' \in [Hosts -> Tasks \cup {None}]
<1>1. /\ looking \in [Lookers -> Hosts \cup {None}]
      /\ refreshing \in [Hosts -> Tasks \cup {None}]
      /\ looking[t] \in Hosts
  BY DEF TypeOK, Lookers
<1>2. Running' = Running \ {t} /\ t \in Running
  BY <1>1 DEF Running, Lookers
<1>3. CloseInv'
  BY <1>2 DEF CloseInv, ClosedQuiet
<1>4. refreshing' \in [Hosts -> Tasks \cup {None}]
  BY <1>1 DEF Unregistered
<1>5. ASSUME closer = "open"
      PROVE  /\ \A u \in Running' : refreshing'[looking'[u]] = u
             /\ \A h \in Hosts : refreshing'[h] # None => looking'[refreshing'[h]] = h
  <2>1. refreshing' = [refreshing EXCEPT ![looking[t]] = None]
    BY <1>5 DEF CloseInv, Unregistered
  <2>2. /\ \A u \in Running : refreshing[looking[u]] = u
        /\ \A h \in Hosts : refreshing[h] # None => looking[refreshing[h]] = h
    BY <1>5 DEF OneRefresh
  <2>3. ASSUME NEW u \in Running' PROVE refreshing'[looking'[u]] = u
    <3>1. u \in Running /\ u # t /\ u \in Lookers /\ looking[u] \in Hosts
      BY <1>1, <1>2, <2>3 DEF Running, Lookers
    <3>2. looking[u] # looking[t]
      BY <1>2, <2>2, <3>1
    <3> QED BY <1>1, <2>1, <2>2, <3>1, <3>2
  <2>4. ASSUME NEW h \in Hosts, refreshing'[h] # None
        PROVE  looking'[refreshing'[h]] = h
    <3>1. h # looking[t] /\ refreshing'[h] = refreshing[h] /\ refreshing[h] \in Tasks
      BY <1>1, <2>1, <2>4
    <3>2. looking[refreshing[h]] = h
      BY <2>2, <2>4, <3>1
    <3> QED BY <1>1, <3>1, <3>2 DEF Lookers
  <2> QED BY <2>3, <2>4
<1>6. OneRefresh'
  BY <1>5 DEF OneRefresh
<1> QED BY <1>3, <1>4, <1>6

\* A refresh is begun only for a host that has none.
LEMMA ScheduleLemma ==
    ASSUME TypeOK, OneRefresh, CloseInv, NEW h \in Hosts, ScheduleRefresh(h),
           UNCHANGED <<closer, doomed>>
    PROVE  /\ OneRefresh' /\ CloseInv' /\ late' \in BOOLEAN
           /\ refreshing' \in [Hosts -> Tasks \cup {None}]
           /\ looking' \in [Lookers -> Hosts \cup {None}]
<1>1. /\ looking \in [Lookers -> Hosts \cup {None}]
      /\ refreshing \in [Hosts -> Tasks \cup {None}]
      /\ late \in BOOLEAN
  BY DEF TypeOK
<1>2. CASE UNCHANGED <<refreshing, looking, late>>
  BY <1>1, <1>2, IdleLemma
<1>3. CASE /\ refreshing[h] \notin Running
           /\ \E t \in Tasks \ Running :
                 /\ t \notin {refreshing[g] : g \in Hosts}
                 /\ refreshing' = [refreshing EXCEPT ![h] = t]
                 /\ looking' = [looking EXCEPT ![t] = h]
                 /\ late' = (late \/ closer # "open")
  <2>1. PICK t \in Tasks \ Running :
           /\ t \notin {refreshing[g] : g \in Hosts}
           /\ refreshing' = [refreshing EXCEPT ![h] = t]
           /\ looking' = [looking EXCEPT ![t] = h]
           /\ late' = (late \/ closer # "open")
    BY <1>3
  <2>2. /\ late' \in BOOLEAN
        /\ refreshing' \in [Hosts -> Tasks \cup {None}]
        /\ looking' \in [Lookers -> Hosts \cup {None}]
    BY <1>1, <2>1 DEF Lookers
  <2>3. Running' = Running \cup {t}
    BY <1>1, <2>1, CacheAssumption DEF Running, Lookers
  <2>4. CloseInv'
    BY <2>1, <2>3, <1>1 DEF CloseInv, ClosedQuiet, TypeOK
  <2>5. ASSUME closer = "open"
        PROVE  /\ \A u \in Running' : refreshing'[looking'[u]] = u
               /\ \A g \in Hosts : refreshing'[g] # None => looking'[refreshing'[g]] = g
    <3>1. /\ \A u \in Running : refreshing[looking[u]] = u
          /\ \A g \in Hosts : refreshing[g] # None => looking[refreshing[g]] = g
      BY <2>5 DEF OneRefresh
    <3>2. ASSUME NEW u \in Running' PROVE refreshing'[looking'[u]] = u
      <4>1. CASE u = t
        BY <4>1, <1>1, <2>1 DEF Lookers
      <4>2. CASE u # t
        <5>1. u \in Running /\ looking'[u] = looking[u] /\ looking[u] \in Hosts
          BY <4>2, <1>1, <2>1, <2>3, <3>2 DEF Running, Lookers
        <5>2. looking[u] # h
          BY <5>1, <3>1, <1>3
        <5> QED BY <5>1, <5>2, <3>1, <2>1, <1>1
      <4> QED BY <4>1, <4>2
    <3>3. ASSUME NEW g \in Hosts, refreshing'[g] # None
          PROVE  looking'[refreshing'[g]] = g
      <4>1. CASE g = h
        BY <4>1, <1>1, <2>1 DEF Lookers
      <4>2. CASE g # h
        <5>1. refreshing'[g] = refreshing[g] /\ refreshing[g] \in Tasks /\ refreshing[g] # t
          BY <4>2, <1>1, <2>1, <3>3
        <5> QED BY <5>1, <3>1, <3>3, <1>1, <2>1 DEF Lookers
      <4> QED BY <4>1, <4>2
    <3> QED BY <3>2, <3>3
  <2>6. OneRefresh'
    BY <2>5 DEF OneRefresh
  <2> QED BY <2>2, <2>4, <2>6
<1> QED BY <1>2, <1>3 DEF ScheduleRefresh

(***************************************************************************)
(* The two caches keep their types.                                        *)
(***************************************************************************)
CacheType ==
    /\ positive \in [Hosts -> {Absent, 0} \cup Nat]
    /\ negative \in [Hosts -> Absent .. NegativeTTL]

\* An absent entry, a new one and one that ages are entries.
LEMMA CacheTypeLemma ==
    ASSUME CacheType, NEW h \in Hosts,
           \/ positive' = positive
           \/ positive' = [positive EXCEPT ![h] = Absent]
           \/ \E ttl \in TTLs : positive' = [positive EXCEPT ![h] = ttl],
           \/ negative' = negative
           \/ negative' = [negative EXCEPT ![h] = Absent]
           \/ negative' = [negative EXCEPT ![h] = NegativeTTL]
    PROVE  CacheType'
<1>1. /\ \A ttl \in TTLs : ttl \in {Absent, 0} \cup Nat
      /\ Absent \in {Absent, 0} \cup Nat
      /\ Absent \in Absent .. NegativeTTL /\ NegativeTTL \in Absent .. NegativeTTL
  BY CacheAssumption DEF Absent
<1>2. positive' \in [Hosts -> {Absent, 0} \cup Nat]
  BY <1>1 DEF CacheType
<1>3. negative' \in [Hosts -> Absent .. NegativeTTL]
  BY <1>1 DEF CacheType
<1> QED BY <1>2, <1>3 DEF CacheType

(***************************************************************************)
(* The invariant.                                                          *)
(***************************************************************************)
\* The invariant holds of a new cache.
LEMMA InitIInv == Init => IInv
<1> SUFFICES ASSUME Init PROVE IInv
  OBVIOUS
<1>1. Absent \in {Absent, 0} \cup Nat /\ Absent \in Absent .. NegativeTTL
  BY CacheAssumption DEF Absent
<1>2. TypeOK
  BY <1>1 DEF Init, TypeOK
<1>3. Running = {}
  BY DEF Init, Running, Lookers
<1>4. OneRefresh /\ CloseInv
  BY <1>3 DEF Init, OneRefresh, CloseInv, ClosedQuiet
<1> QED BY <1>2, <1>4 DEF IInv

\* Every step preserves the invariant.
LEMMA NextIInv == IInv /\ [Next]_vars => IInv'
<1> SUFFICES ASSUME IInv, [Next]_vars PROVE IInv'
  OBVIOUS
<1> USE DEF cacheVars, closeVars, histVars
<1>t. TypeOK /\ OneRefresh /\ CloseInv /\ CacheType
  BY DEF IInv, TypeOK, CacheType
<1>p. /\ looking \in [Lookers -> Hosts \cup {None}]
      /\ outdated \subseteq Lookers /\ stale \subseteq Hosts /\ Callers \subseteq Lookers
      /\ Tasks \subseteq Lookers
  BY <1>t DEF TypeOK, Lookers
<1>1. ASSUME NEW h \in Hosts, Hit(h) PROVE IInv'
  <2>1. /\ negative' = [negative EXCEPT ![h] = Absent]
        /\ ScheduleRefresh(h) \/ UNCHANGED <<refreshing, looking, late>>
        /\ UNCHANGED <<positive, closer, doomed, outdated, stale>>
    BY <1>1 DEF Hit, Unblocked
  <2>2. CacheType'
    BY <2>1, <1>t, CacheTypeLemma
  <2>3. /\ OneRefresh' /\ CloseInv' /\ late' \in BOOLEAN
        /\ refreshing' \in [Hosts -> Tasks \cup {None}]
        /\ looking' \in [Lookers -> Hosts \cup {None}]
    <3>1. CASE ScheduleRefresh(h)
      BY <2>1, <3>1, <1>t, ScheduleLemma
    <3>2. CASE UNCHANGED <<refreshing, looking, late>>
      BY <2>1, <3>2, <1>t, IdleLemma DEF TypeOK
    <3> QED BY <2>1, <3>1, <3>2
  <2>4. TypeOK'
    BY <2>1, <2>2, <2>3, <1>t DEF TypeOK, CacheType
  <2> QED BY <2>3, <2>4 DEF IInv
<1>2. ASSUME NEW h \in Hosts, NEW c \in Callers, Miss(c, h) PROVE IInv'
  <2>1. /\ negative' = [negative EXCEPT ![h] = Absent]
        /\ positive' = [positive EXCEPT ![h] = Absent]
        /\ looking' = [looking EXCEPT ![c] = h]
        /\ stale' = stale \ {h}
        /\ UNCHANGED <<refreshing, closer, doomed, outdated, late>>
    BY <1>2 DEF Miss, Unblocked
  <2>2. CacheType'
    BY <2>1, <1>t, CacheTypeLemma
  <2>3. OneRefresh' /\ CloseInv'
    BY <2>1, <1>t, CallerLemma
  <2>4. looking' \in [Lookers -> Hosts \cup {None}]
    BY <2>1, <1>p
  <2>5. TypeOK'
    BY <2>1, <2>2, <2>4, <1>t DEF TypeOK, CacheType
  <2> QED BY <2>3, <2>5 DEF IInv
<1>3. ASSUME NEW c \in Callers, Answer(c) \/ Fail(c) \/ Cancel(c) PROVE IInv'
  <2>1. /\ looking[c] # None /\ looking' = [looking EXCEPT ![c] = None]
        /\ outdated' = outdated \ {c}
        /\ UNCHANGED <<refreshing, closer, doomed, late>>
    BY <1>3 DEF Answer, Fail, Cancel, Ended
  <2>2. looking[c] \in Hosts
    BY <2>1, <1>p
  <2>3. /\ \/ positive' = positive
           \/ \E ttl \in TTLs : positive' = [positive EXCEPT ![looking[c]] = ttl]
        /\ \/ negative' = negative
           \/ negative' = [negative EXCEPT ![looking[c]] = NegativeTTL]
        /\ stale' \subseteq stale \cup {looking[c]}
    BY <1>3 DEF Answer, Fail, Cancel, Stored
  <2>4. CacheType'
    BY <2>2, <2>3, <1>t, CacheTypeLemma
  <2>5. OneRefresh' /\ CloseInv'
    BY <2>1, <1>t, CallerLemma
  <2>6. looking' \in [Lookers -> Hosts \cup {None}]
    BY <2>1, <1>p
  <2>7. stale' \subseteq Hosts /\ outdated' \subseteq Lookers
    BY <2>1, <2>2, <2>3, <1>p
  <2>8. TypeOK'
    BY <2>1, <2>4, <2>6, <2>7, <1>t DEF TypeOK, CacheType
  <2> QED BY <2>5, <2>8 DEF IInv
<1>4. ASSUME NEW t \in Tasks, RefreshAnswer(t) \/ RefreshFail(t) \/ RefreshCancelled(t)
      PROVE  IInv'
  <2>1. /\ looking[t] # None /\ looking' = [looking EXCEPT ![t] = None]
        /\ outdated' = outdated \ {t}
        /\ \/ Unregistered(looking[t]) /\ t \notin doomed /\ doomed' = doomed
           \/ /\ Unregistered(looking[t]) \/ UNCHANGED refreshing
              /\ t \in doomed /\ doomed' = doomed \ {t}
        /\ UNCHANGED <<negative, closer, late>>
    BY <1>4, <1>t DEF RefreshAnswer, RefreshFail, RefreshCancelled, Ended, CloseInv, Running
  <2>2. looking[t] \in Hosts
    BY <2>1, <1>p
  <2>3. /\ \/ positive' = positive
           \/ \E ttl \in TTLs : positive' = [positive EXCEPT ![looking[t]] = ttl]
        /\ stale' \subseteq stale \cup {looking[t]}
    BY <1>4 DEF RefreshAnswer, RefreshFail, RefreshCancelled, Stored
  <2>4. CacheType'
    BY <2>1, <2>2, <2>3, <1>t, CacheTypeLemma
  <2>5. OneRefresh' /\ CloseInv' /\ refreshing' \in [Hosts -> Tasks \cup {None}]
    BY <2>1, <1>t, TaskEndsLemma
  <2>6. looking' \in [Lookers -> Hosts \cup {None}]
    BY <2>1, <1>p
  <2>7. stale' \subseteq Hosts /\ outdated' \subseteq Lookers /\ doomed' \subseteq Tasks
    BY <2>1, <2>2, <2>3, <1>p, <1>t DEF TypeOK
  <2>8. TypeOK'
    BY <2>1, <2>4, <2>5, <2>6, <2>7, <1>t DEF TypeOK, CacheType
  <2> QED BY <2>5, <2>8 DEF IInv
<1>5. ASSUME NEW h \in Hosts, Invalidate(h) PROVE IInv'
  <2>1. /\ negative' = [negative EXCEPT ![h] = Absent]
        /\ positive' = [positive EXCEPT ![h] = Absent]
        /\ outdated' \subseteq Lookers /\ stale' \subseteq Hosts
        /\ UNCHANGED <<refreshing, looking, closer, doomed, late>>
    BY <1>5, <1>p DEF Invalidate
  <2>2. CacheType'
    BY <2>1, <1>t, CacheTypeLemma
  <2>3. OneRefresh' /\ CloseInv'
    BY <2>1, <1>t, IdleLemma
  <2>4. TypeOK'
    BY <2>1, <2>2, <1>t DEF TypeOK, CacheType
  <2> QED BY <2>3, <2>4 DEF IInv
<1>6. CASE Close
  <2>1. /\ closer = "open" /\ closer' = "gathering"
        /\ doomed' = {refreshing[h] : h \in Hosts} \cap Running
        /\ UNCHANGED <<positive, negative, refreshing, looking, outdated, stale, late>>
    BY <1>6 DEF Close
  <2>2. Running' = Running /\ Running \subseteq Tasks
    BY <2>1 DEF Running
  <2>3. \A t \in Running : looking[t] \in Hosts /\ refreshing[looking[t]] = t
    BY <2>1, <1>p, <1>t DEF OneRefresh, Running
  <2>4. Running \subseteq doomed' /\ doomed' \subseteq Running
    BY <2>1, <2>3
  <2>5. OneRefresh' /\ CloseInv'
    BY <2>1, <2>2, <2>4 DEF OneRefresh, CloseInv, ClosedQuiet
  <2>6. TypeOK'
    BY <2>1, <2>2, <2>4, <1>t DEF TypeOK
  <2> QED BY <2>5, <2>6 DEF IInv
<1>7. CASE CloseReturns
  <2>1. /\ closer = "gathering" /\ doomed = {} /\ closer' = "closed"
        /\ refreshing' = [h \in Hosts |-> None]
        /\ UNCHANGED <<positive, negative, looking, doomed, outdated, stale, late>>
    BY <1>7 DEF CloseReturns
  <2>2. Running' = Running
    BY <2>1 DEF Running
  <2>3. OneRefresh' /\ CloseInv'
    BY <2>1, <2>2, <1>t DEF OneRefresh, CloseInv, ClosedQuiet
  <2>4. TypeOK'
    BY <2>1, <1>t DEF TypeOK
  <2> QED BY <2>3, <2>4 DEF IInv
<1>8. CASE Tick
  <2>1. /\ positive' = [h \in Hosts |-> OneLess(positive[h])]
        /\ negative' = [h \in Hosts |-> OneLess(negative[h])]
        /\ UNCHANGED <<refreshing, looking, closer, doomed, outdated, stale, late>>
    BY <1>8 DEF Tick
  <2>2. ASSUME NEW h \in Hosts
        PROVE  /\ OneLess(positive[h]) \in {Absent, 0} \cup Nat
               /\ OneLess(negative[h]) \in Absent .. NegativeTTL
    <3>1. positive[h] \in {Absent, 0} \cup Nat /\ negative[h] \in Absent .. NegativeTTL
      BY <1>t DEF CacheType
    <3> QED BY <3>1, CacheAssumption DEF OneLess, Absent
  <2>3. CacheType'
    BY <2>1, <2>2 DEF CacheType
  <2>4. OneRefresh' /\ CloseInv'
    BY <2>1, <1>t, IdleLemma
  <2>5. TypeOK'
    BY <2>1, <2>3, <1>t DEF TypeOK, CacheType
  <2> QED BY <2>4, <2>5 DEF IInv
<1>9. CASE UNCHANGED vars
  <2>1. OneRefresh' /\ CloseInv'
    BY <1>9, <1>t, IdleLemma DEF vars
  <2>2. TypeOK'
    BY <1>9, <1>t DEF vars, TypeOK
  <2> QED BY <2>1, <2>2 DEF IInv
<1> QED
  BY <1>1, <1>2, <1>3, <1>4, <1>5, <1>6, <1>7, <1>8, <1>9 DEF Next, LookupEnds

\* The inductive invariant holds throughout: TypeOK, OneRefresh and CloseInv.
THEOREM Invariance == Spec => []IInv
<1>1. Init => IInv
  BY InitIInv
<1>2. IInv /\ [Next]_vars => IInv'
  BY NextIInv
<1> QED BY <1>1, <1>2, PTL DEF Spec

(***************************************************************************)
(* What follows from it.                                                   *)
(***************************************************************************)
\* A block never has longer to run than NegativeTTL, however many failures arrive,
\* and the tables stay well formed, for any hosts, callers and tasks (TypeOK).
THEOREM TypeCorrect == Spec => []TypeOK
<1>1. IInv => TypeOK
  BY DEF IInv
<1> QED BY <1>1, Invariance, PTL

\* Until close() is called each host has at most one refresh under way, the one
\* registered for it (OneRefresh).
THEOREM OneAtATime == Spec => []OneRefresh
<1>1. IInv => OneRefresh
  BY DEF IInv
<1> QED BY <1>1, Invariance, PTL

\* close() leaves no refresh behind, unless one was begun while it waited
\* (ClosedQuiet).
THEOREM Quiet == Spec => []ClosedQuiet
<1>1. IInv => ClosedQuiet
  BY DEF IInv, CloseInv
<1> QED BY <1>1, Invariance, PTL
=============================================================================
