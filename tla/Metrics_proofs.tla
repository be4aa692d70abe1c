--------------------------- MODULE Metrics_proofs ---------------------------
(***************************************************************************)
(* Proofs about Metrics, for any finite set of domains, any outcomes of    *)
(* requests and any time that timestamps are kept.                         *)
(*                                                                         *)
(* The properties speak of moments at which no call of record() or reset() *)
(* is under way, or a snapshot is printed.  CountsInv says how the counters *)
(* are related in the midst of a call, when the totals are behind the      *)
(* domains' or not zeroed yet, StampsAgree the same of the windows, and    *)
(* SnapshotInv what a snapshot has read and still has to read: what it has *)
(* summed up and what is left of the domains lie between its total and the *)
(* sum of all domains.                                                     *)
(***************************************************************************)
EXTENDS Metrics, FiniteSetTheorems, TLAPS

\* Where a call of record() may be, and one of reset().
Recording == {"counting", "stamping", "totalling", "ending"}

Resetting == {"cleared", "zeroed"}

\* A domain is counted only once it is in the dictionary.
OrderInv ==
    /\ call.at \in Recording => call.domain \in Range(order)
    /\ \A d \in Domains \ Range(order) : per[d].requests = 0

Fields == {"requests", "errors", "retries"}

\* What the call under way has added to its domain and not yet to the totals.
Ahead ==
    IF call.at \in {"stamping", "totalling"}
    THEN [requests |-> 1, errors |-> IF call.success THEN 0 ELSE 1, retries |-> call.retries]
    ELSE NoTotals

\* The domains are ahead of the totals, unless they are cleared already.
Balanced ==
    \A f \in Fields : Total(f) = IF call.at = "cleared" THEN 0 ELSE totals[f] + Ahead[f]

Divided == \A d \in Domains : per[d].requests = per[d].successes + per[d].errors

CountsInv == Balanced /\ Divided

\* The stamp that the call under way has put into its domain's window only.
StampAhead == IF call.at \in {"totalling", "ending"} THEN 1 ELSE 0

\* What the window of everything accounts for: nothing once the domains are cleared.
Accounted(age) ==
    IF call.at \in Resetting THEN 0 ELSE recent[age] + (IF age = 0 THEN StampAhead ELSE 0)

\* The stamps of one age in the windows of all domains.
Stamps(age) == SumOf([d \in Domains |-> per[d].window[age]])

StampsAgree ==
    /\ \A age \in 0 .. Keep : Stamps(age) = Accounted(age)
    /\ recent[0] > 0 => recent[Keep + 1] = 0

\* The domains that the snapshot has read.
DomainsRead == {order[k] : k \in 1 .. reader.pos}

\* What it has still to read.
Left == [d \in Domains |-> IF d \in DomainsRead THEN 0 ELSE per[d].requests]

Reading == {"totals", "rate", "domains", "domain"}

SnapshotInv ==
    /\ reader.at \in Reading /\ ~reader.reset =>
          /\ reader.pos <= Len(order)
          /\ reader.total <= reader.sum + SumOf(Left)
          /\ reader.sum + SumOf(Left) <= Total("requests")
    /\ SnapshotCovered

IInv == TypeOK /\ OrderInv /\ CountsInv /\ StampsAgree /\ SnapshotInv

(***************************************************************************)
(* Sums.                                                                   *)
(***************************************************************************)
\* A sum over the domains is a natural number.
LEMMA SumType ==
    ASSUME NEW c \in [Domains -> Nat]
    PROVE  IsFiniteSet(Units(c)) /\ SumOf(c) \in Nat
<1> DEFINE part == [d \in Domains |-> {d} \X (1 .. c[d])]
           Parts == {part[d] : d \in Domains}
<1>1. part \in Surjection(Domains, Parts)
  BY DEF Surjection
<1>2. IsFiniteSet(Parts)
  BY <1>1, FS_Surjection, MetricsAssumption
<1>3. \A T \in Parts : IsFiniteSet(T)
  <2> SUFFICES ASSUME NEW d \in Domains PROVE IsFiniteSet({d} \X (1 .. c[d]))
    OBVIOUS
  <2>1. c[d] \in Int
    OBVIOUS
  <2>2. IsFiniteSet(1 .. c[d])
    BY <2>1, FS_Interval
  <2>3. IsFiniteSet({d})
    BY FS_Singleton
  <2> QED BY <2>2, <2>3, FS_Product, Zenon
<1>4. Units(c) = UNION Parts
  BY DEF Units
<1>5. IsFiniteSet(Units(c))
  BY <1>2, <1>3, <1>4, FS_UNION, Zenon
<1> QED BY <1>5, FS_CardinalityType DEF SumOf

\* A sum grows by what one of its terms grows by.
LEMMA SumAdd ==
    ASSUME NEW c \in [Domains -> Nat], NEW e \in [Domains -> Nat],
           NEW d \in Domains, NEW k \in Nat,
           e[d] = c[d] + k, \A x \in Domains \ {d} : e[x] = c[x]
    PROVE  SumOf(e) = SumOf(c) + k
<1> DEFINE New == {d} \X (c[d] + 1 .. c[d] + k)
<1>1. PICK n \in Nat : n = c[d]
  OBVIOUS
<1>2. /\ IsFiniteSet(n + 1 .. n + k)
      /\ Cardinality(n + 1 .. n + k) = IF n + 1 > n + k THEN 0 ELSE (n + k) - (n + 1) + 1
  <2>1. n + 1 \in Int /\ n + k \in Int
    OBVIOUS
  <2> QED BY <2>1, FS_Interval, Zenon
<1>3. Cardinality(n + 1 .. n + k) = k
  BY <1>2
<1>4. IsFiniteSet({d}) /\ Cardinality({d}) = 1
  BY FS_Singleton
<1>5. IsFiniteSet(New) /\ Cardinality(New) = Cardinality({d}) * Cardinality(n + 1 .. n + k)
  BY <1>1, <1>2, <1>4, FS_Product, Zenon
<1>6. Cardinality(New) = k
  BY <1>3, <1>4, <1>5
<1>7. Units(e) = Units(c) \cup New
  <2>1. ASSUME NEW x \in Domains, NEW i PROVE i \in 1 .. e[x] <=> i \in 1 .. c[x] \/ (x = d /\ i \in c[d] + 1 .. c[d] + k)
    <3>1. CASE x = d
      BY <3>1
    <3>2. CASE x # d
      BY <3>2
    <3> QED BY <3>1, <3>2
  <2>2. \A p : p \in Units(e) <=> \E x \in Domains : \E i \in 1 .. e[x] : p = <<x, i>>
    BY DEF Units
  <2>3. \A p : p \in Units(c) <=> \E x \in Domains : \E i \in 1 .. c[x] : p = <<x, i>>
    BY DEF Units
  <2>4. \A p : p \in New <=> \E i \in c[d] + 1 .. c[d] + k : p = <<d, i>>
    OBVIOUS
  <2> HIDE DEF New
  <2> QED BY <2>1, <2>2, <2>3, <2>4
<1>8. Units(c) \cap New = {}
  BY DEF Units
<1>9. IsFiniteSet(Units(c)) /\ Cardinality(Units(c)) \in Nat
  BY SumType DEF SumOf
<1> HIDE DEF New
<1>10. Cardinality(Units(c) \cup New)
         = Cardinality(Units(c)) + Cardinality(New) - Cardinality(Units(c) \cap New)
  BY <1>5, <1>9, FS_Union
<1>11. Cardinality(Units(e)) = Cardinality(Units(c)) + k - 0
  BY <1>6, <1>7, <1>8, <1>10, FS_EmptySet, Zenon
<1> QED BY <1>9, <1>11 DEF SumOf

\* A sum of nothing is nothing.
LEMMA SumZero ==
    ASSUME NEW c, \A d \in Domains : c[d] = 0
    PROVE  SumOf(c) = 0
<1>1. Units(c) = {}
  BY DEF Units
<1> QED BY <1>1, FS_EmptySet DEF SumOf

\* The sums of the model are natural numbers.
LEMMA SumsType ==
    ASSUME TypeOK
    PROVE  /\ \A age \in Ages : SumOf([d \in Domains |-> per[d].window[age]]) \in Nat
           /\ \A f \in {"requests", "errors", "retries"} : Total(f) \in Nat
           /\ Left \in [Domains -> Nat] /\ SumOf(Left) \in Nat
<1>1. \A age \in Ages : [d \in Domains |-> per[d].window[age]] \in [Domains -> Nat]
  BY DEF TypeOK
<1>2. \A f \in {"requests", "errors", "retries"} : [d \in Domains |-> per[d][f]] \in [Domains -> Nat]
  BY DEF TypeOK
<1>3. Left \in [Domains -> Nat]
  BY DEF TypeOK, Left
<1> QED BY <1>1, <1>2, <1>3, SumType DEF Total

(***************************************************************************)
(* The invariant holds initially, and the event loop preserves it.         *)
(***************************************************************************)
\* Nothing is counted, and the display sleeps.
LEMMA InitIInv == Init => IInv
<1> SUFFICES ASSUME Init PROVE IInv
  OBVIOUS
<1> USE MetricsAssumption
<1>1. NoStamps \in [Ages -> Nat]
  BY DEF NoStamps
<1>2. TypeOK
  <2>1. order \in Seq(Domains) /\ IsInjective(order)
    BY DEF Init, IsInjective
  <2>2. per \in [Domains -> [requests : Nat, successes : Nat, errors : Nat, retries : Nat,
                            window : [Ages -> Nat]]]
    BY <1>1 DEF Init, Fresh
  <2>3. /\ totals \in [requests : Nat, errors : Nat, retries : Nat]
        /\ recent \in [Ages -> Nat] /\ call = NoCall
    BY <1>1 DEF Init, NoTotals
  <2>4. reader \in [at : Places, total : Nat, sum : Nat, size : Nat, pos : Nat,
                    on : Domains \cup {None, Recent, "dropped"}, broken : BOOLEAN,
                    reset : BOOLEAN]
    BY DEF Init, Asleep, Places
  <2> QED BY <2>1, <2>2, <2>3, <2>4 DEF TypeOK
<1>3. OrderInv
  BY DEF Init, OrderInv, Fresh, NoCall, Recording
<1>4. CountsInv
  <2>1. \A f \in Fields : Total(f) = 0
    BY SumZero DEF Init, Fresh, Total, Fields
  <2> QED BY <2>1 DEF Init, CountsInv, Balanced, Divided, Ahead, NoTotals, NoCall, Fresh, Fields
<1>5. StampsAgree
  <2>1. \A age \in 0 .. Keep : SumOf([d \in Domains |-> per[d].window[age]]) = 0
    <3> SUFFICES ASSUME NEW age \in 0 .. Keep
                 PROVE  SumOf([d \in Domains |-> per[d].window[age]]) = 0
      OBVIOUS
    <3>1. \A d \in Domains : [x \in Domains |-> per[x].window[age]][d] = 0
      BY DEF Init, Fresh, NoStamps, Ages
    <3> QED BY <3>1, SumZero
  <2>2. \A age \in Ages : recent[age] = 0
    BY DEF Init, NoStamps
  <2>3. call.at = "none" /\ 0 \in Ages /\ \A age \in 0 .. Keep : age \in Ages
    BY DEF Init, Ages, NoCall
  <2> QED BY <2>1, <2>2, <2>3 DEF StampsAgree, Stamps, Accounted, StampAhead, Resetting
<1>6. SnapshotInv
  BY DEF Init, Asleep, SnapshotInv, SnapshotCovered, Reading
<1> QED BY <1>2, <1>3, <1>4, <1>5, <1>6 DEF IInv

\* The display thread's part of TypeOK.
ReaderType ==
    [at : Places, total : Nat, sum : Nat, size : Nat, pos : Nat,
     on : Domains \cup {None, Recent, "dropped"}, broken : BOOLEAN, reset : BOOLEAN]

\* What is known of a call of record() under way.
LEMMA CallType ==
    ASSUME TypeOK, call.at \in Recording
    PROVE  /\ call \in [at : {"counting", "stamping", "totalling", "ending"},
                        domain : Domains, success : BOOLEAN, retries : Nat]
           /\ call.at \in {"counting", "stamping", "totalling", "ending"}
           /\ call.domain \in Domains /\ call.success \in BOOLEAN /\ call.retries \in Nat
  BY DEF TypeOK, NoCall, Recording

\* Windows stay windows.
LEMMA WindowType ==
    ASSUME NEW times \in [Ages -> Nat]
    PROVE  Stamped(times) \in [Ages -> Nat] /\ Older(times) \in [Ages -> Nat]
<1>1. Stamped(times) \in [Ages -> Nat]
  BY MetricsAssumption DEF Stamped, Ages
<1>2. ASSUME NEW age \in Ages
      PROVE  (IF age > 0 THEN times[age - 1] ELSE 0)
               + (IF age > Keep THEN times[age] ELSE 0) \in Nat
  <2>1. age > 0 => age - 1 \in Ages
    BY MetricsAssumption DEF Ages
  <2>2. age \in Int
    BY DEF Ages
  <2>3. (IF age > 0 THEN times[age - 1] ELSE 0) \in Nat
    BY <2>1, <2>2
  <2>4. (IF age > Keep THEN times[age] ELSE 0) \in Nat
    OBVIOUS
  <2> QED BY <2>3, <2>4
<1> QED BY <1>1, <1>2 DEF Older

\* The entry of a domain is changed and no other.
LEMMA PerType ==
    ASSUME TypeOK, NEW d \in Domains,
           NEW entry \in [requests : Nat, successes : Nat, errors : Nat, retries : Nat,
                          window : [Ages -> Nat]],
           per' = [per EXCEPT ![d] = entry]
    PROVE  per' \in [Domains -> [requests : Nat, successes : Nat, errors : Nat, retries : Nat,
                                 window : [Ages -> Nat]]]
  BY DEF TypeOK

\* What counting does to the entry of the domain.
LEMMA Counted ==
    ASSUME TypeOK, CountDomain
    PROVE  /\ call.domain \in Domains
           /\ per' \in [Domains -> [requests : Nat, successes : Nat, errors : Nat, retries : Nat,
                                    window : [Ages -> Nat]]]
           /\ per'[call.domain].requests = per[call.domain].requests + 1
           /\ per'[call.domain].successes
                = per[call.domain].successes + (IF call.success THEN 1 ELSE 0)
           /\ per'[call.domain].errors
                = per[call.domain].errors + (IF call.success THEN 0 ELSE 1)
           /\ per'[call.domain].retries = per[call.domain].retries + call.retries
           /\ per'[call.domain].window = per[call.domain].window
           /\ \A d \in Domains \ {call.domain} : per'[d] = per[d]
<1>c. call.domain \in Domains /\ call.success \in BOOLEAN /\ call.retries \in Nat
  BY CallType DEF CountDomain, Recording
<1> DEFINE old == per[call.domain]
           entry == [old EXCEPT !.requests = @ + 1,
                                !.successes = @ + (IF call.success THEN 1 ELSE 0),
                                !.errors = @ + (IF call.success THEN 0 ELSE 1),
                                !.retries = @ + call.retries]
<1>1. old \in [requests : Nat, successes : Nat, errors : Nat, retries : Nat,
               window : [Ages -> Nat]]
  BY <1>c DEF TypeOK
<1>2. per' = [per EXCEPT ![call.domain] = entry]
  BY <1>c DEF CountDomain, TypeOK
<1>3. /\ entry.requests = old.requests + 1
      /\ entry.successes = old.successes + (IF call.success THEN 1 ELSE 0)
      /\ entry.errors = old.errors + (IF call.success THEN 0 ELSE 1)
      /\ entry.retries = old.retries + call.retries
      /\ entry.window = old.window
  BY <1>1
<1>4. entry \in [requests : Nat, successes : Nat, errors : Nat, retries : Nat,
                 window : [Ages -> Nat]]
  <2>1. /\ old.requests + 1 \in Nat
        /\ old.successes + (IF call.success THEN 1 ELSE 0) \in Nat
        /\ old.errors + (IF call.success THEN 0 ELSE 1) \in Nat
        /\ old.retries + call.retries \in Nat
    BY <1>1, <1>c
  <2> HIDE DEF old
  <2> QED BY <1>1, <2>1, Zenon
<1>5. per' \in [Domains -> [requests : Nat, successes : Nat, errors : Nat, retries : Nat,
                            window : [Ages -> Nat]]]
  BY <1>c, <1>2, <1>4, PerType
<1> HIDE DEF entry
<1>6. per'[call.domain] = entry /\ \A d \in Domains \ {call.domain} : per'[d] = per[d]
  BY <1>2, <1>c DEF TypeOK
<1> QED BY <1>c, <1>3, <1>5, <1>6

\* What stamping does to it.
LEMMA Marked ==
    ASSUME TypeOK, StampDomain
    PROVE  /\ call.domain \in Domains
           /\ per' \in [Domains -> [requests : Nat, successes : Nat, errors : Nat, retries : Nat,
                                    window : [Ages -> Nat]]]
           /\ \A d \in Domains :
                 /\ per'[d].requests = per[d].requests /\ per'[d].successes = per[d].successes
                 /\ per'[d].errors = per[d].errors /\ per'[d].retries = per[d].retries
           /\ per'[call.domain].window = Stamped(per[call.domain].window)
           /\ \A d \in Domains \ {call.domain} : per'[d] = per[d]
<1>c. call.domain \in Domains
  BY CallType DEF StampDomain, Recording
<1> DEFINE old == per[call.domain]
           entry == [old EXCEPT !.window = Stamped(@)]
<1>1. old \in [requests : Nat, successes : Nat, errors : Nat, retries : Nat,
               window : [Ages -> Nat]]
  BY <1>c DEF TypeOK
<1>2. per' = [per EXCEPT ![call.domain] = entry]
  BY <1>c DEF StampDomain, TypeOK
<1>3. /\ entry.requests = old.requests /\ entry.successes = old.successes
      /\ entry.errors = old.errors /\ entry.retries = old.retries
      /\ entry.window = Stamped(old.window)
  BY <1>1
<1>4. entry \in [requests : Nat, successes : Nat, errors : Nat, retries : Nat,
                 window : [Ages -> Nat]]
  BY <1>1, WindowType
<1>5. per' \in [Domains -> [requests : Nat, successes : Nat, errors : Nat, retries : Nat,
                            window : [Ages -> Nat]]]
  BY <1>c, <1>2, <1>4, PerType
<1> HIDE DEF entry
<1>6. per'[call.domain] = entry /\ \A d \in Domains \ {call.domain} : per'[d] = per[d]
  BY <1>2, <1>c DEF TypeOK
<1> QED BY <1>c, <1>3, <1>5, <1>6

\* What a tick does to all entries.
LEMMA Aged ==
    ASSUME TypeOK, Tick
    PROVE  /\ per' \in [Domains -> [requests : Nat, successes : Nat, errors : Nat, retries : Nat,
                                    window : [Ages -> Nat]]]
           /\ \A d \in Domains :
                 /\ per'[d].requests = per[d].requests /\ per'[d].successes = per[d].successes
                 /\ per'[d].errors = per[d].errors /\ per'[d].retries = per[d].retries
                 /\ per'[d].window = Older(per[d].window)
<1>1. per' = [d \in Domains |-> [per[d] EXCEPT !.window = Older(@)]]
  BY DEF Tick
<1>2. ASSUME NEW d \in Domains
      PROVE  /\ per'[d] \in [requests : Nat, successes : Nat, errors : Nat, retries : Nat,
                             window : [Ages -> Nat]]
             /\ per'[d].requests = per[d].requests /\ per'[d].successes = per[d].successes
             /\ per'[d].errors = per[d].errors /\ per'[d].retries = per[d].retries
             /\ per'[d].window = Older(per[d].window)
  <2>1. per[d] \in [requests : Nat, successes : Nat, errors : Nat, retries : Nat,
                    window : [Ages -> Nat]]
    BY DEF TypeOK
  <2>2. per'[d] = [per[d] EXCEPT !.window = Older(@)]
    BY <1>1
  <2> QED BY <2>1, <2>2, WindowType
<1> QED BY <1>1, <1>2

\* A new dictionary, and nothing counted.
LEMMA Emptied ==
    ASSUME ClearDomains
    PROVE  /\ per' \in [Domains -> [requests : Nat, successes : Nat, errors : Nat, retries : Nat,
                                    window : [Ages -> Nat]]]
           /\ \A d \in Domains :
                 /\ per'[d].requests = 0 /\ per'[d].successes = 0
                 /\ per'[d].errors = 0 /\ per'[d].retries = 0
                 /\ \A age \in Ages : per'[d].window[age] = 0
<1>1. NoStamps \in [Ages -> Nat] /\ \A age \in Ages : NoStamps[age] = 0
  BY DEF NoStamps
<1>2. \A d \in Domains : per'[d] = Fresh
  BY DEF ClearDomains
<1>3. Fresh \in [requests : Nat, successes : Nat, errors : Nat, retries : Nat,
                 window : [Ages -> Nat]]
  BY <1>1 DEF Fresh
<1>4. per' \in [Domains -> [requests : Nat, successes : Nat, errors : Nat, retries : Nat,
                            window : [Ages -> Nat]]]
  BY <1>3 DEF ClearDomains
<1> QED BY <1>1, <1>2, <1>4 DEF Fresh

\* Every step of the display thread leaves it well formed.
LEMMA DisplayType ==
    ASSUME TypeOK, Display
    PROVE  reader' \in ReaderType
<1>t. /\ reader \in ReaderType /\ order \in Seq(Domains) /\ Len(order) \in Nat
      /\ totals.requests \in Nat
  BY DEF TypeOK, ReaderType
<1>a. Asleep \in ReaderType
  BY DEF Asleep, ReaderType, Places
<1>1. CASE ReadTotals
  <2> DEFINE r == call.at \in {"cleared", "zeroed"}
  <2>1. reader' = [Asleep EXCEPT !.at = "totals", !.total = totals.requests, !.reset = r]
    BY <1>1 DEF ReadTotals
  <2>2. r \in BOOLEAN
    OBVIOUS
  <2> HIDE DEF r
  <2> QED BY <1>t, <1>a, <2>1, <2>2, Zenon DEF ReaderType, Places
<1>2. CASE BeginRate
  BY <1>2, <1>t DEF BeginRate, ReaderType, Places
<1>3. CASE EndRate
  BY <1>3, <1>t DEF EndRate, ReaderType, Places
<1>4. CASE NextDomain
  <2>1. reader.pos + 1 \in 1 .. Len(order) /\ reader.pos \in Nat /\ reader.sum \in Nat
    BY <1>4, <1>t DEF NextDomain, ReaderType
  <2>2. order[reader.pos + 1] \in Domains
    BY <2>1, <1>t
  <2>3. per[order[reader.pos + 1]].requests \in Nat
    BY <2>2 DEF TypeOK
  <2>4. reader.pos + 1 \in Nat /\ reader.sum + per[order[reader.pos + 1]].requests \in Nat
    BY <2>1, <2>3
  <2> QED BY <1>4, <1>t, <2>2, <2>4, Zenon DEF NextDomain, ReaderType, Places
<1>5. CASE EndDomain
  BY <1>5, <1>t DEF EndDomain, ReaderType, Places
<1>6. CASE Show
  BY <1>6, <1>t DEF Show, ReaderType, Places
<1>7. CASE Sleep \/ Crash
  BY <1>7, <1>a DEF Sleep, Crash, ReaderType, Places
<1> QED BY <1>1, <1>2, <1>3, <1>4, <1>5, <1>6, <1>7 DEF Display

\* A dictionary has a key once, and the keys it had before.
LEMMA EnterOrder ==
    ASSUME TypeOK, NEW d \in Domains, NEW outcome, Enter(d, outcome)
    PROVE  /\ order' \in Seq(Domains) /\ IsInjective(order')
           /\ d \in Range(order')
           /\ Range(order) \subseteq Range(order')
           /\ Len(order) <= Len(order')
           /\ \A k \in 1 .. Len(order) : order'[k] = order[k]
<1>1. order \in Seq(Domains) /\ IsInjective(order)
  BY DEF TypeOK
<1>2. CASE d \in Range(order)
  BY <1>1, <1>2 DEF Enter
<1>3. CASE d \notin Range(order)
  <2>1. order' = Append(order, d)
    BY <1>3 DEF Enter
  <2>2. /\ order' \in Seq(Domains) /\ Len(order') = Len(order) + 1
        /\ Len(order) \in Nat
        /\ \A k \in 1 .. Len(order) : order'[k] = order[k]
        /\ order'[Len(order) + 1] = d
    BY <1>1, <2>1
  <2>3. DOMAIN order = 1 .. Len(order) /\ DOMAIN order' = 1 .. Len(order) + 1
    BY <1>1, <2>1, <2>2
  <2>4. Range(order) \subseteq Range(order')
    BY <2>2, <2>3 DEF Range
  <2>5. d \in Range(order')
    BY <2>2, <2>3 DEF Range
  <2>6. \A k \in 1 .. Len(order) : order[k] # d
    BY <1>3, <2>3 DEF Range
  <2>7. IsInjective(order')
    BY <1>1, <2>2, <2>3, <2>6 DEF IsInjective
  <2> QED BY <2>2, <2>4, <2>5, <2>7
<1> QED BY <1>2, <1>3

\* Every step keeps the types.
LEMMA TypeStep == TypeOK /\ [Next]_vars => TypeOK'
<1> SUFFICES ASSUME TypeOK, [Next]_vars PROVE TypeOK'
  OBVIOUS
<1> USE MetricsAssumption
<1>t. /\ order \in Seq(Domains) /\ IsInjective(order)
      /\ totals \in [requests : Nat, errors : Nat, retries : Nat]
      /\ recent \in [Ages -> Nat]
      /\ reader \in ReaderType
  BY DEF TypeOK, ReaderType
<1>r. \A deque : Changed(deque) => reader' \in ReaderType
  BY <1>t DEF Changed, ReaderType
<1>1. ASSUME NEW d \in Domains, NEW outcome \in Outcomes, Enter(d, outcome) PROVE TypeOK'
  <2>1. outcome.success \in BOOLEAN /\ outcome.retries \in Nat
    OBVIOUS
  <2>2. call' \in [at : {"counting", "stamping", "totalling", "ending"},
                   domain : Domains, success : BOOLEAN, retries : Nat]
    BY <1>1, <2>1 DEF Enter
  <2> QED BY <1>1, <2>2, EnterOrder DEF Enter, TypeOK
<1>2. CASE CountDomain
  <2>1. call' \in [at : {"counting", "stamping", "totalling", "ending"},
                   domain : Domains, success : BOOLEAN, retries : Nat]
    BY <1>2, CallType DEF CountDomain, Recording
  <2> QED BY <1>2, <2>1, Counted DEF CountDomain, TypeOK
<1>3. CASE StampDomain
  <2>1. call' \in [at : {"counting", "stamping", "totalling", "ending"},
                   domain : Domains, success : BOOLEAN, retries : Nat]
    BY <1>3, CallType DEF StampDomain, Recording
  <2>2. reader' \in ReaderType
    BY <1>3, <1>r DEF StampDomain
  <2> QED BY <1>3, <2>1, <2>2, Marked DEF StampDomain, TypeOK, ReaderType
<1>4. CASE CountTotals
  <2>1. call' \in [at : {"counting", "stamping", "totalling", "ending"},
                   domain : Domains, success : BOOLEAN, retries : Nat]
    BY <1>4, CallType DEF CountTotals, Recording
  <2>2. totals' \in [requests : Nat, errors : Nat, retries : Nat]
    <3>1. call.success \in BOOLEAN /\ call.retries \in Nat
      BY <1>4, CallType DEF CountTotals, Recording
    <3> QED BY <1>4, <1>t, <3>1 DEF CountTotals
  <2> QED BY <1>4, <2>1, <2>2 DEF CountTotals, TypeOK
<1>5. CASE StampTotal
  <2>1. recent' \in [Ages -> Nat]
    BY <1>5, <1>t, WindowType DEF StampTotal
  <2>2. reader' \in ReaderType
    BY <1>5, <1>r DEF StampTotal
  <2> QED BY <1>5, <2>1, <2>2 DEF StampTotal, TypeOK, ReaderType
<1>6. CASE ClearDomains
  <2>1. reader' \in ReaderType
    BY <1>6, <1>t DEF ClearDomains, ReaderType
  <2>2. order' \in Seq(Domains) /\ IsInjective(order')
    BY <1>6 DEF ClearDomains, IsInjective
  <2> QED BY <1>6, <2>1, <2>2, Emptied DEF ClearDomains, TypeOK, ReaderType
<1>z. CASE ZeroTotals
  BY <1>z DEF ZeroTotals, NoTotals, TypeOK
<1>e. CASE ClearRecent
  <2>1. recent' \in [Ages -> Nat]
    BY <1>e DEF ClearRecent, NoStamps
  <2>2. reader' \in ReaderType
    BY <1>e, <1>t DEF ClearRecent, ReaderType
  <2> QED BY <1>e, <2>1, <2>2 DEF ClearRecent, TypeOK, ReaderType
<1>7. CASE Tick
  <2>1. recent' \in [Ages -> Nat]
    BY <1>7, <1>t, WindowType DEF Tick
  <2> QED BY <1>7, <2>1, Aged DEF Tick, TypeOK
<1>8. CASE Display
  <2>1. reader' \in ReaderType
    BY <1>8, DisplayType
  <2> QED BY <1>8, <2>1 DEF Display, TypeOK, ReaderType
<1>9. CASE UNCHANGED vars
  BY <1>9 DEF vars, TypeOK
<1> QED
  BY <1>1, <1>2, <1>3, <1>4, <1>5, <1>6, <1>z, <1>e, <1>7, <1>8, <1>9 DEF Next

\* Every step keeps the counted domains in the dictionary.
LEMMA OrderStep == TypeOK /\ OrderInv /\ [Next]_vars => OrderInv'
<1> SUFFICES ASSUME TypeOK, OrderInv, [Next]_vars PROVE OrderInv'
  OBVIOUS
<1>1. ASSUME NEW d \in Domains, NEW outcome \in Outcomes, Enter(d, outcome) PROVE OrderInv'
  <2>1. call'.domain = d /\ per' = per
    BY <1>1 DEF Enter
  <2> QED BY <1>1, <2>1, EnterOrder DEF OrderInv
<1>2. CASE CountDomain
  <2>1. /\ call.at \in Recording /\ call'.domain = call.domain /\ order' = order
    BY <1>2, CallType DEF CountDomain, Recording
  <2> QED BY <1>2, <2>1, Counted DEF OrderInv
<1>3. CASE StampDomain
  <2>1. /\ call.at \in Recording /\ call'.domain = call.domain /\ order' = order
    BY <1>3, CallType DEF StampDomain, Recording
  <2> QED BY <1>3, <2>1, Marked DEF OrderInv
<1>4. CASE CountTotals
  <2>1. /\ call.at \in Recording /\ call'.domain = call.domain /\ order' = order /\ per' = per
    BY <1>4, CallType DEF CountTotals, Recording
  <2> QED BY <2>1 DEF OrderInv
<1>5. CASE StampTotal
  BY <1>5 DEF StampTotal, OrderInv, NoCall, Recording
<1>6. CASE ClearDomains
  <2>1. call'.at = "cleared"
    BY <1>6 DEF ClearDomains
  <2> QED BY <1>6, <2>1, Emptied DEF OrderInv, Recording
<1>z. CASE ZeroTotals
  BY <1>z DEF ZeroTotals, OrderInv, Recording
<1>e. CASE ClearRecent
  BY <1>e DEF ClearRecent, OrderInv, NoCall, Recording
<1>7. CASE Tick
  BY <1>7, Aged DEF Tick, OrderInv
<1>8. CASE Display
  BY <1>8 DEF Display, OrderInv
<1>9. CASE UNCHANGED vars
  BY <1>9 DEF vars, OrderInv
<1> QED
  BY <1>1, <1>2, <1>3, <1>4, <1>5, <1>6, <1>z, <1>e, <1>7, <1>8, <1>9 DEF Next

(***************************************************************************)
(* The sums of the counters.                                               *)
(***************************************************************************)
\* A step that leaves a field of every domain as it is leaves its sum.
LEMMA TotalStill ==
    ASSUME NEW f, \A d \in Domains : per'[d][f] = per[d][f]
    PROVE  Total(f)' = Total(f)
<1>1. [d \in Domains |-> per'[d][f]] = [d \in Domains |-> per[d][f]]
  OBVIOUS
<1> QED BY <1>1 DEF Total

\* The sum of a field grows by what it grows by in one domain.
LEMMA TotalAdd ==
    ASSUME TypeOK, TypeOK', NEW f \in Fields, NEW d \in Domains, NEW k \in Nat,
           per'[d][f] = per[d][f] + k, \A x \in Domains \ {d} : per'[x][f] = per[x][f]
    PROVE  Total(f)' = Total(f) + k
<1> DEFINE c == [x \in Domains |-> per[x][f]]
           e == [x \in Domains |-> per'[x][f]]
<1>1. c \in [Domains -> Nat] /\ e \in [Domains -> Nat]
  BY DEF TypeOK, Fields
<1>2. e[d] = c[d] + k /\ \A x \in Domains \ {d} : e[x] = c[x]
  OBVIOUS
<1> HIDE DEF c, e
<1>3. SumOf(e) = SumOf(c) + k
  BY <1>1, <1>2, SumAdd
<1> QED BY <1>3 DEF Total, c, e

\* The counters of the collector follow those of the domains.
LEMMA CountersStep == TypeOK /\ CountsInv /\ [Next]_vars => CountsInv'
<1> SUFFICES ASSUME TypeOK, CountsInv, [Next]_vars PROVE Balanced' /\ Divided'
  BY DEF CountsInv
<1>p. TypeOK'
  BY TypeStep
<1>t. /\ totals \in [requests : Nat, errors : Nat, retries : Nat]
      /\ totals' \in [requests : Nat, errors : Nat, retries : Nat]
  BY <1>p DEF TypeOK
<1>c. /\ call.at # "cleared" => \A f \in Fields : Total(f) = totals[f] + Ahead[f]
      /\ Balanced /\ Divided
  BY DEF CountsInv, Balanced
<1>n. \A f \in Fields : NoTotals[f] = 0
  BY DEF NoTotals, Fields
<1>1. ASSUME NEW d \in Domains, NEW outcome \in Outcomes, Enter(d, outcome)
      PROVE  Balanced' /\ Divided'
  <2>1. per' = per /\ totals' = totals /\ call.at = "none" /\ call'.at = "counting"
    BY <1>1 DEF Enter, NoCall
  <2>2. Ahead = NoTotals /\ Ahead' = NoTotals
    BY <2>1 DEF Ahead
  <2>3. \A f \in Fields : Total(f)' = Total(f)
    BY <2>1 DEF Total
  <2> QED BY <1>c, <2>1, <2>2, <2>3 DEF Balanced, Divided
<1>2. CASE CountDomain
  <2>1. /\ call.at = "counting" /\ call'.at = "stamping" /\ totals' = totals
        /\ call'.success = call.success /\ call'.retries = call.retries
        /\ call.success \in BOOLEAN /\ call.retries \in Nat
    BY <1>2, CallType DEF CountDomain, Recording
  <2>2. /\ Ahead = NoTotals
        /\ Ahead' = [requests |-> 1, errors |-> IF call.success THEN 0 ELSE 1,
                     retries |-> call.retries]
    BY <2>1 DEF Ahead
  <2>3. \A f \in Fields : Total(f) = totals[f] /\ totals[f] \in Nat
    BY <1>c, <1>n, <1>t, <2>1, <2>2 DEF Fields
  <2>4. Total("requests")' = Total("requests") + 1
    BY <1>2, <1>p, Counted, TotalAdd DEF Fields
  <2>5. Total("errors")' = Total("errors") + (IF call.success THEN 0 ELSE 1)
    <3>1. (IF call.success THEN 0 ELSE 1) \in Nat
      OBVIOUS
    <3> QED BY <1>2, <1>p, <3>1, Counted, TotalAdd DEF Fields
  <2>6. Total("retries")' = Total("retries") + call.retries
    BY <1>2, <1>p, <2>1, Counted, TotalAdd DEF Fields
  <2>7. \A f \in Fields : Total(f)' = totals'[f] + Ahead'[f]
    BY <2>1, <2>2, <2>3, <2>4, <2>5, <2>6 DEF Fields
  <2>8. \A d \in Domains : per'[d].requests = per'[d].successes + per'[d].errors
    <3>1. ASSUME NEW d \in Domains
          PROVE  per[d].requests \in Nat /\ per[d].successes \in Nat /\ per[d].errors \in Nat
      BY DEF TypeOK
    <3> QED BY <1>2, <1>c, <3>1, Counted DEF Divided
  <2> QED BY <2>1, <2>7, <2>8 DEF Balanced, Divided
<1>3. CASE StampDomain
  <2>1. /\ call.at = "stamping" /\ call'.at = "totalling" /\ totals' = totals
        /\ call'.success = call.success /\ call'.retries = call.retries
    BY <1>3, CallType DEF StampDomain, Recording
  <2>2. Ahead' = Ahead
    BY <2>1 DEF Ahead
  <2>3. \A f \in Fields : Total(f)' = Total(f)
    BY <1>3, Marked, TotalStill DEF Fields
  <2> QED BY <1>3, <1>c, <2>1, <2>2, <2>3, Marked DEF Balanced, Divided
<1>4. CASE CountTotals
  <2>1. /\ call.at = "totalling" /\ call'.at = "ending" /\ per' = per
        /\ call.success \in BOOLEAN /\ call.retries \in Nat
        /\ totals'.requests = totals.requests + 1
        /\ totals'.errors = totals.errors + (IF call.success THEN 0 ELSE 1)
        /\ totals'.retries = totals.retries + call.retries
    BY <1>4, CallType DEF CountTotals, Recording
  <2>2. /\ Ahead' = NoTotals
        /\ Ahead = [requests |-> 1, errors |-> IF call.success THEN 0 ELSE 1,
                    retries |-> call.retries]
    BY <2>1 DEF Ahead
  <2>3. \A f \in Fields : Total(f)' = Total(f)
    BY <2>1 DEF Total
  <2>4. totals.requests \in Nat /\ totals.errors \in Nat /\ totals.retries \in Nat
    BY <1>t
  <2>5. \A f \in Fields : Total(f)' = totals'[f] + Ahead'[f]
    BY <1>c, <1>n, <2>1, <2>2, <2>3, <2>4 DEF Fields
  <2> QED BY <1>c, <2>1, <2>5 DEF Balanced, Divided
<1>5. CASE Display \/ UNCHANGED vars
  <2>1. per' = per /\ totals' = totals /\ call' = call
    BY <1>5 DEF Display, vars
  <2>2. Ahead' = Ahead
    BY <2>1 DEF Ahead
  <2>3. \A f \in Fields : Total(f)' = Total(f)
    BY <2>1 DEF Total
  <2> QED BY <1>c, <2>1, <2>2, <2>3 DEF Balanced, Divided
<1>6. CASE StampTotal
  <2>1. per' = per /\ totals' = totals /\ call.at = "ending" /\ call'.at = "none"
    BY <1>6 DEF StampTotal, NoCall
  <2>2. Ahead = NoTotals /\ Ahead' = NoTotals
    BY <2>1 DEF Ahead
  <2>3. \A f \in Fields : Total(f)' = Total(f)
    BY <2>1 DEF Total
  <2> QED BY <1>c, <2>1, <2>2, <2>3 DEF Balanced, Divided
<1>7. CASE ClearDomains
  <2>1. call'.at = "cleared"
    BY <1>7 DEF ClearDomains
  <2>2. ASSUME NEW f \in Fields PROVE Total(f)' = 0
    <3>1. \A d \in Domains : [x \in Domains |-> per'[x][f]][d] = 0
      BY <1>7, Emptied DEF Fields
    <3> QED BY <3>1, SumZero DEF Total
  <2>3. Divided'
    BY <1>7, Emptied DEF Divided
  <2> QED BY <2>1, <2>2, <2>3 DEF Balanced
<1>8. CASE ZeroTotals
  <2>1. /\ per' = per /\ totals' = NoTotals /\ call.at = "cleared" /\ call'.at = "zeroed"
    BY <1>8 DEF ZeroTotals
  <2>2. Ahead' = NoTotals
    BY <2>1 DEF Ahead
  <2>3. \A f \in Fields : Total(f)' = 0
    BY <1>c, <2>1 DEF Balanced, Total
  <2> QED BY <1>c, <1>n, <2>1, <2>2, <2>3 DEF Balanced, Divided
<1>9. CASE ClearRecent
  <2>1. per' = per /\ totals' = totals /\ call.at = "zeroed" /\ call'.at = "none"
    BY <1>9 DEF ClearRecent, NoCall
  <2>2. Ahead = NoTotals /\ Ahead' = NoTotals
    BY <2>1 DEF Ahead
  <2>3. \A f \in Fields : Total(f)' = Total(f)
    BY <2>1 DEF Total
  <2> QED BY <1>c, <2>1, <2>2, <2>3 DEF Balanced, Divided
<1>10. CASE Tick
  <2>1. totals' = totals /\ call' = call
    BY <1>10 DEF Tick
  <2>2. Ahead' = Ahead
    BY <2>1 DEF Ahead
  <2>3. \A f \in Fields : Total(f)' = Total(f)
    BY <1>10, Aged, TotalStill DEF Fields
  <2>4. Divided'
    BY <1>10, <1>c, Aged DEF Divided
  <2> QED BY <1>c, <2>1, <2>2, <2>3, <2>4 DEF Balanced
<1> QED
  BY <1>1, <1>2, <1>3, <1>4, <1>5, <1>6, <1>7, <1>8, <1>9, <1>10 DEF Next

(***************************************************************************)
(* The windows.                                                            *)
(***************************************************************************)
\* The windows follow each other.
LEMMA StampsStep == TypeOK /\ StampsAgree /\ [Next]_vars => StampsAgree'
<1> SUFFICES ASSUME TypeOK, StampsAgree, [Next]_vars PROVE StampsAgree'
  OBVIOUS
<1> USE MetricsAssumption
<1>p. TypeOK'
  BY TypeStep
<1>a. /\ 0 \in Ages /\ Keep + 1 \in Ages
      /\ \A age \in 0 .. Keep : age \in Ages /\ age # Keep + 1
      /\ \A age \in 1 .. Keep : age - 1 \in 0 .. Keep
  BY DEF Ages
<1>t. recent \in [Ages -> Nat]
  BY DEF TypeOK
<1>s. /\ call.at \notin Resetting =>
             \A age \in 0 .. Keep :
                 Stamps(age) = recent[age] + (IF age = 0 THEN StampAhead ELSE 0)
      /\ call.at \in Resetting => \A age \in 0 .. Keep : Stamps(age) = 0
      /\ recent[0] > 0 => recent[Keep + 1] = 0
  BY DEF StampsAgree, Accounted
<1>n. \A age \in 0 .. Keep : Stamps(age) \in Nat
  BY <1>a, SumsType DEF Stamps
<1>u. /\ call'.at \notin Resetting
      /\ \A age \in 0 .. Keep :
             Stamps(age)' = recent'[age] + (IF age = 0 THEN StampAhead' ELSE 0)
      /\ recent'[0] > 0 => recent'[Keep + 1] = 0
      => StampsAgree'
  BY DEF StampsAgree, Accounted
<1>1. ASSUME NEW d \in Domains, NEW outcome \in Outcomes, Enter(d, outcome)
      PROVE  StampsAgree'
  <2>1. per' = per /\ recent' = recent /\ call.at = "none" /\ call'.at = "counting"
    BY <1>1 DEF Enter, NoCall
  <2>2. StampAhead' = StampAhead
    BY <2>1 DEF StampAhead
  <2>3. \A age \in 0 .. Keep : Stamps(age)' = Stamps(age)
    BY <2>1 DEF Stamps
  <2> QED BY <1>s, <1>u, <2>1, <2>2, <2>3 DEF Resetting
<1>c. CASE CountTotals
  <2>1. per' = per /\ recent' = recent /\ call.at = "totalling" /\ call'.at = "ending"
    BY <1>c, CallType DEF CountTotals, Recording
  <2>2. StampAhead' = StampAhead
    BY <2>1 DEF StampAhead
  <2>3. \A age \in 0 .. Keep : Stamps(age)' = Stamps(age)
    BY <2>1 DEF Stamps
  <2> QED BY <1>s, <1>u, <2>1, <2>2, <2>3 DEF Resetting
<1>d. CASE Display \/ UNCHANGED vars
  <2>1. per' = per /\ recent' = recent /\ call' = call
    BY <1>d DEF Display, vars
  <2> QED BY <2>1 DEF StampsAgree, Stamps, Accounted, StampAhead
<1>2. CASE CountDomain
  <2>1. call.at = "counting" /\ call'.at = "stamping" /\ recent' = recent
    BY <1>2, CallType DEF CountDomain, Recording
  <2>2. StampAhead' = StampAhead
    BY <2>1 DEF StampAhead
  <2>3. \A d \in Domains : per'[d].window = per[d].window
    BY <1>2, Counted
  <2>4. \A age \in 0 .. Keep : Stamps(age)' = Stamps(age)
    BY <2>3 DEF Stamps
  <2> QED BY <1>s, <1>u, <2>1, <2>2, <2>4 DEF Resetting
<1>3. CASE StampDomain
  <2>1. call.at = "stamping" /\ call'.at = "totalling" /\ recent' = recent
    BY <1>3, CallType DEF StampDomain, Recording
  <2>2. StampAhead = 0 /\ StampAhead' = 1
    BY <2>1 DEF StampAhead
  <2>3. /\ call.domain \in Domains
        /\ per'[call.domain].window = Stamped(per[call.domain].window)
        /\ \A d \in Domains \ {call.domain} : per'[d].window = per[d].window
    BY <1>3, Marked
  <2>4. per[call.domain].window \in [Ages -> Nat]
    BY <2>3 DEF TypeOK
  <2>5. /\ per'[call.domain].window[0] = per[call.domain].window[0] + 1
        /\ \A age \in 1 .. Keep : per'[call.domain].window[age] = per[call.domain].window[age]
    BY <1>a, <2>3, <2>4 DEF Stamped
  <2>6. Stamps(0)' = Stamps(0) + 1
    <3> DEFINE c == [d \in Domains |-> per[d].window[0]]
               e == [d \in Domains |-> per'[d].window[0]]
    <3>0. /\ \A d \in Domains : per[d].window \in [Ages -> Nat]
          /\ \A d \in Domains : per'[d].window \in [Ages -> Nat]
      <4>1. \A d \in Domains : per[d].window \in [Ages -> Nat]
        BY DEF TypeOK
      <4>2. \A d \in Domains : per'[d].window \in [Ages -> Nat]
        BY <1>3, Marked
      <4> QED BY <4>1, <4>2
    <3>1. c \in [Domains -> Nat] /\ e \in [Domains -> Nat]
      BY <1>a, <3>0
    <3>2. e[call.domain] = c[call.domain] + 1 /\ \A x \in Domains \ {call.domain} : e[x] = c[x]
      BY <2>3, <2>5
    <3> HIDE DEF c, e
    <3>3. SumOf(e) = SumOf(c) + 1
      BY <2>3, <3>1, <3>2, SumAdd
    <3> QED BY <3>3 DEF Stamps, c, e
  <2>7. \A age \in 1 .. Keep : Stamps(age)' = Stamps(age)
    <3> SUFFICES ASSUME NEW age \in 1 .. Keep PROVE Stamps(age)' = Stamps(age)
      OBVIOUS
    <3>1. \A d \in Domains : per'[d].window[age] = per[d].window[age]
      BY <2>3, <2>5
    <3> QED BY <3>1 DEF Stamps
  <2>8. \A age \in 0 .. Keep : age = 0 \/ age \in 1 .. Keep
    OBVIOUS
  <2>9. \A age \in 0 .. Keep : Stamps(age) = recent[age]
    BY <1>a, <1>s, <1>t, <2>1, <2>2 DEF Resetting
  <2>10. \A age \in 0 .. Keep : Stamps(age)' = recent[age] + (IF age = 0 THEN 1 ELSE 0)
    BY <1>a, <1>n, <1>t, <2>6, <2>7, <2>8, <2>9
  <2> QED BY <1>s, <1>u, <2>1, <2>2, <2>10 DEF Resetting
<1>4. CASE StampTotal
  <2>1. /\ call.at = "ending" /\ call'.at = "none"
        /\ per' = per /\ recent' = Stamped(recent)
    BY <1>4 DEF StampTotal, NoCall
  <2>2. StampAhead = 1 /\ StampAhead' = 0
    BY <2>1 DEF StampAhead
  <2>3. /\ recent'[0] = recent[0] + 1 /\ recent'[Keep + 1] = 0
        /\ \A age \in 1 .. Keep : recent'[age] = recent[age]
    BY <1>a, <1>t, <2>1 DEF Stamped
  <2>4. \A age \in 0 .. Keep : Stamps(age)' = Stamps(age)
    BY <2>1 DEF Stamps
  <2>5. \A age \in 0 .. Keep : age = 0 \/ age \in 1 .. Keep
    OBVIOUS
  <2>6. \A age \in 0 .. Keep : Stamps(age) = recent[age] + (IF age = 0 THEN 1 ELSE 0)
    BY <1>s, <2>1, <2>2 DEF Resetting
  <2>7. \A age \in 0 .. Keep : Stamps(age)' = recent'[age] /\ recent'[age] \in Nat
    BY <1>a, <1>t, <2>3, <2>4, <2>5, <2>6
  <2> QED BY <1>u, <2>1, <2>2, <2>3, <2>7 DEF Resetting
<1>5. CASE ClearDomains
  <2>1. recent' = recent /\ call'.at = "cleared"
    BY <1>5 DEF ClearDomains
  <2>2. ASSUME NEW age \in 0 .. Keep PROVE Stamps(age)' = 0
    <3>1. \A d \in Domains : [x \in Domains |-> per'[x].window[age]][d] = 0
      BY <1>5, <1>a, Emptied
    <3> QED BY <3>1, SumZero DEF Stamps
  <2> QED BY <1>s, <2>1, <2>2 DEF StampsAgree, Accounted, Resetting
<1>z. CASE ZeroTotals
  <2>1. /\ per' = per /\ recent' = recent
        /\ call.at \in Resetting /\ call'.at \in Resetting
    BY <1>z DEF ZeroTotals, Resetting
  <2>2. \A age \in 0 .. Keep : Stamps(age)' = 0
    BY <1>s, <2>1 DEF Stamps
  <2> QED BY <1>s, <2>1, <2>2 DEF StampsAgree, Accounted
<1>e. CASE ClearRecent
  <2>1. per' = per /\ call.at = "zeroed" /\ call'.at = "none"
    BY <1>e DEF ClearRecent, NoCall
  <2>2. \A age \in 0 .. Keep : Stamps(age)' = 0
    BY <1>s, <2>1 DEF Stamps, Resetting
  <2>3. StampAhead' = 0 /\ \A age \in Ages : recent'[age] = 0
    BY <1>e, <2>1 DEF ClearRecent, StampAhead, NoStamps
  <2> QED BY <1>a, <1>u, <2>1, <2>2, <2>3 DEF Resetting
<1>6. CASE Tick
  <2>1. call.at = "none" /\ call'.at = "none" /\ recent' = Older(recent)
    BY <1>6 DEF Tick, NoCall
  <2>2. StampAhead = 0 /\ StampAhead' = 0
    BY <2>1 DEF StampAhead
  <2>o. ASSUME NEW times \in [Ages -> Nat]
        PROVE  /\ Older(times)[0] = 0
               /\ \A age \in 1 .. Keep : Older(times)[age] = times[age - 1]
    BY <1>a DEF Older
  <2>3. recent'[0] = 0 /\ \A age \in 1 .. Keep : recent'[age] = recent[age - 1]
    BY <1>t, <2>1, <2>o
  <2>w. \A d \in Domains : per[d].window \in [Ages -> Nat] /\ per'[d].window = Older(per[d].window)
    BY <1>6, Aged DEF TypeOK
  <2>4. Stamps(0)' = 0
    <3>1. \A d \in Domains : [x \in Domains |-> per'[x].window[0]][d] = 0
      BY <2>w, <2>o
    <3> QED BY <3>1, SumZero DEF Stamps
  <2>5. ASSUME NEW age \in 1 .. Keep PROVE Stamps(age)' = Stamps(age - 1)
    <3>1. \A d \in Domains : per'[d].window[age] = per[d].window[age - 1]
      BY <2>w, <2>o
    <3> QED BY <3>1 DEF Stamps
  <2>6. \A age \in 0 .. Keep : age = 0 \/ age \in 1 .. Keep
    OBVIOUS
  <2>7. ASSUME NEW age \in 1 .. Keep PROVE Stamps(age)' = recent'[age]
    <3>1. age - 1 \in 0 .. Keep /\ recent[age - 1] \in Nat
      BY <1>a, <1>t
    <3>2. Stamps(age - 1) = recent[age - 1]
      BY <1>s, <2>1, <2>2, <3>1 DEF Resetting
    <3> QED BY <2>3, <2>5, <3>2
  <2>8. recent' \in [Ages -> Nat]
    BY <1>p DEF TypeOK
  <2>9. \A age \in 0 .. Keep : Stamps(age)' = recent'[age]
    BY <2>3, <2>4, <2>6, <2>7
  <2>10. \A age \in 0 .. Keep : recent'[age] = recent'[age] + (IF age = 0 THEN StampAhead' ELSE 0)
    BY <1>a, <2>2, <2>8
  <2> QED BY <1>u, <2>1, <2>3, <2>9, <2>10 DEF Resetting
<1> QED
  BY <1>1, <1>2, <1>3, <1>4, <1>5, <1>6, <1>c, <1>d, <1>z, <1>e DEF Next

(***************************************************************************)
(* The snapshot.                                                           *)
(***************************************************************************)
\* The sums after a step are natural numbers too.
LEMMA SumsTypeNext ==
    ASSUME TypeOK'
    PROVE  /\ Total("requests")' \in Nat
           /\ Left' \in [Domains -> Nat] /\ SumOf(Left)' \in Nat
<1>1. \A d \in Domains : per'[d].requests \in Nat
  BY DEF TypeOK
<1>2. [d \in Domains |-> per'[d].requests] \in [Domains -> Nat]
  BY <1>1
<1>3. Left' \in [Domains -> Nat]
  BY <1>1 DEF Left
<1>4. SumOf(Left') \in Nat
  BY <1>3, SumType
<1>5. SumOf([d \in Domains |-> per'[d].requests]) \in Nat
  BY <1>2, SumType
<1> QED BY <1>3, <1>4, <1>5 DEF Total

\* What the snapshot has read stays read while the dictionary only grows.
LEMMA ReadStill ==
    ASSUME TypeOK, reader.pos <= Len(order), reader'.pos = reader.pos,
           \A k \in 1 .. Len(order) : order'[k] = order[k]
    PROVE  DomainsRead' = DomainsRead
<1>1. reader.pos \in Nat /\ Len(order) \in Nat
  BY DEF TypeOK
<1>2. \A k \in 1 .. reader.pos : order'[k] = order[k]
  BY <1>1
<1> QED BY <1>2 DEF DomainsRead

\* The event loop may add to what is left to read, but no more than to the sum of all.
LEMMA LoopSnapshot ==
    ASSUME TypeOK, TypeOK', SnapshotInv,
           reader'.at = reader.at, reader'.total = reader.total, reader'.sum = reader.sum,
           reader'.pos = reader.pos, reader'.reset = reader.reset,
           Len(order) <= Len(order'),
           \A k \in 1 .. Len(order) : order'[k] = order[k],
           NEW k \in Nat, Total("requests")' = Total("requests") + k,
           reader.pos <= Len(order) =>
               SumOf(Left) <= SumOf(Left)' /\ SumOf(Left)' <= SumOf(Left) + k
    PROVE  SnapshotInv'
<1>s. SumOf(Left) \in Nat /\ SumOf(Left)' \in Nat /\ Total("requests") \in Nat
  BY SumsType, SumsTypeNext
<1>o. order \in Seq(Domains) /\ order' \in Seq(Domains)
  BY DEF TypeOK
<1>r. reader.total \in Nat /\ reader.sum \in Nat /\ reader.pos \in Nat
  BY DEF TypeOK
<1>t. /\ SumOf(Left) \in Nat /\ SumOf(Left)' \in Nat /\ Total("requests") \in Nat
      /\ Len(order) \in Nat /\ Len(order') \in Nat
      /\ reader.total \in Nat /\ reader.sum \in Nat /\ reader.pos \in Nat
  BY <1>s, <1>o, <1>r
<1>1. reader.at \in Reading /\ ~reader.reset =>
          /\ reader'.pos <= Len(order')
          /\ reader'.total <= reader'.sum + SumOf(Left)'
          /\ reader'.sum + SumOf(Left)' <= Total("requests")'
  <2> SUFFICES ASSUME reader.at \in Reading, ~reader.reset
               PROVE  /\ reader'.pos <= Len(order')
                      /\ reader'.total <= reader'.sum + SumOf(Left)'
                      /\ reader'.sum + SumOf(Left)' <= Total("requests")'
    OBVIOUS
  <2>1. /\ reader.pos <= Len(order)
        /\ reader.total <= reader.sum + SumOf(Left)
        /\ reader.sum + SumOf(Left) <= Total("requests")
    BY DEF SnapshotInv
  <2> QED BY <1>t, <2>1
<1>2. reader.at = "printing" /\ ~reader.reset =>
          reader'.total <= reader'.sum /\ reader'.sum <= Total("requests")'
  BY <1>t DEF SnapshotInv, SnapshotCovered
<1> QED BY <1>1, <1>2 DEF SnapshotInv, SnapshotCovered

\* A step that counts nothing and takes no key away leaves the snapshot as it is.
LEMMA QuietSnapshot ==
    ASSUME TypeOK, TypeOK', SnapshotInv,
           reader'.at = reader.at, reader'.total = reader.total, reader'.sum = reader.sum,
           reader'.pos = reader.pos, reader'.reset = reader.reset,
           Len(order) <= Len(order'),
           \A k \in 1 .. Len(order) : order'[k] = order[k],
           \A d \in Domains : per'[d].requests = per[d].requests
    PROVE  SnapshotInv'
<1>1. Total("requests")' = Total("requests")
  BY TotalStill
<1>2. ASSUME reader.pos <= Len(order) PROVE SumOf(Left)' = SumOf(Left)
  <2>1. DomainsRead' = DomainsRead
    BY <1>2, ReadStill
  <2> QED BY <2>1 DEF Left
<1>3. SumOf(Left) \in Nat /\ Total("requests") \in Nat
  BY SumsType
<1>4. /\ 0 \in Nat /\ Total("requests")' = Total("requests") + 0
      /\ reader.pos <= Len(order) =>
             SumOf(Left) <= SumOf(Left)' /\ SumOf(Left)' <= SumOf(Left) + 0
  BY <1>1, <1>2, <1>3
<1> QED BY <1>4, LoopSnapshot

\* A request is counted in a domain that the snapshot has read or has still to read.
LEMMA CountSnapshot ==
    ASSUME TypeOK, TypeOK', SnapshotInv, CountDomain
    PROVE  SnapshotInv'
<1>1. /\ call.domain \in Domains
      /\ per'[call.domain].requests = per[call.domain].requests + 1
      /\ \A d \in Domains \ {call.domain} : per'[d].requests = per[d].requests
  BY Counted
<1>2. reader' = reader /\ order' = order
  BY DEF CountDomain
<1>3. Total("requests")' = Total("requests") + 1
  BY <1>1, TotalAdd DEF Fields
<1>4. SumOf(Left) \in Nat /\ Left \in [Domains -> Nat] /\ Left' \in [Domains -> Nat]
  BY SumsType, SumsTypeNext
<1>5. DomainsRead' = DomainsRead
  BY <1>2 DEF DomainsRead
<1>6. /\ \A d \in Domains : Left[d] = IF d \in DomainsRead THEN 0 ELSE per[d].requests
      /\ \A d \in Domains : Left'[d] = IF d \in DomainsRead THEN 0 ELSE per'[d].requests
  BY <1>5 DEF Left
<1>7. CASE call.domain \in DomainsRead
  <2>1. Left'[call.domain] = Left[call.domain] + 0
    BY <1>1, <1>6, <1>7
  <2>2. \A d \in Domains \ {call.domain} : Left'[d] = Left[d]
    BY <1>1, <1>6
  <2>3. SumOf(Left') = SumOf(Left) + 0
    BY <1>1, <1>4, <2>1, <2>2, SumAdd
  <2>4. SumOf(Left) <= SumOf(Left)' /\ SumOf(Left)' <= SumOf(Left) + 1
    BY <1>4, <2>3
  <2> QED BY <1>2, <1>3, <2>4, LoopSnapshot
<1>8. CASE call.domain \notin DomainsRead
  <2>1. Left'[call.domain] = Left[call.domain] + 1
    BY <1>1, <1>6, <1>8
  <2>2. \A d \in Domains \ {call.domain} : Left'[d] = Left[d]
    BY <1>1, <1>6
  <2>3. SumOf(Left') = SumOf(Left) + 1
    BY <1>1, <1>4, <2>1, <2>2, SumAdd
  <2>4. SumOf(Left) <= SumOf(Left)' /\ SumOf(Left)' <= SumOf(Left) + 1
    BY <1>4, <2>3
  <2> QED BY <1>2, <1>3, <2>4, LoopSnapshot
<1> QED BY <1>7, <1>8

\* The total is read: all of the domains is left, and they have counted no less
\* unless a reset is under way.
LEMMA ReadTotalsSnapshot ==
    ASSUME TypeOK, CountsInv, ReadTotals, UNCHANGED <<order, per, totals, recent, call>>
    PROVE  SnapshotInv'
<1>1. /\ reader'.at = "totals" /\ reader'.total = totals.requests /\ reader'.sum = 0
      /\ reader'.pos = 0 /\ reader'.reset = (call.at \in {"cleared", "zeroed"})
  BY DEF ReadTotals, Asleep
<1>2. CASE reader'.reset
  BY <1>1, <1>2 DEF SnapshotInv, SnapshotCovered, Reading
<1>3. CASE ~reader'.reset
  <2>1. DomainsRead' = {}
    BY <1>1 DEF DomainsRead
  <2>2. SumOf(Left)' = Total("requests") /\ Total("requests")' = Total("requests")
    BY <2>1 DEF Left, Total
  <2>3. totals.requests \in Nat /\ Ahead.requests \in {0, 1}
    BY DEF TypeOK, Ahead, NoTotals
  <2>4. Total("requests") = totals.requests + Ahead.requests
    BY <1>1, <1>3 DEF CountsInv, Balanced, Fields
  <2>5. order' \in Seq(Domains)
    BY DEF TypeOK
  <2>6. /\ Total("requests") \in Nat /\ totals.requests <= Total("requests")
        /\ Len(order') \in Nat
    BY <2>3, <2>4, <2>5
  <2> QED BY <1>1, <2>2, <2>6 DEF SnapshotInv, SnapshotCovered, Reading
<1> QED BY <1>2, <1>3

\* A domain is read: what is left of it becomes part of the sum.
LEMMA NextDomainSnapshot ==
    ASSUME TypeOK, TypeOK', SnapshotInv, NextDomain,
           UNCHANGED <<order, per, totals, recent, call>>
    PROVE  SnapshotInv'
<1> DEFINE d == order[reader.pos + 1]
<1>t. /\ order \in Seq(Domains) /\ IsInjective(order) /\ Len(order) \in Nat
      /\ reader.pos \in Nat /\ reader.sum \in Nat /\ reader.total \in Nat
  BY DEF TypeOK
<1>1. /\ reader.at = "domains" /\ reader.pos < Len(order)
      /\ reader' = [reader EXCEPT !.at = "domain", !.pos = @ + 1, !.on = d, !.broken = FALSE,
                                  !.sum = @ + per[d].requests]
  BY DEF NextDomain
<1>2. reader.pos + 1 \in 1 .. Len(order) /\ DOMAIN order = 1 .. Len(order)
  BY <1>t, <1>1
<1>3. d \in Domains
  BY <1>t, <1>2
<1>4. per[d].requests \in Nat
  BY <1>3 DEF TypeOK
<1>5. /\ reader'.at = "domain" /\ reader'.pos = reader.pos + 1 /\ reader'.total = reader.total
      /\ reader'.sum = reader.sum + per[d].requests /\ reader'.reset = reader.reset
  BY <1>1 DEF TypeOK
<1>6. d \notin DomainsRead
  <2>1. \A k \in 1 .. reader.pos : k \in DOMAIN order /\ k # reader.pos + 1
    BY <1>t, <1>2
  <2>2. \A k \in 1 .. reader.pos : order[k] # d
    BY <1>t, <1>2, <2>1 DEF IsInjective
  <2> QED BY <2>2 DEF DomainsRead
<1>7. DomainsRead' = DomainsRead \cup {d}
  <2>1. \A k : k \in 1 .. reader'.pos <=> k \in 1 .. reader.pos \/ k = reader.pos + 1
    BY <1>t, <1>5
  <2> QED BY <2>1 DEF DomainsRead
<1>8. Left \in [Domains -> Nat] /\ Left' \in [Domains -> Nat] /\ SumOf(Left) \in Nat
      /\ SumOf(Left)' \in Nat
  BY SumsType, SumsTypeNext
<1>9. /\ \A x \in Domains : Left[x] = IF x \in DomainsRead THEN 0 ELSE per[x].requests
      /\ \A x \in Domains : Left'[x] = IF x \in DomainsRead' THEN 0 ELSE per[x].requests
  BY DEF Left
<1> HIDE DEF d
<1>10. Left[d] = Left'[d] + per[d].requests /\ \A x \in Domains \ {d} : Left[x] = Left'[x]
  BY <1>3, <1>4, <1>6, <1>7, <1>9
<1>11. SumOf(Left) = SumOf(Left') + per[d].requests
  BY <1>3, <1>4, <1>8, <1>10, SumAdd
<1>12. Total("requests")' = Total("requests")
  BY DEF Total
<1>13. ~reader.reset => /\ reader.total <= reader.sum + SumOf(Left)
                        /\ reader.sum + SumOf(Left) <= Total("requests")
  BY <1>1 DEF SnapshotInv, Reading
<1>14. reader'.sum + SumOf(Left)' = reader.sum + SumOf(Left)
  BY <1>t, <1>4, <1>5, <1>8, <1>11
<1>15. reader'.pos <= Len(order)
  BY <1>2, <1>5
<1> QED BY <1>5, <1>12, <1>13, <1>14, <1>15 DEF SnapshotInv, SnapshotCovered

\* All domains are read: nothing is left.
LEMMA ShowSnapshot ==
    ASSUME TypeOK, OrderInv, SnapshotInv, Show, UNCHANGED <<order, per, totals, recent, call>>
    PROVE  SnapshotInv'
<1>t. /\ order \in Seq(Domains) /\ Len(order) \in Nat /\ DOMAIN order = 1 .. Len(order)
      /\ reader.pos \in Nat /\ reader.sum \in Nat /\ reader.total \in Nat
  BY DEF TypeOK
<1>1. /\ reader.at = "domains" /\ reader.pos >= Len(order)
      /\ reader' = [reader EXCEPT !.at = "printing"]
  BY DEF Show
<1>2. /\ reader'.at = "printing" /\ reader'.total = reader.total /\ reader'.sum = reader.sum
      /\ reader'.reset = reader.reset
  BY <1>1 DEF TypeOK
<1>3. Total("requests")' = Total("requests")
  BY DEF Total
<1>4. ASSUME ~reader.reset
      PROVE  reader.total <= reader.sum /\ reader.sum <= Total("requests")
  <2>1. /\ reader.pos <= Len(order)
        /\ reader.total <= reader.sum + SumOf(Left)
        /\ reader.sum + SumOf(Left) <= Total("requests")
    BY <1>1, <1>4 DEF SnapshotInv, Reading
  <2>2. reader.pos = Len(order)
    BY <1>t, <1>1, <2>1
  <2>3. DomainsRead = Range(order)
    BY <1>t, <2>2 DEF DomainsRead, Range
  <2>4. \A d \in Domains : Left[d] = 0
    BY <2>3 DEF OrderInv, Left
  <2>5. SumOf(Left) = 0
    BY <2>4, SumZero
  <2> QED BY <1>t, <2>1, <2>5
<1> QED BY <1>2, <1>3, <1>4 DEF SnapshotInv, SnapshotCovered, Reading

\* Every step keeps what a snapshot has read and has to read between its bounds.
LEMMA SnapshotStep ==
    TypeOK /\ OrderInv /\ CountsInv /\ SnapshotInv /\ [Next]_vars => SnapshotInv'
<1> SUFFICES ASSUME TypeOK, OrderInv, CountsInv, SnapshotInv, [Next]_vars PROVE SnapshotInv'
  OBVIOUS
<1>p. TypeOK'
  BY TypeStep
<1>t. reader \in ReaderType /\ order \in Seq(Domains) /\ Len(order) \in Nat
  BY DEF TypeOK, ReaderType
<1>c. \A deque : Changed(deque) =>
         /\ reader'.at = reader.at /\ reader'.total = reader.total /\ reader'.sum = reader.sum
         /\ reader'.pos = reader.pos /\ reader'.reset = reader.reset
  BY <1>t DEF Changed, ReaderType
<1>1. ASSUME NEW d \in Domains, NEW outcome \in Outcomes, Enter(d, outcome) PROVE SnapshotInv'
  <2>1. per' = per /\ reader' = reader
    BY <1>1 DEF Enter
  <2>2. Len(order) <= Len(order') /\ \A k \in 1 .. Len(order) : order'[k] = order[k]
    BY <1>1, EnterOrder
  <2> QED BY <1>p, <2>1, <2>2, QuietSnapshot
<1>2. CASE CountDomain
  BY <1>2, <1>p, CountSnapshot
<1>3. CASE StampDomain
  <2>1. order' = order /\ Len(order) <= Len(order')
    BY <1>3, <1>t DEF StampDomain
  <2>2. /\ reader'.at = reader.at /\ reader'.total = reader.total /\ reader'.sum = reader.sum
        /\ reader'.pos = reader.pos /\ reader'.reset = reader.reset
    BY <1>3, <1>c DEF StampDomain
  <2>3. \A d \in Domains : per'[d].requests = per[d].requests
    BY <1>3, Marked
  <2> QED BY <1>p, <2>1, <2>2, <2>3, QuietSnapshot
<1>4. CASE CountTotals \/ StampTotal
  <2>1. order' = order /\ Len(order) <= Len(order') /\ per' = per
    BY <1>4, <1>t DEF CountTotals, StampTotal
  <2>2. /\ reader'.at = reader.at /\ reader'.total = reader.total /\ reader'.sum = reader.sum
        /\ reader'.pos = reader.pos /\ reader'.reset = reader.reset
    BY <1>4, <1>c DEF CountTotals, StampTotal
  <2> QED BY <1>p, <2>1, <2>2, QuietSnapshot
<1>5. CASE ClearDomains
  <2>1. reader'.reset = TRUE
    BY <1>5, <1>t DEF ClearDomains, ReaderType
  <2> QED BY <2>1 DEF SnapshotInv, SnapshotCovered
<1>z. CASE ZeroTotals \/ ClearRecent
  <2>1. order' = order /\ Len(order) <= Len(order') /\ per' = per
    BY <1>z, <1>t DEF ZeroTotals, ClearRecent
  <2>2. /\ reader'.at = reader.at /\ reader'.total = reader.total /\ reader'.sum = reader.sum
        /\ reader'.pos = reader.pos /\ reader'.reset = reader.reset
    BY <1>z, <1>t DEF ZeroTotals, ClearRecent, ReaderType
  <2> QED BY <1>p, <2>1, <2>2, QuietSnapshot
<1>6. CASE Tick \/ UNCHANGED vars
  <2>1. reader' = reader /\ order' = order /\ Len(order) <= Len(order')
    BY <1>6, <1>t DEF Tick, vars
  <2>2. \A d \in Domains : per'[d].requests = per[d].requests
    BY <1>6, Aged DEF vars
  <2> QED BY <1>p, <2>1, <2>2, QuietSnapshot
<1>7. CASE Display
  <2>u. UNCHANGED <<order, per, totals, recent, call>>
    BY <1>7 DEF Display
  <2>1. CASE ReadTotals
    BY <2>1, <2>u, ReadTotalsSnapshot
  <2>2. CASE BeginRate \/ EndRate \/ EndDomain
    <3>1. /\ reader.at \in Reading /\ reader'.at \in Reading /\ reader'.at # "printing"
          /\ reader'.total = reader.total /\ reader'.sum = reader.sum
          /\ reader'.pos = reader.pos /\ reader'.reset = reader.reset
      BY <2>2, <1>t DEF BeginRate, EndRate, EndDomain, Reading, ReaderType
    <3>2. DomainsRead' = DomainsRead
      BY <2>u, <3>1 DEF DomainsRead
    <3>3. SumOf(Left)' = SumOf(Left) /\ Total("requests")' = Total("requests")
      BY <2>u, <3>2 DEF Left, Total
    <3> QED BY <2>u, <3>1, <3>3 DEF SnapshotInv, SnapshotCovered
  <2>3. CASE NextDomain
    BY <2>3, <2>u, <1>p, NextDomainSnapshot
  <2>4. CASE Show
    BY <2>4, <2>u, ShowSnapshot
  <2>5. CASE Sleep \/ Crash
    BY <2>5 DEF Sleep, Crash, Asleep, SnapshotInv, SnapshotCovered, Reading
  <2> QED BY <1>7, <2>1, <2>2, <2>3, <2>4, <2>5 DEF Display
<1> QED BY <1>1, <1>2, <1>3, <1>4, <1>5, <1>z, <1>6, <1>7 DEF Next

(***************************************************************************)
(* The invariant, and what it says.                                        *)
(***************************************************************************)
\* IInv is inductive: the types, the counters, the windows and the snapshot hold in
\* every state, whatever the event loop and the display thread do in whatever order
\* (metrics.py:126-223).
THEOREM Invariance == Spec => []IInv
<1>1. IInv /\ [Next]_vars => IInv'
  BY TypeStep, OrderStep, CountersStep, StampsStep, SnapshotStep DEF IInv
<1> QED BY <1>1, InitIInv, PTL DEF Spec

\* The counters, the windows, the dictionary of the domains and the display thread are
\* always well formed, and a domain is in the dictionary once (metrics.py:37-56, 126-140).
THEOREM TypeCorrect == Spec => []TypeOK
<1>1. IInv => TypeOK
  BY DEF IInv
<1> QED BY <1>1, Invariance, PTL

\* Between two calls of record() or reset() the global counters are the sums of the
\* domains', through any number of resets; and every request of a domain is a success
\* or an error (metrics.py:66-71, 156-160, 198-205).
THEOREM CountersCorrect == Spec => []CountersAgree
<1>1. IInv => CountersAgree
  <2> SUFFICES ASSUME TypeOK, CountsInv, call = NoCall
               PROVE  /\ \A f \in DOMAIN totals : Total(f) = totals[f]
                      /\ Divided
    BY DEF IInv, CountersAgree, Divided
  <2>1. call.at = "none"
    BY DEF NoCall
  <2>2. DOMAIN totals = Fields /\ \A f \in Fields : totals[f] \in Nat
    BY DEF TypeOK, Fields
  <2>3. \A f \in Fields : Ahead[f] = 0
    BY <2>1 DEF Ahead, NoTotals, Fields
  <2> QED BY <2>1, <2>2, <2>3 DEF CountsInv, Balanced
<1> QED BY <1>1, Invariance, PTL

\* Between two calls the global window has, of every age up to a minute, as
\* many stamps as the domains' windows together, so that the global rate is the sum of
\* the domains' (metrics.py:73-77, 161-166, 168-182).
THEOREM RatesCorrect == Spec => []RatesAgree
<1>1. IInv => RatesAgree
  <2> SUFFICES ASSUME TypeOK, StampsAgree, call = NoCall
               PROVE  /\ \A age \in 0 .. Keep :
                             recent[age] = SumOf([d \in Domains |-> per[d].window[age]])
                      /\ recent[0] > 0 => recent[Keep + 1] = 0
    BY DEF IInv, RatesAgree
  <2>1. StampAhead = 0 /\ call.at \notin Resetting
    BY DEF StampAhead, Resetting, NoCall
  <2>2. \A age \in 0 .. Keep : recent[age] \in Nat
    BY MetricsAssumption DEF TypeOK, Ages
  <2>3. \A age \in 0 .. Keep :
           SumOf([d \in Domains |-> per[d].window[age]])
               = recent[age] + (IF age = 0 THEN StampAhead ELSE 0)
    BY <2>1 DEF StampsAgree, Stamps, Accounted
  <2>4. recent[0] > 0 => recent[Keep + 1] = 0
    BY DEF StampsAgree
  <2> QED BY <2>1, <2>2, <2>3, <2>4
<1> QED BY <1>1, Invariance, PTL

\* A snapshot that no reset() overlaps lists domains whose requests add up to no less
\* than its total and no more than have been counted by then, whatever was recorded
\* while it was taken (metrics.py:184-193, 196-205, 215-223).
THEOREM SnapshotsCorrect == Spec => []SnapshotCovered
<1>1. IInv => SnapshotCovered
  BY DEF IInv, SnapshotInv
<1> QED BY <1>1, Invariance, PTL
=============================================================================
