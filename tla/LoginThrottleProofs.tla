------------------------- MODULE LoginThrottleProofs -------------------------
(***************************************************************************)
(* Proofs about LoginThrottle, for any addresses, names, requests, limits  *)
(* and windows.                                                            *)
(***************************************************************************)
EXTENDS LoginThrottle, FiniteSetTheorems, TLAPS

Table == [Keys -> Bucket \cup {None}]
\* The part of a bucket that OvershootBounded counts.
Load(b, k) == IF b[k] = None THEN 0 ELSE b[k].count

----------------------------------------------------------------------------
\* pruneLocked only drops buckets, and only those whose window is over.
LEMMA PruneDrops ==
    ASSUME NEW b \in Table, NEW now \in Nat
    PROVE  /\ Prune(b, now) \in Table
           /\ Tracked(Prune(b, now)) \subseteq Tracked(b)
           /\ \A k \in Keys : \/ Prune(b, now)[k] = b[k]
                              \/ /\ Prune(b, now)[k] = None /\ b[k] # None
                                 /\ now >= b[k].startedAt + Window
    BY DEF Prune, Tracked, Table

\* Tracked keys are finitely many.
LEMMA TrackedFinite ==
    ASSUME NEW b
    PROVE  IsFiniteSet(Tracked(b)) /\ Cardinality(Tracked(b)) \in Nat
<1>1. Tracked(b) \subseteq Keys
    BY DEF Tracked
<1>2. IsFiniteSet(Tracked(b))
    BY <1>1, FS_Subset, ThrottleAssumption
<1> QED
    BY <1>2, FS_CardinalityType

\* RecordFailure for one key: what becomes of that bucket, and nothing else changes.
LEMMA CountAdds ==
    ASSUME NEW b \in Table, NEW k \in Keys, NEW now \in Nat,
           Cardinality(Tracked(b)) <= MaxEntries
    PROVE  /\ Count(b, k, now) \in Table
           /\ Cardinality(Tracked(Count(b, k, now))) <= MaxEntries
           /\ \A j \in Keys : j # k => Count(b, k, now)[j] = b[j]
           /\ Load(Count(b, k, now), k) <= Load(b, k) + 1
           /\ b[k] # None => /\ Count(b, k, now)[k] # None
                             /\ Count(b, k, now)[k].startedAt = b[k].startedAt
                             /\ Count(b, k, now)[k].count = b[k].count + 1
           /\ b[k] = None => Count(b, k, now)[k] \in {None, [count |-> 1, startedAt |-> now]}
<1> DEFINE new == [count |-> 1, startedAt |-> now]
<1>1. new \in Bucket /\ new # None
    BY ThrottleAssumption DEF Bucket
<1>2. CASE b[k] # None
    <2>1. b[k] \in Bucket /\ [b[k] EXCEPT !.count = b[k].count + 1] \in Bucket
        BY <1>2 DEF Table, Bucket
    <2>2. [b[k] EXCEPT !.count = b[k].count + 1] # None
        BY <2>1, ThrottleAssumption DEF Bucket
    <2>3. Count(b, k, now) = [b EXCEPT ![k] = [b[k] EXCEPT !.count = b[k].count + 1]]
        BY <1>2 DEF Count
    <2>4. Tracked(Count(b, k, now)) = Tracked(b)
        BY <1>2, <2>2, <2>3 DEF Tracked, Table
    <2>5. Count(b, k, now) \in Table /\ \A j \in Keys : j # k => Count(b, k, now)[j] = b[j]
        BY <2>1, <2>3 DEF Table
    <2>6. Count(b, k, now)[k] = [b[k] EXCEPT !.count = b[k].count + 1]
        BY <2>3 DEF Table
    <2>7. /\ Count(b, k, now)[k] # None
          /\ Count(b, k, now)[k].startedAt = b[k].startedAt
          /\ Count(b, k, now)[k].count = b[k].count + 1
        BY <2>1, <2>2, <2>6 DEF Bucket
    <2>8. Load(Count(b, k, now), k) <= Load(b, k) + 1
        BY <1>2, <2>1, <2>7 DEF Load, Bucket
    <2> QED
        BY <1>2, <2>4, <2>5, <2>7, <2>8
<1>3. CASE b[k] = None /\ Cardinality(Tracked(b)) >= MaxEntries
    BY <1>3 DEF Count, Table, Load
<1>4. CASE b[k] = None /\ ~(Cardinality(Tracked(b)) >= MaxEntries)
    <2>1. Count(b, k, now) = [b EXCEPT ![k] = new]
        BY <1>4 DEF Count
    <2>2. Tracked(Count(b, k, now)) = Tracked(b) \cup {k} /\ k \notin Tracked(b)
        BY <1>1, <1>4, <2>1 DEF Tracked, Table
    <2>3. Cardinality(Tracked(b) \cup {k}) = Cardinality(Tracked(b)) + 1
        BY <2>2, TrackedFinite, FS_AddElement
    <2>4. Cardinality(Tracked(b)) + 1 <= MaxEntries
        BY <1>4, TrackedFinite, ThrottleAssumption
    <2>5. Count(b, k, now) \in Table /\ \A j \in Keys : j # k => Count(b, k, now)[j] = b[j]
        BY <1>1, <2>1 DEF Table
    <2>6. Count(b, k, now)[k] = new
        BY <2>1 DEF Table
    <2>7. Load(Count(b, k, now), k) = 1 /\ Load(b, k) = 0
        BY <1>1, <1>4, <2>6 DEF Load
    <2>8. Cardinality(Tracked(Count(b, k, now))) <= MaxEntries
        BY <2>1, <2>2, <2>3, <2>4
    <2> QED
        BY <1>4, <2>5, <2>6, <2>7, <2>8
<1> QED
    BY <1>2, <1>3, <1>4

----------------------------------------------------------------------------
LEMMA InitEstablishes == Init => ThrottleInv
<1> SUFFICES ASSUME Init PROVE ThrottleInv
    OBVIOUS
<1>1. TypeOK
    BY DEF Init, TypeOK
<1>2. Tracked(buckets) = {}
    BY DEF Init, Tracked
<1>3. TableCapped
    BY <1>2, FS_EmptySet, ThrottleAssumption DEF TableCapped
<1>4. TimestampsPast
    BY DEF Init, TimestampsPast, Idle
<1>5. OvershootBounded
    <2> SUFFICES ASSUME NEW k \in Keys
                 PROVE  CountOf(k) + Cardinality(InFlight(k)) < MaxFailures + Cardinality(Requests)
        BY DEF OvershootBounded
    <2>1. CountOf(k) = 0
        BY DEF Init, CountOf
    <2>2. InFlight(k) = {}
        BY DEF Init, InFlight, Idle
    <2>3. Cardinality(Requests) \in Nat
        BY FS_CardinalityType, ThrottleAssumption
    <2> QED
        BY <2>1, <2>2, <2>3, FS_EmptySet, ThrottleAssumption
<1> QED
    BY <1>1, <1>3, <1>4, <1>5 DEF ThrottleInv

\* Requests being checked are finitely many, and no more than there are.
LEMMA InFlightFinite ==
    ASSUME NEW k
    PROVE  /\ IsFiniteSet(InFlight(k)) /\ Cardinality(InFlight(k)) \in Nat
           /\ Cardinality(Requests) \in Nat /\ Cardinality(InFlight(k)) <= Cardinality(Requests)
<1>1. InFlight(k) \subseteq Requests /\ IsFiniteSet(Requests)
    BY ThrottleAssumption DEF InFlight
<1> QED
    BY <1>1, FS_Subset, FS_CardinalityType

\* A request that is answered leaves the ones being checked.
LEMMA AnswerLeaves ==
    ASSUME TypeOK, NEW r \in Requests, req[r].pc = "verify", Answer(r), NEW k \in Keys
    PROVE  Cardinality(InFlight(k)') = Cardinality(InFlight(k)) - (IF k \in KeysOf(r) THEN 1 ELSE 0)
<1>1. req' = [req EXCEPT ![r] = Idle] /\ req \in [Requests -> {Idle} \cup Attempt]
    BY DEF Answer, TypeOK
<1>2. InFlight(k)' = InFlight(k) \ {r}
    BY <1>1 DEF InFlight, KeysOf, Idle
<1>3. r \in InFlight(k) <=> k \in KeysOf(r)
    BY DEF InFlight
<1>4. CASE k \in KeysOf(r)
    BY <1>2, <1>3, <1>4, InFlightFinite, FS_RemoveElement
<1>5. CASE k \notin KeysOf(r)
    <2>1. InFlight(k)' = InFlight(k)
        BY <1>2, <1>3, <1>5
    <2> QED
        BY <2>1, <1>5, InFlightFinite
<1> QED
    BY <1>4, <1>5

\* What RecordFailure leaves in the table.
LEMMA FailureRecorded ==
    ASSUME TypeOK, TableCapped, NEW r \in Requests, RecordFailure(r)
    PROVE  /\ buckets' \in Table /\ TableCapped'
           /\ \A k \in Keys : \/ k \notin KeysOf(r) /\ Load(buckets', k) <= Load(buckets, k)
                              \/ k \in KeysOf(r) /\ Load(buckets', k) <= Load(buckets, k) + 1
           /\ \A k \in Keys : \/ buckets'[k] = None
                              \/ /\ buckets[k] # None
                                 /\ buckets'[k].startedAt = buckets[k].startedAt
                                 /\ buckets'[k].count >= buckets[k].count
                              \/ /\ buckets'[k] = [count |-> 1, startedAt |-> req[r].now]
                                 /\ \/ buckets[k] = None
                                    \/ req[r].now >= buckets[k].startedAt + Window
           /\ \A k \in Keys : buckets[k] # None /\ buckets'[k] = None =>
                                  req[r].now >= buckets[k].startedAt + Window
<1> DEFINE now == req[r].now
           ip == req[r].ip
           name == req[r].name
           p == Prune(buckets, now)
           c == Count(p, ip, now)
           d == Count(c, name, now)
<1>1. /\ buckets \in Table /\ Cardinality(Tracked(buckets)) <= MaxEntries
      /\ now \in Nat /\ ip \in Keys /\ name \in Keys \cup {None} /\ ip # name
      /\ KeysOf(r) = {ip, name} \ {None} /\ None \notin Keys
    BY ThrottleAssumption DEF TypeOK, TableCapped, Table, RecordFailure, Attempt, Idle, Keys, KeysOf
<1> HIDE DEF now, ip, name
<1>2. buckets' = IF name = None THEN c ELSE d
    BY DEF RecordFailure, now, ip, name
<1>3. /\ p \in Table /\ Cardinality(Tracked(p)) <= MaxEntries
      /\ \A k \in Keys : \/ p[k] = buckets[k]
                         \/ /\ p[k] = None /\ buckets[k] # None
                            /\ now >= buckets[k].startedAt + Window
    <2>1. p \in Table /\ Tracked(p) \subseteq Tracked(buckets)
          /\ \A k \in Keys : \/ p[k] = buckets[k]
                             \/ /\ p[k] = None /\ buckets[k] # None
                                /\ now >= buckets[k].startedAt + Window
        BY <1>1, PruneDrops
    <2>2. Cardinality(Tracked(p)) <= Cardinality(Tracked(buckets))
        BY <2>1, TrackedFinite, FS_Subset
    <2> QED
        BY <1>1, <2>1, <2>2, TrackedFinite, ThrottleAssumption
<1> HIDE DEF p
<1>4. /\ c \in Table /\ Cardinality(Tracked(c)) <= MaxEntries
      /\ \A j \in Keys : j # ip => c[j] = p[j]
      /\ Load(c, ip) <= Load(p, ip) + 1
      /\ p[ip] # None => /\ c[ip] # None /\ c[ip].startedAt = p[ip].startedAt
                         /\ c[ip].count = p[ip].count + 1
      /\ p[ip] = None => c[ip] \in {None, [count |-> 1, startedAt |-> now]}
    BY <1>1, <1>3, CountAdds
<1> HIDE DEF c
<1>5. ASSUME name # None
      PROVE  /\ d \in Table /\ Cardinality(Tracked(d)) <= MaxEntries
             /\ \A j \in Keys : j # name => d[j] = c[j]
             /\ Load(d, name) <= Load(c, name) + 1
             /\ c[name] # None => /\ d[name] # None /\ d[name].startedAt = c[name].startedAt
                                 /\ d[name].count = c[name].count + 1
             /\ c[name] = None => d[name] \in {None, [count |-> 1, startedAt |-> now]}
    BY <1>1, <1>4, <1>5, CountAdds
<1> HIDE DEF d
<1>6. buckets' \in Table /\ TableCapped'
    BY <1>2, <1>4, <1>5 DEF TableCapped, Tracked
\* The two keys of the request were counted once each, the others only pruned.
<1>7. \A k \in Keys :
         \/ k \notin KeysOf(r) /\ buckets'[k] = p[k]
         \/ /\ k \in KeysOf(r)
            /\ Load(buckets', k) <= Load(p, k) + 1
            /\ p[k] # None => /\ buckets'[k] # None /\ buckets'[k].startedAt = p[k].startedAt
                              /\ buckets'[k].count = p[k].count + 1
            /\ p[k] = None => buckets'[k] \in {None, [count |-> 1, startedAt |-> now]}
    <2> SUFFICES ASSUME NEW k \in Keys
                 PROVE  \/ k \notin KeysOf(r) /\ buckets'[k] = p[k]
                        \/ /\ k \in KeysOf(r)
                           /\ Load(buckets', k) <= Load(p, k) + 1
                           /\ p[k] # None => /\ buckets'[k] # None
                                             /\ buckets'[k].startedAt = p[k].startedAt
                                             /\ buckets'[k].count = p[k].count + 1
                           /\ p[k] = None => buckets'[k] \in {None, [count |-> 1, startedAt |-> now]}
        OBVIOUS
    <2>1. CASE k = ip
        <3>1. buckets'[k] = c[k]
            BY <1>1, <1>2, <1>5, <2>1
        <3> QED
            BY <1>1, <1>4, <2>1, <3>1 DEF Load
    <2>2. CASE k = name
        <3>1. name # None /\ k # ip /\ buckets' = d
            BY <1>1, <1>2, <2>2
        <3>2. c[k] = p[k]
            BY <1>4, <3>1
        <3> QED
            BY <1>1, <1>5, <2>2, <3>1, <3>2 DEF Load
    <2>3. CASE k # ip /\ k # name
        BY <1>1, <1>2, <1>4, <1>5, <2>3
    <2> QED
        BY <2>1, <2>2, <2>3
<1>8. \A k \in Keys : /\ buckets[k] # None => buckets[k].count \in Nat
                      /\ Load(p, k) <= Load(buckets, k) /\ Load(p, k) \in Nat
                      /\ Load(buckets, k) \in Nat /\ Load(buckets', k) \in Nat
    BY <1>1, <1>3, <1>6 DEF Load, Table, Bucket
<1>9. \A k \in Keys : \/ k \notin KeysOf(r) /\ Load(buckets', k) <= Load(buckets, k)
                      \/ k \in KeysOf(r) /\ Load(buckets', k) <= Load(buckets, k) + 1
    BY <1>7, <1>8 DEF Load
<1>10. \A k \in Keys : \/ buckets'[k] = None
                       \/ /\ buckets[k] # None
                          /\ buckets'[k].startedAt = buckets[k].startedAt
                          /\ buckets'[k].count >= buckets[k].count
                       \/ /\ buckets'[k] = [count |-> 1, startedAt |-> now]
                          /\ \/ buckets[k] = None
                             \/ now >= buckets[k].startedAt + Window
    BY <1>3, <1>7, <1>8
<1>11. \A k \in Keys : buckets[k] # None /\ buckets'[k] = None => now >= buckets[k].startedAt + Window
    BY <1>3, <1>7
<1> QED
    BY <1>6, <1>9, <1>10, <1>11 DEF now

----------------------------------------------------------------------------
\* Table and counters: the facts about a state that the steps below use.
LEMMA LoadType ==
    ASSUME TypeOK, NEW k \in Keys
    PROVE  /\ Load(buckets, k) \in Nat /\ CountOf(k) = Load(buckets, k)
           /\ buckets[k] # None => buckets[k].count \in Nat /\ buckets[k].startedAt \in Nat
    BY DEF TypeOK, Load, CountOf, Bucket

\* A request between its arrival and its answer has a timestamp and an address.
LEMMA RequestType ==
    ASSUME TypeOK, NEW r \in Requests, req[r].pc \in {"allow", "verify"}
    PROVE  req[r] \in Attempt /\ req[r].now \in Nat
    BY DEF TypeOK, Attempt, Idle

LEMMA ArriveKeeps ==
    ASSUME ThrottleInv, NEW r \in Requests, Arrive(r)
    PROVE  ThrottleInv'
<1>1. PICK ip \in Ips, name \in Names \cup {None} :
          req' = [req EXCEPT ![r] = [pc |-> "allow", ip |-> ip, name |-> name, now |-> time]]
    BY DEF Arrive
<1>2. /\ TypeOK /\ req[r] = Idle /\ time' = time /\ buckets' = buckets
      /\ [pc |-> "allow", ip |-> ip, name |-> name, now |-> time] \in Attempt
    BY DEF Arrive, ThrottleInv, TypeOK, Attempt
<1>3. TypeOK'
    BY <1>1, <1>2 DEF TypeOK
<1>4. \A k : InFlight(k)' = InFlight(k)
    BY <1>1, <1>2 DEF InFlight, KeysOf, TypeOK, Idle
<1>5. OvershootBounded'
    BY <1>2, <1>4 DEF ThrottleInv, OvershootBounded, CountOf
<1>6. TableCapped'
    BY <1>2 DEF ThrottleInv, TableCapped, Tracked
<1>7. TimestampsPast'
    BY <1>1, <1>2 DEF ThrottleInv, TimestampsPast, TypeOK
<1> QED
    BY <1>3, <1>5, <1>6, <1>7 DEF ThrottleInv

\* A request is admitted only where it leaves room for what is still to be counted.
LEMMA AllowKeeps ==
    ASSUME ThrottleInv, NEW r \in Requests, Allow(r)
    PROVE  ThrottleInv'
<1> DEFINE p == Prune(buckets, req[r].now)
<1>1. /\ TypeOK /\ buckets \in Table /\ req[r].pc = "allow" /\ time' = time
      /\ req[r] \in Attempt /\ req[r].now \in Nat
    BY RequestType DEF ThrottleInv, TypeOK, Table, Allow
<1>2. /\ buckets' = p /\ p \in Table /\ Tracked(p) \subseteq Tracked(buckets)
      /\ \A k \in Keys : p[k] = buckets[k] \/ p[k] = None
    BY <1>1, PruneDrops DEF Allow
<1> HIDE DEF p
<1>3. \/ req' = [req EXCEPT ![r].pc = "verify"] /\ \A k \in KeysOf(r) : Permits(p, k)
      \/ Answer(r)
    BY <1>2 DEF Allow
<1>4. TypeOK'
    BY <1>1, <1>2, <1>3 DEF TypeOK, Table, Answer, Attempt
<1>5. TableCapped'
    <2>1. Cardinality(Tracked(p)) <= Cardinality(Tracked(buckets))
        BY <1>2, TrackedFinite, FS_Subset
    <2> QED
        BY <1>2, <2>1, TrackedFinite, ThrottleAssumption DEF ThrottleInv, TableCapped, Tracked
<1>6. TimestampsPast'
    <2>1. \A k \in Keys : buckets'[k] # None => buckets'[k].startedAt <= time'
        BY <1>1, <1>2 DEF ThrottleInv, TimestampsPast
    <2>2. \A q \in Requests : req'[q].pc \in {"allow", "verify"} =>
              req[q].pc \in {"allow", "verify"} /\ req'[q].now = req[q].now
        BY <1>1, <1>3 DEF TypeOK, Answer, Idle, Attempt
    <2> QED
        BY <1>1, <2>1, <2>2 DEF ThrottleInv, TimestampsPast
<1>7. OvershootBounded'
    <2> SUFFICES ASSUME NEW k \in Keys
                 PROVE  CountOf(k)' + Cardinality(InFlight(k)') < MaxFailures + Cardinality(Requests)
        BY DEF OvershootBounded
    <2>1. /\ CountOf(k)' = Load(p, k) /\ Load(p, k) \in Nat
          /\ Load(p, k) <= CountOf(k) /\ CountOf(k) \in Nat
        BY <1>1, <1>2, LoadType DEF Load, CountOf, Table, Bucket
    <2>2. /\ Cardinality(InFlight(k)') \in Nat /\ Cardinality(InFlight(k)) \in Nat
          /\ Cardinality(Requests) \in Nat /\ Cardinality(InFlight(k)') <= Cardinality(Requests)
        <3>1. InFlight(k)' \subseteq Requests /\ IsFiniteSet(Requests)
            BY ThrottleAssumption DEF InFlight
        <3> QED
            BY <3>1, FS_Subset, FS_CardinalityType, InFlightFinite
    <2>3. CountOf(k) + Cardinality(InFlight(k)) < MaxFailures + Cardinality(Requests)
        BY DEF ThrottleInv, OvershootBounded
    <2>4. CASE InFlight(k)' = InFlight(k)
        BY <2>1, <2>2, <2>3, <2>4, ThrottleAssumption
    <2>5. CASE Permits(p, k)
        <3>1. Load(p, k) < MaxFailures
            BY <2>5, ThrottleAssumption DEF Permits, Load
        <3> QED
            BY <2>1, <2>2, <3>1, ThrottleAssumption
    <2>6. InFlight(k)' = InFlight(k) \/ Permits(p, k)
        <3>1. CASE k \in KeysOf(r) /\ ~Answer(r)
            BY <1>3, <3>1
        <3>2. CASE k \notin KeysOf(r) /\ req' = [req EXCEPT ![r].pc = "verify"]
            BY <1>1, <3>2 DEF InFlight, KeysOf, TypeOK, Attempt
        <3>3. CASE Answer(r)
            BY <1>1, <3>3 DEF InFlight, KeysOf, TypeOK, Answer, Idle
        <3> QED
            BY <1>3, <3>1, <3>2, <3>3
    <2> QED
        BY <2>4, <2>5, <2>6
<1> QED
    BY <1>4, <1>5, <1>6, <1>7 DEF ThrottleInv

\* What is counted is taken from what was still to be counted.
LEMMA RecordFailureKeeps ==
    ASSUME ThrottleInv, NEW r \in Requests, RecordFailure(r)
    PROVE  ThrottleInv'
<1>1. /\ TypeOK /\ TableCapped /\ req[r].pc = "verify" /\ time' = time /\ Answer(r)
      /\ req[r].now \in Nat /\ req[r].now <= time
    BY RequestType DEF ThrottleInv, RecordFailure, TimestampsPast
<1>2. TypeOK'
    BY <1>1, FailureRecorded DEF TypeOK, Table, Answer
<1>3. TimestampsPast'
    <2>1. \A k \in Keys : buckets'[k] # None => buckets'[k].startedAt <= time
        <3> SUFFICES ASSUME NEW k \in Keys, buckets'[k] # None
                     PROVE  buckets'[k].startedAt <= time
            OBVIOUS
        <3>1. \/ buckets[k] # None /\ buckets'[k].startedAt = buckets[k].startedAt
              \/ buckets'[k].startedAt = req[r].now
            <4>1. \/ buckets'[k] = None
                  \/ /\ buckets[k] # None
                     /\ buckets'[k].startedAt = buckets[k].startedAt
                     /\ buckets'[k].count >= buckets[k].count
                  \/ /\ buckets'[k] = [count |-> 1, startedAt |-> req[r].now]
                     /\ buckets[k] = None \/ req[r].now >= buckets[k].startedAt + Window
                BY <1>1, FailureRecorded
            <4> QED
                BY <4>1
        <3> QED
            BY <1>1, <3>1 DEF ThrottleInv, TimestampsPast
    <2> QED
        BY <1>1, <2>1 DEF ThrottleInv, TimestampsPast, TypeOK, Answer, Idle
<1>4. OvershootBounded'
    <2> SUFFICES ASSUME NEW k \in Keys
                 PROVE  CountOf(k)' + Cardinality(InFlight(k)') < MaxFailures + Cardinality(Requests)
        BY DEF OvershootBounded
    <2>1. CountOf(k)' = Load(buckets', k) /\ CountOf(k)' \in Nat
        BY <1>2 DEF CountOf, Load, TypeOK, Bucket
    <2>2. CountOf(k) = Load(buckets, k) /\ CountOf(k) \in Nat
        BY <1>1, LoadType
    <2>3. \/ k \notin KeysOf(r) /\ CountOf(k)' <= CountOf(k)
          \/ k \in KeysOf(r) /\ CountOf(k)' <= CountOf(k) + 1
        BY <1>1, <2>1, <2>2, FailureRecorded
    <2>4. Cardinality(InFlight(k)') = Cardinality(InFlight(k)) - (IF k \in KeysOf(r) THEN 1 ELSE 0)
        BY <1>1, AnswerLeaves
    <2>5. CountOf(k) + Cardinality(InFlight(k)) < MaxFailures + Cardinality(Requests)
        BY DEF ThrottleInv, OvershootBounded
    <2>6. Cardinality(InFlight(k)) \in Nat /\ Cardinality(Requests) \in Nat
        BY InFlightFinite
    <2> QED
        BY <2>1, <2>2, <2>3, <2>4, <2>5, <2>6, ThrottleAssumption
<1>5. TableCapped'
    BY <1>1, FailureRecorded
<1> QED
    BY <1>2, <1>3, <1>4, <1>5 DEF ThrottleInv

LEMMA EndKeeps ==
    ASSUME ThrottleInv, NEW r \in Requests, RecordSuccess(r) \/ Fail(r)
    PROVE  ThrottleInv'
<1>1. /\ TypeOK /\ buckets \in Table /\ req[r].pc = "verify" /\ time' = time /\ Answer(r)
    BY DEF ThrottleInv, TypeOK, Table, RecordSuccess, Fail
<1>2. buckets' \in Table /\ \A k \in Keys : buckets'[k] = buckets[k] \/ buckets'[k] = None
    BY <1>1 DEF RecordSuccess, Fail, Table
<1>3. TypeOK'
    BY <1>1, <1>2 DEF TypeOK, Table, Answer
<1>4. TableCapped'
    <2>1. Tracked(buckets') \subseteq Tracked(buckets)
        BY <1>2 DEF Tracked
    <2>2. Cardinality(Tracked(buckets')) <= Cardinality(Tracked(buckets))
        BY <2>1, TrackedFinite, FS_Subset
    <2> QED
        BY <2>2, TrackedFinite, ThrottleAssumption DEF ThrottleInv, TableCapped, Tracked
<1>5. TimestampsPast'
    BY <1>1, <1>2 DEF ThrottleInv, TimestampsPast, TypeOK, Answer, Idle
<1>6. OvershootBounded'
    <2> SUFFICES ASSUME NEW k \in Keys
                 PROVE  CountOf(k)' + Cardinality(InFlight(k)') < MaxFailures + Cardinality(Requests)
        BY DEF OvershootBounded
    <2>1. CountOf(k)' \in Nat /\ CountOf(k) \in Nat /\ CountOf(k)' <= CountOf(k)
        BY <1>1, <1>2, <1>3, LoadType DEF CountOf, TypeOK, Bucket
    <2>2. Cardinality(InFlight(k)') = Cardinality(InFlight(k)) - (IF k \in KeysOf(r) THEN 1 ELSE 0)
        BY <1>1, AnswerLeaves
    <2>3. CountOf(k) + Cardinality(InFlight(k)) < MaxFailures + Cardinality(Requests)
        BY DEF ThrottleInv, OvershootBounded
    <2>4. Cardinality(InFlight(k)) \in Nat /\ Cardinality(Requests) \in Nat
        BY InFlightFinite
    <2> QED
        BY <2>1, <2>2, <2>3, <2>4, ThrottleAssumption
<1> QED
    BY <1>3, <1>4, <1>5, <1>6 DEF ThrottleInv

LEMMA StepPreserves == ThrottleInv /\ [Next]_vars => ThrottleInv'
<1> SUFFICES ASSUME ThrottleInv, [Next]_vars PROVE ThrottleInv'
    OBVIOUS
<1>1. CASE \E r \in Requests : Arrive(r) \/ Allow(r) \/ RecordFailure(r) \/ RecordSuccess(r) \/ Fail(r)
    BY <1>1, ArriveKeeps, AllowKeeps, RecordFailureKeeps, EndKeeps
<1>2. CASE Tick
    <2>1. TypeOK /\ time' = time + 1 /\ buckets' = buckets /\ req' = req /\ time \in Nat
        BY <1>2 DEF Tick, ThrottleInv, TypeOK
    <2>2. TypeOK'
        BY <2>1 DEF TypeOK
    <2>3. OvershootBounded' /\ TableCapped'
        BY <2>1 DEF ThrottleInv, OvershootBounded, CountOf, InFlight, KeysOf, TableCapped, Tracked
    <2>4. TimestampsPast'
        <3>1. \A k \in Keys : buckets[k] # None => buckets[k].startedAt \in Nat
            BY <2>1, LoadType
        <3>2. \A r \in Requests : req[r].pc \in {"allow", "verify"} => req[r].now \in Nat
            BY <2>1, RequestType
        <3> QED
            BY <2>1, <3>1, <3>2 DEF ThrottleInv, TimestampsPast
    <2> QED
        BY <2>2, <2>3, <2>4 DEF ThrottleInv
<1>3. CASE UNCHANGED vars
    BY <1>3 DEF vars, ThrottleInv, TypeOK, OvershootBounded, CountOf, InFlight, KeysOf,
                TableCapped, Tracked, TimestampsPast
<1> QED
    BY <1>1, <1>2, <1>3 DEF Next

\* What one step does to a tracked bucket: it is kept, or its window is over, or a
\* request of its key succeeded; and a bucket in its place starts after its window.
LEMMA BucketStep ==
    ASSUME ThrottleInv, [Next]_vars, NEW k \in Tracked(buckets)
    PROVE  /\ \/ time >= buckets[k].startedAt + Window
              \/ buckets'[k] # None /\ buckets'[k].count >= buckets[k].count
              \/ \E r \in InFlight(k) : req'[r] = Idle /\ buckets'[k] = None
           /\ buckets'[k] # None =>
                \/ buckets'[k].startedAt = buckets[k].startedAt
                \/ buckets'[k].startedAt >= buckets[k].startedAt + Window
<1>1. /\ TypeOK /\ TableCapped /\ k \in Keys /\ buckets[k] # None /\ time \in Nat
      /\ buckets[k].count \in Nat /\ buckets[k].startedAt \in Nat
    BY LoadType DEF ThrottleInv, Tracked, TypeOK
<1>2. \A r \in Requests : req[r].pc \in {"allow", "verify"} => req[r].now \in Nat /\ req[r].now <= time
    BY <1>1, RequestType DEF ThrottleInv, TimestampsPast
<1>3. CASE buckets' = buckets
    BY <1>1, <1>3
<1>4. ASSUME NEW r \in Requests, Allow(r)
      PROVE  \/ buckets'[k] = buckets[k]
             \/ buckets'[k] = None /\ time >= buckets[k].startedAt + Window
    <2>1. req[r].pc = "allow" /\ buckets' = Prune(buckets, req[r].now)
        BY <1>4 DEF Allow
    <2>2. req[r].now \in Nat /\ req[r].now <= time
        BY <1>2, <2>1
    <2>3. \/ buckets'[k] = buckets[k]
          \/ buckets'[k] = None /\ req[r].now >= buckets[k].startedAt + Window
        BY <1>1, <2>1, <2>2, PruneDrops DEF TypeOK, Table
    <2> QED
        BY <1>1, <2>2, <2>3, ThrottleAssumption
<1>5. ASSUME NEW r \in Requests, RecordFailure(r)
      PROVE  \/ buckets'[k] = None /\ time >= buckets[k].startedAt + Window
             \/ /\ buckets'[k].startedAt = buckets[k].startedAt
                /\ buckets'[k].count >= buckets[k].count /\ buckets'[k] # None
             \/ /\ buckets'[k].startedAt >= buckets[k].startedAt + Window
                /\ time >= buckets[k].startedAt + Window
    <2>1. req[r].now \in Nat /\ req[r].now <= time
        BY <1>2, <1>5 DEF RecordFailure
    <2>2. \/ buckets'[k] = None
          \/ /\ buckets[k] # None
             /\ buckets'[k].startedAt = buckets[k].startedAt
             /\ buckets'[k].count >= buckets[k].count
          \/ /\ buckets'[k] = [count |-> 1, startedAt |-> req[r].now]
             /\ buckets[k] = None \/ req[r].now >= buckets[k].startedAt + Window
        BY <1>1, <1>5, FailureRecorded
    <2>3. buckets'[k] = None => req[r].now >= buckets[k].startedAt + Window
        BY <1>1, <1>5, FailureRecorded
    <2> QED
        BY <1>1, <2>1, <2>2, <2>3, ThrottleAssumption
<1>6. ASSUME NEW r \in Requests, RecordSuccess(r)
      PROVE  \/ buckets'[k] = buckets[k]
             \/ r \in InFlight(k) /\ req'[r] = Idle /\ buckets'[k] = None
    BY <1>1, <1>6 DEF RecordSuccess, Answer, InFlight, TypeOK
<1>7. \/ buckets' = buckets
      \/ \E r \in Requests : Allow(r) \/ RecordFailure(r) \/ RecordSuccess(r)
    BY DEF Next, vars, Arrive, Fail, Tick
<1>8. CASE \E r \in Requests : Allow(r)
    BY <1>1, <1>4, <1>8
<1>9. CASE \E r \in Requests : RecordFailure(r)
    BY <1>1, <1>5, <1>9
<1>10. CASE \E r \in Requests : RecordSuccess(r)
    BY <1>1, <1>6, <1>10
<1> QED
    BY <1>3, <1>7, <1>8, <1>9, <1>10

----------------------------------------------------------------------------
\* The invariant of the limiter holds for any number of clients and requests.
THEOREM ThrottleInvHolds == Spec => []ThrottleInv
    BY InitEstablishes, StepPreserves, PTL DEF Spec

\* Concurrent requests overshoot the limit of a key by less than their number.
THEOREM OvershootStaysBounded == Spec => []OvershootBounded
<1>1. ThrottleInv => OvershootBounded
    BY DEF ThrottleInv
<1> QED
    BY <1>1, ThrottleInvHolds, PTL

\* No failure, counted, refused or late, prolongs a lockout.
THEOREM LockoutsEnd == Spec => LockoutEnds
<1> DEFINE A == \A k \in Tracked(buckets) \cap Tracked(buckets') :
                   \/ buckets'[k].startedAt = buckets[k].startedAt
                   \/ buckets'[k].startedAt >= buckets[k].startedAt + Window
<1>1. ThrottleInv /\ [Next]_vars => [A]_vars
    BY BucketStep DEF Tracked
<1> QED
    BY <1>1, ThrottleInvHolds, PTL DEF Spec, LockoutEnds

\* A counted failure stays counted for its window unless its key succeeds.
THEOREM FailuresKept == Spec => KeptForWindow
<1> DEFINE A == \A k \in Tracked(buckets) :
                   \/ time >= buckets[k].startedAt + Window
                   \/ buckets'[k] # None /\ buckets'[k].count >= buckets[k].count
                   \/ \E r \in InFlight(k) : req'[r] = Idle /\ buckets'[k] = None
<1>1. ThrottleInv /\ [Next]_vars => [A]_vars
    BY BucketStep
<1> QED
    BY <1>1, ThrottleInvHolds, PTL DEF Spec, KeptForWindow
=============================================================================
