---------------------------- MODULE LoginThrottle ----------------------------
(***************************************************************************)
(* The in-process limiter of authentication attempts                       *)
(* (internal/server/login_throttle.go) and the two handlers that use one   *)
(* instance each: the password step and the second factor                  *)
(* (internal/server/auth.go).                                              *)
(*                                                                         *)
(* A handler reads the clock once, asks Allow, checks the credentials, and *)
(* then calls RecordFailure or RecordSuccess.  Allow and Record* are       *)
(* critical sections of one mutex; between them other requests run, and    *)
(* both use the clock as it was when the request arrived.                  *)
(***************************************************************************)
EXTENDS Integers, FiniteSets

CONSTANTS Ips,          \* resolved client addresses
          Names,        \* normalised usernames; challenge tokens for the second factor
          Requests,     \* requests in flight at one time
          MaxFailures, Window, MaxEntries,   \* newLoginThrottle
          MaxTime,      \* bound on the clock
          None          \* no bucket under a key; an empty username

Keys == Ips \cup Names

ASSUME ThrottleAssumption ==
    /\ IsFiniteSet(Requests) /\ IsFiniteSet(Keys)
    /\ Ips \cap Names = {} /\ None \notin Keys
    /\ MaxFailures \in Nat \ {0} /\ Window \in Nat \ {0} /\ MaxEntries \in Nat \ {0}
    /\ MaxTime \in Nat
    /\ None \notin [count : Nat, startedAt : Nat]

VARIABLES time,     \* the clock
          buckets,  \* the failure bucket of every key, or None
          req       \* what each request is doing, and its timestamp

vars == <<time, buckets, req>>

Bucket  == [count : Nat, startedAt : Nat]
Idle    == [pc |-> "idle"]
Attempt == [pc : {"allow", "verify"}, ip : Ips, name : Names \cup {None}, now : Nat]

TypeOK ==
    /\ time \in Nat
    /\ buckets \in [Keys -> Bucket \cup {None}]
    /\ req \in [Requests -> {Idle} \cup Attempt]

Tracked(b)  == {k \in Keys : b[k] # None}
\* loginThrottleKeys: the address, and the name unless it is empty.
KeysOf(r)   == {req[r].ip, req[r].name} \ {None}
\* The requests between Allow and the recording of their outcome, per key.
InFlight(k) == {r \in Requests : req[r].pc = "verify" /\ k \in KeysOf(r)}

Init ==
    /\ time = 0
    /\ buckets = [k \in Keys |-> None]
    /\ req = [r \in Requests |-> Idle]

Answer(r) == req' = [req EXCEPT ![r] = Idle]

----------------------------------------------------------------------------
\* Mutant: off by one, a window that ends with the next tick is over already.
PruneEarly(b, now) ==
    [k \in Keys |-> IF b[k] # None /\ now >= b[k].startedAt + Window - 1 THEN None ELSE b[k]]

\* pruneLocked: every bucket whose window is over for this timestamp.
Prune(b, now) ==
    [k \in Keys |-> IF b[k] # None /\ now >= b[k].startedAt + Window THEN None ELSE b[k]]

\* Mutant: RecordFailure relies on the capacity check of Allow.
CountUncapped(b, k, now) ==
    IF b[k] # None THEN [b EXCEPT ![k].count = @ + 1]
    ELSE [b EXCEPT ![k] = [count |-> 1, startedAt |-> now]]

\* Mutant: every failure starts the window of its bucket anew.
CountSliding(b, k, now) ==
    IF b[k] # None THEN [b EXCEPT ![k] = [count |-> @.count + 1, startedAt |-> now]]
    ELSE IF Cardinality(Tracked(b)) >= MaxEntries THEN b
    ELSE [b EXCEPT ![k] = [count |-> 1, startedAt |-> now]]

\* RecordFailure for one key: a new key is not entered into a full table.
Count(b, k, now) ==
    IF b[k] # None THEN [b EXCEPT ![k].count = @ + 1]
    ELSE IF Cardinality(Tracked(b)) >= MaxEntries THEN b
    ELSE [b EXCEPT ![k] = [count |-> 1, startedAt |-> now]]

\* Allow for one key.
Permits(b, k) ==
    IF b[k] # None THEN b[k].count < MaxFailures
    ELSE Cardinality(Tracked(b)) < MaxEntries

----------------------------------------------------------------------------
\* A request arrives and takes its timestamp.
Arrive(r) ==
    /\ req[r] = Idle
    /\ \E ip \in Ips, name \in Names \cup {None} :
           req' = [req EXCEPT ![r] = [pc |-> "allow", ip |-> ip, name |-> name, now |-> time]]
    /\ UNCHANGED <<time, buckets>>

Allow(r) ==
    /\ req[r].pc = "allow"
    /\ buckets' = Prune(buckets, req[r].now)
    /\ IF \A k \in KeysOf(r) : Permits(buckets', k)
       THEN req' = [req EXCEPT ![r].pc = "verify"]
       ELSE Answer(r)
    /\ UNCHANGED time

\* ErrInvalidCredentials or ErrInvalidSecondFactor: both keys, the address first.
RecordFailure(r) ==
    /\ req[r].pc = "verify"
    /\ LET now == req[r].now
           counted == Count(Prune(buckets, now), req[r].ip, now)
       IN buckets' = IF req[r].name = None THEN counted ELSE Count(counted, req[r].name, now)
    /\ Answer(r)
    /\ UNCHANGED time

\* The step succeeded: both buckets are dropped.
RecordSuccess(r) ==
    /\ req[r].pc = "verify"
    /\ buckets' = [k \in Keys |-> IF k \in KeysOf(r) THEN None ELSE buckets[k]]
    /\ Answer(r)
    /\ UNCHANGED time

\* Any other error is answered without touching the limiter.
Fail(r) ==
    /\ req[r].pc = "verify"
    /\ Answer(r)
    /\ UNCHANGED <<time, buckets>>

Tick ==
    /\ time < MaxTime
    /\ time' = time + 1
    /\ UNCHANGED <<buckets, req>>

Next ==
    \/ \E r \in Requests : Arrive(r) \/ Allow(r) \/ RecordFailure(r) \/ RecordSuccess(r) \/ Fail(r)
    \/ Tick

Spec == Init /\ [][Next]_vars

----------------------------------------------------------------------------
CountOf(k) == IF buckets[k] = None THEN 0 ELSE buckets[k].count

\* The limit is checked before the credentials and counted after them, so requests
\* that are being checked at the same moment may exceed it; never by more than their
\* number, and a request that would make it more is refused: what is counted and what
\* may still be counted under one key stay within the limit and the other requests.
OvershootBounded ==
    \A k \in Keys : CountOf(k) + Cardinality(InFlight(k)) < MaxFailures + Cardinality(Requests)

\* "Its table is capped": also when several requests passed Allow with one place left.
TableCapped == Cardinality(Tracked(buckets)) <= MaxEntries

\* No timestamp lies in the future.
TimestampsPast ==
    /\ \A k \in Keys : buckets[k] # None => buckets[k].startedAt <= time
    /\ \A r \in Requests : req[r].pc \in {"allow", "verify"} => req[r].now <= time

ThrottleInv ==
    /\ TypeOK
    /\ OvershootBounded
    /\ TableCapped
    /\ TimestampsPast

\* "No permanent remote-triggered account lockout": however many failures are counted,
\* refused or late, the window of a bucket is not extended; a bucket follows another only
\* when the window of that one was over.
LockoutEnds ==
    [][\A k \in Tracked(buckets) \cap Tracked(buckets') :
         \/ buckets'[k].startedAt = buckets[k].startedAt
         \/ buckets'[k].startedAt >= buckets[k].startedAt + Window]_vars

\* A failure counted under a key stays counted for its whole window, whatever old
\* timestamps other requests bring, unless a request of that key ends, having succeeded.
KeptForWindow ==
    [][\A k \in Tracked(buckets) :
         \/ time >= buckets[k].startedAt + Window
         \/ buckets'[k] # None /\ buckets'[k].count >= buckets[k].count
         \/ \E r \in InFlight(k) : req'[r] = Idle /\ buckets'[k] = None]_vars
=============================================================================
