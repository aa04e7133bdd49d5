------------------------ MODULE HouseholdRolesProofs -------------------------
(***************************************************************************)
(* OwnerInv is inductive, hence the household always keeps an active       *)
(* owner; and every statement of a membership transaction is a step of the *)
(* atomic registry or leaves it unchanged.  Only WriteMember,              *)
(* CreateMember and BootstrapAdmin change a row; the count taken earlier   *)
(* is still valid at the write because the advisory lock admits one        *)
(* mutation at a time and an insert can only add owners.                   *)
(***************************************************************************)
EXTENDS HouseholdRoles, FiniteSetTheorems, TLAPS

USE DEF Roles, Rows, ActiveOwners, Exists, Registry!Roles, Registry!Rows, Registry!Row,
        Registry!Exists, Registry!ActiveOwner, Registry!ActiveOwners, Registry!NewRow

\* A household with more than one active owner has one besides any given member.
LEMMA AnotherOwner ==
    ASSUME NEW m \in Members, ~(Cardinality(ActiveOwners) <= 1)
    PROVE  \E o \in ActiveOwners : o # m
<1> SUFFICES ASSUME ActiveOwners \subseteq {m} PROVE FALSE
    OBVIOUS
<1>1. IsFiniteSet({m}) /\ Cardinality({m}) = 1
    BY FS_Singleton
<1>2. Cardinality(ActiveOwners) <= 1
    BY <1>1, FS_Subset
<1> QED
    BY <1>2

LEMMA InitOwnerInv == Init => OwnerInv
<1> SUFFICES ASSUME Init PROVE OwnerInv
    OBVIOUS
<1>1. TypeOK
    BY DEF Init, TypeOK, Registry!RegistryInit, Idle
<1>2. OwnerRemains
  <2>1. PICK admin \in Members :
            account = [m \in Members |-> IF m = admin THEN Registry!NewRow("owner") ELSE Absent]
    BY DEF Init, Registry!RegistryInit
  <2>2. account[admin] = [role |-> "owner", disabled |-> FALSE]
    BY <2>1
  <2>3. account[admin] \in [role : {"owner", "editor", "viewer"}, disabled : BOOLEAN]
    BY <2>2
  <2>4. account[admin] # Absent
    BY <2>3, AbsentAssumption
  <2> QED
    BY <2>2, <2>4 DEF OwnerRemains, Registry!HasActiveOwner
<1>3. CheckStillHolds /\ LockGuardsMutation /\ TargetLoaded
    BY NoRequestAssumption
       DEF Init, CheckStillHolds, LockGuardsMutation, TargetLoaded, Idle, InTx
<1> QED
    BY <1>1, <1>2, <1>3 DEF OwnerInv

\* An insert adds a row and leaves every existing one alone, so no owner is lost
\* and no transaction's check is invalidated.
LEMMA InsertStep ==
    ASSUME OwnerInv, NEW m \in Members, ~Exists(m), NEW role \in Roles,
           account' = [account EXCEPT ![m] = Registry!NewRow(role)]
    PROVE  /\ account' \in [Members -> Rows]
           /\ \A n \in Members : Exists(n) => account'[n] = account[n]
           /\ ActiveOwners \subseteq ActiveOwners'
<1>1. account' \in [Members -> Rows]
    BY DEF OwnerInv, TypeOK
<1>2. \A n \in Members : Exists(n) => account'[n] = account[n]
    BY DEF OwnerInv, TypeOK
<1> QED
    BY <1>1, <1>2

\* Whatever leaves the rows that exist alone and moves no request keeps the invariant.
LEMMA RowsKept ==
    ASSUME OwnerInv, account' \in [Members -> Rows],
           \A n \in Members : Exists(n) => account'[n] = account[n],
           ActiveOwners \subseteq ActiveOwners', UNCHANGED <<lock, req>>
    PROVE  OwnerInv'
<1>1. TypeOK'
    BY DEF OwnerInv, TypeOK
<1>2. OwnerRemains'
    BY DEF OwnerInv, OwnerRemains, Registry!HasActiveOwner
<1>3. \A r \in Requests : req[r].pc \in {"count", "write"} =>
            /\ req[r].target \in Members
            /\ Exists(req[r].target)
            /\ account'[req[r].target] = account[req[r].target]
    BY DEF OwnerInv, TypeOK, TargetLoaded, Idle, Busy
<1>4. CheckStillHolds'
    BY <1>3 DEF OwnerInv, CheckStillHolds, TakesOwner
<1>5. LockGuardsMutation'
    BY DEF OwnerInv, LockGuardsMutation
<1>6. TargetLoaded'
    BY <1>3 DEF OwnerInv, TargetLoaded, TakesOwner
<1> QED
    BY <1>1, <1>2, <1>4, <1>5, <1>6 DEF OwnerInv

\* A step that moves one request, and at most inserts a row: what it must say of the
\* request's new state for the invariant to survive.
LEMMA RequestMoved ==
    ASSUME OwnerInv, NEW r \in Requests, NEW to \in {Idle} \cup Busy,
           req' = [req EXCEPT ![r] = to],
           account' \in [Members -> Rows],
           \A n \in Members : Exists(n) => account'[n] = account[n],
           ActiveOwners \subseteq ActiveOwners',
           lock' \in Requests \cup {NoRequest},
           to.pc \in InTx <=> lock' = r,
           \A s \in Requests \ {r} : lock' = s <=> lock = s,
           to.pc \in InTx => to.op.kind # "create",
           to.pc \in {"count", "write"} => Exists(to.target)',
           to.pc = "count" => TakesOwner(r)',
           to.pc = "write" => (TakesOwner(r)' => \E o \in ActiveOwners' : o # to.target)
    PROVE  OwnerInv'
<1>1. req'[r] = to /\ \A s \in Requests \ {r} : req'[s] = req[s]
    BY DEF OwnerInv, TypeOK
<1>2. TypeOK'
    BY DEF OwnerInv, TypeOK
<1>3. OwnerRemains'
    BY DEF OwnerInv, OwnerRemains, Registry!HasActiveOwner
<1>4. \A s \in Requests : req[s].pc \in {"count", "write"} =>
            /\ req[s].target \in Members
            /\ Exists(req[s].target)
            /\ account'[req[s].target] = account[req[s].target]
    BY DEF OwnerInv, TypeOK, TargetLoaded, Idle, Busy
<1>5. CheckStillHolds'
    BY <1>1, <1>4 DEF OwnerInv, CheckStillHolds, TakesOwner
<1>6. LockGuardsMutation'
    BY <1>1 DEF OwnerInv, LockGuardsMutation
<1>7. TargetLoaded'
    BY <1>1, <1>4 DEF OwnerInv, TargetLoaded, TakesOwner
<1> QED
    BY <1>2, <1>3, <1>5, <1>6, <1>7 DEF OwnerInv

\* The request leaves its transaction, if it is in one, and gives the lock back.
LEMMA RequestEnded ==
    ASSUME OwnerInv, NEW r \in Requests, Finish(r),
           account' \in [Members -> Rows],
           \A n \in Members : Exists(n) => account'[n] = account[n],
           ActiveOwners \subseteq ActiveOwners',
           \/ req[r].pc \in InTx /\ lock' = NoRequest
           \/ req[r].pc \notin InTx /\ lock' = lock
    PROVE  OwnerInv'
<1>1. Idle.pc = "idle"
    BY DEF Idle
<1>2. req' = [req EXCEPT ![r] = Idle]
    BY DEF Finish
<1>3. /\ lock' \in Requests \cup {NoRequest}
      /\ lock' # r
      /\ \A s \in Requests \ {r} : lock' = s <=> lock = s
    BY NoRequestAssumption DEF OwnerInv, TypeOK, LockGuardsMutation
<1> QED
    BY <1>1, <1>2, <1>3, RequestMoved DEF InTx

\* The request takes its next statement inside its transaction.
LEMMA RequestGoes ==
    ASSUME OwnerInv, NEW r \in Requests, NEW pc \in {"locked", "count", "write"}, Goto(r, pc),
           req[r].pc # "idle", UNCHANGED account,
           lock' = r, lock \in {r, NoRequest},
           req[r].op.kind # "create",
           pc \in {"count", "write"} => Exists(req[r].target),
           pc = "count" => TakesOwner(r),
           pc = "write" => (TakesOwner(r) => \E o \in ActiveOwners : o # req[r].target)
    PROVE  OwnerInv'
<1> DEFINE to == [req[r] EXCEPT !.pc = pc]
<1>1. req[r] \in Busy
    BY DEF OwnerInv, TypeOK, Idle
<1>2. to \in Busy /\ to.pc = pc /\ to.op = req[r].op /\ to.target = req[r].target
    BY <1>1 DEF Busy, Pcs
<1>3. req' = [req EXCEPT ![r] = to]
    BY DEF Goto
<1>4. req'[r] = to
    BY <1>3 DEF OwnerInv, TypeOK
<1>5. TakesOwner(r)' <=> TakesOwner(r)
    BY <1>2, <1>4 DEF TakesOwner
<1> HIDE DEF to
<1>6. account' \in [Members -> Rows]
    BY DEF OwnerInv, TypeOK
<1> QED
    BY <1>2, <1>3, <1>5, <1>6, NoRequestAssumption, RequestMoved DEF InTx

\* The write of a transaction: typed, and followed by an active owner.
LEMMA WriteKeepsInv ==
    ASSUME OwnerInv, NEW r \in Requests, WriteMember(r)
    PROVE  OwnerInv'
<1> DEFINE m == req[r].target
<1>1. req[r].pc = "write" /\ lock = r /\ Exists(m) /\ req[r].op.kind # "create"
    BY DEF WriteMember, OwnerInv, LockGuardsMutation, TargetLoaded, InTx
<1>2. req[r] \in Busy /\ m \in Members /\ req[r].op.role \in Roles
    BY <1>1 DEF OwnerInv, TypeOK, Idle, Busy, Ops
<1>3. account[m] \in [role : Roles, disabled : BOOLEAN]
    BY <1>1, <1>2 DEF OwnerInv, TypeOK
<1>4. Written(r) \in [role : Roles, disabled : BOOLEAN]
    BY <1>2, <1>3 DEF Written
<1>5. /\ account' = [account EXCEPT ![m] = Written(r)]
      /\ req' = [req EXCEPT ![r] = Idle]
      /\ lock' = NoRequest
    BY DEF WriteMember, EndTx, Finish
<1>6. account' \in [Members -> Rows] /\ account'[m] = Written(r)
      /\ \A n \in Members \ {m} : account'[n] = account[n]
    BY <1>2, <1>4, <1>5 DEF OwnerInv, TypeOK
<1>7. \A s \in Requests : req'[s].pc \notin InTx
    BY <1>1, <1>5 DEF OwnerInv, TypeOK, LockGuardsMutation, Idle, InTx
<1>8. TypeOK'
    BY <1>5, <1>6 DEF OwnerInv, TypeOK
<1>9. OwnerRemains'
  <2>1. CASE \E o \in ActiveOwners : o # m
    BY <1>6, <2>1 DEF OwnerRemains, Registry!HasActiveOwner
  <2>2. CASE ~\E o \in ActiveOwners : o # m
    <3>1. m \in ActiveOwners /\ ~TakesOwner(r)
      BY <1>1, <2>2 DEF OwnerInv, OwnerRemains, Registry!HasActiveOwner, CheckStillHolds
    <3>2. Written(r).role = "owner" /\ ~Written(r).disabled
      BY <1>1, <1>2, <1>3, <3>1 DEF TakesOwner, Written, Busy, Ops
    <3>3. Written(r) # Absent
      BY <1>4, AbsentAssumption
    <3> QED
      BY <1>2, <1>6, <3>2, <3>3 DEF OwnerRemains, Registry!HasActiveOwner
  <2> QED
    BY <2>1, <2>2
<1>10. (CheckStillHolds /\ LockGuardsMutation /\ TargetLoaded)'
    BY <1>5, <1>7, NoRequestAssumption
       DEF CheckStillHolds, LockGuardsMutation, TargetLoaded, InTx
<1> QED
    BY <1>8, <1>9, <1>10 DEF OwnerInv

LEMMA StepOwnerInv == OwnerInv /\ [Next]_vars => OwnerInv'
<1> SUFFICES ASSUME OwnerInv, [Next]_vars PROVE OwnerInv'
    OBVIOUS
<1>1. ASSUME NEW r \in Requests, Authorize(r) PROVE OwnerInv'
  <2>1. PICK op \in Ops, m \in Members :
            req' = [req EXCEPT ![r] = [pc |-> "wait", op |-> op, target |-> m]]
    BY <1>1 DEF Authorize
  <2> DEFINE to == [pc |-> "wait", op |-> op, target |-> m]
  <2>2. to \in {Idle} \cup Busy /\ to.pc = "wait"
    BY DEF Busy, Pcs
  <2>3. req[r].pc = "idle" /\ UNCHANGED <<account, lock>>
    BY <1>1 DEF Authorize
  <2>4. /\ lock # r /\ lock \in Requests \cup {NoRequest}
        /\ account' \in [Members -> Rows]
    BY <2>3 DEF OwnerInv, LockGuardsMutation, InTx, TypeOK
  <2> HIDE DEF to
  <2> QED
    BY <2>1, <2>2, <2>3, <2>4, RequestMoved DEF InTx, to
<1>2. ASSUME NEW r \in Requests, CreateMember(r) PROVE OwnerInv'
  <2>1. req[r] \in Busy /\ req[r].pc \notin InTx
    BY <1>2 DEF CreateMember, OwnerInv, TypeOK, Idle, InTx
  <2>2. req[r].target \in Members /\ req[r].op.role \in Roles
    BY <2>1 DEF Busy, Ops
  <2>3. Finish(r) /\ lock' = lock
    BY <1>2 DEF CreateMember
  <2>4. CASE Exists(req[r].target)
    <3>1. account' = account
      BY <1>2, <2>4 DEF CreateMember
    <3> QED
      BY <2>1, <2>3, <3>1, RequestEnded DEF OwnerInv, TypeOK
  <2>5. CASE ~Exists(req[r].target)
    <3>1. account' = [account EXCEPT ![req[r].target] = Registry!NewRow(req[r].op.role)]
      BY <1>2, <2>5 DEF CreateMember
    <3> QED
      BY <2>1, <2>2, <2>3, <2>5, <3>1, InsertStep, RequestEnded
  <2> QED
    BY <2>4, <2>5
<1>3. ASSUME NEW r \in Requests, LockHousehold(r) PROVE OwnerInv'
    BY <1>3, RequestGoes DEF LockHousehold
<1>4. ASSUME NEW r \in Requests, LoadMember(r) PROVE OwnerInv'
  <2>1. req[r].pc = "locked" /\ req[r].pc \in InTx /\ UNCHANGED account
    BY <1>4 DEF LoadMember, InTx
  <2>2. lock = r /\ req[r].op.kind # "create"
    BY <2>1 DEF OwnerInv, LockGuardsMutation, TargetLoaded
  <2>3. CASE EndTx(r)
    BY <2>1, <2>3, RequestEnded DEF EndTx, OwnerInv, TypeOK
  <2>4. CASE ~EndTx(r)
    <3>1. /\ Exists(req[r].target) /\ UNCHANGED lock
          /\ Goto(r, IF TakesOwner(r) THEN "count" ELSE "write")
      BY <1>4, <2>4 DEF LoadMember
    <3>2. CASE TakesOwner(r)
      BY <2>1, <2>2, <3>1, <3>2, RequestGoes
    <3>3. CASE ~TakesOwner(r)
      BY <2>1, <2>2, <3>1, <3>3, RequestGoes
    <3> QED
      BY <3>2, <3>3
  <2> QED
    BY <2>3, <2>4
<1>5. ASSUME NEW r \in Requests, CountOwners(r) PROVE OwnerInv'
  <2>1. req[r].pc = "count" /\ req[r].pc \in InTx /\ UNCHANGED account
    BY <1>5 DEF CountOwners, InTx
  <2>2. lock = r /\ req[r].op.kind # "create" /\ Exists(req[r].target)
    BY <2>1 DEF OwnerInv, LockGuardsMutation, TargetLoaded
  <2>3. CASE Cardinality(ActiveOwners) <= 1
    BY <1>5, <2>1, <2>3, RequestEnded DEF CountOwners, EndTx, OwnerInv, TypeOK
  <2>4. CASE ~(Cardinality(ActiveOwners) <= 1)
    <3>1. Goto(r, "write") /\ UNCHANGED lock
      BY <1>5, <2>4 DEF CountOwners
    <3>2. req[r].target \in Members
      BY <2>1 DEF OwnerInv, TypeOK, Idle, Busy
    <3>3. \E o \in ActiveOwners : o # req[r].target
      BY <2>4, <3>2, AnotherOwner
    <3> QED
      BY <2>1, <2>2, <3>1, <3>3, RequestGoes
  <2> QED
    BY <2>3, <2>4
<1>6. ASSUME NEW r \in Requests, WriteMember(r) PROVE OwnerInv'
    BY <1>6, WriteKeepsInv
<1>7. ASSUME NEW r \in Requests, Rollback(r) PROVE OwnerInv'
    BY <1>7, RequestEnded DEF Rollback, EndTx, OwnerInv, TypeOK
<1>8. ASSUME NEW r \in Requests, Cancel(r) PROVE OwnerInv'
    BY <1>8, RequestEnded DEF Cancel, InTx, OwnerInv, TypeOK
<1>9. ASSUME NEW m \in Members, BootstrapAdmin(m) PROVE OwnerInv'
    BY <1>9, InsertStep, RowsKept DEF BootstrapAdmin
<1>10. CASE UNCHANGED vars
    BY <1>10, RowsKept DEF vars, OwnerInv, TypeOK
<1> QED
    BY <1>1, <1>2, <1>3, <1>4, <1>5, <1>6, <1>7, <1>8, <1>9, <1>10 DEF Next, Step

\* Every reachable state satisfies the inductive invariant.
THEOREM OwnerInvHolds == Spec => []OwnerInv
<1>1. Init => OwnerInv
    BY InitOwnerInv
<1>2. OwnerInv /\ [Next]_vars => OwnerInv'
    BY StepOwnerInv
<1> QED
    BY <1>1, <1>2, PTL DEF Spec

\* For any number of members and of concurrent requests, demotions, disablings and
\* cancellations never leave the household without an active owner.
THEOREM OwnerAlwaysRemains == Spec => []OwnerRemains
<1>1. OwnerInv => OwnerRemains
    BY DEF OwnerInv
<1> QED
    BY <1>1, OwnerInvHolds, PTL

\* Every statement is a step of the atomic registry or leaves the rows alone.
LEMMA StepRefines == OwnerInv /\ [Next]_vars => [Registry!RegistryNext]_account
<1> SUFFICES ASSUME OwnerInv, [Next]_vars, account' # account PROVE Registry!RegistryNext
    OBVIOUS
<1>1. ASSUME NEW r \in Requests, CreateMember(r) PROVE Registry!RegistryNext
  <2>1. req[r] \in Busy
    BY <1>1 DEF CreateMember, OwnerInv, TypeOK, Idle
  <2>2. req[r].target \in Members /\ req[r].op.role \in Roles
    BY <2>1 DEF Busy, Ops
  <2>3. Registry!Create(req[r].target, req[r].op.role)
    BY <1>1, <2>2 DEF CreateMember, Registry!Create
  <2> QED
    BY <2>2, <2>3 DEF Registry!RegistryNext
<1>2. ASSUME NEW r \in Requests, WriteMember(r) PROVE Registry!RegistryNext
  <2> DEFINE m == req[r].target
  <2>1. /\ req[r].pc = "write" /\ Exists(m) /\ req[r].op.kind # "create"
        /\ TakesOwner(r) => \E o \in ActiveOwners : o # m
    BY <1>2 DEF WriteMember, OwnerInv, TargetLoaded, CheckStillHolds, InTx
  <2>2. req[r] \in Busy /\ m \in Members
    BY <2>1 DEF OwnerInv, TypeOK, Idle, Busy
  <2>3. req[r].op.role \in Roles /\ req[r].op.kind \in {"role", "disable", "enable"}
    BY <2>1, <2>2 DEF Busy, Ops
  <2>4. account' = [account EXCEPT ![m] = Written(r)]
    BY <1>2 DEF WriteMember
  <2>5. CASE req[r].op.kind = "role"
    <3>1. Registry!SetRole(m, req[r].op.role)
      BY <2>1, <2>2, <2>4, <2>5 DEF Registry!SetRole, Registry!MayLoseOwnership, Written, TakesOwner
    <3> QED
      BY <2>2, <2>3, <3>1 DEF Registry!RegistryNext
  <2>6. CASE req[r].op.kind = "disable"
    <3>1. Registry!Disable(m)
      BY <2>1, <2>2, <2>4, <2>6 DEF Registry!Disable, Registry!MayLoseOwnership, Written, TakesOwner
    <3> QED
      BY <2>2, <3>1 DEF Registry!RegistryNext
  <2>7. CASE req[r].op.kind = "enable"
    <3>1. Registry!Enable(m)
      BY <2>1, <2>4, <2>7 DEF Registry!Enable, Written
    <3> QED
      BY <2>2, <3>1 DEF Registry!RegistryNext
  <2> QED
    BY <2>3, <2>5, <2>6, <2>7
<1>3. ASSUME NEW m \in Members, BootstrapAdmin(m) PROVE Registry!RegistryNext
    BY <1>3 DEF BootstrapAdmin, Registry!RegistryNext, Registry!Create
<1> QED
    BY <1>1, <1>2, <1>3 DEF Next, Step, Authorize, LockHousehold, LoadMember, CountOwners,
       Rollback, Cancel, EndTx, vars

\* The lock, load, count and write statements of concurrent transactions implement a
\* registry whose operations check for another active owner and take effect at once.
THEOREM RolesImplementRegistry == Spec => ImplementsRegistry
<1>1. Init => Registry!RegistryInit
    BY DEF Init
<1> QED
    BY <1>1, StepRefines, OwnerInvHolds, PTL DEF Spec, ImplementsRegistry, Registry!RegistrySpec
==============================================================================
