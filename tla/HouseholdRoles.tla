--------------------------- MODULE HouseholdRoles ----------------------------
(***************************************************************************)
(* Owner-only membership administration of one household                   *)
(* (internal/server/household_members.go, internal/auth/rbac_store.go).    *)
(*                                                                         *)
(* A request is authorised from the role that its session had when it was  *)
(* authenticated; the mutation runs later, in a READ COMMITTED transaction *)
(* that takes the household's advisory lock, loads the target row FOR      *)
(* UPDATE, counts active owners when the change would take an active owner *)
(* away, and writes and commits.  Every one of these is a step of its own, *)
(* so requests interleave between them.  A transaction may roll back at    *)
(* any of them: a cancelled request context or a database error.           *)
(***************************************************************************)
EXTENDS Integers, FiniteSets

CONSTANTS Members,   \* every user id the household may ever have
          Absent,    \* marks a user id that has no auth_users row yet
          Requests,  \* HTTP requests in flight at one time
          NoRequest  \* the advisory lock is free

ASSUME MembersAssumption   == IsFiniteSet(Members)
ASSUME NoRequestAssumption == NoRequest \notin Requests
ASSUME AbsentAssumption    == Absent \notin [role : {"owner", "editor", "viewer"},
                                             disabled : BOOLEAN]

VARIABLES account,   \* account[m]: the committed auth_users row of m, or Absent
          lock,      \* the transaction holding pg_advisory_xact_lock(-household)
          req        \* req[r]: what request r is doing

vars == <<account, lock, req>>

Registry == INSTANCE OwnerRegistry

Roles == Registry!Roles
Rows  == Registry!Rows
ActiveOwners == Registry!ActiveOwners
Exists(m)    == Registry!Exists(m)

\* What a request asks for; only "create" and "role" carry a role of their own.
Ops  == [kind : {"create", "role"}, role : Roles]
            \cup [kind : {"disable", "enable"}, role : {"viewer"}]
\* idle -> wait (authorised) -> locked -> count (owner check due) -> write -> idle
Pcs  == {"wait", "locked", "count", "write"}
InTx == {"locked", "count", "write"}
Idle == [pc |-> "idle"]
Busy == [pc : Pcs, op : Ops, target : Members]

TypeOK ==
    /\ account \in [Members -> Rows]
    /\ lock \in Requests \cup {NoRequest}
    /\ req \in [Requests -> {Idle} \cup Busy]

-----------------------------------------------------------------------------
Init ==
    /\ Registry!RegistryInit
    /\ lock = NoRequest
    /\ req = [r \in Requests |-> Idle]

\* What the UPDATE of request r leaves in the row of its target.
Written(r) ==
    LET row == account[req[r].target]
    IN CASE req[r].op.kind = "role"    -> [row EXCEPT !.role = req[r].op.role]
         [] req[r].op.kind = "disable" -> [row EXCEPT !.disabled = TRUE]
         [] OTHER                      -> [row EXCEPT !.disabled = FALSE]

\* The operation leaves the row as it is: disabling a disabled member, enabling
\* an active one.
AlreadyDone(r) ==
    LET row == account[req[r].target]
    IN \/ req[r].op.kind = "disable" /\ row.disabled
       \/ req[r].op.kind = "enable" /\ ~row.disabled

\* The change takes an active owner away, so another one must exist.
TakesOwner(r) ==
    /\ req[r].target \in ActiveOwners
    /\ \/ req[r].op.kind = "disable"
       \/ req[r].op.kind = "role" /\ req[r].op.role # "owner"

Goto(r, pc) == req' = [req EXCEPT ![r].pc = pc]
Finish(r)   == req' = [req EXCEPT ![r] = Idle]

\* Mutant: the transaction is left open, its connection returned with the lock held.
EndTxLockHeld(r) == Finish(r) /\ UNCHANGED lock

\* Commit or rollback: both end the request and release the advisory lock.
EndTx(r) == Finish(r) /\ lock' = NoRequest

-----------------------------------------------------------------------------
\* requireBrowserAuth and requireOwnerRole: the actor's role is read once, here.
Authorize(r) ==
    /\ req[r].pc = "idle"
    /\ ActiveOwners # {}
    /\ \E op \in Ops, m \in Members :
           req' = [req EXCEPT ![r] = [pc |-> "wait", op |-> op, target |-> m]]
    /\ UNCHANGED <<account, lock>>

\* CreateHouseholdMember: one INSERT, no lock; a taken username is refused.
CreateMember(r) ==
    /\ req[r].pc = "wait"
    /\ req[r].op.kind = "create"
    /\ account' = IF Exists(req[r].target) THEN account
                  ELSE [account EXCEPT ![req[r].target] = Registry!NewRow(req[r].op.role)]
    /\ Finish(r)
    /\ UNCHANGED lock

\* Mutant: the advisory lock is not waited for.
LockHouseholdAtOnce(r) ==
    /\ req[r].pc = "wait"
    /\ req[r].op.kind # "create"
    /\ lock' = r
    /\ Goto(r, "locked")
    /\ UNCHANGED account

\* lockHouseholdRBAC
LockHousehold(r) ==
    /\ req[r].pc = "wait"
    /\ req[r].op.kind # "create"
    /\ lock = NoRequest
    /\ lock' = r
    /\ Goto(r, "locked")
    /\ UNCHANGED account

\* loadHouseholdMemberForUpdate and the decisions taken on the loaded row.
LoadMember(r) ==
    /\ req[r].pc = "locked"
    /\ IF ~Exists(req[r].target) \/ AlreadyDone(r)
       THEN EndTx(r)
       ELSE /\ Goto(r, IF TakesOwner(r) THEN "count" ELSE "write")
            /\ UNCHANGED lock
    /\ UNCHANGED account

\* Mutant: the target itself satisfies the count.
CountOwnersIncludingTarget(r) ==
    /\ req[r].pc = "count"
    /\ IF Cardinality(ActiveOwners) < 1
       THEN EndTx(r)
       ELSE Goto(r, "write") /\ UNCHANGED lock
    /\ UNCHANGED account

\* requireAnotherActiveOwner
CountOwners(r) ==
    /\ req[r].pc = "count"
    /\ IF Cardinality(ActiveOwners) <= 1
       THEN EndTx(r)
       ELSE Goto(r, "write") /\ UNCHANGED lock
    /\ UNCHANGED account

\* The UPDATE and the commit that publishes it.
WriteMember(r) ==
    /\ req[r].pc = "write"
    /\ account' = [account EXCEPT ![req[r].target] = Written(r)]
    /\ EndTx(r)

\* The deferred rollback after a cancelled context or a database error.
Rollback(r) ==
    /\ req[r].pc \in InTx
    /\ EndTx(r)
    /\ UNCHANGED account

\* A request whose context ends before its statement ran.
Cancel(r) ==
    /\ req[r].pc = "wait"
    /\ Finish(r)
    /\ UNCHANGED <<account, lock>>

\* finance-bootstrap: inserts the administrator with the column default 'owner'.
BootstrapAdmin(m) ==
    /\ ~Exists(m)
    /\ account' = [account EXCEPT ![m] = Registry!NewRow("owner")]
    /\ UNCHANGED <<lock, req>>

Step(r) ==
    \/ CreateMember(r) \/ LockHousehold(r) \/ LoadMember(r)
    \/ CountOwners(r)  \/ WriteMember(r)

Next ==
    \/ \E r \in Requests : Authorize(r) \/ Step(r) \/ Rollback(r) \/ Cancel(r)
    \/ \E m \in Members : BootstrapAdmin(m)

Spec == Init /\ [][Next]_vars

(***************************************************************************)
(* Fairness.  A goroutine serving a request keeps issuing its statements,  *)
(* so its steps are weakly fair.  PostgreSQL grants a contended advisory   *)
(* lock to waiters in queue order, so a waiter is not overtaken for ever:  *)
(* strong fairness of LockHousehold.  Nothing forces a rollback.           *)
(***************************************************************************)
FairSpec ==
    /\ Spec
    /\ \A r \in Requests : WF_vars(Step(r)) /\ SF_vars(LockHousehold(r))

-----------------------------------------------------------------------------
\* "household must retain an active owner" (ErrLastOwner): two owners demoting
\* or disabling each other at the same time never leave the household without one.
OwnerRemains == Registry!HasActiveOwner

\* A transaction that has passed the owner check still has another active owner
\* to rely on when it writes, whatever the other requests did since the count.
CheckStillHolds ==
    \A r \in Requests :
        req[r].pc = "write" /\ TakesOwner(r) => \E o \in ActiveOwners : o # req[r].target

\* Only the holder of the advisory lock is inside a mutation.
LockGuardsMutation ==
    \A r \in Requests : req[r].pc \in InTx <=> lock = r

\* A mutation past its load still has its row.
TargetLoaded ==
    \A r \in Requests :
        /\ req[r].pc \in InTx => req[r].op.kind # "create"
        /\ req[r].pc \in {"count", "write"} => Exists(req[r].target)
        /\ req[r].pc = "count" => TakesOwner(r)

\* The strengthening of OwnerRemains that every step preserves.
OwnerInv ==
    /\ TypeOK
    /\ OwnerRemains
    /\ CheckStillHolds
    /\ LockGuardsMutation
    /\ TargetLoaded

\* The statement-by-statement transactions implement the atomic registry.
ImplementsRegistry == Registry!RegistrySpec

\* Every admitted mutation is answered: the advisory lock is always released.
MutationsFinish ==
    \A r \in Requests : req[r].pc # "idle" ~> req[r].pc = "idle"
==============================================================================
