--------------------------- MODULE HouseholdSetup ---------------------------
(***************************************************************************)
(* finance-bootstrap (internal/bootstrap/bootstrap.go): several runs set   *)
(* up households in serializable transactions, statement by statement,     *)
(* while owners change policies and accounts in statements of their own.   *)
(*                                                                         *)
(* The first statement of a run waits for an advisory lock, and it also    *)
(* fixes the snapshot the whole run reads: a run that had to wait reads    *)
(* the tables as they were before the other one committed.  PostgreSQL     *)
(* then refuses what the run would overwrite (a row changed since its      *)
(* snapshot) and what no serial order explains (both runs found no         *)
(* household and inserted one); nothing retries, so the run fails.         *)
(*                                                                         *)
(* All amounts of a household are stored in the currency of its identity   *)
(* (Run, SetPolicy and CreatePlan see to that), so the two currency checks *)
(* of a run never fail and are left out.                                   *)
(***************************************************************************)
EXTENDS Integers, FiniteSets

CONSTANTS Setups,      \* runs of finance-bootstrap
          Homes,       \* household ids
          Identities,  \* a name, a currency and a time zone
          Floors,      \* liquidity floors
          Periods,     \* months
          Users,       \* normalized user names
          Asked,       \* what the runs are asked for
          MaxChanges,  \* bound on what the owners change
          None

Inputs == [identity : Identities, floor : Floors, period : Periods, user : Users \cup {None}]

UserRow == [home : Homes, secret : {"initial", "own"}, disabled : BOOLEAN]

Snapshot == [homes : [Homes -> Identities \cup {None}], policies : [Homes -> Floors \cup {None}],
             plans : SUBSET (Homes \X Periods), users : [Users -> UserRow \cup {None}]]

ASSUME SetupAssumption ==
    /\ IsFiniteSet(Homes) /\ Floors \subseteq Int /\ MaxChanges \in Nat
    /\ Asked \subseteq Inputs
    /\ None \notin Homes \cup Identities \cup Floors \cup Users \cup Setups
                   \cup Inputs \cup UserRow \cup Snapshot

VARIABLES homes, policies, plans, users,  \* the tables, as committed
          lock,   \* the holder of the advisory lock
          pc,     \* the statement a run executes next
          input,  \* what a run was asked for
          saw,    \* its snapshot of the tables
          late,   \* the rows committed since that snapshot
          home,   \* the household it found or inserted
          changes \* what the owners changed so far

tables == <<homes, policies, plans, users>>
setupVars == <<homes, policies, plans, users, lock, pc, input, saw, late, home, changes>>

Registry == INSTANCE SetupRegistry

Late == [homes : SUBSET Identities, policies : SUBSET Homes,
         plans : SUBSET (Homes \X Periods), users : SUBSET Users]

Nothing == [homes |-> {}, policies |-> {}, plans |-> {}, users |-> {}]
Current == [homes |-> homes, policies |-> policies, plans |-> plans, users |-> users]

Locked == {"household", "policy", "plan", "admin", "commit"}
Active == Locked \cup {"lock"}

HomesOf(table, i) == {h \in Homes : table[h] = i}

-----------------------------------------------------------------------------
(***************************************************************************)
(* The tables a run has seen and what it would add to them                 *)
(***************************************************************************)

Inserts(s)       == saw[s].homes[home[s]] = None
InsertsPolicy(s) == saw[s].policies[home[s]] = None
InsertsUser(s)   == input[s].user # None /\ saw[s].users[input[s].user] = None
PlanOf(s)        == <<home[s], input[s].period>>

\* Whoever writes a row that an open run has inserted waits for its end.
PolicyFree(h) == \A s \in Setups :
    ~(pc[s] \in {"plan", "admin", "commit"} /\ home[s] = h /\ InsertsPolicy(s))
UserFree(u) == \A s \in Setups : ~(pc[s] = "commit" /\ input[s].user = u /\ InsertsUser(s))

\* What a commit means for the snapshots of the others.
Overtake(mover, i, p, n, u) ==
    late' = [s \in Setups |->
        IF pc[s] \notin Active \/ s = mover THEN Nothing
        ELSE [homes    |-> late[s].homes \cup i,
              policies |-> late[s].policies \cup p,
              plans    |-> late[s].plans \cup n,
              users    |-> late[s].users \cup u]]

-----------------------------------------------------------------------------
(***************************************************************************)
(* A run                                                                   *)
(***************************************************************************)

\* Whatever households and accounts exist, the accounts with secrets of their own.
SetupInit ==
    /\ homes \in [Homes -> Identities \cup {None}]
    /\ policies \in [Homes -> {f \in Floors : f >= 0} \cup {None}]
    /\ plans \in SUBSET (Homes \X Periods)
    /\ users \in [Users -> {row \in UserRow : row.secret = "own"} \cup {None}]
    /\ \A h \in Homes : homes[h] = None => /\ policies[h] = None
                                           /\ \A p \in Periods : <<h, p>> \notin plans
    /\ \A u \in Users : users[u] # None => homes[users[u].home] # None
    /\ lock = None
    /\ pc = [s \in Setups |-> "idle"]
    /\ input = [s \in Setups |-> None]
    /\ saw = [s \in Setups |-> None]
    /\ late = [s \in Setups |-> Nothing]
    /\ home = [s \in Setups |-> None]
    /\ changes = 0

\* Validate; the transaction begins and its first statement asks for the lock.
Begin(s) ==
    /\ pc[s] = "idle"
    /\ \E in \in Asked : in.floor >= 0 /\ input' = [input EXCEPT ![s] = in]
    /\ pc' = [pc EXCEPT ![s] = "lock"]
    /\ saw' = [saw EXCEPT ![s] = Current]
    /\ late' = [late EXCEPT ![s] = Nothing]
    /\ UNCHANGED <<tables, lock, home>>

Lock(s) ==
    /\ pc[s] = "lock" /\ lock = None
    /\ lock' = s
    /\ pc' = [pc EXCEPT ![s] = "household"]
    /\ UNCHANGED <<tables, input, saw, late, home>>

\* The statement s executes succeeds and the run goes on.
Proceed(s, next) ==
    /\ pc' = [pc EXCEPT ![s] = next]
    /\ UNCHANGED <<tables, lock, input, saw, late>>

\* Rollback: a failed statement, a serialization failure, a refusal, a cancelled run.
Abort(s) ==
    /\ pc[s] \in Active
    /\ pc' = [pc EXCEPT ![s] = "failed"]
    /\ lock' = IF lock = s THEN None ELSE lock
    /\ home' = [home EXCEPT ![s] = None]
    /\ saw' = [saw EXCEPT ![s] = None]
    /\ late' = [late EXCEPT ![s] = Nothing]
    /\ UNCHANGED <<tables, input>>

\* ensureHousehold: the household of the identity, or a new one; two are refused.
EnsureHousehold(s) ==
    LET found == HomesOf(saw[s].homes, input[s].identity)
    IN  /\ pc[s] = "household"
        /\ \E h \in Homes : /\ found = {h} \/ (found = {} /\ homes[h] = None)
                            /\ home' = [home EXCEPT ![s] = h]
        /\ Proceed(s, "policy")

\* INSERT ... ON CONFLICT DO NOTHING fails on a row its snapshot does not have.
EnsurePolicy(s) ==
    /\ pc[s] = "policy" /\ home[s] \notin late[s].policies
    /\ Proceed(s, "plan") /\ UNCHANGED home

\* INSERT ... ON CONFLICT DO UPDATE likewise.
EnsurePlan(s) ==
    /\ pc[s] = "plan" /\ PlanOf(s) \notin late[s].plans
    /\ Proceed(s, IF input[s].user = None THEN "commit" ELSE "admin")
    /\ UNCHANGED home

\* Mutant: whatever account has the name is taken for the administrator.
EnsureAdminUnchecked(s) ==
    /\ pc[s] = "admin" /\ input[s].user \notin late[s].users
    /\ Proceed(s, "commit") /\ UNCHANGED home

\* ensureAdmin: an existing account has to be an enabled one of this household.
EnsureAdmin(s) ==
    LET u == input[s].user
    IN  /\ pc[s] = "admin" /\ u \notin late[s].users
        /\ saw[s].users[u] # None => /\ saw[s].users[u].home = home[s]
                                     /\ ~saw[s].users[u].disabled
        /\ Proceed(s, "commit") /\ UNCHANGED home

\* Mutant: the isolation level is REPEATABLE READ.
SerializableNot(s) == TRUE

\* Two runs that both found no household and inserted one have no serial order.
Serializable(s) == Inserts(s) => input[s].identity \notin late[s].homes

Commit(s) ==
    LET h == home[s]
        u == input[s].user
    IN  /\ pc[s] = "commit" /\ Serializable(s)
        /\ homes' = IF Inserts(s) THEN [homes EXCEPT ![h] = input[s].identity] ELSE homes
        /\ policies' = IF InsertsPolicy(s) THEN [policies EXCEPT ![h] = input[s].floor]
                       ELSE policies
        /\ plans' = plans \cup {PlanOf(s)}
        /\ users' = IF InsertsUser(s) THEN [users EXCEPT ![u] = Registry!NewAdmin(h)]
                    ELSE users
        /\ Overtake(s, IF Inserts(s) THEN {input[s].identity} ELSE {},
                       IF InsertsPolicy(s) THEN {h} ELSE {},
                       {PlanOf(s)},
                       IF InsertsUser(s) THEN {u} ELSE {})
        /\ pc' = [pc EXCEPT ![s] = "done"]
        /\ lock' = None
        /\ saw' = [saw EXCEPT ![s] = None]
        /\ UNCHANGED <<input, home>>

-----------------------------------------------------------------------------
(***************************************************************************)
(* The owners meanwhile, one committed statement each                      *)
(***************************************************************************)

\* SetPolicy
SetPolicy(h, floor) ==
    /\ homes[h] # None /\ floor >= 0 /\ PolicyFree(h)
    /\ policies' = [policies EXCEPT ![h] = floor]
    /\ Overtake(None, {}, {h}, {}, {})
    /\ UNCHANGED <<homes, plans, users, lock, pc, input, saw, home>>

\* An owner creates an account.
AddUser(u, h) ==
    /\ homes[h] # None /\ users[u] = None /\ UserFree(u)
    /\ users' = [users EXCEPT ![u] = [home |-> h, secret |-> "own", disabled |-> FALSE]]
    /\ Overtake(None, {}, {}, {}, {u})
    /\ UNCHANGED <<homes, policies, plans, lock, pc, input, saw, home>>

\* A password or second factor is set, an account is disabled or enabled.
ChangeUser(u, off) ==
    /\ users[u] # None
    /\ users' = [users EXCEPT ![u] = [home |-> @.home, secret |-> "own", disabled |-> off]]
    /\ Overtake(None, {}, {}, {}, {u})
    /\ UNCHANGED <<homes, policies, plans, lock, pc, input, saw, home>>

SetupStep(s) ==
    /\ UNCHANGED changes
    /\ \/ Begin(s) \/ Lock(s) \/ Abort(s)
       \/ EnsureHousehold(s) \/ EnsurePolicy(s) \/ EnsurePlan(s)
       \/ EnsureAdmin(s) \/ Commit(s)

OwnerStep ==
    /\ changes < MaxChanges /\ changes' = changes + 1
    /\ \/ \E h \in Homes, floor \in Floors : SetPolicy(h, floor)
       \/ \E u \in Users, h \in Homes : AddUser(u, h)
       \/ \E u \in Users, off \in BOOLEAN : ChangeUser(u, off)

SetupNext == OwnerStep \/ \E s \in Setups : SetupStep(s)

SetupSpec == SetupInit /\ [][SetupNext]_setupVars

-----------------------------------------------------------------------------
(***************************************************************************)
(* Properties                                                              *)
(***************************************************************************)

SetupTypeOK ==
    /\ homes \in [Homes -> Identities \cup {None}]
    /\ policies \in [Homes -> Floors \cup {None}]
    /\ plans \in SUBSET (Homes \X Periods)
    /\ users \in [Users -> UserRow \cup {None}]
    /\ lock \in Setups \cup {None}
    /\ pc \in [Setups -> Active \cup {"idle", "done", "failed"}]
    /\ input \in [Setups -> Inputs \cup {None}]
    /\ saw \in [Setups -> Snapshot \cup {None}]
    /\ late \in [Setups -> Late]
    /\ home \in [Setups -> Homes \cup {None}]
    /\ changes \in Nat

\* What a run read is what is there, but for the rows committed since, and
\* nothing of it has gone.
ReadsHold(s) ==
    /\ input[s] # None /\ saw[s] # None
    /\ \A i \in Identities :
          /\ i \notin late[s].homes => HomesOf(homes, i) = HomesOf(saw[s].homes, i)
          /\ HomesOf(saw[s].homes, i) # {} => HomesOf(homes, i) = HomesOf(saw[s].homes, i)
    /\ \A h \in Homes :
          /\ h \notin late[s].policies => policies[h] = saw[s].policies[h]
          /\ saw[s].policies[h] # None => policies[h] # None
    /\ \A u \in Users :
          /\ u \notin late[s].users => users[u] = saw[s].users[u]
          /\ saw[s].users[u] # None => /\ users[u] # None
                                       /\ users[u].home = saw[s].users[u].home

FoundHome(s) ==
    LET found == HomesOf(saw[s].homes, input[s].identity)
    IN  /\ home[s] \in Homes
        /\ \/ found = {home[s]}
           \/ found = {} /\ homes[home[s]] = None /\ saw[s].homes[home[s]] = None

\* What a run that ended well reports is there: the household of the identity
\* with a policy, the plan of the month and the account asked for.
Complete(s) ==
    /\ home[s] \in Homes /\ input[s] # None
    /\ homes[home[s]] = input[s].identity
    /\ policies[home[s]] # None
    /\ PlanOf(s) \in plans
    /\ input[s].user # None => /\ users[input[s].user] # None
                               /\ users[input[s].user].home = home[s]

\* The inductive invariant of the runs: one at a time past the lock, each with
\* a snapshot that holds but for what it knows to be late, no late row among
\* those it inserted, and a complete household at the end (bootstrap.go run).
SetupInv ==
    /\ SetupTypeOK
    /\ \A s \in Setups :
          /\ pc[s] \in Locked => lock = s
          /\ pc[s] \in Active => ReadsHold(s)
          /\ pc[s] \in {"policy", "plan", "admin", "commit"} => FoundHome(s)
          /\ pc[s] \in {"plan", "admin", "commit"} /\ InsertsPolicy(s) =>
                home[s] \notin late[s].policies
          /\ pc[s] = "commit" /\ InsertsUser(s) => input[s].user \notin late[s].users
          /\ pc[s] = "commit" /\ input[s].user # None /\ ~InsertsUser(s) =>
                saw[s].users[input[s].user].home = home[s]
          /\ pc[s] = "done" => Complete(s)

\* Runs that overlap, that waited and read old tables, or that fail half way,
\* with owners who change their data meanwhile, amount to setting the
\* household up in one step: no second household of an identity, nothing half
\* set up, and no policy, password or second factor of an owner touched
\* (docs: "re-running bootstrap does not silently reset password or TOTP").
ImplementsSetup == Registry!RegistrySpec
=============================================================================
