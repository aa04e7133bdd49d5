--------------------------- MODULE SetupRegistry ----------------------------
(***************************************************************************)
(* What setting up a household promises: in one step it completes what is  *)
(* missing of the household, its policy, the plan of a month and its       *)
(* administrator, and leaves everything that is there as its owners made   *)
(* it.  HouseholdSetup shows that internal/bootstrap implements it.        *)
(***************************************************************************)
CONSTANTS Homes, Identities, Floors, Periods, Users, None

VARIABLES homes,     \* the identity of each household
          policies,  \* its liquidity floor
          plans,     \* the months it has a budget plan for
          users      \* the accounts: household, secrets, disabled

registry == <<homes, policies, plans, users>>

\* The households of an identity (name, currency and time zone).
HomesOf(table, i) == {h \in Homes : table[h] = i}

NewAdmin(h) == [home |-> h, secret |-> "initial", disabled |-> FALSE]

\* Run and RunWithAdmin: user is None when no administrator is asked for.
Ensure(i, floor, period, user) ==
    \E h \in Homes :
        /\ HomesOf(homes, i) = {h} \/ (HomesOf(homes, i) = {} /\ homes[h] = None)
        /\ homes' = [homes EXCEPT ![h] = i]
        /\ policies' = [policies EXCEPT ![h] = IF @ = None THEN floor ELSE @]
        /\ plans' = plans \cup {<<h, period>>}
        /\ \/ user = None /\ users' = users
           \/ /\ user # None /\ users[user] = None
              /\ users' = [users EXCEPT ![user] = NewAdmin(h)]
           \/ /\ user # None /\ users[user] # None /\ users[user].home = h
              /\ users' = users

\* What the owners do meanwhile.
OwnersSetPolicy ==
    \E h \in Homes, floor \in Floors :
        /\ homes[h] # None
        /\ policies' = [policies EXCEPT ![h] = floor]
        /\ UNCHANGED <<homes, plans, users>>

OwnersAddUser ==
    \E u \in Users, h \in Homes :
        /\ homes[h] # None /\ users[u] = None
        /\ users' = [users EXCEPT ![u] = [home |-> h, secret |-> "own", disabled |-> FALSE]]
        /\ UNCHANGED <<homes, policies, plans>>

OwnersChangeUser ==
    \E u \in Users, off \in BOOLEAN :
        /\ users[u] # None
        /\ users' = [users EXCEPT ![u] = [home |-> @.home, secret |-> "own", disabled |-> off]]
        /\ UNCHANGED <<homes, policies, plans>>

RegistryInit == /\ homes \in [Homes -> Identities \cup {None}]
                /\ policies \in [Homes -> Floors \cup {None}]
                /\ plans \subseteq Homes \X Periods
                /\ users \in [Users -> [home : Homes, secret : {"initial", "own"},
                                        disabled : BOOLEAN] \cup {None}]

RegistryNext ==
    \/ \E i \in Identities, floor \in Floors, period \in Periods, user \in Users \cup {None} :
          Ensure(i, floor, period, user)
    \/ OwnersSetPolicy \/ OwnersAddUser \/ OwnersChangeUser

RegistrySpec == RegistryInit /\ [][RegistryNext]_registry
=============================================================================
