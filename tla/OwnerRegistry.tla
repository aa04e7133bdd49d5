---------------------------- MODULE OwnerRegistry ----------------------------
(***************************************************************************)
(* What household membership promises its users, with every operation      *)
(* atomic: members are created, change role, are disabled and enabled, and *)
(* an operation that would take the last active owner away is refused on   *)
(* the state it is applied to.  HouseholdRoles implements this with        *)
(* transactions that lock, read, count and write in separate statements.   *)
(***************************************************************************)
CONSTANTS Members,   \* every user id the household may ever have
          Absent     \* marks a user id that has no auth_users row yet

VARIABLE account     \* account[m]: the auth_users row of m, or Absent

Roles    == {"owner", "editor", "viewer"}
Row      == [role : Roles, disabled : BOOLEAN]
Rows     == Row \cup {Absent}
NewRow(role) == [role |-> role, disabled |-> FALSE]

Exists(m)      == account[m] # Absent
ActiveOwner(m) == Exists(m) /\ account[m].role = "owner" /\ ~account[m].disabled
ActiveOwners   == {m \in Members : ActiveOwner(m)}

RegistryTypeOK == account \in [Members -> Rows]

\* The household always keeps an active owner.
HasActiveOwner == \E m \in Members : ActiveOwner(m)

-----------------------------------------------------------------------------
RegistryInit == \E admin \in Members :
    account = [m \in Members |-> IF m = admin THEN NewRow("owner") ELSE Absent]

\* A row may lose its active ownership only while someone else is an active owner.
MayLoseOwnership(m) == ActiveOwner(m) => \E o \in ActiveOwners : o # m

Create(m, role) ==
    /\ ~Exists(m)
    /\ account' = [account EXCEPT ![m] = NewRow(role)]

SetRole(m, role) ==
    /\ Exists(m)
    /\ role # "owner" => MayLoseOwnership(m)
    /\ account' = [account EXCEPT ![m] = [@ EXCEPT !.role = role]]

Disable(m) ==
    /\ Exists(m)
    /\ MayLoseOwnership(m)
    /\ account' = [account EXCEPT ![m] = [@ EXCEPT !.disabled = TRUE]]

Enable(m) ==
    /\ Exists(m)
    /\ account' = [account EXCEPT ![m] = [@ EXCEPT !.disabled = FALSE]]

RegistryNext == \E m \in Members :
    \/ \E role \in Roles : Create(m, role) \/ SetRole(m, role)
    \/ Disable(m)
    \/ Enable(m)

RegistrySpec == RegistryInit /\ [][RegistryNext]_account
==============================================================================
