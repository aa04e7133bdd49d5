--------------------------- MODULE AssetAllocation ---------------------------
(***************************************************************************)
(* What the household owns, by class (API.AssetAllocation in               *)
(* internal/appapi/asset_allocation.go, Summarize in                       *)
(* internal/portfolio/service.go).                                         *)
(*                                                                         *)
(* A holding may be known twice: as an account of the ledger and as asset  *)
(* snapshots the owner keeps beside it, which name the account.  The       *)
(* request reads the snapshots and then the accounts while the owner       *)
(* writes the one and the ledger the other; it counts the snapshots, and  *)
(* of the accounts those no counted snapshot names.                        *)
(***************************************************************************)
EXTENDS Integers, Functions

CONSTANTS Assets,       \* asset_ref of the snapshots
          Holdings,     \* accounts of the ledger
          SnapshotRows, AccountRows,  \* what both may be
          ValuationStaleAfter, FXStaleAfter,
          MaxSum,       \* the largest amount
          MaxWrites,    \* bound on what others write
          Missing

\* Some of the eight classes.
Classes == {"cash", "deposit", "fund", "other"}

\* Ages are counted back from the time of the request; an account has a class
\* of its own, or is counted under "other" with a warning.
SnapshotRow == [value : 0..MaxSum, base : BOOLEAN, converted : BOOLEAN, class : Classes,
                age : Int, fxAge : Int \cup {Missing}, account : Holdings \cup {Missing}]
AccountRow  == [balance : (-MaxSum)..MaxSum, base : BOOLEAN, asset : BOOLEAN,
                class : Classes]

ASSUME AllocationAssumption ==
    /\ SnapshotRows \subseteq {row \in SnapshotRow : row.converted => row.fxAge # Missing}
    /\ AccountRows \subseteq AccountRow
    /\ Missing \notin SnapshotRow \cup AccountRow \cup Holdings \cup Int
    /\ ValuationStaleAfter \in Nat \ {0} /\ FXStaleAfter \in Nat \ {0}
    /\ MaxSum \in Nat /\ MaxWrites \in Nat

VARIABLES snapshot,     \* portfolio_asset_snapshots
          holding,      \* the accounts in the ledger
          writes,       \* writes so far
          turn,         \* what the request does next
          read,         \* what its two reads returned
          open,         \* what of it has not been looked at
          counted,      \* snapshots and accounts taken into the valuations
          classTotal,   \* ByClass
          marks,        \* why the answer is not good
          oldest        \* age of dataAsOf

storedVars == <<snapshot, holding, writes>>
sumVars == <<counted, classTotal, marks, oldest>>
allocationVars == <<storedVars, turn, read, open, sumVars>>

-----------------------------------------------------------------------------

AllocationInit ==
    /\ snapshot \in [Assets -> SnapshotRows \cup {Missing}]
    /\ holding \in [Holdings -> AccountRows \cup {Missing}]
    /\ writes = 0
    /\ turn = "list"
    /\ read = [snapshots |-> [a \in Assets |-> Missing], accounts |-> [x \in Holdings |-> Missing]]
    /\ open = [snapshots |-> {}, accounts |-> {}]
    /\ counted = [snapshots |-> {}, accounts |-> {}]
    /\ classTotal = [c \in Classes |-> 0]
    /\ marks = {}
    /\ oldest = 0

Write == writes < MaxWrites /\ writes' = writes + 1

\* A write before the first read is another initial state.
UpsertAsset(a) ==
    /\ turn = "accounts" /\ Write
    /\ \E row \in SnapshotRows : snapshot' = [snapshot EXCEPT ![a] = row]
    /\ UNCHANGED <<holding, turn, read, open, sumVars>>

DeleteAsset(a) ==
    /\ turn = "accounts" /\ Write
    /\ snapshot' = [snapshot EXCEPT ![a] = Missing]
    /\ UNCHANGED <<holding, turn, read, open, sumVars>>

ChangeHolding(x) ==
    /\ turn = "accounts" /\ Write
    /\ \E row \in AccountRows \cup {Missing} : holding' = [holding EXCEPT ![x] = row]
    /\ UNCHANGED <<snapshot, turn, read, open, sumVars>>

ListAssetSnapshots ==
    /\ turn = "list" /\ turn' = "accounts"
    /\ read' = [read EXCEPT !.snapshots = snapshot]
    /\ open' = [open EXCEPT !.snapshots = {a \in Assets : snapshot[a] # Missing}]
    /\ UNCHANGED <<storedVars, sumVars>>

ListHoldings ==
    /\ turn = "accounts" /\ turn' = "count"
    /\ read' = [read EXCEPT !.accounts = holding]
    /\ open' = [open EXCEPT !.accounts = {x \in Holdings : holding[x] # Missing}]
    /\ UNCHANGED <<storedVars, sumVars>>

-----------------------------------------------------------------------------

Total == SumFunction(classTotal)

\* Money.Add fails beyond the largest amount, and the request with it.
AddUp(class, value) ==
    IF Total + value <= MaxSum
    THEN classTotal' = [classTotal EXCEPT ![class] = @ + value] /\ UNCHANGED turn
    ELSE turn' = "failed" /\ UNCHANGED classTotal

Older(a, b) == IF a < b THEN b ELSE a

\* Summarize's warnings of a snapshot; its rate counts only if it was converted.
StaleMarks(row) ==
    (IF row.age > ValuationStaleAfter THEN {"stale"} ELSE {}) \cup
    (IF row.converted /\ row.fxAge > FXStaleAfter THEN {"stale"} ELSE {})

SkipSnapshot(a) ==
    /\ turn = "count" /\ a \in open.snapshots /\ ~read.snapshots[a].base
    /\ open' = [open EXCEPT !.snapshots = @ \ {a}]
    /\ marks' = marks \cup {"partial"}
    /\ UNCHANGED <<storedVars, turn, read, counted, classTotal, oldest>>

CountSnapshot(a) ==
    LET row == read.snapshots[a]
    IN  /\ turn = "count" /\ a \in open.snapshots /\ row.base
        /\ AddUp(row.class, row.value)
        /\ open' = [open EXCEPT !.snapshots = @ \ {a}]
        /\ counted' = [counted EXCEPT !.snapshots = @ \cup {a}]
        /\ marks' = marks \cup StaleMarks(row)
        /\ oldest' = Older(Older(oldest, row.age), IF row.fxAge = Missing THEN 0 ELSE row.fxAge)
        /\ UNCHANGED <<storedVars, read>>

\* Mutant: a snapshot hides its account though it is skipped itself.
CoveredBySkipped == {read.snapshots[a].account : a \in {b \in Assets : read.snapshots[b] # Missing}}

\* coveredAccounts
Covered == {read.snapshots[a].account : a \in counted.snapshots}

TakesAccount(x) ==
    turn = "count" /\ open.snapshots = {} /\ x \in open.accounts

\* Covered by a snapshot, hidden, a container of accounts or a debt.
PassAccount(x) ==
    /\ TakesAccount(x) /\ (x \in Covered \/ ~read.accounts[x].asset)
    /\ open' = [open EXCEPT !.accounts = @ \ {x}]
    /\ UNCHANGED <<storedVars, turn, read, sumVars>>

SkipAccount(x) ==
    /\ TakesAccount(x) /\ x \notin Covered
    /\ read.accounts[x].asset /\ ~read.accounts[x].base
    /\ open' = [open EXCEPT !.accounts = @ \ {x}]
    /\ marks' = marks \cup {"partial"}
    /\ UNCHANGED <<storedVars, turn, read, counted, classTotal, oldest>>

\* The magnitude of a balance counts.
Worth(row) == IF row.balance < 0 THEN -row.balance ELSE row.balance

\* A coarse class makes the answer partial.
CountAccount(x) ==
    LET row == read.accounts[x]
    IN  /\ TakesAccount(x) /\ x \notin Covered /\ row.asset /\ row.base
        /\ AddUp(row.class, Worth(row))
        /\ open' = [open EXCEPT !.accounts = @ \ {x}]
        /\ counted' = [counted EXCEPT !.accounts = @ \cup {x}]
        /\ marks' = IF row.class = "other" THEN marks \cup {"partial"} ELSE marks
        /\ UNCHANGED <<storedVars, read, oldest>>

AnswerAllocation ==
    /\ turn = "count" /\ open = [snapshots |-> {}, accounts |-> {}]
    /\ turn' = "answered"
    /\ UNCHANGED <<storedVars, read, open, sumVars>>

\* A read fails, and the request with it.
AllocationFails ==
    /\ turn \in {"list", "accounts"} /\ turn' = "failed"
    /\ UNCHANGED <<storedVars, read, open, sumVars>>

AllocationNext ==
    \/ (\E a \in Assets : UpsertAsset(a) \/ DeleteAsset(a) \/ SkipSnapshot(a) \/ CountSnapshot(a))
    \/ (\E x \in Holdings : ChangeHolding(x) \/ PassAccount(x) \/ SkipAccount(x) \/ CountAccount(x))
    \/ ListAssetSnapshots \/ ListHoldings \/ AnswerAllocation \/ AllocationFails

AllocationSpec == AllocationInit /\ [][AllocationNext]_allocationVars

Quality == IF "partial" \in marks THEN "partial" ELSE IF "stale" \in marks THEN "stale" ELSE "good"

-----------------------------------------------------------------------------
(***************************************************************************)
(* Properties                                                              *)
(***************************************************************************)

AllocationTypeOK ==
    /\ snapshot \in [Assets -> SnapshotRows \cup {Missing}]
    /\ holding \in [Holdings -> AccountRows \cup {Missing}]
    /\ writes \in 0..MaxWrites
    /\ turn \in {"list", "accounts", "count", "answered", "failed"}
    /\ read \in [snapshots : [Assets -> SnapshotRows \cup {Missing}],
                 accounts : [Holdings -> AccountRows \cup {Missing}]]
    /\ open \in [snapshots : SUBSET Assets, accounts : SUBSET Holdings]
    /\ counted \in [snapshots : SUBSET Assets, accounts : SUBSET Holdings]
    /\ marks \in SUBSET {"partial", "stale"}
    /\ oldest \in Int

Summing == turn \in {"count", "answered"}
Reported(a) == read.snapshots[a] # Missing
Owned(x) == read.accounts[x] # Missing /\ read.accounts[x].asset
NamedBy(x) == {a \in counted.snapshots : read.snapshots[a].account = x}

\* What is counted is there, in the household's currency, and was looked at;
\* the accounts wait for the snapshots.
CountedIsThere ==
    /\ \A a \in open.snapshots : Reported(a)
    /\ \A x \in open.accounts : read.accounts[x] # Missing
    /\ \A a \in counted.snapshots : a \notin open.snapshots /\ Reported(a) /\ read.snapshots[a].base
    /\ \A x \in counted.accounts : x \notin open.accounts /\ Owned(x) /\ read.accounts[x].base
    /\ open.snapshots # {} => \A x \in Holdings : Owned(x) => x \in open.accounts

\* Of an account and the snapshots naming it exactly one side is counted.
CountedOnce ==
    \A x \in Holdings :
        Owned(x) /\ read.accounts[x].base /\ x \notin open.accounts =>
            (x \in counted.accounts <=> NamedBy(x) = {})

\* An answer is good only if it covers all that was read, and no value or rate
\* in it is older than the thresholds.
GoodIsComplete ==
    /\ "partial" \notin marks =>
          /\ \A a \in Assets \ open.snapshots : Reported(a) => a \in counted.snapshots
          /\ \A x \in Holdings \ open.accounts :
                 Owned(x) => x \in counted.accounts \/ NamedBy(x) # {}
    /\ "stale" \notin marks =>
          \A a \in counted.snapshots :
              LET row == read.snapshots[a]
              IN  /\ row.age <= ValuationStaleAfter
                  /\ row.converted => row.fxAge <= FXStaleAfter

\* dataAsOf is not later than anything the answer rests on.
OldestIsOldest ==
    \A a \in counted.snapshots :
        LET row == read.snapshots[a]
        IN  row.age <= oldest /\ (row.fxAge # Missing => row.fxAge <= oldest)

\* The totals of the classes are those of what is counted.
ClassesAddUp ==
    \A c \in Classes :
        classTotal[c] =
            SumFunction([a \in {b \in counted.snapshots : read.snapshots[b].class = c} |->
                            read.snapshots[a].value])
          + SumFunction([x \in {y \in counted.accounts : read.accounts[y].class = c} |->
                            Worth(read.accounts[x])])

\* Whatever was written between the two reads, a holding is counted once, as an
\* account or by its snapshots, a skipped snapshot hides no account, and an
\* answer called good leaves nothing out and rests on nothing stale
\* (API.AssetAllocation).
HoldingsCountOnce ==
    /\ AllocationTypeOK
    /\ turn \in {"list", "accounts"} => counted = [snapshots |-> {}, accounts |-> {}]
    /\ turn = "accounts" => \A a \in Assets : Reported(a) <=> a \in open.snapshots
    /\ Summing => CountedIsThere /\ CountedOnce /\ GoodIsComplete /\ OldestIsOldest

\* All of that, and the class totals are of what is counted
\* (portfolio.Summarize).
AllocationInv == HoldingsCountOnce /\ (Summing => ClassesAddUp)
=============================================================================
