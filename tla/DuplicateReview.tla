--------------------------- MODULE DuplicateReview ---------------------------
(***************************************************************************)
(* The data quality report of a month (API.DataQuality in                  *)
(* internal/appapi/data_quality.go, Analyze in                             *)
(* internal/dataquality/analyzer.go).                                      *)
(*                                                                         *)
(* A report reads accounts, categories and transactions of the ledger in   *)
(* three calls while others write to it, names what is missing, and then   *)
(* scans the transactions that are equal in everything but their time for  *)
(* those that follow each other within a window: it takes the earliest one *)
(* not yet looked at with all that lie within the window of it, and goes   *)
(* on after them.                                                          *)
(***************************************************************************)
EXTENDS Integers, FiniteSets

CONSTANTS Entries,    \* transaction ids, numbers: ties in time are ordered by them
          EntryRows,  \* what the transactions may be
          LedgerAccounts, LedgerCategories,
          Window,     \* DuplicateWindow
          MaxEdits,   \* bound on what others write
          Absent

\* sum stands for all that has to be equal beside the type and the references;
\* an amount may come without a currency or be hidden.
EntryRow == [type : {"income", "expense", "transfer", "adjustment"},
             source : LedgerAccounts \cup {Absent},
             target : LedgerAccounts \cup {Absent},
             category : LedgerCategories \cup {Absent},
             sum : Nat, currency : BOOLEAN, hidden : BOOLEAN, at : Int]

ASSUME ReviewAssumption ==
    /\ Entries \subseteq Nat /\ IsFiniteSet(Entries)
    /\ EntryRows \subseteq EntryRow
    /\ Window \in Nat /\ MaxEdits \in Nat
    /\ Absent \notin EntryRow \cup {"income", "expense"} \cup LedgerAccounts

VARIABLES entry,      \* the transactions of the month in the ledger
          account,    \* its accounts
          category,   \* the type of each of its categories
          edits,      \* writes so far
          step,       \* what the report does next
          seen,       \* what its calls returned
          rest,       \* transactions the scan has not looked at
          groups      \* DuplicateGroups so far

ledgerVars == <<entry, account, category, edits>>
reviewVars == <<entry, account, category, edits, step, seen, rest, groups>>

NothingSeen == [accounts |-> {}, categories |-> [c \in LedgerCategories |-> Absent],
                entries |-> [e \in Entries |-> Absent]]

-----------------------------------------------------------------------------
(***************************************************************************)
(* The ledger                                                              *)
(***************************************************************************)

ReviewInit ==
    /\ entry \in [Entries -> EntryRows \cup {Absent}]
    /\ account \in SUBSET LedgerAccounts
    /\ category \in [LedgerCategories -> {"income", "expense", Absent}]
    /\ edits = 0
    /\ step = "accounts"
    /\ seen = NothingSeen
    /\ rest = {}
    /\ groups = {}

\* Somebody adds, changes or removes an account, a category or a transaction.
EditLedger ==
    /\ step \in {"categories", "transactions"}
    /\ edits < MaxEdits /\ edits' = edits + 1
    /\ \/ /\ \E e \in Entries, row \in EntryRows \cup {Absent} : entry' = [entry EXCEPT ![e] = row]
          /\ UNCHANGED <<account, category>>
       \/ /\ account' \in SUBSET LedgerAccounts
          /\ UNCHANGED <<entry, category>>
       \/ /\ category' \in [LedgerCategories -> {"income", "expense", Absent}]
          /\ UNCHANGED <<entry, account>>
    /\ UNCHANGED <<step, seen, rest, groups>>

-----------------------------------------------------------------------------
(***************************************************************************)
(* The report                                                              *)
(***************************************************************************)

ReviewAccounts ==
    /\ step = "accounts" /\ step' = "categories"
    /\ seen' = [seen EXCEPT !.accounts = account]
    /\ UNCHANGED <<ledgerVars, rest, groups>>

ReviewCategories ==
    /\ step = "categories" /\ step' = "transactions"
    /\ seen' = [seen EXCEPT !.categories = category]
    /\ UNCHANGED <<ledgerVars, rest, groups>>

\* A balance adjustment is never a duplicate.
Comparable(rows) == {e \in Entries : rows[e] # Absent /\ rows[e].type # "adjustment"}

ReviewTransactions ==
    /\ step = "transactions" /\ step' = "scan"
    /\ seen' = [seen EXCEPT !.entries = entry]
    /\ rest' = Comparable(entry)
    /\ UNCHANGED <<ledgerVars, groups>>

Signature(e) ==
    LET row == seen.entries[e]
    IN  <<row.type, row.category, row.source, row.target, row.sum>>

At(e) == seen.entries[e].at

ComesFirst(e, f) == At(e) < At(f) \/ (At(e) = At(f) /\ e <= f)

\* Mutant: a transaction just at the end of the window is not counted in.
WithinShort(e) == {f \in rest : Signature(f) = Signature(e) /\ At(f) - At(e) < Window}

\* The transactions of the scan equal to e, the first of them, that follow it
\* within the window.
Within(e) == {f \in rest : Signature(f) = Signature(e) /\ At(f) - At(e) <= Window}

\* The earliest of a signature and those within its window; the signatures are
\* taken in any order.
ScanFrom(e) ==
    /\ step = "scan" /\ e \in rest
    /\ \A f \in rest : Signature(f) = Signature(e) => ComesFirst(e, f)
    /\ rest' = rest \ (Within(e) \cup {e})
    /\ groups' = IF Within(e) \subseteq {e} THEN groups ELSE groups \cup {Within(e)}
    /\ UNCHANGED <<ledgerVars, step, seen>>

FinishReview ==
    /\ step = "scan" /\ rest = {} /\ step' = "reported"
    /\ UNCHANGED <<ledgerVars, seen, rest, groups>>

\* A call of the ledger fails, and the report with it.
ReviewFails ==
    /\ step \in {"accounts", "categories", "transactions"} /\ step' = "failed"
    /\ UNCHANGED <<ledgerVars, seen, rest, groups>>

ReviewNext ==
    \/ EditLedger \/ ReviewAccounts \/ ReviewCategories \/ ReviewTransactions
    \/ (\E e \in Entries : ScanFrom(e)) \/ FinishReview \/ ReviewFails

ReviewSpec == ReviewInit /\ [][ReviewNext]_reviewVars

-----------------------------------------------------------------------------
(***************************************************************************)
(* The answer                                                              *)
(***************************************************************************)

\* transactionIssues: the kinds of what is wrong with a transaction.
IssuesOf(row) ==
    {kind \in {"hidden_amount", "missing_currency", "missing_source_account",
               "missing_category", "category_type_mismatch",
               "transfer_missing_destination", "missing_destination_account"} :
       CASE kind = "hidden_amount" -> row.hidden
         [] kind = "missing_currency" -> ~row.currency
         [] kind = "missing_source_account" -> row.source \notin seen.accounts
         [] kind = "missing_category" ->
               /\ row.type \in {"income", "expense"}
               /\ row.category = Absent \/ seen.categories[row.category] = Absent
         [] kind = "category_type_mismatch" ->
               /\ row.type \in {"income", "expense"}
               /\ row.category # Absent
               /\ seen.categories[row.category] \notin {Absent, row.type}
         [] kind = "transfer_missing_destination" ->
               row.type = "transfer" /\ row.target = Absent
         [] kind = "missing_destination_account" ->
               row.type = "transfer" /\ row.target \notin seen.accounts \cup {Absent}}

CheckedEntries == {e \in Entries : seen.entries[e] # Absent}

Issues == UNION {{<<e, kind>> : kind \in IssuesOf(seen.entries[e])} : e \in CheckedEntries}

Clean == groups = {} /\ Issues = {}

-----------------------------------------------------------------------------
(***************************************************************************)
(* Properties                                                              *)
(***************************************************************************)

ReviewTypeOK ==
    /\ entry \in [Entries -> EntryRows \cup {Absent}]
    /\ account \in SUBSET LedgerAccounts
    /\ category \in [LedgerCategories -> {"income", "expense", Absent}]
    /\ edits \in 0..MaxEdits
    /\ step \in {"accounts", "categories", "transactions", "scan", "reported", "failed"}
    /\ seen \in [accounts : SUBSET LedgerAccounts,
                 categories : [LedgerCategories -> {"income", "expense", Absent}],
                 entries : [Entries -> EntryRows \cup {Absent}]]
    /\ rest \in SUBSET Entries
    /\ groups \in SUBSET SUBSET Entries

Scanned == step \in {"scan", "reported"}
Candidates == Comparable(seen.entries)

\* f may be e entered a second time.
Repeats(f, e) ==
    /\ e # f /\ Signature(e) = Signature(f)
    /\ ComesFirst(e, f) /\ At(f) - At(e) <= Window

\* A group has several members, all equal and all within the window of the
\* first of them.
GroupsAreRepeats ==
    \A g \in groups : \E first \in g :
        /\ g # {first}
        /\ g \subseteq Candidates
        /\ \A f \in g \ {first} : Repeats(f, first)

\* No transaction is counted into two groups, or looked at again after it was.
GroupsAreApart ==
    /\ \A g \in groups : g \cap rest = {}
    /\ \A g, h \in groups : g = h \/ g \cap h = {}

\* The scan leaves nothing behind that comes before what it has looked at.
ScanInOrder ==
    /\ rest \subseteq Candidates
    /\ \A e \in rest, f \in Candidates \ rest :
           Signature(e) = Signature(f) => ~ComesFirst(e, f)

\* A transaction that another one repeats is in a group once it is looked at.
RepeatedIsFound ==
    \A e, f \in Candidates :
        Repeats(f, e) => e \in rest \cup UNION groups

\* As long as nobody writes, what was read is the ledger.
SeenIsTheLedger ==
    edits = 0 =>
        /\ step \in {"categories", "transactions", "scan", "reported"} => seen.accounts = account
        /\ step \in {"transactions", "scan", "reported"} => seen.categories = category
        /\ Scanned => seen.entries = entry

\* A transaction of the ledger has all it needs, and what it refers to exists.
NothingMissing(row) ==
    /\ ~row.hidden /\ row.currency /\ row.source \in account
    /\ row.type \in {"income", "expense"} =>
           row.category # Absent /\ category[row.category] = row.type
    /\ row.type = "transfer" => row.target \in account

NothingToReview ==
    /\ \A e \in Entries : entry[e] # Absent => NothingMissing(entry[e])
    /\ \A e, f \in Comparable(entry) : ~Repeats(f, e)

\* The month is called clean exactly when the ledger has nothing to review.
CleanIsTrue ==
    step = "reported" /\ edits = 0 => (Clean <=> NothingToReview)

\* What a report says of duplicates is so, and it misses none: each group is of
\* equal transactions within the window, no transaction is in two groups, and a
\* transaction with an equal one within the window after it is in a group once
\* the scan has passed it (duplicateGroups in dataquality/analyzer.go).  Unless
\* somebody writes between its calls, its quality is that of the ledger.
ReviewInv ==
    /\ ReviewTypeOK
    /\ SeenIsTheLedger
    /\ ~Scanned => groups = {}
    /\ Scanned => GroupsAreRepeats /\ GroupsAreApart /\ ScanInOrder /\ RepeatedIsFound
    /\ step = "reported" => rest = {}
    /\ CleanIsTrue
=============================================================================
