-------------------------- MODULE MCLedgerSnapshot --------------------------
(* A checking account, a broker, a credit card that is also a debt, and an   *)
(* account in another currency; slots 1 and 2 in the period, slot 3 after.   *)
EXTENDS LedgerSnapshot, TLC

CONSTANTS checking, broker, card, euro

Tx(type, src, dst, amount, category) ==
    [type |-> type, src |-> src, dst |-> dst, amount |-> amount,
     category |-> category, hidden |-> FALSE]

MCAccounts == {checking, broker, card, euro}
MCOpening  == checking :> 3 @@ broker :> 2 @@ card :> -1 @@ euro :> 4

MCContents == {
    Tx("income", checking, None, 2, "salary"),
    Tx("expense", checking, None, 1, "food"),
    Tx("expense", checking, None, 2, "fun"),
    Tx("expense", checking, None, -1, "food"),
    Tx("expense", card, None, 1, "fun"),
    Tx("transfer", checking, card, 1, None),
    Tx("modification", euro, None, 1, None),
    [Tx("transfer", checking, broker, 2, None) EXCEPT !.hidden = TRUE]}

MCOverdraftContents == {Tx("expense", checking, None, 3, "fun")}

MCLines == {
    [id |-> 1, kind |-> "essential", category |-> "food", planned |-> 2],
    [id |-> 2, kind |-> "debt", category |-> "loan", planned |-> 1],
    [id |-> 3, kind |-> "flexible", category |-> "fun", planned |-> 1],
    [id |-> 4, kind |-> "goal", category |-> None, planned |-> 2]}

MCDebts == {[id |-> 1, account |-> card, scheduled |-> 0, minimum |-> 2]}

=============================================================================
