------------------------ MODULE LedgerSnapshotProofs ------------------------
(***************************************************************************)
(* Proofs about the paged reading of LedgerSnapshot, for any ledger, page  *)
(* size, period and number of edits.                                       *)
(***************************************************************************)
EXTENDS LedgerSnapshot, FiniteSums

\* Pages read nothing twice; together with SnapshotInv this is inductive.
ReadingInv == SnapshotInv /\ PagesNeverOverlap

----------------------------------------------------------------------------
\* A page is the upper end of what was asked for.
LEMMA PageIsUpperEnd ==
    ASSUME TypeOK, NEW s \in Page, NEW u \in Asked, u > s
    PROVE  u \in Page
<1> DEFINE Above(x) == {v \in Asked : v > x}
<1>1. IsFiniteSet(Asked)
    <2>1. IsFiniteSet(1..cursor)
        BY FS_Interval, SnapshotAssumption DEF TypeOK
    <2> QED
        BY <2>1, FS_Subset DEF Asked
<1>2. Above(u) \subseteq Above(s) /\ Above(s) \subseteq Asked
    BY SnapshotAssumption DEF TypeOK, Asked, Page
<1>3. IsFiniteSet(Above(s)) /\ IsFiniteSet(Above(u))
    BY <1>1, <1>2, FS_Subset
<1>4. Cardinality(Above(u)) <= Cardinality(Above(s))
    BY <1>2, <1>3, FS_Subset
<1>5. Cardinality(Above(u)) \in Nat /\ Cardinality(Above(s)) \in Nat
    BY <1>3, FS_CardinalityType
<1>6. Cardinality(Above(s)) < PageSize
    BY DEF Page
<1> QED
    BY <1>4, <1>5, <1>6, SnapshotAssumption DEF Page

\* The next cursor separates the page from what the page leaves out.
LEMMA CursorSeparates ==
    ASSUME TypeOK, NEW c \in Slots, IsNextCursor(c)
    PROVE  /\ c <= cursor
           /\ \A s \in Page : s > c
           /\ \A s \in Asked : s > c => s \in Page
<1>1. c \in Asked \ Page /\ \A u \in Asked \ Page : u <= c
    BY DEF IsNextCursor
<1>2. Asked \subseteq Int /\ Page \subseteq Asked /\ c <= cursor
    BY <1>1 DEF Asked, Page, TypeOK
<1>3. ASSUME NEW s \in Page PROVE s > c
    <2>1. s <= c => s < c
        BY <1>1, <1>2
    <2>2. ~(s < c)
        BY <1>1, PageIsUpperEnd
    <2> QED
        BY <1>2, <1>1, <2>1, <2>2
<1>4. ASSUME NEW s \in Asked, s > c PROVE s \in Page
    BY <1>1, <1>2, <1>4
<1> QED
    BY <1>2, <1>3, <1>4

----------------------------------------------------------------------------
LEMMA InitEstablishes == Init => ReadingInv
<1> SUFFICES ASSUME Init PROVE ReadingInv
    OBVIOUS
<1>1. /\ read.historical = FALSE
      /\ read.content = [s \in Slots |-> None] /\ read.times = [s \in Slots |-> 0]
    BY DEF Init, NothingRead
<1>2. TypeOK
    <2>1. read.content \in [Slots -> Contents \cup {None}] /\ read.times \in [Slots -> Nat]
        BY <1>1
    <2>2. edits \in 0..MaxEdits /\ cursor \in 0..LastSlot
        BY SnapshotAssumption DEF Init
    <2>3. book \in [Slots -> Contents \cup {None}] /\ touched \subseteq Slots
        BY DEF Init
    <2>4. elapsed \in BOOLEAN /\ read.historical \in BOOLEAN /\ pc \in Pcs
        BY <1>1 DEF Init, Pcs
    <2> QED
        BY <2>1, <2>2, <2>3, <2>4 DEF TypeOK
<1>3. UnreadBelowCursor /\ PagesNeverOverlap
    BY <1>1 DEF UnreadBelowCursor, PagesNeverOverlap
<1>4. ReadAboveCursor
    BY <1>1, SnapshotAssumption DEF Init, ReadAboveCursor, ReadDownTo, LastAsked
<1> QED
    BY <1>2, <1>3, <1>4 DEF Init, ReadingInv, SnapshotInv, BalancesOfTheLedger

\* Actions that read no page.
LEMMA OtherReaderStep ==
    ASSUME ReadingInv, Begin \/ ReadAccounts \/ ReadFails \/ Respond
    PROVE  ReadingInv'
<1> USE SnapshotAssumption
    DEF ReadingInv, SnapshotInv, TypeOK, UnreadBelowCursor, ReadAboveCursor,
        BalancesOfTheLedger, PagesNeverOverlap, NothingRead, Pcs, ReadDownTo, LastAsked,
        Slots, ReadAsRecorded, Ledger
<1>1. CASE Begin
    BY <1>1 DEF Begin
<1>2. CASE ReadAccounts
    BY <1>2 DEF ReadAccounts
<1>3. CASE ReadFails
    BY <1>3 DEF ReadFails
<1>4. CASE Respond
    BY <1>4 DEF Respond
<1> QED
    BY <1>1, <1>2, <1>3, <1>4

\* What a page adds to the reading.
LEMMA PageStep ==
    ASSUME ReadingInv, ReadPage
    PROVE  ReadingInv'
<1> DEFINE last == LastAsked(read.historical)
<1>1. /\ pc = "pages" /\ read'.historical = read.historical /\ read'.balances = read.balances
      /\ \A s \in Slots : /\ read'.content[s] = IF s \in Page THEN book[s] ELSE read.content[s]
                          /\ read'.times[s] = read.times[s] + (IF s \in Page THEN 1 ELSE 0)
      /\ UNCHANGED <<book, elapsed, edits, touched>>
    BY DEF ReadPage, Ledger
<1>2. /\ TypeOK /\ cursor \in Nat /\ last \in 0..LastSlot /\ cursor <= last
      /\ Page \subseteq Asked /\ Asked \subseteq 1..cursor /\ Asked \subseteq Slots
    BY <1>1, SnapshotAssumption
    DEF ReadingInv, SnapshotInv, TypeOK, LastAsked, Page, Asked, Slots
<1>3. \A s \in Slots : s <= cursor => read.times[s] = 0 /\ read.content[s] = None
    BY <1>1 DEF ReadingInv, SnapshotInv, UnreadBelowCursor
<1>4. \A s \in Slots : s > last => read.times[s] = 0 /\ read.content[s] = None
    BY DEF ReadingInv, SnapshotInv, UnreadBelowCursor
<1>5. \A s \in Slots : s > cursor /\ s <= last /\ s \notin touched => ReadAsRecorded(s)
    BY <1>1, <1>2 DEF ReadingInv, SnapshotInv, ReadAboveCursor, ReadDownTo, Slots
<1>6. \E low \in 0..cursor :
          /\ cursor' \in 0..LastSlot
          /\ \/ pc' = "pages" /\ cursor' = low
             \/ pc' = "done" /\ low = 0
          /\ \A s \in Page : s > low
          /\ \A s \in Asked : s > low => s \in Page
    <2>1. CASE Asked \ Page = {} /\ pc' = "done" /\ UNCHANGED cursor
        <3>1. 0 \in 0..cursor /\ cursor' \in 0..LastSlot
            BY <1>2, <2>1 DEF TypeOK
        <3>2. \A s \in Page : s > 0
            BY <1>2
        <3> QED
            BY <2>1, <3>1, <3>2
    <2>2. CASE \E c \in Slots : IsNextCursor(c) /\ cursor' = c /\ UNCHANGED pc
        <3>1. PICK c \in Slots : IsNextCursor(c) /\ cursor' = c /\ pc' = pc
            BY <2>2
        <3>2. c \in 0..cursor /\ c \in 0..LastSlot
            BY <1>2, <3>1, CursorSeparates, SnapshotAssumption DEF Slots
        <3> QED
            BY <1>1, <1>2, <3>1, <3>2, CursorSeparates
    <2> QED
        BY <2>1, <2>2 DEF ReadPage
<1>7. PICK low \in 0..cursor :
          /\ cursor' \in 0..LastSlot
          /\ \/ pc' = "pages" /\ cursor' = low
             \/ pc' = "done" /\ low = 0
          /\ \A s \in Page : s > low
          /\ \A s \in Asked : s > low => s \in Page
    BY <1>6
<1>8. TypeOK'
    <2>1. read'.content \in [Slots -> Contents \cup {None}]
        BY <1>2 DEF ReadPage, TypeOK
    <2>2. read'.times \in [Slots -> Nat]
        BY <1>2 DEF ReadPage, TypeOK
    <2> QED
        BY <1>1, <1>2, <1>7, <2>1, <2>2 DEF TypeOK, Pcs
<1>9. LastAsked(read'.historical) = last
    BY <1>1
<1>10. UnreadBelowCursor'
    <2> SUFFICES ASSUME NEW s \in Slots, (pc' = "pages" /\ s <= low) \/ s > last
                 PROVE  read'.times[s] = 0 /\ read'.content[s] = None
        BY <1>7, <1>9 DEF UnreadBelowCursor
    <2>1. s \notin Page
        BY <1>2, <1>7 DEF Slots
    <2>2. s <= cursor \/ s > last
        BY <1>2, <1>7 DEF Slots
    <2> QED
        BY <1>1, <1>2, <1>3, <1>4, <2>1, <2>2 DEF TypeOK
<1>11. ReadAboveCursor'
    <2>1. ReadDownTo' = low
        BY <1>7 DEF ReadDownTo
    <2> SUFFICES ASSUME NEW s \in low+1..last, s \notin touched
                 PROVE  ReadAsRecorded(s)'
        BY <1>1, <1>9, <2>1 DEF ReadAboveCursor
    <2>2. s \in Slots /\ s > low
        BY <1>2, <1>7, SnapshotAssumption DEF Slots
    <2>3. CASE s > cursor
        <3>1. s \notin Page /\ ReadAsRecorded(s)
            BY <1>2, <1>5, <2>2, <2>3
        <3> QED
            BY <1>1, <1>2, <2>2, <3>1 DEF ReadAsRecorded, TypeOK
    <2>4. CASE s <= cursor
        <3>1. s \in Page <=> book[s] # None
            BY <1>2, <1>7, <2>2, <2>4 DEF Asked, Page, Slots
        <3> QED
            BY <1>1, <1>3, <2>2, <2>4, <3>1 DEF ReadAsRecorded
    <2> QED
        BY <1>2, <2>2, <2>3, <2>4 DEF Slots
<1>12. BalancesOfTheLedger'
    BY <1>1, <1>7 DEF ReadingInv, SnapshotInv, BalancesOfTheLedger
<1>13. PagesNeverOverlap'
    <2> SUFFICES ASSUME NEW s \in Slots PROVE read'.times[s] <= 1
        BY DEF PagesNeverOverlap
    <2>1. s \in Page => read.times[s] = 0
        BY <1>2, <1>3
    <2>2. read.times[s] \in Nat /\ read.times[s] <= 1
        BY <1>2 DEF TypeOK, ReadingInv, PagesNeverOverlap
    <2> QED
        BY <1>1, <2>1, <2>2
<1>14. pc' = "pages" => cursor' <= LastAsked(read'.historical)
    BY <1>2, <1>7, <1>9
<1> QED
    BY <1>8, <1>10, <1>11, <1>12, <1>13, <1>14 DEF ReadingInv, SnapshotInv

\* An edit touches its slot, so that nothing is promised about it any more.
LEMMA EditStep ==
    ASSUME ReadingInv, NEW s \in Slots, NEW t \in Contents \cup {None}, Edit(s, t)
    PROVE  ReadingInv'
<1>1. TypeOK'
    BY SnapshotAssumption DEF Edit, ReadingInv, SnapshotInv, TypeOK
<1>2. UnreadBelowCursor' /\ PagesNeverOverlap'
    BY DEF Edit, ReadingInv, SnapshotInv, UnreadBelowCursor, PagesNeverOverlap
<1>3. ReadAboveCursor'
    <2>1. CASE pc = "idle"
        BY <2>1, SnapshotAssumption
        DEF Edit, ReadingInv, SnapshotInv, TypeOK, ReadAboveCursor, ReadDownTo, LastAsked
    <2>2. CASE pc # "idle"
        <3>1. \A u \in Slots : u \notin touched' => book'[u] = book[u] /\ u \notin touched
            BY <2>2 DEF Edit, ReadingInv, SnapshotInv, TypeOK
        <3>2. ReadDownTo+1..LastAsked(read.historical) \subseteq Slots
            BY SnapshotAssumption
            DEF ReadingInv, SnapshotInv, TypeOK, ReadDownTo, LastAsked, Slots
        <3> QED
            BY <3>1, <3>2
            DEF Edit, ReadingInv, SnapshotInv, ReadAboveCursor, ReadDownTo, ReadAsRecorded
    <2> QED
        BY <2>1, <2>2
<1>4. BalancesOfTheLedger'
    BY DEF Edit, ReadingInv, SnapshotInv, BalancesOfTheLedger
<1> QED
    BY <1>1, <1>2, <1>3, <1>4 DEF Edit, ReadingInv, SnapshotInv

LEMMA StepPreserves == ReadingInv /\ [Next]_vars => ReadingInv'
<1> SUFFICES ASSUME ReadingInv, [Next]_vars PROVE ReadingInv'
    OBVIOUS
<1>1. CASE Reader
    BY <1>1, OtherReaderStep, PageStep DEF Reader
<1>2. CASE \E s \in Slots, t \in Contents \cup {None} : Edit(s, t)
    BY <1>2, EditStep
<1>3. CASE PeriodEnds \/ UNCHANGED vars
    BY <1>3
    DEF PeriodEnds, vars, ReadingInv, SnapshotInv, TypeOK, UnreadBelowCursor, ReadAboveCursor,
        BalancesOfTheLedger, PagesNeverOverlap, ReadDownTo, ReadAsRecorded
<1> QED
    BY <1>1, <1>2, <1>3 DEF Next

LEMMA ReadingInvHolds == Spec => []ReadingInv
    BY InitEstablishes, StepPreserves, PTL DEF Spec

----------------------------------------------------------------------------
\* The invariant of the paged reading, however the ledger is edited meanwhile.
THEOREM SnapshotInvHolds == Spec => []SnapshotInv
    BY ReadingInvHolds, PTL DEF ReadingInv

\* No transaction is read on two pages.
THEOREM PagesAreDisjoint == Spec => []PagesNeverOverlap
    BY ReadingInvHolds, PTL DEF ReadingInv

\* A transaction that stays as it is while a request reads is read, and once.
THEOREM UntouchedAreReadOnce == Spec => []UntouchedReadOnce
<1>1. SnapshotInv => UntouchedReadOnce
    BY SnapshotAssumption
    DEF SnapshotInv, TypeOK, UntouchedReadOnce, ReadAboveCursor, ReadDownTo, LastAsked, Slots
<1> QED
    BY <1>1, SnapshotInvHolds, PTL

-----------------------------------------------------------------------------
(***************************************************************************)
(* Balances as sums over all slots                                         *)
(***************************************************************************)

Books == [Slots -> Contents \cup {None}]

\* What a slot that holds t, or nothing, does to account a.
EffectOf(t, a) == IF t = None THEN 0 ELSE Effect(t, a)

EffectsOf(b, a) == [s \in Slots |-> EffectOf(b[s], a)]

LEMMA SlotsFinite == /\ IsFiniteSet(Slots)
                     /\ \A S \in SUBSET Slots : IsFiniteSet(S)
  <1>1. IsFiniteSet(Slots)
    BY FS_Interval, SnapshotAssumption DEF Slots
  <1> QED
    BY <1>1, FS_Subset

LEMMA EffectTyped ==
    ASSUME NEW t \in Contents \cup {None}, NEW a
    PROVE  EffectOf(t, a) \in Int
  BY ContentsAssumption DEF EffectOf, Effect

LEMMA EffectsTyped ==
    ASSUME NEW b \in Books, NEW a, NEW S \in SUBSET Slots
    PROVE  Integral(EffectsOf(b, a), S)
  <1>1. \A s \in S : b[s] \in Contents \cup {None}
    BY DEF Books
  <1> QED
    BY <1>1, EffectTyped DEF Integral, EffectsOf

\* A function that is zero outside S is summed over all slots instead.
LEMMA SumOverSlots ==
    ASSUME NEW S \in SUBSET Slots, NEW G, DOMAIN G = S,
           NEW F, Integral(F, S), \A s \in S : G[s] = F[s], \A s \in Slots \ S : F[s] = 0
    PROVE  SumFunction(G) = SumFunctionOnSet(F, Slots)
  <1>1. SumFunction(G) = SumFunctionOnSet(G, S)
    BY DEF SumFunction
  <1>2. SumFunctionOnSet(G, S) = SumFunctionOnSet(F, S)
    BY SlotsFinite, SumSame
  <1>3. SumFunctionOnSet(F, Slots) = SumFunctionOnSet(F, S)
    BY SlotsFinite, SumSupport
  <1> QED
    BY <1>1, <1>2, <1>3

LEMMA BalanceIsSum ==
    ASSUME NEW b \in Books, NEW S \in SUBSET Slots, NEW a \in Accounts
    PROVE  BalanceAfter(b, Recorded(b) \cap S, a)
             = Opening[a] + SumFunctionOnSet(EffectsOf(b, a), S)
  <1> DEFINE R == Recorded(b) \cap S
             G == [s \in R |-> Effect(b[s], a)]
             F == EffectsOf(b, a)
  <1>1. R \in SUBSET S /\ R \in SUBSET Slots /\ IsFiniteSet(S) /\ IsFiniteSet(R)
    BY SlotsFinite DEF Recorded
  <1>2. \A s \in R : G[s] = F[s]
    BY <1>1 DEF Recorded, EffectsOf, EffectOf
  <1>3. \A s \in S \ R : F[s] = 0
    BY DEF Recorded, EffectsOf, EffectOf
  <1>4. Integral(F, R)
    BY <1>1, EffectsTyped
  <1>5. SumFunctionOnSet(F, S) = SumFunctionOnSet(F, R)
    BY <1>1, <1>3, <1>4, SumSupport
  <1>6. SumFunctionOnSet(G, R) = SumFunctionOnSet(F, R)
    <2> HIDE DEF G, F, R
    <2> QED
      BY <1>1, <1>2, SumSame
  <1>7. SumFunction(G) = SumFunctionOnSet(G, R)
    BY DEF SumFunction
  <1> QED
    BY <1>5, <1>6, <1>7 DEF BalanceAfter

LEMMA BalancesAreSums ==
    ASSUME NEW b \in Books, NEW a \in Accounts
    PROVE  /\ Balances(b)[a] = Opening[a] + SumFunctionOnSet(EffectsOf(b, a), Slots)
           /\ Balances(b)[a] \in Int
  <1>1. Recorded(b) \cap Slots = Recorded(b)
    BY DEF Recorded
  <1>2. Balances(b)[a] = Opening[a] + SumFunctionOnSet(EffectsOf(b, a), Slots)
    BY <1>1, BalanceIsSum DEF Balances
  <1>3. SumFunctionOnSet(EffectsOf(b, a), Slots) \in Int
    BY EffectsTyped, SlotsFinite, SumInt
  <1> QED
    BY <1>2, <1>3, SnapshotAssumption

\* What an edit of slot s does to the balances.
LEMMA BalanceOfEdit ==
    ASSUME NEW b \in Books, NEW c \in Books, NEW s \in Slots,
           \A u \in Slots \ {s} : c[u] = b[u], NEW a \in Accounts
    PROVE  Balances(c)[a] = Balances(b)[a] - EffectOf(b[s], a) + EffectOf(c[s], a)
  <1> DEFINE F == EffectsOf(b, a)
             G == EffectsOf(c, a)
  <1>1. /\ \A u \in Slots \ {s} : F[u] = G[u]
        /\ F[s] = EffectOf(b[s], a) /\ G[s] = EffectOf(c[s], a)
    BY DEF EffectsOf
  <1>2. Integral(F, Slots) /\ Integral(G, Slots) /\ IsFiniteSet(Slots)
    BY EffectsTyped, SlotsFinite
  <1>3. SumFunctionOnSet(G, Slots) = SumFunctionOnSet(F, Slots) - F[s] + G[s]
    <2> HIDE DEF F, G
    <2> QED
      BY <1>1, <1>2, SumChange
  <1>4. SumFunctionOnSet(F, Slots) \in Int /\ F[s] \in Int /\ G[s] \in Int
    BY <1>2, SumInt DEF Integral
  <1>5. /\ Balances(b)[a] = Opening[a] + SumFunctionOnSet(F, Slots)
        /\ Balances(c)[a] = Opening[a] + SumFunctionOnSet(G, Slots)
        /\ Opening[a] \in Int
    BY BalancesAreSums, SnapshotAssumption
  <1> QED
    BY <1>1, <1>3, <1>4, <1>5

-----------------------------------------------------------------------------
(***************************************************************************)
(* The balances at the end of a past period                                *)
(***************************************************************************)

\* A later transaction that cannot be undone touches accounts that are left
\* out only.
LEMMA IrreversibleElsewhere ==
    ASSUME TypeOK, read.historical, NEW s \in LaterSlots(read) \ Reversible(read),
           read.content[s] \in Contents, NEW a \in Accounts \ Invalid(read)
    PROVE  Effect(read.content[s], a) = 0
  <1> DEFINE t == read.content[s]
             T == {read.content[u] : u \in LaterSlots(read)}
  <1>1. t \in T /\ (t.hidden \/ t.type = "modification")
    BY DEF Reversible
  <1>2. a # t.src /\ (t.hidden => a # t.dst)
    BY <1>1 DEF Invalid
  <1> QED
    BY <1>1, <1>2 DEF Effect

LEMMA ReadingRecoversBalances == ReadingInv => ClosingBalancesRecovered
<1> SUFFICES ASSUME ReadingInv, pc = "done", read.historical, touched = {},
                    NEW a \in Accounts \ Invalid(read)
             PROVE  AccountBalance(read, a) =
                        BalanceAfter(book, Recorded(book) \cap 1..LastInPeriod, a)
    BY DEF ClosingBalancesRecovered
<1> DEFINE Past == 1..LastInPeriod
           Later == LastInPeriod+1..LastSlot
           F == EffectsOf(book, a)
           R == Reversible(read)
           G == [s \in R |-> read.times[s] * Effect(read.content[s], a)]
<1>1. TypeOK /\ book \in Books
    BY DEF ReadingInv, SnapshotInv, TypeOK, Books
<1>2. Past \cup Later = Slots /\ Past \cap Later = {}
    BY SnapshotAssumption DEF Slots
<1>3. \A s \in Slots : ReadAsRecorded(s)
    BY SnapshotAssumption
    DEF ReadingInv, SnapshotInv, ReadAboveCursor, ReadDownTo, LastAsked, Slots
<1>4. LaterSlots(read) = {s \in Later : book[s] # None}
    BY <1>1, <1>2, <1>3 DEF LaterSlots, ReadAsRecorded
<1>5. R \in SUBSET Later /\ R \in SUBSET Slots /\ IsFiniteSet(R) /\ IsFiniteSet(Later)
      /\ IsFiniteSet(Past)
    BY <1>2, <1>4, SlotsFinite DEF Reversible
<1>6. Integral(F, Past) /\ Integral(F, Later) /\ Integral(F, R)
    BY <1>1, <1>2, <1>5, EffectsTyped
<1>7. \A s \in R : G[s] = F[s]
    <2> SUFFICES ASSUME NEW s \in R PROVE G[s] = F[s]
        OBVIOUS
    <2>1. s \in Slots /\ book[s] # None /\ read.content[s] = book[s] /\ read.times[s] = 1
        BY <1>3, <1>4, <1>5 DEF Reversible, ReadAsRecorded
    <2>2. F[s] = Effect(book[s], a) /\ F[s] \in Int
        BY <1>6, <2>1 DEF EffectsOf, EffectOf, Integral
    <2> QED
        BY <2>1, <2>2
<1>8. \A s \in Later \ R : F[s] = 0
    <2> SUFFICES ASSUME NEW s \in Later \ R PROVE F[s] = 0
        OBVIOUS
    <2>1. s \in Slots /\ ReadAsRecorded(s)
        BY <1>2, <1>3
    <2>2. CASE book[s] = None
        BY <2>1, <2>2 DEF EffectsOf, EffectOf
    <2>3. CASE book[s] # None
        <3>1. s \in LaterSlots(read) \ R /\ read.content[s] = book[s] /\ book[s] \in Contents
            BY <1>1, <1>4, <2>1, <2>3 DEF ReadAsRecorded, Books
        <3>2. Effect(book[s], a) = 0
            BY <1>1, <3>1, IrreversibleElsewhere
        <3> QED
            BY <2>1, <2>3, <3>2 DEF EffectsOf, EffectOf
    <2> QED
        BY <2>2, <2>3
<1>9. SumFunction(G) = SumFunctionOnSet(F, Later)
    <2>1. SumFunction(G) = SumFunctionOnSet(G, R)
        BY DEF SumFunction
    <2> HIDE DEF F, G, R, Later
    <2> QED
        BY <2>1, <1>5, <1>6, <1>7, <1>8, SumSame, SumSupport
<1>10. SumFunctionOnSet(F, Slots) = SumFunctionOnSet(F, Past) + SumFunctionOnSet(F, Later)
    <2> HIDE DEF F, Past, Later
    <2> QED
        BY <1>2, <1>5, <1>6, SumUnion
<1>11. read.balances[a] = Opening[a] + SumFunctionOnSet(F, Slots)
    BY <1>1, BalancesAreSums DEF ReadingInv, SnapshotInv, BalancesOfTheLedger
<1>12. AccountBalance(read, a) = read.balances[a] - SumFunction(G)
    BY DEF AccountBalance, SumRead
<1>13. BalanceAfter(book, Recorded(book) \cap Past, a)
         = Opening[a] + SumFunctionOnSet(F, Past)
    BY <1>1, <1>2, BalanceIsSum
<1>14. /\ SumFunctionOnSet(F, Past) \in Int /\ SumFunctionOnSet(F, Later) \in Int
       /\ Opening[a] \in Int
    BY <1>5, <1>6, SumInt, SnapshotAssumption
<1> QED
    BY <1>9, <1>10, <1>11, <1>12, <1>13, <1>14

\* Whatever was recorded since, a request for a past period reports the
\* balances of its end, for every account it reports at all.
THEOREM ClosingBalancesAreRecovered == Spec => []ClosingBalancesRecovered
    BY ReadingInvHolds, ReadingRecoversBalances, PTL

-----------------------------------------------------------------------------
(***************************************************************************)
(* A ledger that is left alone                                             *)
(***************************************************************************)

\* A reading is made of nothing but these.
ReadShape == read = [historical |-> read.historical, balances |-> read.balances,
                     content |-> read.content, times |-> read.times]

LEMMA ReadShapeHolds == Spec => []ReadShape
<1>1. Init => ReadShape
    BY DEF Init, ReadShape, NothingRead
<1>2. ReadShape /\ [Next]_vars => ReadShape'
    BY DEF ReadShape, Next, Reader, Begin, ReadAccounts, ReadPage, ReadFails, Respond, Edit,
           PeriodEnds, Ledger, vars, NothingRead
<1> QED
    BY <1>1, <1>2, PTL DEF Spec

\* Two readings that agree on the period agree on its cash flow and budget.
LEMMA PeriodsAgree ==
    ASSUME NEW r, NEW q,
           \A s \in 1..LastInPeriod : r.times[s] = q.times[s] /\ r.content[s] = q.content[s]
    PROVE  /\ NetCashflow(r) = NetCashflow(q)
           /\ \A l : Remaining(r, l) = Remaining(q, l)
<1>1. /\ Events(r) = Events(q)
      /\ \A s \in Events(r) : r.times[s] = q.times[s] /\ r.content[s] = q.content[s]
    BY DEF Events, PeriodSlots
<1>2. \A type : OfType(r, Events(r), type) = OfType(q, Events(q), type)
    BY <1>1 DEF OfType
<1>3. ASSUME NEW S \in SUBSET Events(r)
      PROVE  SumRead(r, Amount, S) = SumRead(q, Amount, S)
    <2>1. \A s \in S : r.times[s] * Amount(r.content[s]) = q.times[s] * Amount(q.content[s])
        BY <1>1
    <2>2. [s \in S |-> r.times[s] * Amount(r.content[s])]
            = [s \in S |-> q.times[s] * Amount(q.content[s])]
        BY <2>1
    <2> QED
        BY <2>2 DEF SumRead
<1>4. NetCashflow(r) = NetCashflow(q)
    <2>1. OfType(r, Events(r), "income") \in SUBSET Events(r)
          /\ OfType(r, Events(r), "expense") \in SUBSET Events(r)
        BY DEF OfType
    <2> QED
        BY <1>2, <1>3, <2>1 DEF NetCashflow
<1>5. ASSUME NEW c PROVE Spent(r, c) = Spent(q, c)
    <2> DEFINE S == {s \in OfType(r, Events(r), "expense") : r.content[s].category = c}
               T == {s \in OfType(q, Events(q), "expense") : q.content[s].category = c}
    <2>1. S = T /\ S \in SUBSET Events(r)
        BY <1>1, <1>2 DEF OfType
    <2>2. SumRead(r, Amount, S) = SumRead(q, Amount, S)
        BY <1>3, <2>1
    <2> QED
        BY <2>1, <2>2 DEF Spent
<1> QED
    BY <1>4, <1>5 DEF Remaining

\* A request whose ledger is left alone reads all of the period, once, with the
\* balances that belong to it, and nothing of later periods into it.
THEOREM QuietReadsAreTheLedger == Spec => []QuietReadIsTheLedger
<1>1. ReadingInv /\ ReadShape => QuietReadIsTheLedger
    <2> SUFFICES ASSUME ReadingInv, ReadShape, pc = "done", touched = {}
                 PROVE  IF ~read.historical THEN read = Current(book)
                        ELSE /\ NetCashflow(read) = NetCashflow(Current(book))
                             /\ \A l \in Lines : Remaining(read, l) = Remaining(Current(book), l)
        BY ReadingRecoversBalances DEF QuietReadIsTheLedger
    <2>1. /\ TypeOK /\ UnreadBelowCursor /\ read.balances = Balances(book)
          /\ book \in [Slots -> Contents \cup {None}]
          /\ read.content \in [Slots -> Contents \cup {None}] /\ read.times \in [Slots -> Nat]
        BY DEF ReadingInv, SnapshotInv, TypeOK, BalancesOfTheLedger
    <2>2. 1..LastInPeriod \subseteq Slots
        BY SnapshotAssumption DEF Slots
    <2>3. \A s \in 1..LastInPeriod : ReadAsRecorded(s)
        BY <2>2, SnapshotAssumption
        DEF ReadingInv, SnapshotInv, ReadAboveCursor, ReadDownTo, LastAsked, Slots
    <2>4. \A s \in 1..LastInPeriod : /\ read.times[s] = Current(book).times[s]
                                      /\ read.content[s] = Current(book).content[s]
        BY <2>2, <2>3 DEF Current, ReadAsRecorded, Recorded
    <2>5. CASE read.historical
        BY <2>4, <2>5, PeriodsAgree
    <2>6. CASE ~read.historical
        <3>1. \A s \in Slots \ (1..LastInPeriod) :
                  /\ read.times[s] = Current(book).times[s]
                  /\ read.content[s] = Current(book).content[s]
            BY <2>1, <2>6, SnapshotAssumption DEF UnreadBelowCursor, LastAsked, Current, Slots
        <3>2. /\ Current(book).times = [s \in Slots |-> Current(book).times[s]]
              /\ Current(book).content = [s \in Slots |-> Current(book).content[s]]
              /\ Current(book).balances = Balances(book) /\ Current(book).historical = FALSE
            BY DEF Current
        <3>3. read.times = Current(book).times /\ read.content = Current(book).content
            BY <2>1, <2>4, <3>1, <3>2
        <3>4. Current(book) = [historical |-> FALSE, balances |-> Current(book).balances,
                               content |-> Current(book).content, times |-> Current(book).times]
            BY DEF Current
        <3> QED
            BY <2>1, <2>6, <3>2, <3>3, <3>4 DEF ReadShape, TypeOK
    <2> QED
        BY <2>5, <2>6
<1> QED
    BY <1>1, ReadingInvHolds, ReadShapeHolds, PTL

-----------------------------------------------------------------------------
(***************************************************************************)
(* The figures of the current period, as sums over all slots               *)
(***************************************************************************)

\* The books b and c differ in slot s of the period at most.
EditedAt(b, c, s) ==
    /\ b \in Books /\ c \in Books
    /\ s \in 1..LastInPeriod
    /\ \A u \in Slots \ {s} : c[u] = b[u]

LEMMA StepEdits ==
    ASSUME TypeOK, [Next]_vars, NEW s \in 1..LastInPeriod, book'[s] # book[s]
    PROVE  EditedAt(book, book', s)
<1>1. s \in Slots
    BY SnapshotAssumption DEF Slots
<1>2. PICK u \in Slots, t \in Contents \cup {None} : Edit(u, t)
    BY DEF Next, Reader, Begin, ReadAccounts, ReadPage, ReadFails, Respond, Ledger,
           PeriodEnds, vars
<1>3. book \in Books /\ book' = [book EXCEPT ![u] = t]
    BY <1>2 DEF TypeOK, Books, Edit
<1>4. book' \in Books
    BY <1>3 DEF Books
<1>5. u = s
    BY <1>1, <1>3 DEF Books
<1> QED
    BY <1>3, <1>4, <1>5 DEF EditedAt, Books

InPeriod(b) == Recorded(b) \cap 1..LastInPeriod

LEMMA CurrentReading ==
    ASSUME NEW b \in Books
    PROVE  /\ PeriodSlots(Current(b)) = InPeriod(b)
           /\ InPeriod(b) \in SUBSET Slots
           /\ \A u \in InPeriod(b) : /\ Current(b).content[u] = b[u]
                                     /\ Current(b).times[u] = 1
                                     /\ b[u] \in Contents /\ b[u] # None
           /\ \A a \in Accounts : AccountBalance(Current(b), a) = Balances(b)[a]
           /\ Counted(Current(b)) = Own
<1>1. InPeriod(b) \in SUBSET Slots /\ \A u \in InPeriod(b) : b[u] \in Contents /\ b[u] # None
    BY DEF InPeriod, Recorded, Books
<1>2. /\ ~Current(b).historical /\ Current(b).balances = Balances(b)
      /\ \A u \in Slots : /\ Current(b).times[u] = IF u \in InPeriod(b) THEN 1 ELSE 0
                          /\ Current(b).content[u] = IF u \in InPeriod(b) THEN b[u] ELSE None
    BY DEF Current, InPeriod
<1>3. PeriodSlots(Current(b)) = InPeriod(b)
    <2>1. 1..LastInPeriod \subseteq Slots
        BY SnapshotAssumption DEF Slots
    <2> QED
        BY <1>2, <2>1 DEF PeriodSlots, InPeriod
<1>4. Counted(Current(b)) = Own
    BY <1>2 DEF Counted, Invalid
<1> QED
    BY <1>1, <1>2, <1>3, <1>4 DEF AccountBalance

\* A term for every transaction, and none for an empty slot.
Terms == {f \in [Contents \cup {None} -> Int] : f[None] = 0}

TermsIn(b, term) == [u \in Slots |-> IF u <= LastInPeriod THEN term[b[u]] ELSE 0]

PeriodSum(b, term) == SumFunctionOnSet(TermsIn(b, term), Slots)

LEMMA PeriodSumTyped ==
    ASSUME NEW b \in Books, NEW term \in Terms
    PROVE  Integral(TermsIn(b, term), Slots) /\ PeriodSum(b, term) \in Int
<1>1. \A u \in Slots : b[u] \in Contents \cup {None}
    BY DEF Books
<1>2. Integral(TermsIn(b, term), Slots)
    BY <1>1 DEF Terms, TermsIn, Integral
<1> QED
    BY <1>2, SlotsFinite, SumInt DEF PeriodSum

LEMMA PeriodSumOfEdit ==
    ASSUME NEW b, NEW c, NEW s, EditedAt(b, c, s), NEW term \in Terms
    PROVE  PeriodSum(c, term) = PeriodSum(b, term) - term[b[s]] + term[c[s]]
<1> DEFINE F == TermsIn(b, term)
           G == TermsIn(c, term)
<1>1. b \in Books /\ c \in Books /\ s \in Slots /\ s <= LastInPeriod
    BY SnapshotAssumption DEF EditedAt, Slots
<1>2. Integral(F, Slots) /\ Integral(G, Slots)
    BY <1>1, PeriodSumTyped
<1>3. /\ \A u \in Slots \ {s} : F[u] = G[u]
      /\ F[s] = term[b[s]] /\ G[s] = term[c[s]]
    BY <1>1 DEF TermsIn, EditedAt
<1>4. SumFunctionOnSet(G, Slots) = SumFunctionOnSet(F, Slots) - F[s] + G[s]
    <2> HIDE DEF F, G
    <2> QED
        BY <1>1, <1>2, <1>3, SlotsFinite, SumChange
<1> QED
    BY <1>3, <1>4 DEF PeriodSum

\* A sum over some transactions of the period, the others of which have no term.
LEMMA ReadingIsPeriodSum ==
    ASSUME NEW b \in Books, NEW term \in Terms, NEW S \in SUBSET InPeriod(b),
           NEW G, DOMAIN G = S, \A u \in S : G[u] = term[b[u]],
           \A u \in InPeriod(b) \ S : term[b[u]] = 0
    PROVE  SumFunction(G) = PeriodSum(b, term)
<1> DEFINE F == TermsIn(b, term)
<1>1. S \in SUBSET Slots /\ \A u \in S : u <= LastInPeriod
    BY SnapshotAssumption DEF InPeriod, Recorded, Slots
<1>2. Integral(F, S) /\ \A u \in S : G[u] = F[u]
    BY <1>1, PeriodSumTyped DEF Integral, TermsIn
<1>3. \A u \in Slots \ S : F[u] = 0
    <2> SUFFICES ASSUME NEW u \in Slots \ S, u <= LastInPeriod PROVE term[b[u]] = 0
        BY DEF TermsIn
    <2>1. CASE b[u] = None
        BY <2>1 DEF Terms
    <2>2. CASE b[u] # None
        BY <2>2, SnapshotAssumption DEF InPeriod, Recorded, Slots
    <2> QED
        BY <2>1, <2>2
<1>4. SumFunction(G) = SumFunctionOnSet(F, Slots)
    <2> HIDE DEF F
    <2> QED
        BY <1>1, <1>2, <1>3, SumOverSlots
<1> QED
    BY <1>4 DEF PeriodSum

-----------------------------------------------------------------------------
(* What a transaction adds to each figure.                                 *)

CashTerm(type) ==
    [t \in Contents \cup {None} |->
        IF t # None /\ t.src \notin Foreign /\ t.type = type THEN t.amount ELSE 0]

SpentTerm(k) ==
    [t \in Contents \cup {None} |->
        IF t # None /\ t.src \notin Foreign /\ t.type = "expense" /\ t.category = k
        THEN t.amount ELSE 0]

PaidTerm ==
    [t \in Contents \cup {None} |->
        IF t # None /\ t.type = "transfer" /\ t.dst \in DebtAccounts \ Foreign
        THEN Magnitude(t.amount) ELSE 0]

LEMMA TermsTyped ==
    /\ \A type : CashTerm(type) \in Terms
    /\ \A k : SpentTerm(k) \in Terms
    /\ PaidTerm \in Terms
<1>1. None \notin Contents /\ \A t \in Contents : t.amount \in Int /\ Magnitude(t.amount) \in Int
    BY SnapshotAssumption, ContentsAssumption DEF Magnitude
<1> QED
    BY <1>1 DEF Terms, CashTerm, SpentTerm, PaidTerm

LEMMA CashIsSum ==
    ASSUME NEW b \in Books, NEW type
    PROVE  LET r == Current(b)
           IN  SumRead(r, Amount, OfType(r, Events(r), type)) = PeriodSum(b, CashTerm(type))
<1> DEFINE r == Current(b)
           S == OfType(r, Events(r), type)
           G == [u \in S |-> r.times[u] * Amount(r.content[u])]
<1>1. S = {u \in InPeriod(b) : b[u].src \notin Foreign /\ b[u].type = type}
    BY CurrentReading DEF OfType, Events
<1>2. \A u \in S : G[u] = CashTerm(type)[b[u]]
    BY <1>1, CurrentReading, ContentsAssumption DEF CashTerm, Amount
<1>3. \A u \in InPeriod(b) \ S : CashTerm(type)[b[u]] = 0
    BY <1>1, CurrentReading DEF CashTerm
<1>4. SumRead(r, Amount, S) = SumFunction(G)
    BY DEF SumRead
<1>5. DOMAIN G = S /\ S \in SUBSET InPeriod(b)
    BY <1>1
<1> HIDE DEF G, S, r
<1>6. SumFunction(G) = PeriodSum(b, CashTerm(type))
    BY <1>2, <1>3, <1>5, TermsTyped, ReadingIsPeriodSum
<1> QED
    BY <1>4, <1>6 DEF S, r

LEMMA SpentIsSum ==
    ASSUME NEW b \in Books, NEW k
    PROVE  Spent(Current(b), k) = PeriodSum(b, SpentTerm(k))
<1> DEFINE r == Current(b)
           S == {u \in OfType(r, Events(r), "expense") : r.content[u].category = k}
           G == [u \in S |-> r.times[u] * Amount(r.content[u])]
<1>1. S = {u \in InPeriod(b) : b[u].src \notin Foreign /\ b[u].type = "expense"
                                 /\ b[u].category = k}
    BY CurrentReading DEF OfType, Events
<1>2. \A u \in S : G[u] = SpentTerm(k)[b[u]]
    BY <1>1, CurrentReading, ContentsAssumption DEF SpentTerm, Amount
<1>3. \A u \in InPeriod(b) \ S : SpentTerm(k)[b[u]] = 0
    BY <1>1, CurrentReading DEF SpentTerm
<1>4. Spent(r, k) = SumFunction(G)
    BY DEF SumRead, Spent
<1>5. DOMAIN G = S /\ S \in SUBSET InPeriod(b)
    BY <1>1
<1> HIDE DEF G, S, r
<1>6. SumFunction(G) = PeriodSum(b, SpentTerm(k))
    BY <1>2, <1>3, <1>5, TermsTyped, ReadingIsPeriodSum
<1> QED
    BY <1>4, <1>6 DEF r

LEMMA PaidIsSum ==
    ASSUME NEW b \in Books
    PROVE  Paid(Current(b)) = PeriodSum(b, PaidTerm)
<1> DEFINE r == Current(b)
           S == {u \in OfType(r, PeriodSlots(r), "transfer") :
                    r.content[u].dst \in DebtAccounts \ Foreign}
           G == [u \in S |-> r.times[u] * Magnitude(r.content[u].amount)]
<1>1. S = {u \in InPeriod(b) : b[u].type = "transfer" /\ b[u].dst \in DebtAccounts \ Foreign}
    BY CurrentReading DEF OfType
<1>2. \A u \in S : G[u] = PaidTerm[b[u]]
    BY <1>1, CurrentReading, ContentsAssumption DEF PaidTerm, Magnitude
<1>3. \A u \in InPeriod(b) \ S : PaidTerm[b[u]] = 0
    BY <1>1, CurrentReading DEF PaidTerm
<1>4. Paid(r) = SumFunction(G)
    BY DEF SumRead, Paid
<1>5. DOMAIN G = S /\ S \in SUBSET InPeriod(b)
    BY <1>1
<1> HIDE DEF G, S, r
<1>6. SumFunction(G) = PeriodSum(b, PaidTerm)
    BY <1>2, <1>3, <1>5, TermsTyped, ReadingIsPeriodSum
<1> QED
    BY <1>4, <1>6 DEF r
-----------------------------------------------------------------------------
(***************************************************************************)
(* Safe-to-spend                                                           *)
(***************************************************************************)

\* Every figure as a number.
LEMMA MoneyIsInteger ==
    ASSUME NEW b \in Books
    PROVE  /\ \A l \in Lines : Remaining(Current(b), l) \in Int
           /\ \A kinds : Reserve(Current(b), kinds) \in Int
           /\ Paid(Current(b)) \in Int /\ DebtCommitment \in Int
           /\ \A S : Worth(Current(b), S) \in Int
<1> DEFINE r == Current(b)
<1>1. \A k : Spent(r, k) \in Int
    BY SpentIsSum, PeriodSumTyped, TermsTyped
<1>2. \A l \in Lines : Remaining(r, l) \in Int
    BY <1>1, PlanAssumption DEF Remaining, Positive
<1>3. ASSUME NEW kinds PROVE Reserve(r, kinds) \in Int
    <2> DEFINE S == {m \in Lines : m.kind \in kinds}
               F == [l \in S |-> Remaining(r, l)]
    <2>1. IsFiniteSet(S) /\ Integral(F, S)
        BY <1>2, PlanAssumption, FS_Subset DEF Integral
    <2>2. Reserve(r, kinds) = SumFunctionOnSet(F, S)
        BY DEF Reserve, SumFunction
    <2> QED
        BY <2>1, <2>2, SumInt
<1>4. Paid(r) \in Int
    BY PaidIsSum, PeriodSumTyped, TermsTyped
<1>5. DebtCommitment \in Int
    <2> DEFINE F == [d \in Debts |-> IF d.scheduled > 0 THEN d.scheduled ELSE d.minimum]
    <2>1. IsFiniteSet(Debts) /\ Integral(F, Debts)
        BY PlanAssumption DEF Integral
    <2>2. DebtCommitment = SumFunctionOnSet(F, Debts)
        BY DEF DebtCommitment, SumFunction
    <2> QED
        BY <2>1, <2>2, SumInt
<1>6. ASSUME NEW S PROVE Worth(r, S) \in Int
    <2> DEFINE T == S \cap Own
               F == [a \in T |-> Magnitude(AccountBalance(r, a))]
    <2>1. IsFiniteSet(T) /\ T \subseteq Accounts
        BY SnapshotAssumption, FS_Subset DEF Own
    <2>2. Integral(F, T)
        BY <2>1, CurrentReading, BalancesAreSums DEF Integral, Magnitude
    <2>3. Worth(r, S) = SumFunctionOnSet(F, T)
        BY CurrentReading DEF Worth, SumFunction
    <2> QED
        BY <2>1, <2>2, <2>3, SumInt
<1> QED
    BY <1>2, <1>3, <1>4, <1>5, <1>6

\* The magnitudes of balances, summed over accounts of the household's currency.
Magnitudes(b) == [a \in Accounts |-> Magnitude(Balances(b)[a])]

LEMMA WorthIsSum ==
    ASSUME NEW b \in Books, NEW S \in SUBSET (Assets \cup Liabilities)
    PROVE  /\ Worth(Current(b), S) = SumFunctionOnSet(Magnitudes(b), S \ Foreign)
           /\ IsFiniteSet(S \ Foreign) /\ S \ Foreign \in SUBSET Accounts
           /\ Integral(Magnitudes(b), S \ Foreign)
<1> DEFINE T == S \ Foreign
           F == [a \in T |-> Magnitude(AccountBalance(Current(b), a))]
<1>1. IsFiniteSet(T) /\ T \in SUBSET Accounts /\ S \cap Own = T
    BY SnapshotAssumption, FS_Subset DEF Own
<1>2. Integral(Magnitudes(b), T)
    BY <1>1, BalancesAreSums DEF Integral, Magnitude, Magnitudes
<1>3. Worth(Current(b), S) = SumFunctionOnSet(F, T)
    BY <1>1, CurrentReading DEF Worth, SumFunction
<1>4. \A a \in T : F[a] = Magnitudes(b)[a]
    BY <1>1, CurrentReading DEF Magnitudes
<1>5. SumFunctionOnSet(F, T) = SumFunctionOnSet(Magnitudes(b), T)
    <2> HIDE DEF F, T
    <2> QED
        BY <1>1, <1>4, SumSame
<1> QED
    BY <1>1, <1>2, <1>3, <1>5

\* A payment, from an account that covers it, to one that is not money at hand.
Pays(b, c, s) ==
    LET t == c[s]
    IN  /\ EditedAt(b, c, s) /\ b[s] = None /\ t # None
        /\ t.amount >= 0 /\ t.src \in Liquid \ Foreign /\ Balances(c)[t.src] >= 0
        /\ t.type = "expense" \/ (t.type = "transfer" /\ t.dst \notin Liquid)

LEMMA PaymentLowersLiquid ==
    ASSUME NEW b, NEW c, NEW s, Pays(b, c, s)
    PROVE  Worth(Current(c), Liquid) = Worth(Current(b), Liquid) - c[s].amount
<1> DEFINE t == c[s]
           T == Liquid \ Foreign
           F == Magnitudes(b)
           G == Magnitudes(c)
<1>1. /\ b \in Books /\ c \in Books /\ s \in Slots /\ t \in Contents /\ t.src \in Accounts
      /\ t.amount \in Int
    BY SnapshotAssumption, ContentsAssumption DEF Pays, EditedAt, Slots, Books
<1>2. Liquid \in SUBSET (Assets \cup Liabilities)
    BY SnapshotAssumption
<1>3. ASSUME NEW a \in T PROVE EffectOf(t, a) = IF a = t.src THEN -t.amount ELSE 0
    BY <1>1, <1>3 DEF Pays, EffectOf, Effect
<1>4. ASSUME NEW a \in T
      PROVE  /\ Balances(b)[a] \in Int /\ Balances(c)[a] \in Int
             /\ Balances(c)[a] = Balances(b)[a] + EffectOf(t, a)
    <2>1. a \in Accounts
        BY SnapshotAssumption
    <2>2. EffectOf(b[s], a) = 0
        BY DEF Pays, EffectOf
    <2> QED
        BY <1>1, <2>1, <2>2, BalanceOfEdit, BalancesAreSums DEF Pays, EditedAt
<1>5. \A a \in T \ {t.src} : F[a] = G[a]
    BY <1>3, <1>4, SnapshotAssumption DEF Magnitudes
<1>6. t.src \in T /\ G[t.src] = F[t.src] - t.amount
    BY <1>1, <1>3, <1>4 DEF Magnitudes, Magnitude, Pays
<1>7. /\ IsFiniteSet(T) /\ Integral(F, T) /\ Integral(G, T)
      /\ Worth(Current(b), Liquid) = SumFunctionOnSet(F, T)
      /\ Worth(Current(c), Liquid) = SumFunctionOnSet(G, T)
    BY <1>1, <1>2, WorthIsSum
<1>8. F[t.src] \in Int /\ SumFunctionOnSet(F, T) \in Int
    BY <1>6, <1>7, SumInt DEF Integral
<1> HIDE DEF F, G, T
<1>9. SumFunctionOnSet(G, T) = SumFunctionOnSet(F, T) - F[t.src] + G[t.src]
    BY <1>5, <1>6, <1>7, SumChange
<1> QED
    BY <1>1, <1>6, <1>7, <1>8, <1>9

LEMMA SpentOfEdit ==
    ASSUME NEW b, NEW c, NEW s, EditedAt(b, c, s), b[s] = None, NEW k
    PROVE  Spent(Current(c), k) = Spent(Current(b), k) + SpentTerm(k)[c[s]]
<1>1. b \in Books /\ c \in Books /\ SpentTerm(k) \in Terms
    BY TermsTyped DEF EditedAt
<1>2. SpentTerm(k)[b[s]] = 0 /\ PeriodSum(b, SpentTerm(k)) \in Int
    BY <1>1, PeriodSumTyped DEF Terms
<1>3. PeriodSum(c, SpentTerm(k))
        = PeriodSum(b, SpentTerm(k)) - SpentTerm(k)[b[s]] + SpentTerm(k)[c[s]]
    BY <1>1, PeriodSumOfEdit
<1> QED
    BY <1>1, <1>2, <1>3, SpentIsSum

LEMMA PaidOfEdit ==
    ASSUME NEW b, NEW c, NEW s, EditedAt(b, c, s), b[s] = None
    PROVE  Paid(Current(c)) = Paid(Current(b)) + PaidTerm[c[s]]
<1>1. b \in Books /\ c \in Books /\ PaidTerm \in Terms
    BY TermsTyped DEF EditedAt
<1>2. PaidTerm[b[s]] = 0 /\ PeriodSum(b, PaidTerm) \in Int
    BY <1>1, PeriodSumTyped DEF Terms
<1>3. PeriodSum(c, PaidTerm) = PeriodSum(b, PaidTerm) - PaidTerm[b[s]] + PaidTerm[c[s]]
    BY <1>1, PeriodSumOfEdit
<1> QED
    BY <1>1, <1>2, <1>3, PaidIsSum

\* A line is charged with expenses of its category only.
LEMMA RemainingStays ==
    ASSUME NEW b, NEW c, NEW s, EditedAt(b, c, s), b[s] = None,
           c[s] # None, NEW l \in Lines,
           c[s].type # "expense" \/ l.category # c[s].category \/ l.category = None
    PROVE  Remaining(Current(c), l) = Remaining(Current(b), l)
<1>1. c[s] \in Contents \cup {None}
    BY SnapshotAssumption DEF EditedAt, Books, Slots
<1>2. l.category # None => SpentTerm(l.category)[c[s]] = 0
    BY <1>1 DEF SpentTerm
<1>3. b \in Books /\ Spent(Current(b), l.category) \in Int
    BY SpentIsSum, PeriodSumTyped, TermsTyped DEF EditedAt
<1>4. l.category # None => Spent(Current(c), l.category) = Spent(Current(b), l.category)
    BY <1>2, <1>3, SpentOfEdit
<1> QED
    BY <1>4 DEF Remaining

LEMMA ReserveStays ==
    ASSUME NEW r, NEW q, NEW kinds,
           \A l \in Lines : l.kind \in kinds => Remaining(r, l) = Remaining(q, l)
    PROVE  Reserve(r, kinds) = Reserve(q, kinds)
<1> DEFINE S == {m \in Lines : m.kind \in kinds}
<1>1. [l \in S |-> Remaining(r, l)] = [l \in S |-> Remaining(q, l)]
    OBVIOUS
<1> QED
    BY <1>1 DEF Reserve

\* What is still due of the debts, reserved or committed, is the larger of both
\* less what was paid.
LEMMA DebtsCountOnce ==
    ASSUME NEW b \in Books
    PROVE  RemainingDebtReserve(Current(b)) + RemainingDebtCommitment(Current(b))
             = DebtStillDue(Current(b))
<1>1. Reserve(Current(b), {"debt"}) \in Int /\ Paid(Current(b)) \in Int /\ DebtCommitment \in Int
    BY MoneyIsInteger
<1> QED
    BY <1>1
    DEF RemainingDebtReserve, RemainingDebtCommitment, DebtStillDue, Residual, Positive

LEMMA SafeToSpendOf ==
    ASSUME NEW b \in Books
    PROVE  LET r == Current(b)
           IN  /\ SafeToSpend(r) =
                    Worth(r, Liquid) - DebtStillDue(r)
                      - (Reserve(r, {"goal"}) + Residual(HardGoals, Reserve(r, {"goal"})))
                      - (Reserve(r, {"saving", "investment"}) + Reserve(r, {"essential"}))
                      - Floor
               /\ DebtStillDue(r) \in Int /\ Residual(HardGoals, Reserve(r, {"goal"})) \in Int
               /\ RemainingDebtReserve(r) \in Int /\ RemainingDebtCommitment(r) \in Int
<1> DEFINE r == Current(b)
<1>1. /\ \A kinds : Reserve(r, kinds) \in Int
      /\ Paid(r) \in Int /\ DebtCommitment \in Int /\ Worth(r, Liquid) \in Int
      /\ Floor \in Int /\ HardGoals \in Int
    BY MoneyIsInteger, PlanAssumption
<1>2. /\ DebtStillDue(r) \in Int /\ Residual(HardGoals, Reserve(r, {"goal"})) \in Int
      /\ RemainingDebtReserve(r) \in Int /\ RemainingDebtCommitment(r) \in Int
    BY <1>1
    DEF DebtStillDue, Residual, Positive, RemainingDebtReserve, RemainingDebtCommitment
<1>3. RemainingDebtReserve(r) + RemainingDebtCommitment(r) = DebtStillDue(r)
    BY DebtsCountOnce
<1> HIDE DEF r
<1>4. SafeToSpend(r) =
          Worth(r, Liquid) - DebtStillDue(r)
            - (Reserve(r, {"goal"}) + Residual(HardGoals, Reserve(r, {"goal"})))
            - (Reserve(r, {"saving", "investment"}) + Reserve(r, {"essential"}))
            - Floor
    BY <1>1, <1>2, <1>3 DEF SafeToSpend, UpcomingMandatory
<1> QED
    BY <1>2, <1>4 DEF r

\* An addition to the period is an edit of its book, and a payment if it is an
\* expense or goes to another account.
LEMMA AddedPays ==
    ASSUME TypeOK, [Next]_vars, NEW s \in 1..LastInPeriod, NEW type, Added(s, type, Liquid),
           type = "expense" \/ (type = "transfer" /\ book'[s].dst \notin Liquid)
    PROVE  /\ EditedAt(book, book', s) /\ Pays(book, book', s)
           /\ book[s] = None /\ book'[s] # None /\ book'[s] \in Contents
           /\ book'[s].amount \in Nat
           /\ book \in Books /\ book' \in Books
<1>1. EditedAt(book, book', s)
    BY StepEdits DEF Added
<1>2. book'[s] \in Contents
    BY <1>1, SnapshotAssumption DEF EditedAt, Books, Slots, Added
<1> QED
    BY <1>1, <1>2, ContentsAssumption DEF Added, Pays, EditedAt

LEMMA PurchaseStep ==
    ASSUME TypeOK, [Next]_vars, NEW s \in 1..LastInPeriod,
           Added(s, "expense", Liquid), ~Committed(book'[s].category)
    PROVE  SafeToSpend(Current(book')) = SafeToSpend(Current(book)) - book'[s].amount
<1> DEFINE r == Current(book)
           q == Current(book')
           t == book'[s]
<1>1. /\ EditedAt(book, book', s) /\ Pays(book, book', s)
      /\ book[s] = None /\ t # None /\ t \in Contents /\ t.amount \in Nat
      /\ book \in Books /\ book' \in Books
    BY AddedPays
<1>2. Worth(q, Liquid) = Worth(r, Liquid) - t.amount
    BY <1>1, PaymentLowersLiquid
<1>3. \A l \in Lines : l.kind \in ReservedKinds => Remaining(q, l) = Remaining(r, l)
    BY <1>1, RemainingStays DEF Committed
<1>4. /\ Reserve(q, {"debt"}) = Reserve(r, {"debt"})
      /\ Reserve(q, {"goal"}) = Reserve(r, {"goal"})
      /\ Reserve(q, {"essential"}) = Reserve(r, {"essential"})
      /\ Reserve(q, {"saving", "investment"}) = Reserve(r, {"saving", "investment"})
    BY <1>3, ReserveStays DEF ReservedKinds
<1>5. Paid(q) = Paid(r)
    <2>1. PaidTerm[t] = 0
        BY <1>1 DEF PaidTerm, Added
    <2>2. Paid(r) \in Int
        BY <1>1, MoneyIsInteger
    <2> QED
        BY <1>1, <2>1, <2>2, PaidOfEdit
<1>6. DebtStillDue(q) = DebtStillDue(r)
    BY <1>4, <1>5 DEF DebtStillDue
<1>7. /\ Worth(r, Liquid) \in Int /\ DebtStillDue(r) \in Int /\ Floor \in Int
      /\ Residual(HardGoals, Reserve(r, {"goal"})) \in Int
      /\ \A kinds : Reserve(r, kinds) \in Int
    BY <1>1, MoneyIsInteger, SafeToSpendOf, PlanAssumption
<1>8. \A b \in {book, book'} :
          SafeToSpend(Current(b)) =
              Worth(Current(b), Liquid) - DebtStillDue(Current(b))
                - (Reserve(Current(b), {"goal"})
                     + Residual(HardGoals, Reserve(Current(b), {"goal"})))
                - (Reserve(Current(b), {"saving", "investment"})
                     + Reserve(Current(b), {"essential"}))
                - Floor
    BY <1>1, SafeToSpendOf
<1> HIDE DEF r, q
<1> QED
    BY <1>1, <1>2, <1>4, <1>6, <1>7, <1>8 DEF r, q

\* A purchase that nobody budgeted for lowers safe-to-spend by its amount.
THEOREM PurchasesLowerSafeToSpend == Spec => PurchaseLowersSafeToSpend
<1>1. ReadingInv => TypeOK
    BY DEF ReadingInv, SnapshotInv
<1>2. TypeOK /\ [Next]_vars =>
          [\A s \in 1..LastInPeriod :
              Added(s, "expense", Liquid) /\ ~Committed(book'[s].category)
              => SafeToSpend(Current(book')) = SafeToSpend(Current(book)) - book'[s].amount]_vars
    BY PurchaseStep
<1> QED
    BY <1>1, <1>2, ReadingInvHolds, PTL DEF Spec, PurchaseLowersSafeToSpend

\* A transfer to the account of a debt, of what is still due at most, pays it.
LEMMA RepaymentStep ==
    ASSUME TypeOK, [Next]_vars, NEW s \in 1..LastInPeriod,
           Added(s, "transfer", Liquid),
           book'[s].dst \in DebtAccounts \ (Liquid \cup Foreign),
           book'[s].amount <= DebtStillDue(Current(book))
    PROVE  SafeToSpend(Current(book')) = SafeToSpend(Current(book))
<1> DEFINE r == Current(book)
           q == Current(book')
           t == book'[s]
<1>1. /\ EditedAt(book, book', s) /\ Pays(book, book', s)
      /\ book[s] = None /\ t # None /\ t \in Contents /\ t.amount \in Nat
      /\ book \in Books /\ book' \in Books /\ t.type = "transfer"
    BY AddedPays DEF Added
<1>2. Worth(q, Liquid) = Worth(r, Liquid) - t.amount
    BY <1>1, PaymentLowersLiquid
<1>3. \A l \in Lines : Remaining(q, l) = Remaining(r, l)
    BY <1>1, RemainingStays
<1>4. \A kinds : Reserve(q, kinds) = Reserve(r, kinds)
    BY <1>3, ReserveStays
<1>5. Paid(q) = Paid(r) + t.amount
    <2>1. PaidTerm[t] = Magnitude(t.amount)
        BY <1>1 DEF PaidTerm
    <2>2. Magnitude(t.amount) = t.amount
        BY <1>1 DEF Magnitude
    <2> QED
        BY <1>1, <2>1, <2>2, PaidOfEdit
<1>6. DebtStillDue(q) = DebtStillDue(r) - t.amount
    <2>1. Reserve(r, {"debt"}) \in Int /\ DebtCommitment \in Int /\ Paid(r) \in Int
        BY <1>1, MoneyIsInteger
    <2>2. Reserve(q, {"debt"}) = Reserve(r, {"debt"})
        BY <1>4
    <2> HIDE DEF q
    <2> QED
        BY <1>1, <1>5, <2>1, <2>2 DEF DebtStillDue, Positive
<1>7. /\ Worth(r, Liquid) \in Int /\ DebtStillDue(r) \in Int /\ Floor \in Int
      /\ Residual(HardGoals, Reserve(r, {"goal"})) \in Int
      /\ \A kinds : Reserve(r, kinds) \in Int
    BY <1>1, MoneyIsInteger, SafeToSpendOf, PlanAssumption
<1>8. \A b \in {book, book'} :
          SafeToSpend(Current(b)) =
              Worth(Current(b), Liquid) - DebtStillDue(Current(b))
                - (Reserve(Current(b), {"goal"})
                     + Residual(HardGoals, Reserve(Current(b), {"goal"})))
                - (Reserve(Current(b), {"saving", "investment"})
                     + Reserve(Current(b), {"essential"}))
                - Floor
    BY <1>1, SafeToSpendOf
<1> HIDE DEF r, q
<1> QED
    BY <1>1, <1>2, <1>4, <1>6, <1>7, <1>8 DEF r, q

\* A reserve falls with the one of its lines that does.
LEMMA ReserveOfLine ==
    ASSUME NEW b \in Books, NEW c \in Books, NEW kinds, NEW l \in Lines, l.kind \in kinds,
           \A m \in Lines \ {l} : Remaining(Current(c), m) = Remaining(Current(b), m)
    PROVE  Reserve(Current(c), kinds)
             = Reserve(Current(b), kinds)
                 - Remaining(Current(b), l) + Remaining(Current(c), l)
<1> DEFINE S == {m \in Lines : m.kind \in kinds}
           F == [m \in S |-> Remaining(Current(b), m)]
           G == [m \in S |-> Remaining(Current(c), m)]
<1>1. IsFiniteSet(S) /\ Integral(F, S) /\ Integral(G, S)
    BY PlanAssumption, FS_Subset, MoneyIsInteger DEF Integral
<1>2. /\ l \in S /\ F[l] = Remaining(Current(b), l) /\ G[l] = Remaining(Current(c), l)
      /\ \A m \in S \ {l} : F[m] = G[m]
    OBVIOUS
<1>3. /\ Reserve(Current(b), kinds) = SumFunctionOnSet(F, S)
      /\ Reserve(Current(c), kinds) = SumFunctionOnSet(G, S)
    BY DEF Reserve, SumFunction
<1> HIDE DEF F, G, S
<1> QED
    BY <1>1, <1>2, <1>3, SumChange

\* Spending within the only line of a category takes from its reserve.
LEMMA BudgetedStep ==
    ASSUME TypeOK, [Next]_vars, NEW s \in 1..LastInPeriod,
           Added(s, "expense", Liquid), NEW l \in Lines,
           OnlyLineOf(l, book'[s].category),
           l.kind \in {"essential", "saving", "investment"},
           book'[s].amount <= Remaining(Current(book), l)
    PROVE  SafeToSpend(Current(book')) = SafeToSpend(Current(book))
<1> DEFINE r == Current(book)
           q == Current(book')
           t == book'[s]
<1>1. /\ EditedAt(book, book', s) /\ Pays(book, book', s)
      /\ book[s] = None /\ t # None /\ t \in Contents /\ t.amount \in Nat
      /\ book \in Books /\ book' \in Books /\ t.type = "expense" /\ t.src \notin Foreign
    BY AddedPays DEF Added
<1>2. Worth(q, Liquid) = Worth(r, Liquid) - t.amount
    BY <1>1, PaymentLowersLiquid
<1>3. \A m \in Lines \ {l} : Remaining(q, m) = Remaining(r, m)
    BY <1>1, RemainingStays DEF OnlyLineOf
<1>4. Remaining(q, l) = Remaining(r, l) - t.amount
    <2>1. l.category = t.category /\ l.category # None
        BY DEF OnlyLineOf
    <2>2. SpentTerm(t.category)[t] = t.amount
        BY <1>1 DEF SpentTerm
    <2>3. Spent(q, t.category) = Spent(r, t.category) + t.amount
        BY <1>1, <2>2, SpentOfEdit
    <2>4. Spent(r, t.category) \in Int /\ l.planned \in Int
        BY <1>1, SpentIsSum, PeriodSumTyped, TermsTyped, PlanAssumption
    <2> HIDE DEF q
    <2> QED
        BY <1>1, <2>1, <2>3, <2>4 DEF Remaining, Positive
<1>5. Remaining(r, l) \in Int /\ \A kinds : Reserve(r, kinds) \in Int
    BY <1>1, MoneyIsInteger
<1>6. ASSUME NEW kinds
      PROVE  Reserve(q, kinds)
               = IF l.kind \in kinds THEN Reserve(r, kinds) - t.amount ELSE Reserve(r, kinds)
    <2>1. CASE l.kind \in kinds
        <3>1. Reserve(q, kinds) = Reserve(r, kinds) - Remaining(r, l) + Remaining(q, l)
            BY <1>1, <1>3, <2>1, ReserveOfLine
        <3>2. Reserve(r, kinds) \in Int
            BY <1>5
        <3> HIDE DEF q
        <3> QED
            BY <1>1, <1>4, <1>5, <2>1, <3>1, <3>2
    <2>2. CASE l.kind \notin kinds
        BY <1>3, <2>2, ReserveStays
    <2> QED
        BY <2>1, <2>2
<1>7. /\ Reserve(q, {"debt"}) = Reserve(r, {"debt"})
      /\ Reserve(q, {"goal"}) = Reserve(r, {"goal"})
      /\ Reserve(q, {"saving", "investment"}) + Reserve(q, {"essential"})
           = Reserve(r, {"saving", "investment"}) + Reserve(r, {"essential"}) - t.amount
    BY <1>1, <1>5, <1>6
<1>8. Paid(q) = Paid(r)
    <2>1. PaidTerm[t] = 0
        BY <1>1 DEF PaidTerm
    <2>2. Paid(r) \in Int
        BY <1>1, MoneyIsInteger
    <2> QED
        BY <1>1, <2>1, <2>2, PaidOfEdit
<1>9. DebtStillDue(q) = DebtStillDue(r)
    BY <1>7, <1>8 DEF DebtStillDue
<1>10. /\ Worth(r, Liquid) \in Int /\ DebtStillDue(r) \in Int /\ Floor \in Int
       /\ Residual(HardGoals, Reserve(r, {"goal"})) \in Int
       /\ Reserve(q, {"saving", "investment"}) \in Int /\ Reserve(q, {"essential"}) \in Int
    BY <1>1, MoneyIsInteger, SafeToSpendOf, PlanAssumption
<1>11. \A b \in {book, book'} :
          SafeToSpend(Current(b)) =
              Worth(Current(b), Liquid) - DebtStillDue(Current(b))
                - (Reserve(Current(b), {"goal"})
                     + Residual(HardGoals, Reserve(Current(b), {"goal"})))
                - (Reserve(Current(b), {"saving", "investment"})
                     + Reserve(Current(b), {"essential"}))
                - Floor
    BY <1>1, SafeToSpendOf
<1> HIDE DEF r, q
<1> QED
    BY <1>1, <1>2, <1>5, <1>7, <1>9, <1>10, <1>11 DEF r, q

\* No commitment is deducted before it is paid and again when it was.
THEOREM CommitmentsAreCountedOnce == Spec => CommitmentsCountOnce
<1> DEFINE A ==
        \A s \in 1..LastInPeriod :
            \/ /\ Added(s, "transfer", Liquid)
               /\ book'[s].dst \in DebtAccounts \ (Liquid \cup Foreign)
               /\ book'[s].amount <= DebtStillDue(Current(book))
            \/ /\ Added(s, "expense", Liquid)
               /\ \E l \in Lines :
                     /\ OnlyLineOf(l, book'[s].category)
                     /\ l.kind \in {"essential", "saving", "investment"}
                     /\ book'[s].amount <= Remaining(Current(book), l)
            => SafeToSpend(Current(book')) = SafeToSpend(Current(book))
<1>1. ReadingInv => TypeOK
    BY DEF ReadingInv, SnapshotInv
<1>2. TypeOK /\ [Next]_vars => [A]_vars
    BY RepaymentStep, BudgetedStep
<1> QED
    BY <1>1, <1>2, ReadingInvHolds, PTL DEF Spec, CommitmentsCountOnce
-----------------------------------------------------------------------------
(***************************************************************************)
(* Net worth                                                               *)
(***************************************************************************)

OwnFinite == /\ IsFiniteSet(Own) /\ Own \in SUBSET Accounts
             /\ Own = (Assets \ Foreign) \cup (Liabilities \ Foreign)

LEMMA OwnIsFinite == OwnFinite
    BY SnapshotAssumption, FS_Subset DEF OwnFinite, Own

\* With the usual signs, net worth is the sum of all balances.
LEMMA NetWorthIsSum ==
    ASSUME NEW b \in Books, UsualSigns(b)
    PROVE  NetWorth(Current(b)) = SumFunctionOnSet(Balances(b), Own)
<1> DEFINE A == Assets \ Foreign
           L == Liabilities \ Foreign
           F == Balances(b)
           M == Magnitudes(b)
           Zero == [a \in Accounts |-> 0]
<1>1. /\ Assets \in SUBSET (Assets \cup Liabilities)
      /\ Liabilities \in SUBSET (Assets \cup Liabilities)
    OBVIOUS
<1>2. /\ Worth(Current(b), Assets) = SumFunctionOnSet(M, A)
      /\ Worth(Current(b), Liabilities) = SumFunctionOnSet(M, L)
      /\ IsFiniteSet(A) /\ IsFiniteSet(L) /\ A \in SUBSET Accounts /\ L \in SUBSET Accounts
      /\ Integral(M, A) /\ Integral(M, L)
    BY <1>1, WorthIsSum
<1>3. Integral(F, A) /\ Integral(F, L)
    BY <1>2, BalancesAreSums DEF Integral
<1>4. \A a \in A : M[a] = F[a]
    BY <1>2, <1>3 DEF UsualSigns, Magnitudes, Magnitude, Integral
<1>5. \A a \in L : M[a] + F[a] = 0
    BY <1>2, <1>3 DEF UsualSigns, Magnitudes, Magnitude, Integral
<1>6. SumFunctionOnSet(M, A) = SumFunctionOnSet(F, A)
    <2> HIDE DEF M, F, A
    <2> QED
        BY <1>2, <1>4, SumSame
<1>7. SumFunctionOnSet(M, L) + SumFunctionOnSet(F, L) = 0
    <2>1. \A a \in L : Zero[a] = M[a] + F[a] /\ Zero[a] = 0
        BY <1>2, <1>5
    <2> HIDE DEF M, F, L, Zero
    <2>2. SumFunctionOnSet(Zero, L) = SumFunctionOnSet(M, L) + SumFunctionOnSet(F, L)
        BY <1>2, <1>3, <2>1, SumPlus
    <2>3. SumFunctionOnSet(Zero, L) = 0
        BY <1>2, <2>1, SumZero
    <2> QED
        BY <2>2, <2>3
<1>8. SumFunctionOnSet(F, Own) = SumFunctionOnSet(F, A) + SumFunctionOnSet(F, L)
    <2>1. A \cap L = {} /\ Own = A \cup L
        BY SnapshotAssumption DEF Own
    <2> HIDE DEF F, A, L
    <2> QED
        BY <1>2, <1>3, <2>1, SumUnion
<1>9. /\ SumFunctionOnSet(F, A) \in Int /\ SumFunctionOnSet(F, L) \in Int
      /\ SumFunctionOnSet(M, L) \in Int
    BY <1>2, <1>3, SumInt
<1> HIDE DEF F, M, A, L
<1> QED
    BY <1>2, <1>6, <1>7, <1>8, <1>9 DEF NetWorth, F

\* What a transaction, or none, adds to the accounts that count.
Flow(t) == SumFunctionOnSet([a \in Accounts |-> EffectOf(t, a)], Own)

LEMMA FlowTyped ==
    ASSUME NEW t \in Contents \cup {None}
    PROVE  Integral([a \in Accounts |-> EffectOf(t, a)], Own) /\ Flow(t) \in Int
<1>1. Integral([a \in Accounts |-> EffectOf(t, a)], Own)
    BY OwnIsFinite, EffectTyped DEF OwnFinite, Integral
<1> QED
    BY <1>1, OwnIsFinite, SumInt DEF OwnFinite, Flow

LEMMA BalancesOfEdit ==
    ASSUME NEW b, NEW c, NEW s, EditedAt(b, c, s)
    PROVE  /\ SumFunctionOnSet(Balances(c), Own)
                = SumFunctionOnSet(Balances(b), Own) - Flow(b[s]) + Flow(c[s])
           /\ SumFunctionOnSet(Balances(b), Own) \in Int
           /\ SumFunctionOnSet(Balances(c), Own) \in Int
<1> DEFINE F == Balances(b)
           G == Balances(c)
           X == [a \in Accounts |-> EffectOf(b[s], a)]
           Y == [a \in Accounts |-> EffectOf(c[s], a)]
           H == [a \in Accounts |-> F[a] + Y[a]]
<1>1. /\ b \in Books /\ c \in Books /\ s \in Slots
      /\ b[s] \in Contents \cup {None} /\ c[s] \in Contents \cup {None}
      /\ \A u \in Slots \ {s} : c[u] = b[u]
    BY SnapshotAssumption DEF EditedAt, Slots, Books
<1>2. IsFiniteSet(Own) /\ Own \in SUBSET Accounts
    BY OwnIsFinite DEF OwnFinite
<1>3. Integral(X, Own) /\ Integral(Y, Own)
    BY <1>1, FlowTyped
<1>4. Integral(F, Own) /\ Integral(G, Own)
    BY <1>1, <1>2, BalancesAreSums DEF Integral
<1>5. \A a \in Own : H[a] = F[a] + Y[a] /\ H[a] = G[a] + X[a]
    <2> SUFFICES ASSUME NEW a \in Own PROVE H[a] = F[a] + Y[a] /\ H[a] = G[a] + X[a]
        OBVIOUS
    <2>1. /\ a \in Accounts /\ X[a] = EffectOf(b[s], a) /\ Y[a] = EffectOf(c[s], a)
          /\ H[a] = F[a] + Y[a] /\ X[a] \in Int /\ Y[a] \in Int /\ F[a] \in Int /\ G[a] \in Int
        BY <1>2, <1>3, <1>4 DEF Integral
    <2>2. G[a] = F[a] - X[a] + Y[a]
        BY <1>1, <2>1, BalanceOfEdit
    <2> HIDE DEF F, G, H, X, Y
    <2> QED
        BY <2>1, <2>2
<1>6. Flow(b[s]) = SumFunctionOnSet(X, Own) /\ Flow(c[s]) = SumFunctionOnSet(Y, Own)
    BY DEF Flow
<1> HIDE DEF F, G, H, X, Y
<1>7. /\ SumFunctionOnSet(H, Own) = SumFunctionOnSet(F, Own) + SumFunctionOnSet(Y, Own)
      /\ SumFunctionOnSet(H, Own) = SumFunctionOnSet(G, Own) + SumFunctionOnSet(X, Own)
    BY <1>2, <1>3, <1>4, <1>5, SumPlus
<1>8. /\ SumFunctionOnSet(F, Own) \in Int /\ SumFunctionOnSet(G, Own) \in Int
      /\ SumFunctionOnSet(X, Own) \in Int /\ SumFunctionOnSet(Y, Own) \in Int
    BY <1>2, <1>3, <1>4, SumInt
<1> QED
    BY <1>6, <1>7, <1>8 DEF F, G

\* A transaction among accounts that count adds its cash flow to them.
LEMMA FlowIsCashflow ==
    ASSUME NEW t \in Contents \cup {None}, OwnMoney(t)
    PROVE  Flow(t) = CashTerm("income")[t] - CashTerm("expense")[t]
<1> DEFINE X == [a \in Accounts |-> EffectOf(t, a)]
           In == [a \in Accounts |->
                    IF t.src # a THEN 0
                    ELSE IF t.type \in {"income", "modification"} THEN t.amount ELSE -t.amount]
           Out == [a \in Accounts |-> IF t.type = "transfer" /\ t.dst = a THEN t.amount ELSE 0]
<1>1. IsFiniteSet(Own) /\ Own \in SUBSET Accounts /\ Integral(X, Own)
    BY OwnIsFinite, FlowTyped DEF OwnFinite
<1>2. CASE t = None
    <2>1. \A a \in Own : X[a] = 0
        BY <1>1, <1>2 DEF EffectOf
    <2>2. Flow(t) = 0
        BY <1>1, <2>1, SumZero DEF Flow
    <2> QED
        BY <1>2, <2>2 DEF CashTerm
<1>3. CASE t # None
    <2>1. /\ t \in Contents /\ t.amount \in Int /\ t.src \in Own /\ t.src \notin Foreign
          /\ t.type \in {"income", "expense", "transfer"}
          /\ t.type = "transfer" => t.dst \in Own
        BY <1>3, ContentsAssumption DEF OwnMoney, Own
    <2>2. Integral(In, Own) /\ Integral(Out, Own)
        BY <1>1, <2>1 DEF Integral
    <2>3. \A a \in Own : X[a] = In[a] + Out[a]
        BY <1>1, <1>3 DEF EffectOf, Effect
    <2>4. /\ In[t.src] = IF t.type = "income" THEN t.amount ELSE -t.amount
          /\ \A a \in Own \ {t.src} : In[a] = 0
        BY <1>1, <2>1
    <2>5. /\ t.type # "transfer" => \A a \in Own : Out[a] = 0
          /\ t.type = "transfer" => Out[t.dst] = t.amount /\ \A a \in Own \ {t.dst} : Out[a] = 0
        BY <1>1, <2>1
    <2>6. Flow(t) = SumFunctionOnSet(X, Own)
        BY DEF Flow
    <2> HIDE DEF X, In, Out
    <2>7. SumFunctionOnSet(X, Own) = SumFunctionOnSet(In, Own) + SumFunctionOnSet(Out, Own)
        BY <1>1, <2>2, <2>3, SumPlus
    <2>8. SumFunctionOnSet(In, Own) = In[t.src]
        BY <1>1, <2>1, <2>2, <2>4, SumOfOne
    <2>9. SumFunctionOnSet(Out, Own) = IF t.type = "transfer" THEN t.amount ELSE 0
        BY <1>1, <2>1, <2>2, <2>5, SumOfOne, SumZero
    <2> QED
        BY <1>3, <2>1, <2>4, <2>6, <2>7, <2>8, <2>9 DEF CashTerm
<1> QED
    BY <1>2, <1>3

LEMMA CashflowOfEdit ==
    ASSUME NEW b, NEW c, NEW s, EditedAt(b, c, s)
    PROVE  LET in == CashTerm("income")
               out == CashTerm("expense")
           IN  /\ NetCashflow(Current(c)) = NetCashflow(Current(b))
                       - (in[b[s]] - out[b[s]]) + (in[c[s]] - out[c[s]])
               /\ NetCashflow(Current(b)) \in Int /\ NetCashflow(Current(c)) \in Int
               /\ in[b[s]] \in Int /\ in[c[s]] \in Int /\ out[b[s]] \in Int /\ out[c[s]] \in Int
<1> DEFINE in == CashTerm("income")
           out == CashTerm("expense")
<1>1. /\ b \in Books /\ c \in Books
      /\ b[s] \in Contents \cup {None} /\ c[s] \in Contents \cup {None}
    BY SnapshotAssumption DEF EditedAt, Slots, Books
<1>2. in \in Terms /\ out \in Terms
    BY TermsTyped
<1>3. /\ NetCashflow(Current(b)) = PeriodSum(b, in) - PeriodSum(b, out)
      /\ NetCashflow(Current(c)) = PeriodSum(c, in) - PeriodSum(c, out)
    BY <1>1, CashIsSum DEF NetCashflow
<1> HIDE DEF in, out
<1>4. /\ PeriodSum(c, in) = PeriodSum(b, in) - in[b[s]] + in[c[s]]
      /\ PeriodSum(c, out) = PeriodSum(b, out) - out[b[s]] + out[c[s]]
    BY <1>2, PeriodSumOfEdit
<1>5. /\ PeriodSum(b, in) \in Int /\ PeriodSum(b, out) \in Int
      /\ in[b[s]] \in Int /\ in[c[s]] \in Int /\ out[b[s]] \in Int /\ out[c[s]] \in Int
    BY <1>1, <1>2, PeriodSumTyped DEF Terms
<1> QED
    BY <1>3, <1>4, <1>5 DEF in, out

\* Net worth moves with net cash flow, whatever is added, changed or removed.
THEOREM NetWorthMovesWithCashflow == Spec => NetWorthFollowsCashflow
<1> DEFINE A ==
        \A s \in 1..LastInPeriod :
            /\ book'[s] # book[s] /\ OwnMoney(book[s]) /\ OwnMoney(book'[s])
            /\ UsualSigns(book) /\ UsualSigns(book')
            => NetWorth(Current(book')) - NetWorth(Current(book))
                 = NetCashflow(Current(book')) - NetCashflow(Current(book))
<1>1. ReadingInv => TypeOK
    BY DEF ReadingInv, SnapshotInv
<1>2. TypeOK /\ [Next]_vars => [A]_vars
    <2> SUFFICES ASSUME TypeOK, [Next]_vars, NEW s \in 1..LastInPeriod,
                        book'[s] # book[s], OwnMoney(book[s]), OwnMoney(book'[s]),
                        UsualSigns(book), UsualSigns(book')
                 PROVE  NetWorth(Current(book')) - NetWorth(Current(book))
                          = NetCashflow(Current(book')) - NetCashflow(Current(book))
        OBVIOUS
    <2>1. EditedAt(book, book', s)
        BY StepEdits
    <2>2. /\ book \in Books /\ book' \in Books
          /\ book[s] \in Contents \cup {None} /\ book'[s] \in Contents \cup {None}
        BY <2>1, SnapshotAssumption DEF EditedAt, Slots, Books
    <2>3. /\ NetWorth(Current(book)) = SumFunctionOnSet(Balances(book), Own)
          /\ NetWorth(Current(book')) = SumFunctionOnSet(Balances(book'), Own)
        BY <2>2, NetWorthIsSum
    <2>4. /\ Flow(book[s]) = CashTerm("income")[book[s]] - CashTerm("expense")[book[s]]
          /\ Flow(book'[s]) = CashTerm("income")[book'[s]] - CashTerm("expense")[book'[s]]
        BY <2>2, FlowIsCashflow
    <2> QED
        BY <2>1, <2>3, <2>4, BalancesOfEdit, CashflowOfEdit
<1> QED
    BY <1>1, <1>2, ReadingInvHolds, PTL DEF Spec, NetWorthFollowsCashflow
=============================================================================
