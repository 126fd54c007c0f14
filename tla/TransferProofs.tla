--------------------------- MODULE TransferProofs ---------------------------
(***************************************************************************)
(* Proofs about Transfer, for any number of wallets, keys, amounts and     *)
(* requests.  Inv is the inductive invariant: it ties where a request is   *)
(* to the locks it holds and the rows it has inserted, which is what makes *)
(* the balance checked by the trigger still true at COMMIT.                *)
(***************************************************************************)
EXTENDS Transfer, Sums, TLAPS

(* Stages of the database transaction, by what has been done in them.      *)
Debited == {"insertCredit", "creditDestination", "insertTransfer", "commit"}
BothInserted == {"creditDestination", "insertTransfer", "commit"}
BothLocked == {"insertTransfer", "commit"}

SameIndexEntry(e, f) == e.wallet = f.wallet /\ e.key = f.key

(* A request inside the transaction has found its wallets.                 *)
WalletsFound ==
    \A r \in Requests :
        /\ pc[r] = "destination" => call[r].from \in Wallets
        /\ pc[r] \in {"balance", "emit"} \union InTransaction
               => call[r].from \in Wallets /\ call[r].to \in Wallets

(* Exactly the rows inserted so far are open.                              *)
RowsInserted ==
    \A r \in Requests :
        /\ pc[r] \notin InTransaction \/ pc[r] = "insertDebit" => open[r] = {}
        /\ pc[r] \in {"debitSource", "insertCredit"} => open[r] = {Debit(r)}
        /\ pc[r] \in BothInserted
               => open[r] = {Debit(r), Credit(r)} /\ call[r].from # call[r].to

(* Exactly the balances moved so far are locked.                           *)
LocksHeld ==
    \A r \in Requests :
        /\ pc[r] \in Debited => lock[call[r].from] = r
        /\ pc[r] \in BothLocked => lock[call[r].to] = r
        /\ \A w \in Wallets : lock[w] = r =>
               \/ pc[r] \in Debited /\ w = call[r].from
               \/ pc[r] \in BothLocked /\ w = call[r].to

(* The unique index: no two rows on one entry, committed or open.          *)
IndexUnique ==
    \A r \in Requests : \A e \in open[r] :
        /\ \A f \in book : ~SameIndexEntry(e, f)
        /\ \A q \in Requests \ {r} : \A f \in open[q] : ~SameIndexEntry(e, f)

(* The balance a debit was taken from still covers it.                     *)
Covered ==
    \A r \in Requests :
        pc[r] \in Debited => balance[call[r].from] >= call[r].amount

(* The unique index of `transfers`.                                        *)
KeyUnique ==
    \A r \in Requests : pc[r] = "commit" =>
        /\ \A t \in transfers : t.key # call[r].key
        /\ \A q \in Requests \ {r} : pc[q] = "commit" => call[q].key # call[r].key

Inv ==
    /\ TypeOK
    /\ WalletsFound
    /\ RowsInserted
    /\ LocksHeld
    /\ IndexUnique
    /\ Covered
    /\ KeyUnique
    /\ OverdrawnOnlyByNegative
    /\ DoubleEntry
    /\ OneTransferPerKey

-----------------------------------------------------------------------------

(* The initial states satisfy the invariant.                               *)
LEMMA InitInv == Init => Inv
<1> SUFFICES ASSUME Init PROVE Inv
    OBVIOUS
<1> USE DEF Init
<1>1. TypeOK
    BY NoRequestAssumption, OpeningAssumption, CallsAssumption
    DEF TypeOK, Places
<1>2. WalletsFound /\ RowsInserted /\ Covered /\ KeyUnique
    BY DEF WalletsFound, RowsInserted, Covered, KeyUnique, InTransaction,
           Debited, BothInserted
<1>3. LocksHeld
    BY NoRequestAssumption DEF LocksHeld, Debited, BothLocked
<1>4. IndexUnique /\ DoubleEntry /\ OneTransferPerKey
    BY DEF IndexUnique, DoubleEntry, OneTransferPerKey
<1>5. OverdrawnOnlyByNegative
    BY OpeningAssumption DEF OverdrawnOnlyByNegative
<1>6. QED
    BY <1>1, <1>2, <1>3, <1>4, <1>5 DEF Inv

(* The arguments of a call have their types.                               *)
LEMMA CallTyped ==
    ASSUME TypeOK, NEW r \in Requests
    PROVE  /\ call[r] \in Call
           /\ call[r].amount \in Amounts /\ call[r].amount \in Int
           /\ call[r].key \in Keys
<1>1. call[r] \in Call
    BY CallsAssumption DEF TypeOK
<1>2. QED
    BY <1>1, AmountsAssumption DEF Call

(* A step that only moves requests outside the database transaction, or    *)
(* changes what the tables and the locks do not depend on.                 *)
LEMMA OutsidePreserves ==
    ASSUME Inv, TypeOK', NEW r \in Requests, NEW place \in Places,
           UNCHANGED <<tables, lock, open>>,
           \A q \in Requests \ {r} : call'[q] = call[q],
           Goto(r, place),
           pc[r] \notin InTransaction,
           place \notin InTransaction \ {"insertDebit"},
           place \in {"balance", "insertDebit", "emit"} =>
               call'[r].from \in Wallets /\ call'[r].to \in Wallets,
           place = "destination" => call'[r].from \in Wallets
    PROVE  Inv'
<1> USE DEF Inv, Goto, tables, TypeOK
<1>1. WalletsFound'
    BY DEF WalletsFound, InTransaction
<1>2. RowsInserted'
    BY DEF RowsInserted, InTransaction, BothInserted, Debit, Credit, Row
<1>3. LocksHeld'
    BY DEF LocksHeld, Debited, BothLocked, InTransaction
<1>4. IndexUnique'
    BY DEF IndexUnique, SameIndexEntry
<1>5. Covered'
    BY DEF Covered, Debited, InTransaction
<1>6. KeyUnique'
    BY DEF KeyUnique, InTransaction
<1>7. (OverdrawnOnlyByNegative /\ DoubleEntry /\ OneTransferPerKey)'
    BY DEF OverdrawnOnlyByNegative, DoubleEntry, OneTransferPerKey, Row
<1>8. QED
    BY <1>1, <1>2, <1>3, <1>4, <1>5, <1>6, <1>7

(* Rolling back gives up rows and locks, and touches no table.             *)
LEMMA RollBackPreserves ==
    ASSUME Inv, NEW r \in Requests, RollBack(r),
           UNCHANGED <<active, call, sourceActive, frozen>>
    PROVE  Inv'
<1> USE DEF Inv, RollBack, Goto, Released, tables
<1>1. TypeOK'
    BY NoRequestAssumption DEF TypeOK, Places, Ended
<1> USE DEF TypeOK
<1>2. WalletsFound'
    BY DEF WalletsFound, InTransaction
<1>3. RowsInserted'
    BY DEF RowsInserted, InTransaction, BothInserted, Debit, Credit, Row
<1>4. LocksHeld'
    BY NoRequestAssumption
    DEF LocksHeld, Debited, BothLocked, WalletsFound, InTransaction
<1>5. IndexUnique'
    BY DEF IndexUnique, SameIndexEntry
<1>6. Covered'
    BY DEF Covered, Debited
<1>7. KeyUnique'
    BY DEF KeyUnique
<1>8. (OverdrawnOnlyByNegative /\ DoubleEntry /\ OneTransferPerKey)'
    BY DEF OverdrawnOnlyByNegative, DoubleEntry, OneTransferPerKey, Row
<1>9. QED
    BY <1>1, <1>2, <1>3, <1>4, <1>5, <1>6, <1>7, <1>8

LEMMA CrashPreserves ==
    ASSUME Inv, Crash
    PROVE  Inv'
<1> USE DEF Inv, Crash, InFlight, tables
<1>1. TypeOK'
    BY NoRequestAssumption DEF TypeOK, Places, Ended
<1> USE DEF TypeOK
<1>2. \A r \in Requests : pc'[r] \notin InTransaction \union {"destination", "balance", "emit"}
    BY DEF Reading, InTransaction
<1>3. WalletsFound' /\ RowsInserted' /\ Covered' /\ KeyUnique'
    BY <1>2 DEF WalletsFound, RowsInserted, Covered, KeyUnique, Debited,
                BothInserted, InTransaction
<1>4. LocksHeld'
    BY <1>2, NoRequestAssumption
    DEF LocksHeld, Debited, BothLocked, InTransaction
<1>5. IndexUnique'
    BY DEF IndexUnique
<1>6. (OverdrawnOnlyByNegative /\ DoubleEntry /\ OneTransferPerKey)'
    BY DEF OverdrawnOnlyByNegative, DoubleEntry, OneTransferPerKey, Row
<1>7. QED
    BY <1>1, <1>3, <1>4, <1>5, <1>6

-----------------------------------------------------------------------------
(* The steps inside the database transaction.                              *)

(* A row that goes into the unique index clashes with no other.            *)
LEMMA InsertKeepsIndexUnique ==
    ASSUME TypeOK, IndexUnique, NEW r \in Requests, NEW row,
           ~Duplicate(r, row.wallet, row.key),
           \A q \in Requests \ {r} : ~ClaimedBy(q, row.wallet, row.key),
           open' = [open EXCEPT ![r] = @ \union {row}],
           book' = book
    PROVE  IndexUnique'
BY DEF TypeOK, IndexUnique, SameIndexEntry, Duplicate, ClaimedBy

LEMMA InsertDebitPreserves ==
    ASSUME Inv, NEW r \in Requests, InsertDebit(r)
    PROVE  Inv'
<1> USE DEF Inv
<1>1. CASE RollBack(r)
    BY <1>1, RollBackPreserves DEF InsertDebit
<1>2. CASE ~Duplicate(r, Debit(r).wallet, Debit(r).key)
    <2> USE DEF InsertDebit, InsertRow, Goto, tables
    <2>0. /\ pc[r] = "insertDebit"
          /\ pc' = [pc EXCEPT ![r] = "debitSource"]
          /\ open' = [open EXCEPT ![r] = @ \union {Debit(r)}]
          /\ UNCHANGED <<active, book, transfers, balance, lock, call, sourceActive, frozen>>
        BY <1>2
    <2>1. Debit(r) \in [wallet: Wallets, key: Keys, type: {"CREDIT", "DEBIT"}, amount: Amounts]
        BY <2>0, CallsAssumption
        DEF TypeOK, WalletsFound, InTransaction, Debit, Row, Call
    <2>2. TypeOK'
        BY <2>0, <2>1 DEF TypeOK, Places, InTransaction
    <2> USE DEF TypeOK
    <2>3. WalletsFound' /\ Covered' /\ KeyUnique'
        BY <2>0 DEF WalletsFound, Covered, KeyUnique, Debited, InTransaction
    <2>4. RowsInserted'
        BY <2>0 DEF RowsInserted, InTransaction, BothInserted, Debit, Credit, Row
    <2>5. LocksHeld'
        BY <2>0 DEF LocksHeld, Debited, BothLocked
    <2>6. \A q \in Requests \ {r} : ~ClaimedBy(q, Debit(r).wallet, Debit(r).key)
        BY <2>0 DEF Blocked, WaitsFor, Debit, Row
    <2>7. IndexUnique'
        BY <1>2, <2>0, <2>6, InsertKeepsIndexUnique
    <2>8. (OverdrawnOnlyByNegative /\ DoubleEntry /\ OneTransferPerKey)'
        BY <2>0 DEF OverdrawnOnlyByNegative, DoubleEntry, OneTransferPerKey, Row
    <2>9. QED
        BY <2>2, <2>3, <2>4, <2>5, <2>7, <2>8
<1>3. QED
    BY <1>1, <1>2 DEF InsertDebit, InsertRow

LEMMA DebitSourcePreserves ==
    ASSUME Inv, NEW r \in Requests, DebitSource(r)
    PROVE  Inv'
<1> USE DEF Inv
<1>1. CASE RollBack(r)
    BY <1>1, RollBackPreserves DEF DebitSource
<1>2. CASE Covers(r)
    <2>0. /\ pc[r] = "debitSource"
          /\ lock[call[r].from] \in {NoRequest, r}
          /\ pc' = [pc EXCEPT ![r] = "insertCredit"]
          /\ lock' = [lock EXCEPT ![call[r].from] = r]
          /\ UNCHANGED <<active, book, transfers, balance, open, call, sourceActive, frozen>>
        BY <1>2 DEF DebitSource, Goto, tables, LockFree
    <2>1. call[r].from \in Wallets /\ call[r].amount \in Int
        BY <2>0, CallTyped, AmountsAssumption
        DEF WalletsFound, InTransaction
    <2>2. TypeOK'
        BY <2>0, <2>1 DEF TypeOK, Places, InTransaction
    <2> USE DEF TypeOK
    <2>3. WalletsFound' /\ KeyUnique'
        BY <2>0 DEF WalletsFound, KeyUnique, InTransaction
    <2>4. RowsInserted'
        BY <2>0 DEF RowsInserted, InTransaction, BothInserted, Debit, Credit, Row
    <2>5. LocksHeld'
        BY <2>0, <2>1, NoRequestAssumption
        DEF LocksHeld, Debited, BothLocked, WalletsFound, InTransaction
    <2>6. Covered'
        BY <1>2, <2>0, <2>1 DEF Covers, Covered, Debited
    <2>7. IndexUnique'
        BY <2>0 DEF IndexUnique, SameIndexEntry
    <2>8. (OverdrawnOnlyByNegative /\ DoubleEntry /\ OneTransferPerKey)'
        BY <2>0 DEF OverdrawnOnlyByNegative, DoubleEntry, OneTransferPerKey, Row
    <2>9. QED
        BY <2>2, <2>3, <2>4, <2>5, <2>6, <2>7, <2>8
<1>3. QED
    BY <1>1, <1>2 DEF DebitSource

LEMMA InsertCreditPreserves ==
    ASSUME Inv, NEW r \in Requests, InsertCredit(r)
    PROVE  Inv'
<1> USE DEF Inv
<1>1. CASE RollBack(r)
    BY <1>1, RollBackPreserves DEF InsertCredit
<1>2. CASE ~Duplicate(r, Credit(r).wallet, Credit(r).key)
    <2> USE DEF InsertCredit, InsertRow, Goto, tables
    <2>0. /\ pc[r] = "insertCredit"
          /\ pc' = [pc EXCEPT ![r] = "creditDestination"]
          /\ open' = [open EXCEPT ![r] = @ \union {Credit(r)}]
          /\ UNCHANGED <<active, book, transfers, balance, lock, call, sourceActive, frozen>>
        BY <1>2
    <2>1. Credit(r) \in [wallet: Wallets, key: Keys, type: {"CREDIT", "DEBIT"}, amount: Amounts]
        BY <2>0, CallsAssumption
        DEF TypeOK, WalletsFound, InTransaction, Credit, Row, Call
    <2>2. TypeOK'
        BY <2>0, <2>1 DEF TypeOK, Places, InTransaction
    <2> USE DEF TypeOK
    <2>3. WalletsFound' /\ Covered' /\ KeyUnique'
        BY <2>0 DEF WalletsFound, Covered, KeyUnique, Debited, InTransaction
    <2>4. open[r] = {Debit(r)} /\ call[r].from # call[r].to
        <3>1. open[r] = {Debit(r)}
            BY <2>0 DEF RowsInserted
        <3>2. Debit(r).wallet = call[r].from /\ Debit(r).key = call[r].key
            BY DEF Debit, Row
        <3>3. Credit(r).wallet = call[r].to /\ Credit(r).key = call[r].key
            BY DEF Credit, Row
        <3>4. QED
            BY <1>2, <3>1, <3>2, <3>3 DEF Duplicate
    <2>5. RowsInserted'
        BY <2>0, <2>4 DEF RowsInserted, InTransaction, BothInserted, Debit, Credit, Row
    <2>6. LocksHeld'
        BY <2>0 DEF LocksHeld, Debited, BothLocked
    <2>7. \A q \in Requests \ {r} : ~ClaimedBy(q, Credit(r).wallet, Credit(r).key)
        BY <2>0 DEF Blocked, WaitsFor, Credit, Row
    <2>8. IndexUnique'
        BY <1>2, <2>0, <2>7, InsertKeepsIndexUnique
    <2>9. (OverdrawnOnlyByNegative /\ DoubleEntry /\ OneTransferPerKey)'
        BY <2>0 DEF OverdrawnOnlyByNegative, DoubleEntry, OneTransferPerKey, Row
    <2>10. QED
        BY <2>2, <2>3, <2>5, <2>6, <2>8, <2>9
<1>3. QED
    BY <1>1, <1>2 DEF InsertCredit, InsertRow

LEMMA CreditDestinationPreserves ==
    ASSUME Inv, NEW r \in Requests, CreditDestination(r)
    PROVE  Inv'
<1> USE DEF Inv
<1>0. /\ pc[r] = "creditDestination"
      /\ lock[call[r].to] \in {NoRequest, r}
      /\ pc' = [pc EXCEPT ![r] = "insertTransfer"]
      /\ lock' = [lock EXCEPT ![call[r].to] = r]
      /\ UNCHANGED <<active, book, transfers, balance, open, call, sourceActive, frozen>>
    BY DEF CreditDestination, Goto, tables, LockFree
<1>1. TypeOK'
    BY <1>0 DEF TypeOK, Places, InTransaction
<1> USE DEF TypeOK
<1>2. WalletsFound' /\ KeyUnique' /\ Covered'
    BY <1>0 DEF WalletsFound, KeyUnique, Covered, Debited, InTransaction
<1>3. RowsInserted'
    BY <1>0 DEF RowsInserted, InTransaction, BothInserted, Debit, Credit, Row
<1>4. LocksHeld'
    BY <1>0, NoRequestAssumption
    DEF LocksHeld, Debited, BothLocked, WalletsFound, InTransaction
<1>5. IndexUnique'
    BY <1>0 DEF IndexUnique, SameIndexEntry
<1>6. (OverdrawnOnlyByNegative /\ DoubleEntry /\ OneTransferPerKey)'
    BY <1>0 DEF OverdrawnOnlyByNegative, DoubleEntry, OneTransferPerKey, Row
<1>7. QED
    BY <1>1, <1>2, <1>3, <1>4, <1>5, <1>6

LEMMA InsertTransferPreserves ==
    ASSUME Inv, NEW r \in Requests, InsertTransfer(r)
    PROVE  Inv'
<1> USE DEF Inv
<1>1. CASE RollBack(r)
    BY <1>1, RollBackPreserves DEF InsertTransfer
<1>2. CASE ~(\E t \in transfers : t.key = call[r].key)
    <2>0. /\ pc[r] = "insertTransfer"
          /\ \A q \in Requests \ {r} : pc[q] = "commit" => call[q].key # call[r].key
          /\ pc' = [pc EXCEPT ![r] = "commit"]
          /\ UNCHANGED <<active, book, transfers, balance, lock, open, call, sourceActive, frozen>>
        BY <1>2 DEF InsertTransfer, Goto, tables, Blocked, WaitsFor, TransferPending
    <2>1. TypeOK'
        BY <2>0 DEF TypeOK, Places, InTransaction
    <2> USE DEF TypeOK
    <2>2. WalletsFound' /\ Covered'
        BY <2>0 DEF WalletsFound, Covered, Debited, InTransaction
    <2>3. RowsInserted'
        BY <2>0 DEF RowsInserted, InTransaction, BothInserted, Debit, Credit, Row
    <2>4. LocksHeld'
        BY <2>0 DEF LocksHeld, Debited, BothLocked
    <2>5. IndexUnique'
        BY <2>0 DEF IndexUnique, SameIndexEntry
    <2>6. KeyUnique'
        BY <1>2, <2>0 DEF KeyUnique
    <2>7. (OverdrawnOnlyByNegative /\ DoubleEntry /\ OneTransferPerKey)'
        BY <2>0 DEF OverdrawnOnlyByNegative, DoubleEntry, OneTransferPerKey, Row
    <2>8. QED
        BY <2>1, <2>2, <2>3, <2>4, <2>5, <2>6, <2>7
<1>3. QED
    BY <1>1, <1>2 DEF InsertTransfer

(* COMMIT: the locks keep every other transaction off the two balances,    *)
(* the index entries keep the new rows apart from all others.              *)
LEMMA CommitPreserves ==
    ASSUME Inv, NEW r \in Requests, Commit(r)
    PROVE  Inv'
<1> USE DEF Inv
<1>0. PICK place \in {"emit", "failed"} : pc' = [pc EXCEPT ![r] = place]
    BY DEF Commit, Goto
<1>1. /\ pc[r] = "commit"
      /\ book' = book \union {Debit(r), Credit(r)}
      /\ transfers' = transfers \union {TransferRow(r)}
      /\ balance' = [balance EXCEPT ![call[r].from] = @ - call[r].amount,
                                    ![call[r].to] = @ + call[r].amount]
      /\ open' = [open EXCEPT ![r] = {}]
      /\ lock' = Released(r)
      /\ UNCHANGED <<active, call, sourceActive, frozen>>
    BY DEF Commit, RowsInserted, BothInserted
<1>2. /\ call[r].from \in Wallets /\ call[r].to \in Wallets
      /\ call[r].from # call[r].to
      /\ lock[call[r].from] = r /\ lock[call[r].to] = r
      /\ balance[call[r].from] >= call[r].amount
    BY <1>1 DEF WalletsFound, RowsInserted, BothInserted, LocksHeld, Debited,
                BothLocked, Covered, InTransaction
<1>3. call[r].amount \in Amounts /\ call[r].amount \in Int /\ call[r].key \in Keys
    BY CallTyped
<1>4. TypeOK'
    <2>1. book' \subseteq [wallet: Wallets, key: Keys, type: {"CREDIT", "DEBIT"},
                           amount: Amounts]
        BY <1>1, <1>2, <1>3 DEF TypeOK, Debit, Credit, Row
    <2>2. transfers' \subseteq [by: Requests, from: Wallets, to: Wallets,
                                amount: Amounts, key: Keys]
        BY <1>1, <1>2, <1>3 DEF TypeOK, TransferRow
    <2>3. balance' \in [Wallets -> Int]
        BY <1>1, <1>2, <1>3 DEF TypeOK
    <2>4. lock' \in [Wallets -> Requests \union {NoRequest}]
        BY <1>1 DEF TypeOK, Released
    <2>5. pc' \in [Requests -> Places]
        BY <1>0 DEF TypeOK, Places, Ended
    <2>6. QED
        BY <1>1, <2>1, <2>2, <2>3, <2>4, <2>5 DEF TypeOK
<1> USE DEF TypeOK
<1>5. WalletsFound'
    BY <1>0, <1>1 DEF WalletsFound, InTransaction
<1>6. RowsInserted'
    BY <1>0, <1>1 DEF RowsInserted, InTransaction, BothInserted, Debit, Credit, Row
<1>7. LocksHeld'
    BY <1>0, <1>1, NoRequestAssumption
    DEF LocksHeld, Debited, BothLocked, Released, WalletsFound, InTransaction
<1>8. IndexUnique'
    <2>1. open[r] = {Debit(r), Credit(r)}
        BY <1>1 DEF RowsInserted, BothInserted
    <2>2. SUFFICES ASSUME NEW q \in Requests, NEW e \in open'[q]
                   PROVE  /\ \A f \in book' : ~SameIndexEntry(e, f)
                          /\ \A p \in Requests \ {q} :
                                 \A f \in open'[p] : ~SameIndexEntry(e, f)
        BY DEF IndexUnique, SameIndexEntry
    <2>3. q # r /\ e \in open[q]
        BY <1>1, <2>2
    <2>4. \A f \in {Debit(r), Credit(r)} : ~SameIndexEntry(e, f)
        BY <2>1, <2>3 DEF IndexUnique
    <2>5. QED
        BY <1>1, <2>3, <2>4 DEF IndexUnique
<1>9. Covered'
    <2>1. SUFFICES ASSUME NEW q \in Requests, pc'[q] \in Debited
                   PROVE  balance'[call[q].from] >= call[q].amount
        BY <1>1 DEF Covered
    <2>2. q # r /\ pc[q] \in Debited
        BY <1>0, <2>1 DEF Debited
    <2>3. call[q].from \in Wallets \ {call[r].from, call[r].to}
        BY <1>2, <2>2 DEF LocksHeld, WalletsFound, Debited, InTransaction
    <2>4. balance'[call[q].from] = balance[call[q].from]
        BY <1>1, <2>3
    <2>5. QED
        BY <2>2, <2>4 DEF Covered
<1>10. KeyUnique'
    BY <1>0, <1>1 DEF KeyUnique, TransferRow
<1>11. OverdrawnOnlyByNegative'
    <2>1. SUFFICES ASSUME NEW w \in Wallets
                   PROVE  balance'[w] >= 0 \/ \E t \in transfers' : t.to = w /\ t.amount < 0
        BY DEF OverdrawnOnlyByNegative
    <2>2. balance[w] >= 0 \/ \E t \in transfers' : t.to = w /\ t.amount < 0
        BY <1>1 DEF OverdrawnOnlyByNegative
    <2>3. balance[w] \in Int /\ balance \in [Wallets -> Int]
        OBVIOUS
    <2>4. CASE w = call[r].from
        BY <1>1, <1>2, <1>3, <2>3, <2>4
    <2>5. CASE w = call[r].to /\ call[r].amount >= 0
        <3>1. balance'[w] = balance[w] + call[r].amount
            BY <1>1, <1>2, <2>5
        <3>2. QED
            BY <1>3, <2>2, <2>3, <2>5, <3>1
    <2>6. CASE w = call[r].to /\ call[r].amount < 0
        <3>1. TransferRow(r).to = w /\ TransferRow(r).amount < 0
            BY <2>6 DEF TransferRow
        <3>2. TransferRow(r) \in transfers'
            BY <1>1
        <3>3. QED
            BY <3>1, <3>2
    <2>7. CASE w \notin {call[r].from, call[r].to}
        <3>1. balance'[w] = balance[w]
            BY <1>1, <2>7
        <3>2. QED
            BY <2>2, <3>1
    <2>8. QED
        BY <1>3, <2>4, <2>5, <2>6, <2>7
<1>12. DoubleEntry'
    <2>1. TransferRow(r) \in transfers'
        BY <1>1
    <2>2. /\ TransferRow(r).from = call[r].from /\ TransferRow(r).to = call[r].to
          /\ TransferRow(r).key = call[r].key
          /\ TransferRow(r).amount = call[r].amount
        BY DEF TransferRow
    <2>3. ASSUME NEW t \in transfers'
          PROVE  /\ Row(t.from, t.key, "DEBIT", t.amount) \in book'
                 /\ Row(t.to, t.key, "CREDIT", t.amount) \in book'
        BY <1>1, <2>2 DEF DoubleEntry, Debit, Credit
    <2>4. ASSUME NEW e \in book'
          PROVE  \E t \in transfers' :
                     e \in {Row(t.from, t.key, "DEBIT", t.amount),
                            Row(t.to, t.key, "CREDIT", t.amount)}
        <3>1. CASE e \in book
            BY <1>1, <3>1 DEF DoubleEntry
        <3>2. CASE e \in {Debit(r), Credit(r)}
            BY <2>1, <2>2, <3>2 DEF Debit, Credit
        <3>3. QED
            BY <1>1, <3>1, <3>2
    <2>5. QED
        BY <2>3, <2>4 DEF DoubleEntry, Row
<1>13. OneTransferPerKey'
    BY <1>1 DEF OneTransferPerKey, KeyUnique, TransferRow
<1>14. QED
    BY <1>4, <1>5, <1>6, <1>7, <1>8, <1>9, <1>10, <1>11, <1>12, <1>13

-----------------------------------------------------------------------------
(* Every step preserves the invariant.                                     *)

LEMMA ReadsPreserve ==
    ASSUME Inv, NEW r \in Requests,
           ReadSource(r) \/ ReadDestination(r) \/ CheckBalance(r) \/ Emit(r)
    PROVE  Inv'
<1> USE DEF Inv, tables
<1>1. call[r] \in Call
    BY CallTyped
<1>2. CASE ReadSource(r)
    <2>1. TypeOK'
        BY <1>1, <1>2 DEF ReadSource, Goto, TypeOK, Places, Reading, Ended, Call
    <2>2. CASE call[r].from = NoWallet
        <3>1. Goto(r, "rejected")
            BY <1>2, <2>2 DEF ReadSource
        <3>2. QED
            BY <1>2, <2>1, <3>1, OutsidePreserves
            DEF ReadSource, InTransaction, Places, Ended
    <2>3. CASE call[r].from # NoWallet
        <3>1. Goto(r, "destination") /\ call[r].from \in Wallets
            BY <1>1, <1>2, <2>3 DEF ReadSource, Call
        <3>2. QED
            BY <1>2, <2>1, <3>1, OutsidePreserves
            DEF ReadSource, InTransaction, Places, Reading
    <2>4. QED
        BY <2>2, <2>3
<1>3. CASE ReadDestination(r)
    <2>1. TypeOK'
        <3>1. call' \in [Requests -> Call]
            BY <1>1, <1>3 DEF ReadDestination, TypeOK, FoundById, Call
        <3>2. pc' \in [Requests -> Places]
            BY <1>3 DEF ReadDestination, Goto, TypeOK, Places, Reading, Ended
        <3>3. UNCHANGED <<active, tables, lock, open, sourceActive, frozen>>
            BY <1>3 DEF ReadDestination
        <3>4. QED
            BY <3>1, <3>2, <3>3 DEF TypeOK
    <2>2. CASE call[r].to = NoUser
        <3>1. Goto(r, "rejected") /\ UNCHANGED call
            BY <1>3, <2>2 DEF ReadDestination
        <3>2. QED
            BY <1>3, <2>1, <3>1, OutsidePreserves
            DEF ReadDestination, InTransaction, Places, Ended
    <2>3. CASE call[r].to # NoUser
        <3>1. PICK w \in FoundById(call[r].to), place \in {"balance", "rejected"} :
                  call' = [call EXCEPT ![r].to = w] /\ Goto(r, place)
            BY <1>3, <2>3 DEF ReadDestination
        <3>2. w \in Wallets
            BY <1>1, <2>3, <3>1 DEF Call, FoundById
        <3>3. call'[r].from \in Wallets /\ call'[r].to \in Wallets
            BY <1>1, <1>3, <3>1, <3>2 DEF ReadDestination, Call, WalletsFound, TypeOK
        <3>4. \A q \in Requests \ {r} : call'[q] = call[q]
            BY <3>1 DEF TypeOK
        <3>5. QED
            BY <1>3, <2>1, <3>1, <3>3, <3>4, OutsidePreserves
            DEF ReadDestination, InTransaction, Places, Reading, Ended
    <2>4. QED
        BY <2>2, <2>3
<1>4. CASE CheckBalance(r)
    <2>1. TypeOK'
        BY <1>4 DEF CheckBalance, Goto, TypeOK, Places, InTransaction, Ended
    <2>2. call[r].from \in Wallets /\ call[r].to \in Wallets
        BY <1>4 DEF CheckBalance, WalletsFound
    <2>3. PICK place \in {"rejected", "insertDebit"} : Goto(r, place)
        BY <1>4 DEF CheckBalance
    <2>4. QED
        BY <1>4, <2>1, <2>2, <2>3, OutsidePreserves
        DEF CheckBalance, InTransaction, Places, Ended
<1>5. CASE Emit(r)
    <2>1. TypeOK'
        BY <1>5 DEF Emit, Goto, TypeOK, Places, Ended
    <2>2. QED
        BY <1>5, <2>1, OutsidePreserves DEF Emit, InTransaction, Places, Ended
<1>6. QED
    BY <1>2, <1>3, <1>4, <1>5

(* Neither a stutter nor (de)activation touches what Inv speaks of, except *)
(* for the types.                                                          *)
LEMMA ActivationPreserves ==
    ASSUME Inv,
           \/ \E w \in Switchable : ActivateWallet(w) \/ DeactivateWallet(w)
           \/ UNCHANGED vars
    PROVE  Inv'
<1> USE DEF Inv, ActivateWallet, DeactivateWallet, vars, tables
<1>1. TypeOK'
    <2>1. UNCHANGED <<book, transfers, balance, lock, open, call, pc, sourceActive>>
        OBVIOUS
    <2>2. active' \in [Wallets -> BOOLEAN]
        BY SwitchableAssumption DEF TypeOK
    <2>3. frozen' \in [Requests -> SUBSET Wallets]
        BY DEF TypeOK
    <2>4. QED
        BY <2>1, <2>2, <2>3 DEF TypeOK
<1>2. UNCHANGED <<book, transfers, balance, lock, open, call, pc>>
    OBVIOUS
<1>3. (WalletsFound /\ RowsInserted /\ LocksHeld)'
    BY <1>2 DEF WalletsFound, RowsInserted, LocksHeld, Debit, Credit, Row
<1>4. (IndexUnique /\ Covered /\ KeyUnique)'
    BY <1>2 DEF IndexUnique, Covered, KeyUnique, SameIndexEntry
<1>5. (OverdrawnOnlyByNegative /\ DoubleEntry /\ OneTransferPerKey)'
    BY <1>2 DEF OverdrawnOnlyByNegative, DoubleEntry, OneTransferPerKey, Row
<1>6. QED
    BY <1>1, <1>3, <1>4, <1>5

LEMMA NextPreserves == Inv /\ [Next]_vars => Inv'
<1> SUFFICES ASSUME Inv, [Next]_vars PROVE Inv'
    OBVIOUS
<1>1. ASSUME NEW r \in Requests, Serve(r) PROVE Inv'
    BY <1>1, ReadsPreserve, InsertDebitPreserves, DebitSourcePreserves,
       InsertCreditPreserves, CreditDestinationPreserves,
       InsertTransferPreserves, CommitPreserves
    DEF Serve
<1>2. ASSUME NEW r \in Requests, DeadlockVictim(r) \/ ConnectionLost(r)
      PROVE  Inv'
    BY <1>2, RollBackPreserves DEF DeadlockVictim, ConnectionLost
<1>3. QED
    BY <1>1, <1>2, ReadsPreserve, CrashPreserves, ActivationPreserves DEF Next

(* Inv holds in every reachable state.                                     *)
THEOREM Invariance == Spec => []Inv
<1>1. Init => Inv
    BY InitInv
<1>2. Inv /\ [Next]_vars => Inv'
    BY NextPreserves
<1>3. QED
    BY <1>1, <1>2, PTL DEF Spec

-----------------------------------------------------------------------------
(* What follows from it.                                                   *)

(* Every variable keeps its type.                                          *)
THEOREM TypeCorrect == Spec => []TypeOK
<1>1. Inv => TypeOK
    BY DEF Inv
<1>2. QED
    BY <1>1, Invariance, PTL

(* No interleaving of transfers, crashes and lost connections overdraws a  *)
(* wallet by what it sends, although transfer() checks a balance that may  *)
(* have changed: only the receipt of a negative amount can.                *)
THEOREM OverdraftsExplained == Spec => []OverdrawnOnlyByNegative
<1>1. Inv => OverdrawnOnlyByNegative
    BY DEF Inv
<1>2. QED
    BY <1>1, Invariance, PTL

(* A transfer is in the ledger with both its rows or not at all.           *)
THEOREM AlwaysDoubleEntry == Spec => []DoubleEntry
<1>1. Inv => DoubleEntry
    BY DEF Inv
<1>2. QED
    BY <1>1, Invariance, PTL

(* An idempotency key moves money at most once, retries, crashes and lost  *)
(* commit replies included.                                                *)
THEOREM AtMostOneTransferPerKey == Spec => []OneTransferPerKey
<1>1. Inv => OneTransferPerKey
    BY DEF Inv
<1>2. QED
    BY <1>1, Invariance, PTL

(* A request that is not in its database transaction holds no row lock and *)
(* no index entry, so nobody waits for a request that has ended.           *)
THEOREM EndedHoldNothing == Spec => []NothingHeldByTheEnded
<1>1. Inv => NothingHeldByTheEnded
    BY DEF Inv, NothingHeldByTheEnded, RowsInserted, LocksHeld, Debited,
           BothLocked, InTransaction
<1>2. QED
    BY <1>1, Invariance, PTL

-----------------------------------------------------------------------------
(* Deactivated wallets.                                                    *)

(* What a request remembers of the activity of its wallets is true of the  *)
(* wallets that have been inactive since it began.                         *)
FrozenInv ==
    \A r \in Requests :
        /\ \A w \in frozen[r] : ~active[w]
        /\ pc[r] = "destination" /\ sourceActive[r] => call[r].from \notin frozen[r]
        /\ pc[r] \in {"balance", "emit", "done"} \union InTransaction
               => call[r].from \notin frozen[r] /\ call[r].to \notin frozen[r]

(* What a request reads of a frozen wallet is that it is inactive.         *)
LEMMA ReadsKeepFrozenInv ==
    ASSUME TypeOK, FrozenInv, NEW r \in Requests,
           ReadSource(r) \/ ReadDestination(r)
    PROVE  FrozenInv'
<1> USE DEF TypeOK, Goto
<1>1. call[r] \in Call
    BY CallTyped
<1>2. CASE ReadSource(r)
    <2>1. CASE call[r].from = NoWallet
        BY <1>2, <2>1 DEF ReadSource, FrozenInv, InTransaction
    <2>2. CASE call[r].from # NoWallet
        <3>1. call[r].from \in Wallets
            BY <1>1, <2>2 DEF Call
        <3>2. QED
            BY <1>2, <2>2, <3>1 DEF ReadSource, FrozenInv, InTransaction
    <2>3. QED
        BY <2>1, <2>2
<1>3. CASE ReadDestination(r)
    <2>1. CASE call[r].to = NoUser
        BY <1>3, <2>1 DEF ReadDestination, FrozenInv, InTransaction
    <2>2. CASE call[r].to # NoUser
        <3>1. PICK w \in FoundById(call[r].to) :
                  /\ call' = [call EXCEPT ![r].to = w]
                  /\ pc' = [pc EXCEPT ![r] = IF sourceActive[r] /\ active[w]
                                             THEN "balance" ELSE "rejected"]
            BY <1>3, <2>2 DEF ReadDestination
        <3>2. /\ call'[r].from = call[r].from /\ call'[r].to = w
              /\ \A q \in Requests \ {r} : call'[q] = call[q]
            BY <1>1, <3>1 DEF Call
        <3>3. /\ pc'[r] \in {"balance", "rejected"}
              /\ pc'[r] = "balance" => sourceActive[r] /\ active[w]
              /\ \A q \in Requests \ {r} : pc'[q] = pc[q]
            BY <3>1
        <3>4. pc[r] = "destination" /\ UNCHANGED <<active, sourceActive, frozen>>
            BY <1>3 DEF ReadDestination
        <3>5. SUFFICES ASSUME NEW q \in Requests
                       PROVE  /\ \A v \in frozen[q] : ~active[v]
                              /\ pc'[q] = "destination" /\ sourceActive[q]
                                     => call'[q].from \notin frozen[q]
                              /\ pc'[q] \in {"balance", "emit", "done"} \union InTransaction
                                     => call'[q].from \notin frozen[q] /\ call'[q].to \notin frozen[q]
            BY <3>4 DEF FrozenInv
        <3>6. CASE q = r
            BY <3>2, <3>3, <3>4, <3>6 DEF FrozenInv, InTransaction
        <3>7. CASE q # r
            BY <3>2, <3>3, <3>7 DEF FrozenInv
        <3>8. QED
            BY <3>6, <3>7
    <2>3. QED
        BY <2>1, <2>2
<1>4. QED
    BY <1>2, <1>3

(* A step of r that leaves activity alone and goes on from where r was     *)
(* past the check, or ends the request without an answer.                  *)
LEMMA OthersKeepFrozenInv ==
    ASSUME TypeOK, FrozenInv, UNCHANGED <<active, call, sourceActive, frozen>>,
           \A q \in Requests :
               \/ pc'[q] \in {pc[q], "rejected", "failed", "lost"}
               \/ /\ pc[q] \in {"balance", "emit"} \union InTransaction
                  /\ pc'[q] # "destination"
    PROVE  FrozenInv'
BY DEF TypeOK, FrozenInv, InTransaction

LEMMA FrozenInvPreserved == TypeOK /\ FrozenInv /\ [Next]_vars => FrozenInv'
<1> SUFFICES ASSUME TypeOK, FrozenInv, [Next]_vars PROVE FrozenInv'
    OBVIOUS
<1> DEFINE Quiet ==
        /\ UNCHANGED <<active, call, sourceActive, frozen>>
        /\ \A q \in Requests :
               \/ pc'[q] \in {pc[q], "rejected", "failed", "lost"}
               \/ /\ pc[q] \in {"balance", "emit"} \union InTransaction
                  /\ pc'[q] # "destination"
<1>1. Quiet => FrozenInv'
    BY OthersKeepFrozenInv
<1>2. ASSUME NEW r \in Requests, RollBack(r),
             UNCHANGED <<active, call, sourceActive, frozen>>
      PROVE  Quiet
    BY <1>2 DEF RollBack, Goto, TypeOK
<1>3. ASSUME NEW r \in Requests, DeadlockVictim(r) \/ ConnectionLost(r)
      PROVE  Quiet
    BY <1>2, <1>3 DEF DeadlockVictim, ConnectionLost
<1>4. ASSUME NEW r \in Requests, Serve(r) PROVE FrozenInv'
    <2>1. CASE ReadDestination(r)
        BY <2>1, ReadsKeepFrozenInv
    <2>2. CASE CheckBalance(r) \/ CreditDestination(r) \/ Commit(r) \/ Emit(r)
        BY <1>1, <2>2
        DEF CheckBalance, CreditDestination, Commit, Emit, Goto, TypeOK,
            InTransaction
    <2>3. CASE InsertDebit(r) \/ InsertCredit(r) \/ DebitSource(r) \/ InsertTransfer(r)
        <3>1. UNCHANGED <<active, call, sourceActive, frozen>>
            BY <2>3 DEF InsertDebit, InsertCredit, DebitSource, InsertTransfer
        <3>2. CASE RollBack(r)
            BY <1>1, <1>2, <3>1, <3>2
        <3>3. CASE ~RollBack(r)
            BY <1>1, <2>3, <3>1, <3>3
            DEF InsertDebit, InsertCredit, DebitSource, InsertTransfer,
                InsertRow, Goto, TypeOK, InTransaction
        <3>4. QED
            BY <3>2, <3>3
    <2>4. QED
        BY <1>4, <2>1, <2>2, <2>3 DEF Serve
<1>5. CASE Crash \/ UNCHANGED vars
    BY <1>1, <1>5 DEF Crash, vars
<1>6. CASE \E w \in Switchable : ActivateWallet(w) \/ DeactivateWallet(w)
    BY <1>6, SwitchableAssumption
    DEF ActivateWallet, DeactivateWallet, FrozenInv, TypeOK
<1>7. QED
    BY <1>1, <1>3, <1>4, <1>5, <1>6, ReadsKeepFrozenInv DEF Next

(* A call received while one of its wallets is inactive moves no money     *)
(* unless that wallet is activated again meanwhile.                        *)
THEOREM DeactivationHolds == Spec => []FrozenWalletsDoNotMove
<1>1. Init => FrozenInv
    BY DEF Init, FrozenInv, InTransaction
<1>2. TypeOK /\ FrozenInv /\ [Next]_vars => FrozenInv'
    BY FrozenInvPreserved
<1>3. FrozenInv => FrozenWalletsDoNotMove
    BY DEF FrozenInv, FrozenWalletsDoNotMove
<1>4. QED
    BY <1>1, <1>2, <1>3, TypeCorrect, PTL DEF Spec

-----------------------------------------------------------------------------
(* The table of transfers.                                                 *)

Answered == {"emit", "done"}
Broken == {"failed", "lost"}

(* Only a commit adds to the table, or lets a request be answered.         *)
LEMMA OnlyCommitTransfers ==
    ASSUME TypeOK, [Next]_vars
    PROVE  \/ \E r \in Requests : Commit(r)
           \/ /\ UNCHANGED transfers
              /\ \A q \in Requests : pc[q] \in Answered => call'[q] = call[q]
              /\ \A q \in Requests :
                     \/ pc'[q] = pc[q]
                     \/ pc'[q] \in Broken
                     \/ pc[q] = "emit" /\ pc'[q] = "done"
                     \/ pc[q] \notin Answered \union Broken /\ pc'[q] \notin Answered
<1> DEFINE Quiet ==
        /\ UNCHANGED transfers
        /\ \A q \in Requests : pc[q] \in Answered => call'[q] = call[q]
        /\ \A q \in Requests :
               \/ pc'[q] = pc[q]
               \/ pc'[q] \in Broken
               \/ pc[q] = "emit" /\ pc'[q] = "done"
               \/ pc[q] \notin Answered \union Broken /\ pc'[q] \notin Answered
<1> USE DEF Answered, Broken
<1>1. ASSUME NEW r \in Requests, RollBack(r), UNCHANGED call PROVE Quiet
    BY <1>1 DEF RollBack, Goto, TypeOK, tables
<1>2. ASSUME NEW r \in Requests, DeadlockVictim(r) \/ ConnectionLost(r) PROVE Quiet
    BY <1>1, <1>2 DEF DeadlockVictim, ConnectionLost
<1>3. ASSUME NEW r \in Requests, ReadSource(r) \/ ReadDestination(r) PROVE Quiet
    <2>1. CASE ReadSource(r)
        BY <2>1 DEF ReadSource, Goto, TypeOK, tables
    <2>2. CASE ReadDestination(r)
        <3>1. /\ pc[r] = "destination" /\ UNCHANGED transfers
              /\ \E place \in {"balance", "rejected"} : pc' = [pc EXCEPT ![r] = place]
              /\ \A q \in Requests \ {r} : call'[q] = call[q]
            BY <2>2 DEF ReadDestination, Goto, TypeOK, tables
        <3>2. QED
            BY <3>1 DEF TypeOK
    <2>3. QED
        BY <1>3, <2>1, <2>2
<1>4. ASSUME NEW r \in Requests, CheckBalance(r) \/ CreditDestination(r) \/ Emit(r)
      PROVE  Quiet
    BY <1>4 DEF CheckBalance, CreditDestination, Emit, Goto, TypeOK, tables
<1>5. ASSUME NEW r \in Requests, InsertDebit(r) \/ InsertCredit(r) PROVE Quiet
    <2>1. UNCHANGED call
        BY <1>5 DEF InsertDebit, InsertCredit
    <2>2. CASE RollBack(r)
        BY <1>1, <2>1, <2>2
    <2>3. CASE ~RollBack(r)
        BY <1>5, <2>3
        DEF InsertDebit, InsertCredit, InsertRow, Goto, TypeOK, tables
    <2>4. QED
        BY <2>2, <2>3
<1>6. ASSUME NEW r \in Requests, DebitSource(r) \/ InsertTransfer(r) PROVE Quiet
    <2>1. UNCHANGED call
        BY <1>6 DEF DebitSource, InsertTransfer
    <2>2. CASE RollBack(r)
        BY <1>1, <2>1, <2>2
    <2>3. CASE ~RollBack(r)
        BY <1>6, <2>3 DEF DebitSource, InsertTransfer, Goto, TypeOK, tables
    <2>4. QED
        BY <2>2, <2>3
<1>7. CASE Crash \/ UNCHANGED vars
    BY <1>7 DEF Crash, vars, TypeOK, tables
<1>8. CASE \E w \in Switchable : ActivateWallet(w) \/ DeactivateWallet(w)
    BY <1>8 DEF ActivateWallet, DeactivateWallet, tables
<1>9. QED
    BY <1>2, <1>3, <1>4, <1>5, <1>6, <1>7, <1>8 DEF Next, Serve

(* A transfer is between two wallets, and a request has a row in the table *)
(* once it may answer, and none before its commit.                         *)
TransfersInv ==
    /\ \A t \in transfers : t.from # t.to
    /\ \A r \in Requests :
           /\ pc[r] \in Answered => TransferRow(r) \in transfers
           /\ pc[r] \notin Answered \union Broken => \A t \in transfers : t.by # r

LEMMA TransfersInvPreserved == Inv /\ TransfersInv /\ [Next]_vars => TransfersInv'
<1> SUFFICES ASSUME Inv, TransfersInv, [Next]_vars PROVE TransfersInv'
    OBVIOUS
<1> USE DEF TransfersInv, TransferRow
<1>1. TypeOK
    BY DEF Inv
<1>2. ASSUME NEW r \in Requests, Commit(r) PROVE TransfersInv'
    <2>1. /\ transfers' = transfers \union {TransferRow(r)}
          /\ call' = call /\ pc[r] = "commit"
          /\ pc' = [pc EXCEPT ![r] = pc'[r]] /\ pc'[r] \in {"emit", "failed"}
        BY <1>1, <1>2 DEF Commit, Goto, TypeOK
    <2>2. call[r].from # call[r].to
        BY <2>1 DEF Inv, RowsInserted, BothInserted
    <2>3. TransferRow(r)' \in transfers'
        BY <2>1
    <2>4. QED
        BY <1>1, <2>1, <2>2, <2>3 DEF TypeOK, Answered, Broken
<1>3. CASE ~\E r \in Requests : Commit(r)
    BY <1>1, <1>3, OnlyCommitTransfers DEF Answered, Broken
<1>4. QED
    BY <1>2, <1>3

(* TransfersInv holds in every reachable state.                            *)
LEMMA TransfersInvariance == Spec => []TransfersInv
<1>1. Init => TransfersInv
    BY DEF Init, TransfersInv, Answered
<1>2. Inv /\ TransfersInv /\ [Next]_vars => TransfersInv'
    BY TransfersInvPreserved
<1>3. QED
    BY <1>1, <1>2, Invariance, PTL DEF Spec

(* A call that answered with a transfer has made it; one that was refused  *)
(* before its database transaction has made none.                          *)
THEOREM AnswersAreTrue == Spec => []AnswerIsTrue
<1>1. TransfersInv => AnswerIsTrue
    BY DEF TransfersInv, AnswerIsTrue, Answered, Broken
<1>2. QED
    BY <1>1, TransfersInvariance, PTL

(* A user's history names the right wallet on the other side of every      *)
(* transfer, although it looks for it by the idempotency key alone.        *)
THEOREM HistoryIsRight == Spec => []HistoryNamesCounterpart
<1>1. Inv /\ TransfersInv => HistoryNamesCounterpart
    <2> SUFFICES ASSUME Inv, TransfersInv, NEW t \in transfers
                 PROVE  /\ Counterparts(Row(t.from, t.key, "DEBIT", t.amount))
                               = {Row(t.to, t.key, "CREDIT", t.amount)}
                        /\ Counterparts(Row(t.to, t.key, "CREDIT", t.amount))
                               = {Row(t.from, t.key, "DEBIT", t.amount)}
        BY DEF HistoryNamesCounterpart
    <2> DEFINE debit == Row(t.from, t.key, "DEBIT", t.amount)
               credit == Row(t.to, t.key, "CREDIT", t.amount)
    <2>1. debit \in book /\ credit \in book /\ t.from # t.to
        BY DEF Inv, DoubleEntry, TransfersInv
    <2>2. \A f \in book : f.key = t.key => f \in {debit, credit}
        <3> SUFFICES ASSUME NEW f \in book, f.key = t.key PROVE f \in {debit, credit}
            OBVIOUS
        <3>1. PICK s \in transfers : f \in {Row(s.from, s.key, "DEBIT", s.amount),
                                            Row(s.to, s.key, "CREDIT", s.amount)}
            BY DEF Inv, DoubleEntry
        <3>2. s = t
            BY <3>1 DEF Inv, OneTransferPerKey, Row
        <3>3. QED
            BY <3>1, <3>2
    <2>3. /\ debit.wallet = t.from /\ debit.key = t.key
          /\ credit.wallet = t.to /\ credit.key = t.key
        BY DEF Row
    <2> HIDE DEF debit, credit
    <2>4. Counterparts(debit) = {credit} /\ Counterparts(credit) = {debit}
        BY <2>1, <2>2, <2>3 DEF Counterparts
    <2>5. QED
        BY <2>4 DEF debit, credit
<1>2. QED
    BY <1>1, Invariance, TransfersInvariance, PTL

-----------------------------------------------------------------------------
(* Transfer implements Ledger.                                             *)

(* COMMIT is the ledger's Move: the open rows are new to the index.        *)
LEMMA CommitIsMove ==
    ASSUME Inv, NEW r \in Requests, Commit(r)
    PROVE  Abstract!Next
<1> USE DEF Inv
<1>1. pc[r] = "commit" /\ open[r] = {Debit(r), Credit(r)}
    BY DEF Commit, RowsInserted, BothInserted
<1>2. /\ call[r].from \in Wallets /\ call[r].to \in Wallets
      /\ call[r].from # call[r].to
      /\ balance[call[r].from] >= call[r].amount
    BY <1>1 DEF WalletsFound, RowsInserted, BothInserted, Debited, Covered,
                InTransaction
<1>3. call[r].amount \in Amounts /\ call[r].key \in Keys
    BY CallTyped
<1>4. \A e \in {Debit(r), Credit(r)}, f \in book : ~SameIndexEntry(f, e)
    BY <1>1 DEF IndexUnique, SameIndexEntry
<1>5. Abstract!Unused(call[r].from, call[r].key)
    BY <1>4 DEF Abstract!Unused, SameIndexEntry, Debit, Row
<1>6. Abstract!Unused(call[r].to, call[r].key)
    BY <1>4 DEF Abstract!Unused, SameIndexEntry, Credit, Row
<1>7. Abstract!Move(call[r].from, call[r].to, call[r].key, call[r].amount)
    BY <1>1, <1>2, <1>5, <1>6
    DEF Commit, Abstract!Move, Abstract!Row, Debit, Credit, Row
<1>8. QED
    BY <1>2, <1>3, <1>7 DEF Abstract!Next

(* Every other step leaves the ledger alone.                               *)
LEMMA StepImplements == Inv /\ [Next]_vars => [Abstract!Next]_(Abstract!ledger)
<1> SUFFICES ASSUME Inv, [Next]_vars
             PROVE  Abstract!Next \/ UNCHANGED <<book, balance>>
    BY DEF Abstract!ledger
<1> USE DEF tables
<1>1. ASSUME NEW r \in Requests, RollBack(r) PROVE UNCHANGED <<book, balance>>
    BY <1>1 DEF RollBack
<1>2. ASSUME NEW r \in Requests, ReadSource(r) \/ DeadlockVictim(r) \/ ConnectionLost(r)
      PROVE  UNCHANGED <<book, balance>>
    BY <1>1, <1>2 DEF ReadSource, DeadlockVictim, ConnectionLost
<1>3. ASSUME NEW r \in Requests, Serve(r)
      PROVE  Abstract!Next \/ UNCHANGED <<book, balance>>
    <2>1. CASE Commit(r)
        BY <2>1, CommitIsMove
    <2>2. CASE ReadDestination(r) \/ CheckBalance(r) \/ CreditDestination(r) \/ Emit(r)
        BY <2>2 DEF ReadDestination, CheckBalance, CreditDestination, Emit
    <2>3. CASE InsertDebit(r) \/ InsertCredit(r)
        BY <2>3, <1>1 DEF InsertDebit, InsertCredit, InsertRow
    <2>4. CASE DebitSource(r) \/ InsertTransfer(r)
        BY <2>4, <1>1 DEF DebitSource, InsertTransfer
    <2>5. QED
        BY <1>3, <2>1, <2>2, <2>3, <2>4 DEF Serve
<1>4. CASE Crash \/ UNCHANGED vars
    BY <1>4 DEF Crash, vars
<1>5. CASE \E w \in Switchable : ActivateWallet(w) \/ DeactivateWallet(w)
    BY <1>5 DEF ActivateWallet, DeactivateWallet
<1>6. QED
    BY <1>2, <1>3, <1>4, <1>5 DEF Next

(* The steps of all requests together post to the tables as Ledger does:   *)
(* atomically, covered by the balance, once per wallet and key.            *)
THEOREM Refinement == Spec => ImplementsLedger
<1>1. Init => Abstract!Init
    BY DEF Init, Abstract!Init
<1>2. Inv /\ [Next]_vars => [Abstract!Next]_(Abstract!ledger)
    BY StepImplements
<1>3. QED
    BY <1>1, <1>2, Invariance, PTL DEF Spec, ImplementsLedger, Abstract!Spec
-----------------------------------------------------------------------------
(* Balances and rows.                                                      *)

(* The ledger's total is the sum that Sums is about.                       *)
LEMMA TotalIsSum ==
    ASSUME NEW rows
    PROVE  Abstract!Total(rows) = SumFunctionOnSet([e \in rows |-> e.amount], rows)
BY DEF Abstract!Total,
       Abstract!SumFunctionOnSet, Abstract!FoldFunctionOnSet, Abstract!MapThenFoldSet,
       SumFunctionOnSet, FoldFunctionOnSet, MapThenFoldSet

(* One more row adds its amount to a total.                                *)
LEMMA TotalAdds ==
    ASSUME NEW rows, IsFiniteSet(rows), NEW e, e \notin rows,
           \A f \in rows \union {e} : f.amount \in Int
    PROVE  Abstract!Total(rows \union {e}) = Abstract!Total(rows) + e.amount
<1> DEFINE more == rows \union {e}
           w == [f \in more |-> f.amount]
           v == [f \in rows |-> f.amount]
<1>1. \A f \in more : w[f] \in Int /\ w[f] = f.amount
    OBVIOUS
<1>2. \A f \in rows : w[f] = v[f]
    OBVIOUS
<1> HIDE DEF w, v
<1>3. SumFunctionOnSet(w, rows \union {e}) = SumFunctionOnSet(w, rows) + w[e]
    BY <1>1, SumAdd
<1>4. SumFunctionOnSet(w, rows) = SumFunctionOnSet(v, rows)
    BY <1>2, SumAgrees
<1>5. w[e] = e.amount
    BY <1>1
<1>6. QED
    BY <1>3, <1>4, <1>5, TotalIsSum DEF w, v

(* A total of integers is one.                                             *)
LEMMA TotalInt ==
    ASSUME NEW rows, IsFiniteSet(rows), \A f \in rows : f.amount \in Int
    PROVE  Abstract!Total(rows) \in Int
<1> DEFINE v == [f \in rows |-> f.amount]
<1>1. \A f \in rows : v[f] \in Int
    OBVIOUS
<1> HIDE DEF v
<1>2. SumFunctionOnSet(v, rows) \in Int
    BY <1>1, SumInt
<1>3. QED
    BY <1>2, TotalIsSum DEF v

(* What the rows of type t that b has for a wallet add up to.              *)
Posted(b, w, t) == Abstract!Total({e \in b : e.wallet = w /\ e.type = t})

(* Finitely many rows with an amount.                                      *)
Rows(b) == IsFiniteSet(b) /\ \A e \in b : e.amount \in Int

(* A new row adds its amount to the total of its wallet and type, and to   *)
(* no other.                                                               *)
LEMMA RowAdds ==
    ASSUME NEW b, Rows(b), NEW e, e \notin b, e.amount \in Int
    PROVE  /\ Rows(b \union {e})
           /\ \A w, t :
                  /\ Posted(b, w, t) \in Int
                  /\ Posted(b \union {e}, w, t) =
                         IF e.wallet = w /\ e.type = t THEN Posted(b, w, t) + e.amount
                         ELSE Posted(b, w, t)
<1>1. Rows(b \union {e})
    BY FS_AddElement DEF Rows
<1> SUFFICES ASSUME NEW w, NEW t
             PROVE  /\ Posted(b, w, t) \in Int
                    /\ Posted(b \union {e}, w, t) =
                           IF e.wallet = w /\ e.type = t THEN Posted(b, w, t) + e.amount
                           ELSE Posted(b, w, t)
    BY <1>1
<1> DEFINE rows == {f \in b : f.wallet = w /\ f.type = t}
           more == {f \in b \union {e} : f.wallet = w /\ f.type = t}
<1>2. rows \subseteq b /\ \A f \in b : f.amount \in Int
    BY DEF Rows
<1>3. IsFiniteSet(rows)
    BY <1>2, FS_Subset DEF Rows
<1>4. more = IF e.wallet = w /\ e.type = t THEN rows \union {e} ELSE rows
    OBVIOUS
<1>5. Posted(b, w, t) = Abstract!Total(rows) /\ Posted(b \union {e}, w, t) = Abstract!Total(more)
    BY DEF Posted
<1>6. e \notin rows /\ \A f \in rows \union {e} : f.amount \in Int
    BY <1>2
<1> HIDE DEF rows, more
<1>7. Abstract!Total(rows) \in Int
    BY <1>3, <1>6, TotalInt
<1>8. Abstract!Total(rows \union {e}) = Abstract!Total(rows) + e.amount
    BY <1>3, <1>6, TotalAdds
<1>9. QED
    BY <1>1, <1>4, <1>5, <1>7, <1>8

(* The stored balances are the opening ones and what the rows add up to,   *)
(* of which there are finitely many.                                       *)
HistoryInv == IsFiniteSet(book) /\ BalanceIsHistory

(* The same of any table of rows and balances.                             *)
Tallies(b, bal) ==
    \A w \in Wallets : bal[w] = Opening[w] + Posted(b, w, "CREDIT") - Posted(b, w, "DEBIT")

(* Balances before and after a row was posted.                             *)
AddsTo(e, bal, new) ==
    \A w \in Wallets : new[w] = IF e.wallet = w THEN bal[w] + e.amount ELSE bal[w]
TakesFrom(e, bal, new) ==
    \A w \in Wallets : new[w] = IF e.wallet = w THEN bal[w] - e.amount ELSE bal[w]

(* Balances with one of them reduced.                                      *)
LEMMA Reduced ==
    ASSUME NEW bal \in [Wallets -> Int], NEW x \in Int, NEW w
    PROVE  \E new \in [Wallets -> Int] :
               \A u \in Wallets : new[u] = IF w = u THEN bal[u] - x ELSE bal[u]
<1> DEFINE new == [u \in Wallets |-> IF w = u THEN bal[u] - x ELSE bal[u]]
<1>1. new \in [Wallets -> Int] /\ \A u \in Wallets : new[u] = IF w = u THEN bal[u] - x ELSE bal[u]
    OBVIOUS
<1>2. QED
    BY <1>1

(* Wallets open with integers.                                            *)
LEMMA OpeningInt == \A w \in Wallets : Opening[w] \in Int
BY OpeningAssumption

(* A posted credit keeps them together.                                    *)
LEMMA CreditTallies ==
    ASSUME NEW b, Rows(b), NEW e, e \notin b, e.amount \in Int
    PROVE  \A bal \in [Wallets -> Int] : \A new :
               e.type = "CREDIT" /\ Tallies(b, bal) /\ AddsTo(e, bal, new) => Tallies(b \union {e}, new)
<1>1. \A w, t : /\ Posted(b, w, t) \in Int
                /\ Posted(b \union {e}, w, t) =
                       IF e.wallet = w /\ e.type = t THEN Posted(b, w, t) + e.amount
                       ELSE Posted(b, w, t)
    BY RowAdds
<1> SUFFICES ASSUME NEW bal \in [Wallets -> Int], NEW new, e.type = "CREDIT",
                    Tallies(b, bal), AddsTo(e, bal, new)
             PROVE  Tallies(b \union {e}, new)
    OBVIOUS
<1> SUFFICES ASSUME NEW w \in Wallets
             PROVE  new[w] = Opening[w] + Posted(b \union {e}, w, "CREDIT")
                                        - Posted(b \union {e}, w, "DEBIT")
    BY Zenon DEF Tallies
<1>2. PICK x, c, d, o, m : /\ c = Posted(b, w, "CREDIT") /\ d = Posted(b, w, "DEBIT")
                           /\ o = Opening[w] /\ m = bal[w] /\ x = e.amount
    OBVIOUS
<1>3. c \in Int /\ d \in Int /\ o \in Int /\ x \in Int
    BY <1>1, <1>2, OpeningInt
<1>4. m = o + c - d
    BY <1>2 DEF Tallies
<1>5. Posted(b \union {e}, w, "DEBIT") = d
    <2>1. e.type # "DEBIT"
        OBVIOUS
    <2>2. QED
        BY <1>1, <1>2, <2>1, Zenon
<1>6. CASE e.wallet = w
    <2>1. Posted(b \union {e}, w, "CREDIT") = c + x
        BY <1>1, <1>2, <1>6, Zenon
    <2>2. new[w] = m + x
        BY <1>2, <1>6, Zenon DEF AddsTo
    <2>3. QED
        BY <1>2, <1>3, <1>4, <1>5, <2>1, <2>2
<1>7. CASE e.wallet # w
    <2>1. Posted(b \union {e}, w, "CREDIT") = c
        BY <1>1, <1>2, <1>7, Zenon
    <2>2. new[w] = m
        BY <1>2, <1>7, Zenon DEF AddsTo
    <2>3. QED
        BY <1>2, <1>3, <1>4, <1>5, <2>1, <2>2
<1>8. QED
    BY <1>6, <1>7

(* So does a posted debit.                                                 *)
LEMMA DebitTallies ==
    ASSUME NEW b, Rows(b), NEW e, e \notin b, e.amount \in Int
    PROVE  \A bal \in [Wallets -> Int] : \A new :
               e.type = "DEBIT" /\ Tallies(b, bal) /\ TakesFrom(e, bal, new) => Tallies(b \union {e}, new)
<1>1. \A w, t : /\ Posted(b, w, t) \in Int
                /\ Posted(b \union {e}, w, t) =
                       IF e.wallet = w /\ e.type = t THEN Posted(b, w, t) + e.amount
                       ELSE Posted(b, w, t)
    BY RowAdds
<1> SUFFICES ASSUME NEW bal \in [Wallets -> Int], NEW new, e.type = "DEBIT",
                    Tallies(b, bal), TakesFrom(e, bal, new)
             PROVE  Tallies(b \union {e}, new)
    OBVIOUS
<1> SUFFICES ASSUME NEW w \in Wallets
             PROVE  new[w] = Opening[w] + Posted(b \union {e}, w, "CREDIT")
                                        - Posted(b \union {e}, w, "DEBIT")
    BY Zenon DEF Tallies
<1>2. PICK x, c, d, o, m : /\ c = Posted(b, w, "CREDIT") /\ d = Posted(b, w, "DEBIT")
                           /\ o = Opening[w] /\ m = bal[w] /\ x = e.amount
    OBVIOUS
<1>3. c \in Int /\ d \in Int /\ o \in Int /\ x \in Int
    BY <1>1, <1>2, OpeningInt
<1>4. m = o + c - d
    BY <1>2 DEF Tallies
<1>5. Posted(b \union {e}, w, "CREDIT") = c
    <2>1. e.type # "CREDIT"
        OBVIOUS
    <2>2. QED
        BY <1>1, <1>2, <2>1, Zenon
<1>6. CASE e.wallet = w
    <2>1. Posted(b \union {e}, w, "DEBIT") = d + x
        BY <1>1, <1>2, <1>6, Zenon
    <2>2. new[w] = m - x
        BY <1>2, <1>6, Zenon DEF TakesFrom
    <2>3. QED
        BY <1>2, <1>3, <1>4, <1>5, <2>1, <2>2
<1>7. CASE e.wallet # w
    <2>1. Posted(b \union {e}, w, "DEBIT") = d
        BY <1>1, <1>2, <1>7, Zenon
    <2>2. new[w] = m
        BY <1>2, <1>7, Zenon DEF TakesFrom
    <2>3. QED
        BY <1>2, <1>3, <1>4, <1>5, <2>1, <2>2
<1>8. QED
    BY <1>6, <1>7

(* Every step of the ledger keeps them together: one row is added, or two. *)
LEMMA LedgerKeepsHistory ==
    ASSUME TypeOK, HistoryInv, Abstract!Next
    PROVE  HistoryInv'
<1>1. PICK k \in Keys, a \in Amounts, w \in Wallets :
          \/ Abstract!Deposit(w, k, a)
          \/ Abstract!Withdraw(w, k, a)
          \/ \E v \in Wallets : Abstract!Move(w, v, k, a)
    BY DEF Abstract!Next
<1>2. a \in Int
    BY AmountsAssumption
<1>3. Rows(book) /\ balance \in [Wallets -> Int]
    <2>1. book \subseteq [wallet: Wallets, key: Keys, type: {"CREDIT", "DEBIT"}, amount: Amounts]
        BY DEF TypeOK
    <2>2. \A e \in book : e.amount \in Int
        <3>1. Amounts \subseteq Int
            BY AmountsAssumption
        <3>2. QED
            BY <2>1, <3>1
    <2>3. IsFiniteSet(book)
        BY DEF HistoryInv
    <2>4. balance \in [Wallets -> Int]
        BY DEF TypeOK
    <2>5. QED
        BY <2>2, <2>3, <2>4 DEF Rows
<1>4. Tallies(book, balance)
    BY DEF HistoryInv, BalanceIsHistory, Abstract!BalanceIsHistory, Abstract!RowsOf, Tallies, Posted
<1>5. Rows(book') /\ Tallies(book', balance')
    <2>1. ASSUME Abstract!Deposit(w, k, a)
          PROVE  Rows(book') /\ Tallies(book', balance')
        <3>1. PICK e : e = Row(w, k, "CREDIT", a)
            OBVIOUS
        <3>2. e.wallet = w /\ e.type = "CREDIT" /\ e.amount = a /\ e \notin book
            BY <2>1, <3>1 DEF Abstract!Deposit, Abstract!Unused, Row
        <3>3. book' = book \union {e}
            BY <2>1, <3>1 DEF Abstract!Deposit, Abstract!Row, Row
        <3>4. \A u \in Wallets : balance'[u] = IF e.wallet = u THEN balance[u] + a ELSE balance[u]
            BY <1>3, <2>1, <3>2 DEF Abstract!Deposit
        <3>5. Tallies(book \union {e}, balance')
            BY <1>2, <1>3, <1>4, <3>2, <3>4, CreditTallies DEF AddsTo
        <3>6. QED
            BY <1>2, <1>3, <3>2, <3>3, <3>5, RowAdds
    <2>2. ASSUME Abstract!Withdraw(w, k, a)
          PROVE  Rows(book') /\ Tallies(book', balance')
        <3>1. PICK e : e = Row(w, k, "DEBIT", a)
            OBVIOUS
        <3>2. e.wallet = w /\ e.type = "DEBIT" /\ e.amount = a /\ e \notin book
            BY <2>2, <3>1 DEF Abstract!Withdraw, Abstract!Unused, Row
        <3>3. book' = book \union {e}
            BY <2>2, <3>1 DEF Abstract!Withdraw, Abstract!Row, Row
        <3>4. \A u \in Wallets : balance'[u] = IF e.wallet = u THEN balance[u] - a ELSE balance[u]
            BY <1>3, <2>2, <3>2 DEF Abstract!Withdraw
        <3>5. Tallies(book \union {e}, balance')
            BY <1>2, <1>3, <1>4, <3>2, <3>4, DebitTallies DEF TakesFrom
        <3>6. QED
            BY <1>2, <1>3, <3>2, <3>3, <3>5, RowAdds
    <2>3. ASSUME NEW v \in Wallets, Abstract!Move(w, v, k, a)
          PROVE  Rows(book') /\ Tallies(book', balance')
        <3>1. PICK e, f : e = Row(w, k, "DEBIT", a) /\ f = Row(v, k, "CREDIT", a)
            OBVIOUS
        <3>2. /\ e.wallet = w /\ e.type = "DEBIT" /\ e.amount = a /\ e \notin book
              /\ f.wallet = v /\ f.type = "CREDIT" /\ f.amount = a /\ f \notin book
            BY <2>3, <3>1 DEF Abstract!Move, Abstract!Unused, Row
        <3>3. PICK b : b = book \union {e}
            OBVIOUS
        <3>4. PICK half \in [Wallets -> Int] :
                  \A u \in Wallets : half[u] = IF w = u THEN balance[u] - a ELSE balance[u]
            <4>1. balance \in [Wallets -> Int]
                BY <1>3
            <4>2. QED
                BY <1>2, <4>1, Reduced, Zenon
        <3>5. book' = b \union {f} /\ f \notin b
            BY <2>3, <3>1, <3>2, <3>3 DEF Abstract!Move, Abstract!Row, Row
        <3>6. \A u \in Wallets : balance'[u] = IF f.wallet = u THEN half[u] + a ELSE half[u]
            BY <1>2, <1>3, <2>3, <3>2, <3>4 DEF Abstract!Move
        <3>7. Rows(b)
            BY <1>2, <1>3, <3>2, <3>3, RowAdds
        <3>8. Tallies(b, half)
            BY <1>2, <1>3, <1>4, <3>2, <3>3, <3>4, DebitTallies DEF TakesFrom
        <3>9. Tallies(b \union {f}, balance')
            BY <1>2, <3>2, <3>5, <3>6, <3>7, <3>8, CreditTallies DEF AddsTo
        <3>10. QED
            BY <1>2, <3>2, <3>5, <3>7, <3>9, RowAdds
    <2>4. QED
        BY <1>1, <2>1, <2>2, <2>3
<1>6. BalanceIsHistory'
    BY <1>5 DEF BalanceIsHistory, Abstract!BalanceIsHistory, Abstract!RowsOf, Tallies, Posted
<1>7. QED
    BY <1>5, <1>6 DEF HistoryInv, Rows

(* The stored balance of every wallet is what its rows add up to, in every *)
(* state: "balances computed from transaction history".                    *)
THEOREM BalancesAreHistory == Spec => []BalanceIsHistory
<1>1. Init => HistoryInv
    <2> SUFFICES ASSUME Init PROVE HistoryInv
        OBVIOUS
    <2>1. IsFiniteSet(book)
        BY FS_EmptySet DEF Init
    <2>2. ASSUME NEW w \in Wallets, NEW t PROVE Abstract!Total(Abstract!RowsOf(w, t)) = 0
        <3>1. Abstract!RowsOf(w, t) = {}
            BY DEF Init, Abstract!RowsOf
        <3>2. QED
            BY <3>1, TotalIsSum, SumEmpty
    <2>3. \A w \in Wallets : Opening[w] + 0 - 0 = Opening[w]
        BY OpeningAssumption
    <2>4. QED
        BY <2>1, <2>2, <2>3 DEF HistoryInv, BalanceIsHistory, Abstract!BalanceIsHistory, Init
<1>2. Inv /\ HistoryInv /\ [Next]_vars => HistoryInv'
    <2> SUFFICES ASSUME Inv, HistoryInv, [Next]_vars PROVE HistoryInv'
        OBVIOUS
    <2>1. CASE Abstract!Next
        BY <2>1, LedgerKeepsHistory DEF Inv
    <2>2. CASE UNCHANGED <<book, balance>>
        BY <2>2 DEF HistoryInv, BalanceIsHistory, Abstract!BalanceIsHistory, Abstract!RowsOf
    <2>3. QED
        BY <2>1, <2>2, StepImplements DEF Abstract!ledger
<1>3. HistoryInv => BalanceIsHistory
    BY DEF HistoryInv
<1>4. QED
    BY <1>1, <1>2, <1>3, Invariance, PTL DEF Spec
=============================================================================
