------------------------------ MODULE Transfer ------------------------------
(***************************************************************************)
(* TransferService.transfer, one step per await, run by several requests   *)
(* at once over the Postgres tables it writes.  The reads that precede the *)
(* database transaction are separate steps and may be stale when used.     *)
(* Inside the transaction a row of `transactions` is inserted in two       *)
(* steps: the unique index entry is claimed, then the trigger of           *)
(* custom_triggers.sql takes the row lock on wallet_balances and moves the *)
(* balance.  Index entries and row locks are held until the transaction    *)
(* ends, other transactions wait for them, and Postgres aborts a           *)
(* transaction that is on a cycle of waits.                                *)
(*                                                                         *)
(* Sign-up gives a user one wallet in one currency, so a user and the      *)
(* user's wallet are one value here.  NoUser is a name that nobody has,    *)
(* NoWallet a user without a wallet in the currency of the transfer.       *)
(* Amounts are in naira, and whole: the column `amount` of `transactions`  *)
(* is an integer, and refuses others at the first INSERT.  They may be     *)
(* negative: TransferDto asks for a number and no more.                    *)
(***************************************************************************)
EXTENDS Integers, FiniteSets

CONSTANTS
    Wallets,        \* wallet identifiers
    NoWallet,       \* a user with no wallet in the currency
    NoUser,         \* a name that nobody has
    Keys,           \* idempotency keys
    Amounts,        \* amounts a transfer may ask for
    Opening,        \* the balance each wallet starts with
    Requests,       \* calls of transfer(), retries of a client included
    NoRequest,      \* the owner of a free lock
    Calls,          \* the arguments a call may have
    Switchable      \* bound: the wallets that get activated and deactivated

Call == [from: Wallets \union {NoWallet}, to: Wallets \union {NoWallet, NoUser},
         amount: Amounts, key: Keys]

ASSUME NoWalletAssumption == NoWallet \notin Wallets
ASSUME NoUserAssumption == NoUser \notin Wallets \union {NoWallet}
ASSUME NoRequestAssumption == NoRequest \notin Requests
ASSUME AmountsAssumption == Amounts \subseteq Int
ASSUME OpeningAssumption == Opening \in [Wallets -> Nat]
ASSUME CallsAssumption == Calls \subseteq Call
ASSUME SwitchableAssumption == Switchable \subseteq Wallets

VARIABLES
    active,         \* wallets.is_active
    book,           \* committed rows of `transactions`
    transfers,      \* committed rows of `transfers`
    balance,        \* committed wallet_balances.balance
    lock,           \* the transaction that holds each wallet_balances row
    open,           \* the rows each open transaction has inserted
    call,           \* the arguments of each request, `to` as it was found
    pc,             \* where each request is
    sourceActive,   \* sourceWallet.isActive as it was read
    frozen          \* history: wallets inactive ever since the request began

tables == <<book, transfers, balance>>
vars == <<active, book, transfers, balance, lock, open, call, pc,
          sourceActive, frozen>>

(* Where a request can be: not received, reading, inside the database     *)
(* transaction, about to emit the event, and its four ends.               *)
Reading == {"destination", "balance"}
InTransaction == {"insertDebit", "debitSource", "insertCredit",
                  "creditDestination", "insertTransfer", "commit"}
Ended == {"done", "rejected", "failed", "lost"}
Places == {"start", "emit"} \union Reading \union InTransaction \union Ended

Row(w, k, t, a) == [wallet |-> w, key |-> k, type |-> t, amount |-> a]
Debit(r) == Row(call[r].from, call[r].key, "DEBIT", call[r].amount)
Credit(r) == Row(call[r].to, call[r].key, "CREDIT", call[r].amount)
TransferRow(r) == [by |-> r, from |-> call[r].from, to |-> call[r].to,
                   amount |-> call[r].amount, key |-> call[r].key]

Init ==
    /\ active \in [Wallets -> BOOLEAN]
    /\ \A w \in Wallets \ Switchable : active[w]
    /\ book = {}
    /\ transfers = {}
    /\ balance = Opening
    /\ lock = [w \in Wallets |-> NoRequest]
    /\ open = [r \in Requests |-> {}]
    /\ call \in [Requests -> Calls]
    /\ pc = [r \in Requests |-> "start"]
    /\ sourceActive = [r \in Requests |-> FALSE]
    /\ frozen = [r \in Requests |-> {}]

Goto(r, place) == pc' = [pc EXCEPT ![r] = place]

-----------------------------------------------------------------------------
(* The reads before the database transaction.                              *)

(* The source user, and the wallet the user has in this currency.          *)
ReadSource(r) ==
    /\ pc[r] = "start"
    /\ frozen' = [frozen EXCEPT ![r] = {w \in Wallets : ~active[w]}]
    /\ IF call[r].from = NoWallet
       THEN Goto(r, "rejected") /\ UNCHANGED sourceActive
       ELSE /\ Goto(r, "destination")
            /\ sourceActive' = [sourceActive EXCEPT ![r] = active[call[r].from]]
    /\ UNCHANGED <<active, tables, lock, open, call>>

(* findWalletById: a condition on an undefined id is left out of the       *)
(* query, and some row of the table is returned.                           *)
FoundById(id) == IF id = NoWallet THEN Wallets ELSE {id}

(* Mutant of ReadDestination: only the destination's flag is looked at.    *)
MutantSourceFlagIgnored(r) ==
    /\ pc[r] = "destination"
    /\ \/ call[r].to = NoUser /\ Goto(r, "rejected") /\ UNCHANGED call
       \/ /\ call[r].to # NoUser
          /\ \E w \in FoundById(call[r].to) :
                 /\ call' = [call EXCEPT ![r].to = w]
                 /\ Goto(r, IF active[w] THEN "balance" ELSE "rejected")
    /\ UNCHANGED <<active, tables, lock, open, sourceActive, frozen>>

(* The destination user, whose wallet's id is not looked at as the         *)
(* source's is; the wallet found by it; then the check that both wallets   *)
(* are active, with what was read of the source a step ago.                *)
ReadDestination(r) ==
    /\ pc[r] = "destination"
    /\ \/ call[r].to = NoUser /\ Goto(r, "rejected") /\ UNCHANGED call
       \/ /\ call[r].to # NoUser
          /\ \E w \in FoundById(call[r].to) :
                 /\ call' = [call EXCEPT ![r].to = w]
                 /\ Goto(r, IF sourceActive[r] /\ active[w]
                            THEN "balance" ELSE "rejected")
    /\ UNCHANGED <<active, tables, lock, open, sourceActive, frozen>>

(* The balance, read from committed data without a lock.                   *)
CheckBalance(r) ==
    /\ pc[r] = "balance"
    /\ IF balance[call[r].from] < call[r].amount
       THEN Goto(r, "rejected")
       ELSE Goto(r, "insertDebit")
    /\ UNCHANGED <<active, tables, lock, open, call, sourceActive, frozen>>

-----------------------------------------------------------------------------
(* The database transaction.                                               *)

(* Another open transaction has inserted this pair of the unique index:    *)
(* the outcome of the insert is not known until that one ends.             *)
ClaimedBy(q, w, k) == \E e \in open[q] : e.wallet = w /\ e.key = k

Duplicate(r, w, k) == \E e \in book \union open[r] : e.wallet = w /\ e.key = k

(* Mutant of TransferPending: the key is looked up among committed rows    *)
(* only, as a SELECT before the INSERT would.                              *)
MutantPendingUnseen(q, k) == FALSE

(* An open transaction that has inserted its row of `transfers`.           *)
TransferPending(q, k) == pc[q] = "commit" /\ call[q].key = k

(* Mutant of LockFree: the trigger without FOR UPDATE.                     *)
MutantLockIgnored(r, w) == TRUE

LockFree(r, w) == lock[w] \in {NoRequest, r}

(* The transaction r cannot go on before q ends.                           *)
WaitsFor(r, q) ==
    /\ q # r
    /\ \/ pc[r] = "insertDebit" /\ ClaimedBy(q, call[r].from, call[r].key)
       \/ pc[r] = "debitSource" /\ lock[call[r].from] = q
       \/ pc[r] = "insertCredit" /\ ClaimedBy(q, call[r].to, call[r].key)
       \/ pc[r] = "creditDestination" /\ lock[call[r].to] = q
       \/ pc[r] = "insertTransfer" /\ TransferPending(q, call[r].key)

Blocked(r) == \E q \in Requests : WaitsFor(r, q)

Released(r) == [w \in Wallets |-> IF lock[w] = r THEN NoRequest ELSE lock[w]]

(* Mutant of RollBack: each insert commits by itself.                      *)
MutantRowsKept(r) ==
    /\ Goto(r, "failed")
    /\ book' = book \union open[r]
    /\ open' = [open EXCEPT ![r] = {}]
    /\ lock' = Released(r)
    /\ UNCHANGED <<transfers, balance>>

(* Mutant of RollBack: the call throws and its transaction stays open.     *)
MutantLeftOpen(r) ==
    /\ Goto(r, "failed")
    /\ UNCHANGED <<tables, open, lock>>

(* An error in the callback of dataSource.transaction: rolled back, and    *)
(* the call throws.                                                        *)
RollBack(r) ==
    /\ Goto(r, "failed")
    /\ open' = [open EXCEPT ![r] = {}]
    /\ lock' = Released(r)
    /\ UNCHANGED tables

(* The row goes in, or the unique index refuses it.                        *)
InsertRow(r, row, next) ==
    IF Duplicate(r, row.wallet, row.key)
    THEN RollBack(r)
    ELSE /\ open' = [open EXCEPT ![r] = @ \union {row}]
         /\ Goto(r, next)
         /\ UNCHANGED <<tables, lock>>

InsertDebit(r) ==
    /\ pc[r] = "insertDebit"
    /\ ~Blocked(r)
    /\ InsertRow(r, Debit(r), "debitSource")
    /\ UNCHANGED <<active, call, sourceActive, frozen>>

(* Mutant of Covers: the trigger looks at the balance before the debit.    *)
MutantCoversAny(r) == balance[call[r].from] >= 0

(* What the trigger's UPDATE asks of the balance it takes from.            *)
Covers(r) == balance[call[r].from] - call[r].amount >= 0

(* The trigger on the DEBIT row: lock the balance, then take the amount    *)
(* only if that leaves it at zero or above.                                *)
DebitSource(r) ==
    /\ pc[r] = "debitSource"
    /\ LockFree(r, call[r].from)
    /\ IF Covers(r)
       THEN /\ lock' = [lock EXCEPT ![call[r].from] = r]
            /\ Goto(r, "insertCredit")
            /\ UNCHANGED <<tables, open>>
       ELSE RollBack(r)
    /\ UNCHANGED <<active, call, sourceActive, frozen>>

InsertCredit(r) ==
    /\ pc[r] = "insertCredit"
    /\ ~Blocked(r)
    /\ InsertRow(r, Credit(r), "creditDestination")
    /\ UNCHANGED <<active, call, sourceActive, frozen>>

(* Mutant of CreditDestination: the balance is added to without its lock.  *)
MutantCreditUnlocked(r) ==
    /\ pc[r] = "creditDestination"
    /\ Goto(r, "insertTransfer")
    /\ UNCHANGED <<active, tables, lock, open, call, sourceActive, frozen>>

(* The trigger on the CREDIT row.                                          *)
CreditDestination(r) ==
    /\ pc[r] = "creditDestination"
    /\ LockFree(r, call[r].to)
    /\ lock' = [lock EXCEPT ![call[r].to] = r]
    /\ Goto(r, "insertTransfer")
    /\ UNCHANGED <<active, tables, open, call, sourceActive, frozen>>

(* Mutant of InsertTransfer: a key already used is answered as a success.  *)
MutantDuplicateAnswered(r) ==
    /\ pc[r] = "insertTransfer"
    /\ ~Blocked(r)
    /\ IF \E t \in transfers : t.key = call[r].key
       THEN /\ Goto(r, "emit")
            /\ open' = [open EXCEPT ![r] = {}]
            /\ lock' = Released(r)
            /\ UNCHANGED tables
       ELSE Goto(r, "commit") /\ UNCHANGED <<tables, lock, open>>
    /\ UNCHANGED <<active, call, sourceActive, frozen>>

(* The row of `transfers`, whose key is unique over the whole table.       *)
InsertTransfer(r) ==
    /\ pc[r] = "insertTransfer"
    /\ ~Blocked(r)
    /\ IF \E t \in transfers : t.key = call[r].key
       THEN RollBack(r)
       ELSE Goto(r, "commit") /\ UNCHANGED <<tables, lock, open>>
    /\ UNCHANGED <<active, call, sourceActive, frozen>>

(* COMMIT publishes the rows and the balances and frees the locks.  The    *)
(* reply to it may be lost with the connection, and then the call throws   *)
(* although the transfer is made.                                          *)
Commit(r) ==
    /\ pc[r] = "commit"
    /\ \E acknowledged \in BOOLEAN :
           Goto(r, IF acknowledged THEN "emit" ELSE "failed")
    /\ book' = book \union open[r]
    /\ transfers' = transfers \union {TransferRow(r)}
    /\ balance' = [balance EXCEPT ![call[r].from] = @ - call[r].amount,
                                  ![call[r].to] = @ + call[r].amount]
    /\ open' = [open EXCEPT ![r] = {}]
    /\ lock' = Released(r)
    /\ UNCHANGED <<active, call, sourceActive, frozen>>

(* 'transfer.completed' is emitted and the transfer is returned.           *)
Emit(r) ==
    /\ pc[r] = "emit"
    /\ Goto(r, "done")
    /\ UNCHANGED <<active, tables, lock, open, call, sourceActive, frozen>>

-----------------------------------------------------------------------------
(* What interrupts a request.                                              *)

(* r is on a cycle of waits: a transaction waits for at most one other, so *)
(* a set in which everyone waits for a member and is waited for by a       *)
(* member is a union of cycles.                                            *)
OnCycle(r) ==
    \E C \in SUBSET Requests :
        /\ r \in C
        /\ \A p \in C : \E q \in C : WaitsFor(p, q)
        /\ \A q \in C : \E p \in C : WaitsFor(p, q)

DeadlockVictim(r) ==
    /\ OnCycle(r)
    /\ RollBack(r)
    /\ UNCHANGED <<active, call, sourceActive, frozen>>

(* The connection breaks inside the transaction.                           *)
ConnectionLost(r) ==
    /\ pc[r] \in InTransaction
    /\ RollBack(r)
    /\ UNCHANGED <<active, call, sourceActive, frozen>>

InFlight == {r \in Requests : pc[r] \in Reading \union InTransaction \union {"emit"}}

(* The server stops: the requests it was serving are gone and Postgres     *)
(* rolls back their transactions.  A request not yet received is served    *)
(* by the server that is started next.                                     *)
Crash ==
    /\ InFlight # {}
    /\ pc' = [r \in Requests |-> IF r \in InFlight THEN "lost" ELSE pc[r]]
    /\ open' = [r \in Requests |-> {}]
    /\ lock' = [w \in Wallets |-> NoRequest]
    /\ UNCHANGED <<active, tables, call, sourceActive, frozen>>

-----------------------------------------------------------------------------
(* WalletService.activateWallet and deactivateWallet.  Both refuse a       *)
(* wallet that is already so; one save, and no lock shared with transfers. *)

ActivateWallet(w) ==
    /\ ~active[w]
    /\ active' = [active EXCEPT ![w] = TRUE]
    /\ frozen' = [r \in Requests |-> frozen[r] \ {w}]
    /\ UNCHANGED <<tables, lock, open, call, pc, sourceActive>>

DeactivateWallet(w) ==
    /\ active[w]
    /\ active' = [active EXCEPT ![w] = FALSE]
    /\ UNCHANGED <<tables, lock, open, call, pc, sourceActive, frozen>>

-----------------------------------------------------------------------------

(* What the server and the database do next for a call it has received.    *)
Serve(r) ==
    \/ ReadDestination(r) \/ CheckBalance(r)
    \/ InsertDebit(r) \/ DebitSource(r)
    \/ InsertCredit(r) \/ CreditDestination(r)
    \/ InsertTransfer(r) \/ Commit(r) \/ Emit(r)

Next ==
    \/ \E r \in Requests :
           ReadSource(r) \/ Serve(r) \/ DeadlockVictim(r) \/ ConnectionLost(r)
    \/ Crash
    \/ \E w \in Switchable : ActivateWallet(w) \/ DeactivateWallet(w)

Spec == Init /\ [][Next]_vars

(* The event loop runs a continuation that is ready and Postgres runs a    *)
(* statement that does not wait; its deadlock detector always fires.       *)
Fairness ==
    /\ \A r \in Requests : WF_vars(Serve(r))
    /\ WF_vars(\E r \in Requests : DeadlockVictim(r))

FairSpec == Spec /\ Fairness

-----------------------------------------------------------------------------

(* Every variable has its type.                                            *)
TypeOK ==
    /\ active \in [Wallets -> BOOLEAN]
    /\ book \subseteq [wallet: Wallets, key: Keys, type: {"CREDIT", "DEBIT"},
                       amount: Amounts]
    /\ transfers \subseteq [by: Requests, from: Wallets, to: Wallets,
                            amount: Amounts, key: Keys]
    /\ balance \in [Wallets -> Int]
    /\ lock \in [Wallets -> Requests \union {NoRequest}]
    /\ open \in [Requests -> SUBSET [wallet: Wallets, key: Keys,
                                     type: {"CREDIT", "DEBIT"}, amount: Amounts]]
    /\ call \in [Requests -> Call]
    /\ pc \in [Requests -> Places]
    /\ sourceActive \in [Requests -> BOOLEAN]
    /\ frozen \in [Requests -> SUBSET Wallets]

(* However stale the balance that transfer() checked, no interleaving of   *)
(* transfers leaves a wallet below zero by what its owner sends: a wallet  *)
(* below zero was the destination of a transfer of a negative amount,      *)
(* whose CREDIT row takes money without a look at what is there.           *)
OverdrawnOnlyByNegative ==
    \A w \in Wallets :
        balance[w] >= 0 \/ \E t \in transfers : t.to = w /\ t.amount < 0

(* The trigger's "enforce no overdraft", taken at its word: no wallet is   *)
(* ever below zero.                                                        *)
NoOverdraft == \A w \in Wallets : balance[w] >= 0

(* "Double-entry bookkeeping for transfers": the two rows of every         *)
(* transfer are in the ledger, and every row is one of the two rows of a   *)
(* transfer.  No rollback, crash or lost reply leaves half of one.         *)
DoubleEntry ==
    /\ \A t \in transfers :
           /\ Row(t.from, t.key, "DEBIT", t.amount) \in book
           /\ Row(t.to, t.key, "CREDIT", t.amount) \in book
    /\ \A e \in book : \E t \in transfers :
           e \in {Row(t.from, t.key, "DEBIT", t.amount),
                  Row(t.to, t.key, "CREDIT", t.amount)}

(* "An idempotency key to ensure the same request is not processed twice": *)
(* of all requests with one key, concurrent or retried, at most one moved  *)
(* money.                                                                  *)
OneTransferPerKey ==
    \A s, t \in transfers : s.key = t.key => s = t

(* Deactivation takes effect for every call received after it: a transfer  *)
(* that began when one of its wallets was inactive, and stayed so, never   *)
(* reaches the database transaction.                                       *)
FrozenWalletsDoNotMove ==
    \A r \in Requests :
        pc[r] \in InTransaction \union {"emit", "done"}
            => {call[r].from, call[r].to} \intersect frozen[r] = {}

(* Row locks are held by open transactions only, and by the transaction    *)
(* that changes the row: a request that ended has left nothing behind for  *)
(* others to wait for.                                                     *)
NothingHeldByTheEnded ==
    \A r \in Requests :
        pc[r] \notin InTransaction
            => open[r] = {} /\ \A w \in Wallets : lock[w] # r

(* What a call answers is what the database holds: one that answered with  *)
(* its transfer has made it, one refused before the transaction has not.   *)
AnswerIsTrue ==
    \A r \in Requests :
        /\ pc[r] = "done" => TransferRow(r) \in transfers
        /\ pc[r] = "rejected" => \A t \in transfers : t.by # r

(* The rows that getUserTransactionHistory may find for a row: those with  *)
(* its key on another wallet.  It takes any one of them.                   *)
Counterparts(e) == {f \in book : f.key = e.key /\ f.wallet # e.wallet}

(* The other wallet that a user's history names for a transfer is the one  *)
(* the money came from or went to: the look-up, by key alone, finds the    *)
(* other row of the same transfer and no row of another.                   *)
HistoryNamesCounterpart ==
    \A t \in transfers :
        LET debit == Row(t.from, t.key, "DEBIT", t.amount)
            credit == Row(t.to, t.key, "CREDIT", t.amount)
        IN  Counterparts(debit) = {credit} /\ Counterparts(credit) = {debit}

(* Every call received comes to an end: waits for rows and index entries   *)
(* never last, whatever the order in which two transfers cross.            *)
EveryCallEnds ==
    \A r \in Requests : pc[r] = "destination" ~> pc[r] \in Ended

(* The same tables as the ledger sees them.                                *)
Abstract == INSTANCE Ledger

(* Under all these steps the tables change as the ledger's do: a transfer  *)
(* is one atomic, covered, append-only posting of two rows.                *)
ImplementsLedger == Abstract!Spec

(* A stored balance is what the wallet's rows add up to, the README's      *)
(* "balances computed from transaction history": rolled-back transactions  *)
(* and refused duplicates leave neither a row nor a changed balance.       *)
BalanceIsHistory == Abstract!BalanceIsHistory
=============================================================================
