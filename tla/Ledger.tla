------------------------------- MODULE Ledger -------------------------------
(***************************************************************************)
(* What the ledger of PayBudz promises, without the steps that get it      *)
(* there: entries are only ever added, a posting is atomic, no key is used *)
(* twice on a wallet, and a debit never takes a wallet below zero.  The    *)
(* table is `transactions`, with the unique index of the entity and the    *)
(* triggers of custom_triggers.sql; `balance` is `wallet_balances`.  The   *)
(* modules that post to the ledger instantiate this one, each with its own *)
(* wallets, keys and amounts, and implement it.                            *)
(***************************************************************************)
EXTENDS Integers, FiniteSets, Functions

CONSTANTS
    Wallets,        \* wallet identifiers
    Keys,           \* idempotency keys
    Amounts,        \* amounts a posting may carry
    Opening         \* the balance each wallet starts with

VARIABLES
    book,           \* the rows of `transactions` (the primary key left out)
    balance         \* wallet_balances.balance, 0 where there is no row

ledger == <<book, balance>>

Row(w, k, t, a) == [wallet |-> w, key |-> k, type |-> t, amount |-> a]

(* The unique index on (walletId, idempotencyKey) has no such pair yet. *)
Unused(w, k) == \A e \in book : ~(e.wallet = w /\ e.key = k)

-----------------------------------------------------------------------------

Init ==
    /\ book = {}
    /\ balance = Opening

(* A top-up: one CREDIT row. *)
Deposit(w, k, a) ==
    /\ Unused(w, k)
    /\ book' = book \union {Row(w, k, "CREDIT", a)}
    /\ balance' = [balance EXCEPT ![w] = @ + a]

(* A cashout: one DEBIT row, refused when the balance does not cover it. *)
Withdraw(w, k, a) ==
    /\ Unused(w, k)
    /\ balance[w] >= a
    /\ book' = book \union {Row(w, k, "DEBIT", a)}
    /\ balance' = [balance EXCEPT ![w] = @ - a]

(* A transfer: both rows or neither. *)
Move(from, to, k, a) ==
    /\ from # to
    /\ Unused(from, k) /\ Unused(to, k)
    /\ balance[from] >= a
    /\ book' = book \union {Row(from, k, "DEBIT", a), Row(to, k, "CREDIT", a)}
    /\ balance' = [balance EXCEPT ![from] = @ - a, ![to] = @ + a]

Next ==
    \E k \in Keys, a \in Amounts, w \in Wallets :
        \/ Deposit(w, k, a)
        \/ Withdraw(w, k, a)
        \/ \E v \in Wallets : Move(w, v, k, a)

Spec == Init /\ [][Next]_ledger

-----------------------------------------------------------------------------

Total(rows) == SumFunctionOnSet([e \in rows |-> e.amount], rows)

RowsOf(w, t) == {e \in book : e.wallet = w /\ e.type = t}

(* The stored balance of every wallet is what its rows add up to: the     *)
(* README's "balances computed from transaction history", kept by the     *)
(* trigger and not recomputed.                                             *)
BalanceIsHistory ==
    \A w \in Wallets :
        balance[w] = Opening[w] + Total(RowsOf(w, "CREDIT"))
                                - Total(RowsOf(w, "DEBIT"))
=============================================================================
