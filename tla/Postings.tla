------------------------------ MODULE Postings ------------------------------
(***************************************************************************)
(* The rows of `transactions` as those see them who read them afterwards:  *)
(* who is told of them by email, and who asks for them page by page.       *)
(* Transfers, top-ups and cashouts are a database transaction each, taken  *)
(* apart only as far as a reader can tell: a row gets its createdAt from   *)
(* the server's clock before it is inserted, waits for the wallet's        *)
(* balance, and is seen once the transaction is committed, so that rows    *)
(* appear in another order than their createdAt.                           *)
(*                                                                         *)
(* A user and the user's wallet are one value, and amounts are in naira.   *)
(***************************************************************************)
EXTENDS Integers, Sequences, FiniteSets, SequencesExt

CONSTANTS
    Wallets,        \* wallet identifiers
    Jobs,           \* the transfers, top-ups and cashouts that happen
    Work,           \* what each of them does
    Opening,        \* the balance each wallet starts with
    NoWallet,       \* where nobody else is named
    MaxTime,        \* bound: the last instant of the clock
    Mixes           \* bound: the jobs, queries and faults that happen together

(* A "refused" job is a payout that Paystack could not make: no row.       *)
Job ==
    [kind: {"transfer"}, from: Wallets, to: Wallets, amount: Nat \ {0}]
        \union [kind: {"topup"}, to: Wallets, amount: Nat \ {0}]
        \union [kind: {"cashout", "refused"}, from: Wallets, amount: Nat \ {0}]

ASSUME WorkAssumption == Work \in [Jobs -> Job]
ASSUME TransferAssumption ==
    \A j \in Jobs : Work[j].kind = "transfer" => Work[j].from # Work[j].to
ASSUME OpeningAssumption == Opening \in [Wallets -> Nat]
ASSUME NoWalletAssumption == NoWallet \notin Wallets
ASSUME MaxTimeAssumption == MaxTime \in Nat
ASSUME MixesAssumption == \A m \in Mixes : m.jobs \subseteq Jobs

VARIABLES
    mix,            \* which jobs, queries and faults happen
    clock,          \* the server's clock
    createdAt,      \* of the rows each job has made, by their type
    inserted,       \* the types of the rows each job has inserted
    log,            \* the jobs that are committed, in that order
    undone          \* the jobs that were rolled back

postings == <<mix, clock, createdAt, inserted, log, undone>>

Types(j) ==
    CASE Work[j].kind = "transfer" -> {"DEBIT", "CREDIT"}
      [] Work[j].kind = "topup" -> {"CREDIT"}
      [] Work[j].kind = "cashout" -> {"DEBIT"}
      [] Work[j].kind = "refused" -> {}

WalletOf(j, t) == IF t = "DEBIT" THEN Work[j].from ELSE Work[j].to
Parties(j) ==
    IF Work[j].kind = "refused" THEN {Work[j].from} ELSE {WalletOf(j, t) : t \in Types(j)}

Committed == ToSet(log)
Ended(j) == j \in Committed \union undone
Begun(j) == DOMAIN createdAt[j] # {} \/ Ended(j)

(* What a wallet's balance is after the first n commits, and what it was   *)
(* at some time since a job was committed.                                 *)
Change(j, w) ==
    LET Of(t) == IF t \in Types(j) /\ WalletOf(j, t) = w THEN Work[j].amount ELSE 0
    IN  Of("CREDIT") - Of("DEBIT")
BalanceAfter(n, w) ==
    Opening[w] + SumFunctionOnSet([i \in 1..n |-> Change(log[i], w)], 1..n)
Balance(w) == BalanceAfter(Len(log), w)
BalancesSince(j, w) ==
    {BalanceAfter(n, w) : n \in {k \in 1..Len(log) : \E i \in 1..k : log[i] = j}}

Row(j, t) ==
    [job |-> j, type |-> t, wallet |-> WalletOf(j, t), amount |-> Work[j].amount,
     createdAt |-> createdAt[j][t]]
Rows == UNION {{Row(j, t) : t \in Types(j)} : j \in Committed}

PostingsInit ==
    /\ mix \in Mixes
    /\ clock = 0
    /\ createdAt = [j \in Jobs |-> <<>>]
    /\ inserted = [j \in Jobs |-> {}]
    /\ log = <<>>
    /\ undone = {}

-----------------------------------------------------------------------------

Tick ==
    /\ clock < MaxTime
    /\ clock' = clock + 1
    /\ UNCHANGED <<mix, createdAt, inserted, log, undone>>

(* The row as an entity, with createdAt; a transfer makes its CREDIT row   *)
(* when the DEBIT row is in.                                               *)
CreateRow(j) ==
    /\ j \in mix.jobs /\ ~Ended(j)
    /\ \E t \in Types(j) \ inserted[j] :
           /\ t = "CREDIT" => Types(j) \ {"CREDIT"} \subseteq inserted[j]
           /\ t \notin DOMAIN createdAt[j]
           /\ createdAt' = [createdAt EXCEPT ![j] =
                  [x \in DOMAIN @ \union {t} |-> IF x = t THEN clock ELSE @[x]]]
    /\ UNCHANGED <<mix, clock, inserted, log, undone>>

(* Another open transaction holds the row of the wallet's balance.         *)
Locked(w, j) ==
    \E q \in Jobs \ {j} : ~Ended(q) /\ \E t \in inserted[q] : WalletOf(q, t) = w

(* The INSERT, whose trigger waits for the balance and checks a debit.     *)
InsertRow(j) ==
    /\ ~Ended(j)
    /\ \E t \in DOMAIN createdAt[j] \ inserted[j] :
           /\ ~Locked(WalletOf(j, t), j)
           /\ t = "DEBIT" => Balance(WalletOf(j, t)) >= Work[j].amount
           /\ inserted' = [inserted EXCEPT ![j] = @ \union {t}]
    /\ UNCHANGED <<mix, clock, createdAt, log, undone>>

Commit(j) ==
    /\ ~Ended(j)
    /\ Types(j) # {} /\ inserted[j] = Types(j)
    /\ log' = Append(log, j)
    /\ UNCHANGED <<mix, clock, createdAt, inserted, undone>>

(* Paystack reports a payout that it could not make.                       *)
Refuse(j) ==
    /\ j \in mix.jobs /\ ~Ended(j)
    /\ Types(j) = {}
    /\ log' = Append(log, j)
    /\ UNCHANGED <<mix, clock, createdAt, inserted, undone>>

(* An error rolls the transaction back: a debit that is not covered, a     *)
(* deadlock, or a lost connection.                                         *)
RollBack(j) ==
    /\ ~Ended(j) /\ DOMAIN createdAt[j] # {}
    /\ undone' = undone \union {j}
    /\ UNCHANGED <<mix, clock, createdAt, inserted, log>>

(* A crash rolls back all that is open.                                    *)
RollBackAll ==
    /\ undone' = undone \union {j \in Jobs : ~Ended(j) /\ DOMAIN createdAt[j] # {}}
    /\ UNCHANGED <<mix, clock, createdAt, inserted, log>>

-----------------------------------------------------------------------------

PostingsTypeOK ==
    /\ mix \in Mixes
    /\ clock \in 0..MaxTime
    /\ \A j \in Jobs :
           /\ inserted[j] \subseteq DOMAIN createdAt[j]
           /\ DOMAIN createdAt[j] \subseteq Types(j)
           /\ \A t \in DOMAIN createdAt[j] : createdAt[j][t] \in 0..clock
    /\ log \in Seq(Jobs) /\ undone \subseteq Jobs
=============================================================================
