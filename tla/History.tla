------------------------------ MODULE History ------------------------------
(***************************************************************************)
(* The history of a wallet, asked for page by page: by its owner           *)
(* (TransactionService) and by an administrator (AdminUserService).  Each  *)
(* page is a query of its own, ordered by createdAt alone, so that rows    *)
(* are committed between two pages, before or behind those already shown,  *)
(* and rows of one createdAt come in any order, each time anew.            *)
(*                                                                         *)
(* Every row that is ever inserted is SUCCESSFUL and in NGN: the filters   *)
(* by status and by currency keep all rows or none, and are left out.  The *)
(* two rows of a transfer share its idempotency key, and no others do.     *)
(***************************************************************************)
EXTENDS Postings, FiniteSetsExt

CONSTANTS
    Limit,          \* the length of a page
    Midnight,       \* the first instant of each date
    NoDate,         \* no bound on the dates
    NoQuery         \* nobody has asked yet

Dates == DOMAIN Midnight

Query ==
    [by: {"user"}, wallet: Wallets, sort: {"ASC", "DESC"}]
        \union [by: {"admin"}, wallet: Wallets, sort: {"ASC", "DESC"},
                type: {"CREDIT", "DEBIT", "any"},
                fromDate: Dates \union {NoDate}, toDate: Dates \union {NoDate}]

ASSUME QueriesAssumption ==
    NoQuery \notin Query /\ \A m \in Mixes : m.queries \subseteq Query
ASSUME LimitAssumption == Limit \in Nat \ {0}
ASSUME MidnightAssumption == NoDate \notin Dates /\ \A d \in Dates : Midnight[d] \in Nat

VARIABLES
    query,          \* what is being read
    page,           \* the page to ask for next
    got,            \* what has been shown
    repeated,       \* the rows that were shown on two pages
    known,          \* history: the rows when the reading started
    finished        \* a page was not full

reading == <<query, page, got, repeated, known, finished>>

HistoryInit ==
    /\ query = NoQuery
    /\ page = 1
    /\ got = {}
    /\ repeated = {}
    /\ known = {}
    /\ finished = FALSE

(* The WHERE clauses.  A date stands for its midnight in both bounds.      *)
findTransactions(walletId) == {r \in Rows : r.wallet = walletId}

getTransactions(q) ==
    {r \in Rows :
        /\ r.wallet = q.wallet
        /\ q.type # "any" => r.type = q.type
        /\ q.fromDate # NoDate => r.createdAt >= Midnight[q.fromDate]
        /\ q.toDate # NoDate => r.createdAt <= Midnight[q.toDate]}

Matching(q) == IF q.by = "user" THEN findTransactions(q.wallet) ELSE getTransactions(q)

Precedes(q, r, s) ==
    IF q.sort = "ASC" THEN r.createdAt < s.createdAt ELSE r.createdAt > s.createdAt

(* Which of the rows may be the first n of them.                           *)
Firsts(q, rows, n) ==
    {first \in kSubset(IF n < Cardinality(rows) THEN n ELSE Cardinality(rows), rows) :
        \A r \in first, s \in rows \ first : ~Precedes(q, s, r)}

(* Mutant of Offset: the first page is page 0.                             *)
MutantOffset(p) == p * Limit

Offset(p) == (p - 1) * Limit

(* What the p-th page may be.                                              *)
Pages(q, p) ==
    LET rows == Matching(q)
        ends == Firsts(q, rows, Offset(p)) \X Firsts(q, rows, Offset(p) + Limit)
    IN  {end[2] \ end[1] : end \in {both \in ends : both[1] \subseteq both[2]}}

(* The row of the other wallet, by the transfer's idempotency key.         *)
Related(r) == {s \in Rows : s.job = r.job /\ s.wallet # r.wallet}

(* What is shown of a row: to a user, with the wallet of the other.        *)
Shown(q, r) ==
    [row |-> r,
     other |-> IF q.by = "admin" \/ Related(r) = {} THEN NoWallet
               ELSE (CHOOSE s \in Related(r) : TRUE).wallet]

-----------------------------------------------------------------------------

StartReading(q) ==
    /\ query = NoQuery
    /\ query' = q
    /\ known' = Matching(q)
    /\ UNCHANGED <<page, got, repeated, finished>>

ReadPage ==
    /\ query # NoQuery /\ ~finished
    /\ \E rows \in Pages(query, page) :
           /\ got' = got \union {Shown(query, r) : r \in rows}
           /\ repeated' = repeated \union {r \in rows : \E s \in got : s.row = r}
           /\ finished' = (Cardinality(rows) < Limit)
    /\ page' = page + 1
    /\ UNCHANGED <<query, known>>

Read == ReadPage \/ \E q \in mix.queries : StartReading(q)
-----------------------------------------------------------------------------

HistoryTypeOK ==
    /\ query \in mix.queries \union {NoQuery}
    /\ page \in Nat \ {0}
    /\ known \subseteq Rows /\ repeated \subseteq {s.row : s \in got}
    /\ \A s \in got : s.row \in Rows /\ s.other \in Wallets \union {NoWallet}
    /\ finished \in BOOLEAN
=============================================================================
