---------------------------- MODULE MCStatements ----------------------------
(* Small instances of Statements. *)
EXTENDS Statements

CONSTANTS Ada, Ben, send, back, add, out, fail

WorkOf ==
    [j \in Jobs |->
        CASE j = send -> [kind |-> "transfer", from |-> Ada, to |-> Ben, amount |-> 2]
          [] j = back -> [kind |-> "transfer", from |-> Ben, to |-> Ada, amount |-> 1]
          [] j = add -> [kind |-> "topup", to |-> Ada, amount |-> 3]
          [] j = out -> [kind |-> "cashout", from |-> Ada, amount |-> 1]
          [] j = fail -> [kind |-> "refused", from |-> Ada, amount |-> 1]]

OpeningOf == [w \in Wallets |-> IF w = Ada THEN 2 ELSE 0]

(* A day of two instants, each of them a minute.                           *)
MidnightOf == [d \in {"first", "second"} |-> IF d = "first" THEN 0 ELSE 2]

QueriesOf ==
    {[by |-> "user", wallet |-> Ada, sort |-> s] : s \in {"ASC", "DESC"}}
        \union {[by |-> "admin", wallet |-> Ada, sort |-> "DESC", type |-> "any",
                 fromDate |-> NoDate, toDate |-> "second"],
                [by |-> "admin", wallet |-> Ada, sort |-> "ASC", type |-> "CREDIT",
                 fromDate |-> "first", toDate |-> NoDate]}

AllOf == {"rollback", "reply", "database", "mail", "resend", "crash"}
MixesOf ==
    {[jobs |-> {send, back}, queries |-> {}, faults |-> AllOf],
     [jobs |-> {add, out, fail}, queries |-> {}, faults |-> AllOf],
     [jobs |-> {send, add}, queries |-> QueriesOf, faults |-> {"rollback"}]}
=============================================================================
