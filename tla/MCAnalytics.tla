---------------------------- MODULE MCAnalytics ----------------------------
(* Small instances of Analytics. *)
EXTENDS Analytics

CONSTANTS Ada, Ben, move, back, add, out, join, look

(* Transfers both ways, a top-up and a cashout of Ada's, a sign-up, and an *)
(* administrator who looks at the totals.                                  *)
WorkOf ==
    [j \in Jobs |->
        CASE j = move -> [kind |-> "transfer", user |-> Ada, to |-> Ben, amount |-> 2]
          [] j = back -> [kind |-> "transfer", user |-> Ben, to |-> Ada, amount |-> 1]
          [] j = add -> [kind |-> "topup", user |-> Ada, amount |-> 3]
          [] j = out -> [kind |-> "cashout", user |-> Ada, amount |-> 1]
          [] j = join -> [kind |-> "signup", user |-> Ben, amount |-> 1]
          [] j = look -> [kind |-> "report", user |-> Ben, amount |-> 1]]

(* The second event of one transfer comes after midnight.                  *)
DayOfEvents ==
    [j \in Jobs |-> [t \in {"CREDIT", "DEBIT", "none"} |->
        IF j = add \/ (j = move /\ t = "CREDIT") THEN 2 ELSE 1]]
=============================================================================
