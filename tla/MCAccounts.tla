----------------------------- MODULE MCAccounts -----------------------------
(* Small instances of Accounts. *)
EXTENDS Accounts

CONSTANTS adaMail, benMail, name, upper, admin, Admin,
          adaIn, adaAgain, benIn, longIn, longMail, toName, toUpper, toAdmin

WorkOf ==
    [j \in Jobs |->
        CASE j \in {adaIn, adaAgain} -> [kind |-> "enter", email |-> adaMail]
          [] j = benIn -> [kind |-> "enter", email |-> benMail]
          [] j = longIn -> [kind |-> "enter", email |-> longMail]
          [] j = toName -> [kind |-> "rename", name |-> name]
          [] j = toUpper -> [kind |-> "rename", name |-> upper]
          [] j = toAdmin -> [kind |-> "rename", name |-> Admin]]

Lower ==
    [n \in Names |-> CASE n = upper -> name [] n = Admin -> admin [] OTHER -> n]
=============================================================================
