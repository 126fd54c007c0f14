----------------------------- MODULE MCTransfer -----------------------------
(* Small instances of Transfer. *)
EXTENDS TransferProofs, TLC

CONSTANTS Ada, Ben, Cy, Dan, k1, k2, r1, r2

Of(from, to, amount, key) ==
    [from |-> from, to |-> to, amount |-> amount, key |-> key]

AllAmounts == {-2, 1, 2}

Purse == (Ada :> 2) @@ (Ben :> 1) @@ (Cy :> 1) @@ (Dan :> 0)

(* Ada and Ben in both directions, a retry, a key used again for something *)
(* else, amounts that compete for the balance, one that is negative, a     *)
(* transfer to oneself, no wallet, nobody; and one key on a pair of        *)
(* wallets disjoint from theirs, which only the index of `transfers` sees. *)
Pairs ==
    {Of(Ada, Ben, 1, k1), Of(Ada, Ben, 2, k2), Of(Ben, Ada, 1, k1),
     Of(Ben, Ada, 1, k2), Of(Ada, Ada, 1, k1), Of(NoWallet, Ben, 1, k1),
     Of(Ada, NoWallet, 1, k1), Of(Ada, NoUser, 1, k1), Of(Cy, Dan, 1, k1),
     Of(Ada, Ben, -2, k2)}

(* One transfer of less than nothing. *)
Negative == {Of(Ada, Ben, -2, k1)}
=============================================================================
