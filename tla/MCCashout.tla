----------------------------- MODULE MCCashout -----------------------------
(* Small instances of Cashout. *)
EXTENDS Cashout, TLC

CONSTANTS Ada, Ben, c, d, h1, h2, t1

(* The controller reads an id from the request that the guard never put    *)
(* there.                                                                  *)
NoIdSent == (c :> Undefined) @@ (d :> Undefined)

NairaEach == (c :> 100) @@ (d :> 100)
OneAndTwoNaira == (c :> 100) @@ (d :> 200)

TwoAndOne == (c :> 2) @@ (d :> 1)

Covered == [u \in Users |-> 200]
=============================================================================
