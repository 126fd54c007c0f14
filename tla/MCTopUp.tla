------------------------------ MODULE MCTopUp ------------------------------
(* Small instances of TopUp. *)
EXTENDS TopUp, TLC

CONSTANTS Ada, Ben, p, h1, h2

(* Ada asks for the link. *)
OwnerOf == p :> Ada

Empty == (Ada :> 0) @@ (Ben :> 0)
=============================================================================
