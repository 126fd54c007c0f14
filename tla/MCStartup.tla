----------------------------- MODULE MCStartup -----------------------------
(* Small instances of Startup. *)
EXTENDS StartupProofs

CONSTANTS Ada, k1, k2, i1, i2, triggers, later

TwoFiles == <<triggers, later>>
One == [w \in Wallets |-> 1]
=============================================================================
