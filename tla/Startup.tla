------------------------------- MODULE Startup -------------------------------
(***************************************************************************)
(* bootstrap of main.ts and CustomMigrationService.runMigrations: every    *)
(* instance of the server, before it listens, applies the SQL scripts that *)
(* are not yet recorded in custom_migrations, and records each.  Instances *)
(* start, race and are stopped at any statement.                           *)
(*                                                                         *)
(* What depends on it is the ledger: balances are moved, and overdrafts    *)
(* refused, by a trigger that one of the scripts creates.  Postings of the *)
(* listening instances are one step each, with the trigger or without.     *)
(***************************************************************************)
EXTENDS Integers, Sequences

CONSTANTS
    Files,          \* the scripts, in the order readdir gives them
    BalanceScript,  \* the one that creates the balance trigger
    Instances,      \* instances of the server
    MaxStarts,      \* bound: starts of instances
    Wallets, Keys, Amounts, Opening     \* as in Ledger

Scripts == {Files[n] : n \in DOMAIN Files}

ASSUME FilesAssumption ==
    /\ Files \in Seq(Scripts)
    /\ \A m, n \in DOMAIN Files : Files[m] = Files[n] => m = n
ASSUME BalanceScriptAssumption == BalanceScript \in Scripts
ASSUME MaxStartsAssumption == MaxStarts \in Nat
ASSUME AmountsAssumption == Amounts \subseteq Nat \ {0}
ASSUME OpeningAssumption == Opening \in [Wallets -> Nat]

VARIABLES
    recorded,       \* the number of rows each script has in custom_migrations
    installed,      \* the scripts whose triggers are in the database
    place,          \* where each instance is
    known,          \* the names an instance read from custom_migrations
    at,             \* the file an instance has come to
    starts,         \* starts so far
    book, balance,  \* the ledger
    disturbed       \* history: instances stopped, or overtaken by another,
                    \* since they read the names, or that read them when a
                    \* script was installed and not recorded

database == <<recorded, installed>>
instance == <<place, known, at, starts>>
ledger == <<book, balance>>
vars == <<database, instance, ledger, disturbed>>

Migrating == {"read", "next", "record"}

Abstract == INSTANCE Ledger

Init ==
    /\ recorded = [s \in Scripts |-> 0]
    /\ installed = {}
    /\ place = [i \in Instances |-> "down"]
    /\ known = [i \in Instances |-> {}]
    /\ at = [i \in Instances |-> 1]
    /\ starts = 0
    /\ book = {}
    /\ balance = Opening
    /\ disturbed = {}

Goto(i, next) == place' = [place EXCEPT ![i] = next]

-----------------------------------------------------------------------------

(* bootstrap, up to the tracking table, which is created if it is not      *)
(* there.  Losing a race for that is like being stopped.                   *)
Start(i) ==
    /\ place[i] \in {"down", "exited"}
    /\ starts < MaxStarts
    /\ starts' = starts + 1
    /\ Goto(i, "read")
    /\ UNCHANGED <<database, known, at, ledger, disturbed>>

Recorded == {s \in Scripts : recorded[s] > 0}

(* Mutant of ReadRecorded: the names are not read.                         *)
MutantNothingKnown(i) ==
    /\ place[i] = "read"
    /\ known' = [known EXCEPT ![i] = {}]
    /\ at' = [at EXCEPT ![i] = 1]
    /\ Goto(i, "next")
    /\ disturbed' = IF installed = Recorded THEN disturbed \ {i} ELSE disturbed \union {i}
    /\ UNCHANGED <<database, starts, ledger>>

ReadRecorded(i) ==
    /\ place[i] = "read"
    /\ known' = [known EXCEPT ![i] = Recorded]
    /\ at' = [at EXCEPT ![i] = 1]
    /\ Goto(i, "next")
    /\ disturbed' = IF installed = Recorded THEN disturbed \ {i} ELSE disturbed \union {i}
    /\ UNCHANGED <<database, starts, ledger>>

File(i) == Files[at[i]]
MoreFiles(i) == at[i] <= Len(Files)

Skip(i) ==
    /\ place[i] = "next" /\ MoreFiles(i) /\ File(i) \in known[i]
    /\ at' = [at EXCEPT ![i] = @ + 1]
    /\ UNCHANGED <<database, place, known, starts, ledger, disturbed>>

(* Mutant of Refused: CREATE OR REPLACE TRIGGER.                           *)
MutantReplaced(script) == FALSE

(* CREATE TRIGGER is an error when the trigger is there.                   *)
Refused(script) == script \in installed

(* The whole script is one query, and one implicit transaction.  An error  *)
(* leaves runMigrations and bootstrap, and ends the process.               *)
Apply(i) ==
    /\ place[i] = "next" /\ MoreFiles(i) /\ File(i) \notin known[i]
    /\ IF Refused(File(i))
       THEN Goto(i, "exited") /\ UNCHANGED <<installed, disturbed>>
       ELSE /\ installed' = installed \union {File(i)}
            /\ disturbed' = disturbed \union {j \in Instances \ {i} : place[j] \in Migrating}
            /\ Goto(i, "record")
    /\ UNCHANGED <<recorded, known, at, starts, ledger>>

Record(i) ==
    /\ place[i] = "record"
    /\ recorded' = [recorded EXCEPT ![File(i)] = @ + 1]
    /\ at' = [at EXCEPT ![i] = @ + 1]
    /\ Goto(i, "next")
    /\ UNCHANGED <<installed, known, starts, ledger, disturbed>>

(* Mutant of Listen: it does not wait for runMigrations.                   *)
MutantNotAwaited(i) ==
    /\ place[i] = "next"
    /\ Goto(i, "listening")
    /\ UNCHANGED <<database, known, at, starts, ledger, disturbed>>

Listen(i) ==
    /\ place[i] = "next" /\ ~MoreFiles(i)
    /\ Goto(i, "listening")
    /\ UNCHANGED <<database, known, at, starts, ledger, disturbed>>

(* The process ends, between any two statements.                           *)
Stop(i) ==
    /\ place[i] \in Migrating \union {"listening"}
    /\ Goto(i, "down")
    /\ disturbed' = disturbed \union {i}
    /\ UNCHANGED <<database, known, at, starts, ledger>>

(* Without the trigger a row is inserted and no balance is looked at.      *)
PostUnguarded(w, k, a) ==
    /\ Abstract!Unused(w, k)
    /\ \E t \in {"CREDIT", "DEBIT"} : book' = book \union {Abstract!Row(w, k, t, a)}
    /\ UNCHANGED balance

Post(i) ==
    /\ place[i] = "listening"
    /\ \E w \in Wallets, k \in Keys, a \in Amounts :
           IF BalanceScript \in installed
           THEN Abstract!Deposit(w, k, a) \/ Abstract!Withdraw(w, k, a)
           ELSE PostUnguarded(w, k, a)
    /\ UNCHANGED <<database, instance, disturbed>>

-----------------------------------------------------------------------------

Migrate(i) == ReadRecorded(i) \/ Skip(i) \/ Apply(i) \/ Record(i) \/ Listen(i)

Next == \E i \in Instances : Start(i) \/ Migrate(i) \/ Stop(i) \/ Post(i)

Spec == Init /\ [][Next]_vars

(* An instance that was started goes on.                                   *)
FairSpec == Spec /\ \A i \in Instances : WF_vars(Migrate(i))

-----------------------------------------------------------------------------

(* Every variable has its type.                                            *)
TypeOK ==
    /\ recorded \in [Scripts -> Nat]
    /\ installed \subseteq Scripts
    /\ place \in [Instances -> {"down", "exited", "listening"} \union Migrating]
    /\ known \in [Instances -> SUBSET Scripts]
    /\ at \in [Instances -> 1..(Len(Files) + 1)]
    /\ starts \in 0..MaxStarts
    /\ book \subseteq [wallet: Wallets, key: Keys, type: {"CREDIT", "DEBIT"}, amount: Amounts]
    /\ balance \in [Wallets -> Int]
    /\ disturbed \subseteq Instances

(* A script that is recorded has its triggers in the database: being       *)
(* stopped between the two statements never leaves a script skipped that   *)
(* was not applied.                                                        *)
RecordedIsInstalled == Recorded \subseteq installed

(* custom_migrations has no unique key on the name, and instances that     *)
(* start together read the same names, but a script gets one row.          *)
RecordedOnce == \A s \in Scripts : recorded[s] <= 1

(* An instance that listens, however many started with it and whichever of *)
(* them were stopped, has every script behind it.                          *)
NobodyListensWithout ==
    (\E i \in Instances : place[i] = "listening") => installed = Scripts

(* An instance that reads a record which is complete, and is neither       *)
(* stopped nor overtaken by another that installs a script, comes to       *)
(* listen.  Where an instance was stopped between a script and its record  *)
(* none does any more: the script is refused at every start.               *)
UndisturbedStartsListen ==
    \A i \in Instances :
        place[i] = "next" ~> place[i] = "listening" \/ i \in disturbed

(* The triggers are there before the first posting, so the ledger is what  *)
(* it promises across every start and stop.                                *)
ImplementsLedger == Abstract!Spec
=============================================================================
