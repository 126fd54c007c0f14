---------------------------- MODULE StartupProofs ----------------------------
(***************************************************************************)
(* Proofs about Startup, for any scripts, instances, starts and stops.     *)
(* ScriptsInv ties where an instance is to what the database has: the      *)
(* scripts an instance has passed are installed, and one that is about to  *)
(* record a script is the only one and has installed it.                   *)
(***************************************************************************)
EXTENDS Startup, TLAPS

(* What an instance has read, or gone past, is installed.                  *)
KnownInstalled == \A i \in Instances : known[i] \subseteq installed

PassedInstalled ==
    \A i \in Instances : place[i] \in {"next", "record"} =>
        \A n \in 1..Len(Files) : n < at[i] => Files[n] \in installed

(* A script about to be recorded is installed, has no row, and is recorded *)
(* by this instance only.                                                  *)
Recording ==
    \A i \in Instances : place[i] = "record" =>
        /\ at[i] <= Len(Files)
        /\ File(i) \in installed
        /\ recorded[File(i)] = 0
        /\ \A j \in Instances \ {i} : place[j] = "record" => File(j) # File(i)

ScriptsInv ==
    /\ TypeOK
    /\ RecordedIsInstalled
    /\ RecordedOnce
    /\ KnownInstalled
    /\ PassedInstalled
    /\ Recording
    /\ NobodyListensWithout

-----------------------------------------------------------------------------

(* The files are the scripts, numbered from 1.                             *)
LEMMA FilesNumbered ==
    /\ Len(Files) \in Nat
    /\ \A n \in 1..Len(Files) : Files[n] \in Scripts
    /\ \A s \in Scripts : \E n \in 1..Len(Files) : s = Files[n]
<1>1. Len(Files) \in Nat /\ DOMAIN Files = 1..Len(Files)
    BY FilesAssumption
<1>2. QED
    BY <1>1 DEF Scripts

LEMMA InitInv == Init => ScriptsInv
<1> SUFFICES ASSUME Init PROVE ScriptsInv
    OBVIOUS
<1> USE DEF Init
<1>1. TypeOK
    BY FilesNumbered, OpeningAssumption, MaxStartsAssumption DEF TypeOK
<1>2. RecordedIsInstalled /\ RecordedOnce
    BY DEF RecordedIsInstalled, RecordedOnce, Recorded
<1>3. KnownInstalled /\ PassedInstalled /\ Recording /\ NobodyListensWithout
    BY DEF KnownInstalled, PassedInstalled, Recording, NobodyListensWithout
<1>4. QED
    BY <1>1, <1>2, <1>3 DEF ScriptsInv

(* Steps that change neither the database nor what an instance has read.   *)
LEMMA StartOrStopPreserves ==
    ASSUME ScriptsInv, NEW i \in Instances, Start(i) \/ Stop(i)
    PROVE  ScriptsInv'
<1> USE DEF ScriptsInv, Start, Stop, Goto, database, ledger
<1>1. TypeOK'
    <2>1. CASE Start(i)
        <3>1. starts' \in 0..MaxStarts
            BY <2>1, MaxStartsAssumption DEF TypeOK
        <3>2. QED
            BY <2>1, <3>1 DEF TypeOK, Migrating
    <2>2. CASE Stop(i)
        BY <2>2 DEF TypeOK, Migrating
    <2>3. QED
        BY <2>1, <2>2
<1>2. RecordedIsInstalled' /\ RecordedOnce' /\ KnownInstalled'
    BY DEF RecordedIsInstalled, RecordedOnce, Recorded, KnownInstalled
<1>3. PassedInstalled'
    BY DEF TypeOK, PassedInstalled
<1>4. Recording'
    BY DEF TypeOK, Recording, File
<1>5. NobodyListensWithout'
    BY DEF TypeOK, NobodyListensWithout
<1>6. QED
    BY <1>1, <1>2, <1>3, <1>4, <1>5

LEMMA ReadPreserves ==
    ASSUME ScriptsInv, NEW i \in Instances, ReadRecorded(i)
    PROVE  ScriptsInv'
<1> USE DEF ScriptsInv, ReadRecorded, Goto, database, ledger
<1>1. TypeOK'
    BY FilesNumbered DEF TypeOK, Migrating, Recorded
<1>2. RecordedIsInstalled' /\ RecordedOnce'
    BY DEF RecordedIsInstalled, RecordedOnce, Recorded
<1>3. KnownInstalled'
    BY DEF TypeOK, KnownInstalled, RecordedIsInstalled
<1>4. PassedInstalled'
    BY FilesNumbered DEF TypeOK, PassedInstalled
<1>5. Recording'
    BY DEF TypeOK, Recording, File
<1>6. NobodyListensWithout'
    BY DEF TypeOK, NobodyListensWithout
<1>7. QED
    BY <1>1, <1>2, <1>3, <1>4, <1>5, <1>6

LEMMA SkipPreserves ==
    ASSUME ScriptsInv, NEW i \in Instances, Skip(i)
    PROVE  ScriptsInv'
<1> USE DEF ScriptsInv, Skip, database, ledger
<1>1. at[i] \in 1..Len(Files) /\ File(i) \in installed
    BY FilesNumbered DEF TypeOK, MoreFiles, KnownInstalled
<1>2. TypeOK'
    BY <1>1, FilesNumbered DEF TypeOK
<1>3. RecordedIsInstalled' /\ RecordedOnce' /\ KnownInstalled'
    BY DEF RecordedIsInstalled, RecordedOnce, Recorded, KnownInstalled
<1>4. PassedInstalled'
    BY <1>1, FilesNumbered DEF TypeOK, PassedInstalled, File
<1>5. Recording'
    BY DEF TypeOK, Recording, File
<1>6. NobodyListensWithout'
    BY DEF NobodyListensWithout
<1>7. QED
    BY <1>2, <1>3, <1>4, <1>5, <1>6

(* Only a script that is not installed is applied, so it has no row and    *)
(* nobody is about to record it.                                           *)
LEMMA ApplyPreserves ==
    ASSUME ScriptsInv, NEW i \in Instances, Apply(i)
    PROVE  ScriptsInv'
<1> USE DEF ScriptsInv, Apply, Goto, ledger
<1>1. at[i] \in 1..Len(Files) /\ File(i) \in Scripts
    BY FilesNumbered DEF TypeOK, MoreFiles, File
<1>2. CASE Refused(File(i))
    <2>1. TypeOK'
        BY <1>2 DEF TypeOK, Migrating
    <2>2. RecordedIsInstalled' /\ RecordedOnce' /\ KnownInstalled'
        BY <1>2 DEF RecordedIsInstalled, RecordedOnce, Recorded, KnownInstalled
    <2>3. PassedInstalled' /\ NobodyListensWithout'
        BY <1>2 DEF TypeOK, PassedInstalled, NobodyListensWithout
    <2>4. Recording'
        BY <1>2 DEF TypeOK, Recording, File
    <2>5. QED
        BY <2>1, <2>2, <2>3, <2>4
<1>3. CASE ~Refused(File(i))
    <2>1. /\ File(i) \notin installed
          /\ installed' = installed \union {File(i)}
          /\ recorded[File(i)] = 0
        BY <1>1, <1>3 DEF TypeOK, Refused, RecordedIsInstalled, Recorded
    <2>2. TypeOK'
        BY <1>1, <1>3 DEF TypeOK, Migrating
    <2>3. RecordedIsInstalled' /\ RecordedOnce' /\ KnownInstalled'
        BY <1>3 DEF RecordedIsInstalled, RecordedOnce, Recorded, KnownInstalled
    <2>4. PassedInstalled'
        BY <1>3 DEF TypeOK, PassedInstalled
    <2>5. Recording'
        <3>1. \A j \in Instances \ {i} : place[j] = "record" => File(j) # File(i)
            BY <2>1 DEF Recording
        <3>2. QED
            BY <1>1, <1>3, <2>1, <3>1 DEF TypeOK, Recording, File
    <2>6. NobodyListensWithout'
        BY <1>1, <1>3 DEF TypeOK, NobodyListensWithout
    <2>7. QED
        BY <2>2, <2>3, <2>4, <2>5, <2>6
<1>4. QED
    BY <1>2, <1>3

LEMMA RecordPreserves ==
    ASSUME ScriptsInv, NEW i \in Instances, Record(i)
    PROVE  ScriptsInv'
<1> USE DEF ScriptsInv, Record, Goto, ledger
<1>1. /\ at[i] \in 1..Len(Files) /\ File(i) \in Scripts
      /\ File(i) \in installed /\ recorded[File(i)] = 0
    BY FilesNumbered DEF TypeOK, Recording, File
<1>2. TypeOK'
    BY <1>1, FilesNumbered DEF TypeOK, Migrating
<1>3. RecordedIsInstalled' /\ RecordedOnce' /\ KnownInstalled'
    BY <1>1 DEF TypeOK, RecordedIsInstalled, RecordedOnce, Recorded, KnownInstalled
<1>4. PassedInstalled'
    BY <1>1, FilesNumbered DEF TypeOK, PassedInstalled, File
<1>5. Recording'
    <2>1. ASSUME NEW j \in Instances, place'[j] = "record"
          PROVE  /\ j # i /\ place[j] = "record" /\ at'[j] = at[j]
                 /\ File(j)' = File(j) /\ File(j) # File(i)
        BY <2>1 DEF TypeOK, Recording, File
    <2>2. ASSUME NEW j \in Instances, place'[j] = "record"
          PROVE  recorded'[File(j)] = 0
        BY <2>1, <2>2, FilesNumbered DEF TypeOK, Recording, File
    <2>3. QED
        BY <2>1, <2>2 DEF Recording
<1>6. NobodyListensWithout'
    BY DEF TypeOK, NobodyListensWithout
<1>7. QED
    BY <1>2, <1>3, <1>4, <1>5, <1>6

(* Past the last file every script is installed.                           *)
LEMMA ListenPreserves ==
    ASSUME ScriptsInv, NEW i \in Instances, Listen(i)
    PROVE  ScriptsInv'
<1> USE DEF ScriptsInv, Listen, Goto, database, ledger
<1>1. installed = Scripts
    <2>1. \A n \in 1..Len(Files) : Files[n] \in installed
        BY FilesNumbered DEF TypeOK, PassedInstalled, MoreFiles
    <2>2. QED
        BY <2>1, FilesNumbered DEF TypeOK
<1>2. TypeOK'
    BY DEF TypeOK, Migrating
<1>3. RecordedIsInstalled' /\ RecordedOnce' /\ KnownInstalled'
    BY DEF RecordedIsInstalled, RecordedOnce, Recorded, KnownInstalled
<1>4. PassedInstalled'
    BY DEF TypeOK, PassedInstalled
<1>5. Recording'
    BY DEF TypeOK, Recording, File
<1>6. NobodyListensWithout'
    BY <1>1 DEF NobodyListensWithout
<1>7. QED
    BY <1>2, <1>3, <1>4, <1>5, <1>6

(* Who posts is listening, so the trigger is there: a posting is one of    *)
(* the ledger's.                                                           *)
LEMMA PostIsGuarded ==
    ASSUME ScriptsInv, NEW i \in Instances, Post(i)
    PROVE  /\ UNCHANGED <<database, instance, disturbed>>
           /\ \E w \in Wallets, k \in Keys, a \in Amounts :
                  Abstract!Deposit(w, k, a) \/ Abstract!Withdraw(w, k, a)
<1>1. BalanceScript \in installed
    BY BalanceScriptAssumption DEF ScriptsInv, NobodyListensWithout, Post
<1>2. QED
    BY <1>1 DEF Post

LEMMA PostPreserves ==
    ASSUME ScriptsInv, NEW i \in Instances, Post(i)
    PROVE  ScriptsInv'
<1> USE DEF ScriptsInv, database, instance
<1>1. UNCHANGED <<database, instance, disturbed>>
    BY PostIsGuarded
<1>2. TypeOK'
    <2>1. PICK w \in Wallets, k \in Keys, a \in Amounts :
              Abstract!Deposit(w, k, a) \/ Abstract!Withdraw(w, k, a)
        BY PostIsGuarded
    <2>2. a \in Int /\ balance[w] \in Int
        BY AmountsAssumption DEF TypeOK
    <2>3. balance' \in [Wallets -> Int]
        BY <2>1, <2>2 DEF TypeOK, Abstract!Deposit, Abstract!Withdraw
    <2>4. book' \subseteq [wallet: Wallets, key: Keys, type: {"CREDIT", "DEBIT"}, amount: Amounts]
        BY <2>1 DEF TypeOK, Abstract!Deposit, Abstract!Withdraw, Abstract!Row
    <2>5. QED
        BY <1>1, <2>3, <2>4 DEF TypeOK
<1>3. RecordedIsInstalled' /\ RecordedOnce' /\ KnownInstalled'
    BY <1>1 DEF RecordedIsInstalled, RecordedOnce, Recorded, KnownInstalled
<1>4. PassedInstalled' /\ Recording' /\ NobodyListensWithout'
    BY <1>1 DEF PassedInstalled, Recording, File, NobodyListensWithout
<1>5. QED
    BY <1>2, <1>3, <1>4

LEMMA NextPreserves == ScriptsInv /\ [Next]_vars => ScriptsInv'
<1> SUFFICES ASSUME ScriptsInv, [Next]_vars PROVE ScriptsInv'
    OBVIOUS
<1>1. ASSUME NEW i \in Instances, Migrate(i) PROVE ScriptsInv'
    BY <1>1, ReadPreserves, SkipPreserves, ApplyPreserves, RecordPreserves,
       ListenPreserves DEF Migrate
<1>2. CASE UNCHANGED vars
    <2> USE <1>2 DEF vars, database, instance, ledger, ScriptsInv
    <2>1. TypeOK' /\ RecordedIsInstalled' /\ RecordedOnce' /\ KnownInstalled'
        BY DEF TypeOK, RecordedIsInstalled, RecordedOnce, Recorded, KnownInstalled
    <2>2. PassedInstalled' /\ Recording' /\ NobodyListensWithout'
        BY DEF PassedInstalled, Recording, File, NobodyListensWithout
    <2>3. QED
        BY <2>1, <2>2
<1>3. QED
    BY <1>1, <1>2, StartOrStopPreserves, PostPreserves DEF Next

(* ScriptsInv holds in every reachable state.                                     *)
THEOREM Invariance == Spec => []ScriptsInv
<1>1. Init => ScriptsInv
    BY InitInv
<1>2. ScriptsInv /\ [Next]_vars => ScriptsInv'
    BY NextPreserves
<1>3. QED
    BY <1>1, <1>2, PTL DEF Spec

-----------------------------------------------------------------------------

(* Stops between a script and its record never leave a script recorded     *)
(* that was not applied.                                                   *)
THEOREM RecordsAreTrue == Spec => []RecordedIsInstalled
<1>1. ScriptsInv => RecordedIsInstalled
    BY DEF ScriptsInv
<1>2. QED
    BY <1>1, Invariance, PTL

(* Instances that start together never record a script twice.              *)
THEOREM RecordsAreSingle == Spec => []RecordedOnce
<1>1. ScriptsInv => RecordedOnce
    BY DEF ScriptsInv
<1>2. QED
    BY <1>1, Invariance, PTL

(* No instance ever listens before all the triggers are there.             *)
THEOREM ListenersAreGuarded == Spec => []NobodyListensWithout
<1>1. ScriptsInv => NobodyListensWithout
    BY DEF ScriptsInv
<1>2. QED
    BY <1>1, Invariance, PTL

(* Across starts, races and stops the tables change only as Ledger does.   *)
THEOREM Refinement == Spec => ImplementsLedger
<1>1. Init => Abstract!Init
    BY DEF Init, Abstract!Init
<1>2. ScriptsInv /\ [Next]_vars => [Abstract!Next]_(Abstract!ledger)
    <2> SUFFICES ASSUME ScriptsInv, [Next]_vars
                 PROVE  Abstract!Next \/ UNCHANGED <<book, balance>>
        BY DEF Abstract!ledger
    <2>1. ASSUME NEW i \in Instances, Post(i) PROVE Abstract!Next
        BY <2>1, PostIsGuarded DEF Abstract!Next
    <2>2. ASSUME NEW i \in Instances, Start(i) \/ Stop(i) \/ Migrate(i)
          PROVE  UNCHANGED <<book, balance>>
        BY <2>2 DEF Start, Stop, Migrate, ReadRecorded, Skip, Apply, Record,
                    Listen, ledger
    <2>3. QED
        BY <2>1, <2>2 DEF Next, vars, ledger
<1>3. QED
    BY <1>1, <1>2, Invariance, PTL DEF Spec, ImplementsLedger, Abstract!Spec
=============================================================================
