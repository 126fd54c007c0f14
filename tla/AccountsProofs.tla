--------------------------- MODULE AccountsProofs ---------------------------
(***************************************************************************)
(* Proofs about Accounts, for any number of addresses, names, requests and *)
(* connections.  Inv is the inductive invariant: it says what each open    *)
(* transaction may have written, and that no two of them, and none of them *)
(* and a committed row, claim one key.                                     *)
(***************************************************************************)
EXTENDS Accounts, FiniteSetTheorems, TLAPS

(* Before a transaction has written, or after it; a sign-up that has.      *)
Unwritten == {"start", "find", "insert", "select", "update", "rename"} \union Ended
SigningUp == {"totals", "saveTotals", "wallet", "assign"}
Written == {"notify", "commit"}

(* Which rows a request has written, and which it is about.                *)
PathOf(j) ==
    /\ step[j] \in InTransaction => Work[j].kind = "enter"
    /\ step[j] = "rename" => Work[j].kind = "rename"
    /\ step[j] \in Unwritten => DOMAIN mine[j] = {}
    /\ step[j] \in SigningUp => DOMAIN mine[j] = {j}
    /\ step[j] = "assign" => j \in wallets
    /\ step[j] \in Written => DOMAIN mine[j] \in {{j}, {target[j]}}
    /\ step[j] \in {"select", "update", "rename"} => target[j] \in DOMAIN users
    /\ step[j] \in Written /\ j \notin DOMAIN mine[j] => target[j] \in DOMAIN users
    /\ j \in DOMAIN users => step[j] = "done"
    /\ totalLock = j =>
           step[j] \in {"wallet", "assign"} \union Written /\ j \in DOMAIN mine[j]

PathInv == DOMAIN mine = Jobs /\ \A j \in Jobs : PathOf(j)

(* A user name that looks like an address is the user's own.               *)
OwnName(row) == row.username \in Emails => row.username = row.email

(* What a row says of its wallet and its address.                          *)
RowsOf(j) ==
    /\ \A x \in DOMAIN mine[j] :
           /\ OwnName(mine[j][x])
           /\ mine[j][x].email = Work[j].email
           /\ x \in DOMAIN users => mine[j][x].email = users[x].email
           /\ step[j] \in Written => mine[j][x].wallet = x /\ x \in wallets
    /\ step[j] \in {"select", "update"} =>
           /\ memory[j] \in UserRow /\ OwnName(memory[j])
           /\ memory[j].email = Work[j].email
           /\ memory[j].email = users[target[j]].email
           /\ memory[j].wallet = target[j]
    /\ step[j] = "update" =>
           /\ base[j] \in UserRow
           /\ base[j].email = memory[j].email
           /\ base[j].wallet = target[j]

RowInv ==
    /\ \A x \in DOMAIN users :
           users[x].wallet = x /\ x \in wallets /\ OwnName(users[x])
    /\ \A j \in Jobs : RowsOf(j)

(* Keys are unique among committed rows, and no open transaction has a key *)
(* of another's row or of another committed one.                           *)
UniqueInv ==
    /\ \A x, y \in DOMAIN users : Alike(users[x], users[y]) => x = y
    /\ \A j \in Jobs : \A x \in DOMAIN mine[j] :
           /\ \A y \in DOMAIN users \ {x} : ~Alike(users[y], mine[j][x])
           /\ \A q \in Jobs \ {j} : \A y \in DOMAIN mine[q] :
                  y # x /\ ~Alike(mine[q][y], mine[j][x])

(* A transaction that gives a user another name has found the old one.     *)
NameInv ==
    \A j \in Jobs : \A x \in DOMAIN mine[j] :
        x \in DOMAIN users /\ mine[j][x].username # users[x].username =>
            target[j] = x /\ memory[j].username # base[j].username

(* A total that is about to be saved counts one user more at most.         *)
CountInv ==
    /\ IsFiniteSet(DOMAIN users)
    /\ TotalNeverAbove
    /\ \A j \in Jobs :
           step[j] \in (SigningUp \ {"totals"}) \union Written /\ j \in DOMAIN mine[j] =>
               tally[j] <= Cardinality(DOMAIN users) + 1

(* Each connection in use is that of one transaction.                      *)
Running == {j \in Jobs : step[j] \in InTransaction}
PoolInv == IsFiniteSet(Running) /\ free = PoolSize - Cardinality(Running)

(* A wallet without its user is that of a sign-up that has made it, a      *)
(* welcome without its user that of one about to be committed.             *)
LeftoverInv ==
    /\ \A w \in wallets :
           \/ w \in DOMAIN users
           \/ step[w] \in {"assign"} \union Written /\ w \in DOMAIN mine[w]
           \/ step[w] = "failed"
    /\ \A m \in mails :
           \/ \E x \in DOMAIN users : users[x].email = m.to
           \/ /\ m.template = "welcome" /\ m.to = Work[m.job].email
              /\ \/ step[m.job] = "commit" /\ m.job \in DOMAIN mine[m.job]
                 \/ step[m.job] = "failed"

Inv ==
    /\ TypeOK
    /\ PathInv
    /\ RowInv
    /\ UniqueInv
    /\ NameInv
    /\ CountInv
    /\ PoolInv
    /\ LeftoverInv

-----------------------------------------------------------------------------

(* The initial states satisfy the invariant.                               *)
LEMMA InitInv == Init => Inv
<1> SUFFICES ASSUME Init PROVE Inv
    OBVIOUS
<1> USE DEF Init
<1>1. TypeOK
    BY PoolAssumption DEF TypeOK
<1>2. DOMAIN users = {} /\ \A j \in Jobs : DOMAIN mine[j] = {}
    OBVIOUS
<1>3. PathInv /\ RowInv /\ UniqueInv /\ NameInv /\ LeftoverInv
    BY <1>2, NobodyAssumption
    DEF PathInv, PathOf, RowInv, RowsOf, UniqueInv, NameInv, LeftoverInv, Unwritten, SigningUp,
        Written, InTransaction
<1>4. CountInv
    BY <1>2, FS_EmptySet DEF CountInv, TotalNeverAbove, SigningUp, Written
<1>5. PoolInv
    <2>1. Running = {}
        BY DEF Running, InTransaction
    <2>2. QED
        BY <2>1, FS_EmptySet, PoolAssumption DEF PoolInv
<1>6. QED
    BY <1>1, <1>3, <1>4, <1>5 DEF Inv

(* A step moves one request.                                               *)
LEMMA Moved ==
    ASSUME Inv, NEW j \in Jobs, NEW place, Goto(j, place)
    PROVE  step'[j] = place /\ \A q \in Jobs \ {j} : step'[q] = step[q]
BY DEF Inv, TypeOK, Goto

(* What a request asks for.                                                *)
LEMMA WorkTyped ==
    ASSUME NEW j \in Jobs
    PROVE  /\ Work[j].kind = "enter" => Work[j].email \in Emails
           /\ Work[j].kind = "rename" => Work[j].name \in Names /\ NewName(j) \in Names
BY WorkAssumption, NamesAssumption DEF Job, NewName

-----------------------------------------------------------------------------
(* Connections.                                                            *)

LEMMA ConnectionTaken ==
    ASSUME Inv, NEW j \in Jobs, NEW place \in InTransaction, Goto(j, place),
           step[j] \notin InTransaction, free > 0, free' = free - 1
    PROVE  PoolInv' /\ free' \in 0..PoolSize
<1>1. Running' = Running \union {j} /\ j \notin Running
    BY Moved DEF Running
<1>2. IsFiniteSet(Running) /\ free = PoolSize - Cardinality(Running)
    BY DEF Inv, PoolInv
<1>3. IsFiniteSet(Running') /\ Cardinality(Running') = Cardinality(Running) + 1
    BY <1>1, <1>2, FS_AddElement
<1>4. Cardinality(Running) \in Nat /\ PoolSize \in Nat
    BY <1>2, FS_CardinalityType, PoolAssumption
<1>5. QED
    BY <1>2, <1>3, <1>4 DEF PoolInv

LEMMA ConnectionKept ==
    ASSUME Inv, NEW j \in Jobs, NEW place, Goto(j, place),
           step[j] \in InTransaction <=> place \in InTransaction, free' = free
    PROVE  PoolInv' /\ free' \in 0..PoolSize
<1>1. Running' = Running
    BY Moved DEF Running
<1>2. QED
    BY <1>1 DEF Inv, PoolInv, TypeOK

LEMMA ConnectionReleased ==
    ASSUME Inv, NEW j \in Jobs, NEW place \in Ended, Goto(j, place),
           step[j] \in InTransaction, free' = free + 1
    PROVE  PoolInv' /\ free' \in 0..PoolSize
<1>1. Running' = Running \ {j} /\ j \in Running
    BY Moved DEF Running, Ended, InTransaction
<1>2. IsFiniteSet(Running) /\ free = PoolSize - Cardinality(Running)
    BY DEF Inv, PoolInv
<1>3. IsFiniteSet(Running') /\ Cardinality(Running') = Cardinality(Running) - 1
    BY <1>1, <1>2, FS_RemoveElement
<1>4. /\ Cardinality(Running) \in Nat /\ Cardinality(Running') \in Nat
      /\ PoolSize \in Nat /\ free \in Nat
    BY <1>2, <1>3, FS_CardinalityType, PoolAssumption DEF Inv, TypeOK
<1>5. free' = PoolSize - Cardinality(Running')
    BY <1>2, <1>3, <1>4
<1>6. QED
    BY <1>3, <1>4, <1>5 DEF PoolInv

-----------------------------------------------------------------------------
(* Every action keeps the invariant.                                       *)

(* A request begins, or a statement only reads, and no row is written.     *)
LEMMA ReadsPreserve ==
    ASSUME Inv, NEW j \in Jobs,
           \/ BeginTransaction(j) \/ CheckAvailability(j) \/ FindUser(j)
           \/ ReadTotal(j) \/ SelectUser(j)
    PROVE  Inv'
<1> USE DEF tables, open, local
<1>1. PICK place : Goto(j, place)
    BY DEF BeginTransaction, CheckAvailability, FindUser, ReadTotal, SelectUser
<1>2. step'[j] = place /\ \A q \in Jobs \ {j} : step'[q] = step[q]
    BY <1>1, Moved
<1>3. UNCHANGED <<users, wallets, total, mine, totalLock, mails>>
    BY DEF BeginTransaction, CheckAvailability, FindUser, ReadTotal, SelectUser
<1>4. PoolInv' /\ free' \in 0..PoolSize
    <2>1. CASE BeginTransaction(j)
        BY <2>1, ConnectionTaken DEF BeginTransaction, InTransaction
    <2>2. CASE ~BeginTransaction(j)
        BY <2>2, ConnectionKept
        DEF CheckAvailability, FindUser, ReadTotal, SelectUser, InTransaction
    <2>3. QED
        BY <2>1, <2>2
<1>5. /\ \/ step[j] = "start" /\ place = "find" /\ Work[j].kind = "enter"
         \/ step[j] = "start" /\ place \in {"rename", "refused"} /\ Work[j].kind = "rename"
         \/ step[j] = "find" /\ place \in {"select", "insert"}
         \/ step[j] = "totals" /\ place = "saveTotals"
         \/ step[j] = "select" /\ place = "update"
      /\ place = "rename" \/ place = "select" => target'[j] \in DOMAIN users
      /\ place = "select" =>
             /\ memory'[j] = users[target'[j]]
             /\ users[target'[j]].email = Work[j].email
      /\ place = "update" =>
             target'[j] = target[j] /\ memory'[j] = memory[j] /\ base'[j] = users[target[j]]
      /\ IF place = "saveTotals" THEN tally'[j] = total + 1 ELSE tally'[j] = tally[j]
      /\ \A q \in Jobs \ {j} :
             /\ target'[q] = target[q] /\ memory'[q] = memory[q]
             /\ base'[q] = base[q] /\ tally'[q] = tally[q]
    <2> USE <1>1, <1>2 DEF Inv, TypeOK, Goto
    <2>1. CASE BeginTransaction(j)
        BY <2>1 DEF BeginTransaction
    <2>2. CASE CheckAvailability(j)
        BY <2>2 DEF CheckAvailability
    <2>3. CASE FindUser(j)
        BY <2>3 DEF FindUser
    <2>4. CASE ReadTotal(j)
        BY <2>4 DEF ReadTotal
    <2>5. CASE SelectUser(j)
        BY <2>5 DEF SelectUser
    <2>6. QED
        BY <2>1, <2>2, <2>3, <2>4, <2>5
<1>6. TypeOK'
    <2> USE <1>1, <1>4 DEF Inv, TypeOK, Goto, InTransaction
    <2>1. CASE BeginTransaction(j)
        BY <2>1 DEF BeginTransaction
    <2>2. CASE CheckAvailability(j)
        BY <2>2 DEF CheckAvailability, Ended
    <2>3. CASE FindUser(j)
        BY <2>3 DEF FindUser
    <2>4. CASE ReadTotal(j)
        BY <2>4 DEF ReadTotal
    <2>5. CASE SelectUser(j)
        <3>1. target[j] \in DOMAIN users
            BY <2>5 DEF SelectUser, PathInv, PathOf
        <3>2. QED
            BY <2>5, <3>1 DEF SelectUser
    <2>6. QED
        BY <2>1, <2>2, <2>3, <2>4, <2>5
<1>7. /\ IF place = "saveTotals" THEN DOMAIN mine[j] = {j} ELSE DOMAIN mine[j] = {}
      /\ j \notin DOMAIN users /\ totalLock # j
    BY <1>5 DEF Inv, PathInv, PathOf, Unwritten, SigningUp, Written
<1>8. PathInv'
    <2> SUFFICES ASSUME NEW q \in Jobs PROVE PathOf(q)'
        BY <1>3 DEF Inv, PathInv
    <2>1. CASE q = j
        <3>1. PathOf(j)
            BY DEF Inv, PathInv
        <3>2. Work[j].kind = IF place \in {"rename", "refused"} /\ step[j] = "start"
                             THEN "rename" ELSE "enter"
            BY <1>5, <3>1 DEF PathOf, InTransaction
        <3>3. QED
            BY <1>2, <1>3, <1>5, <1>7, <2>1, <3>1, <3>2
            DEF PathOf, InTransaction, Unwritten, SigningUp, Written, Ended
    <2>2. CASE q # j
        <3>1. /\ PathOf(q) /\ step'[q] = step[q] /\ target'[q] = target[q]
              /\ UNCHANGED <<users, wallets, mine, totalLock>>
            BY <1>2, <1>3, <1>5, <2>2 DEF Inv, PathInv
        <3>2. QED
            BY <3>1 DEF PathOf
    <2>3. QED
        BY <2>1, <2>2
<1>9. RowInv'
    <2> SUFFICES ASSUME NEW q \in Jobs PROVE RowsOf(q)'
        BY <1>3 DEF Inv, RowInv
    <2>1. CASE q = j
        <3> USE <1>2, <1>3, <1>5, <2>1
        <3>1. /\ RowsOf(j)
              /\ \A x \in DOMAIN users :
                     users[x] \in UserRow /\ users[x].wallet = x /\ OwnName(users[x])
            BY DEF Inv, TypeOK, RowInv
        <3>2. step[j] \notin Written /\ step'[j] \notin Written
            BY DEF Written
        <3>3. CASE place \in {"select", "update"}
            <4>1. DOMAIN mine'[j] = {}
                BY <1>7, <3>3
            <4>2. CASE place = "select"
                BY <3>1, <4>1, <4>2 DEF RowsOf, OwnName
            <4>3. CASE place = "update"
                <5>1. step[j] = "select" /\ target[j] \in DOMAIN users
                    BY <4>3 DEF Inv, PathInv, PathOf
                <5>2. QED
                    BY <3>1, <4>1, <4>3, <5>1 DEF RowsOf, OwnName
            <4>4. QED
                BY <3>3, <4>2, <4>3
        <3>4. CASE place \notin {"select", "update"}
            BY <3>1, <3>2, <3>4 DEF RowsOf, OwnName
        <3>5. QED
            BY <3>3, <3>4
    <2>2. CASE q # j
        BY <1>2, <1>3, <1>5, <2>2 DEF Inv, RowInv, RowsOf, Written, OwnName
    <2>3. QED
        BY <2>1, <2>2
<1>10. UniqueInv'
    BY <1>3 DEF Inv, UniqueInv
<1>11. NameInv'
    <2>1. \A x \in DOMAIN mine[j] : x \notin DOMAIN users
        BY <1>7
    <2>2. QED
        BY <1>3, <1>5, <2>1 DEF Inv, NameInv
<1>12. CountInv'
    <2>1. Cardinality(DOMAIN users) \in Nat /\ total <= Cardinality(DOMAIN users) /\ total \in Nat
        BY FS_CardinalityType DEF Inv, CountInv, TotalNeverAbove, TypeOK
    <2>2. QED
        BY <1>2, <1>3, <1>5, <2>1 DEF Inv, CountInv, TotalNeverAbove, SigningUp, Written
<1>13. LeftoverInv'
    BY <1>2, <1>3, <1>5 DEF Inv, LeftoverInv, Written, TypeOK
<1>14. QED
    BY <1>4, <1>6, <1>8, <1>9, <1>10, <1>11, <1>12, <1>13 DEF Inv

(* Rolling back gives up keys and the connection, and touches no table; a  *)
(* request that is refused had not saved a wallet.                         *)
LEMMA RollBackPreserves ==
    ASSUME Inv, NEW j \in Jobs, NEW end \in {"refused", "failed"}, RollBack(j, end),
           step[j] \in InTransaction,
           end = "refused" => step[j] \in {"insert", "update"}
    PROVE  Inv'
<1> USE DEF tables, local
<1>1. Goto(j, end) /\ end \in Ended /\ free' = free + 1
    BY DEF RollBack, Ended
<1>2. step'[j] = end /\ \A q \in Jobs \ {j} : step'[q] = step[q]
    BY <1>1, Moved
<1>3. /\ UNCHANGED <<users, wallets, total, tally, target, memory, base, mails>>
      /\ DOMAIN mine = Jobs
    BY DEF RollBack, Inv, PathInv
<1>4. /\ DOMAIN mine' = Jobs /\ DOMAIN mine'[j] = {}
      /\ \A q \in Jobs \ {j} : mine'[q] = mine[q]
      /\ totalLock' # j /\ (totalLock' # NoJob => totalLock' = totalLock)
    BY <1>3, NobodyAssumption DEF RollBack
<1>5. PoolInv' /\ free' \in 0..PoolSize
    BY <1>1, ConnectionReleased
<1>6. TypeOK'
    <2>1. \A q \in Jobs :
              DOMAIN mine'[q] \subseteq Jobs /\ \A id \in DOMAIN mine'[q] : mine'[q][id] \in UserRow
        BY <1>4 DEF Inv, TypeOK
    <2>2. totalLock' \in Jobs \union {NoJob}
        BY <1>4 DEF Inv, TypeOK
    <2>3. step' \in [Jobs -> {"start", "rename"} \union InTransaction \union Ended]
        BY <1>1 DEF Goto, Inv, TypeOK
    <2>4. QED
        BY <1>3, <1>5, <2>1, <2>2, <2>3 DEF Inv, TypeOK
<1>7. PathInv'
    <2> SUFFICES ASSUME NEW q \in Jobs PROVE PathOf(q)'
        BY <1>4 DEF PathInv
    <2>1. CASE q = j
        <3>1. j \notin DOMAIN users
            BY DEF Inv, PathInv, PathOf, InTransaction
        <3>2. step'[j] \in {"refused", "failed"}
            BY <1>2
        <3>3. /\ step'[j] \notin InTransaction \union SigningUp \union Written
              /\ step'[j] \notin {"select", "update", "rename", "assign"}
            BY <3>2 DEF InTransaction, SigningUp, Written
        <3>4. QED
            BY <1>3, <1>4, <2>1, <3>1, <3>3 DEF PathOf
    <2>2. CASE q # j
        <3>1. totalLock' = q => totalLock = q
            BY <1>4, NobodyAssumption
        <3>2. PathOf(q) /\ step'[q] = step[q] /\ mine'[q] = mine[q]
            BY <1>2, <1>4, <2>2 DEF Inv, PathInv
        <3>3. QED
            BY <1>3, <3>1, <3>2 DEF PathOf
    <2>3. QED
        BY <2>1, <2>2
<1>8. RowInv'
    <2>1. \A q \in Jobs : RowsOf(q)'
        BY <1>2, <1>3, <1>4 DEF Inv, RowInv, RowsOf, OwnName, Written
    <2>2. QED
        BY <1>3, <2>1 DEF Inv, RowInv, OwnName
<1>9. UniqueInv'
    BY <1>3, <1>4 DEF Inv, UniqueInv, Alike
<1>10. NameInv'
    BY <1>3, <1>4 DEF Inv, NameInv
<1>11. CountInv'
    BY <1>2, <1>3, <1>4 DEF Inv, CountInv, TotalNeverAbove
<1>12. LeftoverInv'
    BY <1>2, <1>3, <1>4 DEF Inv, LeftoverInv, Written, TypeOK
<1>13. QED
    BY <1>5, <1>6, <1>7, <1>8, <1>9, <1>10, <1>11, <1>12 DEF Inv

(* The row of the totals is locked, the wallet is saved, an email is sent. *)
LEMMA SignUpPreserves ==
    ASSUME Inv, NEW j \in Jobs, SaveTotal(j) \/ CreateWallet(j) \/ Notify(j)
    PROVE  Inv'
<1> USE DEF tables, open, local
<1>1. PICK place \in {"wallet", "assign", "commit"} : Goto(j, place)
    BY DEF SaveTotal, CreateWallet, Notify
<1>2. step'[j] = place /\ \A q \in Jobs \ {j} : step'[q] = step[q]
    BY <1>1, Moved
<1>3. UNCHANGED <<users, total, mine, tally, free, target, memory, base>>
    BY DEF SaveTotal, CreateWallet, Notify
<1>4. /\ \/ step[j] = "saveTotals" /\ place = "wallet"
         \/ step[j] = "wallet" /\ place = "assign"
         \/ step[j] = "notify" /\ place = "commit"
      /\ \/ totalLock' = totalLock
         \/ place = "wallet" /\ totalLock = NoJob /\ totalLock' = j
      /\ wallets' = IF place = "assign" THEN wallets \union {j} ELSE wallets
      /\ \/ mails' = mails
         \/ place = "commit" /\ mails' = mails \union {Letter(j)}
    <2> USE <1>1, <1>2
    <2>1. CASE SaveTotal(j)
        BY <2>1 DEF SaveTotal, Goto, Inv, TypeOK
    <2>2. CASE CreateWallet(j)
        BY <2>2 DEF CreateWallet, Goto, Inv, TypeOK
    <2>3. CASE Notify(j)
        BY <2>3 DEF Notify, Goto, Inv, TypeOK
    <2>4. QED
        BY <2>1, <2>2, <2>3
<1>5. PoolInv' /\ free' \in 0..PoolSize
    BY <1>1, <1>3, <1>4, ConnectionKept DEF InTransaction
<1>6. Work[j].kind = "enter" /\ Work[j].email \in Emails
    BY <1>4, WorkTyped DEF Inv, PathInv, PathOf, InTransaction
<1>7. TypeOK'
    <2>1. Letter(j) \in [job: Jobs, to: Emails, template: {"welcome", "login"}]
        BY <1>6 DEF Letter
    <2>2. step' \in [Jobs -> {"start", "rename"} \union InTransaction \union Ended]
        BY <1>1 DEF Goto, Inv, TypeOK, InTransaction
    <2>3. QED
        BY <1>3, <1>4, <2>1, <2>2 DEF Inv, TypeOK
<1>8. PathInv'
    <2> SUFFICES ASSUME NEW q \in Jobs PROVE PathOf(q)'
        BY <1>3 DEF Inv, PathInv
    <2>1. CASE q = j
        BY <1>2, <1>3, <1>4, <1>6, <2>1, NobodyAssumption
        DEF Inv, PathInv, PathOf, InTransaction, Unwritten, SigningUp, Written, Ended
    <2>2. CASE q # j
        BY <1>2, <1>3, <1>4, <2>2 DEF Inv, PathInv, PathOf
    <2>3. QED
        BY <2>1, <2>2
<1>9. RowInv'
    <2>1. wallets \subseteq wallets'
        BY <1>4
    <2>2. \A q \in Jobs \ {j} : RowsOf(q)'
        BY <1>2, <1>3, <2>1 DEF Inv, RowInv, RowsOf, OwnName
    <2>3. RowsOf(j)'
        BY <1>2, <1>3, <1>4, <2>1 DEF Inv, RowInv, RowsOf, OwnName, Written
    <2>4. QED
        BY <1>3, <2>1, <2>2, <2>3 DEF Inv, RowInv, OwnName
<1>10. UniqueInv' /\ NameInv'
    BY <1>3 DEF Inv, UniqueInv, NameInv
<1>11. CountInv'
    BY <1>2, <1>3, <1>4 DEF Inv, CountInv, TotalNeverAbove, SigningUp, Written
<1>12. LeftoverInv'
    <2>1. step[j] = "wallet" => j \in DOMAIN mine[j]
        BY DEF Inv, PathInv, PathOf, SigningUp
    <2>2. j \notin DOMAIN mine[j] /\ step[j] = "notify" =>
              target[j] \in DOMAIN users /\ users[target[j]].email = Work[j].email
        <3> SUFFICES ASSUME j \notin DOMAIN mine[j], step[j] = "notify"
                     PROVE  target[j] \in DOMAIN users /\ users[target[j]].email = Work[j].email
            OBVIOUS
        <3>1. PathOf(j) /\ RowsOf(j)
            BY DEF Inv, PathInv, RowInv
        <3>2. target[j] \in DOMAIN users /\ target[j] \in DOMAIN mine[j]
            BY <3>1 DEF PathOf, Written
        <3>3. QED
            BY <3>1, <3>2 DEF RowsOf
    <2>3. QED
        BY <1>2, <1>3, <1>4, <2>1, <2>2 DEF Inv, LeftoverInv, Letter, Written, TypeOK
<1>13. QED
    BY <1>5, <1>7, <1>8, <1>9, <1>10, <1>11, <1>12 DEF Inv

(* A row that nobody has a key of may be written.                          *)
LEMMA WriteKeepsUnique ==
    ASSUME Inv, NEW j \in Jobs, NEW id, NEW row,
           DOMAIN mine'[j] = {id}, mine'[j][id] = row,
           \A q \in Jobs \ {j} : mine'[q] = mine[q], users' = users,
           ~Pending(j, id, row), ~Taken(id, row)
    PROVE  UniqueInv'
<1>1. DOMAIN mine = Jobs /\ UniqueInv
    BY DEF Inv, PathInv
<1>2. /\ DOMAIN mine'[j] = {id} /\ mine'[j][id] = row
      /\ \A q \in Jobs \ {j} : mine'[q] = mine[q]
    OBVIOUS
<1>3. \A y \in DOMAIN users \ {id} : ~Alike(users[y], row)
    BY DEF Taken
<1>4. \A q \in Jobs \ {j} : \A y \in DOMAIN mine[q] : y # id /\ ~Alike(mine[q][y], row)
    BY DEF Pending
<1>5. \A q \in Jobs \ {j} : \A y \in DOMAIN mine[q] : ~Alike(row, mine[q][y])
    BY <1>4 DEF Alike
<1>6. ASSUME NEW p \in Jobs, NEW x \in DOMAIN mine'[p]
      PROVE  /\ \A y \in DOMAIN users' \ {x} : ~Alike(users'[y], mine'[p][x])
             /\ \A q \in Jobs \ {p} : \A y \in DOMAIN mine'[q] :
                    y # x /\ ~Alike(mine'[q][y], mine'[p][x])
    <2>1. CASE p = j
        BY <1>2, <1>3, <1>4, <2>1 DEF Alike
    <2>2. CASE p # j
        BY <1>1, <1>2, <1>4, <1>5, <2>2 DEF UniqueInv, Alike
    <2>3. QED
        BY <2>1, <2>2
<1>7. QED
    BY <1>1, <1>6 DEF UniqueInv, Alike

(* A statement that writes a row of `users` in the transaction.            *)
LEMMA WritePreserves ==
    ASSUME Inv, NEW j \in Jobs, NEW place \in {"totals", "notify"}, Goto(j, place),
           NEW id \in Jobs, NEW row \in UserRow,
           DOMAIN mine' = Jobs, DOMAIN mine'[j] = {id}, mine'[j][id] = row,
           \A q \in Jobs \ {j} : mine'[q] = mine[q],
           UNCHANGED <<users, wallets, total, totalLock, tally, free, target, memory, base, mails>>,
           step[j] \in InTransaction \ {"saveTotals", "wallet", "notify", "commit"},
           ~Pending(j, id, row), ~Taken(id, row),
           OwnName(row), row.email = Work[j].email,
           \/ /\ place = "totals" /\ id = j /\ step[j] = "insert"
           \/ /\ place = "notify" /\ id \in DOMAIN users /\ id = target[j]
              /\ step[j] = "update" /\ row.wallet = id /\ row.email = users[id].email
              /\ row.username # users[id].username =>
                     memory[j].username # base[j].username
           \/ /\ place = "notify" /\ id = j /\ j \in DOMAIN mine[j] /\ step[j] = "assign"
              /\ j \in wallets /\ row.wallet = j
    PROVE  Inv'
<1>1. step'[j] = place /\ \A q \in Jobs \ {j} : step'[q] = step[q]
    BY Moved
<1>2. /\ DOMAIN mine' = Jobs /\ DOMAIN mine'[j] = {id} /\ mine'[j][id] = row
      /\ \A q \in Jobs \ {j} : mine'[q] = mine[q]
    OBVIOUS
<1>3. j \notin DOMAIN users
    BY DEF Inv, PathInv, PathOf, InTransaction
<1>4. PoolInv' /\ free' \in 0..PoolSize
    BY ConnectionKept DEF InTransaction
<1>5. TypeOK'
    <2>1. step' \in [Jobs -> {"start", "rename"} \union InTransaction \union Ended]
        BY DEF Goto, Inv, TypeOK, InTransaction
    <2>2. \A q \in Jobs :
              DOMAIN mine'[q] \subseteq Jobs /\ \A x \in DOMAIN mine'[q] : mine'[q][x] \in UserRow
        BY <1>2 DEF Inv, TypeOK
    <2>3. QED
        BY <1>4, <2>1, <2>2 DEF Inv, TypeOK
<1>6. PathInv'
    <2> SUFFICES ASSUME NEW q \in Jobs PROVE PathOf(q)'
        BY <1>2 DEF PathInv
    <2>1. CASE q = j
        <3>1. PathOf(j) /\ Work[j].kind = "enter"
            BY DEF Inv, PathInv, PathOf
        <3>2. CASE place = "totals"
            BY <1>1, <1>2, <1>3, <2>1, <3>1, <3>2
            DEF PathOf, InTransaction, Unwritten, SigningUp, Written, Ended
        <3>3. CASE place = "notify"
            BY <1>1, <1>2, <1>3, <2>1, <3>1, <3>3
            DEF PathOf, InTransaction, Unwritten, SigningUp, Written, Ended
        <3>4. QED
            BY <3>2, <3>3
    <2>2. CASE q # j
        <3>1. PathOf(q) /\ step'[q] = step[q] /\ mine'[q] = mine[q]
            BY <1>1, <1>2, <2>2 DEF Inv, PathInv
        <3>2. QED
            BY <3>1 DEF PathOf
    <2>3. QED
        BY <2>1, <2>2
<1>7. RowInv'
    <2>1. \A q \in Jobs \ {j} : RowsOf(q)'
        BY <1>1, <1>2 DEF Inv, RowInv, RowsOf, OwnName
    <2>2. RowsOf(j)'
        BY <1>1, <1>2, <1>3 DEF Inv, RowInv, RowsOf, OwnName, Written
    <2>3. QED
        BY <2>1, <2>2 DEF Inv, RowInv, OwnName
<1>8. UniqueInv'
    BY WriteKeepsUnique
<1>9. NameInv'
    BY <1>2, <1>3 DEF Inv, NameInv
<1>10. CountInv'
    BY <1>1, <1>2, <1>3 DEF Inv, CountInv, TotalNeverAbove, SigningUp, Written
<1>11. LeftoverInv'
    <2>1. step[j] \notin {"commit", "failed"}
        BY DEF InTransaction
    <2>2. QED
        BY <1>1, <1>2, <2>1 DEF Inv, LeftoverInv, Written, TypeOK
<1>12. QED
    BY <1>4, <1>5, <1>6, <1>7, <1>8, <1>9, <1>10, <1>11 DEF Inv

LEMMA InsertUserPreserves ==
    ASSUME Inv, NEW j \in Jobs, InsertUser(j)
    PROVE  Inv'
<1>1. step[j] = "insert" /\ ~Pending(j, j, NewUser(j))
    BY DEF InsertUser
<1>2. CASE Taken(j, NewUser(j))
    BY <1>1, <1>2, RollBackPreserves DEF InsertUser, InTransaction
<1>3. CASE ~Taken(j, NewUser(j))
    <2>1. DOMAIN mine[j] = {} /\ DOMAIN mine = Jobs /\ Work[j].email \in Emails
        BY <1>1, WorkTyped DEF Inv, PathInv, PathOf, Unwritten, InTransaction
    <2>2. /\ mine' = [mine EXCEPT ![j] = Put(mine[j], j, NewUser(j))]
          /\ Goto(j, "totals")
          /\ UNCHANGED <<users, wallets, total, totalLock, tally, free, target, memory, base, mails>>
        BY <1>3 DEF InsertUser, tables, local
    <2>3. /\ DOMAIN mine' = Jobs /\ DOMAIN mine'[j] = {j} /\ mine'[j][j] = NewUser(j)
          /\ \A q \in Jobs \ {j} : mine'[q] = mine[q]
        BY <2>1, <2>2 DEF Put
    <2>4. NewUser(j) \in UserRow /\ OwnName(NewUser(j)) /\ NewUser(j).email = Work[j].email
        BY <2>1 DEF NewUser, User, UserRow, OwnName
    <2>5. step[j] \in InTransaction \ {"saveTotals", "wallet", "notify", "commit"}
        BY <1>1 DEF InTransaction
    <2>6. QED
        BY <1>1, <1>3, <2>2, <2>3, <2>4, <2>5, WritePreserves
<1>4. QED
    BY <1>2, <1>3

LEMMA AssignWalletPreserves ==
    ASSUME Inv, NEW j \in Jobs, AssignWallet(j)
    PROVE  Inv'
<1> DEFINE row == [mine[j][j] EXCEPT !.wallet = j]
<1>1. step[j] = "assign"
    BY DEF AssignWallet
<1>2. DOMAIN mine[j] = {j} /\ DOMAIN mine = Jobs /\ j \in wallets /\ j \notin DOMAIN users
    BY <1>1 DEF Inv, PathInv, PathOf, SigningUp
<1>3. /\ mine[j][j] \in UserRow /\ OwnName(mine[j][j])
      /\ mine[j][j].email = Work[j].email
    BY <1>2 DEF Inv, TypeOK, RowInv, RowsOf
<1>4. /\ row \in UserRow /\ OwnName(row) /\ row.wallet = j
      /\ row.email = mine[j][j].email /\ row.username = mine[j][j].username
    BY <1>3 DEF UserRow, OwnName
<1>5. /\ mine' = [mine EXCEPT ![j] = Put(mine[j], j, row)]
      /\ Goto(j, "notify")
      /\ UNCHANGED <<users, wallets, total, totalLock, tally, free, target, memory, base, mails>>
    BY DEF AssignWallet, tables, local
<1> HIDE DEF row
<1>6. /\ DOMAIN mine' = Jobs /\ DOMAIN mine'[j] = {j} /\ mine'[j][j] = row
      /\ \A q \in Jobs \ {j} : mine'[q] = mine[q]
    BY <1>2, <1>5 DEF Put
<1>7. ~Taken(j, row)
    BY <1>2, <1>4 DEF Inv, UniqueInv, Taken, Alike
<1>8. ~Pending(j, j, row)
    <2> SUFFICES ASSUME NEW q \in Jobs \ {j}, NEW x \in DOMAIN mine[q]
                 PROVE  /\ x # j /\ ~Alike(mine[q][x], row)
                        /\ x \in DOMAIN users => ~Alike(users[x], row)
        BY DEF Pending
    <2>1. x # j /\ ~Alike(mine[q][x], mine[j][j])
        BY <1>2 DEF Inv, UniqueInv
    <2>2. x \in DOMAIN users => ~Alike(users[x], mine[j][j])
        BY <1>2, <2>1 DEF Inv, UniqueInv
    <2>3. QED
        BY <1>4, <2>1, <2>2 DEF Alike
<1>9. step[j] \in InTransaction \ {"saveTotals", "wallet", "notify", "commit"}
    BY <1>1 DEF InTransaction
<1>10. QED
    BY <1>1, <1>2, <1>3, <1>4, <1>5, <1>6, <1>7, <1>8, <1>9, WritePreserves

LEMMA UpdateUserPreserves ==
    ASSUME Inv, NEW j \in Jobs, UpdateUser(j)
    PROVE  Inv'
<1> DEFINE id == target[j]  row == Merged(j)
<1>1. step[j] = "update" /\ ~Pending(j, id, row)
    BY DEF UpdateUser
<1>2. CASE Taken(id, row)
    BY <1>1, <1>2, RollBackPreserves DEF UpdateUser, InTransaction
<1>3. CASE ~Taken(id, row)
    <2>1. /\ DOMAIN mine[j] = {} /\ DOMAIN mine = Jobs
          /\ id \in DOMAIN users /\ id \in Jobs
          /\ users[id] \in UserRow /\ users[id].wallet = id /\ OwnName(users[id])
        BY <1>1 DEF Inv, TypeOK, PathInv, PathOf, RowInv, Unwritten
    <2>2. /\ memory[j] \in UserRow /\ OwnName(memory[j]) /\ memory[j].email = Work[j].email
          /\ memory[j].email = users[id].email /\ memory[j].wallet = id
          /\ base[j].email = memory[j].email /\ base[j].wallet = id
        BY <1>1 DEF Inv, RowInv, RowsOf
    <2>3. row = [c \in {"email", "username", "wallet"} |->
                     IF memory[j][c] # base[j][c] THEN memory[j][c] ELSE users[id][c]]
        BY <2>1 DEF Merged, UserRow
    <2>4. /\ row.email = users[id].email /\ row.wallet = id
          /\ row.username = memory[j].username \/ row.username = users[id].username
          /\ row.username # users[id].username => memory[j].username # base[j].username
          /\ row = [email |-> row.email, username |-> row.username, wallet |-> row.wallet]
        BY <2>1, <2>2, <2>3
    <2>5. /\ mine' = [mine EXCEPT ![j] = Put(mine[j], id, row)]
          /\ Goto(j, "notify")
          /\ UNCHANGED <<users, wallets, total, totalLock, tally, free, target, memory, base, mails>>
        BY <1>3 DEF UpdateUser, tables, local
    <2> HIDE DEF id, row
    <2>6. row \in UserRow /\ OwnName(row) /\ row.email = Work[j].email
        BY <2>1, <2>2, <2>4 DEF UserRow, OwnName
    <2>7. /\ DOMAIN mine' = Jobs /\ DOMAIN mine'[j] = {id} /\ mine'[j][id] = row
          /\ \A q \in Jobs \ {j} : mine'[q] = mine[q]
        BY <2>1, <2>5 DEF Put
    <2>8. step[j] \in InTransaction \ {"saveTotals", "wallet", "notify", "commit"}
        BY <1>1 DEF InTransaction
    <2>9. id = target[j]
        BY DEF id
    <2>10. QED
        BY <1>1, <1>3, <2>1, <2>4, <2>5, <2>6, <2>7, <2>8, <2>9, WritePreserves
<1>4. QED
    BY <1>2, <1>3

(* A commit makes one row public, new or old, which nobody else claims.    *)
LEMMA CommitPreserves ==
    ASSUME Inv, NEW j \in Jobs, Commit(j)
    PROVE  Inv'
<1> USE DEF local
<1>1. /\ step[j] = "commit" /\ Goto(j, "done") /\ free' = free + 1
      /\ UNCHANGED <<wallets, tally, target, memory, base, mails>>
      /\ DOMAIN mine = Jobs /\ j \notin DOMAIN users /\ PathOf(j) /\ RowsOf(j)
    BY DEF Commit, Inv, PathInv, PathOf, RowInv
<1>2. step'[j] = "done" /\ \A q \in Jobs \ {j} : step'[q] = step[q]
    BY <1>1, Moved
<1>3. /\ DOMAIN mine' = Jobs /\ DOMAIN mine'[j] = {}
      /\ \A q \in Jobs \ {j} : mine'[q] = mine[q]
      /\ totalLock' # j /\ (totalLock' # NoJob => totalLock' = totalLock)
      /\ total' = IF totalLock = j THEN tally[j] ELSE total
    BY <1>1, NobodyAssumption DEF Commit
<1>4. PICK id : DOMAIN mine[j] = {id} /\ (id = j \/ id \in DOMAIN users)
    BY <1>1 DEF PathOf, Written
<1> DEFINE row == mine[j][id]
<1>5. /\ id \in Jobs /\ id \in wallets
      /\ row \in UserRow /\ OwnName(row) /\ row.wallet = id /\ row.email = Work[j].email
      /\ id \in DOMAIN users => row.email = users[id].email
    BY <1>1, <1>4 DEF RowsOf, Written, Inv, TypeOK
<1>6. users' = [x \in DOMAIN users \union {id} |-> IF x \in {id} THEN mine[j][x] ELSE users[x]]
    BY <1>4 DEF Commit
<1>7. /\ DOMAIN users' = DOMAIN users \union {id} /\ users'[id] = row
      /\ \A x \in DOMAIN users \ {id} : users'[x] = users[x]
    BY <1>6
<1>8. /\ \A y \in DOMAIN users \ {id} : ~Alike(users[y], row)
      /\ \A q \in Jobs \ {j} : \A y \in DOMAIN mine[q] :
             y # id /\ ~Alike(mine[q][y], row) /\ ~Alike(row, mine[q][y])
    BY <1>4 DEF Inv, UniqueInv, Alike
<1> HIDE DEF row
<1>9. PoolInv' /\ free' \in 0..PoolSize
    BY <1>1, ConnectionReleased DEF InTransaction, Ended
<1>10. TypeOK'
    <2>1. step' \in [Jobs -> {"start", "rename"} \union InTransaction \union Ended]
        BY <1>1 DEF Goto, Inv, TypeOK, Ended
    <2>2. \A q \in Jobs :
              DOMAIN mine'[q] \subseteq Jobs /\ \A x \in DOMAIN mine'[q] : mine'[q][x] \in UserRow
        BY <1>3 DEF Inv, TypeOK
    <2>3. DOMAIN users' \subseteq Jobs /\ \A x \in DOMAIN users' : users'[x] \in UserRow
        BY <1>5, <1>7 DEF Inv, TypeOK
    <2>4. total' \in Nat /\ totalLock' \in Jobs \union {NoJob}
        BY <1>3 DEF Inv, TypeOK
    <2>5. QED
        BY <1>1, <1>9, <2>1, <2>2, <2>3, <2>4 DEF Inv, TypeOK
<1>11. PathInv'
    <2> SUFFICES ASSUME NEW q \in Jobs PROVE PathOf(q)'
        BY <1>3 DEF PathInv
    <2>1. CASE q = j
        BY <1>2, <1>3, <2>1
        DEF PathOf, InTransaction, Unwritten, SigningUp, Written, Ended
    <2>2. CASE q # j
        <3>1. /\ PathOf(q) /\ step'[q] = step[q] /\ mine'[q] = mine[q]
              /\ UNCHANGED <<wallets, target>>
            BY <1>1, <1>2, <1>3, <2>2 DEF Inv, PathInv
        <3>2. /\ q \in DOMAIN users' => q \in DOMAIN users
              /\ DOMAIN users \subseteq DOMAIN users'
              /\ totalLock' = q => totalLock = q
            BY <1>3, <1>4, <1>7, <2>2, NobodyAssumption
        <3>3. QED
            BY <3>1, <3>2 DEF PathOf
    <2>3. QED
        BY <2>1, <2>2
<1>12. RowInv'
    <2>1. ASSUME NEW x \in DOMAIN users'
          PROVE  users'[x].wallet = x /\ x \in wallets /\ OwnName(users'[x])
        BY <1>5, <1>7 DEF Inv, RowInv
    <2>2. \A x \in DOMAIN users : users'[x].email = users[x].email
        BY <1>5, <1>7
    <2>3. RowsOf(j)'
        BY <1>2, <1>3 DEF RowsOf
    <2>4. ASSUME NEW q \in Jobs \ {j} PROVE RowsOf(q)'
        <3>1. /\ RowsOf(q) /\ PathOf(q) /\ step'[q] = step[q] /\ mine'[q] = mine[q]
              /\ UNCHANGED <<wallets, target, memory, base>>
            BY <1>1, <1>2, <1>3 DEF Inv, PathInv, RowInv
        <3>2. \A x \in DOMAIN mine[q] : x \in DOMAIN users' => x \in DOMAIN users
            BY <1>7, <1>8
        <3>3. step[q] \in {"select", "update"} => target[q] \in DOMAIN users
            BY <3>1 DEF PathOf
        <3>4. QED
            BY <2>2, <3>1, <3>2, <3>3 DEF RowsOf, OwnName
    <2>5. QED
        BY <1>1, <2>1, <2>3, <2>4 DEF RowInv, OwnName
<1>13. UniqueInv'
    <2>1. UniqueInv
        BY DEF Inv
    <2>2. \A x, y \in DOMAIN users' : Alike(users'[x], users'[y]) => x = y
        BY <1>7, <1>8, <2>1 DEF UniqueInv, Alike
    <2>3. ASSUME NEW p \in Jobs, NEW x \in DOMAIN mine'[p]
          PROVE  /\ \A y \in DOMAIN users' \ {x} : ~Alike(users'[y], mine'[p][x])
                 /\ \A q \in Jobs \ {p} : \A y \in DOMAIN mine'[q] :
                        y # x /\ ~Alike(mine'[q][y], mine'[p][x])
        <3>1. p # j /\ mine'[p] = mine[p]
            BY <1>3
        <3>2. \A y \in DOMAIN users' \ {x} : ~Alike(users'[y], mine[p][x])
            BY <1>7, <1>8, <2>1, <3>1 DEF UniqueInv
        <3>3. QED
            BY <1>3, <2>1, <3>1, <3>2 DEF UniqueInv, Alike
    <2>4. QED
        BY <2>2, <2>3 DEF UniqueInv, Alike
<1>14. NameInv'
    BY <1>1, <1>3, <1>7, <1>8 DEF Inv, NameInv
<1>15. CountInv'
    <2>1. /\ IsFiniteSet(DOMAIN users) /\ total <= Cardinality(DOMAIN users) /\ total \in Nat
          /\ tally \in [Jobs -> Nat]
        BY DEF Inv, CountInv, TotalNeverAbove, TypeOK
    <2>2. /\ IsFiniteSet(DOMAIN users')
          /\ Cardinality(DOMAIN users') = IF id \in DOMAIN users
                                          THEN Cardinality(DOMAIN users)
                                          ELSE Cardinality(DOMAIN users) + 1
        BY <1>7, <2>1, FS_AddElement
    <2>3. Cardinality(DOMAIN users) \in Nat
        BY <2>1, FS_CardinalityType
    <2>4. totalLock = j =>
              id \notin DOMAIN users /\ tally[j] <= Cardinality(DOMAIN users) + 1
        BY <1>1, <1>4 DEF PathOf, Inv, CountInv, Written
    <2>5. total' <= Cardinality(DOMAIN users')
        BY <1>3, <2>1, <2>2, <2>3, <2>4
    <2>6. ASSUME NEW q \in Jobs, q \in DOMAIN mine'[q],
                 step'[q] \in (SigningUp \ {"totals"}) \union Written
          PROVE  tally[q] <= Cardinality(DOMAIN users') + 1
        <3>1. tally[q] <= Cardinality(DOMAIN users) + 1
            BY <1>2, <1>3, <2>6 DEF Inv, CountInv
        <3>2. QED
            BY <2>1, <2>2, <2>3, <3>1
    <2>7. QED
        BY <1>1, <2>2, <2>5, <2>6 DEF CountInv, TotalNeverAbove
<1>16. LeftoverInv'
    <2>1. LeftoverInv /\ wallets \subseteq Jobs /\ \A m \in mails : m.job \in Jobs
        BY DEF Inv, TypeOK
    <2>2. ASSUME NEW w \in wallets
          PROVE  \/ w \in DOMAIN users'
                 \/ step'[w] \in {"assign"} \union Written /\ w \in DOMAIN mine'[w]
                 \/ step'[w] = "failed"
        BY <1>1, <1>2, <1>3, <1>4, <1>7, <2>1 DEF LeftoverInv
    <2>3. ASSUME NEW m \in mails
          PROVE  \/ \E x \in DOMAIN users' : users'[x].email = m.to
                 \/ /\ m.template = "welcome" /\ m.to = Work[m.job].email
                    /\ \/ step'[m.job] = "commit" /\ m.job \in DOMAIN mine'[m.job]
                       \/ step'[m.job] = "failed"
        <3>1. CASE \E x \in DOMAIN users : users[x].email = m.to
            BY <1>5, <1>7, <3>1
        <3>2. CASE m.job = j /\ m.to = Work[j].email
            BY <1>5, <1>7, <3>2
        <3>3. CASE m.job # j
            BY <1>2, <1>3, <2>1, <3>1, <3>3 DEF LeftoverInv
        <3>4. QED
            BY <2>1, <3>1, <3>2, <3>3 DEF LeftoverInv
    <2>4. QED
        BY <1>1, <2>2, <2>3 DEF LeftoverInv
<1>17. QED
    BY <1>9, <1>10, <1>11, <1>12, <1>13, <1>14, <1>15, <1>16 DEF Inv

(* A rename changes the name in one row that no transaction has written.   *)
LEMMA RenamePreserves ==
    ASSUME Inv, NEW j \in Jobs, Rename(j)
    PROVE  Inv'
<1> USE DEF tables, open, local
<1> DEFINE id == target[j]  row == [users[id] EXCEPT !.username = NewName(j)]
<1>1. /\ step[j] = "rename" /\ ~Pending(j, id, row)
      /\ UNCHANGED <<wallets, total, mine, totalLock, tally, free, target, memory, base, mails>>
    BY DEF Rename
<1>2. PICK place \in {"refused", "done"} : Goto(j, place)
    BY DEF Rename
<1>3. step'[j] = place /\ \A q \in Jobs \ {j} : step'[q] = step[q]
    BY <1>2, Moved
<1>4. /\ id \in DOMAIN users /\ users[id] \in UserRow /\ OwnName(users[id])
      /\ NewName(j) \in Names /\ DOMAIN mine[j] = {} /\ DOMAIN mine = Jobs
      /\ j \notin DOMAIN users /\ totalLock # j
    BY <1>1, WorkTyped
    DEF Inv, TypeOK, PathInv, PathOf, RowInv, Unwritten, Written
<1>5. /\ row \in UserRow /\ row.email = users[id].email /\ row.wallet = users[id].wallet
      /\ OwnName(row)
    BY <1>4, NamesAssumption DEF UserRow, OwnName
<1>6. \/ users' = users
      \/ users' = Put(users, id, row) /\ ~Taken(id, row)
    BY DEF Rename
<1> HIDE DEF id, row
<1>7. \A q \in Jobs : \A x \in DOMAIN mine[q] : users' = Put(users, id, row) =>
          x # id /\ ~Alike(mine[q][x], row) /\ ~Alike(row, mine[q][x])
    BY <1>1, <1>4 DEF Pending, Alike
<1>8. /\ DOMAIN users' = DOMAIN users
      /\ \A x \in DOMAIN users :
             /\ users'[x] \in UserRow /\ OwnName(users'[x])
             /\ users'[x].email = users[x].email /\ users'[x].wallet = users[x].wallet
    BY <1>4, <1>5, <1>6 DEF Put, Inv, TypeOK, RowInv
<1>9. \A q \in Jobs : \A x \in DOMAIN mine[q] : x \in DOMAIN users => users'[x] = users[x]
    BY <1>6, <1>7 DEF Put
<1>10. PoolInv' /\ free' \in 0..PoolSize
    BY <1>1, <1>2, ConnectionKept DEF InTransaction
<1>11. TypeOK'
    <2>1. step' \in [Jobs -> {"start", "rename"} \union InTransaction \union Ended]
        BY <1>2 DEF Goto, Inv, TypeOK, Ended
    <2>2. QED
        BY <1>1, <1>8, <2>1 DEF Inv, TypeOK
<1>12. PathInv'
    <2> SUFFICES ASSUME NEW q \in Jobs PROVE PathOf(q)'
        BY <1>1, <1>4 DEF PathInv
    <2>1. CASE q = j
        BY <1>1, <1>3, <1>4, <1>8, <2>1
        DEF PathOf, InTransaction, Unwritten, SigningUp, Written, Ended
    <2>2. CASE q # j
        <3>1. PathOf(q) /\ step'[q] = step[q]
            BY <1>3, <2>2 DEF Inv, PathInv
        <3>2. QED
            BY <1>1, <1>8, <3>1 DEF PathOf
    <2>3. QED
        BY <2>1, <2>2
<1>13. RowInv'
    <2>1. RowsOf(j)'
        BY <1>1, <1>3, <1>4 DEF RowsOf
    <2>2. ASSUME NEW q \in Jobs \ {j} PROVE RowsOf(q)'
        <3>1. RowsOf(q) /\ PathOf(q) /\ step'[q] = step[q]
            BY <1>3 DEF Inv, PathInv, RowInv
        <3>2. step[q] \in {"select", "update"} => target[q] \in DOMAIN users
            BY <3>1 DEF PathOf
        <3>3. QED
            BY <1>1, <1>8, <3>1, <3>2 DEF RowsOf, OwnName
    <2>3. QED
        BY <1>1, <1>8, <2>1, <2>2 DEF Inv, RowInv, OwnName
<1>14. UniqueInv'
    <2>1. CASE users' = users
        BY <1>1, <2>1 DEF Inv, UniqueInv
    <2>2. CASE users' = Put(users, id, row) /\ ~Taken(id, row)
        <3>1. /\ users'[id] = row /\ UniqueInv
              /\ \A x \in DOMAIN users \ {id} : users'[x] = users[x] /\ ~Alike(users[x], row)
            BY <2>2 DEF Put, Taken, Inv
        <3>2. \A x, y \in DOMAIN users' : Alike(users'[x], users'[y]) => x = y
            BY <1>8, <3>1 DEF UniqueInv, Alike
        <3>3. \A q \in Jobs : \A x \in DOMAIN mine[q] :
                  \A y \in DOMAIN users' \ {x} : ~Alike(users'[y], mine[q][x])
            BY <1>7, <1>8, <2>2, <3>1 DEF UniqueInv
        <3>4. QED
            BY <1>1, <3>1, <3>2, <3>3 DEF UniqueInv, Alike
    <2>3. QED
        BY <1>6, <2>1, <2>2
<1>15. NameInv'
    BY <1>1, <1>8, <1>9 DEF Inv, NameInv
<1>16. CountInv'
    BY <1>1, <1>3, <1>4, <1>8 DEF Inv, CountInv, TotalNeverAbove
<1>17. LeftoverInv'
    BY <1>1, <1>3, <1>4, <1>8 DEF Inv, LeftoverInv, TypeOK, Written
<1>18. QED
    BY <1>10, <1>11, <1>12, <1>13, <1>14, <1>15, <1>16, <1>17 DEF Inv

-----------------------------------------------------------------------------

(* Every step keeps the invariant.                                         *)
LEMMA NextPreserves == Inv /\ [Next]_vars => Inv'
<1> SUFFICES ASSUME Inv, [Next]_vars PROVE Inv'
    OBVIOUS
<1>1. ASSUME NEW j \in Jobs, RefuseLong(j) PROVE Inv'
    BY <1>1, RollBackPreserves DEF RefuseLong, InTransaction
<1>2. ASSUME NEW j \in Jobs, Interrupt(j) PROVE Inv'
    BY <1>2, RollBackPreserves DEF Interrupt
<1>3. CASE UNCHANGED vars
    <2>1. /\ UNCHANGED <<users, wallets, total, mine, totalLock, tally>>
          /\ UNCHANGED <<free, step, target, memory, base, mails>>
        BY <1>3 DEF vars, tables, open, local
    <2>2. TypeOK' /\ PathInv'
        BY <2>1 DEF Inv, TypeOK, PathInv, PathOf
    <2>3. RowInv'
        BY <2>1 DEF Inv, RowInv, RowsOf, OwnName
    <2>4. UniqueInv' /\ NameInv'
        BY <2>1 DEF Inv, UniqueInv, NameInv, Alike
    <2>5. CountInv' /\ PoolInv' /\ LeftoverInv'
        BY <2>1 DEF Inv, CountInv, TotalNeverAbove, PoolInv, Running, LeftoverInv
    <2>6. QED
        BY <2>2, <2>3, <2>4, <2>5 DEF Inv
<1>4. QED
    BY <1>1, <1>2, <1>3, ReadsPreserve, SignUpPreserves, InsertUserPreserves,
       AssignWalletPreserves, UpdateUserPreserves, CommitPreserves, RenamePreserves
    DEF Next, Advance

(* The invariant holds however requests overlap or are interrupted.        *)
THEOREM Invariance == Spec => []Inv
BY InitInv, NextPreserves, PTL DEF Spec

(* Every variable always has its type.                                     *)
THEOREM TypeCorrect == Spec => []TypeOK
<1>1. Inv => TypeOK
    BY DEF Inv
<1>2. QED
    BY <1>1, Invariance, PTL

(* Two users never have one address or one name, and a search for an id,   *)
(* an address or a name of one finds that user alone.                      *)
THEOREM UsersDistinct == Spec => []UsersAreDistinct
<1>1. ASSUME Inv PROVE UsersAreDistinct
    <2> SUFFICES ASSUME NEW i \in DOMAIN users
                 PROVE  /\ \A k \in DOMAIN users : Alike(users[i], users[k]) => i = k
                        /\ \A query \in {i, users[i].email, users[i].username} :
                               searchUser(query) = {i}
        BY DEF UsersAreDistinct
    <2>1. \A k \in DOMAIN users : Alike(users[i], users[k]) => i = k
        BY <1>1 DEF Inv, UniqueInv
    <2>2. i \in Jobs /\ users[i] \in UserRow /\ OwnName(users[i])
        BY <1>1 DEF Inv, TypeOK, RowInv
    <2>3. searchUser(i) = {i}
        BY <2>2, NamesAssumption DEF searchUser
    <2>4. findByEmail(users[i].email) = {i} /\ findByUsername(users[i].username) = {i}
        BY <2>1 DEF findByEmail, findByUsername, Alike
    <2>5. users[i].email \in Emails /\ users[i].email \notin Jobs
        BY <2>2, NamesAssumption DEF UserRow
    <2>6. searchUser(users[i].email) = {i}
        BY <2>4, <2>5 DEF searchUser
    <2>7. CASE users[i].username \in Emails
        BY <2>1, <2>2, <2>3, <2>6, <2>7 DEF OwnName
    <2>8. CASE users[i].username \notin Emails
        <3>1. users[i].username \notin Jobs
            BY <2>2, <2>8, NamesAssumption DEF UserRow
        <3>2. searchUser(users[i].username) = {i}
            BY <2>4, <2>8, <3>1 DEF searchUser
        <3>3. QED
            BY <2>1, <2>3, <2>6, <3>2
    <2>9. QED
        BY <2>7, <2>8
<1>2. QED
    BY <1>1, Invariance, PTL

(* Every user has a wallet of the user's own, and a wallet or a welcome    *)
(* without a user is that of a sign-up going on or interrupted.            *)
THEOREM Leftovers == Spec => []LeftoversOnlyOfInterrupted
<1>1. Inv => LeftoversOnlyOfInterrupted
    BY DEF Inv, RowInv, LeftoverInv, LeftoversOnlyOfInterrupted, InTransaction, Written
<1>2. QED
    BY <1>1, Invariance, PTL

(* The total of users is never above their number.                         *)
THEOREM NeverAbove == Spec => []TotalNeverAbove
<1>1. Inv => TotalNeverAbove
    BY DEF Inv, CountInv
<1>2. QED
    BY <1>1, Invariance, PTL

(* Only a rename, or a login that overlapped one on both sides, changes a  *)
(* user's name.                                                            *)
THEOREM RenamesOnly == Spec => OnlyRenamesRename
<1> DEFINE Changes ==
        \A id \in DOMAIN users :
            users'[id].username # users[id].username =>
                \E j \in Jobs :
                    /\ target[j] = id
                    /\ \/ step[j] = "rename" /\ step'[j] = "done"
                       \/ /\ step[j] = "commit" /\ step'[j] = "done"
                          /\ memory[j].username # base[j].username
<1>1. ASSUME Inv, [Next]_vars PROVE Changes
    <2>1. ASSUME NEW j \in Jobs, Commit(j) PROVE Changes
        <3>1. step[j] = "commit" /\ step'[j] = "done"
            BY <1>1, <2>1, Moved DEF Commit
        <3>2. users' = [id \in DOMAIN users \union DOMAIN mine[j] |->
                            IF id \in DOMAIN mine[j] THEN mine[j][id] ELSE users[id]]
            BY <2>1 DEF Commit
        <3>3. QED
            BY <1>1, <3>1, <3>2 DEF Inv, NameInv
    <2>2. ASSUME NEW j \in Jobs, Rename(j) PROVE Changes
        <3>1. CASE users' = users
            BY <3>1
        <3>2. CASE users' # users
            <4>1. step[j] = "rename" /\ step'[j] = "done"
                BY <1>1, <2>2, <3>2, Moved DEF Rename
            <4>2. \A id \in DOMAIN users \ {target[j]} : users'[id] = users[id]
                BY <2>2, <3>2 DEF Rename, Put
            <4>3. QED
                BY <4>1, <4>2
        <3>3. QED
            BY <3>1, <3>2
    <2>3. CASE \A j \in Jobs : ~Commit(j) /\ ~Rename(j)
        <3>1. users' = users
            BY <1>1, <2>3
            DEF Next, Advance, BeginTransaction, CheckAvailability, FindUser, InsertUser,
                RefuseLong, ReadTotal, SaveTotal, CreateWallet, AssignWallet, SelectUser,
                UpdateUser, Notify, Interrupt, RollBack, vars, tables
        <3>2. QED
            BY <3>1
    <2>4. QED
        BY <2>1, <2>2, <2>3
<1>2. Inv /\ [Next]_vars => [Changes]_vars
    BY <1>1
<1>3. QED
    BY <1>2, Invariance, PTL DEF Spec, OnlyRenamesRename
=============================================================================
