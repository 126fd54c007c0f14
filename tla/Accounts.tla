------------------------------ MODULE Accounts ------------------------------
(***************************************************************************)
(* AuthService.signUpWithProvider, which makes a new user with a wallet or *)
(* logs an old one in, and UserService.updateUsername, run by several      *)
(* requests at once, one step per statement.                               *)
(*                                                                         *)
(* Sign-up is one database transaction, on one connection of the pool; in  *)
(* the middle of it the wallet is saved on a second one and committed      *)
(* there.  Statements wait for rows and unique keys that other open        *)
(* transactions have written, and requests wait for a connection.          *)
(***************************************************************************)
EXTENDS Integers, FiniteSets

CONSTANTS
    Emails,         \* addresses, which are also the first user names
    Long,           \* those that do not fit into a user name's 30 characters
    Names,          \* user names that may be asked for
    LowerCase,      \* toLowerCase of each of them
    Reserved,       \* names nobody may have
    NoWallet,       \* the wallets of a user saved for the first time
    NoJob,          \* the holder of a free lock
    Jobs,           \* the requests
    Work,           \* what each asks for
    PoolSize,       \* connections in the pool
    Mixes,          \* bound: the sets of requests that happen together
    Breakable       \* bound: the requests an error or a crash may interrupt

Job == [kind: {"enter"}, email: Emails] \union [kind: {"rename"}, name: Names]

ASSUME NamesAssumption ==
    /\ LowerCase \in [Names -> Names]
    /\ Reserved \subseteq Names
    /\ Emails \intersect Names = {}
    /\ Jobs \intersect (Emails \union Names) = {}
    /\ Long \subseteq Emails
ASSUME NobodyAssumption == NoWallet \notin Jobs /\ NoJob \notin Jobs
ASSUME WorkAssumption == Work \in [Jobs -> Job]
ASSUME PoolAssumption == PoolSize \in Nat \ {0}
ASSUME BoundsAssumption == Mixes \subseteq SUBSET Jobs /\ Breakable \subseteq Jobs

VARIABLES
    users,          \* committed rows of `users`; a row's id is its request's
    wallets,        \* committed rows of `wallets`, likewise
    total,          \* admin_analytics.totalUsers
    mine,           \* the rows of `users` each open transaction has written
    totalLock,      \* the transaction that has written the row of the total
    tally,          \* the total a transaction read, plus one
    free,           \* connections of the pool that are free
    step,           \* where each request is
    target,         \* the row it is about
    memory,         \* the user entity in memory
    base,           \* the row as save read it
    mails           \* history: the emails that were accepted

tables == <<users, wallets, total>>
open == <<mine, totalLock, tally>>
local == <<target, memory, base>>
vars == <<tables, open, free, step, local, mails>>

User(email, name, wallet) == [email |-> email, username |-> name, wallet |-> wallet]
NoUser == [email |-> NoJob, username |-> NoJob, wallet |-> NoWallet]

InTransaction == {"find", "insert", "totals", "saveTotals", "wallet", "assign",
                  "select", "update", "notify", "commit"}
Ended == {"done", "refused", "failed"}

Init ==
    /\ users = <<>>
    /\ wallets = {}
    /\ total = 0
    /\ mine = [j \in Jobs |-> <<>>]
    /\ totalLock = NoJob
    /\ tally = [j \in Jobs |-> 0]
    /\ free = PoolSize
    /\ step = [j \in Jobs |-> "start"]
    /\ target = [j \in Jobs |-> NoJob]
    /\ memory = [j \in Jobs |-> NoUser]
    /\ base = [j \in Jobs |-> NoUser]
    /\ mails = {}

Goto(j, place) == step' = [step EXCEPT ![j] = place]

Put(f, id, row) ==
    [x \in DOMAIN f \union {id} |-> IF x = id THEN row ELSE f[x]]

-----------------------------------------------------------------------------
(* Unique keys and row locks.                                              *)

Alike(r, s) == r.email = s.email \/ r.username = s.username

(* Another open transaction has written this row, or a row that has one of *)
(* its keys or had it: the statement waits for that transaction's end.     *)
Pending(j, id, row) ==
    \E q \in Jobs \ {j} : \E x \in DOMAIN mine[q] :
        \/ x = id
        \/ Alike(mine[q][x], row)
        \/ x \in DOMAIN users /\ Alike(users[x], row)

(* Mutant of Taken: user names are not declared unique.                    *)
MutantNamesNotUnique(id, row) == \E x \in DOMAIN users \ {id} : users[x].email = row.email

(* A committed row other than this one has one of its keys.                *)
Taken(id, row) == \E x \in DOMAIN users \ {id} : Alike(users[x], row)

(* Mutant of RollBack: the connection is released twice.                   *)
MutantReleasedTwice(j, end) ==
    /\ mine' = [mine EXCEPT ![j] = <<>>]
    /\ totalLock' = IF totalLock = j THEN NoJob ELSE totalLock
    /\ free' = free + 2
    /\ Goto(j, end)
    /\ UNCHANGED <<tables, tally, local, mails>>

(* The transaction is rolled back, and its connection goes back.           *)
RollBack(j, end) ==
    /\ mine' = [mine EXCEPT ![j] = <<>>]
    /\ totalLock' = IF totalLock = j THEN NoJob ELSE totalLock
    /\ free' = free + 1
    /\ Goto(j, end)
    /\ UNCHANGED <<tables, tally, local, mails>>

-----------------------------------------------------------------------------
(* signUpWithProvider.                                                     *)

Together(j) == \E mix \in Mixes : {j} \union {i \in Jobs : step[i] # "start"} \subseteq mix

BeginTransaction(j) ==
    /\ step[j] = "start" /\ Work[j].kind = "enter" /\ Together(j)
    /\ free > 0
    /\ free' = free - 1
    /\ Goto(j, "find")
    /\ UNCHANGED <<tables, open, local, mails>>

(* Mutant of FindUser: the wallet comes before the user.                   *)
MutantWalletFirst(j) ==
    /\ step[j] = "find"
    /\ \/ \E id \in DOMAIN users :
              /\ users[id].email = Work[j].email
              /\ target' = [target EXCEPT ![j] = id]
              /\ memory' = [memory EXCEPT ![j] = users[id]]
              /\ Goto(j, "select")
              /\ UNCHANGED wallets
       \/ /\ \A id \in DOMAIN users : users[id].email # Work[j].email
          /\ Goto(j, "insert")
          /\ wallets' = wallets \union {j}
          /\ UNCHANGED <<target, memory>>
    /\ UNCHANGED <<users, total, open, free, base, mails>>

FindUser(j) ==
    /\ step[j] = "find"
    /\ \/ \E id \in DOMAIN users :
              /\ users[id].email = Work[j].email
              /\ target' = [target EXCEPT ![j] = id]
              /\ memory' = [memory EXCEPT ![j] = users[id]]
              /\ Goto(j, "select")
       \/ /\ \A id \in DOMAIN users : users[id].email # Work[j].email
          /\ Goto(j, "insert")
          /\ UNCHANGED <<target, memory>>
    /\ UNCHANGED <<tables, open, free, base, mails>>

NewUser(j) == User(Work[j].email, Work[j].email, NoWallet)

(* The user and its sign-up event.                                         *)
InsertUser(j) ==
    /\ step[j] = "insert"
    /\ Work[j].email \notin Long
    /\ ~Pending(j, j, NewUser(j))
    /\ IF Taken(j, NewUser(j))
       THEN RollBack(j, "refused")
       ELSE /\ mine' = [mine EXCEPT ![j] = Put(@, j, NewUser(j))]
            /\ Goto(j, "totals")
            /\ UNCHANGED <<tables, totalLock, tally, free, local, mails>>

(* The address as a user name is longer than the column: no row is made,   *)
(* and no key waited for.                                                  *)
RefuseLong(j) ==
    /\ step[j] = "insert"
    /\ Work[j].email \in Long
    /\ RollBack(j, "refused")

(* incrementUsers: the total is read, and saved, as Analytics has it.      *)
ReadTotal(j) ==
    /\ step[j] = "totals"
    /\ tally' = [tally EXCEPT ![j] = total + 1]
    /\ Goto(j, "saveTotals")
    /\ UNCHANGED <<tables, mine, totalLock, free, local, mails>>

(* Mutant of SaveTotal: saved outside the transaction.                     *)
MutantTotalAtOnce(j) ==
    /\ step[j] = "saveTotals"
    /\ totalLock = NoJob
    /\ total' = tally[j]
    /\ Goto(j, "wallet")
    /\ UNCHANGED <<users, wallets, open, free, local, mails>>

SaveTotal(j) ==
    /\ step[j] = "saveTotals"
    /\ totalLock = NoJob
    /\ totalLock' = j
    /\ Goto(j, "wallet")
    /\ UNCHANGED <<tables, mine, tally, free, local, mails>>

(* Mutant of CreateWallet: on its own connection it adds to the row of the *)
(* totals too, as incrementActiveWallets would.                            *)
MutantWalletCounted(j) ==
    /\ step[j] = "wallet"
    /\ free > 0
    /\ totalLock = NoJob
    /\ wallets' = wallets \union {j}
    /\ Goto(j, "assign")
    /\ UNCHANGED <<users, total, open, free, local, mails>>

(* WalletService.createWallet: a statement of its own, on a connection     *)
(* taken from the pool for it.                                             *)
CreateWallet(j) ==
    /\ step[j] = "wallet"
    /\ free > 0
    /\ wallets' = wallets \union {j}
    /\ Goto(j, "assign")
    /\ UNCHANGED <<users, total, open, free, local, mails>>

AssignWallet(j) ==
    /\ step[j] = "assign"
    /\ mine' = [mine EXCEPT ![j] = Put(@, j, [@[j] EXCEPT !.wallet = j])]
    /\ Goto(j, "notify")
    /\ UNCHANGED <<tables, totalLock, tally, free, local, mails>>

(* A login saves the user it found: save reads the row again ...           *)
SelectUser(j) ==
    /\ step[j] = "select"
    /\ base' = [base EXCEPT ![j] = users[target[j]]]
    /\ Goto(j, "update")
    /\ UNCHANGED <<tables, open, free, target, memory, mails>>

(* ... and writes lastLogin, and the columns that differ from the entity.  *)
Merged(j) ==
    LET row == users[target[j]]
    IN  [c \in DOMAIN row |-> IF memory[j][c] # base[j][c] THEN memory[j][c] ELSE row[c]]

(* Mutant of UpdateUser: the user that was found is written whole, without *)
(* being read again.                                                       *)
MutantWholeEntity(j) ==
    /\ step[j] = "update"
    /\ ~Pending(j, target[j], memory[j])
    /\ mine' = [mine EXCEPT ![j] = Put(@, target[j], memory[j])]
    /\ Goto(j, "notify")
    /\ UNCHANGED <<tables, totalLock, tally, free, local, mails>>

UpdateUser(j) ==
    /\ step[j] = "update"
    /\ ~Pending(j, target[j], Merged(j))
    /\ IF Taken(target[j], Merged(j))
       THEN RollBack(j, "refused")
       ELSE /\ mine' = [mine EXCEPT ![j] = Put(@, target[j], Merged(j))]
            /\ Goto(j, "notify")
            /\ UNCHANGED <<tables, totalLock, tally, free, local, mails>>

(* The new user is welcomed, the old one told of the login.                *)
Letter(j) ==
    [job |-> j, to |-> Work[j].email,
     template |-> IF j \in DOMAIN mine[j] THEN "welcome" ELSE "login"]

(* Email and Slack, while the transaction is open.  Their errors are       *)
(* caught.                                                                 *)
Notify(j) ==
    /\ step[j] = "notify"
    /\ \/ mails' = mails \union {Letter(j)}
       \/ UNCHANGED mails
    /\ Goto(j, "commit")
    /\ UNCHANGED <<tables, open, free, local>>

Commit(j) ==
    /\ step[j] = "commit"
    /\ users' = [id \in DOMAIN users \union DOMAIN mine[j] |->
                     IF id \in DOMAIN mine[j] THEN mine[j][id] ELSE users[id]]
    /\ total' = IF totalLock = j THEN tally[j] ELSE total
    /\ totalLock' = IF totalLock = j THEN NoJob ELSE totalLock
    /\ mine' = [mine EXCEPT ![j] = <<>>]
    /\ free' = free + 1
    /\ Goto(j, "done")
    /\ UNCHANGED <<wallets, tally, local, mails>>

-----------------------------------------------------------------------------
(* updateUsername: any user's row, each statement on a free connection.    *)

Available(name) ==
    /\ LowerCase[name] \notin Reserved
    /\ \A id \in DOMAIN users : users[id].username # LowerCase[name]

NewName(j) == LowerCase[Work[j].name]

CheckAvailability(j) ==
    /\ step[j] = "start" /\ Work[j].kind = "rename" /\ Together(j)
    /\ free > 0
    /\ \E id \in DOMAIN users : target' = [target EXCEPT ![j] = id]
    /\ Goto(j, IF Available(Work[j].name) THEN "rename" ELSE "refused")
    /\ UNCHANGED <<tables, open, free, memory, base, mails>>

Rename(j) ==
    /\ step[j] = "rename"
    /\ free > 0
    /\ LET id == target[j]  row == [users[id] EXCEPT !.username = NewName(j)]
       IN  /\ ~Pending(j, id, row)
           /\ IF Taken(id, row)
              THEN Goto(j, "refused") /\ UNCHANGED users
              ELSE Goto(j, "done") /\ users' = Put(users, id, row)
    /\ UNCHANGED <<wallets, total, open, free, local, mails>>

-----------------------------------------------------------------------------

(* An error, or the server stopping: rolled back.                          *)
Interrupt(j) ==
    /\ j \in Breakable
    /\ step[j] \in InTransaction
    /\ RollBack(j, "failed")

Advance(j) ==
    \/ FindUser(j) \/ InsertUser(j) \/ RefuseLong(j) \/ ReadTotal(j) \/ SaveTotal(j)
    \/ CreateWallet(j) \/ AssignWallet(j) \/ SelectUser(j) \/ UpdateUser(j)
    \/ Notify(j) \/ Commit(j) \/ Rename(j)

Next ==
    \E j \in Jobs :
        BeginTransaction(j) \/ CheckAvailability(j) \/ Advance(j) \/ Interrupt(j)

Spec == Init /\ [][Next]_vars

(* The event loop and the database go on with what does not wait.          *)
FairSpec == Spec /\ \A j \in Jobs : WF_vars(Advance(j))

-----------------------------------------------------------------------------

(* A search by an administrator: by id, by address or by name.  A wallet's *)
(* id finds nobody: the look-up by user id, which comes first, fails.      *)
findByEmail(email) == {id \in DOMAIN users : users[id].email = email}
findByUsername(name) == {id \in DOMAIN users : users[id].username = name}
searchUser(query) ==
    CASE query \in Jobs -> {query} \intersect DOMAIN users
      [] query \in Emails -> findByEmail(query)
      [] OTHER -> findByUsername(query)

(* A row of `users`; the first name is the address.                        *)
UserRow == [email: Emails, username: Emails \union Names, wallet: Jobs \union {NoWallet}]

(* Every variable has its type.                                            *)
TypeOK ==
    /\ DOMAIN users \subseteq Jobs /\ \A id \in DOMAIN users : users[id] \in UserRow
    /\ wallets \subseteq Jobs
    /\ total \in Nat
    /\ \A j \in Jobs :
           DOMAIN mine[j] \subseteq Jobs /\ \A id \in DOMAIN mine[j] : mine[j][id] \in UserRow
    /\ totalLock \in Jobs \union {NoJob}
    /\ tally \in [Jobs -> Nat]
    /\ free \in 0..PoolSize
    /\ step \in [Jobs -> {"start", "rename"} \union InTransaction \union Ended]
    /\ target \in [Jobs -> Jobs \union {NoJob}]
    /\ memory \in [Jobs -> UserRow \union {NoUser}]
    /\ base \in [Jobs -> UserRow \union {NoUser}]
    /\ mails \subseteq [job: Jobs, to: Emails, template: {"welcome", "login"}]

(* However requests for one address or one name race, no two users have    *)
(* the same, so that an administrator who searches for one by id, address  *)
(* or name finds that one and no other.                                    *)
UsersAreDistinct ==
    \A i \in DOMAIN users :
        /\ \A k \in DOMAIN users : Alike(users[i], users[k]) => i = k
        /\ \A query \in {i, users[i].email, users[i].username} : searchUser(query) = {i}

(* Every user has a wallet, which no other user has.  Wallets and emails   *)
(* leave the transaction of a sign-up before it is committed: a wallet     *)
(* without a user, and a welcome to an address that has none, are those of *)
(* a sign-up still going on, or of one interrupted after them.  A sign-up  *)
(* that is refused leaves nothing.                                         *)
LeftoversOnlyOfInterrupted ==
    /\ \A i \in DOMAIN users :
           /\ users[i].wallet \in wallets
           /\ \A k \in DOMAIN users : users[k].wallet = users[i].wallet => k = i
    /\ \A w \in wallets :
           \/ \E id \in DOMAIN users : users[id].wallet = w
           \/ step[w] \in InTransaction \union {"failed"}
    /\ \A m \in mails :
           \/ \E id \in DOMAIN users : users[id].email = m.to
           \/ m.template = "welcome" /\ step[m.job] \in InTransaction \union {"failed"}

(* A user's name changes when the user is renamed, and otherwise only by a *)
(* login that found the user before a rename and read the row again after  *)
(* it: no other overlap of a login with a rename takes the new name back.  *)
OnlyRenamesRename ==
    [][\A id \in DOMAIN users :
           users'[id].username # users[id].username =>
               \E j \in Jobs :
                   /\ target[j] = id
                   /\ \/ step[j] = "rename" /\ step'[j] = "done"
                      \/ /\ step[j] = "commit" /\ step'[j] = "done"
                         /\ memory[j].username # base[j].username]_vars

(* The total of users never counts one that is not there, whatever was     *)
(* rolled back; races can only make it too small.                          *)
TotalNeverAbove == total <= Cardinality(DOMAIN users)

(* Every request that has a connection ends, as long as the pool has more  *)
(* connections than there are sign-ups at once.                            *)
EveryEntryEnds == \A j \in Jobs : step[j] = "find" ~> step[j] \in Ended
=============================================================================
