----------------------------- MODULE Analytics -----------------------------
(***************************************************************************)
(* AdminAnalyticsService: the one row of totals (admin_analytics), a row of *)
(* totals for each user, and the append-only transaction events.  They are *)
(* written inside the database transaction of a sign-up, a top-up or a     *)
(* cashout, and one autocommitted statement after another by the           *)
(* AnalyticsListener once a transfer has been committed.                   *)
(*                                                                         *)
(* TypeORM's save is two statements: it reads the row again, and updates   *)
(* the columns in which the entity in memory differs from what it read.    *)
(* The entity was read before that, so a change made in between is undone. *)
(*                                                                         *)
(* A job's amount and the users' stats are in naira, events and totals in  *)
(* kobo.  Amounts are whole naira: the column `amount` of `transactions`   *)
(* is an integer, so that no row of another amount is ever committed, and  *)
(* these calls only follow such a row.                                     *)
(***************************************************************************)
EXTENDS Integers, Sequences, FiniteSets, FiniteSetsExt, Functions, SequencesExt

CONSTANTS
    Users,          \* users, each with one wallet
    Jobs,           \* sign-ups, top-ups, cashouts and transfers that happen
    Work,           \* what each of them does
    Day,            \* the days of a job's events, by their type
    Mixes,          \* bound: the sets of jobs that happen together
    Breakable       \* bound: the jobs an error or a crash may interrupt

Job == [kind: {"signup", "topup", "cashout", "report"}, user: Users, amount: Nat \ {0}]
       \union [kind: {"transfer"}, user: Users, to: Users, amount: Nat \ {0}]

ASSUME UsersAssumption == IsFiniteSet(Users)
ASSUME WorkAssumption == Work \in [Jobs -> Job]
ASSUME TransferAssumption ==
    \A j \in Jobs : Work[j].kind = "transfer" => Work[j].user # Work[j].to
ASSUME DayAssumption == Day \in [Jobs -> [{"CREDIT", "DEBIT", "none"} -> Nat]]
ASSUME MixesAssumption == Mixes \subseteq SUBSET Jobs
ASSUME BreakableAssumption == Breakable \subseteq Jobs

VARIABLES
    rows,           \* committed rows of admin_analytics and of the users' stats
    mine,           \* the versions written by each open transaction
    events,         \* committed rows of transaction_event
    noted,          \* the events each open transaction has inserted
    ledger,         \* the number of committed `transactions` of each wallet
    held,           \* the wallet balances each open transaction has locked
    at,             \* which call a job is making
    step,           \* where in that call it is
    target,         \* the row it is about
    memory,         \* the entity in memory
    base,           \* the row as save read it
    found,          \* the row as it was when the entity was made from it
    marks,          \* history: times each wallet was counted as active
    clobbered       \* history: rows saved over a change made since the read

tables == <<rows, events, ledger>>
open == <<mine, noted, held>>
local == <<target, memory, base, found>>
history == <<marks, clobbered>>
vars == <<tables, open, at, step, local, history>>

(* A snapshot is known by the job that created it, a user's by the user.   *)
Snapshot(j) == <<"admin_analytics", j>>
Stats(u) == <<"user_transaction_stats", u>>
Snapshots == {Snapshot(j) : j \in Jobs}
NoRow == <<"none", "none">>

ZeroSnapshot == [count |-> 0, value |-> 0, users |-> 0, active |-> 0]
ZeroStats == [credit |-> 0, debit |-> 0, volume |-> 0]

(* The calls that a job makes, in the order it makes them.                 *)
Call(op, u, t) == [op |-> op, user |-> u, type |-> t]

Transactional(j) == Work[j].kind \in {"signup", "topup", "cashout"}

InTransaction(u, t) ==
    <<Call("post", u, t), Call("record", u, t), Call("stats", u, t)>>

(* Mutant of Calls: a cashout adds to the totals before it posts its row.  *)
MutantRecordedFirst(j) ==
    CASE Work[j].kind = "signup" -> <<Call("join", Work[j].user, "none")>>
      [] Work[j].kind = "report" -> <<Call("look", Work[j].user, "none")>>
      [] Work[j].kind = "topup" -> InTransaction(Work[j].user, "CREDIT")
      [] Work[j].kind = "cashout" ->
             <<Call("record", Work[j].user, "DEBIT"), Call("post", Work[j].user, "DEBIT"),
               Call("stats", Work[j].user, "DEBIT")>>
      [] Work[j].kind = "transfer" ->
             <<Call("record", Work[j].user, "DEBIT"), Call("record", Work[j].to, "CREDIT"),
               Call("stats", Work[j].user, "DEBIT"), Call("stats", Work[j].to, "CREDIT"),
               Call("mark", Work[j].user, "DEBIT"), Call("mark", Work[j].to, "CREDIT")>>

Calls(j) ==
    CASE Work[j].kind = "signup" -> <<Call("join", Work[j].user, "none")>>
      [] Work[j].kind = "report" -> <<Call("look", Work[j].user, "none")>>
      [] Work[j].kind = "topup" -> InTransaction(Work[j].user, "CREDIT")
      [] Work[j].kind = "cashout" -> InTransaction(Work[j].user, "DEBIT")
      [] Work[j].kind = "transfer" ->
             <<Call("record", Work[j].user, "DEBIT"), Call("record", Work[j].to, "CREDIT"),
               Call("stats", Work[j].user, "DEBIT"), Call("stats", Work[j].to, "CREDIT"),
               Call("mark", Work[j].user, "DEBIT"), Call("mark", Work[j].to, "CREDIT")>>

Current(j) == Calls(j)[at[j]]

FirstStep(call) ==
    CASE call.op = "post" -> "post"
      [] call.op = "mark" -> "count"
      [] OTHER -> "find"

Ended == {"done", "failed"}
Running(j) == step[j] \notin {"start"} \union Ended

Init ==
    /\ rows = <<>>
    /\ mine = [j \in Jobs |-> <<>>]
    /\ events = {}
    /\ noted = [j \in Jobs |-> {}]
    /\ ledger = [u \in Users |-> 0]
    /\ held = [j \in Jobs |-> {}]
    /\ at = [j \in Jobs |-> 0]
    /\ step = [j \in Jobs |-> "start"]
    /\ target = [j \in Jobs |-> NoRow]
    /\ memory = [j \in Jobs |-> ZeroSnapshot]
    /\ base = [j \in Jobs |-> ZeroSnapshot]
    /\ found = [j \in Jobs |-> ZeroSnapshot]
    /\ marks = [u \in Users |-> 0]
    /\ clobbered = {}

Goto(j, place) == step' = [step EXCEPT ![j] = place] /\ UNCHANGED at

(* On to the next call, or to the end.                                     *)
NextCall(j) ==
    IF at[j] < Len(Calls(j))
    THEN /\ at' = [at EXCEPT ![j] = @ + 1]
         /\ step' = [step EXCEPT ![j] = FirstStep(Calls(j)[at[j] + 1])]
    ELSE Goto(j, IF Transactional(j) THEN "commit" ELSE "done")

-----------------------------------------------------------------------------
(* Rows as a job sees them: its own uncommitted version, or the committed. *)

Put(f, id, row) ==
    [x \in DOMAIN f \union {id} |-> IF x = id THEN row ELSE f[x]]

Sees(j, id) == id \in DOMAIN mine[j] \union DOMAIN rows
Seen(j, id) == IF id \in DOMAIN mine[j] THEN mine[j][id] ELSE rows[id]

(* Another open transaction has written the row.                           *)
WrittenByOther(j, id) == \E q \in Jobs \ {j} : id \in DOMAIN mine[q]

(* Mutant of Write: the service's own repository instead of the manager's. *)
MutantOtherManager(j, id, row) == rows' = Put(rows, id, row) /\ UNCHANGED mine

(* Written in the open transaction, or committed at once.                  *)
Write(j, id, row) ==
    IF Transactional(j)
    THEN mine' = [mine EXCEPT ![j] = Put(@, id, row)] /\ UNCHANGED rows
    ELSE rows' = Put(rows, id, row) /\ UNCHANGED mine

Kobo(amount) == amount * 100

Plus(row, column, n) == [row EXCEPT ![column] = @ + n]

(* Mutant of Applied: a debit lowers the volume.                           *)
MutantNetVolume(j, row) ==
    LET call == Current(j)  amount == Work[j].amount
    IN  CASE call.op = "record" -> Plus(Plus(row, "count", 1), "value", Kobo(amount))
          [] call.op = "join" -> Plus(row, "users", 1)
          [] call.op = "mark" -> Plus(row, "active", 1)
          [] call.op = "look" -> row
          [] call.op = "stats" /\ call.type = "CREDIT" ->
                 Plus(Plus(row, "credit", amount), "volume", amount)
          [] call.op = "stats" /\ call.type = "DEBIT" -> Plus(row, "debit", amount)

(* What the call makes of the row it found.                                *)
Applied(j, row) ==
    LET call == Current(j)  amount == Work[j].amount
    IN  CASE call.op = "record" -> Plus(Plus(row, "count", 1), "value", Kobo(amount))
          [] call.op = "join" -> Plus(row, "users", 1)
          [] call.op = "mark" -> Plus(row, "active", 1)
          [] call.op = "look" -> row
          [] call.op = "stats" /\ call.type = "CREDIT" ->
                 Plus(Plus(row, "credit", amount), "volume", amount)
          [] call.op = "stats" /\ call.type = "DEBIT" ->
                 Plus(Plus(row, "debit", amount), "volume", amount)

-----------------------------------------------------------------------------
(* The steps of a job.                                                     *)

(* A transfer has been committed, with its two rows, when the listener     *)
(* starts; getAnalytics reads the totals; the others begin a transaction.  *)
Begin(j) ==
    /\ step[j] = "start"
    /\ \E mix \in Mixes : {j} \union {i \in Jobs : step[i] # "start"} \subseteq mix
    /\ NextCall(j)
    /\ ledger' = IF Work[j].kind # "transfer" THEN ledger
                 ELSE [u \in Users |-> IF u \in {Work[j].user, Work[j].to}
                                       THEN ledger[u] + 1 ELSE ledger[u]]
    /\ UNCHANGED <<rows, events, open, local, history>>

(* The row of `transactions`, whose trigger locks the wallet's balance.    *)
Post(j) ==
    /\ step[j] = "post"
    /\ \A q \in Jobs : Current(j).user \notin held[q]
    /\ held' = [held EXCEPT ![j] = @ \union {Current(j).user}]
    /\ NextCall(j)
    /\ UNCHANGED <<tables, mine, noted, local, history>>

(* markWalletActive: the wallet's only transaction.                        *)
Counted(u) == ledger[u] = 1

CountTransactions(j) ==
    /\ step[j] = "count"
    /\ IF Counted(Current(j).user)
       THEN Goto(j, "find") /\ marks' = [marks EXCEPT ![Current(j).user] = @ + 1]
       ELSE NextCall(j) /\ UNCHANGED marks
    /\ UNCHANGED <<tables, open, local, clobbered>>

(* getAnalytics only looks at the snapshot, the others go on to save it.   *)
GotSnapshot(j) == IF Current(j).op = "look" THEN NextCall(j) ELSE Goto(j, "select")

(* getSnapshot: any one row, or none yet.                                  *)
FindSnapshot(j) ==
    /\ step[j] = "find"
    /\ Current(j).op # "stats"
    /\ \/ \E id \in Snapshots :
              /\ Sees(j, id)
              /\ target' = [target EXCEPT ![j] = id]
              /\ found' = [found EXCEPT ![j] = Seen(j, id)]
              /\ memory' = [memory EXCEPT ![j] = Applied(j, Seen(j, id))]
              /\ GotSnapshot(j)
       \/ /\ \A id \in Snapshots : ~Sees(j, id)
          /\ Goto(j, "create")
          /\ UNCHANGED <<target, found, memory>>
    /\ UNCHANGED <<tables, open, base, history>>

CreateSnapshot(j) ==
    /\ step[j] = "create"
    /\ Write(j, Snapshot(j), ZeroSnapshot)
    /\ target' = [target EXCEPT ![j] = Snapshot(j)]
    /\ found' = [found EXCEPT ![j] = ZeroSnapshot]
    /\ memory' = [memory EXCEPT ![j] = Applied(j, ZeroSnapshot)]
    /\ GotSnapshot(j)
    /\ UNCHANGED <<events, ledger, noted, held, base, history>>

(* updateUserTransactionStats: the user's row, or a new entity.            *)
FindStats(j) ==
    /\ step[j] = "find"
    /\ Current(j).op = "stats"
    /\ LET id == Stats(Current(j).user)
           row == IF Sees(j, id) THEN Seen(j, id) ELSE ZeroStats
       IN  /\ target' = [target EXCEPT ![j] = id]
           /\ found' = [found EXCEPT ![j] = row]
           /\ memory' = [memory EXCEPT ![j] = Applied(j, row)]
    /\ Goto(j, "select")
    /\ UNCHANGED <<tables, open, base, history>>

(* save, first statement: is the row there, and what does it hold?         *)
SelectRow(j) ==
    /\ step[j] = "select"
    /\ IF Sees(j, target[j])
       THEN base' = [base EXCEPT ![j] = Seen(j, target[j])] /\ Goto(j, "update")
       ELSE UNCHANGED base /\ Goto(j, "insert")
    /\ UNCHANGED <<tables, open, target, memory, found, history>>

(* What a job had in memory is not looked at again after the save.         *)
Forget(j) ==
    /\ target' = [target EXCEPT ![j] = NoRow]
    /\ memory' = [memory EXCEPT ![j] = ZeroSnapshot]
    /\ base' = [base EXCEPT ![j] = ZeroSnapshot]
    /\ found' = [found EXCEPT ![j] = ZeroSnapshot]

Saved(j) ==
    /\ Forget(j)
    /\ IF Current(j).op = "record" THEN Goto(j, "event") ELSE NextCall(j)

(* The columns in which the entity differs from what save read.            *)
Merged(j, row) ==
    [c \in DOMAIN row |-> IF memory[j][c] # base[j][c] THEN memory[j][c] ELSE row[c]]

(* save, second statement, once no other transaction has the row: the      *)
(* entity of a snapshot always differs, in updatedAt.                      *)
UpdateRow(j) ==
    /\ step[j] = "update"
    /\ LET id == target[j]
           same == memory[j] = base[j] /\ Current(j).op = "stats"
       IN  /\ clobbered' = IF Seen(j, id) # found[j] THEN clobbered \union {id} ELSE clobbered
           /\ \/ same /\ UNCHANGED <<rows, mine>>
              \/ /\ ~same
                 /\ ~WrittenByOther(j, id)
                 /\ Write(j, id, Merged(j, Seen(j, id)))
    /\ Saved(j)
    /\ UNCHANGED <<events, ledger, noted, held, marks>>

(* Mutant of InsertRow: the row takes the place of one inserted meanwhile. *)
MutantUpsert(j) ==
    /\ step[j] = "insert"
    /\ ~WrittenByOther(j, target[j])
    /\ Write(j, target[j], memory[j])
    /\ Saved(j)
    /\ UNCHANGED <<events, ledger, noted, held, history>>

(* A user's first row: the primary key refuses a second one.               *)
InsertRow(j) ==
    /\ step[j] = "insert"
    /\ ~WrittenByOther(j, target[j])
    /\ target[j] \notin DOMAIN rows
    /\ Write(j, target[j], memory[j])
    /\ Saved(j)
    /\ UNCHANGED <<events, ledger, noted, held, history>>

(* Mutant of Event: two arguments of recordTransaction in the wrong order. *)
MutantArgumentsSwapped(j) == [job |-> j, user |-> Current(j).type, type |-> Current(j).user,
                              amount |-> Kobo(Work[j].amount)]

Event(j) == [job |-> j, user |-> Current(j).user, type |-> Current(j).type,
             amount |-> Kobo(Work[j].amount)]

SaveEvent(j) ==
    /\ step[j] = "event"
    /\ IF Transactional(j)
       THEN noted' = [noted EXCEPT ![j] = @ \union {Event(j)}] /\ UNCHANGED events
       ELSE events' = events \union {Event(j)} /\ UNCHANGED noted
    /\ NextCall(j)
    /\ UNCHANGED <<rows, ledger, mine, held, local, history>>

Posts(j) == held[j]

Commit(j) ==
    /\ step[j] = "commit"
    /\ rows' = [id \in DOMAIN rows \union DOMAIN mine[j] |-> Seen(j, id)]
    /\ events' = events \union noted[j]
    /\ ledger' = [u \in Users |-> IF u \in Posts(j) THEN ledger[u] + 1 ELSE ledger[u]]
    /\ mine' = [mine EXCEPT ![j] = <<>>]
    /\ noted' = [noted EXCEPT ![j] = {}]
    /\ held' = [held EXCEPT ![j] = {}]
    /\ Goto(j, "done")
    /\ UNCHANGED <<local, history>>

(* An error ends the job: its transaction is rolled back; a listener's     *)
(* error is logged, and what it has written stays.                         *)
RollBack(j) ==
    /\ mine' = [mine EXCEPT ![j] = <<>>]
    /\ noted' = [noted EXCEPT ![j] = {}]
    /\ held' = [held EXCEPT ![j] = {}]
    /\ Goto(j, "failed")
    /\ Forget(j)
    /\ UNCHANGED <<tables, history>>

DuplicateStats(j) ==
    /\ step[j] = "insert"
    /\ target[j] \in DOMAIN rows
    /\ RollBack(j)

Interrupt(j) ==
    /\ j \in Breakable
    /\ Running(j)
    /\ RollBack(j)

Next ==
    \E j \in Jobs :
        \/ Begin(j) \/ Post(j) \/ CountTransactions(j)
        \/ FindSnapshot(j) \/ CreateSnapshot(j) \/ FindStats(j)
        \/ SelectRow(j) \/ UpdateRow(j) \/ InsertRow(j) \/ SaveEvent(j)
        \/ Commit(j) \/ DuplicateStats(j) \/ Interrupt(j)

Spec == Init /\ [][Next]_vars
-----------------------------------------------------------------------------

(* The reports, as functions of what is committed.                         *)

Sum(column) == SumFunction([id \in Snapshots \intersect DOMAIN rows |-> rows[id][column]])
Amounts(es) == SumFunction([e \in es |-> e.amount])
EventsOf(u, t) == {e \in events : e.user = u /\ e.type = t}
StatsOf(u) == IF Stats(u) \in DOMAIN rows THEN rows[Stats(u)] ELSE ZeroStats

(* The sign-up events: each is committed with its user.                    *)
SignUps == {j \in Jobs : Work[j].kind = "signup" /\ step[j] = "done"}

(* What getAnalytics may answer, whichever row it finds.                   *)
getAnalytics ==
    {[totalTransactionValue |-> rows[id].value \div 100,
      totalTransactionCount |-> rows[id].count,
      totalUsers |-> rows[id].users,
      activeWallets |-> rows[id].active] : id \in Snapshots \intersect DOMAIN rows}

(* The orders in which rows of equal volume may be listed all count.       *)
getTopUsersByTransactionValue(limit) ==
    LET users == {u \in Users : Stats(u) \in DOMAIN rows}
        sorted == {s \in SetToSeqs(users) :
                      \A i \in 2..Len(s) : StatsOf(s[i - 1]).volume >= StatsOf(s[i]).volume}
        Shown(s) == [i \in DOMAIN s |-> [user |-> s[i], volume |-> StatsOf(s[i]).volume]]
    IN  {SubSeq(Shown(s), 1, IF limit < Len(s) THEN limit ELSE Len(s)) : s \in sorted}

getNewUsersOverTime ==
    LET On(d) == {j \in SignUps : Day[j]["none"] = d}
    IN  [d \in {Day[j]["none"] : j \in SignUps} |->
            [userIds |-> {Work[j].user : j \in On(d)}, count |-> Cardinality(On(d))]]

getTransactionVolumeOverTime ==
    LET DayOf(e) == Day[e.job][e.type]
        On(d) == {e \in events : DayOf(e) = d}
        Total(es) == Amounts(es) \div 100
    IN  [d \in {DayOf(e) : e \in events} |->
            [debitTotal |-> Total({e \in On(d) : e.type = "DEBIT"}),
             creditTotal |-> Total({e \in On(d) : e.type = "CREDIT"}),
             totalValue |-> Total(On(d)),
             count |-> Cardinality(On(d))]]

(* wallets.transactionCount: 0 by default, and nothing ever writes it.     *)
TransactionCount(u) == 0

(* A user's profile shows when the last transaction was: the request fails *)
(* for a user without any event.  Whoever has one is shown a count of 0    *)
(* beside the volume; no report agrees with that count.                    *)
HasProfile(u) == \E e \in events : e.user = u
getUserProfile(u) ==
    [lastTransactionAt |-> Max({Day[e.job][e.type] : e \in {x \in events : x.user = u}}),
     transactionCount |-> TransactionCount(u),
     transactionValue |-> StatsOf(u).volume]

-----------------------------------------------------------------------------

SnapshotRow == [count: Nat, value: Nat, users: Nat, active: Nat]
StatsRow == [credit: Nat, debit: Nat, volume: Nat]
Events == [job: Jobs, user: Users, type: {"CREDIT", "DEBIT"}, amount: Nat \ {0}]
IsTable(f) ==
    \A id \in DOMAIN f :
        \/ id \in Snapshots /\ f[id] \in SnapshotRow
        \/ id \in {Stats(u) : u \in Users} /\ f[id] \in StatsRow

(* Every variable has its type.                                            *)
TypeOK ==
    /\ IsTable(rows) /\ \A j \in Jobs : IsTable(mine[j])
    /\ events \subseteq Events
    /\ noted \in [Jobs -> SUBSET Events]
    /\ ledger \in [Users -> Nat]
    /\ held \in [Jobs -> SUBSET Users]
    /\ \A j \in Jobs : at[j] \in 0..Len(Calls(j))
    /\ step \in [Jobs -> {"start", "post", "count", "find", "create", "select",
                          "update", "insert", "event", "commit"} \union Ended]
    /\ memory \in [Jobs -> SnapshotRow \union StatsRow]
    /\ base \in [Jobs -> SnapshotRow \union StatsRow]
    /\ found \in [Jobs -> SnapshotRow \union StatsRow]
    /\ marks \in [Users -> Nat]

Quiet == \A j \in Jobs : ~Running(j)

(* No save went over a change made since its entity was read, and no       *)
(* listener was cut off.                                                   *)
Undisturbed ==
    /\ Quiet /\ clobbered = {}
    /\ \A j \in Jobs : step[j] = "failed" => Transactional(j)

(* The totals are what the events and the sign-ups add up to, as long as   *)
(* no save went over a change made since its entity was read and no        *)
(* listener was cut off: whichever jobs were rolled back in between, and   *)
(* however many rows the totals have come to be spread over.               *)
TotalsAreHistory ==
    Undisturbed =>
        /\ Sum("count") = Cardinality(events)
        /\ Sum("value") = Amounts(events)
        /\ Sum("users") = Cardinality(SignUps)
        /\ \A u \in Users :
               /\ Kobo(StatsOf(u).credit) = Amounts(EventsOf(u, "CREDIT"))
               /\ Kobo(StatsOf(u).debit) = Amounts(EventsOf(u, "DEBIT"))

(* What an administrator reads in four reports agrees: the days of the    *)
(* volume report add up to the totals (as long as those are one row), the  *)
(* days of new users to the number of users, and the volumes of the list   *)
(* of top users to the value of all days (services/admin-analytics-        *)
(* service.ts 124-201).  Nothing is said of the profile of a user, whose   *)
(* count of transactions agrees with none of them.                         *)
ReportsAgree ==
    Undisturbed =>
        LET days == getTransactionVolumeOverTime
            value == SumFunction([d \in DOMAIN days |-> days[d].totalValue])
            count == SumFunction([d \in DOMAIN days |-> days[d].count])
            joined == SumFunction([d \in DOMAIN getNewUsersOverTime |->
                                      getNewUsersOverTime[d].count])
        IN  /\ Cardinality(Snapshots \intersect DOMAIN rows) = 1 =>
                   \A shown \in getAnalytics :
                       /\ shown.totalTransactionValue = value
                       /\ shown.totalTransactionCount = count
                       /\ shown.totalUsers = joined
            /\ \A d \in DOMAIN days : days[d].totalValue = days[d].debitTotal + days[d].creditTotal
            /\ \A top \in getTopUsersByTransactionValue(Cardinality(Users)) :
                   SumFunction([i \in DOMAIN top |-> top[i].volume]) = value

(* The calls of recordTransaction that a job has reached and not lost.     *)
Recorded(j) ==
    IF Transactional(j) /\ step[j] # "done" THEN 0
    ELSE Cardinality({i \in 1..at[j] : Calls(j)[i].op = "record"})

Started == {j \in Jobs : step[j] # "start"}

(* Lost updates and cut-off listeners can only lose: the totals never show *)
(* more transactions than were recorded, nor one that was rolled back, and *)
(* however transfers and top-ups of one wallet interleave, the wallet is   *)
(* counted as active at most once.                                         *)
NeverOvercounted ==
    /\ Sum("count") <= SumFunction([j \in Started |-> Recorded(j)])
    /\ \A u \in Users : marks[u] <= 1

(* The job's statement waits for another's transaction.                    *)
Blocked(j) ==
    \/ step[j] = "post" /\ \E q \in Jobs \ {j} : Current(j).user \in held[q]
    \/ step[j] \in {"update", "insert"} /\ WrittenByOther(j, target[j])

(* Locks are taken in one order (the wallet's balance, the snapshot, the   *)
(* user's row), so that jobs never wait for one another in a circle.       *)
NoCircle == ~Quiet => \E j \in Jobs : Running(j) /\ ~Blocked(j)
=============================================================================
