# PayBudz in TLA+

PayBudz is a wallet service: NestJS and TypeORM over PostgreSQL, with Paystack
for money that comes in or goes out. This directory holds TLA+ modules of its
core, the TLC configurations that check them on small instances, and proofs
that TLAPS checks for instances of any size. Paths below are relative to the
repository; `services/` and the like are directories of its `src/`.

## The system

| Part | State | Operations | Where it is modelled |
| --- | --- | --- | --- |
| Ledger: `transactions`, `wallet_balances`, the triggers of `scripts/sql/custom_triggers.sql` | rows that are only added, a unique (wallet, idempotency key), a stored balance per wallet | INSERT, whose trigger locks the balance, refuses a debit it does not cover and moves it | `Ledger` (what it promises), `Transfer` (statement by statement) |
| Transfers, `services/transfer.service.ts` | `transfers`, unique by idempotency key | `transfer` | `Transfer` |
| Top-ups, `services/wallet.service.ts` | `wallet_topup_intents` | `getTopupPaymentLink`, `processTopUpFromWebhook`, `fundWallet` | `TopUp` |
| Cashouts, `services/wallet.service.ts` | `wallet_cashout_intents` | `initiateCashout`, `processCashoutFromWebhook` | `Cashout` |
| Wallets, the same service | `wallets.is_active` | `createWallet`, `activateWallet`, `deactivateWallet` | `Accounts`; `Transfer` and `TopUp` |
| Webhooks, `services/webhook.service.ts` | none | `handlePaystackWebhook`, `verifyTransaction` | `TopUp`, `Cashout` |
| Paystack, `services/paystack.service.ts` | Paystack's own | initialise, verify, pay out | `TopUp`, `Cashout`, as the code uses it |
| Analytics, `services/admin-analytics-service.ts`, `listeners/analytics.listener.ts` | one row of totals, one row per user, transaction events | `incrementUsers`, `recordTransaction`, `updateUserTransactionStats`, `markWalletActive`, the reports | `Analytics` |
| Sign-up and login, `services/auth.service.ts` | `users` | `signUpWithProvider`, its emails | `Accounts` |
| Users, `services/user.service.ts` | `users.username` | `updateUsername`, look-ups by address, name and id | `Accounts`, `TopUp`, `Cashout` |
| Start-up, `main.ts`, `migrations/custom.migrations.ts` | `custom_migrations`, the triggers in the database | `bootstrap`, `runMigrations` | `Startup` |
| Notifications, `listeners/notification.listener.ts`, `services/notification.service.ts`, `mail.service.ts`, `slack-notification.service.ts`, `mail/templates/` | none; emails once sent stay sent | the five emails about money, the Slack message of a transfer | `Postings`, `Notifications`, `Statements` |
| Transaction service, `services/transaction.service.ts` | none of its own | a wallet's history, by page, with counterparts | `Postings`, `History`, `Statements`; `Transfer` (`Counterparts`) |
| Administration, `services/admin-user.service.ts` | none of its own | `getTransactions`, `getUserProfile`, `searchUser` | `History`, `Analytics`, `Accounts` |

**How they meet.** Everything shares one PostgreSQL database and one pool of
connections; several requests run at once, each up to its next `await`.
Transfers are one database transaction, followed by an event
(`transfer.completed`) that the analytics and notification listeners handle
after the commit. Top-ups and cashouts are split in two: a request saves an
intent and calls Paystack, and a webhook, delivered again until it is answered
200, changes the intent and posts to the ledger. Their posting transaction
calls the analytics service with its own entity manager, and sign-up does too.

**What makes it hard.** Values read before a database transaction and used
in it or after it (balances, `isActive`, an intent's status, totals). Row locks
and unique keys on which transactions wait for each other. Webhooks delivered
twice, at once or late. An intent saved in one statement and the money moved in
another. Calls to Paystack and to the mailer that fail after something was
committed. A second connection wanted while the first is kept. Emails and pages
that are made up after the fact, from reads of their own, while money moves on.

## Modules

### `Ledger`: what the others implement

`book` is the set of committed rows, `balance` the stored balances. The steps are
`Deposit` (one CREDIT row), `Withdraw` (one DEBIT row that the balance covers) and
`Move` (both rows of a transfer at once), each under a key new to its wallet.
`Transfer`, `Cashout` and `Startup` each instantiate it and have `ImplementsLedger`,
its specification, as a property: whatever the steps in between, the tables
change as they do here or not at all. (`TopUp` writes its CREDIT row in one step, which
is a `Deposit` by its form; there is nothing to check.)

The README of the repository says "No balance storage"; the code stores the
balance in `wallet_balances` by a trigger. `BalanceIsHistory` states what is left
of the claim: the stored balance is what the rows add up to.

### `Transfer` (`transfer.service.ts` 57-163)

| Code | Action |
| --- | --- |
| source user and wallet, 58-68 | `ReadSource` |
| destination and the `isActive` check | `ReadDestination` |
| balance check, 84-94 | `CheckBalance` |
| INSERT of the DEBIT row, its trigger | `InsertDebit`, `DebitSource` |
| INSERT of the CREDIT row, its trigger | `InsertCredit`, `CreditDestination` |
| INSERT into `transfers` | `InsertTransfer` |
| COMMIT, whose reply may be lost | `Commit` |
| the event, 150-160 | `Emit` |
| `activateWallet`, `deactivateWallet` | `ActivateWallet`, `DeactivateWallet` |

`open[r]` are the rows an open transaction has inserted: others who want one of
their index entries wait. `lock[w]` is the owner of the row of `wallet_balances`.
An error rolls both back. `DeadlockVictim` is Postgres aborting one of a cycle of
waits, `ConnectionLost` and `Crash` are what interrupts a request. A retry of a
client is another request with the same key. `frozen` is a history variable: the
wallets that have been inactive ever since the request was received.

A user has one wallet, in one currency (NGN is the only one sign-up makes), so
that a user and its wallet are one value. Amounts are any integers
(`AmountsAssumption`): `TransferDto` asks for a number, and the column of
`transactions` for a whole one. A negative amount passes the balance check and the
DEBIT branch of the trigger, and its CREDIT row then takes money from the destination,
as that branch has no floor: `NoOverdraft` is false of the code, and
`OverdrawnOnlyByNegative` says what is true.

`findWalletById` is used with the id of the source's wallet only when there is one, and
with the destination's whether there is one or not; TypeORM 0.3 leaves a condition on
`undefined` out of a query, which then returns some row. `FoundById` says so: a
destination without a wallet (`NoWallet`) is credited in any wallet.

### `TopUp` (`wallet.service.ts` 120-233, `webhook.service.ts`)

A payment link saves an intent and initialises a Paystack transaction; the
customer pays; Paystack delivers events to several `Handlers`, again while an
event has not been answered 200, and also while an earlier delivery is at work.
A handler is `ReadIntent`, `Verify` (the status read *before* the request to
Paystack is the one compared after it), `SaveIntent`, `FindUser`, `CheckWallet`,
`Fund`, `Notify`, `Answer`. `Fund` is the whole database transaction of
`fundWallet` in one step: one INSERT whose trigger has one row to lock, which
`Transfer` takes apart and shows to be atomic for its own two inserts. The row's
amount is an integer column, which refuses what is not a whole number of naira
(`Storable`; `entities/transaction.entity.ts` 21), while the intent's is not. The row's idempotency key is
a fresh uuid in the code, so here it is the delivery that made it.

The webhook's `metadata.userId`, by which the user is looked up, is always `undefined`
(`UserId`): `initializePayment` sends Paystack no metadata. So `FindUser` may find
anybody (`FoundById`), and the payment is credited to whoever is found. What the
properties say of a payment is that it is credited, and how often; to whom is
`CreditedToOwner`, which is violated. `failed` is a history variable: which deliveries
failed, before the intent was saved or after it.

### `Cashout` (`wallet.service.ts` 235-358)

`CheckBalance`, `SaveNewIntent`, `CreatePayout`, `SaveReference` are
`initiateCashout`, called with the id that the controller reads from the request,
where the guard put none (`NoIdSent` in `MCCashout`), so that the balance checked is any
user's; `SaveIntent`, `FindUser`, `Debit`, `SendEmail`, `Answer` are
the webhook. Nothing is held back between the check and the debit. The user whose wallet is
debited is looked up by an id that `createPayout` never sent (`UserId`), as for a top-up.
The amount is any number that the caller asks for; that Paystack pays out positive ones
only (`Payable`) is an assumption about Paystack.
`PostElsewhere` lets transfers and top-ups post to the same wallets meanwhile, by
the `Deposit` and `Withdraw` of `Ledger`: all that a cashout can notice of them.

### `Analytics` (`admin-analytics-service.ts`)

A job is a sign-up, a top-up, a cashout, the listener's work after a transfer, or
somebody looking at the totals; `Calls` lists the service calls it makes in the
code's order. Each call is a read of the row (`FindSnapshot`, `FindStats`), a
change in memory (`Applied`), and TypeORM's `save` in its two statements
(`SelectRow`; `UpdateRow` or `InsertRow`). `save` writes the columns in which the
entity differs from what `save` itself reads, which is `Merged`: an update made
between the two reads is lost or undone. Sign-ups, top-ups and cashouts write in
their transaction (`mine`), the listener commits every statement. Two snapshots
may come to exist, as nothing keeps the table at one row. The reports
(`getAnalytics`, `getTopUsersByTransactionValue`, `getNewUsersOverTime`,
`getTransactionVolumeOverTime`, an administrator's `getUserProfile`) are functions of
what is committed; `ReportsAgree` says when they agree with each other. The
`transactionCount` that a profile shows agrees with none of them: it is a column of
`wallets`, 0 by default, that nothing writes (`TransactionCount`; `wallet.entity.ts` 28,
`admin-user.service.ts` 60). So no property is about profiles.

### `Accounts` (`auth.service.ts` 120-213, `user.service.ts` 61-98)

`signUpWithProvider` is one transaction on one connection of the pool
(`BeginTransaction`, `FindUser`, `InsertUser`, `ReadTotal`, `SaveTotal`, ...,
`Commit`), with `CreateWallet` in the middle, which goes through a repository of
its own: it takes a second connection and commits at once. A login is
`FindUser`, `SelectUser`, `UpdateUser`. `RefuseLong` is the INSERT of a user whose
address does not fit into the 30 characters of `username`. `mails` keeps who was
welcomed or told of a login, both inside the transaction. `updateUsername` is
`CheckAvailability` and `Rename`. `Pending` is what a statement waits for: a row,
or a unique key, that another open transaction has written. The row of totals is
taken to exist (`Analytics` looks at its creation).

### `Startup` (`main.ts`, `custom.migrations.ts`)

Every instance of the server applies the SQL scripts before it listens:
`ReadRecorded`, then for each file `Skip`, or `Apply` and `Record`, then `Listen`.
A script and its record are two statements, the names were read before both,
and instances start together and are stopped anywhere. A script creates triggers
without OR REPLACE, so that applying it again is an error, which ends the process.
That error is all that keeps a script from being recorded twice, and the whole
of what makes a stopped instance fatal: stopped between the two statements, it
leaves a script that is refused at every later start. `disturbed` marks such
starts. Postings by listening instances are `Ledger`'s steps if the balance
trigger is there and unguarded inserts if it is not.

### `Postings`, `Notifications`, `History`, `Statements`: what people are told

`Postings` is the ledger as those see it who read it afterwards. A transfer, a
top-up or a cashout is taken apart as far as they can tell: `CreateRow` gives a row
its `createdAt` from the server's clock, `InsertRow` waits for the wallet's balance,
`Commit` shows all rows of the job, in an order (`log`) which need not be that of
`createdAt`. `Transfer` shows that such a transaction is atomic and covered, so the
statements in between are left out here. A payout that Paystack could not make is a
job without rows (`Refuse`).

`Notifications` is what follows a commit. `Steps` is the code's order, one step per
`await`: the listener of `transfer.completed` posts to Slack, reads two balances and
sends two emails; `fundWallet` and `processCashoutFromWebhook` read a balance and
send one. Each email is the record that its template shows (`WalletDebitedTemplate`
and the others), made by the `send...` operator of its method from what was read: a
signed amount, a balance, a row, a minute. An email that throws ends what is left of
its job (`Throw`), one that the mail service answers with an error object is only
logged (`dropped`), Slack's failures are swallowed. The two templates of cashouts
put a minus before an amount that has one (`Minus`; `wallet-cashout.template.tsx` 76,
`wallet-cashout-failed.template.tsx` 74), so that a payout is told as "--" and its amount,
and so is one that took nothing, in an email that says (line 50) "The amount remains in your
wallet." `MailsAreTrue` speaks of the signs of transfers and top-ups only.

`History` is a reader of pages. `findTransactions` and the administrator's
`getTransactions` are the WHERE clauses; `Pages` is what one page may be, any order
of rows of equal `createdAt` allowed anew for each; `ReadPage` asks for the next one
until a page is not full. A date in `fromDate` or `toDate` is the midnight it
begins with.

`Statements` composes them and adds the commit whose answer is lost (`CommitLost`:
`transaction()` throws, nobody is told) and the crash.

## Runs

A run is one question asked of one module; there are twelve.

| Run | Instance | Shows |
| --- | --- | --- |
| `transfer` | 2 calls out of 10, 4 wallets, 2 keys, Ada's and Ben's wallets switched | only a negative amount overdraws a wallet, its destination; the ledger stays double-entry and atomic; one key moves money once; a history names the right counterpart; frozen wallets do not move; a call tells the truth; every call ends |
| `transfer_negative` | 1 call, of a negative amount | **violated**: `NoOverdraft` |
| `topup` | 1 payment of 2 naira or of 1.50, 2 handlers, 2 deliveries per event, every fault | what the status check of the intent protects, and where it does not |
| `topup_owner` | a payment of 2 naira, 2 users, no faults | **violated**: `CreditedToOwner` |
| `topup_lost` | a payment of 1.50 | **violated**: `CompletedIsCredited` |
| `cashout` | 2 cashouts, 2 handlers, 2 and 1 deliveries, a posting elsewhere, faults | covered postings only, records that tell the outcome, payouts debited or reported again |
| `cashout_twice` | an email that fails | **violated**: `DebitedAtMostOnce` |
| `analytics` | 5 mixes of 1 to 3 of 6 jobs | what totals keep of what happened; reports that agree; no circle of locks |
| `accounts` | 4 mixes of up to 4 of 7 requests, 4 connections | unique names that only a rename changes, nothing left over but by what was interrupted, everybody served |
| `startup` | 2 instances, 4 starts, 2 scripts, postings of 1 and 2 on an opening of 1 under 2 keys | the ledger keeps its promise across every start and stop, by the invariant that is proved; an undisturbed start listens |
| `statements` | crossing transfers; a top-up, a payout and a refused one; a transfer and a top-up with a reader | emails tell what happened and, when all is quiet, the last balance; every party is told, or the email is known to be lost; pages miss no row |
| `accounts_pool` | 2 sign-ups, 2 connections | **violated**: `EveryEntryEnds` |

The five violated runs are disagreements between the code and what the
repository says of it; `PROJECT.json` quotes both sides under "findings".

- A transfer of a negative amount passes every check and leaves its destination's
  wallet below zero.
- A top-up is credited to some user, whoever the look-up by an undefined id finds.
- A payment whose funding fails is never credited: `COMPLETED` is saved first,
  and keeps later deliveries out. Funding fails for an inactive wallet, and for
  every amount that is not a whole number of naira, which the integer column
  `amount` of `transactions` refuses (`Storable`).
- A payout whose email fails is debited again with the next delivery.
- As many sign-ups at once as the pool has connections wait for ever: one has
  the lock of the totals and wants a connection, the others have the
  connections and want the lock.

Other things that the code does, no run has as its question; the properties
of the passing runs go round them, and the sources show them at once:

- Two deliveries of one charge that both read `PENDING` before either saves credit it
  twice (`webhook.service.ts` 72-85): `CreditedOnceUnlessOverlapped` excepts such
  payments, and none besides.
- Two cashouts can pass one balance check; both are paid out, and the second debit is
  refused after its intent was saved as COMPLETED (`wallet.service.ts` 250, 291): its
  report is answered 500 and stays due, which is what `PaidIsDebitedOrDue` says.
- Profiles count no transactions, and emails of payouts tell amounts with two minuses.

`OverdrawnOnlyByNegative`, `CreditedOnceUnlessOverlapped`, `PaidIsCredited`,
`DebitedIsCompletedUnlessEarly` and `TotalsAreHistory` state exactly what remains true
beside these: where an exception is a history variable (`overlapped`, `failed`, `early`,
`clobbered`), it is set only where the excepted thing happens. `PaidIsCredited` has two:
a delivery that failed between the save and the credit (`CutOff`), and a payment every one
of whose deliveries failed, with none to come (`GivenUp`). One delivery that does not
fail is enough, whatever the others do.

### Bounds, and why they are enough

- *Transfer*: two requests give every pair of interleavings, crossing transfers
  included, and a retry; deadlock needs two. `Calls` has both directions, a key
  used again for another amount, a transfer to oneself, a missing wallet, and one
  key on disjoint pairs of wallets, which only the index of `transfers` sees; a
  destination with no wallet, one that nobody has, and a negative amount. For
  any number of requests the safety properties are proved.
- *TopUp*: a payment's handlers share nothing with another payment's but the
  wallet, and `Fund` adds to that in one step; so one payment, two handlers, and a
  second delivery for retries. Two users are enough for a payment to find the wrong one.
- *Cashout*: two cashouts compete for a balance, with one retry of the first. One
  user: the balances and intents that the properties relate are per cashout, and which wallet
  is debited is no matter of theirs; the proofs hold for any number. `cashout_twice` has two.
  The amounts of 1 and 2 naira of an opening 2 make each coverable alone and not
  both. Both are whole: `Storable` refuses others there as it does in `topup`. The
  fault "reply" (a 200 that Paystack does not get) is left out of this run: to
  Paystack it is an error answer after the debit, which "email" is already.
- *Analytics*: `Mixes` names which jobs meet: transfers both ways; a transfer, a
  top-up and a cashout; with a sign-up; with a reader who creates the row of totals;
  and a cashout that is the first to reach the totals.
- *Accounts*: two sign-ups for one address and one for another; a login and two
  spellings of a name; a reserved name; an address that is too long. Four connections are more than the three
  sign-ups that meet.
- *Startup*: two instances race, four starts let each be stopped and come back.
  Two scripts are an order; the second tells "all recorded" from "some recorded".
  For any number of each the safety properties and the refinement are proved.
- *Statements*: `Mixes` names which jobs, queries and faults meet. Emails and readers
  do not touch each other, only the ledger, so that faults of emails go with one
  mix and readers with another. Two crossing transfers are four emails about two
  balances. Two instants order any two rows, or tie them; a page of one row is the
  shortest, with the most pages. `MaxFaults` is 1: one job is hit, and the other must
  not suffer. A crash may hit both.

Deadlock checking is off everywhere because requests come to an end; what must
not wait for ever is stated (`EveryCallEnds`, `NoCircle`, `EveryEntryEnds`).

### Fairness

Weak fairness of the steps of a request that was received: Node's event loop
runs a continuation that is ready, PostgreSQL runs a statement that does not wait.
In `Transfer` also of the deadlock detector, which PostgreSQL runs on every
wait longer than a second. In `TopUp` and `Cashout` of deliveries: Paystack
delivers again what was not answered 200, within `MaxTries`. In `Startup` of a
started instance's own steps, and not of starts. In `Statements` of the
notifications taken together: some continuation that is ready runs; no posting has
to end and nobody has to read on. Nothing is assumed
of users, of the faults, or of requests not yet received.

## Proofs

`TransferProofs` proves about `Transfer`, for any wallets, keys, amounts, opening
balances, requests and faults, from the assumptions named in `Transfer`
(amounts are integers, opening balances naturals, `NoWallet` is no wallet, `NoUser`
neither, `NoRequest` no request):

- `TypeCorrect`, `OverdraftsExplained`, `AlwaysDoubleEntry`, `AtMostOneTransferPerKey`,
  `EndedHoldNothing`: invariants of `Spec`, all from `Invariance`, `Spec => []Inv`.
- `DeactivationHolds`: a call received while one of its wallets is inactive does
  not reach the database transaction unless the wallet is activated again.
- `AnswersAreTrue`: a caller that is told of a transfer has one, committed, and with
  what it asked for. `HistoryIsRight`: the counterpart that a wallet's history
  names for a row is the other wallet of that transfer. Both from `TransfersInv`,
  which says what a request whose COMMIT was executed leaves in the tables.
- `Refinement`: `Spec => ImplementsLedger`.
- `BalancesAreHistory`: each stored balance is the opening one and what the committed
  rows add up to. By the steps of `Refinement` it is enough that `Ledger`'s postings keep it
  (`LedgerKeepsHistory`): a posting's key is unused, so its row is new to the sum, and
  `Move` is a `DebitTallies` and a `CreditTallies`, one after the other.

`OverdrawnOnlyByNegative` is not inductive: at `Commit` the source's balance is lowered by an
amount that was compared steps ago. `Inv` says why that comparison still holds. Where a
request is determines which rows it has inserted (`RowsInserted`) and which
balances it has locked (`LocksHeld`); so two requests past `DebitSource` have
different sources, and a balance one of them has locked changes by nobody
else's commit, which keeps `Covered`. `IndexUnique` and `KeyUnique` do the same
for the two unique indexes and yield `OneTransferPerKey` and, for the
refinement, that the keys a `Move` uses are unused. Each action has one step of
the proof, each conjunct it can disturb one below that.

TLC checks `Inv` in the run `transfer`, too.

`StartupProofs` proves about `Startup`, for any scripts, instances and number of
starts: `RecordsAreTrue`, `RecordsAreSingle`, `ListenersAreGuarded`, and
`Refinement`, `Spec => ImplementsLedger`. Its `ScriptsInv` says, for each place an instance
may be at, which files it has behind it: all files before `at` are installed, what
it `known` was recorded; and an instance at `record` has installed a file that nobody
has recorded or will, because `Refused` keeps every other one from getting there. TLC
checks it in the run `startup`.

`TopUpProofs` proves about `TopUp`, for any users, references, handlers and numbers
of deliveries, under every fault: `UnpaidIsIgnored`, `CompletedStays` and
`CreditedOnce`, none of which asks whose wallet is credited. `CreditedOnceUnlessOverlapped` is not
inductive: nothing in it says why a second delivery stops. `AloneInv` does: a handler
that is the only one to verify a reference holds the status that is in the table.
So when it saves a success, the intent was not COMPLETED, and by `OnceInv` no other
handler was on its way to `Fund` and no row was there; from then on the intent is
COMPLETED, which every later verification reads. `overlapped` is where this
argument ends.

`CashoutProofs` proves about `Cashout`, likewise, and with any other postings:
`RecordsAreTrue`, `DebitedIsCompleted`, `DebitedOrDue`, `Refinement`. `PayoutInv` bounds what Paystack
can know by how far the call has come, so a payout has an intent before it exists;
`BusyInv` says that a handler works on what is settled and will not change, so that
what it read in one step is still so in the next. `KeyInv` gives every run of a handler a
key of its own, new to the ledger until its `Debit`. `DueInv` says that a handler on its way to
the answer 200 for a payout that was made has its debit behind it; only that answer ends the
reports.

`AccountsProofs` proves about `Accounts`, for any addresses, names, requests and
connections: `UsersDistinct`, `Leftovers`, `NeverAbove`, `RenamesOnly`, and with
`TypeCorrect` that connections are neither lost nor returned twice (`PoolInv` counts
them by the requests in a transaction). `PathInv` gives each place of a request the
rows it has written; `UniqueInv` extends the uniqueness of committed rows to the
uncommitted ones: two open transactions never claim one key, which `Pending` and `Taken`
together keep, and without which two commits could each be legal and the table not.
`CountInv` lets a total read before another sign-up's commit be too small and
never too large. `NameInv` is the columns that `save` writes: a name differs from the
committed one only if it already differed when the user was read again.

`AnalyticsProofs` proves about `Analytics`, for any users, any jobs of any positive amount and
any faults: `TypeCorrect`, `NeverInACircle` and `CountedOnce`. `NoCircle` is not
inductive: a state in which two transactions hold each other's rows is easily written
down. `PlaceOf` ties the place of a job to the call it is making, `MemoryOf` says which
row it is about to save, and `LocksOf` what it may hold by then: stats only when about
to commit, totals only on the way to the stats. So of those who wait, one for a balance waits for
one past its row, one for the totals for one that has its own, and one for a user's
stats for one that commits. A row of totals that a job has just created is the exception, held
while it is saved again; `FreshInv` says that nobody else can have it yet. `CountedOnce` is
the conjunct about `marks` of `NeverOvercounted`: `MarkInv` says that two
transfers of a wallet make at least two transactions of it, so whoever counts the wallet is the
first and only one, and has not counted it before.

The same module proves the three invariants about sums: `TotalsAddUp`, `OnlyEverLoses` and
`ReportsTellOneStory`. `TotalsAreHistory` speaks of moments when all is quiet, so it says nothing
of the steps in between, and `HistoryInv` has to. Its parts: `EventsInv` says which events
are committed and which a transaction goes on to commit, by the place of their job
(`EventSaved`, `TotalSaved`, `StatsSaved` for each of its rows). `ApartInv`: no two transactions
have written one row. `SoundInv`, as long as no save has gone over a change (`Sound`): what a job
has in memory is the row that it found and what its call adds (`FoundOf`), what it has read is not
more than the row still is (`ReadOf`), and its own versions of rows are the committed ones with its own
additions (`MineOf`). So the column that a save writes adds what the call adds, and `TallyInv`, the sums
over all rows at every moment, goes on: a save of the listener and the commit of a transaction add to a sum
what the job's event adds to the events. That rows only grow then (`RowsGrow`) keeps `ReadOf` true of the
others, which `save`'s comparison of columns relies on.

`OnlyEverLoses` has no such condition: saves may undo one another. Its argument is a table that the
code does not keep, the totals as they would be had no save undone another: `Covers(f)` says that
the committed rows, each transaction's versions and each entity in memory fall short of it
(the last two but for the job's own record), and that it counts no more than what started jobs
have recorded (`KeptInAll`). `CoverInv` says that there is one. It grows by one when a listener has saved a record or
a transaction commits one (`CreditCovers`); a save of a stale entity leaves it, and with it the bound.

`ReportsTellOneStory` follows from `HistoryInv` and laws of sums: the days partition the events and
the sign-ups (`SumOfParts`, `CountsOfParts`), debits and credits those of a day (`SumApart`), users with a row of stats
all of them, and a list sorted by volume is the users in some order (`SumInOrder`). That kobo divide
into whole naira is `NairaIs`.

`StatementsProofs` proves about `Statements`, for any postings, orders of commits, faults,
queries and page limits, its four invariants: `TypeSafe`, `EmailsAreTrue`,
`LastBalanceIsTold`, `PagesMissNothing`. `PostingsInv` is `Transfer`'s argument again: who has
inserted a row has the wallet's balance alone, so it covers the debit until the commit.
An email's balance was read steps before it is sent; `Growth` shows that the balances that a wallet
has had since a job (`BalancesSince`) only become more, so a balance read after the commit stays
one of them, and `Done` says for every step of a notification that is over what it has read or
mailed. `LastJob` then gives `LastIsTold`: of the jobs that touched a wallet, the one last in
`log` has no balance since but the present one, and it has been mailed. `PagesAreHistory` is not
inductive, for it says nothing before the last page. `ReadingInv` does: a row that
was known and not shown yet has at least as many rows before it as the pages read so far
hold, and a row that was shown has fewer, unless one has come in before it. New rows only raise that
number, and the next page shows every row whose number is within it; the last page is
not full, so that no row is beyond it.

`Sums` proves what the sums over a finite set obey that `Total` of `Ledger`,
`BalanceAfter` of `Postings` and the totals and reports of `Analytics` are: `SumEmpty`, `SumAdd`, `SumRemove`,
`SumAgrees`, `SumInt`; from these, what sums are of larger values (`SumAtMost`), of ones (`SumOfOnes`), over sets
apart and over parts (`SumApart`, `SumOfParts`), and in another order (`SumInOrder`). The
community modules define a sum by recursion over sets in the order of CHOOSE. The theorems say that it
does not depend on that order. They go by a smallest counterexample (a set all of whose proper subsets
obey the law), from the library's `WFMin`, whose argument is a set and not an
operator; `SubsetsGrow` is the induction over finite sets that this gives, its argument a set too.

Beyond Init and Next the proofs use the named assumptions of the modules alone. In
`Accounts`, those say that ids are neither addresses nor names, and that asked-for names
are no addresses, which the rules of `dto/username-update-request.ts` give; in `Analytics`, that a
transfer is between two users and that users are finitely many, as the rows of a table are
(`ReportsTellOneStory` asks for a list with room for all): a transfer to oneself is never committed, since its two rows have
one wallet and one idempotency key, which `entities/transaction.entity.ts` 13 forbids.

Only model-checked: the liveness properties (`EveryCallEnds`, `PaidIsCredited`, `PaidIsDebited`,
`EveryEntryEnds`, `UndisturbedStartsListen`, `EveryPartyIsTold`), for TLAPS has neither fairness nor ENABLED here.
Every invariant, every action property and every refinement that a passing run checks is also a theorem.

## What is not modelled, and why

- *Transaction service*: `createTransaction` and `updateTransactionStatus` are refused
  by the database whenever they run (no idempotency key; the update trigger reads
  `NEW.reference`, which the table does not have). With them go the trigger on UPDATE
  and the one on DELETE, which no other statement of the services reaches.
- *The rest of the emails*: `sendWalletActivationEmail`, the templates of activation
  and of passwords, and `sendTransactionFailure` have no caller. Layout and wording are
  left out, and so is the currency, which is the same everywhere.
- *Negative amounts* outside `Transfer`, where they are followed to the balances, and
  `Cashout`: `Analytics` and `Postings` keep to positive ones, so that what reports and emails tell of
  a negative transfer is left out.
- *Filters by status and currency*: every row that is inserted is SUCCESSFUL and in
  NGN, so that these keep all rows or none.
- *Tokens and Firebase*: no state of the service. *DTOs and module wiring*:
  declarations; what validation rejects never reaches the modelled code.
- *Units*: naira in `Analytics` and `Postings`, kobo in `TopUp` and `Cashout`, where an
  intent may be of a part of a naira, and any unit in `Ledger` and `Transfer`.
  Floating point, where Paystack is told `amount * 100`, is listed as a hazard.
- *Keys*: the two rows of a transfer are taken to be the only ones with its
  idempotency key in `History`; `Transfer`, where keys are used again, shows why
  (`HistoryNamesCounterpart`, proved).

## Plan

1. `Ledger`, `Transfer`, `TransferProofs`: done.
2. `TopUp`, `Cashout`: done. `Analytics`, `Accounts`: done.
3. `Startup`, `StartupProofs`: done.
4. Reports in `Analytics`, look-ups in `Accounts`: done. `Postings`,
   `Notifications`, `History`, `Statements`: done.
5. `TopUpProofs`, `CashoutProofs`, `AccountsProofs`, `AnalyticsProofs`: done.
6. `Sums`, `BalancesAreHistory`, `StatementsProofs`: done.
7. `TotalsAddUp`, `OnlyEverLoses`, `ReportsTellOneStory`: done.
8. Open: liveness, beyond TLC's instances, would need a prover that has fairness.

To run: `tlc -config MCTransferAll.cfg MCTransfer` and likewise for the other
configurations, `tlapm TransferProofs.tla` and likewise for the other modules named `...Proofs`.
