------------------------------- MODULE Cashout -------------------------------
(***************************************************************************)
(* Cashing out: WalletService.initiateCashout checks the balance, saves an *)
(* intent, asks Paystack for a payout and then saves Paystack's reference; *)
(* the balance is debited by processCashoutFromWebhook when Paystack       *)
(* reports the payout.  Calls and webhooks run at once, one step per       *)
(* await, while transfers and top-ups post to the same wallets.  The       *)
(* database transaction of the debit is one step: the Withdraw of Ledger.  *)
(* Whose wallet it debits is left open by the code: the webhook is asked   *)
(* for an id that nobody sent.                                             *)
(*                                                                         *)
(* Paystack is outside the repository: it does what the code relies on.    *)
(* One cashout is one call, and its intent's id is the reference the       *)
(* payout is made under.                                                   *)
(***************************************************************************)
EXTENDS Integers, FiniteSets

CONSTANTS
    Users,          \* users, each with one wallet
    Undefined,      \* a field that is not there
    NoEvent,        \* what an idle handler works on
    Cashouts,       \* calls of initiateCashout
    Amount,         \* what each call asks for, in kobo
    Opening,        \* the balance each wallet starts with
    CallerId,       \* the id the controller hands to the service
    OtherKeys,      \* bound: the postings of transfers and top-ups
    OtherAmounts,   \* bound: what those are for
    Handlers,       \* bound: webhook requests the server works on at once
    MaxTries,       \* bound: times each payout's report is delivered
    Faults          \* bound: the faults that happen

AllFaults == {"payout", "payoutReply", "payoutFails", "database", "email", "reply", "crash"}

(* The deliveries of the report of a payout.                               *)
Delivery == UNION {[cashout: {c}, try: 1..MaxTries[c]] : c \in Cashouts}

ASSUME UndefinedAssumption == Undefined \notin Users
ASSUME NoEventAssumption == NoEvent \notin Delivery
ASSUME AmountAssumption == Amount \in [Cashouts -> Int]
ASSUME OpeningAssumption == Opening \in [Users -> Nat]
ASSUME CallerIdAssumption == CallerId \in [Cashouts -> Users \union {Undefined}]
ASSUME OthersAssumption == OtherKeys \intersect Delivery = {} /\ OtherAmounts \subseteq Int
ASSUME MaxTriesAssumption == MaxTries \in [Cashouts -> Nat]
ASSUME FaultsAssumption == Faults \subseteq AllFaults

VARIABLES
    book,           \* the rows of `transactions`
    balance,        \* wallet_balances.balance of the wallet of each user
    intent,         \* wallet_cashout_intents.status, "none" where no row
    referenced,     \* the intents whose paystack_reference is saved
    call,           \* where each call of initiateCashout is
    paystack,       \* Paystack's record of each payout
    due,            \* the payouts Paystack has yet to report
    tries,          \* times each report was delivered
    pc,             \* where each handler is
    event,          \* the delivery a handler works on
    payer,          \* the user whose wallet the handler debits
    early,          \* history: payouts reported before the reference was saved
    cutShort        \* history: deliveries that ended before they debited

tables == <<book, balance>>
externals == <<paystack, due, tries>>
handler == <<pc, event, payer>>
history == <<early, cutShort>>
vars == <<tables, intent, referenced, call, externals, handler, history>>

Calling == {"save", "payout", "reference"}
Working == {"find", "user", "debit", "emailFailed", "email"}
Answering == {"ok", "error"}

(* The same tables as the ledger sees them.                                *)
Abstract == INSTANCE Ledger WITH
    Wallets <- Users, Keys <- Delivery \union OtherKeys,
    Amounts <- {Amount[c] : c \in Cashouts} \union OtherAmounts

Init ==
    /\ book = {}
    /\ balance = Opening
    /\ intent = [c \in Cashouts |-> "none"]
    /\ referenced = {}
    /\ call = [c \in Cashouts |-> "start"]
    /\ paystack = [c \in Cashouts |-> "unknown"]
    /\ due = {}
    /\ tries = [c \in Cashouts |-> 0]
    /\ pc = [h \in Handlers |-> "idle"]
    /\ event = [h \in Handlers |-> NoEvent]
    /\ payer = [h \in Handlers |-> Undefined]
    /\ early = {}
    /\ cutShort = {}

At(c, place) == call' = [call EXCEPT ![c] = place]
Goto(h, place) == pc' = [pc EXCEPT ![h] = place]
About(h) == event[h].cashout

(* userService.findById: a condition on an undefined id is left out of the *)
(* query, and some row of the table is returned.                           *)
FoundById(id) == IF id = Undefined THEN Users ELSE {id}

-----------------------------------------------------------------------------
(* initiateCashout.  No money is held back between the check and the       *)
(* debit, and an inactive wallet is not refused.                           *)

CheckBalance(c) ==
    /\ call[c] = "start"
    /\ \E u \in FoundById(CallerId[c]) :
           At(c, IF balance[u] < Amount[c] THEN "rejected" ELSE "save")
    /\ UNCHANGED <<tables, intent, referenced, externals, handler, history>>

SaveNewIntent(c) ==
    /\ call[c] = "save"
    /\ intent' = [intent EXCEPT ![c] = "PENDING"]
    /\ At(c, "payout")
    /\ UNCHANGED <<tables, referenced, externals, handler, history>>

(* Paystack pays out positive amounts.  The dto asks for a number, and the *)
(* balance check lets a negative one pass.                                 *)
Payable(a) == a > 0

(* createPayout, in three outcomes: Paystack takes the payout and says so, *)
(* it takes the payout and the reply is lost, or it does not take it.      *)
CreatePayout(c) ==
    /\ call[c] = "payout"
    /\ \/ /\ Payable(Amount[c])
          /\ paystack' = [paystack EXCEPT ![c] = "accepted"]
          /\ \/ At(c, "reference")
             \/ "payoutReply" \in Faults /\ At(c, "failed")
       \/ /\ ~Payable(Amount[c]) \/ "payout" \in Faults
          /\ At(c, "failed")
          /\ UNCHANGED paystack
    /\ UNCHANGED <<tables, intent, referenced, due, tries, handler, history>>

(* Only from here on does a webhook find the intent.                       *)
SaveReference(c) ==
    /\ call[c] = "reference"
    /\ referenced' = referenced \union {c}
    /\ At(c, "done")
    /\ UNCHANGED <<tables, intent, externals, handler, history>>

(* Either save may fail, and the error ends the call.                      *)
SaveFails(c) ==
    /\ "database" \in Faults
    /\ call[c] \in {"save", "reference"}
    /\ At(c, "failed")
    /\ UNCHANGED <<tables, intent, referenced, externals, handler, history>>

-----------------------------------------------------------------------------
(* Paystack.                                                               *)

(* The payout reaches the bank account, or it does not.                    *)
Settle(c) ==
    /\ paystack[c] = "accepted"
    /\ \/ paystack' = [paystack EXCEPT ![c] = "paid"]
       \/ "payoutFails" \in Faults /\ paystack' = [paystack EXCEPT ![c] = "refused"]
    /\ due' = due \union {c}
    /\ UNCHANGED <<tables, intent, referenced, call, tries, handler, history>>

(* A report that was not answered 200 is delivered, again if need be, and  *)
(* also while an earlier delivery of it is still being handled.            *)
Deliver(h, c) ==
    /\ pc[h] = "idle"
    /\ c \in due
    /\ tries[c] < MaxTries[c]
    /\ tries' = [tries EXCEPT ![c] = @ + 1]
    /\ event' = [event EXCEPT ![h] = [cashout |-> c, try |-> tries[c] + 1]]
    /\ Goto(h, "find")
    /\ UNCHANGED <<tables, intent, referenced, call, paystack, due, payer, history>>

-----------------------------------------------------------------------------
(* handlePaystackWebhook and processCashoutFromWebhook.                    *)

(* parseCashoutWebhook: data.metadata.userId.  createPayout sends no       *)
(* metadata, and Paystack has none to send back.                           *)
UserId(c) == Undefined

(* Mutants of Successful and Outcome: any report of a payout counts;       *)
(* another enum's name.                                                    *)
MutantAnyReport(h) == TRUE
MutantOtherEnum(h) == IF paystack[About(h)] = "paid" THEN "SUCCESSFUL" ELSE "FAILED"

Successful(h) == paystack[About(h)] = "paid"

Outcome(h) == IF Successful(h) THEN "COMPLETED" ELSE "FAILED"

(* Mutant of SaveIntent: a failed payout only is recorded here.            *)
MutantSuccessUnsaved(h) ==
    /\ pc[h] = "find"
    /\ IF About(h) \in referenced
       THEN /\ intent' = [intent EXCEPT ![About(h)] = IF Successful(h) THEN @ ELSE "FAILED"]
            /\ UNCHANGED early
       ELSE early' = early \union {About(h)} /\ UNCHANGED intent
    /\ Goto(h, "user")
    /\ UNCHANGED <<tables, referenced, call, externals, event, payer, cutShort>>

(* The intent that has this reference gets the outcome.  Without one, and  *)
(* whatever its status was, the handler goes on.                           *)
SaveIntent(h) ==
    /\ pc[h] = "find"
    /\ IF About(h) \in referenced
       THEN intent' = [intent EXCEPT ![About(h)] = Outcome(h)] /\ UNCHANGED early
       ELSE early' = early \union {About(h)} /\ UNCHANGED intent
    /\ Goto(h, "user")
    /\ UNCHANGED <<tables, referenced, call, externals, event, payer, cutShort>>

(* Mutant of FindUser: an intent that is COMPLETED, saved a step ago, is   *)
(* not debited.                                                            *)
MutantRetryIgnored(h) ==
    /\ pc[h] = "user"
    /\ \E u \in FoundById(UserId(About(h))) : payer' = [payer EXCEPT ![h] = u]
    /\ Goto(h, IF ~Successful(h) THEN "emailFailed"
               ELSE IF intent[About(h)] = "COMPLETED" THEN "ok" ELSE "debit")
    /\ UNCHANGED <<tables, intent, referenced, call, externals, event, history>>

FindUser(h) ==
    /\ pc[h] = "user"
    /\ \E u \in FoundById(UserId(About(h))) : payer' = [payer EXCEPT ![h] = u]
    /\ Goto(h, IF Successful(h) THEN "debit" ELSE "emailFailed")
    /\ UNCHANGED <<tables, intent, referenced, call, externals, event, history>>

Row(w, k, t, a) == [wallet |-> w, key |-> k, type |-> t, amount |-> a]

(* The row has a uuid of its own for a key: one per run of the handler.    *)
DebitRow(h) == Row(payer[h], event[h], "DEBIT", Amount[About(h)])

(* Mutant of Covers: the trigger looks at the balance before the debit.    *)
MutantCoversAny(h) == balance[payer[h]] >= 0

(* The balance the trigger takes from must cover the debit.                *)
Covers(h) == balance[payer[h]] - Amount[About(h)] >= 0

(* The column `amount` of `transactions` is an integer, in naira: Postgres *)
(* refuses a row of any other amount.                                      *)
Storable(a) == a % 100 = 0

(* The database transaction: the row, whose trigger may refuse it, and the *)
(* user's totals.  An error leaves the handler.                            *)
Debit(h) ==
    /\ pc[h] = "debit"
    /\ IF Covers(h) /\ Storable(Amount[About(h)])
       THEN /\ book' = book \union {DebitRow(h)}
            /\ balance' = [balance EXCEPT ![payer[h]] = @ - Amount[About(h)]]
            /\ Goto(h, "email")
            /\ UNCHANGED cutShort
       ELSE /\ Goto(h, "error")
            /\ cutShort' = cutShort \union {event[h]}
            /\ UNCHANGED tables
    /\ UNCHANGED <<intent, referenced, call, externals, event, payer, early>>

(* The email about the debit, or about the failure: an error of the        *)
(* mailer, or of the balance read for it, leaves the handler.              *)
SendEmail(h) ==
    /\ pc[h] \in {"email", "emailFailed"}
    /\ \/ Goto(h, "ok")
       \/ "email" \in Faults /\ Goto(h, "error")
    /\ UNCHANGED <<tables, intent, referenced, call, externals, event, payer, history>>

BeforeDebit == {"find", "user", "debit"}

DatabaseFails(h) ==
    /\ "database" \in Faults
    /\ pc[h] \in BeforeDebit
    /\ Goto(h, "error")
    /\ cutShort' = cutShort \union {event[h]}
    /\ UNCHANGED <<tables, intent, referenced, call, externals, event, payer, early>>

(* The answer: after a 200 that arrives the event is not delivered again.  *)
Answer(h) ==
    /\ pc[h] \in Answering
    /\ \/ pc[h] = "ok" /\ due' = due \ {About(h)}
       \/ (pc[h] = "error" \/ "reply" \in Faults) /\ UNCHANGED due
    /\ Goto(h, "idle")
    /\ event' = [event EXCEPT ![h] = NoEvent]
    /\ payer' = [payer EXCEPT ![h] = Undefined]
    /\ UNCHANGED <<tables, intent, referenced, call, paystack, tries, history>>

-----------------------------------------------------------------------------

(* Transfers and top-ups post to the same ledger, as it lets them.         *)
PostElsewhere ==
    /\ \E u \in Users, k \in OtherKeys, a \in OtherAmounts :
           Abstract!Deposit(u, k, a) \/ Abstract!Withdraw(u, k, a)
    /\ UNCHANGED <<intent, referenced, call, externals, handler, history>>

(* The server stops: whatever was not committed is gone.                   *)
Crash ==
    /\ "crash" \in Faults
    /\ \/ \E h \in Handlers : pc[h] # "idle"
       \/ \E c \in Cashouts : call[c] \in Calling
    /\ pc' = [h \in Handlers |-> "idle"]
    /\ event' = [h \in Handlers |-> NoEvent]
    /\ payer' = [h \in Handlers |-> Undefined]
    /\ call' = [c \in Cashouts |-> IF call[c] \in Calling THEN "failed" ELSE call[c]]
    /\ cutShort' = cutShort \union {event[h] : h \in {g \in Handlers : pc[g] \in BeforeDebit}}
    /\ UNCHANGED <<tables, intent, referenced, externals, early>>

-----------------------------------------------------------------------------

Call(c) ==
    CheckBalance(c) \/ SaveNewIntent(c) \/ CreatePayout(c) \/ SaveReference(c)

Handle(h) ==
    SaveIntent(h) \/ FindUser(h) \/ Debit(h) \/ SendEmail(h) \/ Answer(h)

Next ==
    \/ \E c \in Cashouts : Call(c) \/ SaveFails(c) \/ Settle(c)
    \/ \E h \in Handlers, c \in Cashouts : Deliver(h, c)
    \/ \E h \in Handlers : Handle(h) \/ DatabaseFails(h)
    \/ PostElsewhere
    \/ Crash

Spec == Init /\ [][Next]_vars

(* The event loop goes on with every handler, and Paystack delivers what   *)
(* was not answered.                                                       *)
Fairness ==
    /\ \A h \in Handlers : WF_vars(Handle(h))
    /\ \A c \in Cashouts : WF_vars(\E h \in Handlers : Deliver(h, c))

FairSpec == Spec /\ Fairness

-----------------------------------------------------------------------------

(* Every variable has its type.                                            *)
TypeOK ==
    /\ book \subseteq [wallet: Users, key: Delivery \union OtherKeys,
                       type: {"CREDIT", "DEBIT"}, amount: Int]
    /\ balance \in [Users -> Int]
    /\ intent \in [Cashouts -> {"none", "PENDING", "COMPLETED", "FAILED"}]
    /\ referenced \subseteq Cashouts
    /\ call \in [Cashouts -> {"start", "rejected", "failed", "done"} \union Calling]
    /\ paystack \in [Cashouts -> {"unknown", "accepted", "paid", "refused"}]
    /\ due \subseteq Cashouts
    /\ \A c \in Cashouts : tries[c] \in 0..MaxTries[c]
    /\ pc \in [Handlers -> {"idle"} \union Working \union Answering]
    /\ event \in [Handlers -> Delivery \union {NoEvent}]
    /\ payer \in [Handlers -> Users \union {Undefined}]
    /\ early \subseteq Cashouts
    /\ cutShort \subseteq Delivery

(* Cashouts post to the ledger as it promises, beside transfers and        *)
(* top-ups: one covered row under a new key for each, and its balance,     *)
(* however many of them passed the same balance check, and nothing for a   *)
(* debit that is refused or interrupted.                                   *)
ImplementsLedger == Abstract!Spec

Debits(c) == {e \in book : e.key \in Delivery /\ e.key.cashout = c}
Debited(c) == Debits(c) # {}

(* What the database says of a payout is what became of it, however often  *)
(* its report is delivered: a settled intent has its outcome, and one that *)
(* did not reach the bank account took no money.  Whatever is asked of     *)
(* Paystack has been recorded before: no crash or lost reply leaves a      *)
(* payout that the database knows nothing of.                              *)
RecordsTellOutcome ==
    \A c \in Cashouts :
        /\ paystack[c] # "unknown" => intent[c] # "none"
        /\ intent[c] = "COMPLETED" \/ Debited(c) => paystack[c] = "paid"
        /\ intent[c] = "FAILED" => paystack[c] = "refused"

(* A payout that was debited is COMPLETED, except when Paystack reported   *)
(* it before its reference was saved.                                      *)
DebitedIsCompletedUnlessEarly ==
    \A c \in Cashouts \ early : Debited(c) => intent[c] = "COMPLETED"

(* A payout that reached the bank account has been debited or is reported  *)
(* again: no money is held back for it and its debit may be refused after  *)
(* COMPLETED was saved, or be cut off, but the report of it is answered    *)
(* 200 by no handler that has not seen the debit committed.                *)
PaidIsDebitedOrDue ==
    \A c \in Cashouts : paystack[c] = "paid" => Debited(c) \/ c \in due

(* A payout that reached the bank is debited in the end unless every one   *)
(* of its deliveries is cut short: a delivery that fails is made up for by *)
(* the next, as the intent's status is not looked at.                      *)
PaidIsDebited ==
    \A c \in Cashouts :
        paystack[c] = "paid" ~>
            Debited(c) \/ \A n \in 1..MaxTries[c] : [cashout |-> c, try |-> n] \in cutShort

(* "Idempotency support to prevent duplicate transactions".                *)
DebitedAtMostOnce == \A c \in Cashouts : \A d, e \in Debits(c) : d = e

=============================================================================
