-------------------------------- MODULE TopUp --------------------------------
(***************************************************************************)
(* Topping up a wallet: WalletService.getTopupPaymentLink makes an intent  *)
(* and a Paystack transaction, the customer pays Paystack, and Paystack    *)
(* tells the server with webhooks, delivered again until one is answered   *)
(* 200.  WebhookService.handlePaystackWebhook runs for several deliveries  *)
(* at once, one step per await.  The database transaction of fundWallet is *)
(* one step: it is the Deposit of Ledger.  Whose wallet it credits is left *)
(* open by the code: the webhook is asked for an id that nobody sent.      *)
(*                                                                         *)
(* Paystack and the customer are outside the repository: they do what the  *)
(* code relies on and no more.                                             *)
(***************************************************************************)
EXTENDS Integers, FiniteSets

CONSTANTS
    Users,          \* users, each with one wallet
    Undefined,      \* a field the webhook's payload does not have
    NoEvent,        \* what an idle handler works on
    References,     \* paystackReference, one per payment link
    Owner,          \* the user who asked for each link
    Amounts,        \* what links may be for, in kobo
    Opening,        \* the balance each wallet starts with
    Events,         \* bound: what Paystack reports, "success" or "other"
    Handlers,       \* bound: webhook requests the server works on at once
    MaxTries,       \* bound: times one event is delivered
    Faults,         \* bound: the faults that happen
    Switchable      \* bound: the users whose wallet is switched on and off

AllFaults == {"initialize", "verify", "database", "reply", "crash"}

ASSUME UndefinedAssumption == Undefined \notin Users
ASSUME OwnerAssumption == Owner \in [References -> Users]
ASSUME AmountsAssumption == Amounts \subseteq Nat \ {0}
ASSUME OpeningAssumption == Opening \in [Users -> Nat]
ASSUME EventsAssumption == Events \subseteq {"success", "other"}
ASSUME MaxTriesAssumption == MaxTries \in Nat
ASSUME FaultsAssumption == Faults \subseteq AllFaults
ASSUME SwitchableAssumption == Switchable \subseteq Users

VARIABLES
    amount,         \* what each link is for
    active,         \* wallets.is_active of the wallet of each user
    book,           \* the rows of `transactions`
    balance,        \* wallet_balances.balance of the wallet of each user
    intent,         \* wallet_topup_intents.status, "none" where there is no row
    link,           \* the call of getTopupPaymentLink for each reference
    paystack,       \* Paystack's own record of each transaction
    due,            \* the events Paystack has to deliver
    tries,          \* times each event was delivered
    pc,             \* where each handler is
    event,          \* the delivery a handler works on
    seen,           \* intent.status as verifyTransaction read it
    payee,          \* the user whose wallet the handler funds
    overlapped,     \* history: references verified by two handlers at once
    failed          \* history: the deliveries that failed, and how

tables == <<book, balance>>
externals == <<paystack, due, tries>>
handler == <<pc, event, seen, payee>>
history == <<overlapped, failed>>
vars == <<amount, active, tables, intent, link, externals, handler, history>>

(* What Paystack reports, and the deliveries of it.                        *)
Event == [reference: References, kind: {"success", "other"}]
About(ref, kind) == [reference |-> ref, kind |-> kind]
Delivery == [reference: References, kind: {"success", "other"}, try: 1..MaxTries]
EventOf(h) == About(event[h].reference, event[h].kind)

(* A handler that has read the intent in verifyTransaction and has not yet *)
(* saved it; one that has saved the success and not yet credited it; all   *)
(* places before the answer; the two answers.                              *)
Verifying == {"verify", "save"}
Paying == {"find", "check", "fund"}
Working == {"read", "find", "check", "fund", "notify"} \union Verifying
Answering == {"ok", "error"}

Init ==
    /\ amount \in [References -> Amounts]
    /\ active \in [Users -> BOOLEAN]
    /\ \A u \in Users \ Switchable : active[u]
    /\ book = {}
    /\ balance = Opening
    /\ intent = [ref \in References |-> "none"]
    /\ link = [ref \in References |-> "none"]
    /\ paystack = [ref \in References |-> "unknown"]
    /\ due = {}
    /\ tries = [e \in Event |-> 0]
    /\ pc = [h \in Handlers |-> "idle"]
    /\ event = [h \in Handlers |-> NoEvent]
    /\ seen = [h \in Handlers |-> "none"]
    /\ payee = [h \in Handlers |-> Undefined]
    /\ overlapped = {}
    /\ failed = {}

Goto(h, place) == pc' = [pc EXCEPT ![h] = place]

-----------------------------------------------------------------------------
(* getTopupPaymentLink.                                                    *)

SaveNewIntent(ref) ==
    /\ link[ref] = "none"
    /\ link' = [link EXCEPT ![ref] = "saved"]
    /\ intent' = [intent EXCEPT ![ref] = "PENDING"]
    /\ UNCHANGED <<amount, active, tables, externals, handler, history>>

(* initializePayment: Paystack makes the transaction, or the call fails    *)
(* and the intent is left as it is.                                        *)
InitializePayment(ref) ==
    /\ link[ref] = "saved"
    /\ \/ /\ link' = [link EXCEPT ![ref] = "given"]
          /\ paystack' = [paystack EXCEPT ![ref] = "initialized"]
       \/ /\ "initialize" \in Faults
          /\ link' = [link EXCEPT ![ref] = "failed"]
          /\ UNCHANGED paystack
    /\ UNCHANGED <<amount, active, tables, intent, due, tries, handler, history>>

-----------------------------------------------------------------------------
(* The customer and Paystack.                                              *)

Pay(ref) ==
    /\ paystack[ref] = "initialized"
    /\ paystack' = [paystack EXCEPT ![ref] = "success"]
    /\ due' = due \union ({About(ref, "success")} \intersect
                          [reference: References, kind: Events])
    /\ UNCHANGED <<amount, active, tables, intent, link, tries, handler, history>>

(* Another event of the charge family about the same transaction.          *)
ReportOther(ref) ==
    /\ "other" \in Events
    /\ paystack[ref] # "unknown"
    /\ tries[About(ref, "other")] = 0
    /\ due' = due \union {About(ref, "other")}
    /\ UNCHANGED <<amount, active, tables, intent, link, paystack, tries, handler, history>>

(* An event that was not answered 200 is delivered, again if need be, and  *)
(* also while an earlier delivery of it is still being handled.            *)
Deliver(h, e) ==
    /\ pc[h] = "idle"
    /\ e \in due
    /\ tries[e] < MaxTries
    /\ tries' = [tries EXCEPT ![e] = @ + 1]
    /\ event' = [event EXCEPT ![h] = [reference |-> e.reference, kind |-> e.kind,
                                      try |-> tries[e] + 1]]
    /\ Goto(h, "read")
    /\ UNCHANGED <<amount, active, tables, intent, link, paystack, due, seen, payee, history>>

-----------------------------------------------------------------------------
(* handlePaystackWebhook.  Every step may find the database gone: the      *)
(* error leaves the handler and the controller answers 500.                *)

Reference(h) == event[h].reference

(* How a delivery fails: before the intent is saved or after it, when no   *)
(* other delivery gets past verifyTransaction; once the payment is         *)
(* credited no failure matters.  "unverified" is what Verify answers 200.  *)
Failures(h) ==
    {[delivery |-> event[h], how |-> how] : how \in
        IF pc[h] \in Paying THEN {"afterSave"}
        ELSE IF pc[h] \in {"read"} \union Verifying THEN {"beforeSave"} ELSE {}}

Fail(h) == failed' = failed \union Failures(h)

DatabaseFails(h) ==
    /\ "database" \in Faults
    /\ pc[h] \in Working \ {"verify"}
    /\ Goto(h, "error")
    /\ Fail(h)
    /\ UNCHANGED <<amount, active, tables, intent, link, externals, event, seen, payee, overlapped>>

(* verifyTransaction reads the intent ...                                  *)
ReadIntent(h) ==
    /\ pc[h] = "read"
    /\ LET ref == Reference(h) IN
       /\ seen' = [seen EXCEPT ![h] = intent[ref]]
       /\ Goto(h, IF intent[ref] = "none" THEN "ok" ELSE "verify")
       /\ overlapped' =
              IF \E g \in Handlers \ {h} : pc[g] \in Verifying /\ Reference(g) = ref
              THEN overlapped \union {ref} ELSE overlapped
    /\ UNCHANGED <<amount, active, tables, intent, link, externals, event, payee, failed>>

(* Mutants of Confirmed and Unsettled: any answer of Paystack counts; any  *)
(* status passes; only a new intent passes.                                *)
MutantAnyAnswer(ref) == paystack[ref] # "unknown"
MutantAnyStatus(status) == TRUE
MutantOnlyPending(status) == status = "PENDING"

Confirmed(ref) == paystack[ref] = "success"
Unsettled(status) == status # "COMPLETED"

(* ... and asks Paystack.  The status read before the request is the one   *)
(* looked at after it.  A request that fails is caught, the webhook is     *)
(* answered as if there were nothing to do.                                *)
Verify(h) ==
    /\ pc[h] = "verify"
    /\ \/ /\ Goto(h, IF Confirmed(Reference(h)) /\ Unsettled(seen[h])
                     THEN "save" ELSE "ok")
          /\ UNCHANGED failed
       \/ /\ "verify" \in Faults
          /\ Goto(h, "ok")
          /\ failed' = failed \union {[delivery |-> event[h], how |-> "unverified"]}
    /\ UNCHANGED <<amount, active, tables, intent, link, externals, event, seen, payee, overlapped>>

(* Mutants of Outcome: another enum's name; the status is left as it was.  *)
MutantOtherEnum(kind) == IF kind = "success" THEN "SUCCESSFUL" ELSE "FAILED"
MutantStillPending(kind) == "PENDING"

Outcome(kind) == IF kind = "success" THEN "COMPLETED" ELSE "FAILED"

(* processTopUpFromWebhook saves the outcome in the intent, and goes on    *)
(* for a successful charge.                                                *)
SaveIntent(h) ==
    /\ pc[h] = "save"
    /\ intent' = [intent EXCEPT ![Reference(h)] = Outcome(event[h].kind)]
    /\ Goto(h, IF event[h].kind = "success" THEN "find" ELSE "ok")
    /\ UNCHANGED <<amount, active, tables, link, externals, event, seen, payee, history>>

(* parseTopUpWebhook: data.metadata.userId.  initializePayment sends no    *)
(* metadata, and Paystack has none to send back.                           *)
UserId(ref) == Undefined

(* userService.findById: a condition on an undefined id is left out of the *)
(* query, and some row of the table is returned.                           *)
FoundById(id) == IF id = Undefined THEN Users ELSE {id}

FindUser(h) ==
    /\ pc[h] = "find"
    /\ \E u \in FoundById(UserId(Reference(h))) :
           payee' = [payee EXCEPT ![h] = u]
    /\ Goto(h, "check")
    /\ UNCHANGED <<amount, active, tables, intent, link, externals, event, seen, history>>

(* fundWallet refuses an inactive wallet.                                  *)
CheckWallet(h) ==
    /\ pc[h] = "check"
    /\ IF active[payee[h]]
       THEN Goto(h, "fund") /\ UNCHANGED failed
       ELSE Goto(h, "error") /\ Fail(h)
    /\ UNCHANGED <<amount, active, tables, intent, link, externals, event, seen, payee, overlapped>>

Row(w, k, t, a) == [wallet |-> w, key |-> k, type |-> t, amount |-> a]

(* The row has a uuid of its own for a key: one per run of the handler.    *)
CreditRow(h) == Row(payee[h], event[h], "CREDIT", amount[Reference(h)])

(* The column `amount` of `transactions` is an integer, in naira: Postgres *)
(* refuses a row of any other amount.                                      *)
Storable(a) == a % 100 = 0

(* The database transaction: the row, with the trigger that adds to the    *)
(* balance, and the user's totals.  An error leaves the handler.           *)
Fund(h) ==
    /\ pc[h] = "fund"
    /\ IF Storable(amount[Reference(h)])
       THEN /\ book' = book \union {CreditRow(h)}
            /\ balance' = [balance EXCEPT ![payee[h]] = @ + amount[Reference(h)]]
            /\ Goto(h, "notify")
            /\ UNCHANGED failed
       ELSE Goto(h, "error") /\ Fail(h) /\ UNCHANGED tables
    /\ UNCHANGED <<amount, active, intent, link, externals, event, seen, payee, overlapped>>

(* The user is read again and the email is sent; only the email's failure  *)
(* is caught.                                                              *)
Notify(h) ==
    /\ pc[h] = "notify"
    /\ Goto(h, "ok")
    /\ UNCHANGED <<amount, active, tables, intent, link, externals, event, seen, payee, history>>

Idle(h) ==
    /\ Goto(h, "idle")
    /\ event' = [event EXCEPT ![h] = NoEvent]
    /\ seen' = [seen EXCEPT ![h] = "none"]
    /\ payee' = [payee EXCEPT ![h] = Undefined]

(* The answer: after a 200 that arrives the event is not delivered again.  *)
Answer(h) ==
    /\ pc[h] \in Answering
    /\ \/ pc[h] = "ok" /\ due' = due \ {EventOf(h)}
       \/ (pc[h] = "error" \/ "reply" \in Faults) /\ UNCHANGED due
    /\ Idle(h)
    /\ UNCHANGED <<amount, active, tables, intent, link, paystack, tries, history>>

(* The server stops: whatever was not committed is gone.                   *)
Crash ==
    /\ "crash" \in Faults
    /\ \E h \in Handlers : pc[h] # "idle"
    /\ pc' = [h \in Handlers |-> "idle"]
    /\ event' = [h \in Handlers |-> NoEvent]
    /\ seen' = [h \in Handlers |-> "none"]
    /\ payee' = [h \in Handlers |-> Undefined]
    /\ link' = [ref \in References |->
                   IF link[ref] = "saved" THEN "failed" ELSE link[ref]]
    /\ failed' = failed \union UNION {Failures(h) : h \in Handlers}
    /\ UNCHANGED <<amount, active, tables, intent, externals, overlapped>>

(* activateWallet and deactivateWallet, at any time.                       *)
SwitchWallet(u) ==
    /\ active' = [active EXCEPT ![u] = ~@]
    /\ UNCHANGED <<amount, tables, intent, link, externals, handler, history>>

-----------------------------------------------------------------------------

Handle(h) ==
    \/ ReadIntent(h) \/ Verify(h) \/ SaveIntent(h) \/ FindUser(h)
    \/ CheckWallet(h) \/ Fund(h) \/ Notify(h) \/ Answer(h)

Next ==
    \/ \E ref \in References :
           SaveNewIntent(ref) \/ InitializePayment(ref) \/ Pay(ref) \/ ReportOther(ref)
    \/ \E h \in Handlers, e \in Event : Deliver(h, e)
    \/ \E h \in Handlers : Handle(h) \/ DatabaseFails(h)
    \/ Crash
    \/ \E u \in Switchable : SwitchWallet(u)

Spec == Init /\ [][Next]_vars

(* The event loop goes on with every handler, and Paystack delivers what   *)
(* was not answered.                                                       *)
Fairness ==
    /\ \A h \in Handlers : WF_vars(Handle(h))
    /\ \A e \in Event : WF_vars(\E h \in Handlers : Deliver(h, e))

FairSpec == Spec /\ Fairness

-----------------------------------------------------------------------------

(* Every variable has its type.                                            *)
TypeOK ==
    /\ amount \in [References -> Amounts]
    /\ active \in [Users -> BOOLEAN]
    /\ intent \in [References -> {"none", "PENDING", "COMPLETED", "FAILED"}]
    /\ link \in [References -> {"none", "saved", "given", "failed"}]
    /\ paystack \in [References -> {"unknown", "initialized", "success"}]
    /\ due \subseteq Event
    /\ tries \in [Event -> 0..MaxTries]
    /\ pc \in [Handlers -> {"idle"} \union Working \union Answering]
    /\ event \in [Handlers -> Delivery \union {NoEvent}]
    /\ seen \in [Handlers -> {"none", "PENDING", "COMPLETED", "FAILED"}]
    /\ payee \in [Handlers -> Users \union {Undefined}]
    /\ overlapped \subseteq References
    /\ failed \subseteq [delivery: Delivery, how: {"beforeSave", "afterSave", "unverified"}]
    /\ book \subseteq [wallet: Users, key: Delivery, type: {"CREDIT"}, amount: Amounts]
    /\ balance \in [Users -> Nat]

Credits(ref) == {e \in book : e.key.reference = ref}
Credited(ref) == Credits(ref) # {}
AtMostOnce(ref) == \A d, e \in Credits(ref) : d = e

(* A payment is credited at most once however often its events are         *)
(* delivered, retried after errors and cut off by crashes, as long as no   *)
(* two deliveries verify the same reference at the same time.              *)
CreditedOnceUnlessOverlapped ==
    \A ref \in References \ overlapped : AtMostOnce(ref)

(* The status of a payment that was credited, or is about to be, says so,  *)
(* and stays so whatever else Paystack reports later: it is what keeps     *)
(* verifyTransaction from letting the payment through again.               *)
CompletedIsFinal ==
    [][\A ref \in References \ overlapped' :
           intent[ref] = "COMPLETED" => intent'[ref] = "COMPLETED"]_vars

(* Until Paystack itself says that the customer has paid, no event changes *)
(* the intent and nothing is credited.                                     *)
UnpaidStaysPending ==
    \A ref \in References :
        paystack[ref] # "success"
            => intent[ref] \in {"none", "PENDING"} /\ ~Credited(ref)

(* A delivery failed after COMPLETED was saved: no other will credit it.   *)
CutOff(ref) ==
    \E f \in failed : f.delivery.reference = ref /\ f.how = "afterSave"

(* Paystack delivers the success no more, and each delivery of it failed.  *)
GivenUp(ref) ==
    LET e == About(ref, "success") IN
    /\ e \notin due \/ tries[e] = MaxTries
    /\ \A n \in 1..tries[e] : \E f \in failed :
           f.delivery = [reference |-> ref, kind |-> "success", try |-> n]

(* One delivery of the success that does not fail is enough for a payment  *)
(* to be credited to somebody: failures before the save, lost answers and  *)
(* other events, before it or at the same time, are all made up for, and   *)
(* only a failure between the save and the credit is not.                  *)
PaidIsCredited ==
    \A ref \in References :
        paystack[ref] = "success" ~> Credited(ref) \/ CutOff(ref) \/ GivenUp(ref)

(* What the test of parseTopUpWebhook takes for granted, a webhook that    *)
(* carries the id of the user who asked for the link: a payment is         *)
(* credited to that user's wallet.                                         *)
CreditedToOwner == \A e \in book : e.wallet = Owner[e.key.reference]

(* "should update intent and fund wallet if successful": an intent that is *)
(* COMPLETED is credited, or a handler is at work on it.                   *)
CompletedIsCredited ==
    \A ref \in References :
        intent[ref] = "COMPLETED" =>
            \/ Credited(ref)
            \/ \E h \in Handlers : pc[h] \in Working /\ Reference(h) = ref
=============================================================================
