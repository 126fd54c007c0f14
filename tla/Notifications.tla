---------------------------- MODULE Notifications ----------------------------
(***************************************************************************)
(* Who is told what once money has moved: the listener of                  *)
(* 'transfer.completed', and what fundWallet and processCashoutFromWebhook *)
(* do after their transaction.  A job asks for balances, one statement     *)
(* each, and sends the emails one after another, while other jobs post;    *)
(* what it tells is what it read.                                          *)
(*                                                                         *)
(* An email that throws ends the job; one that the mail service answers    *)
(* with an error object is only logged.  Slack never throws.               *)
(***************************************************************************)
EXTENDS Postings

CONSTANTS
    Minute,         \* instants in a minute: emails tell no less
    NoBalance,      \* a balance that was not read yet
    MaxFaults       \* bound: how many jobs are hit by one before the last

AllFaults == {"rollback", "reply", "database", "mail", "resend", "crash"}

ASSUME FaultsAssumption ==
    MaxFaults \in Nat /\ \A m \in Mixes : m.faults \subseteq AllFaults
ASSUME MinuteAssumption == Minute \in Nat \ {0}
ASSUME NoBalanceAssumption == NoBalance \notin Nat

VARIABLES
    at,             \* how many steps of its notification a job has made
    read,           \* the balances it has read, by wallet
    mails,          \* the emails that were accepted, as they read
    slack,          \* the transfers posted to Slack
    dropped,        \* emails answered with an error object: job and wallet
    cut             \* the jobs whose notification was ended by an error

notices == <<at, read, mails, slack, dropped, cut>>

Hit == undone \union cut \union {d.job : d \in dropped}
MayFail(fault) == fault \in mix.faults /\ Cardinality(Hit) < MaxFaults

(* Mutants of Steps: a payer is told before the balance was read; a        *)
(* transfer's recipient is forgotten.                                      *)
MutantMailFirst(j) ==
    CASE Work[j].kind = "transfer" -> <<"slack", "mailFrom", "readFrom", "readTo", "mailTo">>
      [] Work[j].kind = "topup" -> <<"findUser", "readTo", "mailTo">>
      [] OTHER -> <<"mailFrom", "readFrom">>
MutantOneEmail(j) ==
    CASE Work[j].kind = "transfer" -> <<"slack", "readFrom", "readTo", "mailFrom">>
      [] Work[j].kind = "topup" -> <<"findUser", "readTo", "mailTo">>
      [] OTHER -> <<"readFrom", "mailFrom">>

(* What follows the commit of a job, in the code's order.                  *)
Steps(j) ==
    CASE Work[j].kind = "transfer" -> <<"slack", "readFrom", "readTo", "mailFrom", "mailTo">>
      [] Work[j].kind = "topup" -> <<"findUser", "readTo", "mailTo">>
      [] OTHER -> <<"readFrom", "mailFrom">>

NotifyInit ==
    /\ at = [j \in Jobs |-> 0]
    /\ read = [j \in Jobs |-> [w \in Wallets |-> NoBalance]]
    /\ mails = {}
    /\ slack = {}
    /\ dropped = {}
    /\ cut = {}

-----------------------------------------------------------------------------
(* What an email says.  A sign is kept apart from its amount, and the      *)
(* currency, which is the same everywhere, is left out.                    *)

formatCurrency(amount) == [signs |-> <<>>, amount |-> amount]
formatSignedAmount(amount, isCredit) ==
    [formatCurrency(amount) EXCEPT !.signs = <<IF isCredit THEN "+" ELSE "-">>]
formatDateTime(t) == t \div Minute

Mail(subject, to, other, amount, balance, id, time) ==
    [subject |-> subject, to |-> to, other |-> other, amount |-> amount,
     balance |-> balance, id |-> id, time |-> time]

WalletDebitedTemplate(to, data) ==
    Mail("Wallet Debited", to, data.beneficiary, data.amount, data.balance, data.txId, data.time)
WalletCreditedTemplate(to, data) ==
    Mail("Wallet Credited", to, data.sender, data.amount, data.balance, data.txId, data.time)
WalletTopupTemplate(to, data) ==
    Mail("Wallet Top-Up", to, NoWallet, data.amount, data.balance, data.txId, data.time)

(* The templates of cashouts put a minus of their own before the amount.   *)
Minus(text) == [text EXCEPT !.signs = <<"-">> \o @]
WalletCashoutTemplate(to, data) ==
    Mail("Cashout Processed", to, NoWallet, Minus(data.amount), data.balance, data.txId, data.time)
WalletCashoutFailedTemplate(to, data) ==
    Mail("Cashout Failed", to, NoWallet, Minus(data.amount), data.balance, data.txId, data.time)

(* A row is known by its job and type.                                     *)
Id(j, t) == [job |-> j, type |-> t]

sendWalletDebitNotificationEmail(j) ==
    WalletDebitedTemplate(Work[j].from,
        [beneficiary |-> Work[j].to,
         amount |-> formatSignedAmount(Work[j].amount, FALSE),
         balance |-> formatCurrency(read[j][Work[j].from]),
         txId |-> Id(j, "DEBIT"),
         time |-> formatDateTime(createdAt[j]["DEBIT"])])

sendWalletCreditNotificationEmail(j) ==
    WalletCreditedTemplate(Work[j].to,
        [sender |-> Work[j].from,
         amount |-> formatSignedAmount(Work[j].amount, TRUE),
         balance |-> formatCurrency(read[j][Work[j].to]),
         txId |-> Id(j, "CREDIT"),
         time |-> formatDateTime(createdAt[j]["CREDIT"])])

sendWalletTopupNotificationEmail(j) ==
    WalletTopupTemplate(Work[j].to,
        [amount |-> formatSignedAmount(Work[j].amount, TRUE),
         balance |-> formatCurrency(read[j][Work[j].to]),
         txId |-> Id(j, "CREDIT"),
         time |-> formatDateTime(createdAt[j]["CREDIT"])])

sendWalletCashoutNotificationEmail(j) ==
    WalletCashoutTemplate(Work[j].from,
        [amount |-> formatSignedAmount(Work[j].amount, FALSE),
         balance |-> formatCurrency(read[j][Work[j].from]),
         txId |-> Id(j, "DEBIT"),
         time |-> formatDateTime(clock)])

(* No row to name: the payout's reference.                                 *)
sendWalletCashoutFailedNotificationEmail(j) ==
    WalletCashoutFailedTemplate(Work[j].from,
        [amount |-> formatSignedAmount(Work[j].amount, FALSE),
         balance |-> formatCurrency(read[j][Work[j].from]),
         txId |-> Id(j, "REFERENCE"),
         time |-> formatDateTime(clock)])

MailFrom(j) ==
    CASE Work[j].kind = "transfer" -> sendWalletDebitNotificationEmail(j)
      [] Work[j].kind = "cashout" -> sendWalletCashoutNotificationEmail(j)
      [] Work[j].kind = "refused" -> sendWalletCashoutFailedNotificationEmail(j)

MailTo(j) ==
    IF Work[j].kind = "transfer" THEN sendWalletCreditNotificationEmail(j)
    ELSE sendWalletTopupNotificationEmail(j)

-----------------------------------------------------------------------------
(* The steps.                                                              *)

(* Mutant of MayNotify: the event is emitted inside the transaction.       *)
MutantEmittedEarly(j) ==
    (j \in Committed \/ inserted[j] = Types(j)) /\ j \notin cut /\ at[j] < Len(Steps(j))

(* Mutant of MayNotify: the balance is asked for before the commit.        *)
MutantReadInside(j) ==
    /\ j \notin cut /\ at[j] < Len(Steps(j))
    /\ j \in Committed \/ (inserted[j] = Types(j) /\ Steps(j)[at[j] + 1] = "readFrom")

MayNotify(j) == j \in Committed /\ j \notin cut /\ at[j] < Len(Steps(j))

NextStep(j, step) ==
    /\ MayNotify(j)
    /\ Steps(j)[at[j] + 1] = step
    /\ at' = [at EXCEPT ![j] = @ + 1]
    /\ UNCHANGED cut

(* sendMessage answers false when it fails.                                *)
PostToSlack(j) ==
    /\ NextStep(j, "slack")
    /\ \/ slack' = slack \union {j}
       \/ UNCHANGED slack
    /\ UNCHANGED <<read, mails, dropped>>

(* The user a top-up is for, and that user's address.                      *)
FindUser(j) ==
    /\ NextStep(j, "findUser")
    /\ UNCHANGED <<read, mails, slack, dropped>>

(* getWalletBalance.                                                       *)
ReadBalance(j, step, w) ==
    /\ NextStep(j, step)
    /\ read' = [read EXCEPT ![j][w] = Balance(w)]
    /\ UNCHANGED <<mails, slack, dropped>>

(* sendMail, when it returns.                                              *)
SendMail(j, step, mail) ==
    /\ NextStep(j, step)
    /\ \/ mails' = mails \union {mail} /\ UNCHANGED dropped
       \/ /\ MayFail("resend")
          /\ dropped' = dropped \union {[job |-> j, to |-> mail.to]}
          /\ UNCHANGED mails
    /\ UNCHANGED <<read, slack>>

(* A statement or a mail that throws: what is left of the job is not done. *)
Throw(j) ==
    /\ MayNotify(j)
    /\ \/ MayFail("mail") /\ Steps(j)[at[j] + 1] \in {"mailFrom", "mailTo"}
       \/ MayFail("database") /\ Steps(j)[at[j] + 1] \in {"findUser", "readFrom", "readTo"}
    /\ cut' = cut \union {j}
    /\ UNCHANGED <<at, read, mails, slack, dropped>>

Notify(j) ==
    \/ PostToSlack(j) \/ FindUser(j)
    \/ MayNotify(j) /\ Work[j].kind # "topup"
           /\ (ReadBalance(j, "readFrom", Work[j].from) \/ SendMail(j, "mailFrom", MailFrom(j)))
    \/ MayNotify(j) /\ Work[j].kind \in {"transfer", "topup"}
           /\ (ReadBalance(j, "readTo", Work[j].to) \/ SendMail(j, "mailTo", MailTo(j)))

(* The server stops: nothing of what it was about to tell is told.         *)
CutAll == cut' = cut \union {j \in Committed : MayNotify(j)}
              /\ UNCHANGED <<at, read, mails, slack, dropped>>
-----------------------------------------------------------------------------

Text == [signs: Seq({"+", "-"}), amount: Int]
Mails == [subject: {"Wallet Debited", "Wallet Credited", "Wallet Top-Up",
                    "Cashout Processed", "Cashout Failed"},
          to: Wallets, other: Wallets \union {NoWallet}, amount: Text, balance: Text,
          id: [job: Jobs, type: {"CREDIT", "DEBIT", "REFERENCE"}], time: Nat]

NotifyTypeOK ==
    /\ \A j \in Jobs : at[j] \in 0..Len(Steps(j))
    /\ read \in [Jobs -> [Wallets -> Nat \union {NoBalance}]]
    /\ mails \subseteq Mails
    /\ slack \subseteq Jobs
    /\ dropped \subseteq [job: Jobs, to: Wallets]
    /\ cut \subseteq Jobs
=============================================================================
