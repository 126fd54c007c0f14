----------------------------- MODULE Statements -----------------------------
(***************************************************************************)
(* What people are told of their money: the emails that follow each        *)
(* posting and the pages of a wallet's history, while postings go on.      *)
(***************************************************************************)
EXTENDS Notifications, History

vars == <<postings, notices, reading>>

Init == PostingsInit /\ NotifyInit /\ HistoryInit

(* The transaction is committed; its caller hears of it, and goes on.      *)
CommitHeard(j) == Commit(j) /\ UNCHANGED notices

(* It is committed, and the answer is lost: transaction() throws, and      *)
(* nothing after it is done.                                               *)
CommitLost(j) ==
    /\ MayFail("reply")
    /\ Commit(j)
    /\ cut' = cut \union {j}
    /\ UNCHANGED <<at, read, mails, slack, dropped>>

(* The server stops, and starts again.                                     *)
Crash == MayFail("crash") /\ RollBackAll /\ CutAll

Next ==
    \/ Tick /\ UNCHANGED <<notices, reading>>
    \/ \E j \in Jobs :
           \/ (CreateRow(j) \/ InsertRow(j)) /\ UNCHANGED <<notices, reading>>
           \/ MayFail("rollback") /\ RollBack(j) /\ UNCHANGED <<notices, reading>>
           \/ (CommitHeard(j) \/ CommitLost(j)) /\ UNCHANGED reading
           \/ Refuse(j) /\ UNCHANGED <<notices, reading>>
           \/ (Notify(j) \/ Throw(j)) /\ UNCHANGED <<postings, reading>>
    \/ Crash /\ UNCHANGED reading
    \/ Read /\ UNCHANGED <<postings, notices>>

Spec == Init /\ [][Next]_vars

(* The event loop goes on with whatever is ready: a query or a call that   *)
(* some notification waits for is answered, or fails.  No transaction has  *)
(* to end, and nobody has to read on.                                      *)
FairSpec == Spec /\ WF_notices(\E j \in Jobs : Notify(j) \/ Throw(j))
-----------------------------------------------------------------------------

(* Clocks, rows, emails, what was read for them and what was shown.        *)
TypeOK == PostingsTypeOK /\ NotifyTypeOK /\ HistoryTypeOK

Sign(j, w) == <<IF Change(j, w) < 0 THEN "-" ELSE "+">>

(* Nobody is told what did not happen: whatever an email or Slack says is  *)
(* about a job that is committed, an email goes to a party and names the   *)
(* other one, the row of the wallet it is about, the right amount, no time *)
(* before the row's, and a balance that the wallet had after that job; the *)
(* amount of a transfer or a top-up has one sign, which says whether the   *)
(* wallet gained or lost (notification.listener.ts 40-67,                  *)
(* wallet.service.ts 162-171, 301-309, 348-355).  The amounts of payouts   *)
(* carry two minuses, those of refused payouts, that take nothing, too.    *)
MailsAreTrue ==
    /\ slack \subseteq Committed
    /\ \A m \in mails :
           LET j == m.id.job
           IN  /\ j \in Committed
               /\ Parties(j) = {m.to, m.other} \ {NoWallet}
               /\ m.amount.amount = Work[j].amount
               /\ Work[j].kind \in {"transfer", "topup"} => m.amount.signs = Sign(j, m.to)
               /\ m.balance.amount \in BalancesSince(j, m.to)
               /\ m.time <= formatDateTime(clock)
               /\ m.id.type # "REFERENCE" =>
                      /\ WalletOf(j, m.id.type) = m.to
                      /\ m.time >= formatDateTime(createdAt[j][m.id.type])

Quiet ==
    \A j \in Jobs : Begun(j) => j \in undone \/ (j \in Committed /\ at[j] = Len(Steps(j)))

(* Jobs that overlap read their balances one after another and their       *)
(* emails pass one another; still, once all have ended and no email was    *)
(* lost, everyone whose money moved has been told the balance that the     *)
(* wallet now has (notification.listener.ts 40-67, wallet.service.ts       *)
(* 162-171, 348-355).                                                      *)
LastIsTold ==
    Quiet /\ cut = {} /\ dropped = {} =>
        \A r \in Rows : \E m \in mails :
            m.to = r.wallet /\ m.balance.amount = Balance(r.wallet)

Told(j, w) == \E m \in mails : m.id.job = j /\ m.to = w

(* Both parties of a transfer, and the owner of a wallet that was topped   *)
(* up or paid out from, are told in the end, unless an error ended the     *)
(* notification or the mail service refused the email                      *)
(* (notification.listener.ts 17-73, wallet.service.ts 160-176, 348-355).   *)
EveryPartyIsTold ==
    \A j \in Jobs :
        j \in Committed ~>
            (j \in cut \/ \A w \in Parties(j) : Told(j, w) \/ [job |-> j, to |-> w] \in dropped)

Tied(q, r) == \E s \in Matching(q) \ {r} : s.createdAt = r.createdAt

(* Who reads a history to its end, page by page, misses no row that was    *)
(* there when the reading started, sees a row twice only because another   *)
(* came in before it meanwhile, and is shown the other party of each       *)
(* transfer; only rows of one createdAt have no such promise, for their    *)
(* order is not fixed (transaction.service.ts 91-96, 122-142,              *)
(* admin-user.service.ts 142-147).                                         *)
PagesAreHistory ==
    /\ \A s \in got : query.by = "user" =>
           {s.other} \ {NoWallet} = Parties(s.row.job) \ {s.row.wallet}
    /\ \A r \in repeated : Tied(query, r) \/
           \E s \in Matching(query) \ known : Precedes(query, s, r)
    /\ finished => \A r \in known : Tied(query, r) \/ \E s \in got : s.row = r
=============================================================================
