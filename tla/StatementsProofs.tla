-------------------------- MODULE StatementsProofs --------------------------
(***************************************************************************)
(* Proofs about Statements, for any postings, queries and number of        *)
(* faults.                                                                 *)
(***************************************************************************)
EXTENDS Statements, Sums, SequenceTheorems

-----------------------------------------------------------------------------
(* The inductive invariant.                                                *)

(* Who has inserted a row holds the balance of its wallet alone, which     *)
(* therefore still covers a debit when the transaction is committed.       *)
PostingsInv ==
    /\ PostingsTypeOK
    /\ createdAt = [j \in Jobs |-> createdAt[j]]
    /\ inserted \in [Jobs -> SUBSET {"DEBIT", "CREDIT"}]
    /\ \A j \in Committed : inserted[j] = Types(j)
    /\ \A i, k \in 1..Len(log) : log[i] = log[k] => i = k
    /\ \A w \in Wallets : Balance(w) \in Nat
    /\ \A j \in Jobs : ~Ended(j) =>
           /\ "DEBIT" \in inserted[j] => Balance(Work[j].from) >= Work[j].amount
           /\ \A q \in Jobs \ {j} : ~Ended(q) =>
                  \A t \in inserted[j], u \in inserted[q] : WalletOf(j, t) # WalletOf(q, u)

(* The wallet that the k-th step of a notification reads, or writes to.    *)
ReadsOf(j, k, w) ==
    \/ Steps(j)[k] = "readFrom" /\ w = Work[j].from
    \/ Steps(j)[k] = "readTo" /\ w = Work[j].to
MailsOf(j, k, w) ==
    \/ Steps(j)[k] = "mailFrom" /\ w = Work[j].from
    \/ Steps(j)[k] = "mailTo" /\ w = Work[j].to

(* What the k-th step of a notification has done.                          *)
Done(j, k) ==
    /\ j \in Committed
    /\ \A w \in Wallets :
           /\ ReadsOf(j, k, w) => read[j][w] \in BalancesSince(j, w)
           /\ MailsOf(j, k, w) =>
                  \/ [job |-> j, to |-> w] \in dropped
                  \/ \E m \in mails : m.to = w /\ m.balance.amount = read[j][w]

(* An email has the number of a row, if it has not a reference.            *)
NamesARow(m) == m.id.type = "REFERENCE" \/ m.id.type \in Types(m.id.job)

(* Who has read a balance has one that the wallet has had since the job,   *)
(* and who has mailed has told the balance that was read.                  *)
NoticesInv ==
    /\ at \in [Jobs -> Nat] /\ \A j \in Jobs : at[j] \in 0..Len(Steps(j))
    /\ read \in [Jobs -> [Wallets -> Nat \union {NoBalance}]]
    /\ slack \subseteq Committed /\ cut \subseteq Jobs
    /\ dropped \subseteq [job: Jobs, to: Wallets]
    /\ mails \subseteq Mails
    /\ \A m \in mails : NamesARow(m)
    /\ \A j \in Jobs : \A k \in 1..at[j] : Done(j, k)

Shows(r) == \E s \in got : s.row = r
Before(q, r) == {s \in Matching(q) : Precedes(q, s, r)}

(* A row of its own createdAt is behind the pages that were read exactly   *)
(* if enough rows precede it, as long as none has come in before it.       *)
ReadingInv ==
    /\ IsFiniteSet(Rows)
    /\ query \in mix.queries \union {NoQuery}
    /\ page \in Nat \ {0}
    /\ finished \in BOOLEAN
    /\ query = NoQuery => page = 1 /\ known = {} /\ got = {} /\ repeated = {} /\ ~finished
    /\ query # NoQuery => known \subseteq Matching(query)
    /\ repeated \subseteq {s.row : s \in got}
    /\ \A s \in got : s.row \in Rows /\ s.other \in Wallets \union {NoWallet}
    /\ query # NoQuery =>
           \A r \in Matching(query) : ~Tied(query, r) =>
               /\ r \in known /\ ~Shows(r) =>
                      ~finished /\ Cardinality(Before(query, r)) >= Offset(page)
               /\ Shows(r) => \/ Cardinality(Before(query, r)) < Offset(page)
                              \/ \E s \in Matching(query) \ known : Precedes(query, s, r)

(* What is committed is not rolled back.                                   *)
Apart == Committed \cap undone = {}

Inv == PostingsInv /\ Apart /\ NoticesInv /\ MailsAreTrue /\ ReadingInv /\ PagesAreHistory

-----------------------------------------------------------------------------
(* What the jobs are.                                                      *)

Pays(j) == Work[j].kind \in {"transfer", "cashout", "refused"}
Receives(j) == Work[j].kind \in {"transfer", "topup"}

(* Every job has the wallets that its kind needs.                          *)
LEMMA Kinds ==
    ASSUME NEW j \in Jobs
    PROVE  /\ Work[j].kind \in {"transfer", "topup", "cashout", "refused"}
           /\ Work[j].amount \in Nat \ {0}
           /\ Pays(j) => Work[j].from \in Wallets
           /\ Receives(j) => Work[j].to \in Wallets
           /\ Work[j].kind = "transfer" => Work[j].from # Work[j].to
<1>1. Work[j] \in Job
    BY WorkAssumption
<1>2. QED
    BY <1>1, TransferAssumption DEF Job, Pays, Receives

(* The rows a job inserts, and their wallets.                              *)
LEMMA TypesOf ==
    ASSUME NEW j \in Jobs
    PROVE  /\ Types(j) \subseteq {"DEBIT", "CREDIT"}
           /\ "DEBIT" \in Types(j) <=> Work[j].kind \in {"transfer", "cashout"}
           /\ "CREDIT" \in Types(j) <=> Receives(j)
           /\ Types(j) = {} <=> Work[j].kind = "refused"
           /\ \A t \in Types(j) : WalletOf(j, t) \in Wallets
BY Kinds DEF Types, WalletOf, Pays, Receives

(* How a job changes a wallet's balance.                                   *)
LEMMA ChangeIs ==
    ASSUME NEW j \in Jobs, NEW w
    PROVE  /\ Change(j, w) \in Int
           /\ "DEBIT" \in Types(j) /\ Work[j].from = w => Change(j, w) = -Work[j].amount
           /\ ~("DEBIT" \in Types(j) /\ Work[j].from = w) => Change(j, w) >= 0
           /\ (\A t \in Types(j) : WalletOf(j, t) # w) => Change(j, w) = 0
<1>1. /\ Work[j].amount \in Nat
      /\ "DEBIT" \in Types(j) /\ "CREDIT" \in Types(j) => Work[j].from # Work[j].to
    BY Kinds, TypesOf DEF Receives
<1> DEFINE plus == IF "CREDIT" \in Types(j) /\ WalletOf(j, "CREDIT") = w THEN Work[j].amount ELSE 0
           minus == IF "DEBIT" \in Types(j) /\ WalletOf(j, "DEBIT") = w THEN Work[j].amount ELSE 0
<1>2. Change(j, w) = plus - minus
    BY DEF Change
<1>3. plus \in Nat /\ minus \in Nat
    BY <1>1
<1>4. ASSUME "DEBIT" \in Types(j), Work[j].from = w
      PROVE  plus = 0 /\ minus = Work[j].amount
    BY <1>1, <1>4 DEF WalletOf
<1>5. ASSUME ~("DEBIT" \in Types(j) /\ Work[j].from = w)
      PROVE  minus = 0
    BY <1>5 DEF WalletOf
<1>6. ASSUME \A t \in Types(j) : WalletOf(j, t) # w
      PROVE  plus = 0 /\ minus = 0
    BY <1>6
<1> HIDE DEF plus, minus
<1>7. QED
    BY <1>1, <1>2, <1>3, <1>4, <1>5, <1>6

-----------------------------------------------------------------------------
(* Balances.                                                               *)

(* The balance of w after the first n jobs of l.                           *)
After(l, n, w) == Opening[w] + SumFunctionOnSet([i \in 1..n |-> Change(l[i], w)], 1..n)

(* Wallets open with no debt.                                              *)
LEMMA OpeningNat == \A w \in Wallets : Opening[w] \in Nat
BY OpeningAssumption

(* Balances are integers, and each job adds its change.                    *)
LEMMA AfterStep ==
    ASSUME NEW l \in Seq(Jobs), NEW n \in Nat, n <= Len(l), NEW w \in Wallets
    PROVE  /\ After(l, n, w) \in Int
           /\ n < Len(l) => After(l, n + 1, w) = After(l, n, w) + Change(l[n + 1], w)
<1> DEFINE c(k) == [i \in 1..k |-> Change(l[i], w)]
           total(k) == SumFunctionOnSet(c(k), 1..k)
<1>1. ASSUME NEW k \in Nat, k <= Len(l)
      PROVE  IsFiniteSet(1..k) /\ \A i \in 1..k : c(k)[i] = Change(l[i], w) /\ c(k)[i] \in Int
    <2>1. \A i \in 1..k : l[i] \in Jobs
        BY <1>1
    <2>2. \A i \in 1..k : Change(l[i], w) \in Int
        BY <2>1, ChangeIs
    <2>3. QED
        BY <1>1, <2>2, FS_Interval
<1>2. total(n) \in Int
    <2> HIDE DEF c
    <2>1. QED
        BY <1>1, SumInt
<1>3. ASSUME n < Len(l) PROVE total(n + 1) = total(n) + Change(l[n + 1], w)
    <2>1. /\ IsFiniteSet(1..n) /\ (n + 1) \notin 1..n
          /\ 1..(n + 1) = (1..n) \union {n + 1}
          /\ n + 1 \in 1..(n + 1)
        BY <1>1
    <2>2. /\ \A i \in 1..(n + 1) : c(n + 1)[i] = Change(l[i], w) /\ c(n + 1)[i] \in Int
          /\ \A i \in 1..n : c(n)[i] = Change(l[i], w)
        BY <1>1, <1>3
    <2> HIDE DEF c
    <2>3. SumFunctionOnSet(c(n + 1), (1..n) \union {n + 1})
              = SumFunctionOnSet(c(n + 1), 1..n) + c(n + 1)[n + 1]
        <3>1. PICK f, S, y : f = c(n + 1) /\ S = 1..n /\ y = n + 1
            OBVIOUS
        <3>2. IsFiniteSet(S) /\ y \notin S /\ \A x \in S \union {y} : f[x] \in Int
            BY <2>1, <2>2, <3>1
        <3>3. SumFunctionOnSet(f, S \union {y}) = SumFunctionOnSet(f, S) + f[y]
            BY <3>2, SumAdd
        <3>4. QED
            BY <3>1, <3>3
    <2>4. SumFunctionOnSet(c(n + 1), 1..n) = SumFunctionOnSet(c(n), 1..n)
        BY <2>1, <2>2, SumAgrees
    <2>5. QED
        BY <2>1, <2>2, <2>3, <2>4
<1>4. After(l, n, w) = Opening[w] + total(n) /\ After(l, n + 1, w) = Opening[w] + total(n + 1)
    BY DEF After
<1> HIDE DEF total
<1>5. ASSUME n < Len(l) PROVE Change(l[n + 1], w) \in Int
    BY <1>5, ChangeIs
<1>6. QED
    BY <1>2, <1>3, <1>4, <1>5, OpeningNat

(* Before the first job it is the opening balance.                         *)
LEMMA AfterNone ==
    ASSUME NEW l, NEW w \in Wallets
    PROVE  After(l, 0, w) = Opening[w]
<1> DEFINE c == [i \in 1..0 |-> Change(l[i], w)]
<1>1. 1..0 = {}
    OBVIOUS
<1>2. SumFunctionOnSet(c, 1..0) = 0
    <2> HIDE DEF c
    <2>1. QED
        BY <1>1, SumEmpty
<1>3. After(l, 0, w) = Opening[w] + SumFunctionOnSet(c, 1..0)
    BY DEF After
<1> HIDE DEF c
<1>4. QED
    BY <1>2, <1>3, OpeningNat

(* Only the first n jobs count.                                            *)
LEMMA AfterAgrees ==
    ASSUME NEW l, NEW m, NEW n \in Nat, \A i \in 1..n : l[i] = m[i], NEW w
    PROVE  After(l, n, w) = After(m, n, w)
<1>1. [i \in 1..n |-> Change(l[i], w)] = [i \in 1..n |-> Change(m[i], w)]
    OBVIOUS
<1>2. QED
    BY <1>1 DEF After

(* Jobs that do not touch a wallet leave its balance as it is.             *)
LEMMA AfterConstant ==
    ASSUME NEW l \in Seq(Jobs), NEW n \in Nat, NEW k \in Nat, n <= k, k <= Len(l),
           NEW w \in Wallets, \A i \in n + 1 .. k : Change(l[i], w) = 0
    PROVE  After(l, k, w) = After(l, n, w)
<1> DEFINE Moved == {m \in n..k : After(l, m, w) # After(l, n, w)}
<1> SUFFICES ASSUME Moved # {} PROVE FALSE
    BY DEF Moved
<1>1. Moved \in SUBSET Nat
    OBVIOUS
<1> HIDE DEF Moved
<1>2. PICK m \in Moved : \A p \in Moved : m <= p
    BY <1>1, Least
<1>3. m \in n..k /\ After(l, m, w) # After(l, n, w)
    BY DEF Moved
<1>4. m - 1 \in n..k
    BY <1>3
<1>5. After(l, m - 1, w) = After(l, n, w)
    BY <1>2, <1>4 DEF Moved
<1>6. m - 1 \in Nat /\ m - 1 < Len(l) /\ (m - 1) + 1 = m
    BY <1>3, <1>4
<1>7. After(l, m, w) = After(l, m - 1, w) + Change(l[m], w) /\ After(l, m - 1, w) \in Int
    BY <1>6, AfterStep
<1>8. Change(l[m], w) = 0
    BY <1>3, <1>4
<1>9. QED
    BY <1>3, <1>5, <1>7, <1>8

(* What one more job does to the log and to the balances.                  *)
OneMore(m, l, j) ==
    /\ m \in Seq(Jobs) /\ Len(m) = Len(l) + 1 /\ m[Len(m)] = j
    /\ \A i \in 1..Len(l) : m[i] = l[i]
    /\ ToSet(m) = ToSet(l) \union {j}
    /\ \A w \in Wallets :
           /\ After(m, Len(m), w) = After(l, Len(l), w) + Change(j, w)
           /\ \A n \in 0..Len(l) : After(m, n, w) = After(l, n, w)

LEMMA Appended ==
    ASSUME NEW l \in Seq(Jobs), NEW j \in Jobs
    PROVE  OneMore(Append(l, j), l, j)
<1> SUFFICES ASSUME NEW m, m = Append(l, j) PROVE OneMore(m, l, j)
    OBVIOUS
<1>1. m \in Seq(Jobs) /\ Len(m) = Len(l) + 1 /\ m[Len(m)] = j
    OBVIOUS
<1>2. \A i \in 1..Len(l) : m[i] = l[i]
    OBVIOUS
<1>3. ToSet(m) = ToSet(l) \union {j}
    <2>1. DOMAIN m = 1..(Len(l) + 1) /\ DOMAIN l = 1..Len(l) /\ Len(l) \in Nat
        BY <1>1
    <2>2. DOMAIN m = DOMAIN l \union {Len(m)}
        BY <1>1, <2>1
    <2>3. \A i \in DOMAIN l : m[i] = l[i]
        BY <1>2, <2>1
    <2>4. QED
        BY <1>1, <2>2, <2>3 DEF ToSet
<1>4. ASSUME NEW w \in Wallets, NEW n \in 0..Len(l) PROVE After(m, n, w) = After(l, n, w)
    <2>1. n \in Nat /\ \A i \in 1..n : m[i] = l[i]
        BY <1>2
    <2>2. QED
        BY <2>1, AfterAgrees
<1>5. ASSUME NEW w \in Wallets
      PROVE  After(m, Len(m), w) = After(l, Len(l), w) + Change(j, w)
    <2>1. Len(l) \in Nat /\ Len(l) < Len(m) /\ m[Len(l) + 1] = j /\ Len(l) \in 0..Len(l)
        BY <1>1
    <2>2. After(m, Len(l) + 1, w) = After(m, Len(l), w) + Change(j, w)
        <3>1. PICK n \in Nat : n = Len(l) /\ n <= Len(m) /\ n < Len(m) /\ m[n + 1] = j
            BY <2>1
        <3>2. After(m, n + 1, w) = After(m, n, w) + Change(m[n + 1], w)
            BY <1>1, <3>1, AfterStep, Zenon
        <3>3. QED
            BY <3>1, <3>2
    <2>3. QED
        BY <1>1, <1>4, <2>1, <2>2
<1>6. QED
    BY <1>1, <1>2, <1>3, <1>4, <1>5 DEF OneMore

-----------------------------------------------------------------------------
(* Postings.                                                               *)

(* The committed jobs, and the last balance.                               *)
LEMMA LogIs ==
    ASSUME log \in Seq(Jobs)
    PROVE  /\ Committed \subseteq Jobs /\ Len(log) \in Nat
           /\ \A j : j \in Committed <=> \E i \in 1..Len(log) : log[i] = j
           /\ \A w, n : BalanceAfter(n, w) = After(log, n, w)
           /\ \A w : Balance(w) = After(log, Len(log), w)
<1>1. DOMAIN log = 1..Len(log) /\ \A i \in 1..Len(log) : log[i] \in Jobs
    OBVIOUS
<1>2. QED
    BY <1>1 DEF Committed, ToSet, Balance, BalanceAfter, After

(* A job is committed, or reported, with all its rows.                     *)
Adds(j) ==
    /\ ~Ended(j) /\ inserted[j] = Types(j)
    /\ log' = Append(log, j)
    /\ UNCHANGED <<mix, clock, createdAt, inserted, undone>>

(* What happens to the postings in a step.                                 *)
LEMMA PostingSteps ==
    ASSUME PostingsInv, [Next]_vars
    PROVE  \/ Tick
           \/ \E j \in Jobs : CreateRow(j) \/ InsertRow(j) \/ RollBack(j) \/ Adds(j)
           \/ RollBackAll
           \/ UNCHANGED postings
<1>1. ASSUME NEW j \in Jobs, Commit(j) PROVE Adds(j)
    BY <1>1 DEF Commit, Adds
<1>2. ASSUME NEW j \in Jobs, Refuse(j) PROVE Adds(j)
    <2>1. inserted[j] = {} /\ Types(j) = {}
        BY <1>2 DEF Refuse, PostingsInv, PostingsTypeOK
    <2>2. QED
        BY <1>2, <2>1 DEF Refuse, Adds
<1>3. ASSUME NEW j \in Jobs, CommitHeard(j) \/ CommitLost(j) PROVE Adds(j)
    BY <1>1, <1>3 DEF CommitHeard, CommitLost
<1>4. QED
    BY <1>2, <1>3 DEF Next, vars, Crash

(* A step that leaves the log as it is.                                    *)
LEMMA SameLog ==
    ASSUME UNCHANGED log
    PROVE  /\ Committed' = Committed
           /\ \A w, n : BalanceAfter(n, w)' = BalanceAfter(n, w)
           /\ \A w : Balance(w)' = Balance(w)
           /\ \A j, w : BalancesSince(j, w)' = BalancesSince(j, w)
BY DEF Committed, Balance, BalanceAfter, BalancesSince

(* A job that is added to the log.                                         *)
LEMMA AddsIs ==
    ASSUME PostingsInv, NEW j \in Jobs, Adds(j)
    PROVE  /\ log \in Seq(Jobs) /\ log' \in Seq(Jobs)
           /\ Len(log) \in Nat /\ Len(log)' = Len(log) + 1 /\ log'[Len(log)'] = j
           /\ \A i \in 1..Len(log) : log'[i] = log[i]
           /\ Committed' = Committed \union {j}
           /\ \A w \in Wallets :
                  /\ Balance(w)' = Balance(w) + Change(j, w)
                  /\ \A n \in 0..Len(log) : BalanceAfter(n, w)' = BalanceAfter(n, w)
<1>1. log \in Seq(Jobs) /\ log' = Append(log, j)
    BY DEF PostingsInv, PostingsTypeOK, Adds
<1>2. PICK m : m = log'
    OBVIOUS
<1>3. /\ m \in Seq(Jobs) /\ Len(m) = Len(log) + 1 /\ m[Len(m)] = j
      /\ \A i \in 1..Len(log) : m[i] = log[i]
      /\ ToSet(m) = ToSet(log) \union {j}
      /\ \A w \in Wallets :
             /\ After(m, Len(m), w) = After(log, Len(log), w) + Change(j, w)
             /\ \A n \in 0..Len(log) : After(m, n, w) = After(log, n, w)
    <2>1. log \in Seq(Jobs) /\ m = Append(log, j)
        BY <1>1, <1>2
    <2>2. OneMore(m, log, j)
        BY <2>1, Appended
    <2>3. QED
        BY <2>2 DEF OneMore
<1>4. \A w : Balance(w) = After(log, Len(log), w) /\ Balance(w)' = After(m, Len(m), w)
    BY <1>2 DEF Balance, BalanceAfter, After
<1>5. \A w, n : BalanceAfter(n, w) = After(log, n, w) /\ BalanceAfter(n, w)' = After(m, n, w)
    BY <1>2 DEF BalanceAfter, After
<1>6. Committed = ToSet(log) /\ Committed' = ToSet(m)
    BY <1>2 DEF Committed
<1>7. Len(log) \in Nat
    BY <1>1
<1>8. QED
    BY <1>1, <1>2, <1>3, <1>4, <1>5, <1>6, <1>7

(* Postings begin with nothing.                                            *)
LEMMA PostingsInitInv == PostingsInit => PostingsInv
<1> SUFFICES ASSUME PostingsInit PROVE PostingsInv
    OBVIOUS
<1> USE DEF PostingsInit
<1>1. PostingsTypeOK
    BY MaxTimeAssumption DEF PostingsTypeOK
<1>2. createdAt = [j \in Jobs |-> createdAt[j]] /\ inserted \in [Jobs -> SUBSET {"DEBIT", "CREDIT"}]
    OBVIOUS
<1>3. Committed = {} /\ Len(log) = 0
    BY DEF Committed, ToSet
<1>4. \A w \in Wallets : Balance(w) \in Nat
    <2>1. log \in Seq(Jobs)
        OBVIOUS
    <2>2. ASSUME NEW w \in Wallets PROVE Balance(w) = Opening[w]
        BY <1>3, <2>1, LogIs, AfterNone
    <2>3. QED
        BY <2>2, OpeningNat
<1>5. \A j \in Jobs : inserted[j] = {}
    OBVIOUS
<1>6. QED
    BY <1>1, <1>2, <1>3, <1>4, <1>5 DEF PostingsInv

(* A step that leaves the log, the insertions and the end of every job as  *)
(* they are, or ends some of them, keeps the invariant if it keeps types.  *)
LEMMA FewerOpen ==
    ASSUME PostingsInv, PostingsTypeOK', UNCHANGED <<inserted, log>>,
           createdAt' = [j \in Jobs |-> createdAt'[j]], undone \subseteq undone'
    PROVE  PostingsInv'
<1>1. Committed' = Committed /\ \A w : Balance(w)' = Balance(w)
    BY SameLog
<1>2. \A j : ~Ended(j)' => ~Ended(j)
    BY <1>1 DEF Ended
<1>3. \A j, t : WalletOf(j, t)' = WalletOf(j, t)
    BY DEF WalletOf
<1>4. /\ inserted' \in [Jobs -> SUBSET {"DEBIT", "CREDIT"}]
      /\ \A j \in Committed' : inserted'[j] = Types(j)
      /\ \A i, k \in 1..Len(log') : log'[i] = log'[k] => i = k
    BY <1>1 DEF PostingsInv
<1>5. \A w \in Wallets : Balance(w)' \in Nat
    BY <1>1 DEF PostingsInv
<1>6. \A j \in Jobs : ~Ended(j)' =>
          /\ "DEBIT" \in inserted'[j] => Balance(Work[j].from)' >= Work[j].amount
          /\ \A q \in Jobs \ {j} : ~Ended(q)' =>
                 \A t \in inserted'[j], u \in inserted'[q] : WalletOf(j, t) # WalletOf(q, u)
    BY <1>1, <1>2 DEF PostingsInv
<1>7. QED
    BY <1>4, <1>5, <1>6 DEF PostingsInv

(* An insertion finds the balance free, and a debit covered.               *)
LEMMA InsertKeepsPostings ==
    ASSUME PostingsInv, NEW j \in Jobs, InsertRow(j)
    PROVE  PostingsInv'
<1>1. PICK t \in DOMAIN createdAt[j] \ inserted[j] :
          /\ ~Locked(WalletOf(j, t), j)
          /\ t = "DEBIT" => Balance(WalletOf(j, t)) >= Work[j].amount
          /\ inserted' = [inserted EXCEPT ![j] = @ \union {t}]
    BY DEF InsertRow
<1>2. UNCHANGED <<mix, clock, createdAt, log, undone>> /\ ~Ended(j)
    BY DEF InsertRow
<1>3. Committed' = Committed /\ \A w : Balance(w)' = Balance(w)
    BY <1>2, SameLog
<1>4. \A q : Ended(q)' = Ended(q)
    BY <1>2, <1>3 DEF Ended
<1>5. t \in Types(j) /\ t \in {"DEBIT", "CREDIT"}
    BY TypesOf DEF PostingsInv, PostingsTypeOK
<1>6. /\ inserted' \in [Jobs -> SUBSET {"DEBIT", "CREDIT"}]
      /\ inserted'[j] = inserted[j] \union {t}
      /\ \A q \in Jobs \ {j} : inserted'[q] = inserted[q]
    BY <1>1, <1>5 DEF PostingsInv
<1>7. PostingsTypeOK'
    BY <1>1, <1>2, <1>6 DEF PostingsInv, PostingsTypeOK
<1>8. j \notin Committed
    BY <1>2 DEF Ended
<1>9. \A q \in Committed' : inserted'[q] = Types(q)
    <2>1. Committed \subseteq Jobs
        BY LogIs DEF PostingsInv, PostingsTypeOK
    <2>2. QED
        BY <1>3, <1>6, <1>8, <2>1 DEF PostingsInv
<1>10. \A q \in Jobs \ {j} : ~Ended(q) => \A u \in inserted[q] : WalletOf(j, t) # WalletOf(q, u)
    BY <1>1 DEF Locked
<1>11. \A q \in Jobs : ~Ended(q) /\ "DEBIT" \in inserted'[q] => Balance(Work[q].from) >= Work[q].amount
    BY <1>1, <1>6 DEF PostingsInv, WalletOf
<1>12. \A p \in Jobs : \A q \in Jobs \ {p} : ~Ended(p) /\ ~Ended(q) =>
           \A x \in inserted'[p], u \in inserted'[q] : WalletOf(p, x) # WalletOf(q, u)
    <2> SUFFICES ASSUME NEW p \in Jobs, NEW q \in Jobs \ {p}, ~Ended(p), ~Ended(q),
                        NEW x \in inserted'[p], NEW u \in inserted'[q]
                 PROVE  WalletOf(p, x) # WalletOf(q, u)
        OBVIOUS
    <2>1. \A y \in inserted[p], z \in inserted[q] : WalletOf(p, y) # WalletOf(q, z)
        BY DEF PostingsInv
    <2>2. CASE p = j
        BY <1>6, <1>10, <2>1, <2>2
    <2>3. CASE q = j
        BY <1>6, <1>10, <2>1, <2>3
    <2>4. CASE p # j /\ q # j
        BY <1>6, <2>1, <2>4
    <2>5. QED
        BY <2>2, <2>3, <2>4
<1>13. QED
    BY <1>2, <1>3, <1>4, <1>6, <1>7, <1>9, <1>11, <1>12 DEF PostingsInv

(* A commit finds its debit covered still, and touches no balance that     *)
(* another transaction holds.                                              *)
LEMMA AddsKeepsPostings ==
    ASSUME PostingsInv, NEW j \in Jobs, Adds(j)
    PROVE  PostingsInv'
<1>1. UNCHANGED <<mix, clock, createdAt, inserted, undone>> /\ ~Ended(j) /\ inserted[j] = Types(j)
    BY DEF Adds
<1>2. /\ log \in Seq(Jobs) /\ log' \in Seq(Jobs)
      /\ Len(log) \in Nat /\ Len(log') = Len(log) + 1 /\ log'[Len(log')] = j
      /\ \A i \in 1..Len(log) : log'[i] = log[i]
      /\ Committed' = Committed \union {j}
      /\ \A w \in Wallets : Balance(w)' = Balance(w) + Change(j, w)
    BY AddsIs
<1>3. PostingsTypeOK'
    BY <1>1, <1>2 DEF PostingsInv, PostingsTypeOK
<1>4. \A q \in Committed' : inserted'[q] = Types(q)
    BY <1>1, <1>2 DEF PostingsInv
<1>5. \A i, k \in 1..Len(log') : log'[i] = log'[k] => i = k
    <2>1. \A i \in 1..Len(log) : log[i] # j
        BY <1>1, <1>2, LogIs DEF Ended
    <2>2. \A i, k \in 1..Len(log) : log[i] = log[k] => i = k
        BY DEF PostingsInv
    <2>3. \A i \in 1..Len(log') : i \in 1..Len(log) \/ i = Len(log')
        BY <1>2
    <2>4. QED
        BY <1>2, <2>1, <2>2, <2>3
<1>6. \A q \in Jobs : ~Ended(q)' => ~Ended(q) /\ q # j
    BY <1>1, <1>2 DEF Ended
<1>7. ASSUME NEW w \in Wallets PROVE Balance(w)' \in Nat
    <2>1. Balance(w) \in Nat /\ Balance(w)' = Balance(w) + Change(j, w) /\ Change(j, w) \in Int
        BY <1>2, ChangeIs DEF PostingsInv
    <2>2. CASE "DEBIT" \in Types(j) /\ Work[j].from = w
        <3>1. Balance(w) >= Work[j].amount /\ Change(j, w) = -Work[j].amount /\ Work[j].amount \in Nat
            BY <1>1, <2>2, ChangeIs, Kinds DEF PostingsInv
        <3>2. QED
            BY <2>1, <3>1
    <2>3. CASE ~("DEBIT" \in Types(j) /\ Work[j].from = w)
        <3>1. Change(j, w) >= 0
            BY <2>3, ChangeIs
        <3>2. QED
            BY <2>1, <3>1
    <2>4. QED
        BY <2>2, <2>3
<1>8. ASSUME NEW q \in Jobs, ~Ended(q)', "DEBIT" \in inserted'[q]
      PROVE  Balance(Work[q].from)' >= Work[q].amount
    <2>1. ~Ended(q) /\ q # j /\ "DEBIT" \in inserted[q]
        BY <1>1, <1>6, <1>8
    <2>2. "DEBIT" \in Types(q)
        BY <2>1 DEF PostingsInv, PostingsTypeOK
    <2>3. Work[q].from \in Wallets
        BY <2>2, Kinds, TypesOf DEF Pays
    <2>4. \A t \in Types(j) : WalletOf(j, t) # Work[q].from
        BY <1>1, <2>1 DEF PostingsInv, WalletOf
    <2>5. Change(j, Work[q].from) = 0
        BY <2>4, ChangeIs
    <2>6. Balance(Work[q].from) \in Nat /\ Balance(Work[q].from) >= Work[q].amount
        BY <2>1, <2>3 DEF PostingsInv
    <2>7. Balance(Work[q].from)' = Balance(Work[q].from) + Change(j, Work[q].from)
        BY <1>2, <2>3
    <2>8. QED
        BY <2>5, <2>6, <2>7
<1>9. \A p \in Jobs : ~Ended(p)' => \A q \in Jobs \ {p} : ~Ended(q)' =>
          \A t \in inserted'[p], u \in inserted'[q] : WalletOf(p, t) # WalletOf(q, u)
    BY <1>1, <1>6 DEF PostingsInv
<1>10. /\ createdAt' = [q \in Jobs |-> createdAt'[q]]
       /\ inserted' \in [Jobs -> SUBSET {"DEBIT", "CREDIT"}]
    BY <1>1 DEF PostingsInv
<1>11. QED
    BY <1>3, <1>4, <1>5, <1>7, <1>8, <1>9, <1>10 DEF PostingsInv

(* The row made is the only change, and has the time on the clock.         *)
LEMMA CreateIs ==
    ASSUME PostingsInv, NEW j \in Jobs, CreateRow(j)
    PROVE  /\ ~Ended(j) /\ UNCHANGED <<mix, clock, inserted, log, undone>>
           /\ createdAt' = [q \in Jobs |-> createdAt'[q]]
           /\ \A q \in Jobs \ {j} : createdAt'[q] = createdAt[q]
           /\ \E t \in Types(j) : /\ DOMAIN createdAt'[j] = DOMAIN createdAt[j] \union {t}
                                  /\ t \notin DOMAIN createdAt[j] /\ createdAt'[j][t] = clock
                                  /\ \A x \in DOMAIN createdAt[j] : createdAt'[j][x] = createdAt[j][x]
<1>1. PICK t \in Types(j) \ inserted[j] :
          /\ t \notin DOMAIN createdAt[j]
          /\ createdAt' = [createdAt EXCEPT ![j] =
                 [x \in DOMAIN @ \union {t} |-> IF x = t THEN clock ELSE @[x]]]
    BY DEF CreateRow
<1>2. createdAt = [q \in Jobs |-> createdAt[q]]
    BY DEF PostingsInv
<1> DEFINE f == [x \in DOMAIN createdAt[j] \union {t} |-> IF x = t THEN clock ELSE createdAt[j][x]]
<1>3. /\ DOMAIN f = DOMAIN createdAt[j] \union {t} /\ f[t] = clock
      /\ \A x \in DOMAIN createdAt[j] : f[x] = createdAt[j][x]
    BY <1>1
<1>4. createdAt' = [createdAt EXCEPT ![j] = f]
    BY <1>1
<1> HIDE DEF f
<1>5. /\ createdAt' = [q \in Jobs |-> createdAt'[q]] /\ createdAt'[j] = f
      /\ \A q \in Jobs \ {j} : createdAt'[q] = createdAt[q]
    BY <1>2, <1>4
<1>6. QED
    BY <1>1, <1>3, <1>5 DEF CreateRow

(* Every step keeps the invariant of the postings.                         *)
LEMMA PostingsPreserved == PostingsInv /\ [Next]_vars => PostingsInv'
<1> SUFFICES ASSUME PostingsInv, [Next]_vars PROVE PostingsInv'
    OBVIOUS
<1>1. PostingsTypeOK /\ createdAt = [j \in Jobs |-> createdAt[j]]
    BY DEF PostingsInv
<1>2. CASE Tick
    <2>1. PostingsTypeOK'
        BY <1>1, <1>2, MaxTimeAssumption DEF Tick, PostingsTypeOK
    <2>2. QED
        BY <1>1, <1>2, <2>1, FewerOpen DEF Tick
<1>3. ASSUME NEW j \in Jobs, CreateRow(j) PROVE PostingsInv'
    <2>1. PostingsTypeOK'
        <3>1. PICK t \in Types(j) :
                  /\ DOMAIN createdAt'[j] = DOMAIN createdAt[j] \union {t}
                  /\ t \notin DOMAIN createdAt[j] /\ createdAt'[j][t] = clock
                  /\ \A x \in DOMAIN createdAt[j] : createdAt'[j][x] = createdAt[j][x]
            BY <1>3, CreateIs
        <3>2. UNCHANGED <<mix, clock, inserted, log, undone>>
              /\ \A q \in Jobs \ {j} : createdAt'[q] = createdAt[q]
            BY <1>3, CreateIs
        <3>3. clock \in 0..clock
            BY <1>1 DEF PostingsTypeOK
        <3>4. QED
            BY <1>1, <3>1, <3>2, <3>3 DEF PostingsTypeOK
    <2>2. QED
        BY <1>3, <2>1, CreateIs, FewerOpen
<1>4. ASSUME NEW j \in Jobs, RollBack(j) PROVE PostingsInv'
    <2>1. PostingsTypeOK'
        BY <1>1, <1>4 DEF RollBack, PostingsTypeOK
    <2>2. QED
        BY <1>1, <1>4, <2>1, FewerOpen DEF RollBack
<1>5. CASE RollBackAll
    <2>1. PostingsTypeOK'
        BY <1>1, <1>5 DEF RollBackAll, PostingsTypeOK
    <2>2. QED
        BY <1>1, <1>5, <2>1, FewerOpen DEF RollBackAll
<1>6. CASE UNCHANGED postings
    <2>1. PostingsTypeOK'
        BY <1>1, <1>6 DEF postings, PostingsTypeOK
    <2>2. QED
        BY <1>1, <1>6, <2>1, FewerOpen DEF postings
<1>7. QED
    BY <1>2, <1>3, <1>4, <1>5, <1>6, PostingSteps, InsertKeepsPostings, AddsKeepsPostings

-----------------------------------------------------------------------------
(* What is committed stays as it is.                                       *)

(* Time goes on, createdAt stays, and balances that a wallet had remain    *)
(* balances that it had.                                                   *)
LEMMA Growth ==
    ASSUME PostingsInv, [Next]_vars
    PROVE  /\ mix' = mix /\ clock \in Nat /\ clock' \in Nat /\ clock <= clock'
           /\ Committed \subseteq Committed'
           /\ \A j \in Jobs : \A t \in DOMAIN createdAt[j] :
                  t \in DOMAIN createdAt'[j] /\ createdAt'[j][t] = createdAt[j][t]
           /\ \A j \in Jobs, w \in Wallets : BalancesSince(j, w) \subseteq BalancesSince(j, w)'
<1>1. clock \in Nat
    BY MaxTimeAssumption DEF PostingsInv, PostingsTypeOK
<1>2. CASE \E j \in Jobs : Adds(j)
    <2>1. PICK j \in Jobs : Adds(j)
        BY <1>2
    <2>2. /\ Len(log) \in Nat /\ Len(log') = Len(log) + 1
          /\ \A i \in 1..Len(log) : log'[i] = log[i]
          /\ Committed' = Committed \union {j}
          /\ \A w \in Wallets : \A n \in 0..Len(log) : BalanceAfter(n, w)' = BalanceAfter(n, w)
        BY <2>1, AddsIs
    <2>3. ASSUME NEW q \in Jobs, NEW w \in Wallets, NEW b \in BalancesSince(q, w)
          PROVE  b \in BalancesSince(q, w)'
        <3>1. PICK n \in 1..Len(log) : b = BalanceAfter(n, w) /\ \E i \in 1..n : log[i] = q
            BY DEF BalancesSince
        <3>2. n \in 1..Len(log') /\ b = BalanceAfter(n, w)' /\ \E i \in 1..n : log'[i] = q
            BY <2>2, <3>1
        <3>3. QED
            BY <3>2 DEF BalancesSince
    <2>4. QED
        BY <1>1, <2>1, <2>2, <2>3 DEF Adds
<1>3. CASE ~\E j \in Jobs : Adds(j)
    <2>1. UNCHANGED log
        BY <1>3, PostingSteps
        DEF Tick, CreateRow, InsertRow, RollBack, RollBackAll, postings
    <2>2. Committed' = Committed /\ \A j, w : BalancesSince(j, w)' = BalancesSince(j, w)
        BY <2>1, SameLog
    <2>3. CASE \E j \in Jobs : CreateRow(j)
        BY <1>1, <2>2, <2>3, CreateIs
    <2>4. CASE ~\E j \in Jobs : CreateRow(j)
        BY <1>1, <1>3, <2>2, <2>4, PostingSteps
        DEF Tick, InsertRow, RollBack, RollBackAll, postings
    <2>5. QED
        BY <2>3, <2>4
<1>4. QED
    BY <1>2, <1>3

(* The rows of a committed job have a createdAt, not after the clock.      *)
LEMMA CommittedRows ==
    ASSUME PostingsInv, NEW j \in Committed, NEW t \in Types(j)
    PROVE  /\ j \in Jobs /\ t \in DOMAIN createdAt[j]
           /\ createdAt[j][t] \in Nat /\ createdAt[j][t] <= clock
<1>1. j \in Jobs /\ inserted[j] = Types(j)
    BY LogIs DEF PostingsInv, PostingsTypeOK
<1>2. t \in DOMAIN createdAt[j]
    BY <1>1 DEF PostingsInv, PostingsTypeOK
<1>3. createdAt[j][t] \in 0..clock /\ clock \in Nat
    BY <1>1, <1>2, MaxTimeAssumption DEF PostingsInv, PostingsTypeOK
<1>4. QED
    BY <1>1, <1>2, <1>3

(* Rows are of committed jobs.                                             *)
LEMMA RowsAre ==
    ASSUME PostingsInv, NEW r \in Rows
    PROVE  \E j \in Committed : \E t \in Types(j) :
               /\ r = Row(j, t) /\ r.job = j /\ r.type = t
               /\ r.wallet = WalletOf(j, t) /\ r.wallet \in Wallets
               /\ r.createdAt = createdAt[j][t] /\ r.createdAt \in Nat
<1>1. PICK j, t : j \in Committed /\ t \in Types(j) /\ r = Row(j, t)
    BY DEF Rows
<1>2. j \in Jobs /\ createdAt[j][t] \in Nat
    BY <1>1, CommittedRows
<1>3. WalletOf(j, t) \in Wallets
    BY <1>1, <1>2, TypesOf
<1>4. QED
    BY <1>1, <1>2, <1>3 DEF Row

(* Rows stay, and finitely many are added.                                 *)
LEMMA RowsGrow ==
    ASSUME PostingsInv, [Next]_vars, IsFiniteSet(Rows)
    PROVE  Rows \subseteq Rows' /\ IsFiniteSet(Rows')
<1>1. ASSUME NEW j \in Committed, NEW t \in Types(j) PROVE Row(j, t)' = Row(j, t)
    BY <1>1, CommittedRows, Growth DEF Row, WalletOf
<1>2. Rows \subseteq Rows'
    <2> SUFFICES ASSUME NEW r \in Rows PROVE r \in Rows'
        OBVIOUS
    <2>1. PICK j, t : j \in Committed /\ t \in Types(j) /\ r = Row(j, t)
        BY DEF Rows
    <2>2. j \in Committed' /\ r = Row(j, t)' /\ t \in Types(j)'
        BY <1>1, <2>1, Growth DEF Types
    <2>3. QED
        BY <2>2 DEF Rows
<1>3. CASE \E j \in Jobs : Adds(j)
    <2>1. PICK j \in Jobs : Adds(j)
        BY <1>3
    <2> DEFINE more == (Rows \union {Row(j, "DEBIT")'}) \union {Row(j, "CREDIT")'}
    <2>2. Rows' \subseteq more
        <3> SUFFICES ASSUME NEW r \in Rows' PROVE r \in more
            OBVIOUS
        <3>1. PICK q, t : q \in Committed' /\ t \in Types(q) /\ r = Row(q, t)'
            BY DEF Rows, Types
        <3>2. CASE q = j
            BY <2>1, <3>1, <3>2, TypesOf
        <3>3. CASE q # j
            <4>1. q \in Committed
                BY <2>1, <3>1, <3>3, AddsIs
            <4>2. r = Row(q, t)
                BY <1>1, <3>1, <4>1
            <4>3. r \in Rows
                BY <3>1, <4>1, <4>2 DEF Rows
            <4>4. QED
                BY <4>3
        <3>4. QED
            BY <3>2, <3>3
    <2>3. IsFiniteSet(more)
        BY FS_AddElement
    <2>4. QED
        BY <1>2, <2>2, <2>3, FS_Subset
<1>4. CASE ~\E j \in Jobs : Adds(j)
    <2>1. UNCHANGED log
        BY <1>4, PostingSteps
        DEF Tick, CreateRow, InsertRow, RollBack, RollBackAll, postings
    <2>2. Committed' = Committed
        BY <2>1, SameLog
    <2>3. Rows' \subseteq Rows
        <3> SUFFICES ASSUME NEW r \in Rows' PROVE r \in Rows
            OBVIOUS
        <3>1. PICK q, t : q \in Committed' /\ t \in Types(q) /\ r = Row(q, t)'
            BY DEF Rows, Types
        <3>2. r = Row(q, t)
            BY <1>1, <2>2, <3>1
        <3>3. QED
            BY <2>2, <3>1, <3>2 DEF Rows
    <2>4. QED
        BY <1>2, <2>3
<1>5. QED
    BY <1>3, <1>4

-----------------------------------------------------------------------------
(* Emails.                                                                 *)

(* Minutes do not go back.                                                 *)
LEMMA MinutesGrow ==
    ASSUME NEW s \in Nat, NEW t \in Nat, s <= t
    PROVE  /\ formatDateTime(s) \in Nat /\ formatDateTime(t) \in Nat
           /\ formatDateTime(s) <= formatDateTime(t)
<1>1. PICK m \in Nat \ {0} : m = Minute
    BY MinuteAssumption
<1>2. s \div m \in Nat /\ t \div m \in Nat /\ s \div m <= t \div m
    OBVIOUS
<1>3. QED
    BY <1>1, <1>2 DEF formatDateTime

(* Amounts as text: a sign, or two of them, and the amount.                *)
LEMMA Texts ==
    ASSUME NEW a \in Int
    PROVE  /\ formatCurrency(a) \in Text /\ formatCurrency(a).amount = a
           /\ formatSignedAmount(a, FALSE) = [signs |-> <<"-">>, amount |-> a]
           /\ formatSignedAmount(a, TRUE) = [signs |-> <<"+">>, amount |-> a]
           /\ Minus(formatSignedAmount(a, FALSE)) = [signs |-> <<"-">> \o <<"-">>, amount |-> a]
<1>1. formatCurrency(a) \in Text /\ formatCurrency(a).amount = a
    BY DEF formatCurrency, Text
<1>2. /\ formatSignedAmount(a, FALSE) = [signs |-> <<"-">>, amount |-> a]
      /\ formatSignedAmount(a, TRUE) = [signs |-> <<"+">>, amount |-> a]
    BY DEF formatSignedAmount, formatCurrency
<1>3. Minus(formatSignedAmount(a, FALSE)) = [signs |-> <<"-">> \o <<"-">>, amount |-> a]
    <2>1. PICK x : x = formatSignedAmount(a, FALSE)
        OBVIOUS
    <2>2. Minus(x) = [x EXCEPT !.signs = <<"-">> \o x.signs]
        BY DEF Minus
    <2>3. PICK two : two = <<"-">> \o <<"-">>
        OBVIOUS
    <2>4. x = [signs |-> <<"-">>, amount |-> a] /\ x.signs = <<"-">>
        <3>1. x = [signs |-> <<"-">>, amount |-> a]
            BY <1>2, <2>1, Zenon
        <3>2. QED
            BY <3>1
    <2>5. Minus(x) = [x EXCEPT !.signs = two]
        BY <2>2, <2>3, <2>4
    <2>6. [x EXCEPT !.signs = two] = [signs |-> two, amount |-> a]
        BY <2>4
    <2>7. QED
        BY <2>1, <2>3, <2>5, <2>6
<1>4. QED
    BY <1>1, <1>2, <1>3

(* Signs are sequences of signs.                                           *)
LEMMA Signs ==
    /\ <<"-">> \in Seq({"+", "-"}) /\ <<"+">> \in Seq({"+", "-"})
    /\ <<"-">> \o <<"-">> \in Seq({"+", "-"})
<1>1. <<"-">> \in Seq({"+", "-"}) /\ <<"+">> \in Seq({"+", "-"})
    OBVIOUS
<1>2. PICK s : s = <<"-">> \o <<"-">>
    OBVIOUS
<1>3. s \in Seq({"+", "-"})
    BY <1>1, <1>2, ConcatProperties
<1>4. QED
    BY <1>1, <1>2, <1>3

(* The amounts of transfers and top-ups have the sign of the change.       *)
Signed(j, w, signs) == Work[j].kind \in {"transfer", "topup"} => signs = Sign(j, w)

(* What is true of an email, of those in MailsAreTrue.                     *)
MailIsTrue(m) ==
    LET j == m.id.job
    IN  /\ j \in Committed
        /\ Parties(j) = {m.to, m.other} \ {NoWallet}
        /\ m.amount.amount = Work[j].amount
        /\ Signed(j, m.to, m.amount.signs)
        /\ m.balance.amount \in BalancesSince(j, m.to)
        /\ m.time <= formatDateTime(clock)
        /\ m.id.type # "REFERENCE" =>
               /\ WalletOf(j, m.id.type) = m.to
               /\ m.time >= formatDateTime(createdAt[j][m.id.type])

(* What an email must name to be true, of a job's wallet and balance.      *)
Names(j, w, other, signs, t, time) ==
    /\ other \in Wallets \union {NoWallet}
    /\ Parties(j) = {w, other} \ {NoWallet}
    /\ signs \in Seq({"+", "-"}) /\ Signed(j, w, signs)
    /\ time \in Nat /\ time <= formatDateTime(clock)
    /\ \/ t = "REFERENCE"
       \/ /\ t \in Types(j) /\ WalletOf(j, t) = w
          /\ time >= formatDateTime(createdAt[j][t])

(* The email is true, and tells w the balance b.                           *)
Tells(m, w, b) ==
    MailIsTrue(m) /\ NamesARow(m) /\ m \in Mails /\ m.to = w /\ m.balance.amount = b

Subjects == {"Wallet Debited", "Wallet Credited", "Wallet Top-Up",
             "Cashout Processed", "Cashout Failed"}

(* A balance that a wallet had is an integer.                              *)
LEMMA SinceInt ==
    ASSUME PostingsInv, NEW j, NEW w \in Wallets, NEW b \in BalancesSince(j, w)
    PROVE  b \in Int
<1>1. log \in Seq(Jobs) /\ Len(log) \in Nat
    BY LogIs DEF PostingsInv, PostingsTypeOK
<1>2. PICK n \in 1..Len(log) : b = BalanceAfter(n, w)
    BY DEF BalancesSince
<1>3. n \in Nat /\ n <= Len(log)
    BY <1>1
<1>4. After(log, n, w) \in Int
    BY <1>1, <1>3, AfterStep
<1>5. QED
    BY <1>1, <1>2, <1>4, LogIs

(* Such an email is true, and has its type.                                *)
LEMMA Contents ==
    ASSUME PostingsInv, NEW j \in Committed, NEW w \in Wallets, NEW b \in BalancesSince(j, w),
           NEW subject \in Subjects, NEW other, NEW signs, NEW t, NEW time,
           Names(j, w, other, signs, t, time)
    PROVE  Tells(Mail(subject, w, other, [signs |-> signs, amount |-> Work[j].amount],
                      formatCurrency(b), Id(j, t), time), w, b)
<1> SUFFICES ASSUME NEW m, m = Mail(subject, w, other, [signs |-> signs, amount |-> Work[j].amount],
                                    formatCurrency(b), Id(j, t), time)
             PROVE  Tells(m, w, b)
    OBVIOUS
<1>1. b \in Int
    BY SinceInt
<1>2. j \in Jobs /\ t \in {"CREDIT", "DEBIT", "REFERENCE"} /\ Work[j].amount \in Int
    <2>1. j \in Jobs
        BY LogIs DEF PostingsInv, PostingsTypeOK
    <2>2. QED
        BY <2>1, TypesOf, Kinds DEF Names
<1>3. PICK text, bal, id : /\ text = [signs |-> signs, amount |-> Work[j].amount]
                           /\ bal = formatCurrency(b) /\ id = Id(j, t)
    OBVIOUS
<1>4. m = [subject |-> subject, to |-> w, other |-> other, amount |-> text,
           balance |-> bal, id |-> id, time |-> time]
    BY <1>3 DEF Mail
<1>5. /\ m.to = w /\ m.other = other /\ m.amount = text /\ m.id = id /\ m.time = time
      /\ m.balance = bal
    BY <1>4
<1>6. /\ id.job = j /\ id.type = t /\ id \in [job: Jobs, type: {"CREDIT", "DEBIT", "REFERENCE"}]
      /\ text.signs = signs /\ text.amount = Work[j].amount
    BY <1>2, <1>3 DEF Id
<1>7. bal \in Text /\ bal.amount = b
    BY <1>1, <1>3, Texts
<1>8. text \in Text
    BY <1>2, <1>3 DEF Text, Names
<1>9. MailIsTrue(m)
    BY <1>5, <1>6, <1>7 DEF MailIsTrue, Names
<1>10. m \in Mails
    <2>1. other \in Wallets \union {NoWallet} /\ time \in Nat /\ subject \in Subjects
        BY DEF Names
    <2>2. PICK ids : ids = [job: Jobs, type: {"CREDIT", "DEBIT", "REFERENCE"}] /\ id \in ids
        BY <1>6
    <2>3. PICK texts : texts = Text /\ text \in texts /\ bal \in texts
        BY <1>7, <1>8
    <2>4. m \in [subject: Subjects, to: Wallets, other: Wallets \union {NoWallet},
                 amount: texts, balance: texts, id: ids, time: Nat]
        BY <1>4, <2>1, <2>2, <2>3
    <2>5. QED
        BY <2>2, <2>3, <2>4 DEF Mails, Subjects
<1>11. NamesARow(m)
    BY <1>5, <1>6 DEF NamesARow, Names
<1>12. QED
    BY <1>5, <1>7, <1>9, <1>10, <1>11 DEF Tells

-----------------------------------------------------------------------------
(* Notifications.                                                          *)

(* The steps that follow a job's commit, by its kind.                      *)
LEMMA StepsAre ==
    ASSUME NEW j \in Jobs
    PROVE  \/ /\ Work[j].kind = "transfer" /\ Len(Steps(j)) = 5
              /\ Steps(j)[1] = "slack" /\ Steps(j)[2] = "readFrom" /\ Steps(j)[3] = "readTo"
              /\ Steps(j)[4] = "mailFrom" /\ Steps(j)[5] = "mailTo"
           \/ /\ Work[j].kind = "topup" /\ Len(Steps(j)) = 3
              /\ Steps(j)[1] = "findUser" /\ Steps(j)[2] = "readTo" /\ Steps(j)[3] = "mailTo"
           \/ /\ Work[j].kind \in {"cashout", "refused"} /\ Len(Steps(j)) = 2
              /\ Steps(j)[1] = "readFrom" /\ Steps(j)[2] = "mailFrom"
<1>1. CASE Work[j].kind = "transfer"
    <2>1. Steps(j) = <<"slack", "readFrom", "readTo", "mailFrom", "mailTo">>
        BY <1>1 DEF Steps
    <2>2. PICK s : s = Steps(j) /\ s = <<"slack", "readFrom", "readTo", "mailFrom", "mailTo">>
        BY <2>1
    <2>3. QED
        BY <1>1, <2>2
<1>2. CASE Work[j].kind = "topup"
    <2>1. Steps(j) = <<"findUser", "readTo", "mailTo">>
        BY <1>2 DEF Steps
    <2>2. PICK s : s = Steps(j) /\ s = <<"findUser", "readTo", "mailTo">>
        BY <2>1
    <2>3. QED
        BY <1>2, <2>2
<1>3. CASE Work[j].kind \in {"cashout", "refused"}
    <2>1. Steps(j) = <<"readFrom", "mailFrom">>
        BY <1>3 DEF Steps
    <2>2. PICK s : s = Steps(j) /\ s = <<"readFrom", "mailFrom">>
        BY <2>1
    <2>3. QED
        BY <1>3, <2>2
<1>4. QED
    BY <1>1, <1>2, <1>3, Kinds

(* Balances are read of those who pay or receive, before any email, and    *)
(* everyone who pays or receives is written to.                            *)
StepsFollow(j) ==
    LET All == 1..Len(Steps(j))
    IN  /\ Len(Steps(j)) \in Nat
        /\ \A k \in All :
               /\ Steps(j)[k] = "readFrom" => Pays(j)
               /\ Steps(j)[k] = "readTo" => Receives(j)
               /\ Steps(j)[k] = "mailFrom" =>
                      Pays(j) /\ \E i \in All : i < k /\ Steps(j)[i] = "readFrom"
               /\ Steps(j)[k] = "mailTo" =>
                      Receives(j) /\ \E i \in All : i < k /\ Steps(j)[i] = "readTo"
               /\ Steps(j)[k] \in {"mailFrom", "mailTo"} =>
                      \A i \in All : Steps(j)[i] \in {"readFrom", "readTo"} => i < k
        /\ Pays(j) => \E k \in All : Steps(j)[k] = "mailFrom"
        /\ Receives(j) => \E k \in All : Steps(j)[k] = "mailTo"

LEMMA StepsInOrder ==
    ASSUME NEW j \in Jobs
    PROVE  StepsFollow(j)
<1>1. CASE Work[j].kind = "transfer"
    <2>1. /\ Len(Steps(j)) = 5 /\ Pays(j) /\ Receives(j)
          /\ Steps(j)[1] = "slack" /\ Steps(j)[2] = "readFrom" /\ Steps(j)[3] = "readTo"
          /\ Steps(j)[4] = "mailFrom" /\ Steps(j)[5] = "mailTo"
        BY <1>1, StepsAre DEF Pays, Receives
    <2>2. \A k \in 1..5 : k = 1 \/ k = 2 \/ k = 3 \/ k = 4 \/ k = 5
        OBVIOUS
    <2>3. QED
        BY <2>1, <2>2 DEF StepsFollow
<1>2. CASE Work[j].kind = "topup"
    <2>1. /\ Len(Steps(j)) = 3 /\ ~Pays(j) /\ Receives(j)
          /\ Steps(j)[1] = "findUser" /\ Steps(j)[2] = "readTo" /\ Steps(j)[3] = "mailTo"
        BY <1>2, StepsAre DEF Pays, Receives
    <2>2. \A k \in 1..3 : k = 1 \/ k = 2 \/ k = 3
        OBVIOUS
    <2>3. QED
        BY <2>1, <2>2 DEF StepsFollow
<1>3. CASE Work[j].kind \in {"cashout", "refused"}
    <2>1. /\ Len(Steps(j)) = 2 /\ Pays(j) /\ ~Receives(j)
          /\ Steps(j)[1] = "readFrom" /\ Steps(j)[2] = "mailFrom"
        BY <1>3, StepsAre DEF Pays, Receives
    <2>2. \A k \in 1..2 : k = 1 \/ k = 2
        OBVIOUS
    <2>3. QED
        BY <2>1, <2>2 DEF StepsFollow
<1>4. QED
    BY <1>1, <1>2, <1>3, Kinds

(* The other party of a job, if there is one, the sign of its amount for   *)
(* its payer and for its recipient, and the row each of them has.          *)
LEMMA SidesOf ==
    ASSUME NEW j \in Jobs
    PROVE  /\ Pays(j) => Signed(j, Work[j].from, <<"-">>)
           /\ Receives(j) => Signed(j, Work[j].to, <<"+">>)
           /\ Work[j].kind = "transfer" =>
                  /\ Parties(j) = {Work[j].from, Work[j].to} \ {NoWallet}
                  /\ Parties(j) = {Work[j].to, Work[j].from} \ {NoWallet}
           /\ Work[j].kind \in {"cashout", "refused"} =>
                  Parties(j) = {Work[j].from, NoWallet} \ {NoWallet}
           /\ Work[j].kind = "topup" => Parties(j) = {Work[j].to, NoWallet} \ {NoWallet}
           /\ WalletOf(j, "DEBIT") = Work[j].from /\ WalletOf(j, "CREDIT") = Work[j].to
<1>1. Pays(j) => Signed(j, Work[j].from, <<"-">>)
    <2> SUFFICES ASSUME Pays(j), Work[j].kind \in {"transfer", "topup"}
                 PROVE  Sign(j, Work[j].from) = <<"-">>
        BY DEF Signed
    <2>1. Work[j].kind = "transfer" /\ Work[j].amount \in Nat \ {0}
        BY Kinds DEF Pays
    <2>2. Change(j, Work[j].from) = -Work[j].amount
        BY <2>1, TypesOf, ChangeIs
    <2>3. Change(j, Work[j].from) < 0
        BY <2>1, <2>2
    <2>4. QED
        BY <2>3 DEF Sign
<1>2. Receives(j) => Signed(j, Work[j].to, <<"+">>)
    <2> SUFFICES ASSUME Receives(j) PROVE Sign(j, Work[j].to) = <<"+">>
        BY DEF Signed
    <2>1. ~("DEBIT" \in Types(j) /\ Work[j].from = Work[j].to)
        BY Kinds, TypesOf DEF Receives
    <2>2. Change(j, Work[j].to) >= 0 /\ Change(j, Work[j].to) \in Int
        BY <2>1, ChangeIs
    <2>3. ~(Change(j, Work[j].to) < 0)
        BY <2>2
    <2>4. QED
        BY <2>3 DEF Sign
<1>3. WalletOf(j, "DEBIT") = Work[j].from /\ WalletOf(j, "CREDIT") = Work[j].to
    BY DEF WalletOf
<1>4. NoWallet \notin Wallets
    BY NoWalletAssumption
<1>5. ASSUME Work[j].kind = "transfer"
      PROVE  Parties(j) = {Work[j].from, Work[j].to} \ {NoWallet}
    <2>1. Types(j) = {"DEBIT", "CREDIT"} /\ Work[j].from \in Wallets /\ Work[j].to \in Wallets
        BY <1>5, Kinds DEF Types, Pays, Receives
    <2>2. Parties(j) = {WalletOf(j, t) : t \in Types(j)}
        BY <1>5 DEF Parties
    <2>3. QED
        BY <1>3, <1>4, <2>1, <2>2
<1>6. ASSUME Work[j].kind \in {"cashout", "refused"}
      PROVE  Parties(j) = {Work[j].from, NoWallet} \ {NoWallet}
    <2>1. Work[j].kind = "cashout" => Types(j) = {"DEBIT"}
        BY DEF Types
    <2>2. Work[j].from \in Wallets
        BY <1>6, Kinds DEF Pays
    <2>3. Parties(j) = {Work[j].from}
        BY <1>3, <1>6, <2>1 DEF Parties
    <2>4. QED
        BY <1>4, <2>2, <2>3
<1>7. ASSUME Work[j].kind = "topup"
      PROVE  Parties(j) = {Work[j].to, NoWallet} \ {NoWallet}
    <2>1. Types(j) = {"CREDIT"} /\ Work[j].to \in Wallets
        BY <1>7, Kinds DEF Types, Receives
    <2>2. Parties(j) = {Work[j].to}
        BY <1>3, <1>7, <2>1 DEF Parties
    <2>3. QED
        BY <1>4, <2>1, <2>2
<1>8. QED
    BY <1>1, <1>2, <1>3, <1>5, <1>6, <1>7

(* A row that is named was made before now.                                *)
LEMMA RowTimes ==
    ASSUME PostingsInv, NEW j \in Committed
    PROVE  /\ formatDateTime(clock) \in Nat
           /\ \A t \in Types(j) : /\ formatDateTime(createdAt[j][t]) \in Nat
                                  /\ formatDateTime(createdAt[j][t]) <= formatDateTime(clock)
<1>1. clock \in Nat
    BY MaxTimeAssumption DEF PostingsInv, PostingsTypeOK
<1>2. QED
    BY <1>1, CommittedRows, MinutesGrow

(* What the payer is told is true.                                         *)
LEMMA PayerIsTold ==
    ASSUME PostingsInv, NEW j \in Committed, Pays(j),
           read[j][Work[j].from] \in BalancesSince(j, Work[j].from)
    PROVE  Tells(MailFrom(j), Work[j].from, read[j][Work[j].from])
<1>1. j \in Jobs
    BY LogIs DEF PostingsInv, PostingsTypeOK
<1>2. PICK w, a, b : w = Work[j].from /\ a = Work[j].amount /\ b = read[j][w]
    OBVIOUS
<1>3. w \in Wallets /\ a \in Int /\ Signed(j, w, <<"-">>) /\ NoWallet \in Wallets \union {NoWallet}
    BY <1>1, <1>2, Kinds, SidesOf
<1>4. b \in BalancesSince(j, w)
    BY <1>2
<1>5. CASE Work[j].kind = "transfer"
    <2>1. "DEBIT" \in Types(j) /\ WalletOf(j, "DEBIT") = w
        BY <1>1, <1>2, <1>5, TypesOf, SidesOf
    <2>2. Names(j, w, Work[j].to, <<"-">>, "DEBIT", formatDateTime(createdAt[j]["DEBIT"]))
        <3>1. Work[j].to \in Wallets \union {NoWallet} /\ Parties(j) = {w, Work[j].to} \ {NoWallet}
            BY <1>1, <1>2, <1>5, Kinds, SidesOf DEF Receives
        <3>2. /\ formatDateTime(createdAt[j]["DEBIT"]) \in Nat
              /\ formatDateTime(createdAt[j]["DEBIT"]) <= formatDateTime(clock)
              /\ formatDateTime(createdAt[j]["DEBIT"]) >= formatDateTime(createdAt[j]["DEBIT"])
            BY <2>1, RowTimes
        <3>3. QED
            BY <1>3, Signs, <2>1, <3>1, <3>2 DEF Names
    <2>3. MailFrom(j) = Mail("Wallet Debited", w, Work[j].to, [signs |-> <<"-">>, amount |-> a],
                             formatCurrency(b), Id(j, "DEBIT"),
                             formatDateTime(createdAt[j]["DEBIT"]))
        BY <1>2, <1>3, <1>5, Texts
        DEF MailFrom, sendWalletDebitNotificationEmail, WalletDebitedTemplate
    <2>4. "Wallet Debited" \in Subjects
        BY DEF Subjects
    <2>5. Tells(Mail("Wallet Debited", w, Work[j].to, [signs |-> <<"-">>, amount |-> Work[j].amount],
                     formatCurrency(b), Id(j, "DEBIT"),
                     formatDateTime(createdAt[j]["DEBIT"])), w, b)
        BY <1>3, <1>4, <2>2, <2>4, Contents, Zenon
    <2>6. QED
        BY <1>2, <2>3, <2>5
<1>6. CASE Work[j].kind = "cashout"
    <2>1. "DEBIT" \in Types(j) /\ WalletOf(j, "DEBIT") = w
        BY <1>1, <1>2, <1>6, TypesOf, SidesOf
    <2>2. Names(j, w, NoWallet, <<"-">> \o <<"-">>, "DEBIT", formatDateTime(clock))
        <3>1. Parties(j) = {w, NoWallet} \ {NoWallet}
            BY <1>1, <1>2, <1>6, SidesOf
        <3>2. /\ formatDateTime(clock) \in Nat /\ formatDateTime(clock) <= formatDateTime(clock)
              /\ formatDateTime(clock) >= formatDateTime(createdAt[j]["DEBIT"])
            BY <2>1, RowTimes
        <3>3. Signed(j, w, <<"-">> \o <<"-">>)
            BY <1>6 DEF Signed
        <3>4. QED
            BY <1>3, Signs, <2>1, <3>1, <3>2, <3>3 DEF Names
    <2>3. MailFrom(j) = Mail("Cashout Processed", w, NoWallet,
                             [signs |-> <<"-">> \o <<"-">>, amount |-> a],
                             formatCurrency(b), Id(j, "DEBIT"), formatDateTime(clock))
        BY <1>2, <1>3, <1>6, Texts
        DEF MailFrom, sendWalletCashoutNotificationEmail, WalletCashoutTemplate
    <2>4. "Cashout Processed" \in Subjects
        BY DEF Subjects
    <2>5. Tells(Mail("Cashout Processed", w, NoWallet,
                     [signs |-> <<"-">> \o <<"-">>, amount |-> Work[j].amount],
                     formatCurrency(b), Id(j, "DEBIT"), formatDateTime(clock)), w, b)
        BY <1>3, <1>4, <2>2, <2>4, Contents, Zenon
    <2>6. QED
        BY <1>2, <2>3, <2>5
<1>7. CASE Work[j].kind = "refused"
    <2>1. Names(j, w, NoWallet, <<"-">> \o <<"-">>, "REFERENCE", formatDateTime(clock))
        <3>1. Parties(j) = {w, NoWallet} \ {NoWallet}
            BY <1>1, <1>2, <1>7, SidesOf
        <3>2. formatDateTime(clock) \in Nat /\ formatDateTime(clock) <= formatDateTime(clock)
            BY RowTimes
        <3>3. Signed(j, w, <<"-">> \o <<"-">>)
            BY <1>7 DEF Signed
        <3>4. QED
            BY <1>3, Signs, <3>1, <3>2, <3>3 DEF Names
    <2>2. MailFrom(j) = Mail("Cashout Failed", w, NoWallet,
                             [signs |-> <<"-">> \o <<"-">>, amount |-> a],
                             formatCurrency(b), Id(j, "REFERENCE"), formatDateTime(clock))
        BY <1>2, <1>3, <1>7, Texts
        DEF MailFrom, sendWalletCashoutFailedNotificationEmail, WalletCashoutFailedTemplate
    <2>3. "Cashout Failed" \in Subjects
        BY DEF Subjects
    <2>4. Tells(Mail("Cashout Failed", w, NoWallet,
                     [signs |-> <<"-">> \o <<"-">>, amount |-> Work[j].amount],
                     formatCurrency(b), Id(j, "REFERENCE"), formatDateTime(clock)), w, b)
        BY <1>3, <1>4, <2>1, <2>3, Contents, Zenon
    <2>5. QED
        BY <1>2, <2>2, <2>4
<1>8. QED
    BY <1>5, <1>6, <1>7 DEF Pays

(* What the recipient is told is true.                                     *)
LEMMA RecipientIsTold ==
    ASSUME PostingsInv, NEW j \in Committed, Receives(j),
           read[j][Work[j].to] \in BalancesSince(j, Work[j].to)
    PROVE  Tells(MailTo(j), Work[j].to, read[j][Work[j].to])
<1>1. j \in Jobs
    BY LogIs DEF PostingsInv, PostingsTypeOK
<1>2. PICK w, a, b : w = Work[j].to /\ a = Work[j].amount /\ b = read[j][w]
    OBVIOUS
<1>3. w \in Wallets /\ a \in Int /\ Signed(j, w, <<"+">>) /\ NoWallet \in Wallets \union {NoWallet}
    BY <1>1, <1>2, Kinds, SidesOf
<1>4. b \in BalancesSince(j, w)
    BY <1>2
<1>5. "CREDIT" \in Types(j) /\ WalletOf(j, "CREDIT") = w
    BY <1>1, <1>2, TypesOf, SidesOf
<1>6. /\ formatDateTime(createdAt[j]["CREDIT"]) \in Nat
      /\ formatDateTime(createdAt[j]["CREDIT"]) <= formatDateTime(clock)
      /\ formatDateTime(createdAt[j]["CREDIT"]) >= formatDateTime(createdAt[j]["CREDIT"])
    BY <1>5, RowTimes
<1>7. CASE Work[j].kind = "transfer"
    <2>1. Names(j, w, Work[j].from, <<"+">>, "CREDIT", formatDateTime(createdAt[j]["CREDIT"]))
        <3>1. Work[j].from \in Wallets \union {NoWallet} /\ Parties(j) = {w, Work[j].from} \ {NoWallet}
            BY <1>1, <1>2, <1>7, Kinds, SidesOf DEF Pays
        <3>2. QED
            BY <1>3, Signs, <1>5, <1>6, <3>1 DEF Names
    <2>2. MailTo(j) = Mail("Wallet Credited", w, Work[j].from, [signs |-> <<"+">>, amount |-> a],
                           formatCurrency(b), Id(j, "CREDIT"),
                           formatDateTime(createdAt[j]["CREDIT"]))
        BY <1>2, <1>3, <1>7, Texts
        DEF MailTo, sendWalletCreditNotificationEmail, WalletCreditedTemplate
    <2>3. "Wallet Credited" \in Subjects
        BY DEF Subjects
    <2>4. Tells(Mail("Wallet Credited", w, Work[j].from,
                     [signs |-> <<"+">>, amount |-> Work[j].amount],
                     formatCurrency(b), Id(j, "CREDIT"),
                     formatDateTime(createdAt[j]["CREDIT"])), w, b)
        BY <1>3, <1>4, <2>1, <2>3, Contents, Zenon
    <2>5. QED
        BY <1>2, <2>2, <2>4
<1>8. CASE Work[j].kind = "topup"
    <2>1. Names(j, w, NoWallet, <<"+">>, "CREDIT", formatDateTime(createdAt[j]["CREDIT"]))
        <3>1. Parties(j) = {w, NoWallet} \ {NoWallet}
            BY <1>1, <1>2, <1>8, SidesOf
        <3>2. QED
            BY <1>3, Signs, <1>5, <1>6, <3>1 DEF Names
    <2>2. MailTo(j) = Mail("Wallet Top-Up", w, NoWallet, [signs |-> <<"+">>, amount |-> a],
                           formatCurrency(b), Id(j, "CREDIT"),
                           formatDateTime(createdAt[j]["CREDIT"]))
        BY <1>2, <1>3, <1>8, Texts
        DEF MailTo, sendWalletTopupNotificationEmail, WalletTopupTemplate
    <2>3. "Wallet Top-Up" \in Subjects
        BY DEF Subjects
    <2>4. Tells(Mail("Wallet Top-Up", w, NoWallet,
                     [signs |-> <<"+">>, amount |-> Work[j].amount],
                     formatCurrency(b), Id(j, "CREDIT"),
                     formatDateTime(createdAt[j]["CREDIT"])), w, b)
        BY <1>3, <1>4, <2>1, <2>3, Contents, Zenon
    <2>5. QED
        BY <1>2, <2>2, <2>4
<1>9. QED
    BY <1>7, <1>8 DEF Receives

(* A true email stays true.                                                *)
LEMMA TruthStays ==
    ASSUME PostingsInv, [Next]_vars, NEW m \in Mails, NamesARow(m), MailIsTrue(m)
    PROVE  MailIsTrue(m)'
<1>1. PICK j, t : j = m.id.job /\ t = m.id.type
    OBVIOUS
<1>2. m.time \in Nat /\ m.to \in Wallets
    BY DEF Mails
<1>3. /\ j \in Committed
      /\ Parties(j) = {m.to, m.other} \ {NoWallet} /\ m.amount.amount = Work[j].amount
      /\ Signed(j, m.to, m.amount.signs)
      /\ m.balance.amount \in BalancesSince(j, m.to)
      /\ m.time <= formatDateTime(clock)
      /\ t # "REFERENCE" => WalletOf(j, t) = m.to /\ m.time >= formatDateTime(createdAt[j][t])
    BY <1>1 DEF MailIsTrue
<1>4. j \in Jobs
    BY <1>3, LogIs DEF PostingsInv, PostingsTypeOK
<1>5. j \in Committed' /\ m.balance.amount \in BalancesSince(j, m.to)'
    BY <1>2, <1>3, <1>4, Growth
<1>6. m.time <= formatDateTime(clock)'
    <2>1. clock \in Nat /\ clock' \in Nat /\ clock <= clock'
        BY Growth
    <2>2. /\ formatDateTime(clock) \in Nat /\ formatDateTime(clock') \in Nat
          /\ formatDateTime(clock) <= formatDateTime(clock')
        BY <2>1, MinutesGrow
    <2>3. formatDateTime(clock)' = formatDateTime(clock')
        BY DEF formatDateTime
    <2>4. QED
        BY <1>2, <1>3, <2>2, <2>3
<1>7. ASSUME t # "REFERENCE"
      PROVE  WalletOf(j, t)' = m.to /\ m.time >= formatDateTime(createdAt[j][t])'
    <2>1. t \in Types(j)
        BY <1>1, <1>7 DEF NamesARow
    <2>2. t \in DOMAIN createdAt[j]
        BY <1>3, <2>1, CommittedRows
    <2>3. createdAt'[j][t] = createdAt[j][t]
        BY <1>4, <2>2, Growth
    <2>4. QED
        BY <1>3, <1>7, <2>3 DEF WalletOf, formatDateTime
<1>8. Parties(j)' = Parties(j) /\ Signed(j, m.to, m.amount.signs)'
    BY <1>3 DEF Parties, Signed, Sign, Types, WalletOf, Change
<1>9. QED
    BY <1>1, <1>3, <1>5, <1>6, <1>7, <1>8 DEF MailIsTrue

(* The last balance is one since any job that is committed.                *)
LEMMA LastIsSince ==
    ASSUME PostingsInv, NEW j \in Committed, NEW w \in Wallets
    PROVE  Balance(w) \in BalancesSince(j, w) /\ Balance(w) \in Nat
<1>1. PICK i : i \in 1..Len(log) /\ log[i] = j
    BY LogIs DEF PostingsInv, PostingsTypeOK
<1>2. Len(log) \in 1..Len(log)
    BY <1>1, LogIs DEF PostingsInv, PostingsTypeOK
<1>3. Balance(w) \in BalancesSince(j, w)
    BY <1>1, <1>2 DEF Balance, BalancesSince
<1>4. QED
    BY <1>3 DEF PostingsInv

(* A step that reads no balance of the job keeps what was done before it.  *)
LEMMA DoneStays ==
    ASSUME PostingsInv, [Next]_vars, NEW j \in Jobs, NEW k, Done(j, k),
           read'[j] = read[j], mails \subseteq mails', dropped \subseteq dropped'
    PROVE  Done(j, k)'
<1>1. Committed \subseteq Committed' /\ \A w \in Wallets : BalancesSince(j, w) \subseteq BalancesSince(j, w)'
    BY Growth
<1>2. \A w : ReadsOf(j, k, w)' = ReadsOf(j, k, w) /\ MailsOf(j, k, w)' = MailsOf(j, k, w)
    BY DEF ReadsOf, MailsOf, Steps
<1>3. QED
    BY <1>1, <1>2 DEF Done

(* A job's next step: what it reads is since the commit, and what it mails *)
(* it has read.                                                            *)
LEMMA NextIsDone ==
    ASSUME PostingsInv, NEW j \in Jobs, NEW step, NextStep(j, step),
           at[j] \in 0..Len(Steps(j)), at \in [Jobs -> Nat]
    PROVE  /\ j \in Committed /\ at[j] \in Nat /\ at[j] + 1 \in 1..Len(Steps(j))
           /\ Steps(j)[at[j] + 1] = step
           /\ at' \in [Jobs -> Nat] /\ at'[j] = at[j] + 1 /\ \A q \in Jobs \ {j} : at'[q] = at[q]
           /\ UNCHANGED cut
<1>1. Len(Steps(j)) \in Nat
    BY StepsInOrder DEF StepsFollow
<1>2. QED
    BY <1>1 DEF NextStep, MayNotify

(* A notification that has done all of its steps so far, has done one more.*)
LEMMA AllDone ==
    ASSUME NoticesInv, NEW j \in Jobs, at'[j] = at[j] + 1, \A q \in Jobs \ {j} : at'[q] = at[q],
           \A q \in Jobs \ {j} : \A k \in 1..at[q] : Done(q, k)',
           \A k \in 1..(at[j] + 1) : Done(j, k)'
    PROVE  \A q \in Jobs : \A k \in 1..at'[q] : Done(q, k)'
OBVIOUS

(* Only emails to the other steps' wallets and reads count.                *)
LEMMA StepsStay ==
    ASSUME NEW j, NEW k, NEW w
    PROVE  ReadsOf(j, k, w)' = ReadsOf(j, k, w) /\ MailsOf(j, k, w)' = MailsOf(j, k, w)
BY DEF ReadsOf, MailsOf, Steps

(* The invariant of the notices after a step of one of them.               *)
LEMMA NoticesAfter ==
    ASSUME PostingsInv, UNCHANGED postings, NoticesInv, MailsAreTrue,
           NEW j \in Jobs, NEW step, NextStep(j, step),
           read' \in [Jobs -> [Wallets -> Nat \union {NoBalance}]],
           dropped' \subseteq [job: Jobs, to: Wallets], slack' \subseteq slack \union {j},
           \A m \in mails' \ mails : m \in Mails /\ NamesARow(m) /\ MailIsTrue(m),
           \A q \in Jobs \ {j} : \A k \in 1..at[q] : Done(q, k)',
           \A k \in 1..(at[j] + 1) : Done(j, k)'
    PROVE  NoticesInv' /\ MailsAreTrue'
<1>1. /\ j \in Committed /\ at[j] \in Nat /\ at[j] + 1 \in 1..Len(Steps(j))
      /\ at' \in [Jobs -> Nat] /\ at'[j] = at[j] + 1 /\ \A q \in Jobs \ {j} : at'[q] = at[q]
      /\ UNCHANGED cut
    BY NextIsDone DEF NoticesInv
<1>2. \A q \in Jobs : at'[q] \in 0..Len(Steps(q))
    <2>1. Len(Steps(j)) \in Nat
        BY StepsInOrder DEF StepsFollow
    <2>2. QED
        BY <1>1, <2>1 DEF NoticesInv
<1>3. \A q \in Jobs : \A k \in 1..at'[q] : Done(q, k)'
    BY <1>1, AllDone
<1>4. Committed' = Committed
    BY SameLog DEF postings
<1>5. \A m : NamesARow(m)' = NamesARow(m)
    BY DEF NamesARow, Types
<1>6. mails' \subseteq Mails /\ (\A m \in mails' : NamesARow(m)) /\ slack' \subseteq Committed
    BY <1>1 DEF NoticesInv
<1>7. NoticesInv'
    <2>1. \A q \in Jobs : Len(Steps(q))' = Len(Steps(q))
        BY DEF Steps
    <2>2. /\ cut' \subseteq Jobs /\ slack' \subseteq Committed'
          /\ mails' \subseteq Mails' /\ \A m \in mails' : NamesARow(m)'
        BY <1>1, <1>4, <1>5, <1>6 DEF NoticesInv, Mails, Text
    <2>3. QED
        BY <1>1, <1>2, <1>3, <2>1, <2>2 DEF NoticesInv
<1>8. \A m \in mails' : MailIsTrue(m)
    BY DEF MailsAreTrue, MailIsTrue, Signed
<1>9. ASSUME NEW m PROVE MailIsTrue(m)' = MailIsTrue(m)
    <2>1. PICK i, w, t : i = m.id.job /\ w = m.to /\ t = m.id.type
        OBVIOUS
    <2>2. UNCHANGED <<clock, createdAt>> /\ Committed' = Committed
          /\ BalancesSince(i, w)' = BalancesSince(i, w)
        BY SameLog DEF postings
    <2>3. /\ Parties(i)' = Parties(i)
          /\ Signed(i, w, m.amount.signs)' = Signed(i, w, m.amount.signs)
          /\ WalletOf(i, t)' = WalletOf(i, t)
        BY DEF Parties, Signed, Sign, Change, Types, WalletOf
    <2>4. /\ formatDateTime(clock)' = formatDateTime(clock)
          /\ formatDateTime(createdAt[i][t])' = formatDateTime(createdAt[i][t])
        BY <2>2 DEF formatDateTime
    <2>5. QED
        BY <2>1, <2>2, <2>3, <2>4 DEF MailIsTrue
<1>10. MailsAreTrue'
    <2>1. \A m \in mails' : MailIsTrue(m)'
        BY <1>8, <1>9
    <2>2. QED
        BY <1>4, <1>6, <2>1 DEF MailsAreTrue, MailIsTrue, Signed
<1>11. QED
    BY <1>7, <1>10

(* A step that neither reads nor mails.                                    *)
LEMMA SilentStep ==
    ASSUME PostingsInv, [Next]_vars, UNCHANGED postings, NoticesInv, MailsAreTrue,
           NEW j \in Jobs, PostToSlack(j) \/ FindUser(j)
    PROVE  NoticesInv' /\ MailsAreTrue'
<1>1. PICK step \in {"slack", "findUser"} : NextStep(j, step)
    BY DEF PostToSlack, FindUser
<1>2. PICK n : n = at[j] + 1
    OBVIOUS
<1>3. /\ j \in Committed /\ at[j] \in Nat
      /\ Steps(j)[n] = step
    BY <1>1, <1>2, NextIsDone DEF NoticesInv
<1>4. UNCHANGED <<read, mails, dropped>> /\ slack' \subseteq slack \union {j}
    BY DEF PostToSlack, FindUser
<1>5. \A q \in Jobs : \A k \in 1..at[q] : Done(q, k)'
    BY <1>4, DoneStays DEF NoticesInv
<1>6. Done(j, n)'
    <2>1. \A w : ~ReadsOf(j, n, w) /\ ~MailsOf(j, n, w)
        BY <1>3 DEF ReadsOf, MailsOf
    <2>2. Committed' = Committed
        BY SameLog DEF postings
    <2>3. QED
        BY <1>3, <2>1, <2>2, StepsStay DEF Done
<1>7. \A k \in 1..(at[j] + 1) : k \in 1..at[j] \/ k = n
    BY <1>2, <1>3
<1>8. \A k \in 1..(at[j] + 1) : Done(j, k)'
    BY <1>5, <1>6, <1>7
<1>9. QED
    BY <1>1, <1>4, <1>5, <1>8, NoticesAfter DEF NoticesInv

(* A step that reads the balance of a wallet.                              *)
LEMMA ReadingStep ==
    ASSUME PostingsInv, [Next]_vars, UNCHANGED postings, NoticesInv, MailsAreTrue,
           NEW j \in Jobs, NEW step, NEW w, ReadBalance(j, step, w),
           \/ step = "readFrom" /\ w = Work[j].from
           \/ step = "readTo" /\ w = Work[j].to
    PROVE  NoticesInv' /\ MailsAreTrue'
<1>1. NextStep(j, step) /\ read' = [read EXCEPT ![j][w] = Balance(w)]
      /\ UNCHANGED <<mails, slack, dropped>>
    BY DEF ReadBalance
<1>2. PICK n : n = at[j] + 1
    OBVIOUS
<1>3. /\ j \in Committed /\ at[j] \in Nat /\ n \in 1..Len(Steps(j))
      /\ Steps(j)[n] = step
    BY <1>1, <1>2, NextIsDone DEF NoticesInv
<1>4. w \in Wallets
    BY <1>3, StepsInOrder, Kinds DEF StepsFollow
<1>5. Balance(w) \in BalancesSince(j, w) /\ Balance(w) \in Nat
    BY <1>3, <1>4, LastIsSince
<1>6. /\ read' \in [Jobs -> [Wallets -> Nat \union {NoBalance}]]
      /\ read'[j][w] = Balance(w)
      /\ \A v \in Wallets \ {w} : read'[j][v] = read[j][v]
      /\ \A q \in Jobs \ {j} : read'[q] = read[q]
    BY <1>1, <1>4, <1>5 DEF NoticesInv
<1>7. \A q \in Jobs \ {j} : \A k \in 1..at[q] : Done(q, k)'
    BY <1>1, <1>6, DoneStays DEF NoticesInv
<1>8. ASSUME NEW k \in 1..(at[j] + 1) PROVE Done(j, k)'
    <2>1. k \in 1..at[j] \/ k = n
        BY <1>2, <1>3
    <2>2. Committed' = Committed /\ \A v : BalancesSince(j, v)' = BalancesSince(j, v)
        BY SameLog DEF postings
    <2>3. ASSUME NEW v \in Wallets, ReadsOf(j, k, v) PROVE read'[j][v] \in BalancesSince(j, v)
        <3>1. CASE v = w
            BY <1>5, <1>6, <3>1
        <3>2. CASE v # w
            <4>1. k # n
                BY <1>3, <2>3, <3>2 DEF ReadsOf
            <4>2. Done(j, k)
                BY <2>1, <4>1 DEF NoticesInv
            <4>3. QED
                BY <1>6, <2>3, <3>2, <4>2 DEF Done
        <3>3. QED
            BY <3>1, <3>2
    <2>4. ASSUME NEW v, MailsOf(j, k, v) PROVE FALSE
        <3>1. Steps(j)[k] \in {"mailFrom", "mailTo"} /\ step \in {"readFrom", "readTo"}
            BY <2>4 DEF MailsOf
        <3>2. k \in 1..Len(Steps(j)) /\ Len(Steps(j)) \in Nat
            BY <1>2, <1>3, StepsInOrder DEF StepsFollow
        <3>3. n < k
            BY <1>3, <3>1, <3>2, StepsInOrder DEF StepsFollow
        <3>4. QED
            BY <1>2, <1>3, <3>3
    <2>5. QED
        BY <1>3, <2>2, <2>3, <2>4, StepsStay DEF Done
<1>9. QED
    BY <1>1, <1>6, <1>7, <1>8, NoticesAfter DEF NoticesInv

(* A step that sends an email, or loses it.                                *)
LEMMA MailingStep ==
    ASSUME PostingsInv, [Next]_vars, UNCHANGED postings, NoticesInv, MailsAreTrue,
           NEW j \in Jobs, NEW step, NEW mail, SendMail(j, step, mail),
           NEW w \in Wallets, Tells(mail, w, read[j][w]),
           \/ step = "mailFrom" /\ w = Work[j].from
           \/ step = "mailTo" /\ w = Work[j].to
    PROVE  NoticesInv' /\ MailsAreTrue'
<1>1. NextStep(j, step) /\ UNCHANGED <<read, slack>>
    BY DEF SendMail
<1>2. PICK n : n = at[j] + 1
    OBVIOUS
<1>3. /\ j \in Committed /\ at[j] \in Nat /\ n \in 1..Len(Steps(j))
      /\ Steps(j)[n] = step
    BY <1>1, <1>2, NextIsDone DEF NoticesInv
<1>4. mail \in Mails /\ mail.to = w /\ mail.balance.amount = read[j][w]
      /\ MailIsTrue(mail) /\ NamesARow(mail)
    BY DEF Tells
<1>5. \/ mails' = mails \union {mail} /\ UNCHANGED dropped
      \/ dropped' = dropped \union {[job |-> j, to |-> w]} /\ UNCHANGED mails
    BY <1>4 DEF SendMail
<1>6. mails \subseteq mails' /\ dropped \subseteq dropped'
      /\ dropped' \subseteq [job: Jobs, to: Wallets] /\ mails' \subseteq mails \union {mail}
    BY <1>5 DEF NoticesInv
<1>7. \A q \in Jobs : \A k \in 1..at[q] : Done(q, k)'
    BY <1>1, <1>6, DoneStays DEF NoticesInv
<1>8. Done(j, n)'
    <2>1. ASSUME NEW v, ReadsOf(j, n, v) PROVE FALSE
        BY <1>3, <2>1 DEF ReadsOf
    <2>2. ASSUME NEW v, MailsOf(j, n, v)
          PROVE  \/ [job |-> j, to |-> v] \in dropped'
                 \/ \E m \in mails' : m.to = v /\ m.balance.amount = read[j][v]
        <3>1. v = w
            BY <1>3, <2>2 DEF MailsOf
        <3>2. QED
            BY <1>4, <1>5, <3>1
    <2>3. Committed' = Committed
        BY SameLog DEF postings
    <2>4. QED
        BY <1>1, <1>3, <2>1, <2>2, <2>3, StepsStay DEF Done
<1>9. \A k \in 1..(at[j] + 1) : k \in 1..at[j] \/ k = n
    BY <1>2, <1>3
<1>10. \A k \in 1..(at[j] + 1) : Done(j, k)'
    BY <1>7, <1>8, <1>9
<1>11. QED
    BY <1>1, <1>4, <1>6, <1>7, <1>10, NoticesAfter DEF NoticesInv

(* What happens to the notices in a step.                                  *)
LEMMA NoticeSteps ==
    ASSUME PostingsInv, NoticesInv, [Next]_vars
    PROVE  \/ UNCHANGED <<at, read, mails, slack, dropped>> /\ cut' \subseteq Jobs
           \/ \E j \in Jobs : Notify(j) /\ UNCHANGED postings
<1>1. cut \subseteq Jobs /\ Committed \subseteq Jobs
    BY LogIs DEF NoticesInv, PostingsInv, PostingsTypeOK
<1>2. ASSUME NEW j \in Jobs, CommitLost(j) \/ Throw(j)
      PROVE  UNCHANGED <<at, read, mails, slack, dropped>> /\ cut' \subseteq Jobs
    BY <1>1, <1>2 DEF CommitLost, Throw
<1>3. ASSUME Crash
      PROVE  UNCHANGED <<at, read, mails, slack, dropped>> /\ cut' \subseteq Jobs
    BY <1>1, <1>3 DEF Crash, CutAll
<1>4. ASSUME UNCHANGED notices
      PROVE  UNCHANGED <<at, read, mails, slack, dropped>> /\ cut' \subseteq Jobs
    BY <1>1, <1>4 DEF notices
<1>5. QED
    BY <1>2, <1>3, <1>4 DEF Next, vars, CommitHeard

(* Every step keeps what is told true.                                     *)
LEMMA NoticesPreserved ==
    PostingsInv /\ NoticesInv /\ MailsAreTrue /\ [Next]_vars => NoticesInv' /\ MailsAreTrue'
<1> SUFFICES ASSUME PostingsInv, NoticesInv, MailsAreTrue, [Next]_vars
             PROVE  NoticesInv' /\ MailsAreTrue'
    OBVIOUS
<1>1. CASE UNCHANGED <<at, read, mails, slack, dropped>> /\ cut' \subseteq Jobs
    <2>1. Committed \subseteq Committed'
        BY Growth
    <2>2. \A j \in Jobs : \A k \in 1..at[j] : Done(j, k)'
        BY <1>1, DoneStays DEF NoticesInv
    <2>3. \A m : NamesARow(m)' = NamesARow(m)
        BY DEF NamesARow, Types
    <2>4. \A j : Len(Steps(j))' = Len(Steps(j))
        BY DEF Steps
    <2>5. NoticesInv'
        BY <1>1, <2>1, <2>2, <2>3, <2>4 DEF NoticesInv, Mails, Text
    <2>6. \A m \in mails : MailIsTrue(m)'
        <3>1. \A m \in mails : m \in Mails /\ NamesARow(m) /\ MailIsTrue(m)
            BY DEF NoticesInv, MailsAreTrue, MailIsTrue, Signed
        <3>2. QED
            BY <3>1, TruthStays
    <2>7. slack' \subseteq Committed'
        BY <1>1, <2>1 DEF MailsAreTrue
    <2>8. MailsAreTrue'
        BY <1>1, <2>6, <2>7 DEF MailsAreTrue, MailIsTrue, Signed
    <2>9. QED
        BY <2>5, <2>8
<1>2. ASSUME NEW j \in Jobs, Notify(j), UNCHANGED postings
      PROVE  NoticesInv' /\ MailsAreTrue'
    <2>1. CASE PostToSlack(j) \/ FindUser(j)
        BY <1>2, <2>1, SilentStep
    <2>2. CASE ReadBalance(j, "readFrom", Work[j].from)
        BY <1>2, <2>2, ReadingStep
    <2>3. CASE ReadBalance(j, "readTo", Work[j].to)
        BY <1>2, <2>3, ReadingStep
    <2>4. CASE SendMail(j, "mailFrom", MailFrom(j))
        <3>1. NextStep(j, "mailFrom")
            BY <2>4 DEF SendMail
        <3>2. /\ j \in Committed /\ at[j] \in Nat /\ at[j] + 1 \in 1..Len(Steps(j))
              /\ Steps(j)[at[j] + 1] = "mailFrom"
            BY <3>1, NextIsDone DEF NoticesInv
        <3>3. PICK i \in 1..Len(Steps(j)) : i < at[j] + 1 /\ Steps(j)[i] = "readFrom"
            BY <3>2, StepsInOrder DEF StepsFollow
        <3>4. Pays(j) /\ Work[j].from \in Wallets
            BY <3>2, StepsInOrder, Kinds DEF StepsFollow
        <3>5. i \in 1..at[j] /\ ReadsOf(j, i, Work[j].from)
            BY <3>2, <3>3 DEF ReadsOf
        <3>6. read[j][Work[j].from] \in BalancesSince(j, Work[j].from)
            BY <3>4, <3>5 DEF NoticesInv, Done
        <3>7. Tells(MailFrom(j), Work[j].from, read[j][Work[j].from])
            BY <3>2, <3>4, <3>6, PayerIsTold
        <3>8. QED
            BY <1>2, <2>4, <3>4, <3>7, MailingStep
    <2>5. CASE SendMail(j, "mailTo", MailTo(j))
        <3>1. NextStep(j, "mailTo")
            BY <2>5 DEF SendMail
        <3>2. /\ j \in Committed /\ at[j] \in Nat /\ at[j] + 1 \in 1..Len(Steps(j))
              /\ Steps(j)[at[j] + 1] = "mailTo"
            BY <3>1, NextIsDone DEF NoticesInv
        <3>3. PICK i \in 1..Len(Steps(j)) : i < at[j] + 1 /\ Steps(j)[i] = "readTo"
            BY <3>2, StepsInOrder DEF StepsFollow
        <3>4. Receives(j) /\ Work[j].to \in Wallets
            BY <3>2, StepsInOrder, Kinds DEF StepsFollow
        <3>5. i \in 1..at[j] /\ ReadsOf(j, i, Work[j].to)
            BY <3>2, <3>3 DEF ReadsOf
        <3>6. read[j][Work[j].to] \in BalancesSince(j, Work[j].to)
            BY <3>4, <3>5 DEF NoticesInv, Done
        <3>7. Tells(MailTo(j), Work[j].to, read[j][Work[j].to])
            BY <3>2, <3>4, <3>6, RecipientIsTold
        <3>8. QED
            BY <1>2, <2>5, <3>4, <3>7, MailingStep
    <2>6. QED
        BY <1>2, <2>1, <2>2, <2>3, <2>4, <2>5 DEF Notify
<1>3. QED
    BY <1>1, <1>2, NoticeSteps

(* A job ends once.                                                        *)
LEMMA ApartPreserved == PostingsInv /\ Apart /\ [Next]_vars => Apart'
<1> SUFFICES ASSUME PostingsInv, Apart, [Next]_vars PROVE Apart'
    OBVIOUS
<1>1. ASSUME NEW j \in Jobs, Adds(j) PROVE Apart'
    BY <1>1, AddsIs DEF Adds, Apart, Ended
<1>2. ASSUME UNCHANGED log PROVE Committed' = Committed
    BY <1>2, SameLog
<1>3. ASSUME NEW j \in Jobs, CreateRow(j) \/ InsertRow(j) \/ RollBack(j) PROVE Apart'
    BY <1>2, <1>3 DEF CreateRow, InsertRow, RollBack, Apart, Ended
<1>4. CASE Tick \/ RollBackAll
    BY <1>2, <1>4 DEF Tick, RollBackAll, Apart, Ended
<1>5. CASE UNCHANGED postings
    BY <1>2, <1>5 DEF postings, Apart
<1>6. QED
    BY <1>1, <1>3, <1>4, <1>5, PostingSteps

(* A wallet with a row has a last job that moved its money: since then its *)
(* balance is what it is now.                                              *)
LEMMA LastJob ==
    ASSUME PostingsInv, NEW r \in Rows
    PROVE  \E q \in Committed : \E t \in Types(q) :
               /\ WalletOf(q, t) = r.wallet /\ r.wallet \in Wallets
               /\ \A b \in BalancesSince(q, r.wallet) : b = Balance(r.wallet)
<1>1. log \in Seq(Jobs) /\ Len(log) \in Nat
    BY DEF PostingsInv, PostingsTypeOK
<1>2. PICK w \in Wallets : w = r.wallet
    BY RowsAre
<1> DEFINE Touches(i) == \E t \in Types(log[i]) : WalletOf(log[i], t) = w
           Bounds == {n \in 0..Len(log) : \A i \in n + 1 .. Len(log) : ~Touches(i)}
<1>3. PICK i \in 1..Len(log) : Touches(i)
    BY <1>1, <1>2, RowsAre, LogIs
<1>4. PICK n \in Bounds : \A p \in Bounds : n <= p
    <2>1. Len(log) \in Bounds /\ Bounds \in SUBSET Nat
        BY <1>1
    <2> HIDE DEF Bounds
    <2>2. QED
        BY <2>1, Least
<1>5. n \in 0..Len(log) /\ \A k \in n + 1 .. Len(log) : ~Touches(k)
    BY <1>4
<1>6. n \in 1..Len(log) /\ Touches(n)
    <2> HIDE DEF Touches
    <2>1. n # 0
        BY <1>1, <1>3, <1>5
    <2>2. n - 1 \in 0..Len(log) /\ n - 1 \notin Bounds
        <3>1. n - 1 \in 0..Len(log) /\ ~(n <= n - 1)
            BY <1>1, <1>5, <2>1
        <3> HIDE DEF Bounds
        <3>2. QED
            BY <1>4, <3>1
    <2>3. PICK k \in (n - 1) + 1 .. Len(log) : Touches(k)
        BY <2>2
    <2>4. k = n
        BY <1>1, <1>5, <2>3
    <2>5. QED
        BY <1>5, <2>1, <2>3, <2>4
<1>7. \A k \in n + 1 .. Len(log) : Change(log[k], w) = 0
    <2> SUFFICES ASSUME NEW k \in n + 1 .. Len(log) PROVE Change(log[k], w) = 0
        OBVIOUS
    <2>1. log[k] \in Jobs
        BY <1>1, <1>6
    <2>2. \A t \in Types(log[k]) : WalletOf(log[k], t) # w
        BY <1>5
    <2>3. QED
        BY <2>1, <2>2, ChangeIs
<1>8. ASSUME NEW k \in n..Len(log) PROVE BalanceAfter(k, w) = BalanceAfter(n, w)
    <2>1. n \in Nat /\ k \in Nat /\ n <= k /\ k <= Len(log)
          /\ \A x \in n + 1 .. k : Change(log[x], w) = 0
        BY <1>1, <1>6, <1>7
    <2>2. After(log, k, w) = After(log, n, w)
        BY <1>1, <2>1, AfterConstant
    <2>3. QED
        BY <1>1, <2>2, LogIs
<1>9. PICK q : q = log[n] /\ q \in Committed
    BY <1>1, <1>6, LogIs
<1>10. ASSUME NEW b \in BalancesSince(q, w) PROVE b = Balance(w)
    <2>1. PICK k \in 1..Len(log) : b = BalanceAfter(k, w) /\ \E x \in 1..k : log[x] = q
        BY DEF BalancesSince
    <2>2. PICK x \in 1..k : log[x] = q
        BY <2>1
    <2>3. x = n
        <3>1. x \in 1..Len(log)
            BY <1>1, <2>1
        <3>2. QED
            BY <1>6, <1>9, <2>2, <3>1 DEF PostingsInv
    <2>4. k \in n..Len(log) /\ Len(log) \in n..Len(log)
        BY <1>1, <1>6, <2>2, <2>3
    <2>5. QED
        BY <1>8, <2>1, <2>4 DEF Balance
<1>11. QED
    BY <1>2, <1>6, <1>9, <1>10

(* Once all is quiet, the job that last moved a wallet's money has told    *)
(* the balance that it has.                                                *)
LEMMA QuietTells == PostingsInv /\ Apart /\ NoticesInv => LastIsTold
<1> SUFFICES ASSUME PostingsInv, Apart, NoticesInv, Quiet, dropped = {}, NEW r \in Rows
             PROVE  \E m \in mails : m.to = r.wallet /\ m.balance.amount = Balance(r.wallet)
    BY DEF LastIsTold
<1>1. PICK j, t : j \in Committed /\ t \in Types(j) /\ WalletOf(j, t) = r.wallet
                 /\ r.wallet \in Wallets
                 /\ \A b \in BalancesSince(j, r.wallet) : b = Balance(r.wallet)
    BY LastJob
<1>2. j \in Jobs
    BY <1>1, LogIs DEF PostingsInv, PostingsTypeOK
<1>3. at[j] = Len(Steps(j))
    BY <1>1, <1>2 DEF Quiet, Begun, Ended, Apart
<1>4. PICK w : w = r.wallet
    OBVIOUS
<1>5. \E k \in 1..Len(Steps(j)) : \E i \in 1..Len(Steps(j)) : MailsOf(j, k, w) /\ ReadsOf(j, i, w)
    <2>1. CASE t = "DEBIT"
        <3>1. Pays(j) /\ Work[j].from = w
            BY <1>1, <1>2, <1>4, <2>1, TypesOf, SidesOf DEF Pays
        <3>2. PICK k \in 1..Len(Steps(j)) : Steps(j)[k] = "mailFrom"
            BY <1>2, <3>1, StepsInOrder DEF StepsFollow
        <3>3. PICK i \in 1..Len(Steps(j)) : Steps(j)[i] = "readFrom"
            BY <1>2, <3>2, StepsInOrder DEF StepsFollow
        <3>4. QED
            BY <3>1, <3>2, <3>3 DEF MailsOf, ReadsOf
    <2>2. CASE t = "CREDIT"
        <3>1. Receives(j) /\ Work[j].to = w
            BY <1>1, <1>2, <1>4, <2>2, TypesOf, SidesOf
        <3>2. PICK k \in 1..Len(Steps(j)) : Steps(j)[k] = "mailTo"
            BY <1>2, <3>1, StepsInOrder DEF StepsFollow
        <3>3. PICK i \in 1..Len(Steps(j)) : Steps(j)[i] = "readTo"
            BY <1>2, <3>2, StepsInOrder DEF StepsFollow
        <3>4. QED
            BY <3>1, <3>2, <3>3 DEF MailsOf, ReadsOf
    <2>3. QED
        BY <1>1, <1>2, <2>1, <2>2, TypesOf
<1>6. PICK k, i : /\ k \in 1..at[j] /\ i \in 1..at[j]
                  /\ MailsOf(j, k, w) /\ ReadsOf(j, i, w)
    BY <1>3, <1>5
<1>7. Done(j, k) /\ Done(j, i)
    BY <1>2, <1>6 DEF NoticesInv
<1>8. PICK m \in mails : m.to = w /\ m.balance.amount = read[j][w]
    BY <1>1, <1>4, <1>6, <1>7 DEF Done
<1>9. read[j][w] \in BalancesSince(j, w)
    BY <1>1, <1>4, <1>6, <1>7 DEF Done
<1>10. QED
    BY <1>1, <1>4, <1>8, <1>9

-----------------------------------------------------------------------------
(* Pages.                                                                  *)

(* Whether a query selects a row.                                          *)
Selects(q, r) ==
    /\ r.wallet = q.wallet
    /\ q.by # "user" =>
           /\ q.type # "any" => r.type = q.type
           /\ q.fromDate # NoDate => r.createdAt >= Midnight[q.fromDate]
           /\ q.toDate # NoDate => r.createdAt <= Midnight[q.toDate]

LEMMA MatchingIs ==
    ASSUME NEW q
    PROVE  Matching(q) = {r \in Rows : Selects(q, r)}
BY DEF Matching, findTransactions, getTransactions, Selects

(* Rows that a query selects have a time.                                  *)
LEMMA MatchingTimes ==
    ASSUME PostingsInv, IsFiniteSet(Rows), NEW q
    PROVE  IsFiniteSet(Matching(q)) /\ \A r \in Matching(q) : r \in Rows /\ r.createdAt \in Nat
<1>1. Matching(q) \subseteq Rows
    BY MatchingIs
<1>2. QED
    BY <1>1, FS_Subset, RowsAre

(* Where a page begins.                                                    *)
LEMMA OffsetIs ==
    ASSUME NEW p \in Nat \ {0}
    PROVE  /\ Offset(p) \in Nat /\ Offset(1) = 0 /\ Offset(p + 1) = Offset(p) + Limit
           /\ Limit \in Nat \ {0}
<1>1. PICK n \in Nat \ {0} : n = Limit
    BY LimitAssumption
<1>2. (p - 1) * n \in Nat /\ (1 - 1) * n = 0 /\ ((p + 1) - 1) * n = (p - 1) * n + n
    OBVIOUS
<1>3. QED
    BY <1>1, <1>2 DEF Offset

(* A row whose createdAt no other has is one of the first n rows exactly   *)
(* if fewer than n precede it.                                             *)
LEMMA Ranks ==
    ASSUME NEW q, NEW rows, IsFiniteSet(rows), \A s \in rows : s.createdAt \in Nat,
           NEW n \in Nat, NEW first \in Firsts(q, rows, n),
           NEW r \in rows, \A s \in rows \ {r} : s.createdAt # r.createdAt
    PROVE  /\ r \in first <=> Cardinality({s \in rows : Precedes(q, s, r)}) < n
           /\ Cardinality({s \in rows : Precedes(q, s, r)}) \in Nat
<1> DEFINE before == {s \in rows : Precedes(q, s, r)}
<1>1. PICK c : c = Cardinality(rows)
    OBVIOUS
<1>2. PICK k : k = (IF n < c THEN n ELSE c)
    OBVIOUS
<1>3. /\ first \in SUBSET rows /\ Cardinality(first) = k
      /\ \A x \in first : \A s \in rows \ first : ~Precedes(q, s, x)
    BY <1>1, <1>2 DEF Firsts, kSubset
<1>4. IsFiniteSet(before) /\ IsFiniteSet(first) /\ before \in SUBSET rows /\ r \notin before
    BY <1>3, FS_Subset DEF Precedes
<1>5. PICK b : b = Cardinality(before)
    OBVIOUS
<1>6. c \in Nat /\ b \in Nat
    BY <1>1, <1>4, <1>5, FS_CardinalityType
<1>7. IsFiniteSet(before \union {r}) /\ Cardinality(before \union {r}) = b + 1
    BY <1>4, <1>5, FS_AddElement
<1>8. ASSUME r \in first PROVE b < n
    <2>1. before \union {r} \in SUBSET first
        BY <1>3, <1>8
    <2>2. b + 1 <= k
        BY <1>3, <1>4, <1>7, <2>1, FS_Subset
    <2>3. QED
        BY <1>2, <1>6, <2>2
<1>9. ASSUME r \notin first PROVE n <= b
    <2>1. \A s \in first : Precedes(q, s, r)
        <3> SUFFICES ASSUME NEW s \in first PROVE Precedes(q, s, r)
            OBVIOUS
        <3>1. /\ s \in rows /\ s # r /\ ~Precedes(q, r, s)
              /\ s.createdAt \in Nat /\ r.createdAt \in Nat /\ s.createdAt # r.createdAt
            BY <1>3, <1>9
        <3>2. QED
            BY <3>1 DEF Precedes
    <2>2. first \in SUBSET before
        BY <1>3, <2>1
    <2>3. k <= b
        BY <1>3, <1>4, <1>5, <2>2, FS_Subset
    <2>4. before \union {r} \in SUBSET rows
        BY <1>4
    <2>5. b + 1 <= c
        BY <1>1, <1>7, <2>4, FS_Subset
    <2>6. QED
        BY <1>2, <1>6, <2>3, <2>5
<1>10. QED
    BY <1>5, <1>6, <1>8, <1>9

(* A page that leaves a row for the next ones is full.                     *)
FullUnlessLast(rows, from, upto, m) ==
    from \subseteq upto /\ upto # rows => Cardinality(upto \ from) = m

LEMMA FullPage ==
    ASSUME NEW q, NEW rows, IsFiniteSet(rows), NEW n \in Nat, NEW m \in Nat,
           NEW from \in Firsts(q, rows, n), NEW upto \in Firsts(q, rows, n + m)
    PROVE  FullUnlessLast(rows, from, upto, m)
<1> SUFFICES ASSUME from \subseteq upto, upto # rows PROVE Cardinality(upto \ from) = m
    BY DEF FullUnlessLast
<1>1. PICK c : c = Cardinality(rows)
    OBVIOUS
<1>2. /\ from \in SUBSET rows /\ Cardinality(from) = IF n < c THEN n ELSE c
      /\ upto \in SUBSET rows /\ Cardinality(upto) = IF n + m < c THEN n + m ELSE c
    BY <1>1 DEF Firsts, kSubset
<1>3. c \in Nat /\ IsFiniteSet(upto)
    BY <1>1, <1>2, FS_CardinalityType, FS_Subset
<1>4. Cardinality(upto) # c
    BY <1>1, <1>2, FS_Subset
<1>5. n + m < c /\ Cardinality(upto) = n + m
    BY <1>2, <1>4
<1>6. Cardinality(from) = n
    BY <1>2, <1>3, <1>5
<1>7. Cardinality(upto \ from) = Cardinality(upto) - Cardinality(upto \cap from)
    BY <1>3, FS_Difference
<1>8. upto \cap from = from
    OBVIOUS
<1>9. Cardinality(upto \cap from) = n
    BY <1>6, <1>8, Zenon
<1>10. PICK a, b, d : /\ a = Cardinality(upto \ from) /\ b = Cardinality(upto)
                      /\ d = Cardinality(upto \cap from) /\ a = b - d
    BY <1>7
<1>11. b = n + m /\ d = n
    BY <1>5, <1>9, <1>10
<1>12. QED
    BY <1>10, <1>11

(* A page is what is between two such ends.                                *)
LEMMA PageIs ==
    ASSUME NEW q, NEW p \in Nat \ {0}, NEW rows \in Pages(q, p)
    PROVE  \E from \in Firsts(q, Matching(q), Offset(p)) :
               \E upto \in Firsts(q, Matching(q), Offset(p) + Limit) :
                   from \subseteq upto /\ rows = upto \ from
BY DEF Pages

(* What is on a page: the rows that have their place there, and on a page  *)
(* that is not full, all the rest.                                         *)
LEMMA OnPage ==
    ASSUME PostingsInv, IsFiniteSet(Rows), NEW q, NEW p \in Nat \ {0}, NEW rows \in Pages(q, p)
    PROVE  /\ rows \subseteq Matching(q)
           /\ \A r \in Matching(q) : ~Tied(q, r) =>
                  /\ Cardinality(Before(q, r)) \in Nat
                  /\ r \in rows => /\ Cardinality(Before(q, r)) >= Offset(p)
                                   /\ Cardinality(Before(q, r)) < Offset(p + 1)
                  /\ r \notin rows /\ Cardinality(Before(q, r)) >= Offset(p) =>
                         /\ Cardinality(Before(q, r)) >= Offset(p + 1)
                         /\ Cardinality(rows) = Limit
<1>1. PICK all, n, m : all = Matching(q) /\ n = Offset(p) /\ m = Limit
    OBVIOUS
<1>2. n \in Nat /\ m \in Nat /\ n + m \in Nat /\ Offset(p + 1) = n + m
    BY <1>1, OffsetIs
<1>3. IsFiniteSet(all) /\ \A s \in all : s.createdAt \in Nat
    BY <1>1, MatchingTimes
<1>4. PICK from, upto : /\ from \in Firsts(q, all, n) /\ upto \in Firsts(q, all, n + m)
                        /\ from \subseteq upto /\ rows = upto \ from
    BY <1>1, PageIs
<1>5. rows \subseteq all
    BY <1>4 DEF Firsts, kSubset
<1>6. ASSUME NEW r \in all, ~Tied(q, r)
      PROVE  /\ Cardinality(Before(q, r)) \in Nat
             /\ r \in rows => Cardinality(Before(q, r)) >= n /\ Cardinality(Before(q, r)) < n + m
             /\ r \notin rows /\ Cardinality(Before(q, r)) >= n =>
                    Cardinality(Before(q, r)) >= n + m /\ Cardinality(rows) = m
    <2>1. \A s \in all \ {r} : s.createdAt # r.createdAt
        BY <1>1, <1>6 DEF Tied
    <2>2. PICK b : b = Cardinality(Before(q, r)) /\ b = Cardinality({s \in all : Precedes(q, s, r)})
        BY <1>1 DEF Before
    <2>3. b \in Nat /\ (r \in from <=> b < n) /\ (r \in upto <=> b < n + m)
        BY <1>2, <1>3, <1>4, <2>1, <2>2, Ranks
    <2>4. r \notin upto => Cardinality(rows) = m
        <3>1. r \notin upto => upto # all
            BY <1>6
        <3>2. IsFiniteSet(all) /\ n \in Nat /\ m \in Nat
              /\ from \in Firsts(q, all, n) /\ upto \in Firsts(q, all, n + m)
            BY <1>2, <1>3, <1>4
        <3>3. FullUnlessLast(all, from, upto, m)
            BY <3>2, FullPage, Zenon
        <3>4. QED
            BY <1>4, <3>1, <3>3 DEF FullUnlessLast
    <2>5. QED
        BY <1>2, <1>4, <2>2, <2>3, <2>4
<1>7. QED
    BY <1>1, <1>2, <1>5, <1>6

(* The other party: the wallet of the one other row of the job, if there   *)
(* is one.                                                                 *)
OtherIs(s) ==
    /\ s.row \in Rows /\ s.other \in Wallets \union {NoWallet}
    /\ query.by = "user" => {s.other} \ {NoWallet} = Parties(s.row.job) \ {s.row.wallet}

LEMMA ShownIs ==
    ASSUME PostingsInv, NEW r \in Rows
    PROVE  Shown(query, r).row = r /\ OtherIs(Shown(query, r))
<1>1. PICK s : s = Shown(query, r)
    OBVIOUS
<1>2. PICK j, t : /\ j \in Committed /\ t \in Types(j) /\ r.job = j
                  /\ r.wallet = WalletOf(j, t) /\ r.wallet \in Wallets
    BY RowsAre
<1>3. j \in Jobs /\ Types(j) \subseteq {"DEBIT", "CREDIT"} /\ \A u \in Types(j) : WalletOf(j, u) \in Wallets
    BY <1>2, LogIs, TypesOf DEF PostingsInv, PostingsTypeOK
<1>4. PICK others : others = Related(r)
    OBVIOUS
<1>5. /\ others \subseteq Rows
      /\ \A x \in others : x.job = j /\ x.wallet # r.wallet
      /\ \A x \in Rows : x.job = j /\ x.wallet # r.wallet => x \in others
    BY <1>2, <1>4 DEF Related
<1>6. \A x \in others : \E u \in Types(j) : x.wallet = WalletOf(j, u)
    BY <1>2, <1>5, RowsAre
<1>7. ASSUME NEW u \in Types(j), WalletOf(j, u) # r.wallet
      PROVE  others # {}
    <2>1. Row(j, u) \in Rows
        BY <1>2 DEF Rows
    <2>2. Row(j, u).job = j /\ Row(j, u).wallet = WalletOf(j, u)
        BY DEF Row
    <2>3. QED
        BY <1>5, <1>7, <2>1, <2>2
<1>8. \A u, v \in Types(j) : WalletOf(j, u) # r.wallet /\ WalletOf(j, v) # r.wallet => u = v
    BY <1>2, <1>3
<1>9. s.row = r /\ s.other = IF query.by = "admin" \/ others = {} THEN NoWallet
                              ELSE (CHOOSE x \in others : TRUE).wallet
    BY <1>1, <1>4 DEF Shown
<1>10. CASE query.by = "admin" \/ others = {}
    <2>1. s.other = NoWallet
        BY <1>9, <1>10
    <2>2. ASSUME query.by = "user" PROVE {s.other} \ {NoWallet} = Parties(r.job) \ {r.wallet}
        <3>1. \A u \in Types(j) : WalletOf(j, u) = r.wallet
            BY <1>7, <1>10, <2>2
        <3>2. \A p \in Parties(j) : p = r.wallet
            BY <1>2, <1>3, <3>1, TypesOf DEF Parties
        <3>3. QED
            BY <1>2, <2>1, <3>2
    <2>3. QED
        BY <1>1, <1>9, <2>1, <2>2 DEF OtherIs
<1>11. CASE ~(query.by = "admin" \/ others = {})
    <2>1. PICK x \in others : x = (CHOOSE y \in others : TRUE)
        BY <1>11
    <2>2. s.other = x.wallet /\ x.wallet # r.wallet
        BY <1>5, <1>9, <1>11, <2>1
    <2>3. PICK u \in Types(j) : x.wallet = WalletOf(j, u)
        BY <1>6
    <2>4. x.wallet \in Wallets /\ x.wallet # NoWallet
        BY <1>3, <2>3, NoWalletAssumption
    <2>5. Parties(j) = {WalletOf(j, v) : v \in Types(j)}
        BY <1>2, <1>3, TypesOf DEF Parties
    <2>6. Parties(j) \ {r.wallet} = {x.wallet}
        BY <1>8, <2>2, <2>3, <2>5
    <2>7. QED
        BY <1>1, <1>2, <1>9, <2>2, <2>4, <2>6 DEF OtherIs
<1>12. QED
    BY <1>10, <1>11

(* A query selects more and more rows.                                     *)
LEMMA MatchingGrows ==
    ASSUME Rows \subseteq Rows', NEW q
    PROVE  /\ Matching(q) \subseteq Matching(q)'
           /\ \A r \in Matching(q)' : r \in Rows => r \in Matching(q)
           /\ \A r : Before(q, r) \subseteq Before(q, r)' /\ (Tied(q, r) => Tied(q, r)')
           /\ \A r, s : Precedes(q, s, r)' = Precedes(q, s, r)
<1>1. \A r : Selects(q, r)' = Selects(q, r)
    BY DEF Selects
<1>2. \A r, s : Precedes(q, s, r)' = Precedes(q, s, r)
    BY DEF Precedes
<1>3. Matching(q) = {r \in Rows : Selects(q, r)} /\ Matching(q)' = {r \in Rows' : Selects(q, r)}
    <2>1. Matching(q)' = {r \in Rows' : Selects(q, r)'}
        BY DEF Matching, findTransactions, getTransactions, Selects
    <2>2. QED
        BY <1>1, <2>1, MatchingIs
<1>4. QED
    BY <1>1, <1>2, <1>3 DEF Before, Tied

(* What one more page asks of the rows, and what is read so far: those     *)
(* known and not shown are still to come, and those shown are behind.      *)
Ahead(q, p, r) == ~finished /\ Cardinality(Before(q, r)) >= Offset(p)
Behind(q, p, r) ==
    \/ Cardinality(Before(q, r)) < Offset(p)
    \/ \E s \in Matching(q) \ known : Precedes(q, s, r)

(* Postings go on while a history is read.                                 *)
LEMMA PostingWhileReading ==
    ASSUME PostingsInv, PostingsInv', [Next]_vars, UNCHANGED reading, ReadingInv, PagesAreHistory
    PROVE  ReadingInv' /\ PagesAreHistory'
<1>1. PICK q, p : q = query /\ p = page
    OBVIOUS
<1>2. query' = q /\ page' = p /\ UNCHANGED <<got, repeated, known, finished>>
    BY <1>1 DEF reading
<1>3. /\ IsFiniteSet(Rows) /\ IsFiniteSet(Rows') /\ Rows \subseteq Rows'
      /\ p \in Nat \ {0} /\ mix' = mix
    BY <1>1, RowsGrow, Growth DEF ReadingInv
<1>4. /\ Matching(q) \subseteq Matching(q)'
      /\ \A r \in Matching(q)' : r \in Rows => r \in Matching(q)
      /\ \A r : Before(q, r) \subseteq Before(q, r)' /\ (Tied(q, r) => Tied(q, r)')
      /\ \A r, s : Precedes(q, s, r)' = Precedes(q, s, r)
    BY <1>3, MatchingGrows
<1>5. /\ \A s \in got : s.row \in Rows
      /\ repeated \subseteq {s.row : s \in got}
      /\ q # NoQuery => known \subseteq Matching(q)
      /\ q # NoQuery => \A r \in Matching(q) : ~Tied(q, r) =>
             /\ r \in known /\ ~Shows(r) => Ahead(q, p, r)
             /\ Shows(r) => Behind(q, p, r)
    BY <1>1 DEF ReadingInv, Ahead, Behind
<1>6. \A r : Shows(r)' = Shows(r)
    BY <1>2 DEF Shows
<1>7. Offset(p)' = Offset(p) /\ Offset(p) \in Nat
    BY <1>3, OffsetIs DEF Offset
<1>8. ASSUME q # NoQuery, NEW r \in Matching(q)', ~Tied(q, r)', r \in Rows
      PROVE  /\ r \in known /\ ~Shows(r) => Ahead(q, p, r)'
             /\ Shows(r) => Behind(q, p, r)'
    <2>1. r \in Matching(q) /\ ~Tied(q, r)
        BY <1>4, <1>8
    <2>2. IsFiniteSet(Matching(q)')
        <3>1. PostingsInv' /\ IsFiniteSet(Rows)' => IsFiniteSet(Matching(q))'
            <4>1. Matching(q)' \subseteq Rows'
                BY DEF Matching, findTransactions, getTransactions
            <4>2. QED
                BY <1>3, <4>1, FS_Subset
        <3>2. QED
            BY <1>3, <3>1
    <2>3. IsFiniteSet(Before(q, r)') /\ Before(q, r) \in SUBSET Before(q, r)'
        <3>1. Before(q, r)' \subseteq Matching(q)'
            BY DEF Before
        <3>2. QED
            BY <1>4, <2>2, <3>1, FS_Subset
    <2>4. PICK b, c : b = Cardinality(Before(q, r)) /\ c = Cardinality(Before(q, r)')
        OBVIOUS
    <2>5. b \in Nat /\ c \in Nat /\ b <= c /\ (c = b => Before(q, r)' = Before(q, r))
        BY <2>3, <2>4, FS_CardinalityType, FS_Subset
    <2>6. Cardinality(Before(q, r))' = c
        BY <2>4
    <2>7. ASSUME Ahead(q, p, r) PROVE Ahead(q, p, r)'
        BY <1>2, <1>7, <2>4, <2>5, <2>6, <2>7 DEF Ahead
    <2>8. ASSUME Behind(q, p, r) PROVE Behind(q, p, r)'
        <3>1. CASE \E s \in Matching(q) \ known : Precedes(q, s, r)
            BY <1>2, <1>4, <3>1 DEF Behind
        <3>2. CASE b < Offset(p) /\ c = b
            BY <1>7, <2>6, <3>2 DEF Behind
        <3>3. CASE c # b
            <4>1. PICK s \in Before(q, r)' : s \notin Before(q, r)
                BY <2>3, <2>4, <3>3
            <4>2. s \in Matching(q)' /\ Precedes(q, s, r)
                BY <1>4 DEF Before
            <4>3. s \notin Matching(q)
                BY <4>1, <4>2 DEF Before
            <4>4. s \notin known
                BY <1>5, <1>8, <4>3
            <4>5. QED
                BY <1>2, <1>4, <4>2, <4>4 DEF Behind
        <3>4. QED
            BY <2>4, <2>8, <3>1, <3>2, <3>3 DEF Behind
    <2>9. QED
        BY <1>5, <1>8, <2>1, <2>7, <2>8
<1>9. ASSUME q # NoQuery, NEW r \in Matching(q)', ~Tied(q, r)'
      PROVE  /\ r \in known /\ ~Shows(r) => Ahead(q, p, r)'
             /\ Shows(r) => Behind(q, p, r)'
    <2>1. r \notin Rows => r \notin known /\ ~Shows(r)
        BY <1>5, <1>9, MatchingIs DEF Shows
    <2>2. QED
        BY <1>8, <1>9, <2>1
<1>10. ReadingInv'
    <2>1. /\ query' \in mix'.queries \union {NoQuery}
          /\ page' \in Nat \ {0} /\ finished' \in BOOLEAN
          /\ query' = NoQuery => page' = 1 /\ known' = {} /\ got' = {} /\ repeated' = {} /\ ~finished'
          /\ query' # NoQuery => known' \subseteq Matching(q)'
          /\ repeated' \subseteq {s.row : s \in got'}
          /\ \A s \in got' : s.row \in Rows' /\ s.other \in Wallets \union {NoWallet}
        BY <1>1, <1>2, <1>3, <1>4 DEF ReadingInv
    <2>2. /\ Matching(query)' = Matching(q)'
          /\ \A r : Before(query, r)' = Before(q, r)'
          /\ \A r : Tied(query, r)' = Tied(q, r)'
          /\ \A r, s : Precedes(query, s, r)' = Precedes(q, s, r)'
          /\ Offset(page)' = Offset(p)'
        BY <1>2 DEF Matching, findTransactions, getTransactions, Before, Tied, Precedes, Offset
    <2>3. query' # NoQuery => \A r \in Matching(q)' : ~Tied(q, r)' =>
             /\ r \in known' /\ ~Shows(r)' =>
                    ~finished' /\ Cardinality(Before(q, r)') >= Offset(p)'
             /\ Shows(r)' => \/ Cardinality(Before(q, r)') < Offset(p)'
                             \/ \E s \in Matching(q)' \ known' : Precedes(q, s, r)'
        BY <1>2, <1>6, <1>9 DEF Ahead, Behind
    <2>4. QED
        BY <1>3, <2>1, <2>2, <2>3 DEF ReadingInv
<1>11. PagesAreHistory'
    <2>1. /\ \A s \in got : q.by = "user" =>
                 {s.other} \ {NoWallet} = Parties(s.row.job) \ {s.row.wallet}
          /\ \A r \in repeated : Tied(q, r) \/ \E s \in Matching(q) \ known : Precedes(q, s, r)
          /\ finished => \A r \in known : Tied(q, r) \/ \E s \in got : s.row = r
        BY <1>1 DEF PagesAreHistory
    <2>2. /\ Matching(query)' = Matching(q)'
          /\ \A r : Tied(query, r)' = Tied(q, r)'
          /\ \A r, s : Precedes(query, s, r)' = Precedes(q, s, r)'
        BY <1>2 DEF Matching, findTransactions, getTransactions, Tied, Precedes
    <2>3. \A j : Parties(j)' = Parties(j)
        BY DEF Parties, Types, WalletOf
    <2>4. /\ \A r \in repeated' : Tied(q, r)' \/ \E s \in Matching(q)' \ known' : Precedes(q, s, r)'
          /\ finished' => \A r \in known' : Tied(q, r)' \/ \E s \in got' : s.row = r
          /\ \A s \in got' : query'.by = "user" =>
                 {s.other} \ {NoWallet} = Parties(s.row.job)' \ {s.row.wallet}
        BY <1>2, <1>4, <2>1, <2>3
    <2>5. QED
        BY <2>2, <2>4 DEF PagesAreHistory
<1>12. QED
    BY <1>10, <1>11

(* Between two pages the rows are the same.                                *)
LEMMA SameRows ==
    ASSUME UNCHANGED postings, NEW q
    PROVE  /\ Rows' = Rows /\ Matching(q)' = Matching(q)
           /\ \A r : Before(q, r)' = Before(q, r) /\ Tied(q, r)' = Tied(q, r)
           /\ \A r, s : Precedes(q, s, r)' = Precedes(q, s, r)
<1>1. Committed' = Committed /\ createdAt' = createdAt
    BY SameLog DEF postings
<1>2. Rows' = Rows
    BY <1>1 DEF Rows, Row, Types, WalletOf
<1>3. Matching(q)' = Matching(q)
    BY <1>2 DEF Matching, findTransactions, getTransactions
<1>4. \A r, s : Precedes(q, s, r)' = Precedes(q, s, r)
    BY DEF Precedes
<1>5. QED
    BY <1>2, <1>3, <1>4 DEF Before, Tied

(* The state of a reading, whose query is q.                               *)
ReadingOf(q) ==
    /\ q \in mix.queries /\ page \in Nat \ {0} /\ finished \in BOOLEAN
    /\ known \subseteq Matching(q)
    /\ repeated \subseteq {s.row : s \in got}
    /\ \A s \in got : OtherIs(s)
    /\ \A r \in Matching(q) : ~Tied(q, r) =>
           /\ r \in known /\ ~Shows(r) => Ahead(q, page, r)
           /\ Shows(r) => Behind(q, page, r)
    /\ \A r \in repeated : Tied(q, r) \/ \E s \in Matching(q) \ known : Precedes(q, s, r)

(* What is read, as far as there is a query, is such a reading.            *)
ReadingIs ==
    \A q : query = q /\ q # NoQuery /\ IsFiniteSet(Rows) =>
        (ReadingInv /\ PagesAreHistory <=> ReadingOf(q))

(* The invariant and the property of the pages say no more and no less.    *)
LEMMA ReadingOfIs == ReadingIs
<1> SUFFICES ASSUME NEW q, query = q, q # NoQuery, IsFiniteSet(Rows)
             PROVE  ReadingInv /\ PagesAreHistory <=> ReadingOf(q)
    BY DEF ReadingIs
<1>1. ASSUME ReadingInv, PagesAreHistory PROVE ReadingOf(q)
    <2>1. /\ q \in mix.queries /\ page \in Nat \ {0} /\ finished \in BOOLEAN
          /\ known \subseteq Matching(q) /\ repeated \subseteq {s.row : s \in got}
        BY <1>1 DEF ReadingInv
    <2>2. \A s \in got : OtherIs(s)
        BY <1>1 DEF ReadingInv, PagesAreHistory, OtherIs
    <2>3. \A r \in Matching(q) : ~Tied(q, r) =>
              /\ r \in known /\ ~Shows(r) => Ahead(q, page, r)
              /\ Shows(r) => Behind(q, page, r)
        BY <1>1 DEF ReadingInv, Ahead, Behind
    <2>4. \A r \in repeated : Tied(q, r) \/ \E s \in Matching(q) \ known : Precedes(q, s, r)
        BY <1>1 DEF PagesAreHistory
    <2>5. QED
        BY <2>1, <2>2, <2>3, <2>4 DEF ReadingOf
<1>2. ASSUME ReadingOf(q) PROVE ReadingInv /\ PagesAreHistory
    <2>1. ReadingInv
        BY <1>2 DEF ReadingInv, ReadingOf, Ahead, Behind, OtherIs
    <2>2. PagesAreHistory
        <3>1. \A s \in got : q.by = "user" =>
                  {s.other} \ {NoWallet} = Parties(s.row.job) \ {s.row.wallet}
            BY <1>2 DEF ReadingOf, OtherIs
        <3>2. \A r \in repeated : Tied(q, r) \/ \E s \in Matching(q) \ known : Precedes(q, s, r)
            BY <1>2 DEF ReadingOf
        <3>3. finished => \A r \in known : Tied(q, r) \/ \E s \in got : s.row = r
            BY <1>2 DEF ReadingOf, Ahead, Shows
        <3>4. QED
            BY <3>1, <3>2, <3>3 DEF PagesAreHistory
    <2>3. QED
        BY <2>1, <2>2
<1>3. QED
    BY <1>1, <1>2

(* So do they after a step.                                                *)
LEMMA ReadingOfNext == ReadingIs'
BY ReadingOfIs, PTL

(* A reading begins: all that is known is still to come.                   *)
LEMMA BeginReading ==
    ASSUME PostingsInv, UNCHANGED postings, ReadingInv, NEW q \in mix.queries, StartReading(q)
    PROVE  ReadingInv' /\ PagesAreHistory'
<1>1. /\ query = NoQuery /\ query' = q /\ known' = Matching(q)
      /\ UNCHANGED <<page, got, repeated, finished>>
    BY DEF StartReading
<1>2. /\ page = 1 /\ got = {} /\ repeated = {} /\ ~finished /\ IsFiniteSet(Rows)
      /\ page \in Nat \ {0} /\ finished \in BOOLEAN
    BY <1>1 DEF ReadingInv
<1>3. q # NoQuery /\ mix' = mix
    BY QueriesAssumption DEF PostingsInv, PostingsTypeOK, postings
<1>4. /\ Rows' = Rows /\ Matching(q)' = Matching(q)
      /\ \A r : Before(q, r)' = Before(q, r) /\ Tied(q, r)' = Tied(q, r)
    BY SameRows
<1>5. \A r \in Matching(q) : Ahead(q, page, r)' /\ ~Shows(r)'
    <2> SUFFICES ASSUME NEW r \in Matching(q) PROVE Ahead(q, page, r)' /\ ~Shows(r)'
        OBVIOUS
    <2>1. Before(q, r) \subseteq Matching(q) /\ IsFiniteSet(Matching(q))
        BY <1>2, MatchingTimes DEF Before
    <2>2. Cardinality(Before(q, r)) \in Nat
        BY <2>1, FS_Subset, FS_CardinalityType
    <2>3. Offset(1) = 0
        BY OffsetIs
    <2>4. Offset(page)' = 0 /\ Cardinality(Before(q, r))' = Cardinality(Before(q, r))
        BY <1>1, <1>2, <1>4, <2>3 DEF Offset
    <2>5. QED
        BY <1>1, <1>2, <2>2, <2>4 DEF Ahead, Shows
<1>6. ReadingOf(q)'
    BY <1>1, <1>2, <1>3, <1>4, <1>5 DEF ReadingOf
<1>7. QED
    <2>1. query' = q /\ q # NoQuery /\ IsFiniteSet(Rows')
        BY <1>1, <1>2, <1>3, <1>4
    <2>2. QED
        BY <1>6, <2>1, ReadingOfNext DEF ReadingIs

(* A page is read: what has its place there is shown, all else is still to *)
(* come or is behind.                                                      *)
LEMMA ReadOn ==
    ASSUME PostingsInv, UNCHANGED postings, ReadingInv, PagesAreHistory, ReadPage
    PROVE  ReadingInv' /\ PagesAreHistory'
<1>1. PICK q, p : q = query /\ p = page
    OBVIOUS
<1>2. PICK rows \in Pages(q, p) :
          /\ got' = got \union {Shown(q, r) : r \in rows}
          /\ repeated' = repeated \union {r \in rows : \E s \in got : s.row = r}
          /\ finished' = (Cardinality(rows) < Limit)
    BY <1>1 DEF ReadPage
<1>3. q # NoQuery /\ ~finished /\ page' = p + 1 /\ query' = q /\ known' = known
    BY <1>1 DEF ReadPage
<1>4. p \in Nat \ {0} /\ IsFiniteSet(Rows) /\ mix' = mix
    BY <1>1 DEF ReadingInv, postings
<1>5. ReadingOf(q)
    BY <1>1, <1>3, <1>4, ReadingOfIs DEF ReadingIs
<1>6. /\ Rows' = Rows /\ Matching(q)' = Matching(q)
      /\ \A r : Before(q, r)' = Before(q, r) /\ Tied(q, r)' = Tied(q, r)
      /\ \A r, s : Precedes(q, s, r)' = Precedes(q, s, r)
    BY SameRows
<1>7. /\ rows \subseteq Matching(q)
      /\ \A r \in Matching(q) : ~Tied(q, r) =>
             /\ Cardinality(Before(q, r)) \in Nat
             /\ r \in rows => /\ Cardinality(Before(q, r)) >= Offset(p)
                              /\ Cardinality(Before(q, r)) < Offset(p + 1)
             /\ r \notin rows /\ Cardinality(Before(q, r)) >= Offset(p) =>
                    /\ Cardinality(Before(q, r)) >= Offset(p + 1)
                    /\ Cardinality(rows) = Limit
    BY <1>4, OnPage
<1>8. PICK a, b, l : /\ a = Offset(p) /\ b = Offset(p + 1) /\ l = Limit
                     /\ a \in Nat /\ b \in Nat /\ l \in Nat /\ a <= b
    BY <1>4, OffsetIs
<1>9. Offset(page)' = b
    BY <1>3, <1>8 DEF Offset
<1>10. \A r \in rows : Shown(q, r).row = r /\ OtherIs(Shown(q, r))
    <2>1. \A r \in rows : r \in Rows
        BY <1>7, MatchingIs
    <2>2. QED
        BY <1>1, <2>1, ShownIs
<1>11. \A r : Shows(r)' <=> Shows(r) \/ r \in rows
    BY <1>2, <1>10 DEF Shows
<1>12. \A s : OtherIs(s)' = OtherIs(s)
    BY <1>1, <1>3, <1>6 DEF OtherIs, Parties, Types, WalletOf
<1>13. \A s \in got' : OtherIs(s)'
    BY <1>2, <1>5, <1>10, <1>12 DEF ReadingOf
<1>14. ASSUME NEW r \in Matching(q), ~Tied(q, r)
       PROVE  /\ r \in known /\ ~Shows(r)' => Ahead(q, page, r)'
              /\ Shows(r)' => Behind(q, page, r)'
    <2>1. PICK c : c = Cardinality(Before(q, r)) /\ c = Cardinality(Before(q, r))'
        BY <1>6
    <2>2. /\ c \in Nat /\ (r \in rows => c >= a /\ c < b)
          /\ r \notin rows /\ c >= a => c >= b /\ Cardinality(rows) = l
        BY <1>7, <1>8, <1>14, <2>1
    <2>3. ASSUME r \in known, ~Shows(r)' PROVE Ahead(q, page, r)'
        <3>1. r \notin rows /\ ~Shows(r)
            BY <1>11, <2>3
        <3>2. c >= a
            BY <1>1, <1>5, <1>8, <1>14, <2>1, <2>3, <3>1 DEF ReadingOf, Ahead
        <3>3. c >= b /\ Cardinality(rows) = l
            BY <2>2, <3>1, <3>2
        <3>4. ~finished'
            <4>1. ~(l < l)
                BY <1>8
            <4>2. ~(Cardinality(rows) < Limit)
                BY <1>8, <3>3, <4>1
            <4>3. finished' = (Cardinality(rows) < Limit)
                BY <1>2
            <4>4. QED
                BY <4>2, <4>3, Zenon
        <3>5. QED
            BY <1>9, <2>1, <3>3, <3>4 DEF Ahead
    <2>4. ASSUME Shows(r)' PROVE Behind(q, page, r)'
        <3>1. CASE r \in rows
            BY <1>9, <2>1, <2>2, <3>1 DEF Behind
        <3>2. CASE Shows(r)
            <4>1. Behind(q, p, r)
                BY <1>1, <1>5, <1>14, <3>2 DEF ReadingOf
            <4>2. c < a \/ \E s \in Matching(q) \ known : Precedes(q, s, r)
                BY <1>8, <2>1, <4>1 DEF Behind
            <4>3. CASE c < a
                <5>1. c < b
                    BY <1>8, <2>2, <4>3
                <5>2. QED
                    BY <1>9, <2>1, <5>1 DEF Behind
            <4>4. CASE \E s \in Matching(q) \ known : Precedes(q, s, r)
                BY <1>3, <1>6, <4>4 DEF Behind
            <4>5. QED
                BY <4>2, <4>3, <4>4
        <3>3. QED
            BY <1>11, <2>4, <3>1, <3>2
    <2>5. QED
        BY <2>3, <2>4
<1>15. ASSUME NEW r \in repeated', ~Tied(q, r)
       PROVE  \E s \in Matching(q) \ known : Precedes(q, s, r)
    <2>1. CASE r \in repeated
        BY <1>5, <1>15, <2>1 DEF ReadingOf
    <2>2. CASE r \in rows /\ Shows(r)
        <3>1. PICK c : c = Cardinality(Before(q, r))
            OBVIOUS
        <3>2. c >= a /\ c \in Nat
            BY <1>7, <1>8, <1>15, <2>2, <3>1
        <3>3. Behind(q, p, r)
            BY <1>1, <1>5, <1>7, <1>15, <2>2 DEF ReadingOf
        <3>4. QED
            BY <1>8, <3>1, <3>2, <3>3 DEF Behind
    <2>3. QED
        BY <1>2, <1>15, <2>1, <2>2 DEF Shows
<1>16. repeated' \subseteq {s.row : s \in got'}
    BY <1>2, <1>5 DEF ReadingOf
<1>17. ReadingOf(q)'
    <2>1. q \in mix'.queries /\ page' \in Nat \ {0} /\ finished' \in BOOLEAN
          /\ known' \subseteq Matching(q)'
        BY <1>2, <1>3, <1>4, <1>5, <1>6 DEF ReadingOf
    <2>2. QED
        BY <1>3, <1>6, <1>13, <1>14, <1>15, <1>16, <2>1 DEF ReadingOf
<1>18. QED
    <2>1. query' = q /\ q # NoQuery /\ IsFiniteSet(Rows')
        BY <1>3, <1>4, <1>6
    <2>2. QED
        BY <1>17, <2>1, ReadingOfNext DEF ReadingIs

-----------------------------------------------------------------------------
(* The theorems.                                                           *)

(* Nothing was posted, told or read at first.                              *)
LEMMA InitInv == Init => Inv
<1> SUFFICES ASSUME PostingsInit, NotifyInit, HistoryInit PROVE Inv
    BY DEF Init
<1>1. PostingsInv
    BY PostingsInitInv
<1>2. Committed = {} /\ Rows = {}
    BY DEF PostingsInit, Committed, ToSet, Rows
<1>3. Apart /\ MailsAreTrue /\ PagesAreHistory
    BY <1>2 DEF PostingsInit, Apart, NotifyInit, MailsAreTrue, HistoryInit, PagesAreHistory
<1>4. NoticesInv
    <2>1. \A j \in Jobs : Len(Steps(j)) \in Nat
        BY StepsInOrder DEF StepsFollow
    <2>2. QED
        BY <2>1 DEF NotifyInit, NoticesInv
<1>5. ReadingInv
    <2>1. /\ query = NoQuery /\ page = 1 /\ got = {} /\ repeated = {} /\ known = {}
          /\ finished = FALSE
        BY DEF HistoryInit
    <2>2. finished \in BOOLEAN /\ ~finished
        BY <2>1
    <2>3. IsFiniteSet(Rows)
        BY <1>2, FS_EmptySet
    <2>4. QED
        BY <2>1, <2>2, <2>3 DEF ReadingInv
<1>6. QED
    BY <1>1, <1>3, <1>4, <1>5 DEF Inv

(* Every step keeps the invariant.                                         *)
LEMMA InvPreserved == Inv /\ [Next]_vars => Inv'
<1> SUFFICES ASSUME Inv, [Next]_vars PROVE Inv'
    OBVIOUS
<1>1. PostingsInv /\ Apart /\ NoticesInv /\ MailsAreTrue /\ ReadingInv /\ PagesAreHistory
    BY DEF Inv
<1>2. PostingsInv'
    BY <1>1, PostingsPreserved
<1>3. Apart' /\ NoticesInv' /\ MailsAreTrue'
    BY <1>1, ApartPreserved, NoticesPreserved
<1>4. CASE UNCHANGED reading
    <2>1. ReadingInv' /\ PagesAreHistory'
        BY <1>1, <1>2, <1>4, PostingWhileReading
    <2>2. QED
        BY <1>2, <1>3, <2>1 DEF Inv
<1>5. CASE Read /\ UNCHANGED <<postings, notices>>
    <2>1. ASSUME NEW q \in mix.queries, StartReading(q) PROVE ReadingInv' /\ PagesAreHistory'
        BY <1>1, <1>5, <2>1, BeginReading
    <2>2. ASSUME ReadPage PROVE ReadingInv' /\ PagesAreHistory'
        BY <1>1, <1>5, <2>2, ReadOn
    <2>3. ReadingInv' /\ PagesAreHistory'
        BY <1>5, <2>1, <2>2 DEF Read
    <2>4. QED
        BY <1>2, <1>3, <2>3 DEF Inv
<1>6. QED
    BY <1>4, <1>5 DEF Next, vars, Crash

(* The invariant holds throughout.                                         *)
THEOREM Invariance == Spec => []Inv
BY InitInv, InvPreserved, PTL DEF Spec

(* Clocks, rows, emails, what was read for them and what was shown are of  *)
(* their types.                                                            *)
THEOREM TypeSafe == Spec => []TypeOK
<1>1. Inv => TypeOK
    <2> SUFFICES ASSUME Inv PROVE TypeOK
        OBVIOUS
    <2>1. PostingsTypeOK
        BY DEF Inv, PostingsInv
    <2>2. NotifyTypeOK
        <3>1. Committed \subseteq Jobs
            BY <2>1, LogIs DEF PostingsTypeOK
        <3>2. QED
            BY <3>1 DEF Inv, NoticesInv, NotifyTypeOK
    <2>3. HistoryTypeOK
        <3>1. known \subseteq Rows
            BY MatchingIs DEF Inv, ReadingInv
        <3>2. QED
            BY <3>1 DEF Inv, ReadingInv, HistoryTypeOK
    <2>4. QED
        BY <2>1, <2>2, <2>3 DEF TypeOK
<1>2. QED
    BY <1>1, Invariance, PTL

(* Whatever postings, crashes, lost answers and lost emails there are, an  *)
(* email tells of a committed job, its amount and its sign, names the      *)
(* right parties and row, and gives a balance that the wallet had since.   *)
THEOREM EmailsAreTrue == Spec => []MailsAreTrue
<1>1. Inv => MailsAreTrue
    BY DEF Inv
<1>2. QED
    BY <1>1, Invariance, PTL

(* Once every job has ended and no email was lost, whoever's money moved   *)
(* has been told the balance that is left.                                 *)
THEOREM LastBalanceIsTold == Spec => []LastIsTold
<1>1. Inv => LastIsTold
    BY QuietTells DEF Inv
<1>2. QED
    BY <1>1, Invariance, PTL

(* Whatever is posted between two pages, a reader misses no row that was   *)
(* there at the start, sees one twice only if another came in before it,   *)
(* and sees the right other party.                                         *)
THEOREM PagesMissNothing == Spec => []PagesAreHistory
<1>1. Inv => PagesAreHistory
    BY DEF Inv
<1>2. QED
    BY <1>1, Invariance, PTL
=============================================================================
