--------------------------- MODULE CashoutProofs ---------------------------
(***************************************************************************)
(* Proofs about Cashout, for any number of users, cashouts, handlers and   *)
(* deliveries, any faults and any other postings.  Inv is the inductive    *)
(* invariant: what a call has done so far bounds what Paystack can know,   *)
(* and a handler works only on what Paystack has settled for good.         *)
(***************************************************************************)
EXTENDS Cashout, TLAPS

Settled == {"paid", "refused"}

(* Paystack knows of nothing that was not recorded; what it reports it has *)
(* settled.                                                                *)
PayoutInv ==
    /\ DOMAIN tries = Cashouts
    /\ \A c \in Cashouts :
           /\ call[c] \in {"start", "save", "payout"} => paystack[c] = "unknown"
           /\ call[c] \in {"payout", "reference"} => intent[c] # "none"
           /\ paystack[c] # "unknown" => intent[c] # "none" /\ Payable(Amount[c])
           /\ c \in due => paystack[c] \in Settled

(* A handler that is not idle works on the report of a settled payout, and *)
(* one that debits on that of a payout that was made.                      *)
BusyInv ==
    \A h \in Handlers :
        /\ pc[h] # "idle" =>
               /\ event[h] \in Delivery
               /\ event[h].try <= tries[About(h)]
               /\ paystack[About(h)] \in Settled
        /\ pc[h] = "debit" => payer[h] \in Users /\ paystack[About(h)] = "paid"

(* The outcome was saved before the debit, where the intent was found.     *)
OutcomeInv ==
    \A h \in Handlers :
        pc[h] \in {"user", "debit"} /\ paystack[About(h)] = "paid"
            /\ About(h) \notin early => intent[About(h)] = "COMPLETED"

(* No two runs of the handler have one key, nor has a row the key of a run *)
(* that has not inserted it.                                               *)
KeyInv ==
    /\ \A e \in book : e.key \in Delivery => e.key.try <= tries[e.key.cashout]
    /\ \A h \in Handlers :
           /\ pc[h] # "idle" =>
                  \A g \in Handlers \ {h} : pc[g] # "idle" => event[g] # event[h]
           /\ pc[h] \in BeforeDebit => \A e \in book : e.key # event[h]

(* A handler that will answer 200 to the report of a payout that was made  *)
(* has seen its debit, and nothing else ends the reports.                  *)
DueInv ==
    /\ \A h \in Handlers :
           /\ pc[h] = "emailFailed" => paystack[About(h)] = "refused"
           /\ pc[h] \in {"email", "ok"} /\ paystack[About(h)] = "paid" => Debited(About(h))
    /\ PaidIsDebitedOrDue

Inv ==
    /\ TypeOK
    /\ PayoutInv
    /\ BusyInv
    /\ OutcomeInv
    /\ KeyInv
    /\ DueInv
    /\ RecordsTellOutcome
    /\ DebitedIsCompletedUnlessEarly

-----------------------------------------------------------------------------

(* A delivery is one of the tries of a cashout.                            *)
LEMMA DeliveryTyped ==
    /\ \A d \in Delivery :
           /\ d.cashout \in Cashouts /\ d.try \in Nat
           /\ d.try \in 1..MaxTries[d.cashout]
           /\ d = [cashout |-> d.cashout, try |-> d.try]
    /\ \A c \in Cashouts : \A n \in 1..MaxTries[c] :
           [cashout |-> c, try |-> n] \in Delivery
<1>1. ASSUME NEW d \in Delivery
      PROVE  /\ d.cashout \in Cashouts /\ d.try \in Nat
             /\ d.try \in 1..MaxTries[d.cashout]
             /\ d = [cashout |-> d.cashout, try |-> d.try]
    <2>1. PICK c \in Cashouts : d \in [cashout: {c}, try: 1..MaxTries[c]]
        BY DEF Delivery
    <2>2. MaxTries[c] \in Nat
        BY MaxTriesAssumption
    <2>3. QED
        BY <2>1, <2>2
<1>2. ASSUME NEW c \in Cashouts, NEW n \in 1..MaxTries[c]
      PROVE  [cashout |-> c, try |-> n] \in Delivery
    <2>1. [cashout |-> c, try |-> n] \in [cashout: {c}, try: 1..MaxTries[c]]
        OBVIOUS
    <2>2. QED
        BY <2>1 DEF Delivery
<1>3. QED
    BY <1>1, <1>2

(* The initial states satisfy the invariant.                               *)
LEMMA InitInv == Init => Inv
<1> SUFFICES ASSUME Init PROVE Inv
    OBVIOUS
<1> USE DEF Init
<1>1. TypeOK
    BY OpeningAssumption, MaxTriesAssumption DEF TypeOK
<1>2. PayoutInv /\ BusyInv /\ OutcomeInv /\ KeyInv /\ DueInv
    BY DEF PayoutInv, BusyInv, OutcomeInv, KeyInv, DueInv, PaidIsDebitedOrDue, BeforeDebit
<1>3. RecordsTellOutcome /\ DebitedIsCompletedUnlessEarly
    BY DEF RecordsTellOutcome, DebitedIsCompletedUnlessEarly, Debited, Debits
<1>4. QED
    BY <1>1, <1>2, <1>3 DEF Inv

(* What a busy handler works on has its type.                              *)
LEMMA BusyTyped ==
    ASSUME Inv, NEW h \in Handlers, pc[h] # "idle"
    PROVE  event[h] \in Delivery /\ About(h) \in Cashouts
BY DeliveryTyped DEF Inv, BusyInv, About

-----------------------------------------------------------------------------
(* Every action keeps the types.                                           *)

LEMMA CallTyped ==
    ASSUME TypeOK, NEW c \in Cashouts, Call(c) \/ SaveFails(c) \/ Settle(c)
    PROVE  TypeOK'
<1> USE DEF TypeOK, tables, handler, history, externals, At, Calling
<1>1. CASE CheckBalance(c)
    BY <1>1 DEF CheckBalance
<1>2. CASE SaveNewIntent(c)
    BY <1>2 DEF SaveNewIntent
<1>3. CASE CreatePayout(c)
    BY <1>3 DEF CreatePayout
<1>4. CASE SaveReference(c) \/ SaveFails(c)
    BY <1>4 DEF SaveReference, SaveFails
<1>5. CASE Settle(c)
    BY <1>5 DEF Settle
<1>6. QED
    BY <1>1, <1>2, <1>3, <1>4, <1>5 DEF Call

LEMMA DeliverTyped ==
    ASSUME TypeOK, DOMAIN tries = Cashouts, NEW h \in Handlers, NEW c \in Cashouts,
           Deliver(h, c)
    PROVE  /\ TypeOK' /\ DOMAIN tries' = Cashouts
           /\ event'[h] \in Delivery
<1> USE DEF tables, history
<1>1. tries[c] \in Nat /\ MaxTries[c] \in Nat /\ tries[c] < MaxTries[c]
    <2>1. MaxTries[c] \in Nat
        BY MaxTriesAssumption
    <2>2. tries[c] \in 0..MaxTries[c] /\ tries[c] < MaxTries[c]
        BY DEF Deliver, TypeOK
    <2>3. QED
        BY <2>1, <2>2
<1>2. [cashout |-> c, try |-> tries[c] + 1] \in Delivery
    BY <1>1, DeliveryTyped
<1>3. \A x \in Cashouts : tries'[x] \in 0..MaxTries[x]
    BY <1>1 DEF Deliver, TypeOK
<1>4. QED
    BY <1>2, <1>3 DEF Deliver, Goto, Working, TypeOK

LEMMA HandlerTyped ==
    ASSUME Inv, NEW h \in Handlers, Handle(h) \/ DatabaseFails(h)
    PROVE  TypeOK'
<1> USE DEF TypeOK, tables, history, externals, Goto, Working, Answering
<1>1. TypeOK
    BY DEF Inv
<1>2. pc[h] # "idle" => About(h) \in Cashouts /\ event[h] \in Delivery
    BY BusyTyped
<1>3. CASE SaveIntent(h)
    BY <1>1, <1>2, <1>3 DEF SaveIntent, Outcome
<1>4. CASE FindUser(h)
    BY <1>1, <1>2, <1>4 DEF FindUser, FoundById, UserId
<1>5. CASE Debit(h)
    <2>1. payer[h] \in Users /\ Amount[About(h)] \in Int /\ event[h] \in Delivery
        BY <1>2, <1>5, AmountAssumption DEF Debit, Inv, BusyInv
    <2>2. DebitRow(h) \in [wallet: Users, key: Delivery \union OtherKeys,
                           type: {"CREDIT", "DEBIT"}, amount: Int]
        BY <2>1 DEF DebitRow, Row
    <2>3. QED
        BY <1>1, <1>5, <2>1, <2>2 DEF Debit
<1>6. CASE SendEmail(h)
    BY <1>1, <1>6 DEF SendEmail
<1>7. CASE DatabaseFails(h)
    BY <1>1, <1>2, <1>7 DEF DatabaseFails, BeforeDebit
<1>8. CASE Answer(h)
    BY <1>1, <1>8 DEF Answer
<1>9. QED
    BY <1>3, <1>4, <1>5, <1>6, <1>7, <1>8 DEF Handle

-----------------------------------------------------------------------------
(* Every action keeps the rest of the invariant.                           *)

(* A call records the intent before it asks for the payout, and Paystack   *)
(* settles a payout once.                                                  *)
LEMMA CallPreserves ==
    ASSUME Inv, NEW c \in Cashouts, Call(c) \/ SaveFails(c) \/ Settle(c)
    PROVE  Inv'
<1> USE DEF tables, handler, history, externals, At
<1>1. TypeOK /\ TypeOK'
    BY CallTyped DEF Inv
<1>2. /\ UNCHANGED <<book, tries, pc, event, payer, early>>
      /\ \A x \in Cashouts :
             /\ paystack[x] \in Settled => paystack'[x] = paystack[x]
             /\ x \in due => x \in due'
             /\ paystack'[x] = "paid" => paystack[x] = "paid" \/ x \in due'
             /\ intent'[x] # intent[x] => paystack[x] = "unknown" /\ intent'[x] = "PENDING"
    <2>1. CASE SaveNewIntent(c)
        <3>1. paystack[c] = "unknown"
            BY <2>1 DEF SaveNewIntent, Inv, PayoutInv
        <3>2. QED
            BY <1>1, <2>1, <3>1 DEF SaveNewIntent, TypeOK
    <2>2. CASE CreatePayout(c)
        <3>1. paystack[c] = "unknown"
            BY <2>2 DEF CreatePayout, Inv, PayoutInv
        <3>2. /\ UNCHANGED <<book, intent, due, tries, pc, event, payer, early>>
              /\ UNCHANGED paystack \/ paystack' = [paystack EXCEPT ![c] = "accepted"]
            BY <2>2 DEF CreatePayout
        <3>3. QED
            BY <1>1, <3>1, <3>2 DEF TypeOK, Settled
    <2>3. CASE Settle(c)
        <3>1. /\ paystack[c] = "accepted" /\ due' = due \union {c}
              /\ UNCHANGED <<book, intent, tries, pc, event, payer, early>>
              /\ \/ paystack' = [paystack EXCEPT ![c] = "paid"]
                 \/ paystack' = [paystack EXCEPT ![c] = "refused"]
            BY <2>3 DEF Settle
        <3>2. QED
            BY <1>1, <3>1 DEF TypeOK, Settled
    <2>4. CASE CheckBalance(c) \/ SaveReference(c) \/ SaveFails(c)
        BY <2>4 DEF CheckBalance, SaveReference, SaveFails
    <2>5. QED
        BY <2>1, <2>2, <2>3, <2>4 DEF Call
<1>3. \A h \in Handlers : About(h)' = About(h) /\ (pc[h] # "idle" => About(h) \in Cashouts)
    BY <1>2, BusyTyped DEF About
<1>4. PayoutInv'
    <2>1. CASE CheckBalance(c)
        BY <1>1, <2>1 DEF CheckBalance, TypeOK, Inv, PayoutInv
    <2>2. CASE SaveNewIntent(c)
        BY <1>1, <2>2 DEF SaveNewIntent, TypeOK, Inv, PayoutInv
    <2>3. CASE CreatePayout(c)
        <3>1. PICK place \in {"reference", "failed"} : call' = [call EXCEPT ![c] = place]
            BY <2>3 DEF CreatePayout
        <3>2. /\ call[c] = "payout"
              /\ UNCHANGED <<intent, due, tries>>
              /\ \/ UNCHANGED paystack
                 \/ paystack' = [paystack EXCEPT ![c] = "accepted"] /\ Payable(Amount[c])
            BY <2>3 DEF CreatePayout
        <3>3. QED
            BY <1>1, <3>1, <3>2 DEF TypeOK, Inv, PayoutInv, Settled
    <2>4. CASE SaveReference(c) \/ SaveFails(c)
        BY <1>1, <2>4 DEF SaveReference, SaveFails, TypeOK, Inv, PayoutInv
    <2>5. CASE Settle(c)
        <3>1. /\ paystack[c] = "accepted"
              /\ UNCHANGED <<intent, tries, call>>
              /\ due' = due \union {c}
              /\ \/ paystack' = [paystack EXCEPT ![c] = "paid"]
                 \/ paystack' = [paystack EXCEPT ![c] = "refused"]
            BY <2>5 DEF Settle
        <3>2. QED
            BY <1>1, <3>1 DEF TypeOK, Inv, PayoutInv, Settled
    <2>6. QED
        BY <2>1, <2>2, <2>3, <2>4, <2>5 DEF Call
<1>5. BusyInv'
    BY <1>2, <1>3 DEF Inv, BusyInv, Settled
<1>6. OutcomeInv'
    <2> SUFFICES ASSUME NEW h \in Handlers, pc[h] \in {"user", "debit"},
                        paystack'[About(h)] = "paid", About(h) \notin early
                 PROVE  intent'[About(h)] = "COMPLETED"
        BY <1>2, <1>3 DEF OutcomeInv
    <2>1. paystack[About(h)] \in Settled /\ About(h) \in Cashouts
        BY <1>3 DEF Inv, BusyInv
    <2>2. QED
        BY <1>2, <2>1 DEF Inv, OutcomeInv, Settled
<1>7. KeyInv'
    BY <1>2 DEF Inv, KeyInv
<1>8. RecordsTellOutcome' /\ DebitedIsCompletedUnlessEarly'
    <2>1. \A x \in Cashouts : paystack'[x] # "unknown" => intent'[x] # "none"
        BY <1>4 DEF PayoutInv
    <2>2. \A x \in Cashouts : intent'[x] # "COMPLETED" \/ intent[x] = "COMPLETED"
        BY <1>2
    <2>3. QED
        BY <1>2, <2>1, <2>2
        DEF Inv, RecordsTellOutcome, DebitedIsCompletedUnlessEarly, Debited, Debits, Settled
<1>9. DueInv'
    <2> SUFFICES ASSUME NEW h \in Handlers, pc[h] # "idle"
                 PROVE  /\ pc[h] = "emailFailed" => paystack'[About(h)] = "refused"
                        /\ pc[h] \in {"email", "ok"} /\ paystack'[About(h)] = "paid"
                               => Debited(About(h))
        BY <1>2, <1>3 DEF Inv, DueInv, PaidIsDebitedOrDue, Debited, Debits
    <2>1. paystack'[About(h)] = paystack[About(h)]
        BY <1>2, <1>3 DEF Inv, BusyInv
    <2>2. QED
        BY <2>1 DEF Inv, DueInv
<1>10. QED
    BY <1>1, <1>4, <1>5, <1>6, <1>7, <1>8, <1>9 DEF Inv

(* A delivery has a number that no other has had.                          *)
LEMMA DeliverPreserves ==
    ASSUME Inv, NEW h \in Handlers, NEW c \in Cashouts, Deliver(h, c)
    PROVE  Inv'
<1> USE DEF tables, history
<1>1. TypeOK /\ TypeOK' /\ DOMAIN tries = Cashouts /\ DOMAIN tries' = Cashouts
      /\ event'[h] \in Delivery
    BY DeliverTyped DEF Inv, PayoutInv
<1>2. /\ pc[h] = "idle" /\ pc' = [pc EXCEPT ![h] = "find"] /\ c \in due
      /\ event' = [event EXCEPT ![h] = [cashout |-> c, try |-> tries[c] + 1]]
      /\ tries' = [tries EXCEPT ![c] = @ + 1]
      /\ UNCHANGED <<book, intent, call, paystack, due, payer, early>>
    BY DEF Deliver, Goto
<1>3. /\ pc'[h] = "find" /\ event'[h] = [cashout |-> c, try |-> tries[c] + 1]
      /\ \A g \in Handlers \ {h} :
             pc'[g] = pc[g] /\ event'[g] = event[g] /\ About(g)' = About(g)
      /\ About(h)' = c
    BY <1>1, <1>2 DEF TypeOK, About
<1>4. \A x \in Cashouts :
          /\ tries[x] \in Nat
          /\ tries'[x] = IF x = c THEN tries[x] + 1 ELSE tries[x]
    <2> SUFFICES ASSUME NEW x \in Cashouts
                 PROVE  /\ tries[x] \in Nat
                        /\ tries'[x] = IF x = c THEN tries[x] + 1 ELSE tries[x]
        OBVIOUS
    <2>1. MaxTries[x] \in Nat /\ tries[x] \in 0..MaxTries[x]
        BY <1>1, MaxTriesAssumption DEF TypeOK
    <2>2. QED
        BY <1>1, <1>2, <2>1
<1>5. \A g \in Handlers \ {h} : pc[g] # "idle" =>
          /\ event[g] \in Delivery /\ About(g) \in Cashouts
          /\ event[g].try \in Nat /\ event[g].try <= tries[About(g)]
    BY BusyTyped, DeliveryTyped DEF Inv, BusyInv
<1>6. \A x \in book : x.key \in Delivery =>
          x.key.cashout \in Cashouts /\ x.key.try \in Nat /\ x.key.try <= tries[x.key.cashout]
    BY DeliveryTyped DEF Inv, KeyInv
<1>7. PayoutInv'
    BY <1>1, <1>2 DEF Inv, PayoutInv
<1>8. BusyInv'
    <2>1. event'[h].try <= tries'[c] /\ paystack[c] \in Settled
        BY <1>2, <1>3, <1>4 DEF Inv, PayoutInv
    <2>2. \A g \in Handlers \ {h} : pc[g] # "idle" => event[g].try <= tries'[About(g)]
        BY <1>4, <1>5
    <2>3. QED
        BY <1>1, <1>2, <1>3, <2>1, <2>2 DEF Inv, BusyInv
<1>9. OutcomeInv'
    BY <1>2, <1>3 DEF Inv, OutcomeInv
<1>10. KeyInv'
    <2>1. \A x \in book : x.key \in Delivery => x.key.try <= tries'[x.key.cashout]
        BY <1>4, <1>6
    <2>2. \A g \in Handlers \ {h} : pc[g] # "idle" => event[g] # event'[h]
        BY <1>3, <1>4, <1>5 DEF About
    <2>3. \A x \in book : x.key # event'[h]
        BY <1>1, <1>3, <1>4, <1>6
    <2>4. QED
        BY <1>2, <1>3, <2>1, <2>2, <2>3 DEF Inv, KeyInv, BeforeDebit
<1>11. RecordsTellOutcome' /\ DebitedIsCompletedUnlessEarly'
    BY <1>2 DEF Inv, RecordsTellOutcome, DebitedIsCompletedUnlessEarly, Debited, Debits
<1>12. DueInv'
    BY <1>2, <1>3 DEF Inv, DueInv, PaidIsDebitedOrDue, Debited, Debits
<1>13. QED
    BY <1>1, <1>7, <1>8, <1>9, <1>10, <1>11, <1>12 DEF Inv

(* A handler is past its debit, or gives up.                               *)
Ends(h) ==
    /\ pc[h] # "idle"
    /\ \/ pc'[h] = "error"
       \/ pc'[h] = "emailFailed" /\ ~Successful(h)
       \/ pc'[h] = "ok" /\ pc[h] \in {"email", "emailFailed"}

(* A handler goes on, gives up or ends, alone or with all others in a      *)
(* crash, without touching the tables.                                     *)
LEMMA MovesPreserve ==
    ASSUME Inv, TypeOK',
           UNCHANGED <<book, intent, paystack, tries, early>>,
           due' \subseteq due,
           \A c \in Cashouts : call'[c] # call[c] => call'[c] = "failed",
           \A g \in Handlers :
               \/ pc'[g] = "idle"
               \/ /\ pc'[g] = pc[g] /\ event'[g] = event[g] /\ payer'[g] = payer[g]
               \/ /\ Ends(g) /\ event'[g] = event[g]
               \/ /\ pc[g] = "user" /\ event'[g] = event[g]
                  /\ pc'[g] = "debit" /\ Successful(g) /\ payer'[g] \in Users,
           \A c \in due \ due' : paystack[c] = "paid" => Debited(c)
    PROVE  Inv'
<1> USE DEF Ends
<1>1. PayoutInv'
    BY DEF Inv, PayoutInv
<1>2. BusyInv'
    BY DEF Inv, BusyInv, About, BeforeDebit, Successful
<1>3. OutcomeInv'
    BY DEF Inv, OutcomeInv, About, BeforeDebit
<1>4. KeyInv'
    BY DEF Inv, KeyInv, BeforeDebit
<1>5. RecordsTellOutcome' /\ DebitedIsCompletedUnlessEarly'
    BY DEF Inv, RecordsTellOutcome, DebitedIsCompletedUnlessEarly, Debited, Debits
<1>6. DueInv'
    <2>1. ASSUME NEW h \in Handlers, pc'[h] # "idle"
          PROVE  /\ pc'[h] = "emailFailed" => paystack[About(h)'] = "refused"
                 /\ pc'[h] \in {"email", "ok"} /\ paystack[About(h)'] = "paid"
                        => Debited(About(h)')
        BY <2>1 DEF Inv, BusyInv, DueInv, About, Successful, Settled
    <2>2. PaidIsDebitedOrDue'
        BY DEF Inv, DueInv, PaidIsDebitedOrDue, Debited, Debits
    <2>3. QED
        BY <2>1, <2>2 DEF DueInv, Debited, Debits
<1>7. QED
    BY <1>1, <1>2, <1>3, <1>4, <1>5, <1>6 DEF Inv

(* The outcome that is saved is what Paystack has settled.                 *)
LEMMA SaveIntentPreserves ==
    ASSUME Inv, NEW h \in Handlers, SaveIntent(h)
    PROVE  Inv'
<1> DEFINE c == About(h)
<1> USE DEF tables, externals
<1>1. TypeOK /\ TypeOK'
    BY HandlerTyped DEF Inv, Handle
<1>2. /\ pc[h] = "find" /\ c \in Cashouts /\ paystack[c] \in Settled
      /\ event[h] \in Delivery
    BY BusyTyped DEF SaveIntent, Inv, BusyInv
<1>3. /\ UNCHANGED <<book, call, paystack, due, tries, event, payer>>
      /\ pc' = [pc EXCEPT ![h] = "user"]
      /\ \/ intent' = [intent EXCEPT ![c] = Outcome(h)] /\ early' = early
         \/ intent' = intent /\ early' = early \union {c}
    BY DEF SaveIntent, Goto
<1>4. /\ pc'[h] = "user" /\ \A g \in Handlers \ {h} : pc'[g] = pc[g]
      /\ \A g \in Handlers : About(g)' = About(g)
      /\ \A x \in Cashouts : intent'[x] # intent[x] =>
             x = c /\ intent'[x] = IF paystack[x] = "paid" THEN "COMPLETED" ELSE "FAILED"
      /\ c \notin early' => intent'[c] = IF paystack[c] = "paid" THEN "COMPLETED" ELSE "FAILED"
      /\ early \subseteq early'
    BY <1>1, <1>2, <1>3 DEF TypeOK, About, Outcome, Successful
<1>5. About(h) = c /\ \A g \in Handlers : pc[g] # "idle" => About(g) \in Cashouts
    BY BusyTyped
<1> HIDE DEF c
<1> USE <1>2, <1>3, <1>4
<1>6. PayoutInv'
    BY DEF Inv, PayoutInv
<1>7. BusyInv'
    BY DEF Inv, BusyInv
<1>8. OutcomeInv'
    BY <1>5 DEF Inv, OutcomeInv
<1>9. KeyInv'
    BY DEF Inv, KeyInv, BeforeDebit
<1>10. RecordsTellOutcome'
    BY DEF Inv, RecordsTellOutcome, Debited, Debits, Settled
<1>11. DebitedIsCompletedUnlessEarly'
    BY DEF Inv, RecordsTellOutcome, DebitedIsCompletedUnlessEarly, Debited, Debits
<1>12. DueInv'
    BY DEF Inv, DueInv, PaidIsDebitedOrDue, Debited, Debits
<1>13. QED
    BY <1>1, <1>6, <1>7, <1>8, <1>9, <1>10, <1>11, <1>12 DEF Inv

(* A debit is of a payout that was made.                                   *)
LEMMA DebitPreserves ==
    ASSUME Inv, NEW h \in Handlers, Debit(h), book' # book
    PROVE  Inv'
<1> DEFINE c == About(h)  row == DebitRow(h)
<1> USE DEF tables, externals
<1>1. TypeOK /\ TypeOK'
    BY HandlerTyped DEF Inv, Handle
<1>2. /\ pc[h] = "debit" /\ c \in Cashouts /\ paystack[c] = "paid"
      /\ event[h] \in Delivery /\ event[h].try <= tries[c]
    BY BusyTyped DEF Debit, Inv, BusyInv
<1>3. /\ UNCHANGED <<intent, call, paystack, due, tries, event, payer, early>>
      /\ book' = book \union {row}
      /\ pc' = [pc EXCEPT ![h] = "email"]
    BY DEF Debit, Goto
<1>4. /\ pc'[h] = "email" /\ \A g \in Handlers \ {h} : pc'[g] = pc[g]
      /\ \A g \in Handlers : About(g)' = About(g)
      /\ row.key = event[h] /\ row.key.cashout = c
    BY <1>1, <1>3 DEF TypeOK, About, DebitRow, Row
<1>5. About(h) = c /\ (c \notin early => intent[c] = "COMPLETED")
    BY <1>2 DEF Inv, OutcomeInv
<1> HIDE DEF c, row
<1> USE <1>2, <1>3, <1>4
<1>6. PayoutInv' /\ BusyInv' /\ OutcomeInv'
    BY DEF Inv, PayoutInv, BusyInv, OutcomeInv
<1>7. KeyInv'
    BY DEF Inv, KeyInv, BeforeDebit
<1>8. RecordsTellOutcome' /\ DebitedIsCompletedUnlessEarly'
    BY <1>5 DEF Inv, RecordsTellOutcome, DebitedIsCompletedUnlessEarly, Debited, Debits
<1>9. DueInv'
    <2>1. \A x \in Cashouts : Debited(x) \/ x = c => Debited(x)'
        BY DEF Debited, Debits
    <2>2. \A g \in Handlers : pc[g] # "idle" => About(g) \in Cashouts
        BY BusyTyped
    <2>3. PaidIsDebitedOrDue'
        BY <2>1 DEF Inv, DueInv, PaidIsDebitedOrDue
    <2>4. ASSUME NEW g \in Handlers, pc'[g] # "idle"
          PROVE  /\ pc'[g] = "emailFailed" => paystack[About(g)] = "refused"
                 /\ pc'[g] \in {"email", "ok"} /\ paystack[About(g)] = "paid"
                        => Debited(About(g))'
        <3>1. pc[g] # "idle" /\ About(g) \in Cashouts /\ (g = h => About(g) = c)
            BY <1>5, <2>2, <2>4
        <3>2. Debited(About(g)) \/ About(g) = c => Debited(About(g))'
            BY <1>3, <2>1, <3>1 DEF Debited, Debits
        <3>3. QED
            BY <3>1, <3>2 DEF Inv, DueInv
    <2>5. QED
        BY <2>3, <2>4 DEF DueInv
<1>10. QED
    BY <1>1, <1>6, <1>7, <1>8, <1>9 DEF Inv

LEMMA HandlePreserves ==
    ASSUME Inv, NEW h \in Handlers, Handle(h) \/ DatabaseFails(h)
    PROVE  Inv'
<1> USE DEF tables, externals, history
<1>1. TypeOK /\ TypeOK'
    BY HandlerTyped DEF Inv
<1>2. ASSUME pc[h] # "idle",
             UNCHANGED <<book, intent, call, paystack, tries, early>>, due' \subseteq due,
             \A g \in Handlers \ {h} :
                 pc'[g] = pc[g] /\ event'[g] = event[g] /\ payer'[g] = payer[g],
             \A c \in due \ due' : paystack[c] = "paid" => Debited(c),
             \/ pc'[h] = "idle"
             \/ Ends(h) /\ event'[h] = event[h]
             \/ /\ pc[h] = "user" /\ event'[h] = event[h]
                /\ pc'[h] = "debit" /\ Successful(h) /\ payer'[h] \in Users
      PROVE  Inv'
    <2>1. \A g \in Handlers :
              \/ pc'[g] = "idle"
              \/ /\ pc'[g] = pc[g] /\ event'[g] = event[g] /\ payer'[g] = payer[g]
              \/ Ends(g) /\ event'[g] = event[g]
              \/ /\ pc[g] = "user" /\ event'[g] = event[g]
                 /\ pc'[g] = "debit" /\ Successful(g) /\ payer'[g] \in Users
        BY <1>2
    <2>2. \A c \in Cashouts : call'[c] # call[c] => call'[c] = "failed"
        BY <1>2
    <2>3. UNCHANGED <<book, intent, paystack, tries, early>>
        BY <1>2
    <2>4. QED
        BY <1>1, <1>2, <2>1, <2>2, <2>3, MovesPreserve
<1>3. CASE FindUser(h)
    <2>1. PICK u \in FoundById(UserId(About(h))) : payer' = [payer EXCEPT ![h] = u]
        BY <1>3 DEF FindUser
    <2>2. /\ pc[h] = "user"
          /\ pc' = [pc EXCEPT ![h] = IF Successful(h) THEN "debit" ELSE "emailFailed"]
          /\ UNCHANGED <<book, intent, call, paystack, due, tries, event, early>>
        BY <1>3 DEF FindUser, Goto
    <2>3. u \in Users
        BY <2>1 DEF FoundById, UserId
    <2>4. QED
        BY <1>1, <1>2, <2>1, <2>2, <2>3 DEF TypeOK, Ends
<1>4. CASE Debit(h)
    <2>1. CASE book' = book
        <3>1. /\ pc[h] = "debit" /\ event[h] \in Delivery
              /\ UNCHANGED <<book, intent, call, paystack, due, tries, event, payer, early>>
            BY <1>4, <2>1, BusyTyped DEF Debit
        <3>2. DebitRow(h) \notin book
            BY <3>1 DEF Inv, KeyInv, BeforeDebit, DebitRow, Row
        <3>3. pc' = [pc EXCEPT ![h] = "error"]
            BY <1>4, <2>1, <3>2 DEF Debit, Goto
        <3>4. QED
            BY <1>1, <1>2, <3>1, <3>3 DEF TypeOK, Ends
    <2>2. QED
        BY <1>4, <2>1, DebitPreserves
<1>5. CASE SendEmail(h) \/ DatabaseFails(h)
    <2>1. /\ pc[h] # "idle"
          /\ \/ pc' = [pc EXCEPT ![h] = "ok"] /\ pc[h] \in {"email", "emailFailed"}
             \/ pc' = [pc EXCEPT ![h] = "error"]
          /\ UNCHANGED <<book, intent, call, paystack, due, tries, event, payer, early>>
        BY <1>5 DEF SendEmail, DatabaseFails, BeforeDebit, Goto
    <2>2. QED
        BY <1>1, <1>2, <2>1 DEF TypeOK, Ends
<1>6. CASE Answer(h)
    <2>1. /\ pc[h] # "idle" /\ pc' = [pc EXCEPT ![h] = "idle"]
          /\ event' = [event EXCEPT ![h] = NoEvent] /\ payer' = [payer EXCEPT ![h] = Undefined]
          /\ UNCHANGED <<book, intent, call, paystack, tries, early>>
        BY <1>6 DEF Answer, Answering, Goto
    <2>2. due' = due \/ (due' = due \ {About(h)} /\ pc[h] = "ok")
        BY <1>6 DEF Answer
    <2>3. \A c \in due \ due' : paystack[c] = "paid" => Debited(c)
        BY <2>2 DEF Inv, DueInv
    <2>4. QED
        BY <1>1, <1>2, <2>1, <2>2, <2>3 DEF TypeOK
<1>7. QED
    BY <1>3, <1>4, <1>5, <1>6, SaveIntentPreserves DEF Handle

(* Other postings use keys of their own.                                   *)
LEMMA PostElsewherePreserves ==
    ASSUME Inv, PostElsewhere
    PROVE  Inv'
<1>1. PICK u \in Users, k \in OtherKeys, a \in OtherAmounts :
          Abstract!Deposit(u, k, a) \/ Abstract!Withdraw(u, k, a)
    BY DEF PostElsewhere
<1>2. k \notin Delivery /\ a \in Int
    BY OthersAssumption
<1>3. PICK row \in {Row(u, k, "CREDIT", a), Row(u, k, "DEBIT", a)} : book' = book \union {row}
    BY <1>1 DEF Abstract!Deposit, Abstract!Withdraw, Abstract!Row, Row
<1>4. /\ row \in [wallet: Users, key: Delivery \union OtherKeys,
                   type: {"CREDIT", "DEBIT"}, amount: Int]
      /\ row.key = k
    BY <1>2 DEF Row
<1>5. UNCHANGED <<intent, referenced, call, paystack, due, tries, pc, event, payer, early, cutShort>>
    BY DEF PostElsewhere, externals, handler, history
<1>6. balance' \in [Users -> Int]
    <2>1. a \in Int /\ balance[u] \in Int /\ balance \in [Users -> Int]
        BY <1>2 DEF Inv, TypeOK
    <2>2. \/ balance' = [balance EXCEPT ![u] = balance[u] + a]
          \/ balance' = [balance EXCEPT ![u] = balance[u] - a]
        BY <1>1 DEF Abstract!Deposit, Abstract!Withdraw
    <2>3. QED
        BY <2>1, <2>2
<1>7. TypeOK'
    BY <1>3, <1>4, <1>5, <1>6 DEF Inv, TypeOK
<1>8. \A h \in Handlers : pc[h] # "idle" => event[h] # k
    BY <1>2, BusyTyped
<1> USE <1>2, <1>3, <1>4, <1>5
<1>9. PayoutInv' /\ BusyInv' /\ OutcomeInv'
    BY DEF Inv, PayoutInv, BusyInv, OutcomeInv, About
<1>10. KeyInv'
    BY <1>8 DEF Inv, KeyInv, BeforeDebit
<1>11. RecordsTellOutcome' /\ DebitedIsCompletedUnlessEarly'
    BY DEF Inv, RecordsTellOutcome, DebitedIsCompletedUnlessEarly, Debited, Debits
<1>12. DueInv'
    BY DEF Inv, DueInv, PaidIsDebitedOrDue, Debited, Debits, About
<1>13. QED
    BY <1>7, <1>9, <1>10, <1>11, <1>12 DEF Inv

LEMMA CrashPreserves ==
    ASSUME Inv, Crash
    PROVE  Inv'
<1>1. TypeOK
    BY DEF Inv
<1>2. /\ pc' = [h \in Handlers |-> "idle"]
      /\ event' = [h \in Handlers |-> NoEvent]
      /\ payer' = [h \in Handlers |-> Undefined]
      /\ call' = [c \in Cashouts |-> IF call[c] \in Calling THEN "failed" ELSE call[c]]
      /\ cutShort' = cutShort \union {event[h] : h \in {g \in Handlers : pc[g] \in BeforeDebit}}
      /\ UNCHANGED <<book, balance, intent, referenced, paystack, due, tries, early>>
    BY DEF Crash, tables, externals
<1>3. cutShort' \subseteq Delivery
    BY <1>1, <1>2, BusyTyped DEF TypeOK, BeforeDebit
<1>4. TypeOK'
    BY <1>1, <1>2, <1>3 DEF TypeOK
<1>5. \A c \in Cashouts : call'[c] # call[c] => call'[c] = "failed"
    BY <1>2, <1>1 DEF TypeOK
<1>6. /\ \A g \in Handlers : pc'[g] = "idle"
      /\ UNCHANGED <<book, intent, paystack, due, tries, early>>
    BY <1>2
<1>7. QED
    BY <1>4, <1>5, <1>6, MovesPreserve

(* Every step keeps the invariant.                                         *)
LEMMA NextPreserves == Inv /\ [Next]_vars => Inv'
<1> SUFFICES ASSUME Inv, [Next]_vars PROVE Inv'
    OBVIOUS
<1>1. CASE UNCHANGED vars
    <2>1. UNCHANGED <<book, balance, intent, referenced, call, paystack, due, tries, pc,
                      event, payer, early, cutShort>>
        BY <1>1 DEF vars, tables, externals, handler, history
    <2>2. TypeOK'
        BY <2>1 DEF Inv, TypeOK
    <2>3. \A g \in Handlers : pc'[g] = pc[g] /\ event'[g] = event[g] /\ payer'[g] = payer[g]
        BY <2>1
    <2>4. \A c \in Cashouts : call'[c] # call[c] => call'[c] = "failed"
        BY <2>1
    <2>5. UNCHANGED <<book, intent, paystack, due, tries, early>>
        BY <2>1
    <2>6. QED
        BY <2>2, <2>3, <2>4, <2>5, MovesPreserve
<1>2. QED
    BY <1>1, CallPreserves, DeliverPreserves, HandlePreserves, PostElsewherePreserves,
       CrashPreserves
    DEF Next

(* Inv holds in every reachable state.                                     *)
THEOREM Invariance == Spec => []Inv
<1>1. Init => Inv
    BY InitInv
<1>2. Inv /\ [Next]_vars => Inv'
    BY NextPreserves
<1>3. QED
    BY <1>1, <1>2, PTL DEF Spec

-----------------------------------------------------------------------------
(* What follows from it.                                                   *)

(* Every variable keeps its type.                                          *)
THEOREM TypeCorrect == Spec => []TypeOK
<1>1. Inv => TypeOK
    BY DEF Inv
<1>2. QED
    BY <1>1, Invariance, PTL

(* No payout is unrecorded, and no record or debit contradicts what        *)
(* Paystack has made of the payout.                                        *)
THEOREM RecordsAreTrue == Spec => []RecordsTellOutcome
<1>1. Inv => RecordsTellOutcome
    BY DEF Inv
<1>2. QED
    BY <1>1, Invariance, PTL

(* A payout that reached the bank and was not debited will be reported     *)
(* again: no report of it is answered 200 before the debit.                *)
THEOREM DebitedOrDue == Spec => []PaidIsDebitedOrDue
<1>1. Inv => PaidIsDebitedOrDue
    BY DEF Inv, DueInv
<1>2. QED
    BY <1>1, Invariance, PTL

(* A payout that was debited and not reported too early is COMPLETED.      *)
THEOREM DebitedIsCompleted == Spec => []DebitedIsCompletedUnlessEarly
<1>1. Inv => DebitedIsCompletedUnlessEarly
    BY DEF Inv
<1>2. QED
    BY <1>1, Invariance, PTL

-----------------------------------------------------------------------------
(* Cashout implements Ledger.                                              *)

(* The row of a debit is new to the index and covered by the balance.      *)
LEMMA DebitIsWithdraw ==
    ASSUME Inv, NEW h \in Handlers, Debit(h)
    PROVE  Abstract!Next \/ UNCHANGED tables
<1>1. pc[h] = "debit" /\ About(h) \in Cashouts /\ event[h] \in Delivery
    BY BusyTyped DEF Debit
<1>2. payer[h] \in Users
    BY <1>1 DEF Inv, BusyInv
<1>3. Abstract!Unused(payer[h], event[h])
    BY <1>1 DEF Abstract!Unused, Inv, KeyInv, BeforeDebit
<1>4. CASE Covers(h) /\ Storable(Amount[About(h)])
    <2>1. balance[payer[h]] \in Int /\ Amount[About(h)] \in Int
        BY <1>1, <1>2, AmountAssumption DEF Inv, TypeOK
    <2>2. balance[payer[h]] >= Amount[About(h)]
        BY <1>4, <2>1 DEF Covers
    <2>3. Abstract!Withdraw(payer[h], event[h], Amount[About(h)])
        BY <1>3, <1>4, <2>2 DEF Debit, Abstract!Withdraw, Abstract!Row, DebitRow, Row
    <2>4. QED
        BY <1>1, <1>2, <2>3 DEF Abstract!Next
<1>5. CASE ~(Covers(h) /\ Storable(Amount[About(h)]))
    BY <1>5 DEF Debit
<1>6. QED
    BY <1>4, <1>5

(* However many cashouts passed the check of one balance, they and all     *)
(* other postings keep to the ledger's promises.                           *)
THEOREM Refinement == Spec => ImplementsLedger
<1>1. Init => Abstract!Init
    BY DEF Init, Abstract!Init
<1>2. Inv /\ [Next]_vars => [Abstract!Next]_(Abstract!ledger)
    <2> SUFFICES ASSUME Inv, [Next]_vars
                 PROVE  Abstract!Next \/ UNCHANGED tables
        BY DEF Abstract!ledger, tables
    <2>1. CASE \E h \in Handlers : Debit(h)
        BY <2>1, DebitIsWithdraw
    <2>2. CASE PostElsewhere
        BY <2>2 DEF PostElsewhere, Abstract!Next
    <2>3. CASE UNCHANGED tables
        BY <2>3
    <2>4. QED
        BY <2>1, <2>2, <2>3
        DEF Next, vars, Call, Handle, CheckBalance, SaveNewIntent, CreatePayout,
            SaveReference, SaveFails, Settle, Deliver, SaveIntent, FindUser, SendEmail,
            DatabaseFails, Answer, Crash
<1>3. QED
    BY <1>1, <1>2, Invariance, PTL DEF Spec, ImplementsLedger, Abstract!Spec
=============================================================================
