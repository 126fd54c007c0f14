---------------------------- MODULE TopUpProofs ----------------------------
(***************************************************************************)
(* Proofs about TopUp, for any number of users, references, handlers and   *)
(* deliveries, and any faults.  Inv is the inductive invariant: as long as *)
(* only one handler at a time verifies a reference, the status it read is  *)
(* still the one in the table when it saves the next, so at most one       *)
(* handler ever gets past "save" with a charge that succeeded.             *)
(***************************************************************************)
EXTENDS TopUp, TLAPS

(* A handler that is not idle works on a delivery that was made, and funds *)
(* the wallet of some user.                                                *)
BusyInv ==
    \A h \in Handlers :
        /\ pc[h] # "idle" =>
               event[h] \in Delivery /\ event[h].try <= tries[EventOf(h)]
        /\ pc[h] \in {"check", "fund"} => payee[h] \in Users

(* A status is read of an intent that exists; a handler that goes on to    *)
(* save it has not read that it is completed.                              *)
StatusInv ==
    /\ \A ref \in References :
           /\ link[ref] = "none" => intent[ref] = "none"
           /\ link[ref] # "given" => paystack[ref] = "unknown"
    /\ \A h \in Handlers :
           /\ pc[h] \in Verifying => seen[h] # "none"
           /\ pc[h] = "save" => Unsettled(seen[h])

(* Who is alone with a reference knows its status.                         *)
AloneInv ==
    \A h \in Handlers : pc[h] \in Verifying /\ Reference(h) \notin overlapped =>
        /\ seen[h] = intent[Reference(h)]
        /\ \A g \in Handlers \ {h} :
               ~(pc[g] \in Verifying /\ Reference(g) = Reference(h))

(* A completed intent is credited once, by the one handler that is paying. *)
OnceInv ==
    /\ \A h \in Handlers : pc[h] \in Paying /\ Reference(h) \notin overlapped =>
           /\ intent[Reference(h)] = "COMPLETED"
           /\ \A e \in book : e.key.reference # Reference(h)
           /\ \A g \in Handlers \ {h} :
                  ~(pc[g] \in Paying /\ Reference(g) = Reference(h))
    /\ \A e \in book : e.key.reference \notin overlapped =>
           intent[e.key.reference] = "COMPLETED"
    /\ \A d, e \in book :
           d.key.reference = e.key.reference /\ d.key.reference \notin overlapped => d = e

(* What goes on after the verification was paid.                           *)
PaidInv ==
    /\ \A h \in Handlers :
           pc[h] \in {"save"} \union Paying => paystack[Reference(h)] = "success"
    /\ UnpaidStaysPending

Inv ==
    /\ TypeOK
    /\ BusyInv
    /\ StatusInv
    /\ AloneInv
    /\ OnceInv
    /\ PaidInv

-----------------------------------------------------------------------------

(* The initial states satisfy the invariant.                               *)
LEMMA InitInv == Init => Inv
<1> SUFFICES ASSUME Init PROVE Inv
    OBVIOUS
<1> USE DEF Init
<1>1. TypeOK
    BY OpeningAssumption, MaxTriesAssumption DEF TypeOK, Event
<1>2. BusyInv /\ StatusInv /\ AloneInv /\ OnceInv
    BY DEF BusyInv, StatusInv, AloneInv, OnceInv, Verifying, Paying, Working
<1>3. PaidInv
    BY DEF PaidInv, UnpaidStaysPending, Credited, Credits, Paying
<1>4. QED
    BY <1>1, <1>2, <1>3 DEF Inv

LEMMA DeliveryTyped ==
    ASSUME NEW d \in Delivery
    PROVE  /\ d.reference \in References
           /\ d.kind \in {"success", "other"}
           /\ d.try \in Nat
           /\ About(d.reference, d.kind) \in Event
BY MaxTriesAssumption DEF Delivery, About, Event

(* What a busy handler works on has its type.                              *)
LEMMA BusyTyped ==
    ASSUME Inv, NEW h \in Handlers, pc[h] # "idle"
    PROVE  /\ event[h] \in Delivery
           /\ Reference(h) \in References
           /\ event[h].kind \in {"success", "other"}
           /\ event[h].try \in Nat
           /\ EventOf(h) \in Event
<1>1. event[h] \in Delivery
    BY DEF Inv, BusyInv
<1>2. QED
    BY <1>1, DeliveryTyped DEF Reference, EventOf

-----------------------------------------------------------------------------
(* Every action keeps the types.                                           *)

LEMMA LinkTyped ==
    ASSUME TypeOK, NEW ref \in References,
           SaveNewIntent(ref) \/ InitializePayment(ref) \/ Pay(ref) \/ ReportOther(ref)
    PROVE  TypeOK'
<1> USE DEF TypeOK, tables, handler, history, externals
<1>1. CASE SaveNewIntent(ref)
    BY <1>1 DEF SaveNewIntent
<1>2. CASE InitializePayment(ref)
    BY <1>2 DEF InitializePayment
<1>3. CASE Pay(ref)
    BY <1>3 DEF Pay, About, Event
<1>4. CASE ReportOther(ref)
    BY <1>4 DEF ReportOther, About, Event
<1>5. QED
    BY <1>1, <1>2, <1>3, <1>4

LEMMA DeliverTyped ==
    ASSUME TypeOK, NEW h \in Handlers, NEW e \in Event, Deliver(h, e)
    PROVE  TypeOK'
<1> USE DEF TypeOK, tables, history
<1>1. tries[e] + 1 \in 1..MaxTries
    BY MaxTriesAssumption DEF Deliver
<1>2. e.reference \in References /\ e.kind \in {"success", "other"}
    BY DEF Event
<1>3. [reference |-> e.reference, kind |-> e.kind, try |-> tries[e] + 1] \in Delivery
    BY <1>1, <1>2 DEF Delivery
<1>4. QED
    BY <1>1, <1>3 DEF Deliver, Goto, Working

LEMMA HandlerTyped ==
    ASSUME Inv, NEW h \in Handlers, Handle(h) \/ DatabaseFails(h)
    PROVE  TypeOK'
<1> USE DEF TypeOK, tables, history, externals, Goto, Fail, Failures, Working, Verifying, Answering
<1>1. TypeOK
    BY DEF Inv
<1>2. pc[h] # "idle" => Reference(h) \in References /\ event[h] \in Delivery
    BY BusyTyped
<1>3. CASE ReadIntent(h)
    BY <1>1, <1>2, <1>3 DEF ReadIntent
<1>4. CASE Verify(h) \/ DatabaseFails(h) \/ Notify(h)
    BY <1>1, <1>2, <1>4 DEF Verify, DatabaseFails, Notify
<1>5. CASE SaveIntent(h)
    BY <1>1, <1>2, <1>5 DEF SaveIntent, Outcome
<1>6. CASE FindUser(h)
    BY <1>1, <1>2, <1>6, UndefinedAssumption DEF FindUser, FoundById, UserId
<1>7. CASE CheckWallet(h)
    BY <1>1, <1>2, <1>7 DEF CheckWallet
<1>8. CASE Fund(h)
    <2>1. payee[h] \in Users
        BY <1>8 DEF Fund, Inv, BusyInv
    <2>2. amount[Reference(h)] \in Amounts /\ amount[Reference(h)] \in Nat
        BY <1>1, <1>2, <1>8, AmountsAssumption DEF Fund
    <2>3. CreditRow(h) \in [wallet: Users, key: Delivery, type: {"CREDIT"}, amount: Amounts]
        BY <1>2, <1>8, <2>1, <2>2 DEF Fund, CreditRow, Row
    <2>4. QED
        BY <1>1, <1>2, <1>8, <2>1, <2>2, <2>3 DEF Fund
<1>9. CASE Answer(h)
    BY <1>1, <1>2, <1>9 DEF Answer, Idle
<1>10. QED
    BY <1>3, <1>4, <1>5, <1>6, <1>7, <1>8, <1>9 DEF Handle

-----------------------------------------------------------------------------
(* Every action keeps the rest of the invariant.                           *)

(* A new link is for an intent nobody has read; a payment lets more pass.  *)
LEMMA LinkPreserves ==
    ASSUME Inv, NEW ref \in References,
           SaveNewIntent(ref) \/ InitializePayment(ref) \/ Pay(ref) \/ ReportOther(ref)
    PROVE  Inv'
<1> USE DEF tables, handler, history, externals
<1>1. TypeOK /\ TypeOK'
    BY LinkTyped DEF Inv
<1>2. /\ UNCHANGED <<book, tries, pc, event, seen, payee, overlapped>>
      /\ \A x \in References :
             /\ paystack[x] = "success" => paystack'[x] = "success"
             /\ intent'[x] # intent[x] =>
                    intent[x] = "none" /\ intent'[x] = "PENDING" /\ link'[x] # "none"
             /\ link'[x] = "none" => link[x] = "none" /\ intent'[x] = intent[x]
             /\ link'[x] # "given" => link[x] # "given" /\ paystack'[x] = paystack[x]
    <2>1. CASE SaveNewIntent(ref)
        <3>1. intent[ref] = "none" /\ link[ref] = "none"
            BY <2>1 DEF SaveNewIntent, Inv, StatusInv
        <3>2. /\ link' = [link EXCEPT ![ref] = "saved"]
              /\ intent' = [intent EXCEPT ![ref] = "PENDING"]
              /\ UNCHANGED <<book, tries, paystack, pc, event, seen, payee, overlapped>>
            BY <2>1 DEF SaveNewIntent
        <3>3. QED
            BY <1>1, <3>1, <3>2 DEF TypeOK
    <2>2. CASE InitializePayment(ref)
        <3>1. /\ link[ref] = "saved"
              /\ \/ /\ link' = [link EXCEPT ![ref] = "given"]
                    /\ paystack' = [paystack EXCEPT ![ref] = "initialized"]
                 \/ /\ link' = [link EXCEPT ![ref] = "failed"]
                    /\ UNCHANGED paystack
              /\ UNCHANGED <<book, intent, tries, pc, event, seen, payee, overlapped>>
            BY <2>2 DEF InitializePayment
        <3>2. paystack[ref] = "unknown"
            BY <3>1 DEF Inv, StatusInv
        <3>3. QED
            BY <1>1, <3>1, <3>2 DEF TypeOK
    <2>3. CASE Pay(ref) \/ ReportOther(ref)
        BY <1>1, <2>3 DEF Pay, ReportOther, TypeOK, Inv, StatusInv
    <2>4. QED
        BY <2>1, <2>2, <2>3
<1>3. \A h \in Handlers : pc[h] # "idle" => Reference(h) \in References
    BY BusyTyped
<1>4. \A e \in book : e.key.reference \in References
    BY <1>1 DEF TypeOK, Delivery
<1> USE DEF Reference, EventOf
<1>5. BusyInv'
    BY <1>2 DEF Inv, BusyInv
<1>6. StatusInv'
    BY <1>2 DEF Inv, StatusInv
<1>7. AloneInv'
    BY <1>2, <1>3 DEF Inv, AloneInv, StatusInv, Verifying
<1>8. OnceInv'
    BY <1>2, <1>3, <1>4 DEF Inv, OnceInv, Paying
<1>9. PaidInv'
    BY <1>2, <1>3 DEF Inv, PaidInv, Paying, UnpaidStaysPending, Credited, Credits
<1>10. QED
    BY <1>1, <1>5, <1>6, <1>7, <1>8, <1>9 DEF Inv

(* A delivery has a number that no other has had.                          *)
LEMMA DeliverPreserves ==
    ASSUME Inv, NEW h \in Handlers, NEW e \in Event, Deliver(h, e)
    PROVE  Inv'
<1> USE DEF tables, history
<1>1. TypeOK /\ TypeOK'
    BY DeliverTyped DEF Inv
<1>2. /\ pc[h] = "idle" /\ pc' = [pc EXCEPT ![h] = "read"]
      /\ event' = [event EXCEPT ![h] = [reference |-> e.reference, kind |-> e.kind,
                                         try |-> tries[e] + 1]]
      /\ tries' = [tries EXCEPT ![e] = @ + 1]
      /\ UNCHANGED <<book, intent, link, paystack, seen, payee, overlapped>>
    BY DEF Deliver, Goto
<1>3. /\ pc'[h] = "read"
      /\ \A g \in Handlers \ {h} : pc'[g] = pc[g] /\ event'[g] = event[g]
    BY <1>1, <1>2 DEF TypeOK
<1>4. \A x \in Event : tries[x] \in Nat /\ tries'[x] \in Nat /\ tries'[x] >= tries[x]
    BY <1>1, <1>2, MaxTriesAssumption DEF TypeOK
<1>5. e = About(e.reference, e.kind) /\ tries'[e] = tries[e] + 1
    BY <1>1, <1>2 DEF Event, About, TypeOK
<1>6. /\ event'[h] \in Delivery /\ event'[h].try = tries'[e]
      /\ About(event'[h].reference, event'[h].kind) = e
    BY <1>1, <1>2, <1>3, <1>5 DEF TypeOK, Delivery, Event, BusyInv, About
<1>7. \A g \in Handlers \ {h} : pc[g] # "idle" =>
          event[g] \in Delivery /\ EventOf(g) \in Event /\ event[g].try <= tries[EventOf(g)]
    BY BusyTyped DEF Inv, BusyInv
<1>8. BusyInv'
    BY <1>2, <1>3, <1>4, <1>6, <1>7 DEF Inv, BusyInv, EventOf, Delivery
<1>9. StatusInv'
    BY <1>2, <1>3 DEF Inv, StatusInv, Verifying
<1>10. AloneInv' /\ OnceInv' /\ PaidInv'
    BY <1>2, <1>3 DEF Inv, AloneInv, OnceInv, PaidInv, Paying, Verifying, Reference,
                      UnpaidStaysPending, Credited, Credits
<1>11. QED
    BY <1>1, <1>8, <1>9, <1>10 DEF Inv

(* A handler goes on, or gives up, without touching the tables.            *)
LEMMA MovePreserves ==
    ASSUME Inv, TypeOK', NEW h \in Handlers, NEW place \in Working \union Answering,
           UNCHANGED <<book, intent, link, paystack, tries, event, seen, overlapped>>,
           Goto(h, place), pc[h] # "idle",
           \A g \in Handlers \ {h} : payee'[g] = payee[g],
           place \in Verifying => pc[h] \in Verifying,
           place = "save" => Unsettled(seen[h]) /\ Confirmed(Reference(h)),
           place \in Paying => pc[h] \in Paying,
           place \in {"check", "fund"} => payee'[h] \in Users
    PROVE  Inv'
<1>1. pc'[h] = place /\ \A g \in Handlers \ {h} : pc'[g] = pc[g]
    BY DEF Inv, TypeOK, Goto
<1>2. place # "idle"
    BY DEF Working, Verifying, Answering
<1>3. BusyInv'
    BY <1>1, <1>2 DEF Inv, BusyInv, EventOf
<1>4. StatusInv'
    BY <1>1 DEF Inv, StatusInv, Verifying
<1>5. AloneInv'
    BY <1>1 DEF Inv, AloneInv, Reference
<1>6. OnceInv'
    BY <1>1 DEF Inv, OnceInv, Reference
<1>7. PaidInv'
    BY <1>1 DEF Inv, PaidInv, Paying, Reference, Confirmed, UnpaidStaysPending, Credited, Credits
<1>8. QED
    BY <1>3, <1>4, <1>5, <1>6, <1>7 DEF Inv

(* Handlers that are done with a delivery, or are stopped, leave nothing   *)
(* behind but what they have saved.                                        *)
LEMMA IdlePreserves ==
    ASSUME Inv, TypeOK',
           UNCHANGED <<book, intent, paystack, tries, overlapped>>,
           \A ref \in References : link'[ref] # link[ref] =>
               link[ref] # "given" /\ link'[ref] = "failed",
           \A g \in Handlers :
               \/ pc'[g] = "idle"
               \/ /\ pc'[g] = pc[g] /\ event'[g] = event[g]
                  /\ seen'[g] = seen[g] /\ payee'[g] = payee[g]
    PROVE  Inv'
<1>1. BusyInv'
    BY DEF Inv, BusyInv, EventOf
<1>2. StatusInv'
    BY DEF Inv, StatusInv, Verifying
<1>3. AloneInv'
    BY DEF Inv, AloneInv, Reference, Verifying
<1>4. OnceInv'
    BY DEF Inv, OnceInv, Reference, Paying
<1>5. PaidInv'
    BY DEF Inv, PaidInv, Paying, Reference, UnpaidStaysPending, Credited, Credits
<1>6. QED
    BY <1>1, <1>2, <1>3, <1>4, <1>5 DEF Inv

(* Two that read one intent before either has saved it are recorded.       *)
LEMMA ReadIntentPreserves ==
    ASSUME Inv, NEW h \in Handlers, ReadIntent(h)
    PROVE  Inv'
<1> DEFINE ref == Reference(h)
<1> USE DEF tables, externals
<1>1. TypeOK /\ TypeOK'
    BY HandlerTyped DEF Inv, Handle
<1>2. pc[h] = "read" /\ ref \in References /\ event[h] \in Delivery
    BY BusyTyped DEF ReadIntent
<1>3. /\ UNCHANGED <<book, intent, link, paystack, tries, event, payee>>
      /\ seen' = [seen EXCEPT ![h] = intent[ref]]
      /\ pc' = [pc EXCEPT ![h] = IF intent[ref] = "none" THEN "ok" ELSE "verify"]
      /\ overlapped \subseteq overlapped'
      /\ ref \notin overlapped' =>
             ~\E g \in Handlers \ {h} : pc[g] \in Verifying /\ Reference(g) = ref
    BY DEF ReadIntent, Goto
<1>4. /\ seen'[h] = intent[ref]
      /\ pc'[h] = IF intent[ref] = "none" THEN "ok" ELSE "verify"
      /\ \A g \in Handlers \ {h} : pc'[g] = pc[g] /\ seen'[g] = seen[g]
    BY <1>1, <1>3 DEF TypeOK
<1> HIDE DEF ref
<1> USE <1>2, <1>3, <1>4
<1>5. BusyInv'
    BY DEF Inv, BusyInv, EventOf
<1>6. StatusInv'
    BY DEF Inv, StatusInv, Verifying
<1>7. AloneInv'
    <2>1. \A g \in Handlers : Reference(g)' = Reference(g)
        BY DEF Reference
    <2>2. QED
        BY <2>1 DEF Inv, AloneInv, Verifying, ref
<1>8. OnceInv' /\ PaidInv'
    BY DEF Inv, OnceInv, PaidInv, Paying, Reference, UnpaidStaysPending, Credited, Credits
<1>9. QED
    BY <1>1, <1>5, <1>6, <1>7, <1>8 DEF Inv

(* The status that is saved takes the place of one that was not completed, *)
(* so nobody else is paying and nothing has been credited.                 *)
LEMMA SaveIntentPreserves ==
    ASSUME Inv, NEW h \in Handlers, SaveIntent(h)
    PROVE  Inv'
<1> DEFINE ref == Reference(h)
<1> USE DEF tables, externals, history
<1>1. TypeOK /\ TypeOK'
    BY HandlerTyped DEF Inv, Handle
<1>2. pc[h] = "save" /\ ref \in References /\ event[h] \in Delivery
    BY BusyTyped DEF SaveIntent
<1>3. /\ UNCHANGED <<book, link, paystack, tries, event, seen, payee, overlapped>>
      /\ intent' = [intent EXCEPT ![ref] = Outcome(event[h].kind)]
      /\ pc' = [pc EXCEPT ![h] = IF event[h].kind = "success" THEN "find" ELSE "ok"]
    BY DEF SaveIntent, Goto
<1>4. /\ intent'[ref] = Outcome(event[h].kind)
      /\ \A x \in References \ {ref} : intent'[x] = intent[x]
      /\ pc'[h] = IF event[h].kind = "success" THEN "find" ELSE "ok"
      /\ \A g \in Handlers \ {h} : pc'[g] = pc[g]
    BY <1>1, <1>2, <1>3 DEF TypeOK
<1>5. ref \notin overlapped =>
          /\ intent[ref] # "COMPLETED"
          /\ \A g \in Handlers \ {h} : ~(pc[g] \in Verifying /\ Reference(g) = ref)
          /\ \A g \in Handlers : ~(pc[g] \in Paying /\ Reference(g) = ref)
          /\ \A e \in book : e.key.reference # ref
    BY <1>2 DEF Inv, StatusInv, AloneInv, OnceInv, Verifying, Unsettled
<1>6. paystack[ref] = "success" /\ link[ref] = "given"
    BY <1>2 DEF Inv, PaidInv, StatusInv
<1>7. /\ \A g \in Handlers : Reference(g)' = Reference(g)
      /\ \A g \in Handlers : pc[g] # "idle" => Reference(g) \in References
      /\ \A e \in book : e.key.reference \in References
    BY <1>1, <1>3, BusyTyped DEF Reference, TypeOK, Delivery
<1>8. Reference(h) = ref
    OBVIOUS
<1> HIDE DEF ref
<1> USE <1>2, <1>3, <1>4
<1>9. BusyInv'
    BY DEF Inv, BusyInv, EventOf
<1>10. StatusInv'
    BY <1>6 DEF Inv, StatusInv, Verifying
<1>11. AloneInv'
    BY <1>5, <1>7, <1>8 DEF Inv, AloneInv, Verifying
<1>12. OnceInv'
    BY <1>5, <1>7, <1>8 DEF Inv, OnceInv, Paying, Outcome
<1>13. PaidInv'
    BY <1>6, <1>7, <1>8 DEF Inv, PaidInv, Paying, UnpaidStaysPending, Credited, Credits
<1>14. QED
    BY <1>1, <1>9, <1>10, <1>11, <1>12, <1>13 DEF Inv

(* The one handler that is paying makes the one row.                       *)
LEMMA FundPreserves ==
    ASSUME Inv, NEW h \in Handlers, Fund(h), Storable(amount[Reference(h)])
    PROVE  Inv'
<1> DEFINE ref == Reference(h)  row == CreditRow(h)
<1> USE DEF tables, externals
<1>1. TypeOK /\ TypeOK'
    BY HandlerTyped DEF Inv, Handle
<1>2. pc[h] = "fund" /\ ref \in References /\ event[h] \in Delivery
    BY BusyTyped DEF Fund
<1>3. /\ UNCHANGED <<intent, link, paystack, tries, event, seen, payee, overlapped>>
      /\ book' = book \union {row}
      /\ pc' = [pc EXCEPT ![h] = "notify"]
    BY DEF Fund, Goto
<1>4. pc'[h] = "notify" /\ \A g \in Handlers \ {h} : pc'[g] = pc[g]
    BY <1>1, <1>3 DEF TypeOK
<1>5. row.wallet = payee[h] /\ row.key = event[h] /\ row.key.reference = ref
    BY DEF CreditRow, Row, Reference
<1>6. /\ \A g \in Handlers : Reference(g)' = Reference(g)
      /\ Reference(h) = ref
    BY <1>3 DEF Reference
<1>7. ref \notin overlapped =>
          /\ intent[ref] = "COMPLETED"
          /\ \A e \in book : e.key.reference # ref
          /\ \A g \in Handlers \ {h} : ~(pc[g] \in Paying /\ Reference(g) = ref)
    BY <1>2 DEF Inv, OnceInv, Paying
<1>8. paystack[ref] = "success"
    BY <1>2 DEF Inv, PaidInv, Paying
<1> HIDE DEF ref, row
<1> USE <1>2, <1>3, <1>4, <1>5, <1>6
<1>9. BusyInv' /\ StatusInv'
    BY DEF Inv, BusyInv, StatusInv, EventOf, Verifying
<1>10. AloneInv'
    BY DEF Inv, AloneInv, Verifying
<1>11. OnceInv'
    BY <1>7 DEF Inv, OnceInv, Paying
<1>12. PaidInv'
    BY <1>8 DEF Inv, PaidInv, Paying, UnpaidStaysPending, Credited, Credits
<1>13. QED
    BY <1>1, <1>9, <1>10, <1>11, <1>12 DEF Inv

LEMMA HandlePreserves ==
    ASSUME Inv, NEW h \in Handlers, Handle(h) \/ DatabaseFails(h)
    PROVE  Inv'
<1> USE DEF tables, externals, history, Working, Verifying, Answering, Paying
<1>1. TypeOK /\ TypeOK'
    BY HandlerTyped DEF Inv
<1>2. pc[h] # "idle" => Reference(h) \in References
    BY BusyTyped
<1>3. CASE Verify(h)
    <2>1. PICK place \in {"save", "ok"} :
              Goto(h, place) /\ (place = "save" => Confirmed(Reference(h)) /\ Unsettled(seen[h]))
        BY <1>3 DEF Verify
    <2>2. /\ UNCHANGED <<book, intent, link, paystack, tries, event, seen, overlapped, payee>>
          /\ pc[h] = "verify"
        BY <1>3 DEF Verify
    <2>3. QED
        BY <1>1, <2>1, <2>2, MovePreserves
<1>4. CASE FindUser(h)
    <2>1. /\ UNCHANGED <<book, intent, link, paystack, tries, event, seen, overlapped>>
          /\ pc[h] = "find" /\ Goto(h, "check")
        BY <1>4 DEF FindUser
    <2>2. PICK u \in Users : payee' = [payee EXCEPT ![h] = u]
        BY <1>4 DEF FindUser, FoundById, UserId
    <2>4. payee'[h] = u /\ \A g \in Handlers \ {h} : payee'[g] = payee[g]
        BY <1>1, <2>2 DEF TypeOK
    <2>5. QED
        BY <1>1, <2>1, <2>2, <2>4, MovePreserves
<1>5. CASE CheckWallet(h)
    <2>1. PICK place \in {"fund", "error"} : Goto(h, place)
        BY <1>5 DEF CheckWallet
    <2>2. /\ UNCHANGED <<book, intent, link, paystack, tries, event, seen, overlapped, payee>>
          /\ pc[h] = "check"
        BY <1>5 DEF CheckWallet
    <2>3. payee[h] \in Users
        BY <2>2 DEF Inv, BusyInv
    <2>4. QED
        BY <1>1, <2>1, <2>2, <2>3, MovePreserves
<1>6. CASE Fund(h)
    <2>1. CASE Storable(amount[Reference(h)])
        BY <1>6, <2>1, FundPreserves
    <2>2. CASE ~Storable(amount[Reference(h)])
        <3>1. /\ UNCHANGED <<book, intent, link, paystack, tries, event, seen, overlapped, payee>>
              /\ pc[h] = "fund" /\ Goto(h, "error")
            BY <1>6, <2>2 DEF Fund
        <3>2. QED
            BY <1>1, <3>1, MovePreserves
    <2>3. QED
        BY <2>1, <2>2
<1>7. CASE Notify(h) \/ DatabaseFails(h)
    <2>1. PICK place \in {"ok", "error"} : Goto(h, place)
        BY <1>7 DEF Notify, DatabaseFails
    <2>2. /\ UNCHANGED <<book, intent, link, paystack, tries, event, seen, overlapped, payee>>
          /\ pc[h] # "idle"
        BY <1>7 DEF Notify, DatabaseFails
    <2>3. QED
        BY <1>1, <2>1, <2>2, MovePreserves
<1>8. CASE Answer(h)
    <2>1. /\ UNCHANGED <<book, intent, link, paystack, tries, overlapped>>
          /\ pc' = [pc EXCEPT ![h] = "idle"] /\ event' = [event EXCEPT ![h] = NoEvent]
          /\ seen' = [seen EXCEPT ![h] = "none"] /\ payee' = [payee EXCEPT ![h] = Undefined]
        BY <1>8 DEF Answer, Idle, Goto
    <2>2. /\ pc'[h] = "idle"
          /\ \A g \in Handlers \ {h} :
                 /\ pc'[g] = pc[g] /\ event'[g] = event[g]
                 /\ seen'[g] = seen[g] /\ payee'[g] = payee[g]
        BY <1>1, <2>1 DEF TypeOK
    <2>3. \A g \in Handlers :
              \/ pc'[g] = "idle"
              \/ /\ pc'[g] = pc[g] /\ event'[g] = event[g]
                 /\ seen'[g] = seen[g] /\ payee'[g] = payee[g]
        BY <2>2
    <2>4. \A ref \in References : link'[ref] = link[ref]
        BY <2>1
    <2>5. UNCHANGED <<book, intent, paystack, tries, overlapped>>
        BY <2>1
    <2>6. QED
        BY <1>1, <2>3, <2>4, <2>5, IdlePreserves
<1>9. QED
    BY <1>3, <1>4, <1>5, <1>6, <1>7, <1>8, ReadIntentPreserves, SaveIntentPreserves DEF Handle

LEMMA CrashPreserves ==
    ASSUME Inv, Crash
    PROVE  Inv'
<1> USE DEF tables
<1>1. TypeOK
    BY DEF Inv
<1>2. /\ UNCHANGED <<amount, active, book, balance, intent, paystack, due, tries, overlapped>>
      /\ pc' = [h \in Handlers |-> "idle"]
      /\ event' = [h \in Handlers |-> NoEvent]
      /\ seen' = [h \in Handlers |-> "none"]
      /\ payee' = [h \in Handlers |-> Undefined]
      /\ link' = [ref \in References |->
                      IF link[ref] = "saved" THEN "failed" ELSE link[ref]]
      /\ failed' = failed \union UNION {Failures(h) : h \in Handlers}
    BY DEF Crash, externals
<1>3. \A h \in Handlers : Failures(h) \subseteq
          [delivery: Delivery, how: {"beforeSave", "afterSave", "unverified"}]
    BY BusyTyped DEF Failures, Paying, Verifying
<1>4. TypeOK'
    BY <1>1, <1>2, <1>3 DEF TypeOK
<1>5. \A ref \in References : link'[ref] # link[ref] =>
          link[ref] # "given" /\ link'[ref] = "failed"
    BY <1>1, <1>2 DEF TypeOK
<1>6. \A g \in Handlers : pc'[g] = "idle"
    BY <1>2
<1>7. UNCHANGED <<book, intent, paystack, tries, overlapped>>
    BY <1>2
<1>8. QED
    BY <1>4, <1>5, <1>6, <1>7, IdlePreserves

(* A step that leaves all but the switches of the wallets alone.           *)
LEMMA SwitchPreserves ==
    ASSUME Inv, active' \in [Users -> BOOLEAN],
           UNCHANGED <<amount, tables, intent, link, externals, handler, history>>
    PROVE  Inv'
<1> USE DEF tables, externals, handler, history
<1>1. TypeOK'
    BY DEF Inv, TypeOK
<1>2. \A ref \in References : link'[ref] = link[ref]
    OBVIOUS
<1>3. \A g \in Handlers :
          /\ pc'[g] = pc[g] /\ event'[g] = event[g]
          /\ seen'[g] = seen[g] /\ payee'[g] = payee[g]
    OBVIOUS
<1>4. UNCHANGED <<book, intent, paystack, tries, overlapped>>
    OBVIOUS
<1>5. QED
    BY <1>1, <1>2, <1>3, <1>4, IdlePreserves

(* Every step keeps the invariant.                                         *)
LEMMA NextPreserves == Inv /\ [Next]_vars => Inv'
<1> SUFFICES ASSUME Inv, [Next]_vars PROVE Inv'
    OBVIOUS
<1>1. CASE \E u \in Switchable : SwitchWallet(u)
    <2>1. active' \in [Users -> BOOLEAN]
        BY <1>1, SwitchableAssumption DEF SwitchWallet, Inv, TypeOK
    <2>2. QED
        BY <1>1, <2>1, SwitchPreserves DEF SwitchWallet
<1>2. CASE UNCHANGED vars
    BY <1>2, SwitchPreserves DEF vars, Inv, TypeOK
<1>3. QED
    BY <1>1, <1>2, LinkPreserves, DeliverPreserves, HandlePreserves, CrashPreserves
    DEF Next

(* Inv holds in every reachable state.                                     *)
THEOREM Invariance == Spec => []Inv
<1>1. Init => Inv
    BY InitInv
<1>2. Inv /\ [Next]_vars => Inv'
    BY NextPreserves
<1>3. QED
    BY <1>1, <1>2, PTL DEF Spec

-----------------------------------------------------------------------------
(* What follows from it.                                                   *)

(* Every variable keeps its type.                                          *)
THEOREM TypeCorrect == Spec => []TypeOK
<1>1. Inv => TypeOK
    BY DEF Inv
<1>2. QED
    BY <1>1, Invariance, PTL

(* A payment is credited at most once, whatever deliveries, retries and    *)
(* crashes, unless two handlers verify it at once.                         *)
THEOREM CreditedOnce == Spec => []CreditedOnceUnlessOverlapped
<1>1. Inv => CreditedOnceUnlessOverlapped
    BY DEF Inv, OnceInv, CreditedOnceUnlessOverlapped, AtMostOnce, Credits
<1>2. QED
    BY <1>1, Invariance, PTL

(* No event is believed of a payment that Paystack has not confirmed.      *)
THEOREM UnpaidIsIgnored == Spec => []UnpaidStaysPending
<1>1. Inv => UnpaidStaysPending
    BY DEF Inv, PaidInv
<1>2. QED
    BY <1>1, Invariance, PTL

(* The status of a completed intent is not taken back, unless two handlers *)
(* verify the payment at once.                                             *)
THEOREM CompletedStays == Spec => CompletedIsFinal
<1> DEFINE Final == \A ref \in References \ overlapped' :
                       intent[ref] = "COMPLETED" => intent'[ref] = "COMPLETED"
<1>1. Inv /\ [Next]_vars => [Final]_vars
    <2> SUFFICES ASSUME Inv, Next, NEW ref \in References \ overlapped',
                        intent[ref] = "COMPLETED"
                 PROVE  intent'[ref] = "COMPLETED"
        OBVIOUS
    <2>1. TypeOK
        BY DEF Inv
    <2>2. CASE \E h \in Handlers : SaveIntent(h)
        <3>1. PICK h \in Handlers : SaveIntent(h)
            BY <2>2
        <3>2. Reference(h) \notin overlapped => intent[Reference(h)] # "COMPLETED"
            BY <3>1 DEF SaveIntent, Inv, StatusInv, AloneInv, Verifying, Unsettled
        <3>3. QED
            BY <2>1, <3>1, <3>2 DEF SaveIntent, history, TypeOK
    <2>3. CASE \E r \in References : SaveNewIntent(r)
        BY <2>1, <2>3 DEF SaveNewIntent, Inv, StatusInv, TypeOK
    <2>4. CASE UNCHANGED intent
        BY <2>4
    <2>5. QED
        BY <2>2, <2>3, <2>4
        DEF Next, Handle, InitializePayment, Pay, ReportOther, Deliver, DatabaseFails,
            ReadIntent, Verify, FindUser, CheckWallet, Fund, Notify, Answer, Crash,
            SwitchWallet
<1>2. QED
    BY <1>1, Invariance, PTL DEF Spec, CompletedIsFinal

=============================================================================
