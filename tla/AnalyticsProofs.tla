-------------------------- MODULE AnalyticsProofs --------------------------
(***************************************************************************)
(* Proofs about Analytics, for any number of users and jobs of any amount: *)
(* its types, that no jobs wait for one another in a circle, that no       *)
(* wallet is counted as active twice, and that the rows add up to what     *)
(* happened.  Inv is the inductive invariant of the first three: it ties   *)
(* where a job is in its calls to the locks it holds, which shows the      *)
(* order in which locks are taken.  HistoryInv adds what the last needs:   *)
(* which of its events each job has saved, what the rows it has read and   *)
(* not yet committed come to, and the sums over all of the rows.  CoverInv *)
(* bounds the totals where updates are lost, and the reports add up by     *)
(* HistoryInv and the laws of sums.                                        *)
(***************************************************************************)
EXTENDS Analytics, Sums, TLAPS

Op(j) == Current(j).op
Saving == {"select", "update", "insert"}
RowOf(op) == IF op = "stats" THEN StatsRow ELSE SnapshotRow

(* Which call a job is making, at each of its places.                      *)
PlaceOf(j) ==
    /\ step[j] = "start" => at[j] = 0
    /\ step[j] # "start" => at[j] \in 1..Len(Calls(j))
    /\ step[j] = "post" => Op(j) = "post"
    /\ step[j] = "count" => Op(j) = "mark"
    /\ step[j] = "find" => Op(j) # "post"
    /\ step[j] = "create" => Op(j) \notin {"post", "stats"}
    /\ step[j] \in Saving => Op(j) \notin {"post", "look"}
    /\ step[j] = "event" => Op(j) = "record"
    /\ step[j] = "commit" => Transactional(j)

(* What it saves, and to which row.                                        *)
MemoryOf(j) ==
    /\ step[j] \in Saving =>
           /\ memory[j] \in RowOf(Op(j))
           /\ IF Op(j) = "stats" THEN target[j] = Stats(Current(j).user)
              ELSE target[j] \in Snapshots /\ step[j] # "insert" /\ Sees(j, target[j])
    /\ step[j] = "update" => base[j] \in RowOf(Op(j)) /\ Sees(j, target[j])

(* Only an open transaction holds locks.  Those on a user's stats are held *)
(* by one about to be committed; those on totals by one that goes on to    *)
(* the stats, or has made the row itself and is saving it.                 *)
LocksOf(j) ==
    /\ held[j] # {} => Transactional(j) /\ Running(j) /\ step[j] # "post"
    /\ DOMAIN mine[j] # {} =>
           Transactional(j) /\ Running(j) /\ step[j] \notin {"post", "count", "create"}
    /\ \A id \in DOMAIN mine[j] :
           \/ step[j] = "commit"
           \/ /\ id \in Snapshots
              /\ step[j] = "event" \/ (Op(j) = "stats" /\ step[j] \in {"find"} \union Saving)
           \/ /\ id = Snapshot(j) /\ target[j] = id /\ id \notin DOMAIN rows
              /\ step[j] \in {"select", "update"}
    /\ step[j] = "create" => Snapshot(j) \notin DOMAIN rows

(* Another's new row of totals is not written before it is committed.      *)
FreshInv ==
    \A p, q \in Jobs :
        p # q /\ Snapshot(q) \in DOMAIN mine[p] => Snapshot(q) \in DOMAIN rows

Inv ==
    /\ TypeOK
    /\ DOMAIN at = Jobs /\ DOMAIN mine = Jobs /\ DOMAIN target = Jobs
    /\ \A j \in Jobs : PlaceOf(j) /\ MemoryOf(j) /\ LocksOf(j)
    /\ FreshInv

-----------------------------------------------------------------------------

(* A snapshot is not a user's row, and known by its job.                   *)
LEMMA KeysDiffer ==
    /\ \A j, q : Snapshot(j) = Snapshot(q) => j = q
    /\ \A j, u : Snapshot(j) # Stats(u)
    /\ \A u : Stats(u) \notin Snapshots
BY DEF Snapshot, Stats, Snapshots

(* The calls of each kind of job.                                          *)
LEMMA CallsAre ==
    ASSUME NEW j \in Jobs
    PROVE  /\ Work[j].kind \in {"signup", "report"} =>
                  /\ Len(Calls(j)) = 1
                  /\ Calls(j)[1].op = IF Work[j].kind = "signup" THEN "join" ELSE "look"
           /\ Work[j].kind \in {"topup", "cashout"} =>
                  /\ Len(Calls(j)) = 3
                  /\ Calls(j)[1].op = "post" /\ Calls(j)[2].op = "record" /\ Calls(j)[3].op = "stats"
           /\ Work[j].kind = "transfer" =>
                  /\ Len(Calls(j)) = 6
                  /\ Calls(j)[1].op = "record" /\ Calls(j)[2].op = "record"
                  /\ Calls(j)[3].op = "stats" /\ Calls(j)[4].op = "stats"
                  /\ Calls(j)[5].op = "mark" /\ Calls(j)[6].op = "mark"
                  /\ Calls(j)[5].user = Work[j].user /\ Calls(j)[6].user = Work[j].to
           /\ \A i \in 1..Len(Calls(j)) :
                  /\ Calls(j)[i].user \in Users
                  /\ Calls(j)[i].op \in {"record", "stats"} => Calls(j)[i].type \in {"CREDIT", "DEBIT"}
           /\ Work[j].kind \in {"signup", "topup", "cashout", "report", "transfer"}
           /\ Work[j].amount \in Nat \ {0}
<1>1. Work[j] \in Job
    BY WorkAssumption
<1>2. CASE Work[j].kind = "signup"
    BY <1>1, <1>2 DEF Calls, Call, InTransaction, Job
<1>3. CASE Work[j].kind = "report"
    BY <1>1, <1>3 DEF Calls, Call, InTransaction, Job
<1>4. CASE Work[j].kind = "topup"
    BY <1>1, <1>4 DEF Calls, Call, InTransaction, Job
<1>5. CASE Work[j].kind = "cashout"
    BY <1>1, <1>5 DEF Calls, Call, InTransaction, Job
<1>6. CASE Work[j].kind = "transfer"
    BY <1>1, <1>6 DEF Calls, Call, InTransaction, Job
<1>7. QED
    BY <1>1, <1>2, <1>3, <1>4, <1>5, <1>6 DEF Job

(* What a job that is at a call does in it.                                *)
LEMMA CurrentIs ==
    ASSUME NEW j \in Jobs, at[j] \in 1..Len(Calls(j))
    PROVE  /\ Op(j) \in {"post", "record", "stats", "join", "look", "mark"}
           /\ Current(j).user \in Users
           /\ Op(j) \in {"record", "stats"} => Current(j).type \in {"CREDIT", "DEBIT"}
           /\ Transactional(j) <=> Work[j].kind \in {"signup", "topup", "cashout"}
           /\ Transactional(j) => Op(j) \in {"post", "record", "stats", "join"}
           /\ Op(j) = "post" => Transactional(j) /\ at[j] = 1
<1>1. CASE Work[j].kind \in {"signup", "report"}
    BY <1>1, CallsAre DEF Op, Current, Transactional
<1>2. CASE Work[j].kind \in {"topup", "cashout"}
    <2>1. at[j] = 1 \/ at[j] = 2 \/ at[j] = 3
        BY <1>2, CallsAre
    <2>2. QED
        BY <1>2, <2>1, CallsAre DEF Op, Current, Transactional
<1>3. CASE Work[j].kind = "transfer"
    <2>1. at[j] \in 1..6
        BY <1>3, CallsAre
    <2>2. at[j] = 1 \/ at[j] = 2 \/ at[j] = 3 \/ at[j] = 4 \/ at[j] = 5 \/ at[j] = 6
        BY <2>1
    <2>3. QED
        BY <1>3, <2>2, CallsAre DEF Op, Current, Transactional
<1>4. QED
    BY <1>1, <1>2, <1>3, CallsAre

(* Where NextCall leads.                                                   *)
LEMMA NextCallGoes ==
    ASSUME Inv, NEW j \in Jobs, NextCall(j)
    PROVE  /\ \A q \in Jobs \ {j} : at'[q] = at[q] /\ step'[q] = step[q]
           /\ DOMAIN at' = Jobs /\ at'[j] \in 1..Len(Calls(j))
           /\ at'[j] = at[j] \/ at'[j] = at[j] + 1
           /\ step' = [step EXCEPT ![j] = step'[j]]
           /\ step'[j] \in {"post", "count", "find", "commit", "done"}
           /\ PlaceOf(j)'
           /\ Transactional(j) =>
                  /\ at[j] # 0 => step'[j] \in {"find", "commit"}
                  /\ at[j] # 0 /\ Op(j) = "record" => step'[j] = "find" /\ Op(j)' = "stats"
                  /\ at[j] # 0 /\ Op(j) \in {"stats", "join"} => step'[j] = "commit"
<1>1. /\ DOMAIN at = Jobs /\ step \in [Jobs -> {"start", "post", "count", "find", "create",
                   "select", "update", "insert", "event", "commit"} \union Ended]
      /\ at[j] \in 0..Len(Calls(j))
    BY DEF Inv, TypeOK
<1>2. Len(Calls(j)) \in {1, 3, 6}
    BY CallsAre
<1>3. CASE at[j] < Len(Calls(j))
    <2>1. /\ at' = [at EXCEPT ![j] = at[j] + 1]
          /\ step' = [step EXCEPT ![j] = FirstStep(Calls(j)[at[j] + 1])]
        BY <1>3 DEF NextCall
    <2>2. /\ at'[j] = at[j] + 1 /\ at'[j] \in 1..Len(Calls(j)) /\ DOMAIN at' = Jobs
          /\ \A q \in Jobs \ {j} : at'[q] = at[q] /\ step'[q] = step[q]
          /\ step'[j] = FirstStep(Calls(j)[at[j] + 1])
        BY <1>1, <1>2, <1>3, <2>1
    <2>3. Op(j)' = Calls(j)[at[j] + 1].op
        BY <2>2 DEF Op, Current, Calls, InTransaction
    <2>4. /\ Op(j)' = "post" <=> step'[j] = "post"
          /\ Op(j)' = "mark" <=> step'[j] = "count"
          /\ Op(j)' \notin {"post", "mark"} <=> step'[j] = "find"
        BY <2>2, <2>3 DEF FirstStep
    <2>5. PlaceOf(j)' /\ step'[j] \in {"post", "count", "find"}
        BY <2>2, <2>4 DEF PlaceOf, Saving, Calls, InTransaction, Call
    <2>6. ASSUME Transactional(j), at[j] # 0
          PROVE  /\ step'[j] = "find" /\ Op(j) \notin {"stats", "join"}
                 /\ Op(j) = "record" => Op(j)' = "stats"
        <3>1. Work[j].kind \in {"topup", "cashout"}
            BY <1>1, <1>3, <2>6, CallsAre DEF Transactional
        <3>2. at[j] = 1 \/ at[j] = 2
            BY <1>1, <1>3, <2>6, <3>1, CallsAre
        <3>3. CASE at[j] = 1
            BY <2>3, <2>4, <2>5, <3>1, <3>3, CallsAre DEF Op, Current
        <3>4. CASE at[j] = 2
            BY <2>3, <2>4, <2>5, <3>1, <3>4, CallsAre DEF Op, Current
        <3>5. QED
            BY <3>2, <3>3, <3>4
    <2>7. QED
        BY <2>1, <2>2, <2>5, <2>6
<1>4. CASE ~(at[j] < Len(Calls(j)))
    <2>1. at[j] = Len(Calls(j)) /\ at[j] # 0
        <3>1. \A n \in {1, 3, 6} : \A i \in 0..n : ~(i < n) => i = n /\ i # 0
            OBVIOUS
        <3>2. QED
            BY <1>1, <1>2, <1>4, <3>1
    <2>2. /\ step' = [step EXCEPT ![j] = IF Transactional(j) THEN "commit" ELSE "done"]
          /\ at' = at
        BY <1>4 DEF NextCall, Goto
    <2>3. PlaceOf(j)'
        <3>1. at'[j] \in 1..Len(Calls(j))
            BY <1>2, <2>1, <2>2
        <3>2. step'[j] = IF Transactional(j) THEN "commit" ELSE "done"
            BY <1>1, <2>2
        <3>3. QED
            BY <3>1, <3>2 DEF PlaceOf, Saving, Transactional
    <2>4. Transactional(j) => Op(j) \notin {"record", "post"}
        BY <2>1, CallsAre DEF Op, Current, Transactional
    <2>5. QED
        BY <1>1, <1>2, <2>1, <2>2, <2>3, <2>4
<1>5. QED
    BY <1>3, <1>4

(* Where Goto leads.                                                       *)
LEMMA GotoGoes ==
    ASSUME Inv, NEW j \in Jobs, NEW place, Goto(j, place)
    PROVE  /\ at' = at /\ step'[j] = place /\ step' = [step EXCEPT ![j] = step'[j]]
           /\ \A q \in Jobs \ {j} : step'[q] = step[q]
           /\ Op(j)' = Op(j) /\ Current(j)' = Current(j)
           /\ DOMAIN at' = Jobs
BY DEF Inv, TypeOK, Goto, Op, Current, Calls, InTransaction, Call

-----------------------------------------------------------------------------
(* Rows.                                                                   *)

LEMMA PlusTyped ==
    ASSUME NEW n \in Nat, NEW row, NEW column
    PROVE  /\ row \in SnapshotRow /\ column \in {"count", "value", "users", "active"} =>
                  Plus(row, column, n) \in SnapshotRow
           /\ row \in StatsRow /\ column \in {"credit", "debit", "volume"} =>
                  Plus(row, column, n) \in StatsRow
BY DEF Plus, SnapshotRow, StatsRow

LEMMA AppliedTyped ==
    ASSUME NEW j \in Jobs, at[j] \in 1..Len(Calls(j)), Op(j) # "post", NEW row \in RowOf(Op(j))
    PROVE  Applied(j, row) \in RowOf(Op(j))
<1>1. /\ Op(j) \in {"record", "stats", "join", "look", "mark"}
      /\ Op(j) \in {"record", "stats"} => Current(j).type \in {"CREDIT", "DEBIT"}
    BY CurrentIs
<1>2. Work[j].amount \in Nat /\ Kobo(Work[j].amount) \in Nat /\ 1 \in Nat
    BY CallsAre DEF Kobo
<1>3. CASE Op(j) = "stats"
    <2>1. row \in StatsRow
        BY <1>3 DEF RowOf
    <2>2. Applied(j, row) \in StatsRow
        BY <1>1, <1>2, <1>3, <2>1, PlusTyped DEF Applied, Op
    <2>3. QED
        BY <1>3, <2>2 DEF RowOf
<1>4. CASE Op(j) # "stats"
    <2>1. row \in SnapshotRow
        BY <1>4 DEF RowOf
    <2>2. Applied(j, row) \in SnapshotRow
        BY <1>1, <1>2, <1>4, <2>1, PlusTyped DEF Applied, Op
    <2>3. QED
        BY <1>4, <2>2 DEF RowOf
<1>5. QED
    BY <1>3, <1>4

LEMMA MergedTyped ==
    ASSUME NEW j \in Jobs, NEW op, memory[j] \in RowOf(op), base[j] \in RowOf(op),
           NEW row \in RowOf(op)
    PROVE  Merged(j, row) \in RowOf(op)
<1>1. CASE op = "stats"
    BY <1>1 DEF Merged, RowOf, StatsRow
<1>2. CASE op # "stats"
    BY <1>2 DEF Merged, RowOf, SnapshotRow
<1>3. QED
    BY <1>1, <1>2

(* The row of a call: one of the totals, or the user's.                    *)
RowIdOf(op, id) == IF op = "stats" THEN \E u \in Users : id = Stats(u) ELSE id \in Snapshots

LEMMA SeenTyped ==
    ASSUME Inv, NEW j \in Jobs, NEW id, NEW op, Sees(j, id), RowIdOf(op, id)
    PROVE  Seen(j, id) \in RowOf(op)
<1>1. IsTable(rows) /\ IsTable(mine[j])
    BY DEF Inv, TypeOK
<1>2. CASE id \in DOMAIN mine[j]
    BY <1>1, <1>2, KeysDiffer DEF Seen, IsTable, RowIdOf, RowOf
<1>3. CASE id \notin DOMAIN mine[j]
    BY <1>1, <1>3, KeysDiffer DEF Seen, Sees, IsTable, RowIdOf, RowOf
<1>4. QED
    BY <1>2, <1>3

LEMMA Written ==
    ASSUME Inv, NEW j \in Jobs, NEW id, NEW op, NEW row \in RowOf(op), RowIdOf(op, id),
           Write(j, id, row)
    PROVE  /\ IsTable(rows') /\ \A q \in Jobs : IsTable(mine'[q])
           /\ DOMAIN mine' = Jobs /\ \A q \in Jobs \ {j} : mine'[q] = mine[q]
           /\ IF Transactional(j)
              THEN rows' = rows /\ DOMAIN mine'[j] = DOMAIN mine[j] \union {id}
              ELSE mine' = mine /\ DOMAIN rows' = DOMAIN rows \union {id}
<1>1. IsTable(rows) /\ (\A q \in Jobs : IsTable(mine[q])) /\ DOMAIN mine = Jobs
    BY DEF Inv, TypeOK
<1>2. ASSUME NEW f, IsTable(f) PROVE IsTable(Put(f, id, row)) /\ DOMAIN Put(f, id, row) = DOMAIN f \union {id}
    <2>1. \/ id \in Snapshots /\ row \in SnapshotRow
          \/ id \in {Stats(u) : u \in Users} /\ row \in StatsRow
        BY DEF RowIdOf, RowOf
    <2>2. QED
        BY <1>2, <2>1 DEF IsTable, Put
<1>3. CASE Transactional(j)
    <2>1. mine' = [mine EXCEPT ![j] = Put(mine[j], id, row)] /\ rows' = rows
        BY <1>3 DEF Write
    <2>2. mine'[j] = Put(mine[j], id, row) /\ \A q \in Jobs \ {j} : mine'[q] = mine[q]
        BY <1>1, <2>1
    <2>3. IsTable(mine'[j]) /\ DOMAIN mine'[j] = DOMAIN mine[j] \union {id}
        BY <1>1, <1>2, <2>2
    <2>4. \A q \in Jobs : IsTable(mine'[q])
        BY <1>1, <2>2, <2>3
    <2>5. IsTable(rows')
        BY <1>1, <2>1
    <2>6. QED
        BY <1>1, <1>3, <2>1, <2>2, <2>3, <2>4, <2>5
<1>4. CASE ~Transactional(j)
    <2>1. rows' = Put(rows, id, row) /\ mine' = mine
        BY <1>4 DEF Write
    <2>2. IsTable(rows') /\ DOMAIN rows' = DOMAIN rows \union {id}
        BY <1>1, <1>2, <2>1
    <2>3. QED
        BY <1>1, <1>4, <2>1, <2>2
<1>5. QED
    BY <1>3, <1>4

-----------------------------------------------------------------------------
(* Every action keeps the invariant.                                       *)

(* A step of one job leaves the others where they are.                     *)
LEMMA OthersKeep ==
    ASSUME Inv, NEW j \in Jobs,
           \A q \in Jobs \ {j} :
               /\ at'[q] = at[q] /\ step'[q] = step[q] /\ target'[q] = target[q]
               /\ memory'[q] = memory[q] /\ base'[q] = base[q]
               /\ mine'[q] = mine[q] /\ held'[q] = held[q],
           DOMAIN rows \subseteq DOMAIN rows',
           \A q \in Jobs \ {j} :
               Snapshot(q) \in DOMAIN rows' \union DOMAIN mine'[j] => Snapshot(q) \in DOMAIN rows,
           DOMAIN at' = Jobs, DOMAIN mine' = Jobs, DOMAIN target' = Jobs,
           TypeOK', PlaceOf(j)', MemoryOf(j)', LocksOf(j)'
    PROVE  Inv'
<1>1. ASSUME NEW q \in Jobs \ {j} PROVE PlaceOf(q)' /\ MemoryOf(q)' /\ LocksOf(q)'
    <2>1. PlaceOf(q) /\ MemoryOf(q) /\ LocksOf(q)
        BY DEF Inv
    <2>2. /\ at'[q] = at[q] /\ step'[q] = step[q] /\ target'[q] = target[q]
          /\ memory'[q] = memory[q] /\ base'[q] = base[q]
          /\ mine'[q] = mine[q] /\ held'[q] = held[q]
        OBVIOUS
    <2>3. Current(q)' = Current(q) /\ Op(q)' = Op(q)
        BY <2>2 DEF Current, Op
    <2>4. PlaceOf(q)'
        BY <2>1, <2>2, <2>3 DEF PlaceOf
    <2>5. MemoryOf(q)'
        BY <2>1, <2>2, <2>3 DEF MemoryOf, Sees
    <2>6. LocksOf(q)'
        BY <2>1, <2>2, <2>3 DEF LocksOf, Running
    <2>7. QED
        BY <2>4, <2>5, <2>6
<1>2. FreshInv'
    BY DEF Inv, FreshInv
<1>3. QED
    BY <1>1, <1>2 DEF Inv

(* Where a job is, typed.                                                  *)
LEMMA PlaceTyped ==
    ASSUME Inv, NEW j \in Jobs, NEW place, step' = [step EXCEPT ![j] = place],
           place \in {"start", "post", "count", "find", "create", "select",
                      "update", "insert", "event", "commit"} \union Ended,
           \A q \in Jobs \ {j} : at'[q] = at[q], at'[j] \in 0..Len(Calls(j))
    PROVE  /\ step' \in [Jobs -> {"start", "post", "count", "find", "create", "select",
                                  "update", "insert", "event", "commit"} \union Ended]
           /\ \A q \in Jobs : at'[q] \in 0..Len(Calls(q))
<1>1. \A q \in Jobs : at[q] \in 0..Len(Calls(q))
    BY DEF Inv, TypeOK
<1>2. \A q \in Jobs : at'[q] \in 0..Len(Calls(q))
    BY <1>1
<1>3. QED
    BY <1>2 DEF Inv, TypeOK

LEMMA BeginPreserves ==
    ASSUME Inv, NEW j \in Jobs, Begin(j)
    PROVE  Inv'
<1> USE DEF open, local, history
<1>1. /\ step[j] = "start" /\ NextCall(j)
      /\ UNCHANGED <<rows, events, mine, noted, held, target, memory, base, found, marks>>
    BY DEF Begin
<1>2. /\ \A q \in Jobs \ {j} : at'[q] = at[q] /\ step'[q] = step[q]
      /\ DOMAIN at' = Jobs /\ at'[j] \in 1..Len(Calls(j)) /\ PlaceOf(j)'
      /\ step' = [step EXCEPT ![j] = step'[j]]
      /\ step'[j] \in {"post", "count", "find", "commit", "done"}
    BY <1>1, NextCallGoes
<1>3. DOMAIN mine[j] = {} /\ held[j] = {} /\ DOMAIN mine = Jobs /\ DOMAIN target = Jobs
    BY <1>1 DEF Inv, LocksOf, Running
<1>4. TypeOK'
    <2>1. ledger' \in [Users -> Nat]
        BY DEF Begin, Inv, TypeOK
    <2>2. at'[j] \in 0..Len(Calls(j))
        BY <1>2, CallsAre
    <2>3. QED
        BY <1>1, <1>2, <2>1, <2>2, PlaceTyped DEF Inv, TypeOK, Ended
<1>5. MemoryOf(j)'
    BY <1>2 DEF MemoryOf, Saving
<1>6. LocksOf(j)'
    BY <1>1, <1>2, <1>3 DEF LocksOf
<1>7. QED
    BY <1>1, <1>2, <1>3, <1>4, <1>5, <1>6, OthersKeep

LEMMA PostPreserves ==
    ASSUME Inv, NEW j \in Jobs, Post(j)
    PROVE  Inv'
<1> USE DEF tables, local, history
<1>1. /\ step[j] = "post" /\ NextCall(j)
      /\ held' = [held EXCEPT ![j] = held[j] \union {Current(j).user}]
      /\ UNCHANGED <<rows, events, ledger, mine, noted, target, memory, base, found, marks>>
    BY DEF Post
<1>2. /\ \A q \in Jobs \ {j} : at'[q] = at[q] /\ step'[q] = step[q]
      /\ DOMAIN at' = Jobs /\ at'[j] \in 1..Len(Calls(j)) /\ PlaceOf(j)'
      /\ step' = [step EXCEPT ![j] = step'[j]]
      /\ step'[j] \in {"post", "count", "find", "commit", "done"}
      /\ Transactional(j) /\ at[j] # 0 => step'[j] \in {"find", "commit"}
    BY <1>1, NextCallGoes
<1>3. /\ at[j] \in 1..Len(Calls(j)) /\ at[j] # 0 /\ Op(j) = "post"
      /\ DOMAIN mine[j] = {} /\ DOMAIN mine = Jobs /\ DOMAIN target = Jobs
    <2>1. at[j] \in 1..Len(Calls(j)) /\ Op(j) = "post"
        BY <1>1 DEF Inv, PlaceOf
    <2>2. at[j] # 0
        BY <2>1, CallsAre
    <2>3. QED
        BY <1>1, <2>1, <2>2 DEF Inv, LocksOf
<1>4. Transactional(j) /\ Current(j).user \in Users
    BY <1>3, CurrentIs
<1>5. TypeOK'
    <2>1. held' \in [Jobs -> SUBSET Users]
        BY <1>1, <1>4 DEF Inv, TypeOK
    <2>2. at'[j] \in 0..Len(Calls(j))
        BY <1>2, CallsAre
    <2>3. QED
        BY <1>1, <1>2, <2>1, <2>2, PlaceTyped DEF Inv, TypeOK, Ended
<1>6. MemoryOf(j)'
    BY <1>2 DEF MemoryOf, Saving
<1>7. LocksOf(j)'
    BY <1>1, <1>2, <1>3, <1>4 DEF LocksOf, Running, Ended
<1>8. \A q \in Jobs \ {j} : held'[q] = held[q]
    BY <1>1 DEF Inv, TypeOK
<1>9. QED
    BY <1>1, <1>2, <1>3, <1>5, <1>6, <1>7, <1>8, OthersKeep

LEMMA CountPreserves ==
    ASSUME Inv, NEW j \in Jobs, CountTransactions(j)
    PROVE  Inv'
<1> USE DEF tables, open, local
<1>1. /\ step[j] = "count"
      /\ UNCHANGED <<rows, events, ledger, mine, noted, held, target, memory, base, found>>
    BY DEF CountTransactions
<1>2. at[j] \in 1..Len(Calls(j)) /\ Op(j) = "mark"
    BY <1>1 DEF Inv, PlaceOf
<1>3. /\ ~Transactional(j) /\ Current(j).user \in Users
      /\ DOMAIN mine[j] = {} /\ held[j] = {} /\ DOMAIN mine = Jobs /\ DOMAIN target = Jobs
    BY <1>2, CurrentIs DEF Inv, LocksOf
<1>4. /\ \A q \in Jobs \ {j} : at'[q] = at[q] /\ step'[q] = step[q]
      /\ DOMAIN at' = Jobs /\ at'[j] \in 1..Len(Calls(j)) /\ PlaceOf(j)'
      /\ step' = [step EXCEPT ![j] = step'[j]]
      /\ step'[j] \in {"post", "count", "find", "commit", "done"}
    <2>1. CASE NextCall(j)
        BY <2>1, NextCallGoes
    <2>2. CASE Goto(j, "find")
        <3>1. /\ at' = at /\ step'[j] = "find" /\ step' = [step EXCEPT ![j] = step'[j]]
              /\ \A q \in Jobs \ {j} : step'[q] = step[q]
              /\ Op(j)' = Op(j) /\ DOMAIN at' = Jobs
            BY <2>2, GotoGoes
        <3>2. PlaceOf(j)'
            BY <1>2, <3>1 DEF PlaceOf, Saving
        <3>3. QED
            BY <1>2, <3>1, <3>2
    <2>3. QED
        BY <2>1, <2>2 DEF CountTransactions
<1>5. TypeOK'
    <2>1. marks' \in [Users -> Nat]
        <3>1. marks \in [Users -> Nat]
            BY DEF Inv, TypeOK
        <3>2. marks' = marks \/ marks' = [marks EXCEPT ![Current(j).user] = @ + 1]
            BY DEF CountTransactions
        <3>3. QED
            BY <1>3, <3>1, <3>2
    <2>2. at'[j] \in 0..Len(Calls(j))
        BY <1>4, CallsAre
    <2>3. QED
        BY <1>1, <1>4, <2>1, <2>2, PlaceTyped DEF Inv, TypeOK, Ended
<1>6. MemoryOf(j)'
    BY <1>4 DEF MemoryOf, Saving
<1>7. LocksOf(j)'
    BY <1>1, <1>3, <1>4 DEF LocksOf
<1>8. QED
    BY <1>1, <1>3, <1>4, <1>5, <1>6, <1>7, OthersKeep

LEMMA FindSnapshotPreserves ==
    ASSUME Inv, NEW j \in Jobs, FindSnapshot(j)
    PROVE  Inv'
<1> USE DEF tables, open, history
<1>1. /\ step[j] = "find" /\ Op(j) # "stats"
      /\ UNCHANGED <<rows, events, ledger, mine, noted, held, base, marks>>
    BY DEF FindSnapshot, Op
<1>2. at[j] \in 1..Len(Calls(j)) /\ Op(j) # "post" /\ LocksOf(j)
    BY <1>1 DEF Inv, PlaceOf
<1>3. /\ DOMAIN mine[j] = {} /\ DOMAIN mine = Jobs
      /\ held[j] # {} => Transactional(j)
    BY <1>1, <1>2 DEF Inv, LocksOf
<1>4. CASE \A id \in Snapshots : ~Sees(j, id)
    <2>1. Goto(j, "create") /\ UNCHANGED <<target, found, memory>>
        BY <1>4 DEF FindSnapshot
    <2>2. /\ at' = at /\ step'[j] = "create" /\ step' = [step EXCEPT ![j] = step'[j]]
          /\ \A q \in Jobs \ {j} : step'[q] = step[q]
          /\ Op(j)' = Op(j) /\ DOMAIN at' = Jobs
        BY <2>1, GotoGoes
    <2>3. PlaceOf(j)' /\ MemoryOf(j)'
        BY <1>1, <1>2, <2>2 DEF PlaceOf, MemoryOf, Saving
    <2>4. Snapshot(j) \notin DOMAIN rows
        BY <1>4 DEF Snapshots, Sees
    <2>5. LocksOf(j)'
        BY <1>1, <1>3, <2>2, <2>4 DEF LocksOf, Running, Ended
    <2>6. TypeOK'
        BY <1>1, <1>2, <2>1, <2>2, PlaceTyped DEF Inv, TypeOK, Ended
    <2>7. QED
        BY <1>1, <1>3, <2>1, <2>2, <2>3, <2>5, <2>6, OthersKeep DEF Inv
<1>5. CASE \E id \in Snapshots : Sees(j, id)
    <2>1. PICK id \in Snapshots :
              /\ Sees(j, id)
              /\ target' = [target EXCEPT ![j] = id]
              /\ found' = [found EXCEPT ![j] = Seen(j, id)]
              /\ memory' = [memory EXCEPT ![j] = Applied(j, Seen(j, id))]
              /\ GotSnapshot(j)
        BY <1>5 DEF FindSnapshot
    <2>2. Seen(j, id) \in RowOf(Op(j))
        BY <1>1, <2>1, SeenTyped DEF RowIdOf
    <2>3. Applied(j, Seen(j, id)) \in RowOf(Op(j))
        BY <1>2, <2>2, AppliedTyped
    <2>4. Seen(j, id) \in SnapshotRow /\ Applied(j, Seen(j, id)) \in SnapshotRow
        BY <1>1, <2>2, <2>3 DEF RowOf
    <2>5. /\ memory' \in [Jobs -> SnapshotRow \union StatsRow]
          /\ found' \in [Jobs -> SnapshotRow \union StatsRow]
          /\ target'[j] = id /\ DOMAIN target' = Jobs /\ memory'[j] \in SnapshotRow
          /\ \A q \in Jobs \ {j} : target'[q] = target[q] /\ memory'[q] = memory[q]
        BY <2>1, <2>4 DEF Inv, TypeOK
    <2>6. CASE Op(j) = "look"
        <3>1. NextCall(j) /\ ~Transactional(j)
            BY <1>2, <2>1, <2>6, CurrentIs DEF GotSnapshot, Op
        <3>2. /\ \A q \in Jobs \ {j} : at'[q] = at[q] /\ step'[q] = step[q]
              /\ DOMAIN at' = Jobs /\ at'[j] \in 1..Len(Calls(j)) /\ PlaceOf(j)'
              /\ step' = [step EXCEPT ![j] = step'[j]]
              /\ step'[j] \in {"post", "count", "find", "commit", "done"}
            BY <3>1, NextCallGoes
        <3>3. at'[j] \in 0..Len(Calls(j))
            BY <3>2, CallsAre
        <3>4. MemoryOf(j)' /\ LocksOf(j)'
            BY <1>1, <1>3, <3>1, <3>2 DEF MemoryOf, LocksOf, Saving
        <3>5. TypeOK'
            BY <1>1, <2>5, <3>2, <3>3, PlaceTyped DEF Inv, TypeOK, Ended
        <3>6. QED
            BY <1>1, <1>3, <2>5, <3>2, <3>4, <3>5, OthersKeep
    <2>7. CASE Op(j) # "look"
        <3>1. Goto(j, "select")
            BY <2>1, <2>7 DEF GotSnapshot, Op
        <3>2. /\ at' = at /\ step'[j] = "select" /\ step' = [step EXCEPT ![j] = step'[j]]
              /\ \A q \in Jobs \ {j} : step'[q] = step[q]
              /\ Op(j)' = Op(j) /\ Current(j)' = Current(j) /\ DOMAIN at' = Jobs
            BY <3>1, GotoGoes
        <3>3. PlaceOf(j)'
            BY <1>1, <1>2, <2>7, <3>2 DEF PlaceOf, Saving
        <3>4. MemoryOf(j)'
            BY <1>1, <2>1, <2>5, <3>2 DEF MemoryOf, Saving, RowOf, Sees
        <3>5. LocksOf(j)'
            BY <1>1, <1>3, <3>2 DEF LocksOf, Running, Ended
        <3>6. TypeOK'
            BY <1>1, <1>2, <2>5, <3>2, PlaceTyped DEF Inv, TypeOK, Ended
        <3>7. QED
            BY <1>1, <1>3, <2>5, <3>2, <3>3, <3>4, <3>5, <3>6, OthersKeep
    <2>8. QED
        BY <2>6, <2>7
<1>6. QED
    BY <1>4, <1>5

LEMMA FindStatsPreserves ==
    ASSUME Inv, NEW j \in Jobs, FindStats(j)
    PROVE  Inv'
<1> USE DEF tables, open, history
<1> DEFINE own == Stats(Current(j).user)
           row == IF Sees(j, own) THEN Seen(j, own) ELSE ZeroStats
<1>1. /\ step[j] = "find" /\ Op(j) = "stats" /\ Goto(j, "select")
      /\ UNCHANGED <<rows, events, ledger, mine, noted, held, base, marks>>
      /\ target' = [target EXCEPT ![j] = own]
      /\ found' = [found EXCEPT ![j] = row]
      /\ memory' = [memory EXCEPT ![j] = Applied(j, row)]
    BY DEF FindStats, Op
<1>2. at[j] \in 1..Len(Calls(j)) /\ LocksOf(j) /\ DOMAIN mine = Jobs
    BY <1>1 DEF Inv, PlaceOf
<1>3. /\ at' = at /\ step'[j] = "select" /\ step' = [step EXCEPT ![j] = step'[j]]
      /\ \A q \in Jobs \ {j} : step'[q] = step[q]
      /\ Op(j)' = Op(j) /\ Current(j)' = Current(j) /\ DOMAIN at' = Jobs
    BY <1>1, GotoGoes
<1>4. row \in RowOf("stats")
    <2>1. Current(j).user \in Users
        BY <1>2, CurrentIs
    <2>2. CASE Sees(j, own)
        BY <2>1, <2>2, SeenTyped DEF RowIdOf
    <2>3. CASE ~Sees(j, own)
        BY <2>3 DEF RowOf, ZeroStats, StatsRow
    <2>4. QED
        BY <2>2, <2>3
<1> HIDE DEF row
<1>5. Applied(j, row) \in RowOf("stats")
    BY <1>1, <1>2, <1>4, AppliedTyped
<1>6. row \in StatsRow /\ Applied(j, row) \in StatsRow
    BY <1>4, <1>5 DEF RowOf
<1>7. /\ memory' \in [Jobs -> SnapshotRow \union StatsRow]
      /\ found' \in [Jobs -> SnapshotRow \union StatsRow]
      /\ target'[j] = own /\ DOMAIN target' = Jobs /\ memory'[j] \in StatsRow
      /\ \A q \in Jobs \ {j} : target'[q] = target[q] /\ memory'[q] = memory[q]
    BY <1>1, <1>6 DEF Inv, TypeOK
<1>8. PlaceOf(j)'
    BY <1>1, <1>2, <1>3 DEF PlaceOf, Saving
<1>9. MemoryOf(j)'
    BY <1>1, <1>3, <1>7 DEF MemoryOf, Saving, RowOf
<1>10. LocksOf(j)'
    <2>1. DOMAIN mine[j] # {} => Transactional(j)
        BY <1>2 DEF LocksOf
    <2>2. \A id \in DOMAIN mine[j] : id \in Snapshots
        BY <1>1, <1>2 DEF LocksOf
    <2>3. held[j] # {} => Transactional(j)
        BY <1>2 DEF LocksOf
    <2>4. UNCHANGED <<mine, held>>
        BY <1>1
    <2>5. QED
        BY <1>1, <1>3, <2>1, <2>2, <2>3, <2>4 DEF LocksOf, Running, Ended, Saving
<1>11. TypeOK'
    <2>1. UNCHANGED <<rows, events, ledger, mine, noted, held, base, marks>>
        BY <1>1
    <2>2. at[j] \in 0..Len(Calls(j))
        BY DEF Inv, TypeOK
    <2>3. QED
        BY <1>3, <1>7, <2>1, <2>2, PlaceTyped DEF Inv, TypeOK
<1>12. \A q \in Jobs \ {j} : Snapshot(q) \in DOMAIN mine[j] => Snapshot(q) \in DOMAIN rows
    BY DEF Inv, FreshInv
<1>13. UNCHANGED <<rows, mine, held, base>>
    BY <1>1
<1>14. QED
    BY <1>2, <1>3, <1>7, <1>8, <1>9, <1>10, <1>11, <1>12, <1>13, OthersKeep

LEMMA SelectRowPreserves ==
    ASSUME Inv, NEW j \in Jobs, SelectRow(j)
    PROVE  Inv'
<1> USE DEF tables, open, history
<1>1. /\ step[j] = "select"
      /\ UNCHANGED <<rows, events, ledger, mine, noted, held, target, memory, found, marks>>
    BY DEF SelectRow
<1>2. /\ at[j] \in 1..Len(Calls(j)) /\ Op(j) \notin {"post", "look"}
      /\ LocksOf(j) /\ MemoryOf(j) /\ DOMAIN mine = Jobs /\ DOMAIN target = Jobs
    BY <1>1 DEF Inv, PlaceOf, Saving
<1>3. Current(j).user \in Users
    BY <1>2, CurrentIs
<1>4. CASE Sees(j, target[j])
    <2>1. base' = [base EXCEPT ![j] = Seen(j, target[j])] /\ Goto(j, "update")
        BY <1>4 DEF SelectRow
    <2>2. /\ at' = at /\ step'[j] = "update" /\ step' = [step EXCEPT ![j] = step'[j]]
          /\ \A q \in Jobs \ {j} : step'[q] = step[q]
          /\ Op(j)' = Op(j) /\ Current(j)' = Current(j) /\ DOMAIN at' = Jobs
        BY <2>1, GotoGoes
    <2>3. Seen(j, target[j]) \in RowOf(Op(j))
        BY <1>1, <1>2, <1>3, <1>4, SeenTyped DEF MemoryOf, Saving, RowIdOf
    <2>4. /\ base' \in [Jobs -> SnapshotRow \union StatsRow] /\ base'[j] \in RowOf(Op(j))
          /\ \A q \in Jobs \ {j} : base'[q] = base[q]
        BY <2>1, <2>3 DEF Inv, TypeOK, RowOf
    <2>5. PlaceOf(j)'
        BY <1>1, <1>2, <2>2 DEF PlaceOf, Saving
    <2>6. MemoryOf(j)'
        BY <1>1, <1>2, <1>4, <2>2, <2>4 DEF MemoryOf, Saving, Sees
    <2>7. LocksOf(j)'
        BY <1>1, <1>2, <2>2 DEF LocksOf, Running, Ended, Saving
    <2>8. TypeOK'
        BY <1>1, <1>2, <2>2, <2>4, PlaceTyped DEF Inv, TypeOK, Ended
    <2>9. QED
        BY <1>1, <1>2, <2>2, <2>4, <2>5, <2>6, <2>7, <2>8, OthersKeep DEF Inv, FreshInv
<1>5. CASE ~Sees(j, target[j])
    <2>1. base' = base /\ Goto(j, "insert")
        BY <1>5 DEF SelectRow
    <2>2. /\ at' = at /\ step'[j] = "insert" /\ step' = [step EXCEPT ![j] = step'[j]]
          /\ \A q \in Jobs \ {j} : step'[q] = step[q]
          /\ Op(j)' = Op(j) /\ Current(j)' = Current(j) /\ DOMAIN at' = Jobs
        BY <2>1, GotoGoes
    <2>3. Op(j) = "stats"
        BY <1>1, <1>2, <1>5 DEF MemoryOf, Saving
    <2>4. PlaceOf(j)' /\ MemoryOf(j)'
        BY <1>1, <1>2, <2>2, <2>3 DEF PlaceOf, MemoryOf, Saving
    <2>5. LocksOf(j)'
        BY <1>1, <1>2, <1>5, <2>2 DEF LocksOf, Running, Ended, Saving, Sees
    <2>6. TypeOK'
        BY <1>1, <1>2, <2>1, <2>2, PlaceTyped DEF Inv, TypeOK, Ended
    <2>7. QED
        BY <1>1, <1>2, <2>1, <2>2, <2>4, <2>5, <2>6, OthersKeep DEF Inv, FreshInv
<1>6. QED
    BY <1>4, <1>5

LEMMA CreateSnapshotPreserves ==
    ASSUME Inv, NEW j \in Jobs, CreateSnapshot(j)
    PROVE  Inv'
<1> USE DEF history
<1>1. /\ step[j] = "create" /\ Write(j, Snapshot(j), ZeroSnapshot) /\ GotSnapshot(j)
      /\ UNCHANGED <<events, ledger, noted, held, base, marks>>
      /\ target' = [target EXCEPT ![j] = Snapshot(j)]
      /\ found' = [found EXCEPT ![j] = ZeroSnapshot]
      /\ memory' = [memory EXCEPT ![j] = Applied(j, ZeroSnapshot)]
    BY DEF CreateSnapshot
<1>2. at[j] \in 1..Len(Calls(j)) /\ Op(j) \notin {"post", "stats"} /\ LocksOf(j)
    BY <1>1 DEF Inv, PlaceOf
<1>3. /\ DOMAIN mine[j] = {} /\ Snapshot(j) \notin DOMAIN rows
      /\ held[j] # {} => Transactional(j)
    BY <1>1, <1>2 DEF LocksOf
<1>4. /\ IsTable(rows') /\ (\A q \in Jobs : IsTable(mine'[q]))
      /\ DOMAIN mine' = Jobs /\ (\A q \in Jobs \ {j} : mine'[q] = mine[q])
      /\ IF Transactional(j) THEN rows' = rows /\ DOMAIN mine'[j] = {Snapshot(j)}
         ELSE DOMAIN mine'[j] = {} /\ DOMAIN rows' = DOMAIN rows \union {Snapshot(j)}
    <2>1. ZeroSnapshot \in RowOf(Op(j)) /\ RowIdOf(Op(j), Snapshot(j))
        BY <1>2 DEF ZeroSnapshot, RowOf, SnapshotRow, RowIdOf, Snapshots
    <2>2. QED
        BY <1>1, <1>3, <2>1, Written
<1>5. Applied(j, ZeroSnapshot) \in SnapshotRow /\ ZeroSnapshot \in SnapshotRow
    BY <1>2, AppliedTyped DEF RowOf, ZeroSnapshot, SnapshotRow
<1>6. /\ memory' \in [Jobs -> SnapshotRow \union StatsRow]
      /\ found' \in [Jobs -> SnapshotRow \union StatsRow]
      /\ target'[j] = Snapshot(j) /\ DOMAIN target' = Jobs /\ memory'[j] \in SnapshotRow
      /\ \A q \in Jobs \ {j} : target'[q] = target[q] /\ memory'[q] = memory[q]
    BY <1>1, <1>5 DEF Inv, TypeOK
<1>7. /\ DOMAIN rows \subseteq DOMAIN rows'
      /\ \A q \in Jobs \ {j} : Snapshot(q) \in DOMAIN rows' \union DOMAIN mine'[j] =>
                                   Snapshot(q) \in DOMAIN rows
    BY <1>4, KeysDiffer
<1>8. UNCHANGED <<events, ledger, noted, held, base, marks>>
    BY <1>1
<1>9. CASE Op(j) = "look"
    <2>1. NextCall(j) /\ ~Transactional(j)
        BY <1>1, <1>2, <1>9, CurrentIs DEF GotSnapshot, Op
    <2>2. /\ \A q \in Jobs \ {j} : at'[q] = at[q] /\ step'[q] = step[q]
          /\ DOMAIN at' = Jobs /\ at'[j] \in 1..Len(Calls(j)) /\ PlaceOf(j)'
          /\ step' = [step EXCEPT ![j] = step'[j]]
          /\ step'[j] \in {"post", "count", "find", "commit", "done"}
        BY <2>1, NextCallGoes
    <2>3. at'[j] \in 0..Len(Calls(j))
        BY <2>2, CallsAre
    <2>4. MemoryOf(j)' /\ LocksOf(j)'
        BY <1>3, <1>4, <1>8, <2>1, <2>2 DEF MemoryOf, LocksOf, Saving
    <2>5. TypeOK'
        BY <1>4, <1>6, <1>8, <2>2, <2>3, PlaceTyped DEF Inv, TypeOK, Ended
    <2>6. QED
        BY <1>4, <1>6, <1>7, <1>8, <2>2, <2>4, <2>5, OthersKeep
<1>10. CASE Op(j) # "look"
    <2>1. Goto(j, "select")
        BY <1>1, <1>10 DEF GotSnapshot, Op
    <2>2. /\ at' = at /\ step'[j] = "select" /\ step' = [step EXCEPT ![j] = step'[j]]
          /\ \A q \in Jobs \ {j} : step'[q] = step[q]
          /\ Op(j)' = Op(j) /\ Current(j)' = Current(j) /\ DOMAIN at' = Jobs
        BY <2>1, GotoGoes
    <2>3. PlaceOf(j)'
        BY <1>2, <1>10, <2>2 DEF PlaceOf, Saving
    <2>4. MemoryOf(j)'
        BY <1>2, <1>4, <1>6, <2>2 DEF MemoryOf, Saving, RowOf, Sees, Snapshots
    <2>5. LocksOf(j)'
        BY <1>3, <1>4, <1>6, <1>8, <2>2 DEF LocksOf, Running, Ended
    <2>6. TypeOK'
        <3>1. at[j] \in 0..Len(Calls(j))
            BY DEF Inv, TypeOK
        <3>2. QED
            BY <1>4, <1>6, <1>8, <2>2, <3>1, PlaceTyped DEF Inv, TypeOK, Ended
    <2>7. QED
        BY <1>4, <1>6, <1>7, <1>8, <2>2, <2>3, <2>4, <2>5, <2>6, OthersKeep
<1>11. QED
    BY <1>9, <1>10

(* A save ends, with the row written or left as it is.                     *)
LEMMA SavedPreserves ==
    ASSUME Inv, NEW j \in Jobs, step[j] \in {"update", "insert"}, Saved(j),
           \/ UNCHANGED <<rows, mine>>
           \/ \E row \in RowOf(Op(j)) : Write(j, target[j], row),
           UNCHANGED <<events, ledger, noted, held, marks>>
    PROVE  Inv'
<1>1. /\ at[j] \in 1..Len(Calls(j)) /\ Op(j) \notin {"post", "look"}
      /\ LocksOf(j) /\ MemoryOf(j) /\ DOMAIN mine = Jobs
    BY DEF Inv, PlaceOf, Saving
<1>2. /\ IF Op(j) = "stats" THEN target[j] = Stats(Current(j).user)
         ELSE target[j] \in Snapshots /\ Sees(j, target[j])
      /\ Current(j).user \in Users
      /\ Transactional(j) => Op(j) \in {"record", "stats", "join"}
      /\ RowIdOf(Op(j), target[j])
    BY <1>1, CurrentIs DEF MemoryOf, Saving, RowIdOf
<1>3. /\ IsTable(rows') /\ (\A q \in Jobs : IsTable(mine'[q]))
      /\ DOMAIN mine' = Jobs /\ (\A q \in Jobs \ {j} : mine'[q] = mine[q])
      /\ DOMAIN rows \subseteq DOMAIN rows' /\ DOMAIN rows' \subseteq DOMAIN rows \union {target[j]}
      /\ DOMAIN mine'[j] \subseteq DOMAIN mine[j] \union {target[j]}
      /\ IF Transactional(j) THEN rows' = rows ELSE mine' = mine
    <2>1. CASE UNCHANGED <<rows, mine>>
        BY <1>1, <2>1 DEF Inv, TypeOK
    <2>2. CASE \E row \in RowOf(Op(j)) : Write(j, target[j], row)
        <3>1. PICK row \in RowOf(Op(j)) : Write(j, target[j], row)
            BY <2>2
        <3>2. QED
            BY <1>2, <3>1, Written
    <2>3. QED
        BY <2>1, <2>2
<1>4. /\ memory' \in [Jobs -> SnapshotRow \union StatsRow]
      /\ base' \in [Jobs -> SnapshotRow \union StatsRow]
      /\ found' \in [Jobs -> SnapshotRow \union StatsRow]
      /\ DOMAIN target' = Jobs
      /\ \A q \in Jobs \ {j} :
             target'[q] = target[q] /\ memory'[q] = memory[q] /\ base'[q] = base[q]
    <2>1. ZeroSnapshot \in SnapshotRow
        BY DEF ZeroSnapshot, SnapshotRow
    <2>2. Forget(j)
        BY DEF Saved
    <2>3. QED
        BY <2>1, <2>2 DEF Forget, Inv, TypeOK
<1>5. /\ DOMAIN at' = Jobs /\ at'[j] \in 1..Len(Calls(j)) /\ PlaceOf(j)'
      /\ \A q \in Jobs \ {j} : at'[q] = at[q] /\ step'[q] = step[q]
      /\ step' = [step EXCEPT ![j] = step'[j]]
      /\ step'[j] \in {"post", "count", "find", "commit", "done", "event"}
      /\ Transactional(j) => step'[j] = IF Op(j) = "record" THEN "event" ELSE "commit"
    <2>1. CASE Op(j) = "record"
        <3>1. Goto(j, "event")
            BY <2>1 DEF Saved, Op
        <3>2. /\ at' = at /\ step'[j] = "event" /\ step' = [step EXCEPT ![j] = step'[j]]
              /\ \A q \in Jobs \ {j} : step'[q] = step[q]
              /\ Op(j)' = Op(j) /\ DOMAIN at' = Jobs
            BY <3>1, GotoGoes
        <3>3. PlaceOf(j)'
            BY <1>1, <2>1, <3>2 DEF PlaceOf, Saving
        <3>4. QED
            BY <1>1, <2>1, <3>2, <3>3
    <2>2. CASE Op(j) # "record"
        <3>1. NextCall(j)
            BY <2>2 DEF Saved, Op
        <3>2. at[j] # 0
            BY <1>1, CallsAre
        <3>3. Transactional(j) => Op(j) \in {"stats", "join"}
            BY <1>2, <2>2
        <3>4. QED
            BY <2>2, <3>1, <3>2, <3>3, NextCallGoes
    <2>3. QED
        BY <2>1, <2>2
<1>6. \A q \in Jobs \ {j} :
          Snapshot(q) \in DOMAIN rows' \union DOMAIN mine'[j] => Snapshot(q) \in DOMAIN rows
    <2> SUFFICES ASSUME NEW q \in Jobs \ {j},
                        Snapshot(q) \in DOMAIN rows \union DOMAIN mine[j] \union {target[j]}
                 PROVE  Snapshot(q) \in DOMAIN rows
        BY <1>3
    <2>1. Snapshot(q) \in DOMAIN mine[j] => Snapshot(q) \in DOMAIN rows
        BY DEF Inv, FreshInv
    <2>2. Snapshot(q) = target[j] => Snapshot(q) \in DOMAIN rows
        BY <1>2, <2>1, KeysDiffer DEF Sees
    <2>3. QED
        BY <2>1, <2>2
<1>7. MemoryOf(j)'
    BY <1>5 DEF MemoryOf, Saving
<1>8. LocksOf(j)'
    <2>1. /\ DOMAIN mine[j] # {} => Transactional(j)
          /\ held[j] # {} => Transactional(j)
          /\ held' = held
        BY <1>1 DEF LocksOf
    <2>2. DOMAIN mine'[j] # {} => Transactional(j)
        BY <1>3, <2>1
    <2>3. Op(j) = "record" => \A id \in DOMAIN mine'[j] : id \in Snapshots
        <3>1. Op(j) = "record" => \A id \in DOMAIN mine[j] : id \in Snapshots
            BY <1>1 DEF LocksOf, Snapshots
        <3>2. QED
            BY <1>2, <1>3, <3>1
    <2>4. QED
        BY <1>5, <2>1, <2>2, <2>3 DEF LocksOf, Running, Ended
<1>9. TypeOK'
    <2>1. at'[j] \in 0..Len(Calls(j))
        BY <1>5, CallsAre
    <2>2. QED
        BY <1>3, <1>4, <1>5, <2>1, PlaceTyped DEF Inv, TypeOK, Ended
<1>10. QED
    BY <1>3, <1>4, <1>5, <1>6, <1>7, <1>8, <1>9, OthersKeep

LEMMA UpdateRowPreserves ==
    ASSUME Inv, NEW j \in Jobs, UpdateRow(j)
    PROVE  Inv'
<1> DEFINE row == Merged(j, Seen(j, target[j]))
<1>1. /\ step[j] = "update" /\ Saved(j)
      /\ UNCHANGED <<rows, mine>> \/ Write(j, target[j], row)
      /\ UNCHANGED <<events, ledger, noted, held, marks>>
    BY DEF UpdateRow
<1>2. /\ at[j] \in 1..Len(Calls(j)) /\ MemoryOf(j)
    BY <1>1 DEF Inv, PlaceOf
<1>3. /\ memory[j] \in RowOf(Op(j)) /\ base[j] \in RowOf(Op(j)) /\ Sees(j, target[j])
      /\ RowIdOf(Op(j), target[j])
    BY <1>1, <1>2, CurrentIs DEF MemoryOf, Saving, RowIdOf
<1>4. Seen(j, target[j]) \in RowOf(Op(j))
    BY <1>3, SeenTyped
<1>5. row \in RowOf(Op(j))
    BY <1>3, <1>4, MergedTyped
<1>6. QED
    BY <1>1, <1>5, SavedPreserves

LEMMA InsertRowPreserves ==
    ASSUME Inv, NEW j \in Jobs, InsertRow(j)
    PROVE  Inv'
<1>1. /\ step[j] = "insert" /\ Saved(j) /\ Write(j, target[j], memory[j])
      /\ UNCHANGED <<events, ledger, noted, held, marks>>
    BY DEF InsertRow, history
<1>2. memory[j] \in RowOf(Op(j))
    BY <1>1 DEF Inv, MemoryOf, Saving
<1>3. QED
    BY <1>1, <1>2, SavedPreserves

LEMMA SaveEventPreserves ==
    ASSUME Inv, NEW j \in Jobs, SaveEvent(j)
    PROVE  Inv'
<1> USE DEF local, history
<1>1. /\ step[j] = "event" /\ NextCall(j)
      /\ UNCHANGED <<rows, ledger, mine, held, target, memory, base, found, marks>>
    BY DEF SaveEvent
<1>2. at[j] \in 1..Len(Calls(j)) /\ Op(j) = "record" /\ LocksOf(j)
    BY <1>1 DEF Inv, PlaceOf
<1>3. at[j] # 0
    BY <1>2, CallsAre
<1>4. /\ \A q \in Jobs \ {j} : at'[q] = at[q] /\ step'[q] = step[q]
      /\ DOMAIN at' = Jobs /\ at'[j] \in 1..Len(Calls(j)) /\ PlaceOf(j)'
      /\ step' = [step EXCEPT ![j] = step'[j]]
      /\ step'[j] \in {"post", "count", "find", "commit", "done"}
      /\ Transactional(j) => step'[j] = "find" /\ Op(j)' = "stats"
    BY <1>1, <1>2, <1>3, NextCallGoes
<1>5. Event(j) \in Events
    <2>1. /\ Current(j).user \in Users /\ Current(j).type \in {"CREDIT", "DEBIT"}
        BY <1>2, CurrentIs
    <2>2. Kobo(Work[j].amount) \in Nat \ {0}
        BY CallsAre DEF Kobo
    <2>3. QED
        BY <2>1, <2>2 DEF Event, Events
<1>6. events' \subseteq Events /\ noted' \in [Jobs -> SUBSET Events]
    <2>1. events \subseteq Events /\ noted \in [Jobs -> SUBSET Events]
        BY DEF Inv, TypeOK
    <2>2. CASE Transactional(j)
        <3>1. noted' = [noted EXCEPT ![j] = noted[j] \union {Event(j)}] /\ events' = events
            BY <2>2 DEF SaveEvent
        <3>2. QED
            BY <1>5, <2>1, <3>1
    <2>3. CASE ~Transactional(j)
        <3>1. noted' = noted /\ events' = events \union {Event(j)}
            BY <2>3 DEF SaveEvent
        <3>2. QED
            BY <1>5, <2>1, <3>1
    <2>4. QED
        BY <2>2, <2>3
<1>7. TypeOK'
    <2>1. at'[j] \in 0..Len(Calls(j))
        BY <1>4, CallsAre
    <2>2. QED
        BY <1>1, <1>4, <1>6, <2>1, PlaceTyped DEF Inv, TypeOK, Ended
<1>8. MemoryOf(j)'
    BY <1>4 DEF MemoryOf, Saving
<1>9. LocksOf(j)'
    <2>1. /\ DOMAIN mine[j] # {} => Transactional(j)
          /\ held[j] # {} => Transactional(j)
          /\ \A id \in DOMAIN mine[j] : id \in Snapshots
        BY <1>1, <1>2 DEF LocksOf
    <2>2. mine' = mine /\ held' = held
        BY <1>1
    <2>3. QED
        BY <1>4, <2>1, <2>2 DEF LocksOf, Running, Ended
<1>10. DOMAIN mine = Jobs /\ DOMAIN target = Jobs
    BY DEF Inv
<1>11. \A q \in Jobs \ {j} : Snapshot(q) \in DOMAIN mine[j] => Snapshot(q) \in DOMAIN rows
    BY DEF Inv, FreshInv
<1>12. UNCHANGED <<rows, mine, held, target, memory, base>>
    BY <1>1
<1>13. QED
    BY <1>4, <1>7, <1>8, <1>9, <1>10, <1>11, <1>12, OthersKeep

(* A job ends, and with it its transaction.                                *)
LEMMA EndPreserves ==
    ASSUME Inv, NEW j \in Jobs, at[j] \in 1..Len(Calls(j)), NEW place \in Ended, Goto(j, place),
           mine' = [mine EXCEPT ![j] = <<>>], noted' = [noted EXCEPT ![j] = {}],
           held' = [held EXCEPT ![j] = {}],
           UNCHANGED local \/ Forget(j),
           IsTable(rows'), events' \subseteq Events, ledger' \in [Users -> Nat], marks' = marks,
           DOMAIN rows \subseteq DOMAIN rows',
           DOMAIN rows' \subseteq DOMAIN rows \union DOMAIN mine[j]
    PROVE  Inv'
<1>1. /\ at' = at /\ step'[j] = place /\ step' = [step EXCEPT ![j] = step'[j]]
      /\ \A q \in Jobs \ {j} : step'[q] = step[q]
      /\ Op(j)' = Op(j) /\ DOMAIN at' = Jobs
    BY GotoGoes
<1>2. /\ DOMAIN mine' = Jobs /\ DOMAIN mine'[j] = {} /\ IsTable(mine'[j])
      /\ \A q \in Jobs \ {j} : mine'[q] = mine[q]
    <2>1. /\ mine'[j] = <<>> /\ DOMAIN mine' = Jobs
          /\ \A q \in Jobs \ {j} : mine'[q] = mine[q]
        BY DEF Inv
    <2>2. DOMAIN <<>> = {}
        OBVIOUS
    <2>3. QED
        BY <2>1, <2>2 DEF IsTable
<1>3. /\ held' \in [Jobs -> SUBSET Users] /\ held'[j] = {}
      /\ noted' \in [Jobs -> SUBSET Events]
      /\ \A q \in Jobs \ {j} : held'[q] = held[q]
    BY DEF Inv, TypeOK
<1>4. /\ memory' \in [Jobs -> SnapshotRow \union StatsRow]
      /\ base' \in [Jobs -> SnapshotRow \union StatsRow]
      /\ found' \in [Jobs -> SnapshotRow \union StatsRow]
      /\ DOMAIN target' = Jobs
      /\ \A q \in Jobs \ {j} :
             target'[q] = target[q] /\ memory'[q] = memory[q] /\ base'[q] = base[q]
    <2>1. ZeroSnapshot \in SnapshotRow
        BY DEF ZeroSnapshot, SnapshotRow
    <2>2. CASE UNCHANGED local
        BY <2>2 DEF local, Inv, TypeOK
    <2>3. CASE Forget(j)
        BY <2>1, <2>3 DEF Forget, Inv, TypeOK
    <2>4. QED
        BY <2>2, <2>3
<1>5. PlaceOf(j)' /\ MemoryOf(j)'
    BY <1>1 DEF PlaceOf, MemoryOf, Saving, Ended
<1>6. LocksOf(j)'
    BY <1>1, <1>2, <1>3 DEF LocksOf, Ended
<1>7. TypeOK'
    <2>1. \A q \in Jobs : IsTable(mine'[q])
        BY <1>2 DEF Inv, TypeOK
    <2>2. at[j] \in 0..Len(Calls(j)) /\ marks' \in [Users -> Nat]
        BY DEF Inv, TypeOK
    <2>3. /\ step' \in [Jobs -> {"start", "post", "count", "find", "create", "select",
                                 "update", "insert", "event", "commit"} \union Ended]
          /\ \A q \in Jobs : at'[q] \in 0..Len(Calls(q))
        <3>1. at'[j] \in 0..Len(Calls(j)) /\ \A q \in Jobs \ {j} : at'[q] = at[q]
            BY <1>1, <2>2
        <3>2. step' = [step EXCEPT ![j] = place]
            BY <1>1
        <3>3. QED
            BY <3>1, <3>2, PlaceTyped
    <2>4. QED
        BY <1>3, <1>4, <2>1, <2>2, <2>3 DEF TypeOK
<1>8. \A q \in Jobs \ {j} :
          Snapshot(q) \in DOMAIN rows' \union DOMAIN mine'[j] => Snapshot(q) \in DOMAIN rows
    BY <1>2 DEF Inv, FreshInv
<1>9. QED
    BY <1>1, <1>2, <1>3, <1>4, <1>5, <1>6, <1>7, <1>8, OthersKeep

LEMMA CommitPreserves ==
    ASSUME Inv, NEW j \in Jobs, Commit(j)
    PROVE  Inv'
<1>1. /\ step[j] = "commit" /\ Goto(j, "done") /\ UNCHANGED local /\ marks' = marks
      /\ rows' = [id \in DOMAIN rows \union DOMAIN mine[j] |-> Seen(j, id)]
      /\ events' = events \union noted[j]
      /\ mine' = [mine EXCEPT ![j] = <<>>] /\ noted' = [noted EXCEPT ![j] = {}]
      /\ held' = [held EXCEPT ![j] = {}]
    BY DEF Commit, history
<1>2. at[j] \in 1..Len(Calls(j))
    BY <1>1 DEF Inv, PlaceOf
<1>3. IsTable(rows')
    BY <1>1 DEF Inv, TypeOK, IsTable, Seen
<1>4. events' \subseteq Events /\ ledger' \in [Users -> Nat]
    BY <1>1 DEF Commit, Inv, TypeOK
<1>5. DOMAIN rows' = DOMAIN rows \union DOMAIN mine[j] /\ "done" \in Ended
    BY <1>1 DEF Ended
<1>6. QED
    BY <1>1, <1>2, <1>3, <1>4, <1>5, EndPreserves

LEMMA RollBackPreserves ==
    ASSUME Inv, NEW j \in Jobs, Running(j), RollBack(j)
    PROVE  Inv'
<1>1. /\ Goto(j, "failed") /\ Forget(j)
      /\ UNCHANGED <<rows, events, ledger, marks>>
      /\ mine' = [mine EXCEPT ![j] = <<>>] /\ noted' = [noted EXCEPT ![j] = {}]
      /\ held' = [held EXCEPT ![j] = {}]
    BY DEF RollBack, tables, history
<1>2. at[j] \in 1..Len(Calls(j)) /\ "failed" \in Ended
    BY DEF Inv, PlaceOf, Running, Ended
<1>3. IsTable(rows') /\ events' \subseteq Events /\ ledger' \in [Users -> Nat] /\ rows' = rows
    BY <1>1 DEF Inv, TypeOK
<1>4. QED
    BY <1>1, <1>2, <1>3, EndPreserves

LEMMA InitInv == Init => Inv
<1> SUFFICES ASSUME Init PROVE Inv
    OBVIOUS
<1>1. /\ rows = <<>> /\ events = {}
      /\ mine = [j \in Jobs |-> <<>>] /\ noted = [j \in Jobs |-> {}]
      /\ ledger = [u \in Users |-> 0] /\ held = [j \in Jobs |-> {}]
      /\ at = [j \in Jobs |-> 0] /\ step = [j \in Jobs |-> "start"]
      /\ target = [j \in Jobs |-> NoRow] /\ marks = [u \in Users |-> 0]
    BY DEF Init
<1>2. DOMAIN <<>> = {}
    OBVIOUS
<1>3. /\ memory \in [Jobs -> SnapshotRow \union StatsRow]
      /\ base \in [Jobs -> SnapshotRow \union StatsRow]
      /\ found \in [Jobs -> SnapshotRow \union StatsRow]
    <2>1. ZeroSnapshot \in SnapshotRow
        BY DEF ZeroSnapshot, SnapshotRow
    <2>2. QED
        BY <2>1 DEF Init
<1>4. IsTable(rows) /\ \A j \in Jobs : IsTable(mine[j])
    BY <1>1, <1>2 DEF IsTable
<1>5. \A j \in Jobs : at[j] \in 0..Len(Calls(j))
    BY <1>1, CallsAre
<1>6. TypeOK
    <2>1. /\ events \subseteq Events /\ noted \in [Jobs -> SUBSET Events]
          /\ ledger \in [Users -> Nat] /\ held \in [Jobs -> SUBSET Users]
          /\ marks \in [Users -> Nat]
        BY <1>1
    <2>2. step \in [Jobs -> {"start", "post", "count", "find", "create", "select",
                             "update", "insert", "event", "commit"} \union Ended]
        BY <1>1
    <2>3. QED
        BY <1>3, <1>4, <1>5, <2>1, <2>2 DEF TypeOK
<1>7. ASSUME NEW j \in Jobs PROVE PlaceOf(j) /\ MemoryOf(j) /\ LocksOf(j)
    <2>1. /\ step[j] = "start" /\ at[j] = 0 /\ held[j] = {}
          /\ DOMAIN mine[j] = {}
        BY <1>1, <1>2
    <2>2. QED
        BY <2>1 DEF PlaceOf, MemoryOf, LocksOf, Saving
<1>8. FreshInv
    BY <1>1, <1>2 DEF FreshInv
<1>9. QED
    BY <1>1, <1>6, <1>7, <1>8 DEF Inv

LEMMA NextPreserves == Inv /\ [Next]_vars => Inv'
<1> SUFFICES ASSUME Inv, [Next]_vars PROVE Inv'
    OBVIOUS
<1>1. CASE UNCHANGED vars
    BY <1>1 DEF vars, tables, open, local, history, Inv, TypeOK, PlaceOf, MemoryOf, LocksOf,
                FreshInv, Current, Op, Running, Sees
<1>2. CASE Next
    <2>1. PICK j \in Jobs :
              \/ Begin(j) \/ Post(j) \/ CountTransactions(j)
              \/ FindSnapshot(j) \/ CreateSnapshot(j) \/ FindStats(j)
              \/ SelectRow(j) \/ UpdateRow(j) \/ InsertRow(j) \/ SaveEvent(j)
              \/ Commit(j) \/ DuplicateStats(j) \/ Interrupt(j)
        BY <1>2 DEF Next
    <2>2. DuplicateStats(j) \/ Interrupt(j) => Running(j) /\ RollBack(j)
        BY DEF DuplicateStats, Interrupt, Running, Ended
    <2>3. QED
        BY <2>1, <2>2, BeginPreserves, PostPreserves, CountPreserves, FindSnapshotPreserves,
           CreateSnapshotPreserves, FindStatsPreserves, SelectRowPreserves, UpdateRowPreserves,
           InsertRowPreserves, SaveEventPreserves, CommitPreserves, RollBackPreserves
<1>3. QED
    BY <1>1, <1>2

(* The invariant, of every behaviour of the jobs.                          *)
THEOREM Invariance == Spec => []Inv
BY InitInv, NextPreserves, PTL DEF Spec

(* Every variable has its type: what AdminAnalyticsService saves to the    *)
(* totals has the columns of the totals, and what it saves to a user's row *)
(* those of a user's row, however jobs overlap and fail.                   *)
THEOREM TypeCorrect == Spec => []TypeOK
<1>1. Inv => TypeOK
    BY DEF Inv
<1>2. QED
    BY <1>1, Invariance, PTL

-----------------------------------------------------------------------------

(* Jobs wait at most in a chain of three: for a wallet's balance, held by  *)
(* one that waits for the totals, held by one that waits for a user's      *)
(* stats, held by one about to be committed.                               *)
LEMMA SomeoneGoes ==
    ASSUME Inv, ~Quiet
    PROVE  \E j \in Jobs : Running(j) /\ ~Blocked(j)
<1> DEFINE Free == \E j \in Jobs : Running(j) /\ ~Blocked(j)
<1>1. ASSUME NEW j \in Jobs, step[j] = "commit" PROVE Free
    BY <1>1 DEF Blocked, Running, Ended
<1>2. ASSUME NEW j \in Jobs, Running(j), Op(j) = "stats", step[j] \in {"update", "insert"}
      PROVE  Free
    <2>1. CASE ~Blocked(j)
        BY <1>2, <2>1
    <2>2. CASE Blocked(j)
        <3>1. PICK q \in Jobs \ {j} : target[j] \in DOMAIN mine[q]
            BY <1>2, <2>2 DEF Blocked, WrittenByOther
        <3>2. target[j] = Stats(Current(j).user)
            BY <1>2 DEF Inv, MemoryOf, Saving
        <3>3. step[q] = "commit"
            <4>1. LocksOf(q)
                BY DEF Inv
            <4>2. target[j] \notin Snapshots /\ target[j] # Snapshot(q)
                BY <3>2, KeysDiffer
            <4>3. QED
                BY <3>1, <4>1, <4>2 DEF LocksOf
        <3>4. QED
            BY <1>1, <3>3
    <2>3. QED
        BY <2>1, <2>2
<1>3. ASSUME NEW j \in Jobs, Running(j), Op(j) # "stats", step[j] \in {"update", "insert"}
      PROVE  Free
    <2>1. CASE ~Blocked(j)
        BY <1>3, <2>1
    <2>2. CASE Blocked(j)
        <3>1. PICK q \in Jobs \ {j} : target[j] \in DOMAIN mine[q]
            BY <1>3, <2>2 DEF Blocked, WrittenByOther
        <3>2. target[j] \in Snapshots /\ step[j] = "update" /\ Sees(j, target[j])
            BY <1>3 DEF Inv, MemoryOf, Saving
        <3>3. LocksOf(q) /\ DOMAIN mine[q] # {} /\ Running(q)
            BY <3>1 DEF Inv, LocksOf
        <3>4. CASE step[q] = "commit"
            BY <1>1, <3>4
        <3>5. CASE step[q] = "event" \/ step[q] \in {"find", "select"}
            <4>1. ~Blocked(q)
                BY <3>5 DEF Blocked
            <4>2. QED
                BY <3>3, <4>1
        <3>6. CASE step[q] \in {"update", "insert"} /\ Op(q) = "stats"
            BY <1>2, <3>3, <3>6
        <3>7. CASE /\ target[j] = Snapshot(q) /\ target[q] = target[j]
                   /\ target[j] \notin DOMAIN rows /\ step[q] = "update"
            <4>1. ASSUME NEW p \in Jobs \ {q}, target[q] \in DOMAIN mine[p] PROVE FALSE
                BY <3>7, <4>1 DEF Inv, FreshInv
            <4>2. ~Blocked(q)
                BY <3>7, <4>1 DEF Blocked, WrittenByOther
            <4>3. QED
                BY <3>3, <4>2
        <3>8. QED
            BY <3>1, <3>3, <3>4, <3>5, <3>6, <3>7 DEF LocksOf, Saving
    <2>3. QED
        BY <2>1, <2>2
<1>4. ASSUME NEW j \in Jobs, Running(j), step[j] # "post" PROVE Free
    <2>1. CASE step[j] \in {"update", "insert"}
        BY <1>2, <1>3, <1>4, <2>1
    <2>2. CASE step[j] \notin {"update", "insert"}
        BY <1>4, <2>2 DEF Blocked
    <2>3. QED
        BY <2>1, <2>2
<1>5. PICK j \in Jobs : Running(j)
    BY DEF Quiet
<1>6. CASE step[j] = "post" /\ Blocked(j)
    <2>1. PICK q \in Jobs : held[q] # {}
        BY <1>6 DEF Blocked
    <2>2. Running(q) /\ step[q] # "post"
        BY <2>1 DEF Inv, LocksOf
    <2>3. QED
        BY <1>4, <2>2
<1>7. CASE step[j] = "post" /\ ~Blocked(j)
    BY <1>5, <1>7
<1>8. QED
    BY <1>4, <1>5, <1>6, <1>7

(* However many sign-ups, top-ups, cashouts and transfers write the totals *)
(* at once, one of them can go on: their transactions lock a wallet's      *)
(* balance, then the totals, then a user's stats, and never wait for one   *)
(* another in a circle.                                                    *)
THEOREM NeverInACircle == Spec => []NoCircle
<1>1. Inv => NoCircle
    BY SomeoneGoes DEF NoCircle
<1>2. QED
    BY <1>1, Invariance, PTL

-----------------------------------------------------------------------------
(* A wallet is counted when its first transaction is its only one.         *)

(* A transfer from or to the user's wallet that has been committed.        *)
Paid(j, u) ==
    /\ Work[j].kind = "transfer" /\ u \in {Work[j].user, Work[j].to}
    /\ step[j] # "start"

(* The job is past the call that may count the user's wallet.              *)
Past(j, u) ==
    \A i \in 1..Len(Calls(j)) :
        Calls(j)[i].op = "mark" /\ Calls(j)[i].user = u =>
            i < at[j] \/ (i = at[j] /\ step[j] # "count")

MarkInv ==
    /\ \A u \in Users : \A j \in Jobs : Paid(j, u) => ledger[u] >= 1
    /\ \A u \in Users : \A j, q \in Jobs : j # q /\ Paid(j, u) /\ Paid(q, u) => ledger[u] >= 2
    /\ \A u \in Users : marks[u] # 0 => \E j \in Jobs : Paid(j, u) /\ Past(j, u)
    /\ \A u \in Users : marks[u] <= 1

LEMMA CallsStay ==
    ASSUME NEW j
    PROVE  Calls(j)' = Calls(j)
BY DEF Calls, Call, InTransaction

(* No job goes back in its calls, and it comes to count a wallet only with *)
(* a new call.                                                             *)
LEMMA Onward ==
    ASSUME Inv, NEW j \in Jobs,
           NextCall(j) \/ \E place \in {"find", "create", "select", "update", "insert", "event",
                                        "done", "failed"} : Goto(j, place)
    PROVE  /\ \A q \in Jobs \ {j} : at'[q] = at[q] /\ step'[q] = step[q]
           /\ at[j] <= at'[j] /\ step'[j] # "start"
           /\ at'[j] = at[j] => step'[j] # "count"
<1>1. CASE NextCall(j)
    <2>1. /\ \A q \in Jobs \ {j} : at'[q] = at[q] /\ step'[q] = step[q]
          /\ at'[j] = at[j] \/ at'[j] = at[j] + 1
          /\ step'[j] \in {"post", "count", "find", "commit", "done"}
        BY <1>1, NextCallGoes
    <2>2. at[j] \in 0..Len(Calls(j)) /\ Len(Calls(j)) \in {1, 3, 6}
        BY CallsAre DEF Inv, TypeOK
    <2>3. at'[j] = at[j] => step'[j] # "count"
        <3>1. CASE at[j] < Len(Calls(j))
            <4>1. at' = [at EXCEPT ![j] = at[j] + 1] /\ DOMAIN at = Jobs
                BY <1>1, <3>1 DEF NextCall, Inv
            <4>2. at'[j] = at[j] + 1
                BY <4>1
            <4>3. QED
                BY <2>2, <4>2
        <3>2. CASE ~(at[j] < Len(Calls(j)))
            <4>1. Goto(j, IF Transactional(j) THEN "commit" ELSE "done")
                BY <1>1, <3>2 DEF NextCall
            <4>2. QED
                BY <4>1, GotoGoes
        <3>3. QED
            BY <3>1, <3>2
    <2>4. QED
        BY <2>1, <2>2, <2>3
<1>2. CASE \E place \in {"find", "create", "select", "update", "insert", "event",
                         "done", "failed"} : Goto(j, place)
    <2>1. PICK place \in {"find", "create", "select", "update", "insert", "event",
                          "done", "failed"} : Goto(j, place)
        BY <1>2
    <2>2. at' = at /\ step'[j] = place /\ \A q \in Jobs \ {j} : step'[q] = step[q]
        BY <2>1, GotoGoes
    <2>3. at[j] \in 0..Len(Calls(j)) /\ Len(Calls(j)) \in {1, 3, 6}
        BY CallsAre DEF Inv, TypeOK
    <2>4. QED
        BY <2>2, <2>3
<1>3. QED
    BY <1>1, <1>2

LEMMA GoesOnward ==
    ASSUME NEW j \in Jobs,
           \/ Begin(j) \/ Post(j) \/ CountTransactions(j)
           \/ FindSnapshot(j) \/ CreateSnapshot(j) \/ FindStats(j)
           \/ SelectRow(j) \/ UpdateRow(j) \/ InsertRow(j) \/ SaveEvent(j)
           \/ Commit(j) \/ DuplicateStats(j) \/ Interrupt(j)
    PROVE  NextCall(j) \/ \E place \in {"find", "create", "select", "update", "insert", "event",
                                        "done", "failed"} : Goto(j, place)
<1>1. CASE Begin(j) \/ Post(j) \/ CountTransactions(j) \/ SaveEvent(j)
    BY <1>1 DEF Begin, Post, CountTransactions, SaveEvent
<1>2. CASE FindSnapshot(j) \/ CreateSnapshot(j)
    BY <1>2 DEF FindSnapshot, CreateSnapshot, GotSnapshot
<1>3. CASE FindStats(j) \/ SelectRow(j)
    BY <1>3 DEF FindStats, SelectRow
<1>4. CASE UpdateRow(j) \/ InsertRow(j)
    BY <1>4 DEF UpdateRow, InsertRow, Saved
<1>5. CASE Commit(j) \/ DuplicateStats(j) \/ Interrupt(j)
    BY <1>5 DEF Commit, DuplicateStats, Interrupt, RollBack
<1>6. QED
    BY <1>1, <1>2, <1>3, <1>4, <1>5

(* A wallet's transactions only become more, a transfer's as it begins.    *)
LEMMA LedgerGrows ==
    ASSUME Inv, NEW j \in Jobs,
           \/ Begin(j) \/ Post(j) \/ CountTransactions(j)
           \/ FindSnapshot(j) \/ CreateSnapshot(j) \/ FindStats(j)
           \/ SelectRow(j) \/ UpdateRow(j) \/ InsertRow(j) \/ SaveEvent(j)
           \/ Commit(j) \/ DuplicateStats(j) \/ Interrupt(j)
    PROVE  /\ \A u \in Users : ledger[u] \in Nat /\ ledger'[u] \in Nat /\ ledger'[u] >= ledger[u]
           /\ \A u \in Users : ~Paid(j, u) /\ Paid(j, u)' => ledger'[u] = ledger[u] + 1
<1>1. ledger \in [Users -> Nat]
    BY DEF Inv, TypeOK
<1>2. CASE Begin(j)
    BY <1>1, <1>2 DEF Begin, Paid
<1>3. CASE Commit(j)
    <2>1. step[j] = "commit" /\ ledger' = [u \in Users |-> IF u \in Posts(j) THEN ledger[u] + 1
                                                           ELSE ledger[u]]
        BY <1>3 DEF Commit
    <2>2. QED
        BY <1>1, <2>1 DEF Paid
<1>4. CASE /\ ledger' = ledger /\ step[j] # "start"
    BY <1>1, <1>4 DEF Paid
<1>5. Post(j) \/ CountTransactions(j) \/ FindSnapshot(j) \/ CreateSnapshot(j) \/ FindStats(j)
          => ledger' = ledger /\ step[j] # "start"
    BY DEF Post, CountTransactions, FindSnapshot, CreateSnapshot, FindStats, tables
<1>6. SelectRow(j) \/ UpdateRow(j) \/ InsertRow(j) \/ SaveEvent(j) \/ DuplicateStats(j) \/ Interrupt(j)
          => ledger' = ledger /\ step[j] # "start"
    BY DEF SelectRow, UpdateRow, InsertRow, SaveEvent, DuplicateStats, Interrupt, RollBack,
           Running, tables
<1>7. QED
    BY <1>2, <1>3, <1>4, <1>5, <1>6

LEMMA MarkPreserves ==
    ASSUME Inv, MarkInv, [Next]_vars
    PROVE  MarkInv'
<1>1. CASE UNCHANGED vars
    <2>1. UNCHANGED <<ledger, marks, at, step>>
        BY <1>1 DEF vars, tables, history
    <2>2. \A j : Calls(j)' = Calls(j)
        BY CallsStay
    <2>3. \A j, u : (Paid(j, u)' <=> Paid(j, u)) /\ (Past(j, u)' <=> Past(j, u))
        BY <2>1, <2>2 DEF Paid, Past
    <2>4. QED
        BY <2>1, <2>3 DEF MarkInv
<1>2. CASE Next
    <2>1. PICK j \in Jobs :
              \/ Begin(j) \/ Post(j) \/ CountTransactions(j)
              \/ FindSnapshot(j) \/ CreateSnapshot(j) \/ FindStats(j)
              \/ SelectRow(j) \/ UpdateRow(j) \/ InsertRow(j) \/ SaveEvent(j)
              \/ Commit(j) \/ DuplicateStats(j) \/ Interrupt(j)
        BY <1>2 DEF Next
    <2>2. /\ \A q \in Jobs \ {j} : at'[q] = at[q] /\ step'[q] = step[q]
          /\ at[j] <= at'[j] /\ step'[j] # "start"
          /\ at'[j] = at[j] => step'[j] # "count"
        BY <2>1, GoesOnward, Onward
    <2>3. /\ \A u \in Users : ledger[u] \in Nat /\ ledger'[u] \in Nat /\ ledger'[u] >= ledger[u]
          /\ \A u \in Users : ~Paid(j, u) /\ Paid(j, u)' => ledger'[u] = ledger[u] + 1
        BY <2>1, LedgerGrows
    <2>4. \A u \in Users : \A q \in Jobs \ {j} : Paid(q, u)' <=> Paid(q, u)
        BY <2>2 DEF Paid
    <2>5. \A u \in Users : \A q \in Jobs : Paid(q, u) => Paid(q, u)'
        BY <2>2 DEF Paid
    <2>6. ASSUME NEW u \in Users, NEW q \in Jobs, Paid(q, u)' PROVE ledger'[u] >= 1
        BY <2>3, <2>4, <2>6 DEF MarkInv
    <2>7. ASSUME NEW u \in Users, NEW p \in Jobs, NEW q \in Jobs, p # q, Paid(p, u)', Paid(q, u)'
          PROVE  ledger'[u] >= 2
        <3>1. CASE Paid(p, u) /\ Paid(q, u)
            BY <2>3, <2>7, <3>1 DEF MarkInv
        <3>2. CASE ~Paid(p, u)
            <4>1. p = j /\ Paid(q, u)
                BY <2>4, <2>7, <3>2
            <4>2. ledger[u] >= 1 /\ ledger'[u] = ledger[u] + 1
                BY <2>3, <2>7, <3>2, <4>1 DEF MarkInv
            <4>3. QED
                BY <2>3, <4>2
        <3>3. CASE ~Paid(q, u)
            <4>1. q = j /\ Paid(p, u)
                BY <2>4, <2>7, <3>3
            <4>2. ledger[u] >= 1 /\ ledger'[u] = ledger[u] + 1
                BY <2>3, <2>7, <3>3, <4>1 DEF MarkInv
            <4>3. QED
                BY <2>3, <4>2
        <3>4. QED
            BY <3>1, <3>2, <3>3
    <2>8. ASSUME NEW u \in Users, NEW q \in Jobs, Past(q, u) PROVE Past(q, u)'
        <3>1. CASE q # j
            <4>1. at'[q] = at[q] /\ step'[q] = step[q]
                BY <2>2, <3>1
            <4>2. QED
                BY <2>8, <4>1, CallsStay DEF Past
        <3>2. CASE q = j
            <4>1. Len(Calls(j)) \in {1, 3, 6} /\ Calls(j)' = Calls(j)
                BY CallsAre, CallsStay
            <4>2. at[j] \in 0..Len(Calls(j)) /\ at'[j] \in 0..Len(Calls(j))
                BY <4>1, NextPreserves DEF Inv, TypeOK
            <4>3. at[j] \in Int /\ at'[j] \in Int
                BY <4>1, <4>2
            <4>4. SUFFICES ASSUME NEW i \in 1..Len(Calls(j)),
                                  Calls(j)[i].op = "mark", Calls(j)[i].user = u
                           PROVE  i < at'[j] \/ (i = at'[j] /\ step'[j] # "count")
                BY <3>2, <4>1 DEF Past
            <4>5. i < at[j] \/ (i = at[j] /\ step[j] # "count")
                BY <2>8, <3>2, <4>4 DEF Past
            <4>6. i \in Int
                BY <4>1
            <4>7. QED
                BY <2>2, <4>3, <4>5, <4>6
        <3>3. QED
            BY <3>1, <3>2
    <2>9. CASE marks' = marks
        BY <2>5, <2>6, <2>7, <2>8, <2>9 DEF MarkInv
    <2>10. CASE CountTransactions(j) /\ marks' # marks
        <3>1. step[j] = "count" /\ at[j] \in 1..Len(Calls(j)) /\ Op(j) = "mark"
            BY <2>10 DEF CountTransactions, Inv, PlaceOf
        <3>2. PICK w \in Users : w = Current(j).user
            BY <3>1, CurrentIs
        <3>3. /\ step[j] = "count" /\ Counted(w) /\ Goto(j, "find")
              /\ marks' = [marks EXCEPT ![w] = marks[w] + 1]
            BY <2>10, <3>2 DEF CountTransactions
        <3>4. Paid(j, w)
            <4>1. Work[j].kind = "transfer"
                BY <3>1, CallsAre DEF Op, Current
            <4>2. at[j] \in 1..6
                BY <3>1, <4>1, CallsAre
            <4>3. at[j] = 5 \/ at[j] = 6
                <5>1. at[j] = 1 \/ at[j] = 2 \/ at[j] = 3 \/ at[j] = 4 \/ at[j] = 5 \/ at[j] = 6
                    BY <4>2
                <5>2. QED
                    BY <3>1, <4>1, <5>1, CallsAre DEF Op, Current
            <4>4. w \in {Work[j].user, Work[j].to}
                BY <3>2, <4>1, <4>3, CallsAre DEF Current
            <4>5. QED
                BY <3>3, <4>1, <4>4 DEF Paid
        <3>5. ledger[w] = 1
            BY <3>3 DEF Counted
        <3>6. ~Past(j, w)
            BY <3>1, <3>2, CallsAre DEF Past, Op, Current
        <3>7. marks[w] = 0
            <4>1. SUFFICES ASSUME marks[w] # 0 PROVE FALSE
                OBVIOUS
            <4>2. PICK q \in Jobs : Paid(q, w) /\ Past(q, w)
                BY <3>4, <4>1 DEF MarkInv
            <4>3. q # j
                BY <3>6, <4>2
            <4>4. ledger[w] >= 2
                BY <3>4, <4>2, <4>3 DEF MarkInv
            <4>5. QED
                BY <3>5, <4>4
        <3>8. Past(j, w)'
            <4>1. at' = at /\ step'[j] = "find"
                BY <3>3, GotoGoes
            <4>2. \A i \in 1..Len(Calls(j)) :
                      Calls(j)[i].op = "mark" /\ Calls(j)[i].user = w => i = at[j]
                <5>1. Work[j].kind = "transfer" /\ Work[j].user # Work[j].to
                    BY <3>4, TransferAssumption DEF Paid
                <5>2. Len(Calls(j)) = 6 /\ at[j] \in 1..6
                    BY <3>1, <5>1, CallsAre
                <5>3. \A i \in 1..6 : Calls(j)[i].op = "mark" => i = 5 \/ i = 6
                    <6>1. SUFFICES ASSUME NEW i \in 1..6, Calls(j)[i].op = "mark" PROVE i = 5 \/ i = 6
                        OBVIOUS
                    <6>2. i = 1 \/ i = 2 \/ i = 3 \/ i = 4 \/ i = 5 \/ i = 6
                        OBVIOUS
                    <6>3. QED
                        BY <5>1, <6>1, <6>2, CallsAre
                <5>4. at[j] = 5 \/ at[j] = 6
                    BY <3>1, <5>2, <5>3 DEF Op, Current
                <5>5. Calls(j)[5].user # Calls(j)[6].user /\ w = Calls(j)[at[j]].user
                    BY <3>2, <5>1, CallsAre DEF Current
                <5>6. QED
                    BY <5>2, <5>3, <5>4, <5>5
            <4>3. QED
                BY <4>1, <4>2, CallsStay DEF Past
        <3>9. /\ marks \in [Users -> Nat] /\ marks'[w] = 1
              /\ \A u \in Users \ {w} : marks'[u] = marks[u]
            BY <3>3, <3>7 DEF Inv, TypeOK
        <3>10. \A u \in Users : marks'[u] # 0 => \E q \in Jobs : Paid(q, u)' /\ Past(q, u)'
            <4>1. SUFFICES ASSUME NEW u \in Users, marks'[u] # 0
                           PROVE  \E q \in Jobs : Paid(q, u)' /\ Past(q, u)'
                OBVIOUS
            <4>2. CASE u = w
                BY <2>5, <3>4, <3>8, <4>2
            <4>3. CASE u # w
                <5>1. PICK q \in Jobs : Paid(q, u) /\ Past(q, u)
                    BY <3>9, <4>1, <4>3 DEF MarkInv
                <5>2. QED
                    BY <2>5, <2>8, <5>1
            <4>4. QED
                BY <4>2, <4>3
        <3>11. \A u \in Users : marks'[u] <= 1
            BY <3>9 DEF MarkInv
        <3>12. QED
            BY <2>6, <2>7, <3>10, <3>11 DEF MarkInv
    <2>11. marks' = marks \/ CountTransactions(j)
        BY <2>1 DEF Begin, Post, FindSnapshot, CreateSnapshot, FindStats, SelectRow, UpdateRow,
                    InsertRow, SaveEvent, Commit, DuplicateStats, Interrupt, RollBack, history
    <2>12. QED
        BY <2>9, <2>10, <2>11
<1>3. QED
    BY <1>1, <1>2

(* A wallet is counted as active at most once, however transfers, top-ups  *)
(* and cashouts of it interleave: whichever listener comes to count it     *)
(* second finds the rows of both.                                          *)
THEOREM CountedOnce == Spec => [](\A u \in Users : marks[u] <= 1)
<1>1. Init => MarkInv
    BY DEF Init, MarkInv, Paid
<1>2. MarkInv => \A u \in Users : marks[u] <= 1
    BY DEF MarkInv
<1>3. QED
    BY <1>1, <1>2, Invariance, MarkPreserves, PTL DEF Spec

-----------------------------------------------------------------------------
(* What a job has written of what it does.                                 *)

Step(j) ==
    \/ Begin(j) \/ Post(j) \/ CountTransactions(j)
    \/ FindSnapshot(j) \/ CreateSnapshot(j) \/ FindStats(j)
    \/ SelectRow(j) \/ UpdateRow(j) \/ InsertRow(j) \/ SaveEvent(j)
    \/ Commit(j) \/ DuplicateStats(j) \/ Interrupt(j)

(* The types of the rows it posts, whose they are, and at which of its     *)
(* calls it adds them to the totals and to the user's stats.               *)
Types(j) ==
    CASE Work[j].kind = "topup" -> {"CREDIT"}
      [] Work[j].kind = "cashout" -> {"DEBIT"}
      [] Work[j].kind = "transfer" -> {"DEBIT", "CREDIT"}
      [] OTHER -> {}
Party(j, t) == IF Work[j].kind = "transfer" /\ t = "CREDIT" THEN Work[j].to ELSE Work[j].user
RecordCall(j, t) == IF Transactional(j) \/ t = "CREDIT" THEN 2 ELSE 1
StatsCall(j, t) == IF Transactional(j) \/ t = "DEBIT" THEN 3 ELSE 4

EventOf(j, t) == [job |-> j, user |-> Party(j, t), type |-> t, amount |-> Kobo(Work[j].amount)]
Possible == {e \in Events : e.type \in Types(e.job) /\ e = EventOf(e.job, e.type)}

(* Its row of type t is, for all to see, an event, in the totals, in the   *)
(* user's stats.                                                           *)
EventSaved(j, t) == IF Transactional(j) THEN step[j] = "done" ELSE at[j] > RecordCall(j, t)
TotalSaved(j, t) ==
    EventSaved(j, t) \/ (~Transactional(j) /\ at[j] = RecordCall(j, t) /\ step[j] = "event")
StatsSaved(j, t) == IF Transactional(j) THEN step[j] = "done" ELSE at[j] > StatsCall(j, t)
Noting(j) == Transactional(j) /\ Running(j) /\ at[j] = 3

(* The posting calls, by their place.                                      *)
LEMMA PlacesOf ==
    ASSUME NEW j \in Jobs
    PROVE  /\ Work[j].kind \in {"topup", "cashout"} =>
                  /\ Calls(j)[1].op = "post"
                  /\ \A t \in {"CREDIT", "DEBIT"} : t \in Types(j) =>
                         /\ Calls(j)[1].user = Work[j].user
                         /\ Calls(j)[2].user = Work[j].user /\ Calls(j)[2].type = t
                         /\ Calls(j)[3].user = Work[j].user /\ Calls(j)[3].type = t
           /\ Work[j].kind = "transfer" =>
                  /\ Calls(j)[1].user = Work[j].user /\ Calls(j)[1].type = "DEBIT"
                  /\ Calls(j)[2].user = Work[j].to /\ Calls(j)[2].type = "CREDIT"
                  /\ Calls(j)[3].user = Work[j].user /\ Calls(j)[3].type = "DEBIT"
                  /\ Calls(j)[4].user = Work[j].to /\ Calls(j)[4].type = "CREDIT"
           /\ Types(j) \subseteq {"CREDIT", "DEBIT"}
           /\ Types(j) # {} <=> Work[j].kind \in {"topup", "cashout", "transfer"}
           /\ \A t \in Types(j) : Party(j, t) \in Users
           /\ Work[j].kind \in {"topup", "cashout"} =>
                  \E t \in {"CREDIT", "DEBIT"} : Types(j) = {t} /\ Party(j, t) = Work[j].user
           /\ Work[j].kind = "transfer" => Types(j) = {"DEBIT", "CREDIT"}
<1>1. Work[j] \in Job
    BY WorkAssumption
<1>2. CASE Work[j].kind = "signup"
    BY <1>1, <1>2 DEF Types, Party, Job
<1>3. CASE Work[j].kind = "report"
    BY <1>1, <1>3 DEF Types, Party, Job
<1>4. CASE Work[j].kind = "topup"
    BY <1>1, <1>4 DEF Types, Party, Calls, Call, InTransaction, Job
<1>5. CASE Work[j].kind = "cashout"
    BY <1>1, <1>5 DEF Types, Party, Calls, Call, InTransaction, Job
<1>6. CASE Work[j].kind = "transfer"
    BY <1>1, <1>6 DEF Types, Party, Calls, Call, InTransaction, Job
<1>7. QED
    BY <1>1, <1>2, <1>3, <1>4, <1>5, <1>6 DEF Job

(* Where a job records a row, and where it adds it to stats.               *)
LEMMA CallOf ==
    ASSUME NEW j \in Jobs, at[j] \in 1..Len(Calls(j))
    PROVE  /\ Op(j) = "record" <=> \E t \in Types(j) : at[j] = RecordCall(j, t)
           /\ Op(j) = "stats" <=> \E t \in Types(j) : at[j] = StatsCall(j, t)
           /\ \A t \in Types(j) : at[j] = RecordCall(j, t) \/ at[j] = StatsCall(j, t) =>
                  Current(j).type = t /\ Current(j).user = Party(j, t)
<1>1. Work[j].kind \in {"signup", "topup", "cashout", "report", "transfer"}
    BY CallsAre
<1>2. CASE Work[j].kind \in {"signup", "report"}
    BY <1>2, CallsAre, PlacesOf DEF Op, Current
<1>3. CASE Work[j].kind \in {"topup", "cashout"}
    <2>1. at[j] = 1 \/ at[j] = 2 \/ at[j] = 3
        BY <1>3, CallsAre
    <2>2. PICK t \in {"CREDIT", "DEBIT"} : Types(j) = {t} /\ Party(j, t) = Work[j].user
        BY <1>3, PlacesOf
    <2>3. RecordCall(j, t) = 2 /\ StatsCall(j, t) = 3
        BY <1>3 DEF RecordCall, StatsCall, Transactional
    <2>4. /\ Op(j) = "record" <=> at[j] = 2
          /\ Op(j) = "stats" <=> at[j] = 3
        BY <1>3, <2>1, CallsAre DEF Op, Current
    <2>5. at[j] \in {2, 3} => Current(j).type = t /\ Current(j).user = Work[j].user
        BY <1>3, <2>1, <2>2, PlacesOf DEF Current
    <2>6. \A x \in Types(j) : x = t
        BY <2>2
    <2>7. QED
        BY <2>2, <2>3, <2>4, <2>5, <2>6
<1>4. CASE Work[j].kind = "transfer"
    <2>1. at[j] \in 1..6
        BY <1>4, CallsAre
    <2>2. at[j] = 1 \/ at[j] = 2 \/ at[j] = 3 \/ at[j] = 4 \/ at[j] = 5 \/ at[j] = 6
        BY <2>1
    <2>3. /\ RecordCall(j, "DEBIT") = 1 /\ RecordCall(j, "CREDIT") = 2
          /\ StatsCall(j, "DEBIT") = 3 /\ StatsCall(j, "CREDIT") = 4
        BY <1>4 DEF RecordCall, StatsCall, Transactional
    <2>4. Types(j) = {"DEBIT", "CREDIT"}
        BY <1>4, PlacesOf
    <2>5. /\ Party(j, "DEBIT") = Work[j].user /\ Party(j, "CREDIT") = Work[j].to
        BY <1>4 DEF Party
    <2>6. /\ Op(j) = "record" <=> at[j] \in {1, 2}
          /\ Op(j) = "stats" <=> at[j] \in {3, 4}
        BY <1>4, <2>2, CallsAre DEF Op, Current
    <2>7. /\ at[j] \in {1, 3} => Current(j).type = "DEBIT" /\ Current(j).user = Work[j].user
          /\ at[j] \in {2, 4} => Current(j).type = "CREDIT" /\ Current(j).user = Work[j].to
        BY <1>4, <2>2, PlacesOf DEF Current
    <2>8. /\ Op(j) = "record" <=> \E t \in Types(j) : at[j] = RecordCall(j, t)
          /\ Op(j) = "stats" <=> \E t \in Types(j) : at[j] = StatsCall(j, t)
        BY <2>3, <2>4, <2>6
    <2>9. ASSUME NEW t \in Types(j), at[j] = RecordCall(j, t) \/ at[j] = StatsCall(j, t)
          PROVE  Current(j).type = t /\ Current(j).user = Party(j, t)
        <3>1. t = "DEBIT" \/ t = "CREDIT"
            BY <2>4
        <3>2. CASE t = "DEBIT"
            BY <2>3, <2>5, <2>7, <2>9, <3>2
        <3>3. CASE t = "CREDIT"
            BY <2>3, <2>5, <2>7, <2>9, <3>3
        <3>4. QED
            BY <3>1, <3>2, <3>3
    <2>10. QED
        BY <2>8, <2>9
<1>5. QED
    BY <1>1, <1>2, <1>3, <1>4

(* The events of a job are the ones it may save.                           *)
LEMMA EventIs ==
    ASSUME NEW j \in Jobs
    PROVE  /\ \A t \in Types(j) :
                  /\ EventOf(j, t) \in Possible
                  /\ EventOf(j, t).job = j /\ EventOf(j, t).type = t
                  /\ EventOf(j, t).user = Party(j, t) /\ EventOf(j, t).amount = Kobo(Work[j].amount)
           /\ \A e \in Possible : e.job = j => e.type \in Types(j) /\ e = EventOf(j, e.type)
           /\ at[j] \in 1..Len(Calls(j)) /\ Op(j) = "record" =>
                  Current(j).type \in Types(j) /\ Event(j) = EventOf(j, Current(j).type)
<1>1. Kobo(Work[j].amount) \in Nat \ {0}
    BY CallsAre DEF Kobo
<1>2. ASSUME NEW t \in Types(j) PROVE EventOf(j, t) \in Events
    BY <1>1, PlacesOf DEF EventOf, Events
<1>3. ASSUME at[j] \in 1..Len(Calls(j)), Op(j) = "record"
      PROVE  Current(j).type \in Types(j) /\ Event(j) = EventOf(j, Current(j).type)
    <2>1. PICK t \in Types(j) : at[j] = RecordCall(j, t)
        BY <1>3, CallOf
    <2>2. Current(j).type = t /\ Current(j).user = Party(j, t)
        BY <1>3, <2>1, CallOf
    <2>3. QED
        BY <2>2 DEF Event, EventOf
<1>4. QED
    BY <1>2, <1>3 DEF Possible, EventOf

(* Where NextCall leads, exactly.                                          *)
LEMMA NextGoes ==
    ASSUME Inv, NEW j \in Jobs, NextCall(j)
    PROVE  /\ at[j] < Len(Calls(j)) =>
                  at'[j] = at[j] + 1 /\ step'[j] \in {"post", "count", "find"}
           /\ ~(at[j] < Len(Calls(j))) =>
                  at'[j] = at[j] /\ step'[j] = IF Transactional(j) THEN "commit" ELSE "done"
<1>1. DOMAIN at = Jobs /\ DOMAIN step = Jobs
    BY DEF Inv, TypeOK
<1>2. CASE at[j] < Len(Calls(j))
    BY <1>1, <1>2 DEF NextCall, FirstStep
<1>3. CASE ~(at[j] < Len(Calls(j)))
    BY <1>1, <1>3 DEF NextCall, Goto
<1>4. QED
    BY <1>2, <1>3

(* A transfer's calls are counted to six, its rows' calls to four.         *)
LEMMA TransferPlaces ==
    ASSUME Inv, NEW j \in Jobs, ~Transactional(j), NEW t \in Types(j)
    PROVE  /\ Work[j].kind = "transfer" /\ Len(Calls(j)) = 6
           /\ at[j] \in 0..6 /\ (step[j] # "start" => at[j] \in 1..6)
           /\ RecordCall(j, t) = (IF t = "DEBIT" THEN 1 ELSE 2)
           /\ StatsCall(j, t) = (IF t = "DEBIT" THEN 3 ELSE 4)
           /\ t \in {"DEBIT", "CREDIT"}
<1>1. Work[j].kind = "transfer"
    BY PlacesOf DEF Transactional
<1>2. Len(Calls(j)) = 6 /\ t \in {"DEBIT", "CREDIT"}
    BY <1>1, CallsAre, PlacesOf
<1>3. at[j] \in 0..6 /\ (step[j] # "start" => at[j] \in 1..6)
    BY <1>2 DEF Inv, TypeOK, PlaceOf
<1>4. QED
    BY <1>1, <1>2, <1>3 DEF RecordCall, StatsCall

(* What a job has saved is the same.                                       *)
SavedAsBefore(j, t) ==
    /\ EventSaved(j, t)' <=> EventSaved(j, t)
    /\ TotalSaved(j, t)' <=> TotalSaved(j, t)
    /\ StatsSaved(j, t)' <=> StatsSaved(j, t)

(* Nothing of a transaction is seen before it is committed.                *)
LEMMA UnseenBefore ==
    ASSUME Inv, NEW j \in Jobs, Transactional(j), step[j] # "done", step'[j] # "done"
    PROVE  \A t \in Types(j) : SavedAsBefore(j, t)
BY DEF SavedAsBefore, EventSaved, TotalSaved, StatsSaved, Transactional

(* A step with which a listener saves nothing.                             *)
LEMMA SavesNothing ==
    ASSUME Inv, NEW j \in Jobs, step[j] \notin {"event"} \union Ended,
           \/ NextCall(j) /\ (step[j] = "start" \/ Op(j) \notin {"record", "stats"})
           \/ \E place \in {"find", "create", "select", "update", "insert", "failed"} : Goto(j, place)
    PROVE  \A t \in Types(j) : SavedAsBefore(j, t)
<1>1. CASE Transactional(j)
    <2>1. step'[j] # "done"
        BY <1>1, NextGoes, GotoGoes
    <2>2. QED
        BY <1>1, <2>1, UnseenBefore DEF Ended
<1>2. CASE ~Transactional(j)
    <2> SUFFICES ASSUME NEW t \in Types(j) PROVE SavedAsBefore(j, t)
        OBVIOUS
    <2>1. /\ Len(Calls(j)) = 6
          /\ at[j] \in 0..6 /\ (step[j] # "start" => at[j] \in 1..6)
          /\ RecordCall(j, t) = (IF t = "DEBIT" THEN 1 ELSE 2)
          /\ StatsCall(j, t) = (IF t = "DEBIT" THEN 3 ELSE 4)
          /\ t \in {"DEBIT", "CREDIT"}
        BY <1>2, TransferPlaces
    <2>2. RecordCall(j, t)' = RecordCall(j, t) /\ StatsCall(j, t)' = StatsCall(j, t)
        BY DEF RecordCall, StatsCall, Transactional
    <2>3. CASE \E place \in {"find", "create", "select", "update", "insert", "failed"} : Goto(j, place)
        <3>1. at'[j] = at[j] /\ step'[j] # "event"
            BY <2>3, GotoGoes
        <3>2. QED
            BY <1>2, <2>2, <3>1 DEF SavedAsBefore, EventSaved, TotalSaved, StatsSaved, Transactional
    <2>4. CASE NextCall(j) /\ (step[j] = "start" \/ Op(j) \notin {"record", "stats"})
        <3>1. at[j] \in {0, 5, 6}
            <4>1. CASE step[j] = "start"
                BY <4>1 DEF Inv, PlaceOf
            <4>2. CASE step[j] # "start"
                <5>1. at[j] \in 1..Len(Calls(j)) /\ Op(j) \notin {"record", "stats"}
                    BY <2>1, <2>4, <4>2
                <5>2. \A u \in Types(j) : at[j] # RecordCall(j, u) /\ at[j] # StatsCall(j, u)
                    BY <5>1, CallOf
                <5>3. "DEBIT" \in Types(j) /\ "CREDIT" \in Types(j)
                    BY <1>2, TransferPlaces, PlacesOf
                <5>4. /\ RecordCall(j, "DEBIT") = 1 /\ RecordCall(j, "CREDIT") = 2
                      /\ StatsCall(j, "DEBIT") = 3 /\ StatsCall(j, "CREDIT") = 4
                    BY <1>2, <5>3, TransferPlaces
                <5>5. at[j] \notin {1, 2, 3, 4} /\ at[j] \in 1..6
                    BY <2>1, <4>2, <5>2, <5>3, <5>4
                <5>6. QED
                    BY <5>5
            <4>3. QED
                BY <4>1, <4>2
        <3>2. /\ at[j] = 0 => at'[j] = 1
              /\ at[j] \in {5, 6} => at'[j] \in {5, 6}
              /\ step'[j] # "event"
            <4>1. CASE at[j] = 6
                <5>1. ~(at[j] < Len(Calls(j)))
                    BY <2>1, <4>1
                <5>2. at'[j] = at[j] /\ step'[j] = "done"
                    BY <1>2, <2>4, <5>1, NextGoes
                <5>3. QED
                    BY <4>1, <5>2
            <4>2. CASE at[j] \in {0, 5}
                <5>1. at[j] < Len(Calls(j))
                    BY <2>1, <4>2
                <5>2. at'[j] = at[j] + 1 /\ step'[j] \in {"post", "count", "find"}
                    BY <2>4, <5>1, NextGoes
                <5>3. QED
                    BY <4>2, <5>2
            <4>3. QED
                BY <3>1, <4>1, <4>2
        <3>3. QED
            BY <1>2, <2>1, <2>2, <3>1, <3>2
               DEF SavedAsBefore, EventSaved, TotalSaved, StatsSaved, Transactional
    <2>5. QED
        BY <2>3, <2>4
<1>3. QED
    BY <1>1, <1>2

(* A listener's save of the totals.                                        *)
LEMMA SavesTotal ==
    ASSUME Inv, NEW j \in Jobs, ~Transactional(j), step[j] = "update", Op(j) = "record",
           Goto(j, "event")
    PROVE  /\ Current(j).type \in Types(j) /\ ~TotalSaved(j, Current(j).type)
           /\ \A t \in Types(j) :
                  /\ EventSaved(j, t)' <=> EventSaved(j, t)
                  /\ TotalSaved(j, t)' <=> TotalSaved(j, t) \/ t = Current(j).type
                  /\ StatsSaved(j, t)' <=> StatsSaved(j, t)
<1>1. at[j] \in 1..Len(Calls(j))
    BY DEF Inv, PlaceOf
<1>2. PICK s \in Types(j) : at[j] = RecordCall(j, s)
    BY <1>1, CallOf
<1>3. Current(j).type = s
    BY <1>1, <1>2, CallOf
<1>4. \A t \in Types(j) : /\ RecordCall(j, t) = (IF t = "DEBIT" THEN 1 ELSE 2)
                          /\ t \in {"DEBIT", "CREDIT"}
    BY TransferPlaces
<1>5. \A t \in Types(j) : RecordCall(j, t) = at[j] <=> t = s
    BY <1>2, <1>4
<1>6. at'[j] = at[j] /\ step'[j] = "event"
    BY GotoGoes
<1>7. \A t : RecordCall(j, t)' = RecordCall(j, t) /\ StatsCall(j, t)' = StatsCall(j, t)
    BY DEF RecordCall, StatsCall, Transactional
<1>8. \A t \in Types(j) :
          /\ EventSaved(j, t)' <=> EventSaved(j, t)
          /\ StatsSaved(j, t)' <=> StatsSaved(j, t)
    BY <1>6, <1>7 DEF EventSaved, StatsSaved, Transactional
<1>9. \A t \in Types(j) : TotalSaved(j, t)' <=> EventSaved(j, t)' \/ t = s
    BY <1>5, <1>6, <1>7 DEF TotalSaved, Transactional
<1>10. \A t \in Types(j) : TotalSaved(j, t) <=> EventSaved(j, t)
    BY DEF TotalSaved
<1>11. ~EventSaved(j, s)
    BY <1>2, <1>4 DEF EventSaved
<1>12. QED
    BY <1>2, <1>3, <1>8, <1>9, <1>10, <1>11

(* A listener's event.                                                     *)
LEMMA SavesEvent ==
    ASSUME Inv, NEW j \in Jobs, ~Transactional(j), step[j] = "event", NextCall(j)
    PROVE  /\ Current(j).type \in Types(j)
           /\ \A t \in Types(j) :
                  /\ EventSaved(j, t)' <=> EventSaved(j, t) \/ t = Current(j).type
                  /\ TotalSaved(j, t)' <=> TotalSaved(j, t)
                  /\ StatsSaved(j, t)' <=> StatsSaved(j, t)
<1>1. at[j] \in 1..Len(Calls(j)) /\ Op(j) = "record"
    BY DEF Inv, PlaceOf
<1>2. PICK s \in Types(j) : at[j] = RecordCall(j, s)
    BY <1>1, CallOf
<1>3. Current(j).type = s
    BY <1>1, <1>2, CallOf
<1>4. \A t \in Types(j) : /\ RecordCall(j, t) = (IF t = "DEBIT" THEN 1 ELSE 2)
                          /\ StatsCall(j, t) = (IF t = "DEBIT" THEN 3 ELSE 4)
                          /\ t \in {"DEBIT", "CREDIT"} /\ Len(Calls(j)) = 6
    BY TransferPlaces
<1>5. at[j] \in {1, 2} /\ at'[j] = at[j] + 1 /\ step'[j] # "event"
    <2>1. at[j] \in {1, 2} /\ Len(Calls(j)) = 6
        BY <1>2, <1>4
    <2>2. at[j] < Len(Calls(j))
        BY <2>1
    <2>3. QED
        BY <2>1, <2>2, NextGoes
<1>6. \A t : RecordCall(j, t)' = RecordCall(j, t) /\ StatsCall(j, t)' = StatsCall(j, t)
    BY DEF RecordCall, StatsCall, Transactional
<1>7. \A t \in Types(j) : StatsSaved(j, t)' <=> StatsSaved(j, t)
    BY <1>4, <1>5, <1>6 DEF StatsSaved, Transactional
<1>8. \A t \in Types(j) : EventSaved(j, t)' <=> EventSaved(j, t) \/ t = s
    BY <1>2, <1>4, <1>5, <1>6 DEF EventSaved, Transactional
<1>9. \A t \in Types(j) : /\ TotalSaved(j, t) <=> EventSaved(j, t) \/ t = s
                          /\ TotalSaved(j, t)' <=> EventSaved(j, t)'
    BY <1>2, <1>4, <1>5 DEF TotalSaved
<1>10. QED
    BY <1>2, <1>3, <1>7, <1>8, <1>9

(* A listener's save of a user's stats.                                    *)
LEMMA SavesStats ==
    ASSUME Inv, NEW j \in Jobs, ~Transactional(j), step[j] \in {"update", "insert"},
           Op(j) = "stats", NextCall(j)
    PROVE  /\ Current(j).type \in Types(j) /\ ~StatsSaved(j, Current(j).type)
           /\ \A t \in Types(j) :
                  /\ EventSaved(j, t)' <=> EventSaved(j, t)
                  /\ TotalSaved(j, t)' <=> TotalSaved(j, t)
                  /\ StatsSaved(j, t)' <=> StatsSaved(j, t) \/ t = Current(j).type
<1>1. at[j] \in 1..Len(Calls(j))
    BY DEF Inv, PlaceOf
<1>2. PICK s \in Types(j) : at[j] = StatsCall(j, s)
    BY <1>1, CallOf
<1>3. Current(j).type = s
    BY <1>1, <1>2, CallOf
<1>4. \A t \in Types(j) : /\ RecordCall(j, t) = (IF t = "DEBIT" THEN 1 ELSE 2)
                          /\ StatsCall(j, t) = (IF t = "DEBIT" THEN 3 ELSE 4)
                          /\ t \in {"DEBIT", "CREDIT"} /\ Len(Calls(j)) = 6
    BY TransferPlaces
<1>5. at[j] \in {3, 4} /\ at'[j] = at[j] + 1 /\ step'[j] # "event"
    <2>1. at[j] \in {3, 4} /\ Len(Calls(j)) = 6
        BY <1>2, <1>4
    <2>2. at[j] < Len(Calls(j))
        BY <2>1
    <2>3. QED
        BY <2>1, <2>2, NextGoes
<1>6. \A t : RecordCall(j, t)' = RecordCall(j, t) /\ StatsCall(j, t)' = StatsCall(j, t)
    BY DEF RecordCall, StatsCall, Transactional
<1>7. \A t \in Types(j) : EventSaved(j, t)' /\ EventSaved(j, t)
    BY <1>4, <1>5, <1>6 DEF EventSaved, Transactional
<1>8. \A t \in Types(j) : StatsSaved(j, t)' <=> StatsSaved(j, t) \/ t = s
    BY <1>2, <1>4, <1>5, <1>6 DEF StatsSaved, Transactional
<1>9. ~StatsSaved(j, s)
    BY <1>2, <1>4 DEF StatsSaved
<1>10. \A t \in Types(j) : TotalSaved(j, t) /\ TotalSaved(j, t)'
    BY <1>7 DEF TotalSaved
<1>11. QED
    BY <1>2, <1>3, <1>7, <1>8, <1>9, <1>10

(* A commit shows all that its transaction has saved.                      *)
LEMMA SavesAll ==
    ASSUME Inv, NEW j \in Jobs, step[j] = "commit", step'[j] = "done"
    PROVE  \A t \in Types(j) :
               /\ EventSaved(j, t)' /\ TotalSaved(j, t)' /\ StatsSaved(j, t)'
               /\ ~EventSaved(j, t) /\ ~TotalSaved(j, t) /\ ~StatsSaved(j, t)
<1>1. Transactional(j)
    BY DEF Inv, PlaceOf
<1>2. QED
    BY <1>1 DEF EventSaved, TotalSaved, StatsSaved, Transactional

-----------------------------------------------------------------------------
(* Rows and events, whatever goes wrong.                                   *)

(* A step changes where its own job is, and no other.                      *)
Still(q) ==
    /\ at'[q] = at[q] /\ step'[q] = step[q] /\ target'[q] = target[q]
    /\ memory'[q] = memory[q] /\ base'[q] = base[q] /\ found'[q] = found[q]
    /\ mine'[q] = mine[q] /\ noted'[q] = noted[q]

(* A save writes to no other transaction.                                  *)
LEMMA WrittenElsewhere ==
    ASSUME Inv, NEW j \in Jobs, NEW id, NEW row, Write(j, id, row)
    PROVE  \A q \in Jobs \ {j} : mine'[q] = mine[q]
BY DEF Write, Inv

(* Only a running job takes a step, and what the others know stays as it   *)
(* is.                                                                     *)
LEMMA OthersStill ==
    ASSUME Inv, NEW j \in Jobs, Step(j)
    PROVE  step[j] \notin Ended /\ \A q \in Jobs \ {j} : Still(q)
<1>1. /\ DOMAIN at = Jobs /\ DOMAIN step = Jobs /\ DOMAIN target = Jobs /\ DOMAIN mine = Jobs
      /\ DOMAIN memory = Jobs /\ DOMAIN base = Jobs /\ DOMAIN found = Jobs /\ DOMAIN noted = Jobs
    BY DEF Inv, TypeOK
<1>2. \A q \in Jobs \ {j} : at'[q] = at[q] /\ step'[q] = step[q]
    BY GoesOnward, Onward DEF Step
<1>3. ASSUME Forget(j)
      PROVE  \A q \in Jobs \ {j} : /\ target'[q] = target[q] /\ memory'[q] = memory[q]
                                   /\ base'[q] = base[q] /\ found'[q] = found[q]
    BY <1>1, <1>3 DEF Forget
<1>4. CASE Begin(j) \/ Post(j) \/ CountTransactions(j) \/ SelectRow(j)
    BY <1>1, <1>2, <1>4 DEF Begin, Post, CountTransactions, SelectRow, tables, open, local, Still, Ended
<1>5. CASE FindSnapshot(j)
    BY <1>1, <1>2, <1>5 DEF FindSnapshot, tables, open, Still, Ended
<1>6. CASE CreateSnapshot(j)
    <2>1. \A q \in Jobs \ {j} : mine'[q] = mine[q]
        BY <1>6, WrittenElsewhere DEF CreateSnapshot
    <2>2. QED
        BY <1>1, <1>2, <1>6, <2>1 DEF CreateSnapshot, Still, Ended
<1>7. CASE FindStats(j)
    BY <1>1, <1>2, <1>7 DEF FindStats, tables, open, Still, Ended
<1>8. CASE UpdateRow(j)
    <2>1. \A q \in Jobs \ {j} : mine'[q] = mine[q]
        BY <1>8, WrittenElsewhere DEF UpdateRow
    <2>2. QED
        BY <1>2, <1>3, <1>8, <2>1 DEF UpdateRow, Saved, Still, Ended
<1>9. CASE InsertRow(j)
    <2>1. \A q \in Jobs \ {j} : mine'[q] = mine[q]
        BY <1>9, WrittenElsewhere DEF InsertRow
    <2>2. QED
        BY <1>2, <1>3, <1>9, <2>1 DEF InsertRow, Saved, Still, Ended
<1>10. CASE SaveEvent(j)
    <2>1. \A q \in Jobs \ {j} : noted'[q] = noted[q]
        BY <1>1, <1>10 DEF SaveEvent
    <2>2. QED
        BY <1>2, <1>10, <2>1 DEF SaveEvent, local, Still, Ended
<1>11. CASE Commit(j)
    BY <1>1, <1>2, <1>11 DEF Commit, local, Still, Ended
<1>12. CASE DuplicateStats(j) \/ Interrupt(j)
    <2>1. RollBack(j) /\ step[j] \notin Ended
        BY <1>12 DEF DuplicateStats, Interrupt, Running, Ended
    <2>2. QED
        BY <1>1, <1>2, <1>3, <2>1 DEF RollBack, Still
<1>13. QED
    BY <1>4, <1>5, <1>6, <1>7, <1>8, <1>9, <1>10, <1>11, <1>12 DEF Step

(* What a job has saved depends on where it is.                            *)
LEMMA SavedOfOthers ==
    ASSUME NEW q, at'[q] = at[q], step'[q] = step[q]
    PROVE  /\ \A t : SavedAsBefore(q, t)
           /\ Noting(q)' <=> Noting(q)
BY DEF SavedAsBefore, EventSaved, TotalSaved, StatsSaved, Noting, Running, Transactional,
       RecordCall, StatsCall

(* A job that is about to commit or done has made all of its calls.        *)
LastInv == \A j \in Jobs : step[j] \in {"commit", "done"} => at[j] = Len(Calls(j))

(* Every step leaves a job that ends behind its last call.                 *)
LEMMA LastKept ==
    ASSUME Inv, LastInv, NEW j \in Jobs, Step(j)
    PROVE  LastInv'
<1>1. \A q \in Jobs \ {j} : at'[q] = at[q] /\ step'[q] = step[q]
    BY OthersStill DEF Still
<1>2. \A q \in Jobs : Calls(q)' = Calls(q)
    BY CallsStay
<1>3. Len(Calls(j)) \in {1, 3, 6} /\ at[j] \in 0..Len(Calls(j))
    BY CallsAre DEF Inv, TypeOK
<1>4. step'[j] \in {"commit", "done"} => at'[j] = Len(Calls(j))
    <2>1. CASE NextCall(j)
        <3>1. CASE at[j] < Len(Calls(j))
            BY <2>1, <3>1, NextGoes
        <3>2. CASE ~(at[j] < Len(Calls(j)))
            <4>1. at[j] = Len(Calls(j))
                BY <1>3, <3>2
            <4>2. QED
                BY <2>1, <3>2, <4>1, NextGoes
        <3>3. QED
            BY <3>1, <3>2
    <2>2. CASE Commit(j)
        BY <2>2, GotoGoes DEF Commit, LastInv
    <2>3. CASE \E place \in {"find", "create", "select", "update", "insert", "event",
                             "failed"} : Goto(j, place)
        BY <2>3, GotoGoes
    <2>4. NextCall(j) \/ Commit(j) \/ \E place \in {"find", "create", "select", "update", "insert",
                                                    "event", "failed"} : Goto(j, place)
        <3>1. CASE Begin(j) \/ Post(j) \/ CountTransactions(j) \/ SaveEvent(j)
            BY <3>1 DEF Begin, Post, CountTransactions, SaveEvent
        <3>2. CASE FindSnapshot(j) \/ CreateSnapshot(j)
            BY <3>2 DEF FindSnapshot, CreateSnapshot, GotSnapshot
        <3>3. CASE FindStats(j) \/ SelectRow(j)
            BY <3>3 DEF FindStats, SelectRow
        <3>4. CASE UpdateRow(j) \/ InsertRow(j)
            BY <3>4 DEF UpdateRow, InsertRow, Saved
        <3>5. CASE DuplicateStats(j) \/ Interrupt(j)
            BY <3>5 DEF DuplicateStats, Interrupt, RollBack
        <3>6. QED
            BY <3>1, <3>2, <3>3, <3>4, <3>5 DEF Step
    <2>5. QED
        BY <2>1, <2>2, <2>3, <2>4
<1>5. QED
    BY <1>1, <1>2, <1>4 DEF LastInv

-----------------------------------------------------------------------------
(* The committed events are those that their jobs have saved, the others   *)
(* those that a transaction goes on to commit.                             *)
EventsInv ==
    /\ events = {e \in Possible : EventSaved(e.job, e.type)}
    /\ \A j \in Jobs : noted[j] = IF Noting(j) THEN {e \in Possible : e.job = j} ELSE {}

(* A step that saves nothing of what the job does.                         *)
Moves(j) ==
    /\ step[j] \notin {"event"} \union Ended
    /\ \/ NextCall(j) /\ (step[j] = "start" \/ Op(j) \notin {"record", "stats"})
       \/ \E place \in {"find", "create", "select", "update", "insert"} : Goto(j, place)
    /\ UNCHANGED <<events, noted>>

(* The steps, by what they save of what the job does.                      *)
LEMMA StepKinds ==
    ASSUME Inv, NEW j \in Jobs, Step(j)
    PROVE  \/ Moves(j)
           \/ UpdateRow(j) /\ Op(j) = "record"
           \/ (UpdateRow(j) \/ InsertRow(j)) /\ Op(j) = "stats"
           \/ SaveEvent(j)
           \/ Commit(j)
           \/ RollBack(j) /\ step[j] \notin Ended
<1>1. PlaceOf(j) /\ MemoryOf(j)
    BY DEF Inv
<1>2. CASE Begin(j) \/ Post(j) \/ CountTransactions(j)
    BY <1>1, <1>2 DEF Begin, Post, CountTransactions, PlaceOf, Moves, tables, open, Ended
<1>3. CASE FindSnapshot(j)
    BY <1>1, <1>3 DEF FindSnapshot, GotSnapshot, PlaceOf, Moves, tables, open, Op, Ended
<1>4. CASE CreateSnapshot(j)
    BY <1>1, <1>4 DEF CreateSnapshot, GotSnapshot, PlaceOf, Moves, Op, Ended
<1>5. CASE FindStats(j) \/ SelectRow(j)
    BY <1>1, <1>5 DEF FindStats, SelectRow, Moves, tables, open, Ended
<1>6. CASE UpdateRow(j) /\ Op(j) \notin {"record", "stats"}
    BY <1>6 DEF UpdateRow, Saved, Moves, Op, Ended
<1>7. CASE InsertRow(j) /\ Op(j) # "stats"
    BY <1>1, <1>7 DEF InsertRow, MemoryOf, Saving
<1>8. CASE DuplicateStats(j) \/ Interrupt(j)
    BY <1>8 DEF DuplicateStats, Interrupt, Running, Ended
<1>9. QED
    BY <1>2, <1>3, <1>4, <1>5, <1>6, <1>7, <1>8 DEF Step

(* A transaction's event is saved in the second of its three calls.        *)
LEMMA Places ==
    ASSUME Inv, NEW j \in Jobs, Transactional(j), step[j] # "start"
    PROVE  /\ Op(j) = "record" => at[j] = 2 /\ Len(Calls(j)) = 3
           /\ Op(j) \in {"post", "join"} => at[j] = 1
           /\ Op(j) = "stats" => at[j] = 3 /\ Len(Calls(j)) = 3
           /\ at[j] = 2 => Op(j) = "record"
           /\ at[j] = 3 => Op(j) = "stats"
           /\ Len(Calls(j)) \in {1, 3} /\ at[j] \in 1..3
<1>1. at[j] \in 1..Len(Calls(j))
    BY DEF Inv, PlaceOf
<1>2. CASE Work[j].kind = "signup"
    BY <1>1, <1>2, CallsAre DEF Op, Current
<1>3. CASE Work[j].kind \in {"topup", "cashout"}
    <2>1. at[j] = 1 \/ at[j] = 2 \/ at[j] = 3
        BY <1>1, <1>3, CallsAre
    <2>2. QED
        BY <1>3, <2>1, CallsAre DEF Op, Current
<1>4. QED
    BY <1>2, <1>3 DEF Transactional

(* The row of a save is written in a transaction that notes no event yet.  *)
LEMMA NotesAsBefore ==
    ASSUME Inv, NEW j \in Jobs, step[j] \notin {"event"} \union Ended,
           \/ NextCall(j) /\ (step[j] = "start" \/ Op(j) # "record")
           \/ \E place \in {"find", "create", "select", "update", "insert", "event"} : Goto(j, place)
    PROVE  Noting(j)' <=> Noting(j)
<1>1. CASE ~Transactional(j)
    BY <1>1 DEF Noting
<1>2. CASE \E place \in {"find", "create", "select", "update", "insert", "event"} : Goto(j, place)
    <2>1. at'[j] = at[j] /\ step'[j] \in {"find", "create", "select", "update", "insert", "event"}
        BY <1>2, GotoGoes
    <2>2. at[j] = 3 => step[j] # "start"
        BY DEF Inv, PlaceOf
    <2>3. QED
        BY <2>1, <2>2 DEF Noting, Running, Ended
<1>3. CASE Transactional(j) /\ NextCall(j) /\ step[j] = "start"
    <2>1. at[j] = 0 /\ Len(Calls(j)) \in {1, 3, 6}
        BY <1>3, CallsAre DEF Inv, PlaceOf
    <2>2. at'[j] # 3
        BY <1>3, <2>1, NextCallGoes
    <2>3. QED
        BY <1>3, <2>2 DEF Noting, Running
<1>4. CASE Transactional(j) /\ NextCall(j) /\ step[j] # "start" /\ Op(j) # "record"
    <2>1. /\ at[j] \in {1, 3} /\ Len(Calls(j)) \in {1, 3}
          /\ at[j] = 3 => Len(Calls(j)) = 3
        BY <1>4, Places
    <2>2. step'[j] \in {"post", "count", "find", "commit"}
        BY <1>4, NextGoes
    <2>3. at'[j] = 3 <=> at[j] = 3
        <3>1. CASE at[j] < Len(Calls(j))
            <4>1. at'[j] = at[j] + 1
                BY <1>4, <3>1, NextGoes
            <4>2. at[j] = 1
                <5>1. at[j] # 3
                    <6>1. SUFFICES ASSUME at[j] = 3 PROVE FALSE
                        OBVIOUS
                    <6>2. Len(Calls(j)) = 3
                        BY <2>1, <6>1
                    <6>3. 3 < 3
                        BY <3>1, <6>1, <6>2
                    <6>4. QED
                        BY <6>3
                <5>2. QED
                    BY <2>1, <5>1
            <4>3. QED
                BY <4>1, <4>2
        <3>2. CASE ~(at[j] < Len(Calls(j)))
            BY <1>4, <3>2, NextGoes
        <3>3. QED
            BY <3>1, <3>2
    <2>4. QED
        BY <1>4, <2>2, <2>3 DEF Noting, Running, Ended
<1>5. QED
    BY <1>1, <1>2, <1>3, <1>4

(* What a transaction does comes to one row.                               *)
LEMMA OneOf ==
    ASSUME NEW j \in Jobs, Transactional(j)
    PROVE  \A t \in Types(j) : Types(j) = {t} /\ {e \in Possible : e.job = j} = {EventOf(j, t)}
<1> SUFFICES ASSUME NEW t \in Types(j)
             PROVE  Types(j) = {t} /\ {e \in Possible : e.job = j} = {EventOf(j, t)}
    OBVIOUS
<1>1. Types(j) = {t}
    BY PlacesOf DEF Transactional
<1>2. \A e \in Possible : e.job = j <=> e = EventOf(j, t)
    BY <1>1, EventIs DEF EventOf
<1>3. EventOf(j, t) \in Possible
    BY EventIs
<1>4. QED
    BY <1>1, <1>2, <1>3

(* Every step keeps the events.                                            *)
LEMMA EventsKept ==
    ASSUME Inv, LastInv, EventsInv, NEW j \in Jobs, Step(j)
    PROVE  EventsInv'
<1>1. \A q \in Jobs \ {j} : noted'[q] = noted[q] /\ (Noting(q)' <=> Noting(q))
    BY OthersStill, SavedOfOthers DEF Still
<1>2. \A q \in Jobs \ {j} : \A t : EventSaved(q, t)' <=> EventSaved(q, t)
    BY OthersStill, SavedOfOthers DEF Still, SavedAsBefore
<1>3. \A e \in Possible : e.job \in Jobs /\ e.type \in Types(e.job)
    BY DEF Possible, Events
<1>4. ASSUME events' = events, \A t \in Types(j) : EventSaved(j, t)' <=> EventSaved(j, t)
      PROVE  events' = {e \in Possible : EventSaved(e.job, e.type)'}
    <2>1. \A e \in Possible : EventSaved(e.job, e.type)' <=> EventSaved(e.job, e.type)
        BY <1>2, <1>3, <1>4
    <2>2. QED
        BY <1>4, <2>1 DEF EventsInv
<1>5. ASSUME noted'[j] = IF Noting(j)' THEN {e \in Possible : e.job = j} ELSE {}
      PROVE  \A q \in Jobs : noted'[q] = IF Noting(q)' THEN {e \in Possible : e.job = q} ELSE {}
    BY <1>1, <1>5 DEF EventsInv
<1>6. CASE Moves(j)
    <2>1. \A t \in Types(j) : EventSaved(j, t)' <=> EventSaved(j, t)
        BY <1>6, SavesNothing DEF Moves, SavedAsBefore
    <2>2. Noting(j)' <=> Noting(j)
        BY <1>6, NotesAsBefore DEF Moves
    <2>3. events' = events /\ noted'[j] = noted[j]
        BY <1>6 DEF Moves
    <2>4. QED
        BY <1>4, <1>5, <2>1, <2>2, <2>3 DEF EventsInv
<1>7. CASE UpdateRow(j) /\ Op(j) = "record"
    <2>1. /\ step[j] = "update" /\ Goto(j, "event") /\ events' = events /\ noted' = noted
        BY <1>7 DEF UpdateRow, Saved, Op
    <2>2. \A t \in Types(j) : EventSaved(j, t)' <=> EventSaved(j, t)
        <3>1. CASE Transactional(j)
            <4>1. step'[j] = "event"
                BY <2>1, GotoGoes
            <4>2. QED
                BY <2>1, <3>1, <4>1, UnseenBefore DEF SavedAsBefore
        <3>2. CASE ~Transactional(j)
            BY <1>7, <2>1, <3>2, SavesTotal
        <3>3. QED
            BY <3>1, <3>2
    <2>3. Noting(j)' <=> Noting(j)
        BY <2>1, NotesAsBefore DEF Ended
    <2>4. QED
        BY <1>4, <1>5, <2>1, <2>2, <2>3 DEF EventsInv
<1>8. CASE (UpdateRow(j) \/ InsertRow(j)) /\ Op(j) = "stats"
    <2>1. /\ step[j] \in {"update", "insert"} /\ NextCall(j) /\ events' = events /\ noted' = noted
        BY <1>8 DEF UpdateRow, InsertRow, Saved, Op
    <2>2. \A t \in Types(j) : EventSaved(j, t)' <=> EventSaved(j, t)
        <3>1. CASE Transactional(j)
            <4>1. step'[j] # "done"
                BY <2>1, <3>1, NextGoes
            <4>2. QED
                BY <2>1, <3>1, <4>1, UnseenBefore DEF SavedAsBefore
        <3>2. CASE ~Transactional(j)
            BY <1>8, <2>1, <3>2, SavesStats
        <3>3. QED
            BY <3>1, <3>2
    <2>3. Noting(j)' <=> Noting(j)
        BY <1>8, <2>1, NotesAsBefore DEF Ended
    <2>4. QED
        BY <1>4, <1>5, <2>1, <2>2, <2>3 DEF EventsInv
<1>9. CASE SaveEvent(j)
    <2>1. /\ step[j] = "event" /\ NextCall(j) /\ Op(j) = "record" /\ at[j] \in 1..Len(Calls(j))
          /\ DOMAIN noted = Jobs
        BY <1>9 DEF SaveEvent, Inv, PlaceOf, TypeOK
    <2>2. PICK t \in Types(j) : Current(j).type = t /\ Event(j) = EventOf(j, t)
        BY <2>1, EventIs
    <2>3. CASE Transactional(j)
        <3>1. at[j] = 2 /\ Len(Calls(j)) = 3
            BY <2>1, <2>3, Places
        <3>2. at[j] < Len(Calls(j))
            BY <3>1
        <3>3. at'[j] = at[j] + 1 /\ step'[j] \in {"post", "count", "find"}
            BY <2>1, <3>2, NextGoes
        <3>4. Noting(j)' /\ ~Noting(j)
            BY <2>3, <3>1, <3>3 DEF Noting, Running, Ended
        <3>5. events' = events /\ noted' = [noted EXCEPT ![j] = noted[j] \union {Event(j)}]
            BY <1>9, <2>3 DEF SaveEvent
        <3>6. noted'[j] = {EventOf(j, t)}
            BY <2>1, <2>2, <3>4, <3>5 DEF EventsInv
        <3>7. noted'[j] = {e \in Possible : e.job = j}
            BY <2>3, <3>6, OneOf
        <3>8. \A x \in Types(j) : EventSaved(j, x)' <=> EventSaved(j, x)
            BY <2>1, <2>3, <3>3, UnseenBefore DEF SavedAsBefore
        <3>9. QED
            BY <1>4, <1>5, <3>4, <3>5, <3>7, <3>8 DEF EventsInv
    <2>4. CASE ~Transactional(j)
        <3>1. /\ events' = events \union {EventOf(j, t)} /\ noted' = noted
            BY <1>9, <2>2, <2>4 DEF SaveEvent
        <3>2. \A x \in Types(j) : EventSaved(j, x)' <=> EventSaved(j, x) \/ x = t
            BY <2>1, <2>2, <2>4, SavesEvent
        <3>3. EventOf(j, t) \in Possible /\ EventOf(j, t).job = j /\ EventOf(j, t).type = t
            BY EventIs
        <3>4. \A e \in Possible : e.job = j /\ e.type = t => e = EventOf(j, t)
            BY EventIs
        <3>5. \A e \in Possible :
                  EventSaved(e.job, e.type)' <=> EventSaved(e.job, e.type) \/ e = EventOf(j, t)
            BY <1>2, <1>3, <3>2, <3>3, <3>4
        <3>6. events' = {e \in Possible : EventSaved(e.job, e.type)'}
            BY <3>1, <3>3, <3>5 DEF EventsInv
        <3>7. ~Noting(j) /\ ~Noting(j)'
            BY <2>4 DEF Noting
        <3>8. QED
            BY <1>5, <3>1, <3>6, <3>7 DEF EventsInv
    <2>5. QED
        BY <2>3, <2>4
<1>10. CASE Commit(j)
    <2>1. /\ step[j] = "commit" /\ events' = events \union noted[j]
          /\ noted' = [noted EXCEPT ![j] = {}] /\ Goto(j, "done") /\ Transactional(j)
        BY <1>10 DEF Commit, Inv, PlaceOf
    <2>2. step'[j] = "done" /\ at[j] = Len(Calls(j))
        BY <2>1, GotoGoes DEF LastInv
    <2>3. noted[j] = {e \in Possible : e.job = j}
        <3>1. CASE Types(j) = {}
            <4>1. {e \in Possible : e.job = j} = {}
                BY <1>3, <3>1
            <4>2. QED
                BY <4>1 DEF EventsInv
        <3>2. CASE Types(j) # {}
            <4>1. Len(Calls(j)) = 3
                BY <2>1, <3>2, PlacesOf, CallsAre DEF Transactional
            <4>2. Noting(j)
                BY <2>1, <2>2, <4>1 DEF Noting, Running, Ended
            <4>3. QED
                BY <4>2 DEF EventsInv
        <3>3. QED
            BY <3>1, <3>2
    <2>4. \A t \in Types(j) : EventSaved(j, t)'
        BY <2>1, <2>2, SavesAll
    <2>5. \A e \in Possible : EventSaved(e.job, e.type)' <=> EventSaved(e.job, e.type) \/ e.job = j
        BY <1>2, <1>3, <2>4
    <2>6. events' = {e \in Possible : EventSaved(e.job, e.type)'}
        BY <2>1, <2>3, <2>5 DEF EventsInv
    <2>7. noted'[j] = {} /\ ~Noting(j)'
        <3>1. DOMAIN noted = Jobs
            BY DEF Inv, TypeOK
        <3>2. QED
            BY <2>1, <2>2, <3>1 DEF Noting, Running, Ended
    <2>8. QED
        BY <1>5, <2>6, <2>7 DEF EventsInv
<1>11. CASE RollBack(j) /\ step[j] \notin Ended
    <2>1. events' = events /\ noted' = [noted EXCEPT ![j] = {}] /\ Goto(j, "failed")
        BY <1>11 DEF RollBack, tables
    <2>2. step'[j] = "failed" /\ at' = at
        BY <2>1, GotoGoes
    <2>3. \A t \in Types(j) : EventSaved(j, t)' <=> EventSaved(j, t)
        BY <1>11, <2>2 DEF EventSaved, Ended, RecordCall, Transactional
    <2>4. noted'[j] = {} /\ ~Noting(j)'
        <3>1. DOMAIN noted = Jobs
            BY DEF Inv, TypeOK
        <3>2. QED
            BY <2>1, <2>2, <3>1 DEF Noting, Running, Ended
    <2>5. QED
        BY <1>4, <1>5, <2>1, <2>3, <2>4 DEF EventsInv
<1>12. QED
    BY <1>6, <1>7, <1>8, <1>9, <1>10, <1>11, StepKinds

-----------------------------------------------------------------------------
(* What a job goes to save is what its call makes of the row it found.     *)
FoundOf(j) ==
    step[j] \in Saving =>
        \E row \in RowOf(Op(j)) : found[j] = row /\ memory[j] = Applied(j, row)

(* What a call makes of a row depends on the call alone.                   *)
LEMMA AppliedStays ==
    ASSUME NEW j, Current(j)' = Current(j)
    PROVE  \A row : Applied(j, row)' = Applied(j, row)
BY DEF Applied

(* Every step keeps the tie between the row found and the row to be saved. *)
LEMMA FoundKept ==
    ASSUME Inv, \A q \in Jobs : FoundOf(q), NEW j \in Jobs, Step(j)
    PROVE  \A q \in Jobs : FoundOf(q)'
<1>0. /\ DOMAIN memory = Jobs /\ DOMAIN found = Jobs
      /\ PlaceOf(j) /\ MemoryOf(j)
    BY DEF Inv, TypeOK
<1>1. ASSUME NEW q \in Jobs \ {j} PROVE FoundOf(q)'
    <2>1. /\ step'[q] = step[q] /\ memory'[q] = memory[q] /\ found'[q] = found[q] /\ at'[q] = at[q]
        BY OthersStill DEF Still
    <2>2. Current(q)' = Current(q) /\ Op(q)' = Op(q)
        BY <2>1, CallsStay DEF Current, Op
    <2>3. SUFFICES ASSUME step[q] \in Saving
                   PROVE  \E row \in RowOf(Op(q)) : found[q] = row /\ memory[q] = Applied(q, row)'
        BY <2>1, <2>2 DEF FoundOf
    <2>4. PICK row \in RowOf(Op(q)) : found[q] = row /\ memory[q] = Applied(q, row)
        BY <2>3 DEF FoundOf
    <2>5. Applied(q, row)' = Applied(q, row)
        BY <2>2, AppliedStays
    <2>6. QED
        BY <2>4, <2>5
<1>2. ASSUME Current(j)' = Current(j), Op(j)' = Op(j), NEW row \in RowOf(Op(j)),
             found'[j] = row, memory'[j] = Applied(j, row)
      PROVE  FoundOf(j)'
    <2>1. Applied(j, row)' = Applied(j, row)
        BY <1>2, AppliedStays
    <2>2. QED
        BY <1>2, <2>1 DEF FoundOf
<1>3. CASE step'[j] \notin Saving
    BY <1>1, <1>3 DEF FoundOf
<1>4. CASE FindSnapshot(j) /\ step'[j] \in Saving
    <2>1. Op(j) # "stats"
        BY <1>4 DEF FindSnapshot, Op
    <2>2. PICK id \in Snapshots :
              /\ Sees(j, id)
              /\ found' = [found EXCEPT ![j] = Seen(j, id)]
              /\ memory' = [memory EXCEPT ![j] = Applied(j, Seen(j, id))]
              /\ GotSnapshot(j)
        <3>1. CASE Goto(j, "create")
            <4>1. step'[j] = "create"
                BY <3>1, GotoGoes
            <4>2. QED
                BY <1>4, <4>1 DEF Saving
        <3>2. QED
            BY <1>4, <3>1 DEF FindSnapshot
    <2>3. Goto(j, "select")
        <3>1. CASE NextCall(j)
            <4>1. step'[j] \in {"post", "count", "find", "commit", "done"}
                BY <3>1, NextCallGoes
            <4>2. QED
                BY <1>4, <4>1 DEF Saving
        <3>2. QED
            BY <2>2, <3>1 DEF GotSnapshot
    <2>4. Current(j)' = Current(j) /\ Op(j)' = Op(j)
        BY <2>3, GotoGoes
    <2>5. PICK row : row = Seen(j, id)
        OBVIOUS
    <2>6. row \in RowOf(Op(j))
        BY <2>1, <2>2, <2>5, SeenTyped DEF RowIdOf
    <2>7. found'[j] = row /\ memory'[j] = Applied(j, row)
        BY <1>0, <2>2, <2>5
    <2>8. QED
        BY <1>1, <1>2, <2>4, <2>6, <2>7
<1>5. CASE CreateSnapshot(j) /\ step'[j] \in Saving
    <2>1. /\ found' = [found EXCEPT ![j] = ZeroSnapshot] /\ GotSnapshot(j)
          /\ memory' = [memory EXCEPT ![j] = Applied(j, ZeroSnapshot)]
        BY <1>5 DEF CreateSnapshot
    <2>2. Goto(j, "select")
        <3>1. CASE NextCall(j)
            <4>1. step'[j] \in {"post", "count", "find", "commit", "done"}
                BY <3>1, NextCallGoes
            <4>2. QED
                BY <1>5, <4>1 DEF Saving
        <3>2. QED
            BY <2>1, <3>1 DEF GotSnapshot
    <2>3. Current(j)' = Current(j) /\ Op(j)' = Op(j)
        BY <2>2, GotoGoes
    <2>4. ZeroSnapshot \in RowOf(Op(j))
        BY <1>0, <1>5 DEF CreateSnapshot, PlaceOf, RowOf, SnapshotRow, ZeroSnapshot
    <2>5. found'[j] = ZeroSnapshot /\ memory'[j] = Applied(j, ZeroSnapshot)
        BY <1>0, <2>1
    <2>6. QED
        BY <1>1, <1>2, <2>3, <2>4, <2>5
<1>6. CASE FindStats(j)
    <2>1. PICK row : /\ row = (IF Sees(j, Stats(Current(j).user)) THEN Seen(j, Stats(Current(j).user))
                               ELSE ZeroStats)
                     /\ found' = [found EXCEPT ![j] = row]
                     /\ memory' = [memory EXCEPT ![j] = Applied(j, row)]
        BY <1>6 DEF FindStats
    <2>2. Op(j) = "stats" /\ Goto(j, "select") /\ at[j] \in 1..Len(Calls(j))
        BY <1>0, <1>6 DEF FindStats, Op, PlaceOf
    <2>3. Current(j)' = Current(j) /\ Op(j)' = Op(j)
        BY <2>2, GotoGoes
    <2>4. row \in RowOf(Op(j))
        <3>1. Current(j).user \in Users
            BY <2>2, CurrentIs
        <3>2. CASE Sees(j, Stats(Current(j).user))
            BY <2>1, <2>2, <3>1, <3>2, SeenTyped DEF RowIdOf
        <3>3. CASE ~Sees(j, Stats(Current(j).user))
            BY <2>1, <2>2, <3>3 DEF RowOf, ZeroStats, StatsRow
        <3>4. QED
            BY <3>2, <3>3
    <2>5. found'[j] = row /\ memory'[j] = Applied(j, row)
        BY <1>0, <2>1
    <2>6. QED
        BY <1>1, <1>2, <2>3, <2>4, <2>5
<1>7. CASE SelectRow(j)
    <2>1. /\ step[j] = "select" /\ found' = found /\ memory' = memory
          /\ Goto(j, "update") \/ Goto(j, "insert")
        BY <1>7 DEF SelectRow
    <2>2. Current(j)' = Current(j) /\ Op(j)' = Op(j)
        BY <2>1, GotoGoes
    <2>3. PICK row \in RowOf(Op(j)) : found[j] = row /\ memory[j] = Applied(j, row)
        BY <2>1 DEF FoundOf, Saving
    <2>4. QED
        BY <1>1, <1>2, <2>1, <2>2, <2>3
<1>8. CASE NextCall(j)
    <2>1. step'[j] \in {"post", "count", "find", "commit", "done"}
        BY <1>8, NextCallGoes
    <2>2. QED
        BY <1>3, <2>1 DEF Saving
<1>9. CASE \E place \in {"find", "event", "done", "failed"} : Goto(j, place)
    BY <1>3, <1>9, GotoGoes DEF Saving
<1>10. \/ FindSnapshot(j) \/ CreateSnapshot(j) \/ FindStats(j) \/ SelectRow(j)
       \/ NextCall(j) \/ \E place \in {"find", "event", "done", "failed"} : Goto(j, place)
    <2>1. Begin(j) \/ Post(j) \/ CountTransactions(j) \/ SaveEvent(j) =>
              NextCall(j) \/ Goto(j, "find")
        BY DEF Begin, Post, CountTransactions, SaveEvent
    <2>2. UpdateRow(j) \/ InsertRow(j) => NextCall(j) \/ Goto(j, "event")
        BY DEF UpdateRow, InsertRow, Saved
    <2>3. Commit(j) \/ DuplicateStats(j) \/ Interrupt(j) => Goto(j, "done") \/ Goto(j, "failed")
        BY DEF Commit, DuplicateStats, Interrupt, RollBack
    <2>4. QED
        BY <2>1, <2>2, <2>3 DEF Step
<1>11. QED
    BY <1>3, <1>4, <1>5, <1>6, <1>7, <1>8, <1>9, <1>10

-----------------------------------------------------------------------------
(* No row is written in two open transactions, and no transaction writes   *)
(* to two rows of totals.                                                  *)
ApartInv ==
    /\ \A p, q \in Jobs : p # q => \A id \in DOMAIN mine[p] : id \notin DOMAIN mine[q]
    /\ \A q \in Jobs : \A a, b \in DOMAIN mine[q] : a \in Snapshots /\ b \in Snapshots => a = b

(* Who writes a row is the only one to have it.                            *)
LEMMA SoleWriter ==
    ASSUME Inv, NEW j \in Jobs
    PROVE  /\ CreateSnapshot(j) =>
                  /\ ~WrittenByOther(j, Snapshot(j)) /\ DOMAIN mine[j] = {}
                  /\ Snapshot(j) \in Snapshots /\ Snapshot(j) \notin DOMAIN rows
           /\ UpdateRow(j) \/ InsertRow(j) =>
                  IF Op(j) = "stats"
                  THEN target[j] = Stats(Current(j).user) /\ target[j] \notin Snapshots
                  ELSE /\ UpdateRow(j)
                       /\ target[j] \in Snapshots /\ DOMAIN mine[j] \subseteq {target[j]}
           /\ InsertRow(j) => ~WrittenByOther(j, target[j]) /\ target[j] \notin DOMAIN rows
<1>1. PlaceOf(j) /\ MemoryOf(j) /\ LocksOf(j)
    BY DEF Inv
<1>2. CreateSnapshot(j) =>
          /\ ~WrittenByOther(j, Snapshot(j)) /\ DOMAIN mine[j] = {}
          /\ Snapshot(j) \in Snapshots /\ Snapshot(j) \notin DOMAIN rows
    BY <1>1 DEF CreateSnapshot, LocksOf, WrittenByOther, Inv, FreshInv, Snapshots
<1>3. UpdateRow(j) \/ InsertRow(j) => step[j] \in {"update", "insert"}
    BY DEF UpdateRow, InsertRow
<1>4. UpdateRow(j) \/ InsertRow(j) =>
          IF Op(j) = "stats"
          THEN target[j] = Stats(Current(j).user) /\ target[j] \notin Snapshots
          ELSE /\ UpdateRow(j)
               /\ target[j] \in Snapshots /\ DOMAIN mine[j] \subseteq {target[j]}
    <2>1. UpdateRow(j) \/ InsertRow(j) =>
              IF Op(j) = "stats" THEN target[j] = Stats(Current(j).user)
              ELSE target[j] \in Snapshots /\ step[j] = "update"
        BY <1>1, <1>3 DEF MemoryOf, Saving
    <2>2. step[j] = "update" /\ Op(j) # "stats" => DOMAIN mine[j] \subseteq {target[j]}
        BY <1>1 DEF LocksOf, Saving
    <2>3. InsertRow(j) => step[j] # "update"
        BY DEF InsertRow
    <2>4. QED
        BY <2>1, <2>2, <2>3, KeysDiffer
<1>5. InsertRow(j) => ~WrittenByOther(j, target[j]) /\ target[j] \notin DOMAIN rows
    BY DEF InsertRow
<1>6. QED
    BY <1>2, <1>4, <1>5

(* Which steps change rows.                                                *)
LEMMA RowsStill ==
    ASSUME Inv, NEW j \in Jobs, Step(j)
    PROVE  \/ UNCHANGED <<rows, mine>>
           \/ CreateSnapshot(j)
           \/ UpdateRow(j) /\ ~WrittenByOther(j, target[j])
           \/ InsertRow(j)
           \/ Commit(j)
           \/ RollBack(j)
<1>1. Begin(j) \/ Post(j) \/ CountTransactions(j) => UNCHANGED <<rows, mine>>
    BY DEF Begin, Post, CountTransactions, tables, open
<1>2. FindSnapshot(j) \/ FindStats(j) \/ SelectRow(j) \/ SaveEvent(j) => UNCHANGED <<rows, mine>>
    BY DEF FindSnapshot, FindStats, SelectRow, SaveEvent, tables, open
<1>3. UpdateRow(j) => UNCHANGED <<rows, mine>> \/ ~WrittenByOther(j, target[j])
    BY DEF UpdateRow
<1>4. DuplicateStats(j) \/ Interrupt(j) => RollBack(j)
    BY DEF DuplicateStats, Interrupt
<1>5. QED
    BY <1>1, <1>2, <1>3, <1>4 DEF Step

(* Which rows there are after a save.                                      *)
LEMMA WriteDomain ==
    ASSUME Inv, NEW j \in Jobs, NEW id, NEW row, Write(j, id, row)
    PROVE  IF Transactional(j)
           THEN /\ rows' = rows /\ mine'[j] = Put(mine[j], id, row)
                /\ DOMAIN mine'[j] = DOMAIN mine[j] \union {id}
           ELSE /\ mine' = mine /\ rows' = Put(rows, id, row)
                /\ DOMAIN rows' = DOMAIN rows \union {id}
BY DEF Write, Put, Inv

(* Every step keeps transactions apart, by the locks they hold.            *)
LEMMA ApartKept ==
    ASSUME Inv, ApartInv, NEW j \in Jobs, Step(j)
    PROVE  ApartInv'
<1>0. DOMAIN mine = Jobs
    BY DEF Inv
<1>1. \A q \in Jobs \ {j} : mine'[q] = mine[q]
    BY OthersStill DEF Still
<1>2. ASSUME NEW id, \A q \in Jobs \ {j} : id \notin DOMAIN mine[q],
             id \in Snapshots => DOMAIN mine[j] \subseteq {id},
             DOMAIN mine'[j] = DOMAIN mine[j] \union {id}
      PROVE  ApartInv'
    BY <1>1, <1>2 DEF ApartInv
<1>3. CASE mine'[j] = mine[j]
    BY <1>1, <1>3 DEF ApartInv
<1>4. CASE DOMAIN mine'[j] = {}
    BY <1>1, <1>4 DEF ApartInv
<1>5. ASSUME NEW id, NEW row, Write(j, id, row), ~WrittenByOther(j, id),
             id \in Snapshots => DOMAIN mine[j] \subseteq {id}
      PROVE  ApartInv'
    <2>1. \A q \in Jobs \ {j} : id \notin DOMAIN mine[q]
        BY <1>5 DEF WrittenByOther
    <2>2. mine'[j] = mine[j] \/ DOMAIN mine'[j] = DOMAIN mine[j] \union {id}
        BY <1>5, WriteDomain
    <2>3. QED
        BY <1>2, <1>3, <1>5, <2>1, <2>2
<1>6. CASE CreateSnapshot(j)
    <2>1. Write(j, Snapshot(j), ZeroSnapshot)
        BY <1>6 DEF CreateSnapshot
    <2>2. QED
        BY <1>5, <1>6, <2>1, SoleWriter
<1>7. CASE UpdateRow(j) /\ ~WrittenByOther(j, target[j])
    <2>1. UNCHANGED mine \/ Write(j, target[j], Merged(j, Seen(j, target[j])))
        BY <1>7 DEF UpdateRow
    <2>2. QED
        BY <1>3, <1>5, <1>7, <2>1, SoleWriter
<1>8. CASE InsertRow(j)
    <2>1. Write(j, target[j], memory[j])
        BY <1>8 DEF InsertRow
    <2>2. QED
        BY <1>5, <1>8, <2>1, SoleWriter
<1>9. CASE Commit(j) \/ RollBack(j)
    BY <1>0, <1>4, <1>9 DEF Commit, RollBack
<1>10. QED
    BY <1>3, <1>6, <1>7, <1>8, <1>9, RowsStill

-----------------------------------------------------------------------------
(* What calls make of rows.                                                *)

(* The rows that recordTransaction and updateUserTransactionStats make.    *)
WithRecord(j, row) == Plus(Plus(row, "count", 1), "value", Kobo(Work[j].amount))
WithStats(j, t, row) ==
    Plus(Plus(row, IF t = "CREDIT" THEN "credit" ELSE "debit", Work[j].amount),
         "volume", Work[j].amount)

(* Column by column.                                                       *)
AtMost(a, b) == \A column \in DOMAIN a : a[column] <= b[column]

(* Adding to one column of a row leaves the others.                        *)
LEMMA PlusIs ==
    ASSUME NEW n \in Nat, NEW row, NEW column
    PROVE  /\ row \in SnapshotRow /\ column \in {"count", "value", "users", "active"} =>
                  /\ Plus(row, column, n) \in SnapshotRow
                  /\ Plus(row, column, n)[column] = row[column] + n
                  /\ \A c \in {"count", "value", "users", "active"} \ {column} :
                         Plus(row, column, n)[c] = row[c]
           /\ row \in StatsRow /\ column \in {"credit", "debit", "volume"} =>
                  /\ Plus(row, column, n) \in StatsRow
                  /\ Plus(row, column, n)[column] = row[column] + n
                  /\ \A c \in {"credit", "debit", "volume"} \ {column} :
                         Plus(row, column, n)[c] = row[c]
BY DEF Plus, SnapshotRow, StatsRow

(* A recorded transaction adds to the count and to the value, and to       *)
(* nothing else.                                                           *)
LEMMA WithRecordIs ==
    ASSUME NEW j \in Jobs, NEW row \in SnapshotRow
    PROVE  /\ WithRecord(j, row) \in SnapshotRow
           /\ WithRecord(j, row)["count"] = row["count"] + 1
           /\ WithRecord(j, row)["value"] = row["value"] + Kobo(Work[j].amount)
           /\ WithRecord(j, row)["users"] = row["users"]
           /\ WithRecord(j, row)["active"] = row["active"]
<1>1. 1 \in Nat /\ Kobo(Work[j].amount) \in Nat
    BY CallsAre DEF Kobo
<1>2. PICK counted : counted = Plus(row, "count", 1)
    OBVIOUS
<1>3. /\ counted \in SnapshotRow /\ counted["count"] = row["count"] + 1
      /\ counted["value"] = row["value"] /\ counted["users"] = row["users"]
      /\ counted["active"] = row["active"]
    BY <1>1, <1>2, PlusIs
<1>4. WithRecord(j, row) = Plus(counted, "value", Kobo(Work[j].amount))
    BY <1>2 DEF WithRecord
<1>5. QED
    BY <1>1, <1>3, <1>4, PlusIs

(* A user's row of stats takes an amount on its side and in the volume.    *)
LEMMA WithStatsIs ==
    ASSUME NEW j \in Jobs, NEW t \in {"CREDIT", "DEBIT"}, NEW row \in StatsRow
    PROVE  /\ WithStats(j, t, row) \in StatsRow
           /\ WithStats(j, t, row)["volume"] = row["volume"] + Work[j].amount
           /\ t = "CREDIT" => /\ WithStats(j, t, row)["credit"] = row["credit"] + Work[j].amount
                              /\ WithStats(j, t, row)["debit"] = row["debit"]
           /\ t = "DEBIT" => /\ WithStats(j, t, row)["debit"] = row["debit"] + Work[j].amount
                             /\ WithStats(j, t, row)["credit"] = row["credit"]
<1>1. Work[j].amount \in Nat
    BY CallsAre
<1>2. PICK side \in {"credit", "debit"} : side = IF t = "CREDIT" THEN "credit" ELSE "debit"
    OBVIOUS
<1>3. PICK added : added = Plus(row, side, Work[j].amount)
    OBVIOUS
<1>4. /\ added \in StatsRow /\ added[side] = row[side] + Work[j].amount
      /\ \A c \in {"credit", "debit", "volume"} \ {side} : added[c] = row[c]
    BY <1>1, <1>3, PlusIs
<1>5. WithStats(j, t, row) = Plus(added, "volume", Work[j].amount)
    BY <1>2, <1>3 DEF WithStats
<1>6. /\ WithStats(j, t, row) \in StatsRow
      /\ WithStats(j, t, row)["volume"] = added["volume"] + Work[j].amount
      /\ WithStats(j, t, row)["credit"] = added["credit"]
      /\ WithStats(j, t, row)["debit"] = added["debit"]
    BY <1>1, <1>4, <1>5, PlusIs
<1>7. CASE t = "CREDIT"
    BY <1>2, <1>4, <1>6, <1>7
<1>8. CASE t = "DEBIT"
    BY <1>2, <1>4, <1>6, <1>8
<1>9. QED
    BY <1>7, <1>8

(* What each kind of call makes of a row.                                  *)
LEMMA AppliedIs ==
    ASSUME NEW j \in Jobs, at[j] \in 1..Len(Calls(j))
    PROVE  /\ Op(j) = "record" => \A row : Applied(j, row) = WithRecord(j, row)
           /\ Op(j) = "join" => \A row : Applied(j, row) = Plus(row, "users", 1)
           /\ Op(j) = "mark" => \A row : Applied(j, row) = Plus(row, "active", 1)
           /\ Op(j) = "stats" => \A row : Applied(j, row) = WithStats(j, Current(j).type, row)
<1>1. Op(j) = "stats" => Current(j).type \in {"CREDIT", "DEBIT"}
    BY CurrentIs
<1>2. Op(j) = "record" => \A row : Applied(j, row) = WithRecord(j, row)
    BY DEF Applied, Op, WithRecord
<1>3. Op(j) \in {"join", "mark"} =>
          \A row : Applied(j, row) = Plus(row, IF Op(j) = "join" THEN "users" ELSE "active", 1)
    BY DEF Applied, Op
<1>4. Op(j) = "stats" => \A row : Applied(j, row) = WithStats(j, Current(j).type, row)
    BY <1>1 DEF Applied, Op, WithStats
<1>5. QED
    BY <1>2, <1>3, <1>4

(* A call that saves only adds, and to stats always something.             *)
LEMMA AppliedAdds ==
    ASSUME NEW j \in Jobs, at[j] \in 1..Len(Calls(j)), Op(j) \notin {"post", "look"},
           NEW row \in RowOf(Op(j))
    PROVE  /\ Applied(j, row) \in RowOf(Op(j)) /\ AtMost(row, Applied(j, row))
           /\ Op(j) = "stats" => row["volume"] < Applied(j, row)["volume"]
<1>1. Op(j) \in {"record", "stats", "join", "mark"}
    BY CurrentIs
<1>2. Work[j].amount \in Nat \ {0} /\ Kobo(Work[j].amount) \in Nat
    BY CallsAre DEF Kobo
<1>3. Applied(j, row) \in RowOf(Op(j))
    BY AppliedTyped
<1>4. CASE Op(j) = "stats"
    <2>1. row \in StatsRow /\ Applied(j, row) = WithStats(j, Current(j).type, row)
        BY <1>4, AppliedIs DEF RowOf
    <2>2. Current(j).type \in {"CREDIT", "DEBIT"}
        BY <1>4, CurrentIs
    <2>3. PICK new \in StatsRow : new = Applied(j, row)
        BY <1>3, <1>4 DEF RowOf
    <2>4. /\ new["volume"] = row["volume"] + Work[j].amount
          /\ new["credit"] = row["credit"] + Work[j].amount \/ new["credit"] = row["credit"]
          /\ new["debit"] = row["debit"] + Work[j].amount \/ new["debit"] = row["debit"]
        BY <2>1, <2>2, <2>3, WithStatsIs
    <2>5. row["volume"] < new["volume"] /\ AtMost(row, new)
        BY <1>2, <2>1, <2>4 DEF AtMost, StatsRow
    <2>6. QED
        BY <1>3, <2>3, <2>5
<1>5. CASE Op(j) # "stats"
    <2>1. row \in SnapshotRow
        BY <1>5 DEF RowOf
    <2>2. PICK new \in SnapshotRow : new = Applied(j, row)
        BY <1>3, <1>5 DEF RowOf
    <2>3. CASE Op(j) = "record"
        <3>1. new = WithRecord(j, row)
            BY <2>2, <2>3, AppliedIs
        <3>2. /\ new["count"] = row["count"] + 1
              /\ new["value"] = row["value"] + Kobo(Work[j].amount)
              /\ new["users"] = row["users"] /\ new["active"] = row["active"]
            BY <2>1, <3>1, WithRecordIs
        <3>3. AtMost(row, new)
            BY <1>2, <2>1, <3>2 DEF AtMost, SnapshotRow
        <3>4. QED
            BY <1>3, <1>5, <2>2, <3>3
    <2>4. CASE Op(j) \in {"join", "mark"}
        <3>1. new = Plus(row, IF Op(j) = "join" THEN "users" ELSE "active", 1)
            BY <2>2, <2>4, AppliedIs
        <3>2. AtMost(row, new)
            BY <2>1, <3>1 DEF AtMost, SnapshotRow, Plus
        <3>3. QED
            BY <1>3, <1>5, <2>2, <3>2
    <2>5. QED
        BY <1>1, <1>5, <2>3, <2>4
<1>6. QED
    BY <1>4, <1>5

(* AtMost is transitive on the rows of a kind,                             *)
LEMMA AtMostTransitive ==
    ASSUME NEW op, NEW a \in RowOf(op), NEW b \in RowOf(op), NEW c \in RowOf(op),
           AtMost(a, b), AtMost(b, c)
    PROVE  AtMost(a, c)
<1>1. CASE op = "stats"
    BY <1>1 DEF AtMost, RowOf, StatsRow
<1>2. CASE op # "stats"
    BY <1>2 DEF AtMost, RowOf, SnapshotRow
<1>3. QED
    BY <1>1, <1>2

(* and reflexive.                                                          *)
LEMMA AtMostItself ==
    ASSUME NEW op, NEW a \in RowOf(op)
    PROVE  AtMost(a, a)
<1>1. CASE op = "stats"
    BY <1>1 DEF AtMost, RowOf, StatsRow
<1>2. CASE op # "stats"
    BY <1>2 DEF AtMost, RowOf, SnapshotRow
<1>3. QED
    BY <1>1, <1>2

(* The row is saved as it is in memory, if nobody has changed it since it  *)
(* was found: what save has read lies between.                             *)
LEMMA MergedIs ==
    ASSUME NEW j \in Jobs, NEW op, memory[j] \in RowOf(op), base[j] \in RowOf(op)
    PROVE  \A row \in RowOf(op) :
               AtMost(base[j], row) /\ AtMost(row, memory[j]) => Merged(j, row) = memory[j]
<1> SUFFICES ASSUME NEW row \in RowOf(op), AtMost(base[j], row), AtMost(row, memory[j])
             PROVE  Merged(j, row) = memory[j]
    OBVIOUS
<1>1. Merged(j, row) \in RowOf(op)
    BY MergedTyped
<1>2. \A c \in DOMAIN row : Merged(j, row)[c] = IF memory[j][c] # base[j][c] THEN memory[j][c] ELSE row[c]
    BY DEF Merged
<1>3. CASE op = "stats"
    <2>1. row \in StatsRow /\ memory[j] \in StatsRow /\ base[j] \in StatsRow /\ Merged(j, row) \in StatsRow
        BY <1>1, <1>3 DEF RowOf
    <2>2. \A c \in {"credit", "debit", "volume"} :
              /\ c \in DOMAIN row /\ c \in DOMAIN base[j]
              /\ row[c] \in Nat /\ memory[j][c] \in Nat /\ base[j][c] \in Nat
        BY <2>1 DEF StatsRow
    <2>3. \A c \in {"credit", "debit", "volume"} : base[j][c] <= row[c] /\ row[c] <= memory[j][c]
        BY <2>2 DEF AtMost
    <2>4. \A c \in {"credit", "debit", "volume"} : memory[j][c] = base[j][c] => row[c] = memory[j][c]
        BY <2>2, <2>3
    <2>5. \A c \in {"credit", "debit", "volume"} : Merged(j, row)[c] = memory[j][c]
        BY <1>2, <2>2, <2>4
    <2>6. QED
        BY <2>1, <2>5 DEF StatsRow
<1>4. CASE op # "stats"
    <2>1. /\ row \in SnapshotRow /\ memory[j] \in SnapshotRow /\ base[j] \in SnapshotRow
          /\ Merged(j, row) \in SnapshotRow
        BY <1>1, <1>4 DEF RowOf
    <2>2. \A c \in {"count", "value", "users", "active"} :
              /\ c \in DOMAIN row /\ c \in DOMAIN base[j]
              /\ row[c] \in Nat /\ memory[j][c] \in Nat /\ base[j][c] \in Nat
        BY <2>1 DEF SnapshotRow
    <2>3. \A c \in {"count", "value", "users", "active"} : base[j][c] <= row[c] /\ row[c] <= memory[j][c]
        BY <2>2 DEF AtMost
    <2>4. \A c \in {"count", "value", "users", "active"} : memory[j][c] = base[j][c] => row[c] = memory[j][c]
        BY <2>2, <2>3
    <2>5. \A c \in {"count", "value", "users", "active"} : Merged(j, row)[c] = memory[j][c]
        BY <1>2, <2>2, <2>4
    <2>6. QED
        BY <2>1, <2>5 DEF SnapshotRow
<1>5. QED
    BY <1>3, <1>4

-----------------------------------------------------------------------------
(* As long as no save goes over a change made since the row was found, and *)
(* no listener is cut off.                                                 *)

Sound == clobbered = {} /\ \A j \in Jobs : step[j] = "failed" => Transactional(j)

(* The committed row, or what a first one begins with.                     *)
Committed(id) ==
    IF id \in DOMAIN rows THEN rows[id] ELSE IF id \in Snapshots THEN ZeroSnapshot ELSE ZeroStats

(* What save has read is not more than the row still is.                   *)
ReadOf(j) ==
    /\ step[j] = "update" => AtMost(base[j], Seen(j, target[j]))
    /\ step[j] = "insert" => found[j] = ZeroStats
    /\ step[j] = "select" /\ Op(j) = "stats" => target[j] \in DOMAIN rows \/ found[j] = ZeroStats

(* A transaction holds its own addition to the committed rows.             *)
Holds(j) ==
    \E s \in Snapshots, t \in {"CREDIT", "DEBIT"} :
        /\ t \in Types(j)
        /\ DOMAIN mine[j] = {s} \union (IF step[j] = "commit" THEN {Stats(Work[j].user)} ELSE {})
        /\ mine[j][s] = WithRecord(j, Committed(s))
        /\ step[j] = "commit" =>
               mine[j][Stats(Work[j].user)] = WithStats(j, t, Committed(Stats(Work[j].user)))

(* What a transaction has written of its own.                              *)
MineOf(j) ==
    /\ step[j] \in {"select", "update"} /\ Op(j) # "stats" =>
           \A id \in DOMAIN mine[j] : mine[j][id] = ZeroSnapshot
    /\ Transactional(j) /\ Work[j].kind # "signup" /\
           (step[j] \in {"event", "commit"} \/ (Running(j) /\ at[j] = 3)) => Holds(j)
    /\ Work[j].kind = "signup" /\ step[j] = "commit" =>
           \E s \in Snapshots : DOMAIN mine[j] = {s} /\ mine[j][s] = Plus(Committed(s), "users", 1)

(* A committed row is one of its kind.                                     *)
LEMMA CommittedTyped ==
    ASSUME Inv, NEW op, NEW id, RowIdOf(op, id)
    PROVE  Committed(id) \in RowOf(op)
<1>1. IsTable(rows)
    BY DEF Inv, TypeOK
<1>2. CASE op = "stats"
    <2>1. PICK u \in Users : id = Stats(u)
        BY <1>2 DEF RowIdOf
    <2>2. id \notin Snapshots
        BY <2>1, KeysDiffer
    <2>3. Committed(id) \in StatsRow
        BY <1>1, <2>2 DEF Committed, IsTable, ZeroStats, StatsRow
    <2>4. QED
        BY <1>2, <2>3 DEF RowOf
<1>3. CASE op # "stats"
    <2>1. id \in Snapshots
        BY <1>3 DEF RowIdOf
    <2>2. id \notin {Stats(u) : u \in Users}
        BY <2>1, KeysDiffer
    <2>3. Committed(id) \in SnapshotRow
        BY <1>1, <2>1, <2>2 DEF Committed, IsTable, ZeroSnapshot, SnapshotRow
    <2>4. QED
        BY <1>3, <2>3 DEF RowOf
<1>4. QED
    BY <1>2, <1>3

(* What a job is about to update is still the committed row, in its        *)
(* transaction.                                                            *)
LEMMA SeenIs ==
    ASSUME Inv, NEW j \in Jobs, MineOf(j), step[j] = "update"
    PROVE  \A id : id = target[j] => Seen(j, id) = Committed(id)
<1> SUFFICES ASSUME NEW id, id = target[j] PROVE Seen(j, id) = Committed(id)
    OBVIOUS
<1>1. PlaceOf(j) /\ MemoryOf(j) /\ LocksOf(j)
    BY DEF Inv
<1>2. Sees(j, id)
    BY <1>1 DEF MemoryOf
<1>3. CASE id \notin DOMAIN mine[j]
    BY <1>2, <1>3 DEF Sees, Seen, Committed
<1>4. CASE id \in DOMAIN mine[j] /\ Op(j) = "stats"
    <2>1. id = Stats(Current(j).user)
        BY <1>1, <1>4 DEF MemoryOf, Saving
    <2>2. id \notin Snapshots /\ id # Snapshot(j)
        BY <2>1, KeysDiffer
    <2>3. QED
        BY <1>1, <1>4, <2>2 DEF LocksOf
<1>5. CASE id \in DOMAIN mine[j] /\ Op(j) # "stats"
    <2>1. id = Snapshot(j) /\ id \notin DOMAIN rows
        BY <1>1, <1>5 DEF LocksOf
    <2>2. id \in Snapshots
        BY <2>1 DEF Snapshots
    <2>3. Committed(id) = ZeroSnapshot
        BY <2>1, <2>2 DEF Committed
    <2>4. mine[j][id] = ZeroSnapshot
        BY <1>5 DEF MineOf
    <2>5. QED
        BY <1>5, <2>3, <2>4 DEF Seen
<1>6. QED
    BY <1>3, <1>4, <1>5

(* A save that goes over no change adds to the committed row.              *)
LEMMA SaveEffect ==
    ASSUME Inv, NEW j \in Jobs, FoundOf(j), ReadOf(j), MineOf(j),
           UpdateRow(j) \/ InsertRow(j), clobbered' = {}
    PROVE  /\ ~WrittenByOther(j, target[j])
           /\ RowIdOf(Op(j), target[j])
           /\ \E row \in RowOf(Op(j)) :
                  row = Committed(target[j]) /\ Write(j, target[j], Applied(j, row))
<1>1. PlaceOf(j) /\ MemoryOf(j)
    BY DEF Inv
<1>2. step[j] \in Saving
    BY DEF UpdateRow, InsertRow, Saving
<1>3. at[j] \in 1..Len(Calls(j)) /\ Op(j) \notin {"post", "look"}
    BY <1>1, <1>2 DEF PlaceOf, Saving
<1>4. PICK row \in RowOf(Op(j)) : found[j] = row /\ memory[j] = Applied(j, row)
    BY <1>2 DEF FoundOf
<1>5. /\ Applied(j, row) \in RowOf(Op(j)) /\ AtMost(row, Applied(j, row))
      /\ Op(j) = "stats" => row["volume"] < Applied(j, row)["volume"]
    BY <1>3, AppliedAdds
<1>6. RowIdOf(Op(j), target[j])
    <2>1. Current(j).user \in Users
        BY <1>3, CurrentIs
    <2>2. QED
        BY <1>1, <1>2, <2>1 DEF MemoryOf, RowIdOf
<1>7. CASE InsertRow(j)
    <2>1. step[j] = "insert" /\ Write(j, target[j], memory[j])
        BY <1>7 DEF InsertRow
    <2>2. target[j] \notin DOMAIN rows /\ ~WrittenByOther(j, target[j])
        BY <1>7 DEF InsertRow
    <2>3. Op(j) = "stats"
        BY <1>1, <1>2, <2>1 DEF MemoryOf
    <2>4. target[j] \notin Snapshots
        BY <1>7, <2>3, SoleWriter
    <2>5. row = ZeroStats
        BY <1>4, <2>1 DEF ReadOf
    <2>6. row = Committed(target[j])
        BY <2>2, <2>4, <2>5 DEF Committed
    <2>7. QED
        BY <1>4, <1>6, <2>1, <2>2, <2>6
<1>8. CASE UpdateRow(j)
    <2>1. step[j] = "update"
        BY <1>8 DEF UpdateRow
    <2>2. PICK id : id = target[j]
        OBVIOUS
    <2>3. Seen(j, id) = found[j]
        BY <1>8, <2>2 DEF UpdateRow
    <2>4. row = Committed(id)
        BY <1>4, <2>1, <2>2, <2>3, SeenIs
    <2>5. /\ memory[j] \in RowOf(Op(j)) /\ base[j] \in RowOf(Op(j))
          /\ AtMost(base[j], row)
        <3>1. AtMost(base[j], Seen(j, id)) /\ base[j] \in RowOf(Op(j))
            BY <1>1, <2>1, <2>2 DEF ReadOf, MemoryOf
        <3>2. QED
            BY <1>4, <1>5, <2>3, <3>1
    <2>6. Merged(j, row) = memory[j]
        BY <1>4, <1>5, <2>5, MergedIs
    <2>7. ~(memory[j] = base[j] /\ Op(j) = "stats")
        <3>1. SUFFICES ASSUME memory[j] = base[j], Op(j) = "stats" PROVE FALSE
            OBVIOUS
        <3>2. base[j] \in StatsRow /\ row \in StatsRow
            BY <2>5, <3>1 DEF RowOf
        <3>3. base[j]["volume"] <= row["volume"]
            BY <2>5, <3>2 DEF AtMost, StatsRow
        <3>4. row["volume"] < base[j]["volume"]
            BY <1>4, <1>5, <3>1
        <3>5. row["volume"] \in Nat /\ base[j]["volume"] \in Nat
            BY <3>2 DEF StatsRow
        <3>6. QED
            BY <3>3, <3>4, <3>5
    <2>8. ~WrittenByOther(j, id) /\ Write(j, id, Merged(j, Seen(j, id)))
        BY <1>8, <2>2, <2>7 DEF UpdateRow, Op
    <2>9. Write(j, id, Applied(j, row))
        <3>1. Merged(j, Seen(j, id)) = Applied(j, row)
            BY <1>4, <2>3, <2>6
        <3>2. QED
            BY <2>8, <3>1 DEF Write
    <2>10. QED
        BY <1>6, <2>2, <2>4, <2>8, <2>9
<1>9. QED
    BY <1>7, <1>8

(* Committed rows stay, and their columns only grow.                       *)
RowsGrow ==
    /\ DOMAIN rows \subseteq DOMAIN rows'
    /\ \A id \in DOMAIN rows : AtMost(rows[id], rows'[id])

(* No call takes anything from a row.                                      *)
LEMMA Additions ==
    ASSUME NEW j \in Jobs
    PROVE  /\ \A row \in SnapshotRow : AtMost(row, WithRecord(j, row)) /\ AtMost(row, Plus(row, "users", 1))
           /\ \A t \in {"CREDIT", "DEBIT"} : \A row \in StatsRow : AtMost(row, WithStats(j, t, row))
<1>1. Work[j].amount \in Nat /\ Kobo(Work[j].amount) \in Nat
    BY CallsAre DEF Kobo
<1>2. ASSUME NEW row \in SnapshotRow PROVE AtMost(row, WithRecord(j, row))
    <2>1. PICK new \in SnapshotRow : new = WithRecord(j, row)
        BY WithRecordIs
    <2>2. /\ new["count"] = row["count"] + 1
          /\ new["value"] = row["value"] + Kobo(Work[j].amount)
          /\ new["users"] = row["users"] /\ new["active"] = row["active"]
        BY <2>1, WithRecordIs
    <2>3. AtMost(row, new)
        BY <1>1, <2>2 DEF AtMost, SnapshotRow
    <2>4. QED
        BY <2>1, <2>3
<1>3. ASSUME NEW row \in SnapshotRow PROVE AtMost(row, Plus(row, "users", 1))
    BY DEF AtMost, SnapshotRow, Plus
<1>4. ASSUME NEW t \in {"CREDIT", "DEBIT"}, NEW row \in StatsRow PROVE AtMost(row, WithStats(j, t, row))
    <2>1. PICK new \in StatsRow : new = WithStats(j, t, row)
        BY WithStatsIs
    <2>2. /\ new["volume"] = row["volume"] + Work[j].amount
          /\ new["credit"] = row["credit"] + Work[j].amount \/ new["credit"] = row["credit"]
          /\ new["debit"] = row["debit"] + Work[j].amount \/ new["debit"] = row["debit"]
        BY <2>1, WithStatsIs
    <2>3. AtMost(row, new)
        BY <1>1, <2>2 DEF AtMost, StatsRow
    <2>4. QED
        BY <2>1, <2>3
<1>5. QED
    BY <1>2, <1>3, <1>4

(* Every row is one of totals or of stats.                                 *)
LEMMA RowTyped ==
    ASSUME Inv, NEW id \in DOMAIN rows
    PROVE  \E op \in {"stats", "record"} : RowIdOf(op, id) /\ rows[id] \in RowOf(op) /\ rows[id] = Committed(id)
<1>1. IsTable(rows)
    BY DEF Inv, TypeOK
<1>2. QED
    BY <1>1, KeysDiffer DEF IsTable, RowIdOf, RowOf, Committed

(* A save of more than a row had lets rows grow, and changes that row      *)
(* alone.                                                                  *)
LEMMA PutGrows ==
    ASSUME Inv, NEW id, NEW new, AtMost(Committed(id), new), rows' = Put(rows, id, new)
    PROVE  /\ RowsGrow
           /\ \A x : x # id => Committed(x)' = Committed(x)
<1>1. /\ DOMAIN rows' = DOMAIN rows \union {id} /\ rows'[id] = new
      /\ \A x \in DOMAIN rows : x # id => rows'[x] = rows[x]
    BY DEF Put
<1>2. ASSUME NEW x \in DOMAIN rows PROVE AtMost(rows[x], rows'[x])
    <2>1. PICK op \in {"stats", "record"} : rows[x] \in RowOf(op) /\ rows[x] = Committed(x)
        BY RowTyped
    <2>2. CASE x = id
        BY <1>1, <2>1, <2>2
    <2>3. CASE x # id
        BY <1>1, <2>1, <2>3, AtMostItself
    <2>4. QED
        BY <2>2, <2>3
<1>3. \A x : x # id => Committed(x)' = Committed(x)
    BY <1>1 DEF Committed
<1>4. QED
    BY <1>1, <1>2, <1>3 DEF RowsGrow

(* Rows that do not change have grown by nothing.                          *)
LEMMA StillGrows ==
    ASSUME Inv, rows' = rows
    PROVE  RowsGrow /\ \A x : Committed(x)' = Committed(x)
<1>1. ASSUME NEW x \in DOMAIN rows PROVE AtMost(rows[x], rows'[x])
    <2>1. PICK op \in {"stats", "record"} : rows[x] \in RowOf(op)
        BY RowTyped
    <2>2. QED
        BY <2>1, AtMostItself
<1>2. QED
    BY <1>1 DEF RowsGrow, Committed

(* What a commit adds to the rows.                                         *)
LEMMA CommitAdds ==
    ASSUME Inv, NEW j \in Jobs, MineOf(j), Commit(j)
    PROVE  /\ Transactional(j)
           /\ DOMAIN rows' = DOMAIN rows \union DOMAIN mine[j]
           /\ \A id \in DOMAIN rows : id \notin DOMAIN mine[j] => rows'[id] = rows[id]
           /\ Work[j].kind # "signup" =>
                  \E s \in Snapshots, t \in {"CREDIT", "DEBIT"} :
                      /\ t \in Types(j) /\ DOMAIN mine[j] = {s, Stats(Work[j].user)}
                      /\ rows'[s] = WithRecord(j, Committed(s))
                      /\ rows'[Stats(Work[j].user)] = WithStats(j, t, Committed(Stats(Work[j].user)))
           /\ Work[j].kind = "signup" =>
                  \E s \in Snapshots : /\ DOMAIN mine[j] = {s}
                                       /\ rows'[s] = Plus(Committed(s), "users", 1)
<1>1. step[j] = "commit" /\ rows' = [id \in DOMAIN rows \union DOMAIN mine[j] |-> Seen(j, id)]
    BY DEF Commit
<1>2. Transactional(j)
    BY <1>1 DEF Inv, PlaceOf
<1>3. /\ \A id \in DOMAIN mine[j] : rows'[id] = mine[j][id]
      /\ \A id \in DOMAIN rows : id \notin DOMAIN mine[j] => rows'[id] = rows[id]
      /\ DOMAIN rows' = DOMAIN rows \union DOMAIN mine[j]
    BY <1>1 DEF Seen
<1>4. ASSUME Work[j].kind # "signup"
      PROVE  \E s \in Snapshots, t \in {"CREDIT", "DEBIT"} :
                 /\ t \in Types(j) /\ DOMAIN mine[j] = {s, Stats(Work[j].user)}
                 /\ rows'[s] = WithRecord(j, Committed(s))
                 /\ rows'[Stats(Work[j].user)] = WithStats(j, t, Committed(Stats(Work[j].user)))
    <2>1. Holds(j)
        BY <1>1, <1>2, <1>4 DEF MineOf
    <2>2. PICK s \in Snapshots, t \in {"CREDIT", "DEBIT"} :
              /\ t \in Types(j)
              /\ DOMAIN mine[j] = {s} \union {Stats(Work[j].user)}
              /\ mine[j][s] = WithRecord(j, Committed(s))
              /\ mine[j][Stats(Work[j].user)] = WithStats(j, t, Committed(Stats(Work[j].user)))
        BY <1>1, <2>1 DEF Holds
    <2>3. DOMAIN mine[j] = {s, Stats(Work[j].user)}
        BY <2>2
    <2>4. /\ rows'[s] = WithRecord(j, Committed(s))
          /\ rows'[Stats(Work[j].user)] = WithStats(j, t, Committed(Stats(Work[j].user)))
        BY <1>3, <2>2, <2>3
    <2>5. QED
        BY <2>2, <2>3, <2>4
<1>5. ASSUME Work[j].kind = "signup"
      PROVE  \E s \in Snapshots : /\ DOMAIN mine[j] = {s}
                                  /\ rows'[s] = Plus(Committed(s), "users", 1)
    <2>1. PICK s \in Snapshots : DOMAIN mine[j] = {s} /\ mine[j][s] = Plus(Committed(s), "users", 1)
        BY <1>1, <1>5 DEF MineOf
    <2>2. QED
        BY <1>3, <2>1
<1>6. QED
    BY <1>2, <1>3, <1>4, <1>5

(* No other transaction's rows change under it.                            *)
LEMMA SoundGrows ==
    ASSUME Inv, ApartInv, NEW j \in Jobs, FoundOf(j), ReadOf(j), MineOf(j), Step(j), clobbered' = {}
    PROVE  /\ RowsGrow
           /\ \A q \in Jobs \ {j} : \A id \in DOMAIN mine[q] : Committed(id)' = Committed(id)
<1>1. CASE rows' = rows
    BY <1>1, StillGrows
<1>2. ASSUME NEW id, NEW new, AtMost(Committed(id), new), ~WrittenByOther(j, id), Write(j, id, new)
      PROVE  /\ RowsGrow
             /\ \A q \in Jobs \ {j} : \A x \in DOMAIN mine[q] : Committed(x)' = Committed(x)
    <2>1. CASE Transactional(j)
        BY <1>1, <1>2, <2>1 DEF Write
    <2>2. CASE ~Transactional(j)
        <3>1. rows' = Put(rows, id, new)
            BY <1>2, <2>2 DEF Write
        <3>2. RowsGrow /\ \A x : x # id => Committed(x)' = Committed(x)
            BY <1>2, <3>1, PutGrows
        <3>3. \A q \in Jobs \ {j} : \A x \in DOMAIN mine[q] : x # id
            BY <1>2 DEF WrittenByOther
        <3>4. QED
            BY <3>2, <3>3
    <2>3. QED
        BY <2>1, <2>2
<1>3. CASE CreateSnapshot(j)
    <2>1. /\ ~WrittenByOther(j, Snapshot(j)) /\ Write(j, Snapshot(j), ZeroSnapshot)
          /\ Snapshot(j) \in Snapshots /\ Snapshot(j) \notin DOMAIN rows
        BY <1>3, SoleWriter DEF CreateSnapshot
    <2>2. Committed(Snapshot(j)) = ZeroSnapshot
        BY <2>1 DEF Committed
    <2>3. AtMost(Committed(Snapshot(j)), ZeroSnapshot)
        BY <2>2 DEF AtMost, ZeroSnapshot
    <2>4. QED
        BY <1>2, <2>1, <2>3
<1>4. CASE UpdateRow(j) \/ InsertRow(j)
    <2>1. /\ ~WrittenByOther(j, target[j])
          /\ \E row \in RowOf(Op(j)) :
                 row = Committed(target[j]) /\ Write(j, target[j], Applied(j, row))
        BY <1>4, SaveEffect
    <2>2. PICK row \in RowOf(Op(j)) :
              row = Committed(target[j]) /\ Write(j, target[j], Applied(j, row))
        BY <2>1
    <2>3. at[j] \in 1..Len(Calls(j)) /\ Op(j) \notin {"post", "look"}
        BY <1>4 DEF UpdateRow, InsertRow, Inv, PlaceOf, Saving
    <2>4. AtMost(row, Applied(j, row))
        BY <2>3, AppliedAdds
    <2>5. QED
        BY <1>2, <2>1, <2>2, <2>4
<1>5. CASE Commit(j)
    <2>1. /\ DOMAIN rows' = DOMAIN rows \union DOMAIN mine[j]
          /\ \A id \in DOMAIN rows : id \notin DOMAIN mine[j] => rows'[id] = rows[id]
        BY <1>5, CommitAdds
    <2>2. ASSUME NEW id \in DOMAIN rows, id \in DOMAIN mine[j] PROVE AtMost(rows[id], rows'[id])
        <3>1. CASE Work[j].kind # "signup"
            <4>1. PICK s \in Snapshots, t \in {"CREDIT", "DEBIT"} :
                      /\ t \in Types(j) /\ DOMAIN mine[j] = {s, Stats(Work[j].user)}
                      /\ rows'[s] = WithRecord(j, Committed(s))
                      /\ rows'[Stats(Work[j].user)] = WithStats(j, t, Committed(Stats(Work[j].user)))
                BY <1>5, <3>1, CommitAdds
            <4>2. CASE id = s
                <5>1. Committed(s) \in SnapshotRow /\ Committed(s) = rows[s]
                    BY <2>2, <4>1, <4>2, CommittedTyped DEF RowIdOf, RowOf, Committed
                <5>2. QED
                    BY <4>1, <4>2, <5>1, Additions
            <4>3. CASE id = Stats(Work[j].user)
                <5>1. Work[j].user \in Users
                    BY <4>1, PlacesOf, CommitAdds, <1>5 DEF Party, Transactional
                <5>2. Committed(id) \in StatsRow /\ Committed(id) = rows[id]
                    BY <2>2, <4>3, <5>1, CommittedTyped DEF RowIdOf, RowOf, Committed
                <5>3. QED
                    BY <4>1, <4>3, <5>2, Additions
            <4>4. QED
                BY <2>2, <4>1, <4>2, <4>3
        <3>2. CASE Work[j].kind = "signup"
            <4>1. PICK s \in Snapshots : /\ DOMAIN mine[j] = {s}
                                         /\ rows'[s] = Plus(Committed(s), "users", 1)
                BY <1>5, <3>2, CommitAdds
            <4>2. Committed(s) \in SnapshotRow /\ Committed(s) = rows[s] /\ id = s
                BY <2>2, <4>1, CommittedTyped DEF RowIdOf, RowOf, Committed
            <4>3. QED
                BY <4>1, <4>2, Additions
        <3>3. QED
            BY <3>1, <3>2
    <2>3. ASSUME NEW id \in DOMAIN rows PROVE AtMost(rows[id], rows'[id])
        <3>1. PICK op \in {"stats", "record"} : rows[id] \in RowOf(op)
            BY RowTyped
        <3>2. AtMost(rows[id], rows[id])
            BY <3>1, AtMostItself
        <3>3. QED
            BY <2>1, <2>2, <3>2
    <2>4. ASSUME NEW q \in Jobs \ {j}, NEW id \in DOMAIN mine[q]
          PROVE  Committed(id)' = Committed(id)
        <3>1. id \notin DOMAIN mine[j]
            BY DEF ApartInv
        <3>2. QED
            BY <2>1, <3>1 DEF Committed
    <2>5. QED
        BY <2>1, <2>3, <2>4 DEF RowsGrow
<1>6. CASE RollBack(j)
    BY <1>1, <1>6 DEF RollBack, tables
<1>7. QED
    BY <1>1, <1>3, <1>4, <1>5, <1>6, RowsStill

(* What the others have read and written stays as true as it was.          *)
LEMMA OthersSound ==
    ASSUME Inv, Inv', NEW j \in Jobs, NEW q \in Jobs \ {j}, Still(q), ReadOf(q), MineOf(q), RowsGrow,
           \A id \in DOMAIN mine[q] : Committed(id)' = Committed(id)
    PROVE  ReadOf(q)' /\ MineOf(q)'
<1>1. /\ at'[q] = at[q] /\ step'[q] = step[q] /\ target'[q] = target[q]
      /\ base'[q] = base[q] /\ found'[q] = found[q] /\ mine'[q] = mine[q]
    BY DEF Still
<1>2. Current(q)' = Current(q) /\ Op(q)' = Op(q)
    BY <1>1, CallsStay DEF Current, Op
<1>3. PlaceOf(q) /\ MemoryOf(q)
    BY DEF Inv
<1>4. ASSUME step[q] = "update" PROVE AtMost(base[q], Seen(q, target[q]))'
    <2>1. PICK id : id = target[q]
        OBVIOUS
    <2>2. AtMost(base[q], Seen(q, id)) /\ base[q] \in RowOf(Op(q)) /\ Sees(q, id)
        BY <1>3, <1>4, <2>1 DEF ReadOf, MemoryOf
    <2>3. CASE id \in DOMAIN mine[q]
        <3>1. Seen(q, id)' = Seen(q, id)
            BY <1>1, <2>3 DEF Seen
        <3>2. AtMost(base[q], Seen(q, id))'
            BY <1>1, <2>2, <3>1 DEF AtMost
        <3>3. QED
            BY <1>1, <2>1, <3>2
    <2>4. CASE id \notin DOMAIN mine[q]
        <3>1. id \in DOMAIN rows /\ Seen(q, id) = rows[id]
            BY <2>2, <2>4 DEF Sees, Seen
        <3>2. AtMost(rows[id], rows'[id]) /\ id \in DOMAIN rows'
            BY <3>1 DEF RowsGrow
        <3>3. Seen(q, id)' = rows'[id]
            BY <1>1, <2>4 DEF Seen
        <3>4. at[q] \in 1..Len(Calls(q)) /\ Op(q) \notin {"post", "look"}
            BY <1>3, <1>4 DEF PlaceOf, Saving
        <3>5. RowIdOf(Op(q), id)
            <4>1. Current(q).user \in Users
                BY <3>4, CurrentIs
            <4>2. QED
                BY <1>3, <1>4, <2>1, <4>1 DEF MemoryOf, RowIdOf, Saving
        <3>6. Seen(q, id) \in RowOf(Op(q))
            BY <2>2, <3>5, SeenTyped
        <3>7. IsTable(rows')
            BY DEF Inv, TypeOK
        <3>8. rows'[id] \in RowOf(Op(q))
            BY <3>2, <3>5, <3>7, KeysDiffer DEF IsTable, RowIdOf, RowOf
        <3>9. AtMost(base[q], rows'[id])
            BY <2>2, <3>1, <3>2, <3>6, <3>8, AtMostTransitive
        <3>10. QED
            BY <1>1, <2>1, <3>3, <3>9 DEF AtMost
    <2>5. QED
        BY <2>3, <2>4
<1>5. ReadOf(q)'
    <2>1. step[q] = "select" /\ Op(q) = "stats" => target[q] \in DOMAIN rows' \/ found[q] = ZeroStats
        BY DEF ReadOf, RowsGrow
    <2>2. step[q] = "insert" => found[q] = ZeroStats
        BY DEF ReadOf
    <2>3. QED
        BY <1>1, <1>2, <1>4, <2>1, <2>2 DEF ReadOf
<1>6. ASSUME Holds(q) PROVE Holds(q)'
    <2>1. PICK s \in Snapshots, t \in {"CREDIT", "DEBIT"} :
              /\ t \in Types(q)
              /\ DOMAIN mine[q] = {s} \union (IF step[q] = "commit" THEN {Stats(Work[q].user)} ELSE {})
              /\ mine[q][s] = WithRecord(q, Committed(s))
              /\ step[q] = "commit" =>
                     mine[q][Stats(Work[q].user)] = WithStats(q, t, Committed(Stats(Work[q].user)))
        BY <1>6 DEF Holds
    <2>2. Committed(s)' = Committed(s)
        BY <2>1
    <2>3. step[q] = "commit" => Committed(Stats(Work[q].user))' = Committed(Stats(Work[q].user))
        BY <2>1
    <2>4. QED
        BY <1>1, <2>1, <2>2, <2>3 DEF Holds
<1>7. MineOf(q)'
    <2>1. (Transactional(q) /\ Work[q].kind # "signup" /\
              (step[q] \in {"event", "commit"} \/ (Running(q) /\ at[q] = 3)))' => Holds(q)'
        BY <1>1, <1>6 DEF MineOf, Running
    <2>2. ASSUME Work[q].kind = "signup", step[q] = "commit"
          PROVE  \E s \in Snapshots :
                     DOMAIN mine[q] = {s} /\ mine[q][s] = Plus(Committed(s)', "users", 1)
        <3>1. PICK s \in Snapshots : DOMAIN mine[q] = {s} /\ mine[q][s] = Plus(Committed(s), "users", 1)
            BY <2>2 DEF MineOf
        <3>2. Committed(s)' = Committed(s)
            BY <3>1
        <3>3. QED
            BY <3>1, <3>2
    <2>3. step[q] \in {"select", "update"} /\ Op(q) # "stats" =>
              \A id \in DOMAIN mine[q] : mine[q][id] = ZeroSnapshot
        BY DEF MineOf
    <2>4. QED
        BY <1>1, <1>2, <2>1, <2>2, <2>3 DEF MineOf, Plus
<1>8. QED
    BY <1>5, <1>7

(* Where a job neither saves nor holds anything there is nothing to show.  *)
LEMMA NothingHeld ==
    ASSUME NEW j \in Jobs, step'[j] \notin {"select", "update", "insert", "event", "commit"},
           Transactional(j) => step'[j] \in Ended \/ at'[j] # 3
    PROVE  ReadOf(j)' /\ MineOf(j)'
BY DEF ReadOf, MineOf, Running

(* What is held stays held until it is committed.                          *)
LEMMA HeldOn ==
    ASSUME NEW j \in Jobs, Holds(j), step[j] # "commit", step'[j] # "commit",
           mine'[j] = mine[j], rows' = rows
    PROVE  Holds(j)'
<1>1. PICK s \in Snapshots, t \in {"CREDIT", "DEBIT"} :
          /\ t \in Types(j)
          /\ DOMAIN mine[j] = {s} \union (IF step[j] = "commit" THEN {Stats(Work[j].user)} ELSE {})
          /\ mine[j][s] = WithRecord(j, Committed(s))
    BY DEF Holds
<1>2. DOMAIN mine[j] = {s}
    BY <1>1
<1>3. Committed(s)' = Committed(s)
    BY DEF Committed
<1>4. DOMAIN mine'[j] = {s} \union (IF step'[j] = "commit" THEN {Stats(Work[j].user)} ELSE {})
    BY <1>2
<1>5. QED
    BY <1>1, <1>3, <1>4 DEF Holds

(* What a job has read and written stays true of it: at a step that saves  *)
(* no row,                                                                 *)
LEMMA MovesSound ==
    ASSUME Inv, NEW j \in Jobs, MineOf(j),
           \/ Begin(j) \/ Post(j) \/ CountTransactions(j) \/ SaveEvent(j) \/ Commit(j) \/ RollBack(j)
    PROVE  ReadOf(j)' /\ MineOf(j)'
<1>1. CASE Begin(j)
    <2>1. NextCall(j) /\ at[j] = 0 /\ Len(Calls(j)) \in {1, 3, 6}
        BY <1>1, CallsAre DEF Begin, Inv, PlaceOf
    <2>2. at[j] < Len(Calls(j))
        BY <2>1
    <2>3. at'[j] = at[j] + 1 /\ step'[j] \in {"post", "count", "find"}
        BY <2>1, <2>2, NextGoes
    <2>4. at'[j] # 3
        BY <2>1, <2>3
    <2>5. QED
        BY <2>3, <2>4, NothingHeld
<1>2. CASE Post(j)
    <2>1. NextCall(j) /\ step[j] = "post" /\ Op(j) = "post" /\ at[j] \in 1..Len(Calls(j))
        BY <1>2 DEF Post, Inv, PlaceOf
    <2>2. at[j] = 1 /\ Len(Calls(j)) = 3
        <3>1. Transactional(j) /\ at[j] = 1
            BY <2>1, CurrentIs
        <3>2. Work[j].kind # "signup"
            BY <2>1, <3>1, CallsAre DEF Op, Current
        <3>3. QED
            BY <3>1, <3>2, CallsAre DEF Transactional
    <2>3. at[j] < Len(Calls(j))
        BY <2>2
    <2>4. at'[j] = at[j] + 1 /\ step'[j] \in {"post", "count", "find"}
        BY <2>1, <2>3, NextGoes
    <2>5. at'[j] # 3
        BY <2>2, <2>4
    <2>6. QED
        BY <2>4, <2>5, NothingHeld
<1>3. CASE CountTransactions(j)
    <2>1. Op(j) = "mark" /\ at[j] \in 1..Len(Calls(j)) /\ (NextCall(j) \/ Goto(j, "find"))
        BY <1>3 DEF CountTransactions, Inv, PlaceOf
    <2>2. ~Transactional(j)
        BY <2>1, CurrentIs
    <2>3. step'[j] \in {"post", "count", "find", "done"}
        BY <2>1, <2>2, NextGoes, GotoGoes
    <2>4. QED
        BY <2>2, <2>3, NothingHeld
<1>4. CASE SaveEvent(j)
    <2>1. rows' = rows \/ ~Transactional(j)
        BY <1>4 DEF SaveEvent, Inv, PlaceOf
    <2>2. NextCall(j) /\ step[j] = "event" /\ Op(j) = "record" /\ mine' = mine
        BY <1>4 DEF SaveEvent, Inv, PlaceOf
    <2>3. CASE ~Transactional(j)
        <3>1. step'[j] \in {"post", "count", "find", "done"}
            BY <2>2, <2>3, NextGoes
        <3>2. QED
            BY <2>3, <3>1, NothingHeld
    <2>4. CASE Transactional(j)
        <3>1. at[j] = 2 /\ Len(Calls(j)) = 3
            BY <2>2, <2>4, Places
        <3>2. at[j] < Len(Calls(j))
            BY <3>1
        <3>3. step'[j] \in {"post", "count", "find"}
            BY <2>2, <3>2, NextGoes
        <3>4. Work[j].kind # "signup"
            BY <3>1, CallsAre
        <3>5. Holds(j)
            BY <2>2, <2>4, <3>4 DEF MineOf
        <3>6. Holds(j)'
            BY <2>1, <2>2, <2>4, <3>3, <3>5, HeldOn
        <3>7. QED
            BY <3>3, <3>6 DEF ReadOf, MineOf
    <2>5. QED
        BY <2>3, <2>4
<1>5. CASE Commit(j) \/ RollBack(j)
    <2>1. Goto(j, "done") \/ Goto(j, "failed")
        BY <1>5 DEF Commit, RollBack
    <2>2. step'[j] \in {"done", "failed"}
        BY <2>1, GotoGoes
    <2>3. QED
        BY <2>2, NothingHeld DEF Ended
<1>6. QED
    BY <1>1, <1>2, <1>3, <1>4, <1>5

(* at one that finds or reads the row to be saved,                         *)
LEMMA FindsSound ==
    ASSUME Inv, NEW j \in Jobs, MineOf(j), ReadOf(j),
           FindSnapshot(j) \/ CreateSnapshot(j) \/ FindStats(j) \/ SelectRow(j)
    PROVE  ReadOf(j)' /\ MineOf(j)'
<1>0. /\ PlaceOf(j) /\ MemoryOf(j) /\ LocksOf(j)
      /\ DOMAIN found = Jobs /\ DOMAIN base = Jobs /\ DOMAIN target = Jobs /\ DOMAIN mine = Jobs
    BY DEF Inv, TypeOK
<1>1. ASSUME step[j] \in {"find", "create"}, Op(j) \notin {"post", "stats"},
             step'[j] \in {"create", "select"}, at'[j] = at[j], Op(j)' = Op(j),
             \A id \in DOMAIN mine'[j] : mine'[j][id] = ZeroSnapshot
      PROVE  ReadOf(j)' /\ MineOf(j)'
    <2>1. Transactional(j) => at[j] # 3
        BY <1>1, Places
    <2>2. QED
        BY <1>1, <2>1 DEF ReadOf, MineOf
<1>2. ASSUME NextCall(j), Op(j) = "look", at[j] \in 1..Len(Calls(j))
      PROVE  ReadOf(j)' /\ MineOf(j)'
    <2>1. ~Transactional(j)
        BY <1>2, CurrentIs
    <2>2. step'[j] \in {"post", "count", "find", "done"}
        BY <1>2, <2>1, NextGoes
    <2>3. QED
        BY <2>1, <2>2, NothingHeld
<1>3. CASE FindSnapshot(j)
    <2>1. /\ step[j] = "find" /\ Op(j) \notin {"post", "stats"} /\ mine' = mine
          /\ at[j] \in 1..Len(Calls(j))
        BY <1>0, <1>3 DEF FindSnapshot, PlaceOf, Op, open
    <2>2. DOMAIN mine[j] = {}
        BY <1>0, <2>1 DEF LocksOf
    <2>3. CASE NextCall(j) /\ Op(j) = "look"
        BY <1>2, <2>1, <2>3
    <2>4. CASE Goto(j, "create") \/ Goto(j, "select")
        <3>1. step'[j] \in {"create", "select"} /\ at'[j] = at[j] /\ Op(j)' = Op(j)
            BY <2>4, GotoGoes
        <3>2. QED
            BY <1>1, <2>1, <2>2, <3>1
    <2>5. QED
        BY <1>3, <2>3, <2>4 DEF FindSnapshot, GotSnapshot, Op
<1>4. CASE CreateSnapshot(j)
    <2>1. /\ step[j] = "create" /\ Op(j) \notin {"post", "stats"}
          /\ at[j] \in 1..Len(Calls(j)) /\ Write(j, Snapshot(j), ZeroSnapshot) /\ GotSnapshot(j)
        BY <1>0, <1>4 DEF CreateSnapshot, PlaceOf
    <2>2. DOMAIN mine[j] = {}
        BY <1>4, SoleWriter
    <2>3. \A id \in DOMAIN mine'[j] : mine'[j][id] = ZeroSnapshot
        <3>1. mine'[j] = mine[j] \/ mine'[j] = Put(mine[j], Snapshot(j), ZeroSnapshot)
            BY <2>1, WriteDomain
        <3>2. QED
            BY <2>2, <3>1 DEF Put
    <2>4. CASE NextCall(j) /\ Op(j) = "look"
        BY <1>2, <2>1, <2>4
    <2>5. CASE Goto(j, "select")
        <3>1. step'[j] = "select" /\ at'[j] = at[j] /\ Op(j)' = Op(j)
            BY <2>5, GotoGoes
        <3>2. QED
            BY <1>1, <2>1, <2>3, <3>1
    <2>6. QED
        BY <2>1, <2>4, <2>5 DEF GotSnapshot, Op
<1>5. CASE FindStats(j)
    <2>1. /\ step[j] = "find" /\ Op(j) = "stats" /\ Goto(j, "select") /\ mine' = mine /\ rows' = rows
        BY <1>5 DEF FindStats, Op, tables, open
    <2>2. PICK id : id = Stats(Current(j).user)
        OBVIOUS
    <2>3. target'[j] = id /\ found'[j] = IF Sees(j, id) THEN Seen(j, id) ELSE ZeroStats
        BY <1>0, <1>5, <2>2 DEF FindStats
    <2>4. step'[j] = "select" /\ at'[j] = at[j] /\ Op(j)' = Op(j)
        BY <2>1, GotoGoes
    <2>5. id \notin DOMAIN mine[j]
        <3>1. id \notin Snapshots /\ id # Snapshot(j)
            BY <2>2, KeysDiffer
        <3>2. QED
            BY <1>0, <2>1, <3>1 DEF LocksOf
    <2>6. id \in DOMAIN rows \/ found'[j] = ZeroStats
        BY <2>3, <2>5 DEF Sees
    <2>7. ReadOf(j)'
        BY <2>1, <2>3, <2>4, <2>6 DEF ReadOf
    <2>8. ASSUME Transactional(j), Work[j].kind # "signup" PROVE Holds(j)'
        <3>1. at[j] = 3
            BY <2>1, <2>8, Places
        <3>2. Holds(j)
            BY <2>1, <2>8, <3>1 DEF MineOf, Running, Ended
        <3>3. QED
            BY <2>1, <2>4, <3>2, HeldOn
    <2>9. MineOf(j)'
        BY <2>1, <2>4, <2>8 DEF MineOf
    <2>10. QED
        BY <2>7, <2>9
<1>6. CASE SelectRow(j)
    <2>1. /\ step[j] = "select" /\ mine' = mine /\ rows' = rows /\ target' = target /\ found' = found
          /\ at[j] \in 1..Len(Calls(j)) /\ Op(j) \notin {"post", "look"}
        BY <1>0, <1>6 DEF SelectRow, tables, open, PlaceOf, Saving
    <2>2. PICK id : id = target[j]
        OBVIOUS
    <2>3. \/ Sees(j, id) /\ base'[j] = Seen(j, id) /\ Goto(j, "update")
          \/ ~Sees(j, id) /\ Goto(j, "insert")
        BY <1>0, <1>6, <2>2 DEF SelectRow
    <2>4. step'[j] \in {"update", "insert"} /\ at'[j] = at[j] /\ Op(j)' = Op(j)
        BY <2>3, GotoGoes
    <2>5. step'[j] = "update" <=> Sees(j, id)
        BY <2>3, GotoGoes
    <2>6. ASSUME step'[j] = "update" PROVE AtMost(base[j], Seen(j, target[j]))'
        <3>1. Sees(j, id) /\ base'[j] = Seen(j, id)
            BY <2>3, <2>5, <2>6
        <3>2. RowIdOf(Op(j), id)
            <4>1. Current(j).user \in Users
                BY <2>1, CurrentIs
            <4>2. QED
                BY <1>0, <2>1, <2>2, <4>1 DEF MemoryOf, RowIdOf, Saving
        <3>3. PICK row \in RowOf(Op(j)) : row = Seen(j, id)
            BY <3>1, <3>2, SeenTyped
        <3>4. AtMost(row, row)
            BY <3>3, AtMostItself
        <3>5. base'[j] = row /\ Seen(j, id)' = row
            BY <2>1, <3>1, <3>3 DEF Seen
        <3>6. target'[j] = id
            BY <2>1, <2>2
        <3>7. AtMost(base[j], Seen(j, id))'
            BY <3>4, <3>5 DEF AtMost
        <3>8. QED
            BY <3>6, <3>7
    <2>7. ASSUME step'[j] = "insert" PROVE found[j] = ZeroStats
        <3>1. ~Sees(j, id)
            BY <2>5, <2>7
        <3>2. Op(j) = "stats"
            BY <1>0, <2>1, <2>2, <3>1 DEF MemoryOf, Saving
        <3>3. QED
            BY <2>1, <2>2, <3>1, <3>2 DEF ReadOf, Sees
    <2>8. ReadOf(j)'
        BY <2>1, <2>4, <2>6, <2>7 DEF ReadOf
    <2>9. ASSUME Transactional(j), Work[j].kind # "signup", at[j] = 3 PROVE Holds(j)'
        <3>1. Holds(j)
            BY <2>1, <2>9 DEF MineOf, Running, Ended
        <3>2. QED
            BY <2>1, <2>4, <3>1, HeldOn
    <2>10. MineOf(j)'
        BY <2>1, <2>4, <2>9 DEF MineOf
    <2>11. QED
        BY <2>8, <2>10
<1>7. QED
    BY <1>3, <1>4, <1>5, <1>6

(* and at a save, if it goes over no change.                               *)
LEMMA SavesSound ==
    ASSUME Inv, NEW j \in Jobs, FoundOf(j), ReadOf(j), MineOf(j),
           UpdateRow(j) \/ InsertRow(j), clobbered' = {}
    PROVE  ReadOf(j)' /\ MineOf(j)'
<1>1. /\ step[j] \in {"update", "insert"} /\ at[j] \in 1..Len(Calls(j))
      /\ Op(j) \notin {"post", "look"} /\ LocksOf(j)
    BY DEF UpdateRow, InsertRow, Inv, PlaceOf, Saving
<1>2. Saved(j)
    BY DEF UpdateRow, InsertRow
<1>3. /\ RowIdOf(Op(j), target[j])
      /\ \E row \in RowOf(Op(j)) :
             row = Committed(target[j]) /\ Write(j, target[j], Applied(j, row))
    BY SaveEffect
<1>4. PICK id : id = target[j]
    OBVIOUS
<1>5. PICK row \in RowOf(Op(j)) : row = Committed(id) /\ Write(j, id, Applied(j, row))
    BY <1>3, <1>4
<1>6. CASE ~Transactional(j)
    <2>1. CASE Op(j) = "record"
        <3>1. Goto(j, "event")
            BY <1>2, <2>1 DEF Saved, Op
        <3>2. step'[j] = "event"
            BY <3>1, GotoGoes
        <3>3. QED
            BY <1>6, <3>2 DEF ReadOf, MineOf, Transactional
    <2>2. CASE Op(j) # "record"
        <3>1. NextCall(j)
            BY <1>2, <2>2 DEF Saved, Op
        <3>2. step'[j] \in {"post", "count", "find", "done"}
            BY <1>6, <3>1, NextGoes
        <3>3. QED
            BY <1>6, <3>2, NothingHeld
    <2>3. QED
        BY <2>1, <2>2
<1>7. CASE Transactional(j)
    <2>1. /\ rows' = rows /\ mine'[j] = Put(mine[j], id, Applied(j, row))
          /\ DOMAIN mine'[j] = DOMAIN mine[j] \union {id}
        BY <1>5, <1>7, WriteDomain
    <2>2. /\ mine'[j][id] = Applied(j, row)
          /\ \A x \in DOMAIN mine[j] : x # id => mine'[j][x] = mine[j][x]
        BY <2>1 DEF Put
    <2>3. \A x : Committed(x)' = Committed(x)
        BY <2>1 DEF Committed
    <2>4. Op(j) # "stats" => id \in Snapshots /\ DOMAIN mine'[j] = {id}
        <3>1. Op(j) # "stats" => target[j] \in Snapshots /\ DOMAIN mine[j] \subseteq {target[j]}
            BY SoleWriter
        <3>2. QED
            BY <1>4, <2>1, <3>1
    <2>5. CASE Op(j) = "record"
        <3>1. Goto(j, "event")
            BY <1>2, <2>5 DEF Saved, Op
        <3>2. step'[j] = "event"
            BY <3>1, GotoGoes
        <3>3. PICK t \in Types(j) : Current(j).type = t
            BY <1>1, <2>5, EventIs
        <3>4. t \in {"CREDIT", "DEBIT"}
            BY <3>3, PlacesOf
        <3>5. mine'[j][id] = WithRecord(j, Committed(id)')
            BY <1>1, <1>5, <2>2, <2>3, <2>5, AppliedIs
        <3>6. Holds(j)'
            <4>1. DOMAIN mine'[j] = {id} \union (IF step'[j] = "commit" THEN {Stats(Work[j].user)} ELSE {})
                BY <2>4, <2>5, <3>2
            <4>2. QED
                BY <2>4, <2>5, <3>2, <3>3, <3>4, <3>5, <4>1 DEF Holds, WithRecord, Plus, Kobo
        <3>7. QED
            BY <3>2, <3>6 DEF ReadOf, MineOf
    <2>6. CASE Op(j) = "join"
        <3>1. NextCall(j)
            BY <1>2, <2>6 DEF Saved, Op
        <3>2. Work[j].kind = "signup"
            <4>1. at[j] = 1
                BY <1>1, <1>7, <2>6, Places
            <4>2. QED
                BY <1>7, <2>6, <4>1, CallsAre DEF Op, Current, Transactional
        <3>3. step'[j] = "commit"
            BY <1>1, <1>7, <2>6, <3>1, NextCallGoes, CallsAre
        <3>4. mine'[j][id] = Plus(Committed(id)', "users", 1)
            BY <1>1, <1>5, <2>2, <2>3, <2>6, AppliedIs
        <3>5. (\E s \in Snapshots : DOMAIN mine[j] = {s} /\ mine[j][s] = Plus(Committed(s), "users", 1))'
            BY <2>4, <2>6, <3>4 DEF Plus
        <3>6. QED
            BY <3>2, <3>3, <3>5 DEF ReadOf, MineOf
    <2>7. CASE Op(j) = "stats"
        <3>1. NextCall(j) /\ at[j] = 3 /\ Len(Calls(j)) = 3
            BY <1>1, <1>2, <1>7, <2>7, Places DEF Saved, Op
        <3>2. step'[j] = "commit"
            <4>1. ~(at[j] < Len(Calls(j)))
                BY <3>1
            <4>2. QED
                BY <1>7, <3>1, <4>1, NextGoes
        <3>3. Work[j].kind # "signup"
            <4>1. Work[j].kind = "signup" => Len(Calls(j)) = 1
                BY CallsAre
            <4>2. QED
                BY <3>1, <4>1
        <3>4. Holds(j)
            BY <1>1, <1>7, <3>1, <3>3 DEF MineOf, Running, Ended
        <3>5. PICK s \in Snapshots, t \in {"CREDIT", "DEBIT"} :
                  /\ t \in Types(j) /\ DOMAIN mine[j] = {s} \union {}
                  /\ mine[j][s] = WithRecord(j, Committed(s))
            BY <1>1, <3>4 DEF Holds
        <3>6. PICK u \in Types(j) : at[j] = StatsCall(j, u) /\ Current(j).type = u /\ Current(j).user = Party(j, u)
            BY <1>1, <2>7, CallOf
        <3>7. u = t /\ Party(j, u) = Work[j].user
            BY <1>7, <3>3, <3>5, <3>6, PlacesOf DEF Transactional
        <3>8. id = Stats(Work[j].user) /\ id \notin Snapshots
            BY <1>4, <2>7, <3>6, <3>7, SoleWriter
        <3>9. mine'[j][id] = WithStats(j, t, Committed(id)')
            BY <1>1, <1>5, <2>2, <2>3, <2>7, <3>6, <3>7, AppliedIs
        <3>10. s # id /\ s \in DOMAIN mine[j]
            BY <3>5, <3>8
        <3>11. mine'[j][s] = WithRecord(j, Committed(s)')
            BY <2>2, <2>3, <3>5, <3>10
        <3>12. DOMAIN mine'[j] = {s} \union (IF step'[j] = "commit" THEN {Stats(Work[j].user)} ELSE {})
            BY <2>1, <3>2, <3>5, <3>8
        <3>13. Holds(j)'
            BY <3>2, <3>5, <3>8, <3>9, <3>11, <3>12 DEF Holds, WithRecord, WithStats, Plus, Kobo
        <3>14. QED
            BY <3>2, <3>3, <3>13 DEF ReadOf, MineOf
    <2>8. QED
        BY <1>1, <1>7, <2>5, <2>6, <2>7, CurrentIs
<1>8. QED
    BY <1>6, <1>7

(* Once a save has gone over a change, or a listener is cut off, that      *)
(* stays so.                                                               *)
LEMMA SoundBefore ==
    ASSUME Inv, NEW j \in Jobs, Step(j), Sound'
    PROVE  Sound /\ clobbered' = {}
<1>1. step[j] \notin Ended /\ \A q \in Jobs \ {j} : step'[q] = step[q]
    BY OthersStill DEF Still
<1>2. \A q \in Jobs : step[q] = "failed" => Transactional(q)
    BY <1>1 DEF Sound, Ended, Transactional
<1>3. clobbered \subseteq clobbered'
    <2>1. Begin(j) \/ Post(j) \/ CountTransactions(j) \/ FindSnapshot(j) \/ CreateSnapshot(j)
              \/ FindStats(j) \/ SelectRow(j) => clobbered' = clobbered
        BY DEF Begin, Post, CountTransactions, FindSnapshot, CreateSnapshot, FindStats, SelectRow, history
    <2>2. InsertRow(j) \/ SaveEvent(j) \/ Commit(j) \/ DuplicateStats(j) \/ Interrupt(j) =>
              clobbered' = clobbered
        BY DEF InsertRow, SaveEvent, Commit, DuplicateStats, Interrupt, RollBack, history
    <2>3. UpdateRow(j) => clobbered \subseteq clobbered'
        BY DEF UpdateRow
    <2>4. QED
        BY <2>1, <2>2, <2>3 DEF Step
<1>4. QED
    BY <1>2, <1>3 DEF Sound

(* As long as nothing has gone wrong: no save has gone over a change, and  *)
(* no listener has been cut off.                                           *)
SoundInv == Sound => \A q \in Jobs : ReadOf(q) /\ MineOf(q)

(* Every step keeps SoundInv.                                              *)
LEMMA SoundKept ==
    ASSUME Inv, Inv', ApartInv, \A q \in Jobs : FoundOf(q), SoundInv, NEW j \in Jobs, Step(j)
    PROVE  SoundInv'
<1>1. SUFFICES ASSUME Sound' PROVE \A q \in Jobs : ReadOf(q)' /\ MineOf(q)'
    BY DEF SoundInv
<1>2. clobbered' = {} /\ \A q \in Jobs : ReadOf(q) /\ MineOf(q)
    BY <1>1, SoundBefore DEF SoundInv
<1>3. /\ RowsGrow
      /\ \A q \in Jobs \ {j} : \A id \in DOMAIN mine[q] : Committed(id)' = Committed(id)
    BY <1>2, SoundGrows
<1>4. \A q \in Jobs \ {j} : ReadOf(q)' /\ MineOf(q)'
    BY <1>2, <1>3, OthersStill, OthersSound
<1>5. ReadOf(j)' /\ MineOf(j)'
    <2>1. DuplicateStats(j) \/ Interrupt(j) => RollBack(j)
        BY DEF DuplicateStats, Interrupt
    <2>2. QED
        BY <1>2, <2>1, MovesSound, FindsSound, SavesSound DEF Step
<1>6. QED
    BY <1>4, <1>5

-----------------------------------------------------------------------------
(* Sums over rows and events.                                              *)

(* The sum of a column, over any table of rows.                            *)
SumOf(f, column) == SumFunction([id \in Snapshots \intersect DOMAIN f |-> f[id][column]])

Columns == {"count", "value", "users", "active"}

(* A save of a row of totals adds to a column's sum what it adds to the    *)
(* row.                                                                    *)
LEMMA SumPut ==
    ASSUME NEW f, IsTable(f), IsFiniteSet(DOMAIN f), NEW id \in Snapshots, NEW new \in SnapshotRow,
           NEW column \in Columns
    PROVE  \A n \in Nat :
               new[column] = (IF id \in DOMAIN f THEN f[id][column] ELSE 0) + n =>
                   SumOf(Put(f, id, new), column) = SumOf(f, column) + n
<1> SUFFICES ASSUME NEW n \in Nat, new[column] = (IF id \in DOMAIN f THEN f[id][column] ELSE 0) + n
             PROVE  SumOf(Put(f, id, new), column) = SumOf(f, column) + n
    OBVIOUS
<1>1. PICK S : S = Snapshots \intersect DOMAIN f
    OBVIOUS
<1>2. PICK R : R = S \ {id}
    OBVIOUS
<1>3. PICK w : w = [x \in S |-> f[x][column]]
    OBVIOUS
<1>4. PICK v : v = [x \in S \union {id} |-> IF x = id THEN new[column] ELSE f[x][column]]
    OBVIOUS
<1>5. IsFiniteSet(S) /\ IsFiniteSet(R) /\ IsFiniteSet(S \union {id})
    BY <1>1, <1>2, FS_Subset, FS_AddElement
<1>6. \A x \in S : f[x] \in SnapshotRow
    BY <1>1, KeysDiffer DEF IsTable
<1>7. \A row \in SnapshotRow : row[column] \in Nat
    BY DEF SnapshotRow, Columns
<1>8. \A x \in S : w[x] \in Int
    BY <1>3, <1>6, <1>7
<1>9. \A x \in S \union {id} : v[x] \in Int
    BY <1>4, <1>6, <1>7
<1>10. PICK rest : rest = SumFunctionOnSet(w, R)
    OBVIOUS
<1>11. rest \in Int
    <2>1. \A x \in R : w[x] \in Int
        BY <1>2, <1>8
    <2>2. QED
        BY <1>5, <1>10, <2>1, SumInt
<1>12. SumFunctionOnSet(v, R) = rest
    <2>1. \A x \in R : v[x] = w[x]
        BY <1>2, <1>3, <1>4
    <2>2. QED
        BY <1>5, <1>10, <2>1, SumAgrees
<1>13. SumFunctionOnSet(v, S \union {id}) = new[column] + rest
    <2>1. (S \union {id}) \ {id} = R /\ id \in S \union {id}
        BY <1>2
    <2>2. SumFunctionOnSet(v, S \union {id}) = v[id] + SumFunctionOnSet(v, (S \union {id}) \ {id})
        BY <1>5, <1>9, SumRemove
    <2>3. v[id] = new[column]
        BY <1>4
    <2>4. QED
        BY <1>12, <2>1, <2>2, <2>3
<1>14. SumFunctionOnSet(w, S) = (IF id \in DOMAIN f THEN f[id][column] ELSE 0) + rest
    <2>1. CASE id \in DOMAIN f
        <3>1. id \in S /\ w[id] = f[id][column]
            BY <1>1, <1>3, <2>1
        <3>2. SumFunctionOnSet(w, S) = w[id] + SumFunctionOnSet(w, S \ {id})
            BY <1>5, <1>8, <3>1, SumRemove
        <3>3. QED
            BY <1>2, <1>10, <2>1, <3>1, <3>2
    <2>2. CASE id \notin DOMAIN f
        <3>1. R = S
            BY <1>1, <1>2, <2>2
        <3>2. QED
            BY <1>10, <1>11, <2>2, <3>1
    <2>3. QED
        BY <2>1, <2>2
<1>15. SumOf(f, column) = SumFunctionOnSet(w, S)
    BY <1>1, <1>3 DEF SumOf, SumFunction
<1>16. SumOf(Put(f, id, new), column) = SumFunctionOnSet(v, S \union {id})
    <2>1. Snapshots \intersect DOMAIN Put(f, id, new) = S \union {id}
        BY <1>1 DEF Put
    <2>2. [x \in Snapshots \intersect DOMAIN Put(f, id, new) |-> Put(f, id, new)[x][column]] = v
        <3>1. \A x \in S \union {id} :
                  Put(f, id, new)[x][column] = IF x = id THEN new[column] ELSE f[x][column]
            BY <1>1 DEF Put
        <3>2. QED
            BY <1>4, <2>1, <3>1
    <2>3. DOMAIN v = S \union {id}
        BY <1>4
    <2>4. QED
        BY <2>2, <2>3 DEF SumOf, SumFunction
<1>17. PICK old : old = (IF id \in DOMAIN f THEN f[id][column] ELSE 0)
    OBVIOUS
<1>18. old \in Int
    <2>1. id \in DOMAIN f => f[id][column] \in Nat
        BY <1>1, <1>6, <1>7
    <2>2. QED
        BY <1>17, <2>1
<1>19. /\ SumOf(f, column) = old + rest /\ SumOf(Put(f, id, new), column) = (old + n) + rest
    BY <1>13, <1>14, <1>15, <1>16, <1>17
<1>20. QED
    BY <1>11, <1>18, <1>19

(* Users' rows do not count.                                               *)
LEMMA SumPutOther ==
    ASSUME NEW f, NEW id, id \notin Snapshots, NEW new
    PROVE  \A column : SumOf(Put(f, id, new), column) = SumOf(f, column)
<1> SUFFICES ASSUME NEW column PROVE SumOf(Put(f, id, new), column) = SumOf(f, column)
    OBVIOUS
<1>1. Snapshots \intersect DOMAIN Put(f, id, new) = Snapshots \intersect DOMAIN f
    BY DEF Put
<1>2. \A x \in Snapshots \intersect DOMAIN f : Put(f, id, new)[x] = f[x]
    BY DEF Put
<1>3. [x \in Snapshots \intersect DOMAIN Put(f, id, new) |-> Put(f, id, new)[x][column]]
          = [x \in Snapshots \intersect DOMAIN f |-> f[x][column]]
    BY <1>1, <1>2
<1>4. QED
    BY <1>3 DEF SumOf

(* The amounts of a finite set of events, event by event.                  *)
LEMMA AmountsAre ==
    ASSUME NEW es \in SUBSET Events, IsFiniteSet(es)
    PROVE  /\ Amounts(es) \in Int
           /\ \A e \in Events : e \notin es => Amounts(es \union {e}) = Amounts(es) + e.amount
<1>1. PICK w : w = [e \in Events |-> e.amount]
    OBVIOUS
<1>2. \A e \in Events : e.amount \in Int
    BY DEF Events
<1>3. ASSUME NEW s \in SUBSET Events, IsFiniteSet(s)
      PROVE  Amounts(s) = SumFunctionOnSet(w, s)
    <2>1. PICK v : v = [e \in s |-> e.amount]
        OBVIOUS
    <2>2. DOMAIN v = s /\ \A e \in s : v[e] = w[e]
        BY <1>1, <2>1
    <2>3. Amounts(s) = SumFunctionOnSet(v, s)
        BY <2>1, <2>2 DEF Amounts, SumFunction
    <2>4. SumFunctionOnSet(v, s) = SumFunctionOnSet(w, s)
        BY <1>3, <2>2, SumAgrees
    <2>5. QED
        BY <2>3, <2>4
<1>4. Amounts(es) \in Int
    <2>1. \A e \in es : w[e] \in Int
        BY <1>1, <1>2
    <2>2. SumFunctionOnSet(w, es) \in Int
        BY <2>1, SumInt
    <2>3. QED
        BY <1>3, <2>2
<1>5. ASSUME NEW e \in Events, e \notin es
      PROVE  Amounts(es \union {e}) = Amounts(es) + e.amount
    <2>1. IsFiniteSet(es \union {e}) /\ es \union {e} \in SUBSET Events
        BY <1>5, FS_AddElement
    <2>2. \A x \in es \union {e} : w[x] \in Int
        BY <1>1, <1>2
    <2>3. SumFunctionOnSet(w, es \union {e}) = SumFunctionOnSet(w, es) + w[e]
        BY <1>5, <2>2, SumAdd
    <2>4. w[e] = e.amount
        BY <1>1
    <2>5. QED
        BY <1>3, <2>1, <2>3, <2>4
<1>6. QED
    BY <1>4, <1>5

-----------------------------------------------------------------------------
(* What the rows add up to.                                                *)

(* The events that are in the totals, and in a user's stats.               *)
InTotals == {e \in Possible : TotalSaved(e.job, e.type)}
InStats(u, t) == {e \in Possible : e.user = u /\ e.type = t /\ StatsSaved(e.job, e.type)}

(* The events in the totals and in the stats grow by what the job saves in *)
(* its step.                                                               *)
LEMMA SetsGrow ==
    ASSUME Inv, NEW j \in Jobs, Step(j)
    PROVE  /\ (\A t \in Types(j) : TotalSaved(j, t)' <=> TotalSaved(j, t)) => InTotals' = InTotals
           /\ (\A t \in Types(j) : StatsSaved(j, t)' <=> StatsSaved(j, t)) =>
                  \A u, t : InStats(u, t)' = InStats(u, t)
           /\ \A s \in Types(j) :
                  ~TotalSaved(j, s) /\ (\A t \in Types(j) : TotalSaved(j, t)' <=> TotalSaved(j, t) \/ t = s) =>
                      /\ EventOf(j, s) \notin InTotals
                      /\ InTotals' = InTotals \union {EventOf(j, s)}
           /\ \A s \in Types(j) :
                  ~StatsSaved(j, s) /\ (\A t \in Types(j) : StatsSaved(j, t)' <=> StatsSaved(j, t) \/ t = s) =>
                      /\ EventOf(j, s) \notin InStats(Party(j, s), s)
                      /\ InStats(Party(j, s), s)' = InStats(Party(j, s), s) \union {EventOf(j, s)}
                      /\ \A u, t : u # Party(j, s) \/ t # s => InStats(u, t)' = InStats(u, t)
<1>1. \A q \in Jobs \ {j} : \A t : /\ TotalSaved(q, t)' <=> TotalSaved(q, t)
                                   /\ StatsSaved(q, t)' <=> StatsSaved(q, t)
    BY OthersStill, SavedOfOthers DEF Still, SavedAsBefore
<1>2. \A e \in Possible : e.job \in Jobs /\ e.type \in Types(e.job)
    BY DEF Possible, Events
<1>3. \A s \in Types(j) : /\ EventOf(j, s) \in Possible /\ EventOf(j, s).job = j
                          /\ EventOf(j, s).type = s /\ EventOf(j, s).user = Party(j, s)
    BY EventIs
<1>4. \A e \in Possible : \A s \in Types(j) : e.job = j /\ e.type = s => e = EventOf(j, s)
    BY EventIs
<1>5. ASSUME \A t \in Types(j) : TotalSaved(j, t)' <=> TotalSaved(j, t)
      PROVE  InTotals' = InTotals
    <2>1. \A e \in Possible : TotalSaved(e.job, e.type)' <=> TotalSaved(e.job, e.type)
        BY <1>1, <1>2, <1>5
    <2>2. QED
        BY <2>1 DEF InTotals
<1>6. ASSUME \A t \in Types(j) : StatsSaved(j, t)' <=> StatsSaved(j, t)
      PROVE  \A u, t : InStats(u, t)' = InStats(u, t)
    <2>1. \A e \in Possible : StatsSaved(e.job, e.type)' <=> StatsSaved(e.job, e.type)
        BY <1>1, <1>2, <1>6
    <2>2. QED
        BY <2>1 DEF InStats
<1>7. ASSUME NEW s \in Types(j), ~TotalSaved(j, s),
             \A t \in Types(j) : TotalSaved(j, t)' <=> TotalSaved(j, t) \/ t = s
      PROVE  EventOf(j, s) \notin InTotals /\ InTotals' = InTotals \union {EventOf(j, s)}
    <2>1. \A e \in Possible :
              TotalSaved(e.job, e.type)' <=> TotalSaved(e.job, e.type) \/ e = EventOf(j, s)
        BY <1>1, <1>2, <1>3, <1>4, <1>7
    <2>2. EventOf(j, s) \notin InTotals
        BY <1>3, <1>7 DEF InTotals
    <2>3. QED
        BY <1>3, <2>1, <2>2 DEF InTotals
<1>8. ASSUME NEW s \in Types(j), ~StatsSaved(j, s),
             \A t \in Types(j) : StatsSaved(j, t)' <=> StatsSaved(j, t) \/ t = s
      PROVE  /\ EventOf(j, s) \notin InStats(Party(j, s), s)
             /\ InStats(Party(j, s), s)' = InStats(Party(j, s), s) \union {EventOf(j, s)}
             /\ \A u, t : u # Party(j, s) \/ t # s => InStats(u, t)' = InStats(u, t)
    <2>1. \A e \in Possible :
              StatsSaved(e.job, e.type)' <=> StatsSaved(e.job, e.type) \/ e = EventOf(j, s)
        BY <1>1, <1>2, <1>3, <1>4, <1>8
    <2>2. EventOf(j, s) \notin InStats(Party(j, s), s)
        BY <1>3, <1>8 DEF InStats
    <2>3. InStats(Party(j, s), s)' = InStats(Party(j, s), s) \union {EventOf(j, s)}
        BY <1>3, <2>1 DEF InStats
    <2>4. \A u, t : u # Party(j, s) \/ t # s => InStats(u, t)' = InStats(u, t)
        BY <1>3, <2>1 DEF InStats
    <2>5. QED
        BY <2>2, <2>3, <2>4
<1>9. QED
    BY <1>5, <1>6, <1>7, <1>8

(* The steps that save nothing for others to see.                          *)
LEMMA NothingSaved ==
    ASSUME Inv, NEW j \in Jobs, Step(j), Sound', ~Commit(j),
           (UpdateRow(j) \/ InsertRow(j)) /\ Op(j) \in {"record", "stats"} => Transactional(j)
    PROVE  /\ \A t \in Types(j) : /\ TotalSaved(j, t)' <=> TotalSaved(j, t)
                                  /\ StatsSaved(j, t)' <=> StatsSaved(j, t)
           /\ SignUps' = SignUps
<1>1. \A q \in Jobs \ {j} : step'[q] = step[q]
    BY OthersStill DEF Still
<1>2. step[j] \notin Ended
    BY OthersStill
<1>3. CASE Transactional(j)
    <2>1. step'[j] # "done"
        <3>1. CASE NextCall(j)
            BY <1>3, <3>1, NextGoes
        <3>2. CASE \E place \in {"find", "create", "select", "update", "insert", "event", "failed"} :
                       Goto(j, place)
            BY <3>2, GotoGoes
        <3>3. NextCall(j) \/ \E place \in {"find", "create", "select", "update", "insert", "event",
                                           "failed"} : Goto(j, place)
            <4>1. Moves(j) \/ SaveEvent(j) \/ RollBack(j) \/ UpdateRow(j) \/ InsertRow(j)
                BY StepKinds
            <4>2. QED
                BY <4>1 DEF Moves, SaveEvent, RollBack, UpdateRow, InsertRow, Saved
        <3>4. QED
            BY <3>1, <3>2, <3>3
    <2>2. \A t \in Types(j) : SavedAsBefore(j, t)
        BY <1>2, <1>3, <2>1, UnseenBefore DEF Ended
    <2>3. SignUps' = SignUps
        BY <1>1, <1>2, <2>1 DEF SignUps, Ended
    <2>4. QED
        BY <2>2, <2>3 DEF SavedAsBefore
<1>4. CASE ~Transactional(j)
    <2>1. SignUps' = SignUps
        BY <1>1, <1>4 DEF SignUps, Transactional
    <2>2. CASE Moves(j)
        BY <2>1, <2>2, SavesNothing DEF Moves, SavedAsBefore
    <2>3. CASE SaveEvent(j)
        BY <1>4, <2>1, <2>3, SavesEvent DEF SaveEvent
    <2>4. CASE RollBack(j)
        <3>1. step'[j] = "failed"
            BY <2>4, GotoGoes DEF RollBack
        <3>2. QED
            BY <1>4, <3>1 DEF Sound, Transactional
    <2>5. Moves(j) \/ SaveEvent(j) \/ RollBack(j)
        BY <1>4, StepKinds
    <2>6. QED
        BY <2>2, <2>3, <2>4, <2>5
<1>5. QED
    BY <1>3, <1>4

(* Sums are over finitely many rows.                                       *)
FiniteInv == IsFiniteSet(DOMAIN rows) /\ \A q \in Jobs : IsFiniteSet(DOMAIN mine[q])

(* What adds up at every moment, not only when all is quiet.               *)
TotalsTally ==
    /\ IsFiniteSet(InTotals)
    /\ Sum("count") = Cardinality(InTotals)
    /\ Sum("value") = Amounts(InTotals)
UsersTally == IsFiniteSet(SignUps) /\ Sum("users") = Cardinality(SignUps)
StatsTally(u) ==
    /\ \A t : IsFiniteSet(InStats(u, t))
    /\ Kobo(Committed(Stats(u)).credit) = Amounts(InStats(u, "CREDIT"))
    /\ Kobo(Committed(Stats(u)).debit) = Amounts(InStats(u, "DEBIT"))
    /\ Committed(Stats(u)).volume = Committed(Stats(u)).credit + Committed(Stats(u)).debit

TallyInv == Sound => TotalsTally /\ UsersTally /\ \A u \in Users : StatsTally(u)

(* What a save of a row of totals does to the sums.                        *)
LEMMA SumsAfterPut ==
    ASSUME Inv, FiniteInv, NEW id \in Snapshots, NEW new \in SnapshotRow, rows' = Put(rows, id, new)
    PROVE  /\ \A column \in Columns : \A n \in Nat :
                  new[column] = Committed(id)[column] + n => Sum(column)' = Sum(column) + n
           /\ \A u : Committed(Stats(u))' = Committed(Stats(u))
<1>1. IsTable(rows) /\ IsFiniteSet(DOMAIN rows)
    BY DEF Inv, TypeOK, FiniteInv
<1>2. \A column : Sum(column) = SumOf(rows, column) /\ Sum(column)' = SumOf(rows', column)
    BY DEF Sum, SumOf
<1>3. ASSUME NEW column \in Columns, NEW n \in Nat, new[column] = Committed(id)[column] + n
      PROVE  Sum(column)' = Sum(column) + n
    <2>1. Committed(id)[column] = IF id \in DOMAIN rows THEN rows[id][column] ELSE 0
        BY DEF Committed, ZeroSnapshot, Columns
    <2>2. new[column] = (IF id \in DOMAIN rows THEN rows[id][column] ELSE 0) + n
        BY <1>3, <2>1
    <2>3. SumOf(Put(rows, id, new), column) = SumOf(rows, column) + n
        BY <1>1, <2>2, SumPut
    <2>4. QED
        BY <1>2, <2>3
<1>4. \A u : Committed(Stats(u))' = Committed(Stats(u))
    <2>1. \A u : Stats(u) # id
        BY KeysDiffer
    <2>2. QED
        BY <2>1 DEF Put, Committed
<1>5. QED
    BY <1>3, <1>4

(* One more event in the totals,                                           *)
LEMMA TotalsGrow ==
    ASSUME Inv, NEW j \in Jobs, NEW s \in Types(j), TotalsTally,
           EventOf(j, s) \notin InTotals, InTotals' = InTotals \union {EventOf(j, s)},
           Sum("count")' = Sum("count") + 1, Sum("value")' = Sum("value") + Kobo(Work[j].amount)
    PROVE  TotalsTally'
<1>1. PICK e \in Events : e = EventOf(j, s) /\ e.amount = Kobo(Work[j].amount)
    BY EventIs DEF Possible
<1>2. InTotals \in SUBSET Events
    BY DEF InTotals, Possible
<1>3. IsFiniteSet(InTotals') /\ Cardinality(InTotals') = Cardinality(InTotals) + 1
    BY FS_AddElement DEF TotalsTally
<1>4. Amounts(InTotals \union {e}) = Amounts(InTotals) + e.amount
    BY <1>1, <1>2, AmountsAre DEF TotalsTally
<1>5. Amounts(InTotals)' = Amounts(InTotals')
    BY DEF Amounts
<1>6. Sum("value")' = Amounts(InTotals')
    BY <1>1, <1>4 DEF TotalsTally
<1>7. QED
    BY <1>3, <1>5, <1>6 DEF TotalsTally

(* and one more in a user's stats, keep the tallies.                       *)
LEMMA StatsGrow ==
    ASSUME Inv, NEW j \in Jobs, NEW s \in Types(j), \A u \in Users : StatsTally(u),
           EventOf(j, s) \notin InStats(Party(j, s), s),
           InStats(Party(j, s), s)' = InStats(Party(j, s), s) \union {EventOf(j, s)},
           \A u, t : u # Party(j, s) \/ t # s => InStats(u, t)' = InStats(u, t),
           Committed(Stats(Party(j, s)))' = WithStats(j, s, Committed(Stats(Party(j, s)))),
           \A u \in Users : u # Party(j, s) => Committed(Stats(u))' = Committed(Stats(u))
    PROVE  \A u \in Users : StatsTally(u)'
<1>1. PICK e \in Events : e = EventOf(j, s) /\ e.amount = Kobo(Work[j].amount)
    BY EventIs DEF Possible
<1>2. s \in {"CREDIT", "DEBIT"} /\ Party(j, s) \in Users /\ Work[j].amount \in Nat
    BY PlacesOf, CallsAre
<1>3. \A u, t : InStats(u, t) \in SUBSET Events
    BY DEF InStats, Possible
<1>4. PICK p \in Users : p = Party(j, s)
    BY <1>2
<1>5. ASSUME NEW u \in Users, u # p PROVE StatsTally(u)'
    <2>1. Committed(Stats(u))' = Committed(Stats(u)) /\ \A t : InStats(u, t)' = InStats(u, t)
        BY <1>4, <1>5
    <2>2. StatsTally(u)
        OBVIOUS
    <2>3. \A t : Amounts(InStats(u, t))' = Amounts(InStats(u, t))
        BY <2>1 DEF Amounts
    <2>4. QED
        BY <2>1, <2>2, <2>3 DEF StatsTally, Kobo
<1>6. StatsTally(p)'
    <2>1. PICK row \in StatsRow : row = Committed(Stats(p))
        BY CommittedTyped DEF RowIdOf, RowOf
    <2>2. PICK new \in StatsRow : new = WithStats(j, s, row)
        BY <1>2, WithStatsIs
    <2>3. Committed(Stats(p))' = new
        BY <1>4, <2>1, <2>2
    <2>4. /\ new["volume"] = row["volume"] + Work[j].amount
          /\ s = "CREDIT" => new["credit"] = row["credit"] + Work[j].amount /\ new["debit"] = row["debit"]
          /\ s = "DEBIT" => new["debit"] = row["debit"] + Work[j].amount /\ new["credit"] = row["credit"]
        BY <1>2, <2>2, WithStatsIs
    <2>5. /\ \A t : IsFiniteSet(InStats(p, t))
          /\ Kobo(row.credit) = Amounts(InStats(p, "CREDIT"))
          /\ Kobo(row.debit) = Amounts(InStats(p, "DEBIT"))
          /\ row.volume = row.credit + row.debit
        BY <2>1 DEF StatsTally
    <2>6. Amounts(InStats(p, s) \union {e}) = Amounts(InStats(p, s)) + Kobo(Work[j].amount)
        BY <1>1, <1>3, <1>4, <2>5, AmountsAre
    <2>7. Amounts(InStats(p, s))' = Amounts(InStats(p, s)) + Kobo(Work[j].amount)
        BY <1>1, <1>4, <2>6 DEF Amounts
    <2>8. \A t : t # s => Amounts(InStats(p, t))' = Amounts(InStats(p, t))
        BY <1>4 DEF Amounts
    <2>9. \A t : IsFiniteSet(InStats(p, t)')
        <3>1. IsFiniteSet(InStats(p, s) \union {EventOf(j, s)})
            BY <2>5, FS_AddElement
        <3>2. IsFiniteSet(InStats(p, s)')
            BY <1>4, <3>1
        <3>3. \A t : t # s => IsFiniteSet(InStats(p, t)')
            BY <1>4, <2>5
        <3>4. QED
            BY <3>2, <3>3
    <2>10. /\ Kobo(new.credit) = Amounts(InStats(p, "CREDIT"))'
           /\ Kobo(new.debit) = Amounts(InStats(p, "DEBIT"))'
        <3>1. /\ row.credit \in Nat /\ row.debit \in Nat /\ new.credit \in Nat /\ new.debit \in Nat
            BY DEF StatsRow
        <3>2. \A a, b \in Nat : Kobo(a + b) = Kobo(a) + Kobo(b)
            BY DEF Kobo
        <3>3. CASE s = "CREDIT"
            <4>1. Kobo(new.credit) = Kobo(row.credit) + Kobo(Work[j].amount)
                BY <1>2, <2>4, <3>1, <3>2, <3>3
            <4>2. new.debit = row.debit
                BY <2>4, <3>3
            <4>3. QED
                BY <2>5, <2>7, <2>8, <3>3, <4>1, <4>2
        <3>4. CASE s = "DEBIT"
            <4>1. Kobo(new.debit) = Kobo(row.debit) + Kobo(Work[j].amount)
                BY <1>2, <2>4, <3>1, <3>2, <3>4
            <4>2. new.credit = row.credit
                BY <2>4, <3>4
            <4>3. QED
                BY <2>5, <2>7, <2>8, <3>4, <4>1, <4>2
        <3>5. QED
            BY <1>2, <3>3, <3>4
    <2>11. new.volume = new.credit + new.debit
        <3>1. /\ row.credit \in Nat /\ row.debit \in Nat /\ row.volume \in Nat
            BY DEF StatsRow
        <3>2. QED
            BY <1>2, <2>4, <2>5, <3>1
    <2>12. QED
        BY <2>3, <2>9, <2>10, <2>11 DEF StatsTally, Kobo
<1>7. QED
    BY <1>5, <1>6

(* Every step leaves finitely many rows.                                   *)
LEMMA FiniteKept ==
    ASSUME Inv, FiniteInv, NEW j \in Jobs, Step(j)
    PROVE  FiniteInv'
<1>1. \A q \in Jobs \ {j} : mine'[q] = mine[q]
    BY OthersStill DEF Still
<1>2. IsFiniteSet(DOMAIN rows) /\ IsFiniteSet(DOMAIN mine[j])
    BY DEF FiniteInv
<1>3. CASE IsFiniteSet(DOMAIN rows') /\ IsFiniteSet(DOMAIN mine'[j])
    BY <1>1, <1>3 DEF FiniteInv
<1>4. ASSUME NEW id, NEW row, Write(j, id, row) PROVE FiniteInv'
    <2>1. IsFiniteSet(DOMAIN rows \union {id}) /\ IsFiniteSet(DOMAIN mine[j] \union {id})
        BY <1>2, FS_AddElement
    <2>2. \/ rows' = rows /\ DOMAIN mine'[j] = DOMAIN mine[j] \union {id}
          \/ mine' = mine /\ DOMAIN rows' = DOMAIN rows \union {id}
        BY <1>4, WriteDomain
    <2>3. QED
        BY <1>2, <1>3, <2>1, <2>2
<1>5. CASE CreateSnapshot(j) \/ UpdateRow(j) \/ InsertRow(j)
    <2>1. UNCHANGED <<rows, mine>> \/ \E id, row : Write(j, id, row)
        BY <1>5 DEF CreateSnapshot, UpdateRow, InsertRow
    <2>2. QED
        BY <1>2, <1>3, <1>4, <2>1
<1>6. CASE Commit(j)
    <2>1. DOMAIN rows' = DOMAIN rows \union DOMAIN mine[j] /\ DOMAIN mine'[j] = {}
        BY <1>6 DEF Commit, Inv
    <2>2. QED
        BY <1>2, <1>3, <2>1, FS_Union, FS_EmptySet
<1>7. CASE RollBack(j)
    <2>1. rows' = rows /\ DOMAIN mine'[j] = {}
        BY <1>7 DEF RollBack, tables, Inv
    <2>2. QED
        BY <1>2, <1>3, <2>1, FS_EmptySet
<1>8. QED
    BY <1>2, <1>3, <1>5, <1>6, <1>7, RowsStill

(* A commit adds its event to the totals and to the stats at once, or its  *)
(* sign-up.                                                                *)
LEMMA CommitTallies ==
    ASSUME Inv, FiniteInv, NEW j \in Jobs, Step(j), MineOf(j), Commit(j),
           TotalsTally, UsersTally, \A u \in Users : StatsTally(u)
    PROVE  TotalsTally' /\ UsersTally' /\ \A u \in Users : StatsTally(u)'
<1>1. step[j] = "commit" /\ step'[j] = "done" /\ \A q \in Jobs \ {j} : step'[q] = step[q]
    BY OthersStill, GotoGoes DEF Commit, Still
<1>2. /\ Transactional(j)
      /\ DOMAIN rows' = DOMAIN rows \union DOMAIN mine[j]
      /\ \A id \in DOMAIN rows : id \notin DOMAIN mine[j] => rows'[id] = rows[id]
    BY CommitAdds
<1>3. \A t \in Types(j) : /\ TotalSaved(j, t)' /\ ~TotalSaved(j, t)
                          /\ StatsSaved(j, t)' /\ ~StatsSaved(j, t)
    BY <1>1, SavesAll
<1>4. rows' = [id \in DOMAIN rows \union DOMAIN mine[j] |-> Seen(j, id)]
    BY DEF Commit
<1>5. CASE Work[j].kind # "signup"
    <2>1. PICK s \in Snapshots, t \in {"CREDIT", "DEBIT"} :
              /\ t \in Types(j) /\ DOMAIN mine[j] = {s, Stats(Work[j].user)}
              /\ rows'[s] = WithRecord(j, Committed(s))
              /\ rows'[Stats(Work[j].user)] = WithStats(j, t, Committed(Stats(Work[j].user)))
        BY <1>5, CommitAdds
    <2>2. Types(j) = {t} /\ Party(j, t) = Work[j].user
        BY <1>2, <1>5, <2>1, OneOf DEF Party, Transactional
    <2>3. PICK own : own = Stats(Work[j].user)
        OBVIOUS
    <2>4. own \notin Snapshots /\ own # s
        BY <2>3, KeysDiffer
    <2>5. PICK first \in SnapshotRow : first = WithRecord(j, Committed(s))
        <3>1. Committed(s) \in SnapshotRow
            BY CommittedTyped DEF RowIdOf, RowOf
        <3>2. QED
            BY <3>1, WithRecordIs
    <2>6. PICK second : second = rows'[own]
        OBVIOUS
    <2>7. PICK between : between = Put(rows, s, first)
        OBVIOUS
    <2>8. rows' = Put(between, own, second)
        <3>1. DOMAIN between = DOMAIN rows \union {s}
            BY <2>7 DEF Put
        <3>2. DOMAIN Put(between, own, second) = DOMAIN rows'
            BY <1>2, <2>1, <2>3, <3>1 DEF Put
        <3>3. \A x \in DOMAIN rows' : rows'[x] = Put(between, own, second)[x]
            <4>1. SUFFICES ASSUME NEW x \in DOMAIN rows' PROVE rows'[x] = Put(between, own, second)[x]
                OBVIOUS
            <4>2. CASE x = own
                BY <2>6, <3>1, <4>2 DEF Put
            <4>3. CASE x = s
                BY <2>1, <2>4, <2>5, <2>7, <3>1, <4>3 DEF Put
            <4>4. CASE x # own /\ x # s
                <5>1. x \in DOMAIN rows /\ rows'[x] = rows[x]
                    BY <1>2, <2>1, <2>3, <4>4
                <5>2. between[x] = rows[x]
                    BY <2>7, <4>4, <5>1 DEF Put
                <5>3. QED
                    BY <3>1, <4>4, <5>1, <5>2 DEF Put
            <4>5. QED
                BY <4>2, <4>3, <4>4
        <3>4. QED
            BY <1>4, <3>2, <3>3 DEF Put
    <2>9. ASSUME NEW column \in Columns, NEW n \in Nat, first[column] = Committed(s)[column] + n
          PROVE  Sum(column)' = Sum(column) + n
        <3>1. Committed(s)[column] = IF s \in DOMAIN rows THEN rows[s][column] ELSE 0
            BY DEF Committed, ZeroSnapshot, Columns
        <3>2. first[column] = (IF s \in DOMAIN rows THEN rows[s][column] ELSE 0) + n
            BY <2>9, <3>1
        <3>3. IsTable(rows) /\ IsFiniteSet(DOMAIN rows)
            BY DEF Inv, TypeOK, FiniteInv
        <3>4. SumOf(between, column) = SumOf(rows, column) + n
            BY <2>7, <3>2, <3>3, SumPut
        <3>5. SumOf(Put(between, own, second), column) = SumOf(between, column)
            BY <2>4, SumPutOther
        <3>6. Sum(column) = SumOf(rows, column) /\ Sum(column)' = SumOf(rows', column)
            BY DEF Sum, SumOf
        <3>7. QED
            BY <2>8, <3>4, <3>5, <3>6
    <2>10. /\ first["count"] = Committed(s)["count"] + 1
           /\ first["value"] = Committed(s)["value"] + Kobo(Work[j].amount)
           /\ first["users"] = Committed(s)["users"]
        <3>1. Committed(s) \in SnapshotRow
            BY CommittedTyped DEF RowIdOf, RowOf
        <3>2. QED
            BY <2>5, <3>1, WithRecordIs
    <2>11. Sum("count")' = Sum("count") + 1 /\ Sum("value")' = Sum("value") + Kobo(Work[j].amount)
        <3>1. Kobo(Work[j].amount) \in Nat /\ 1 \in Nat
            BY CallsAre DEF Kobo
        <3>2. QED
            BY <2>9, <2>10, <3>1 DEF Columns
    <2>12. Sum("users")' = Sum("users") + 0
        <3>1. Committed(s)["users"] \in Nat
            BY CommittedTyped DEF RowIdOf, RowOf, SnapshotRow
        <3>2. first["users"] = Committed(s)["users"] + 0
            BY <2>10, <3>1
        <3>3. QED
            BY <2>9, <3>2 DEF Columns
    <2>13. SignUps' = SignUps
        BY <1>1, <1>5 DEF SignUps
    <2>14. UsersTally'
        <3>1. Cardinality(SignUps) \in Nat
            BY FS_CardinalityType DEF UsersTally
        <3>2. Sum("users")' = Sum("users")
            BY <2>12, <3>1 DEF UsersTally
        <3>3. QED
            BY <2>13, <3>2 DEF UsersTally
    <2>15. /\ EventOf(j, t) \notin InTotals /\ InTotals' = InTotals \union {EventOf(j, t)}
           /\ EventOf(j, t) \notin InStats(Party(j, t), t)
           /\ InStats(Party(j, t), t)' = InStats(Party(j, t), t) \union {EventOf(j, t)}
           /\ \A u, x : u # Party(j, t) \/ x # t => InStats(u, x)' = InStats(u, x)
        <3>1. \A x \in Types(j) : /\ TotalSaved(j, x)' <=> TotalSaved(j, x) \/ x = t
                                  /\ StatsSaved(j, x)' <=> StatsSaved(j, x) \/ x = t
            BY <1>3, <2>2
        <3>2. ~TotalSaved(j, t) /\ ~StatsSaved(j, t)
            BY <1>3, <2>1
        <3>3. QED
            BY <2>1, <3>1, <3>2, SetsGrow
    <2>16. TotalsTally'
        BY <2>1, <2>11, <2>15, TotalsGrow
    <2>17. Committed(Stats(Party(j, t)))' = WithStats(j, t, Committed(Stats(Party(j, t))))
        <3>1. own \in DOMAIN rows'
            BY <1>2, <2>1, <2>3
        <3>2. Committed(own)' = rows'[own]
            BY <3>1 DEF Committed
        <3>3. QED
            BY <2>1, <2>2, <2>3, <3>2
    <2>18. \A u \in Users : u # Party(j, t) => Committed(Stats(u))' = Committed(Stats(u))
        <3>1. SUFFICES ASSUME NEW u \in Users, u # Party(j, t)
                       PROVE  Committed(Stats(u))' = Committed(Stats(u))
            OBVIOUS
        <3>2. Stats(u) \notin DOMAIN mine[j]
            BY <2>1, <2>2, <3>1, KeysDiffer DEF Stats
        <3>3. QED
            BY <1>2, <3>2 DEF Committed
    <2>19. \A u \in Users : StatsTally(u)'
        BY <2>1, <2>15, <2>17, <2>18, StatsGrow
    <2>20. QED
        BY <2>14, <2>16, <2>19
<1>6. CASE Work[j].kind = "signup"
    <2>1. PICK s \in Snapshots : DOMAIN mine[j] = {s} /\ rows'[s] = Plus(Committed(s), "users", 1)
        BY <1>6, CommitAdds
    <2>2. PICK new \in SnapshotRow :
              /\ new = Plus(Committed(s), "users", 1)
              /\ new["users"] = Committed(s)["users"] + 1
              /\ new["count"] = Committed(s)["count"] /\ new["value"] = Committed(s)["value"]
        <3>1. Committed(s) \in SnapshotRow
            BY CommittedTyped DEF RowIdOf, RowOf
        <3>2. QED
            BY <3>1, PlusIs
    <2>3. rows' = Put(rows, s, new)
        BY <1>2, <1>4, <2>1, <2>2 DEF Put
    <2>4. /\ \A column \in Columns : \A n \in Nat :
                 new[column] = Committed(s)[column] + n => Sum(column)' = Sum(column) + n
          /\ \A u : Committed(Stats(u))' = Committed(Stats(u))
        BY <2>3, SumsAfterPut
    <2>5. Sum("users")' = Sum("users") + 1
        BY <2>2, <2>4 DEF Columns
    <2>6. Sum("count")' = Sum("count") + 0 /\ Sum("value")' = Sum("value") + 0
        <3>1. Committed(s)["count"] \in Nat /\ Committed(s)["value"] \in Nat
            BY CommittedTyped DEF RowIdOf, RowOf, SnapshotRow
        <3>2. new["count"] = Committed(s)["count"] + 0 /\ new["value"] = Committed(s)["value"] + 0
            BY <2>2, <3>1
        <3>3. QED
            BY <2>4, <3>2 DEF Columns
    <2>7. Types(j) = {}
        BY <1>6, PlacesOf
    <2>8. InTotals' = InTotals /\ \A u, t : InStats(u, t)' = InStats(u, t)
        BY <2>7, SetsGrow
    <2>9. SignUps' = SignUps \union {j} /\ j \notin SignUps
        BY <1>1, <1>6 DEF SignUps
    <2>10. UsersTally'
        BY <2>5, <2>9, FS_AddElement DEF UsersTally
    <2>11. TotalsTally'
        <3>1. InTotals \in SUBSET Events
            BY DEF InTotals, Possible
        <3>2. Amounts(InTotals) \in Int /\ Cardinality(InTotals) \in Nat
            BY <3>1, AmountsAre, FS_CardinalityType DEF TotalsTally
        <3>3. Sum("count")' = Sum("count") /\ Sum("value")' = Sum("value")
            BY <2>6, <3>2 DEF TotalsTally
        <3>4. Amounts(InTotals)' = Amounts(InTotals)
            BY <2>8 DEF Amounts
        <3>5. QED
            BY <2>8, <3>3, <3>4 DEF TotalsTally
    <2>12. \A u \in Users : StatsTally(u)'
        <3>1. SUFFICES ASSUME NEW u \in Users PROVE StatsTally(u)'
            OBVIOUS
        <3>2. Committed(Stats(u))' = Committed(Stats(u))
            BY <2>4
        <3>3. \A t : Amounts(InStats(u, t))' = Amounts(InStats(u, t))
            BY <2>8 DEF Amounts
        <3>4. QED
            BY <2>8, <3>2, <3>3 DEF StatsTally, Kobo
    <2>13. QED
        BY <2>10, <2>11, <2>12
<1>7. QED
    BY <1>5, <1>6

(* A listener's save is seen at once.                                      *)
LEMMA SaveTallies ==
    ASSUME Inv, FiniteInv, NEW j \in Jobs, Step(j), ~Transactional(j),
           UpdateRow(j) \/ InsertRow(j), FoundOf(j), ReadOf(j), MineOf(j), Sound',
           TotalsTally, UsersTally, \A u \in Users : StatsTally(u)
    PROVE  TotalsTally' /\ UsersTally' /\ \A u \in Users : StatsTally(u)'
<1>1. clobbered' = {}
    BY SoundBefore
<1>2. /\ step[j] \in {"update", "insert"} /\ at[j] \in 1..Len(Calls(j))
      /\ Op(j) \notin {"post", "look"} /\ Saved(j)
    BY DEF UpdateRow, InsertRow, Inv, PlaceOf, Saving
<1>3. PICK id : id = target[j]
    OBVIOUS
<1>4. PICK row \in RowOf(Op(j)) : row = Committed(id) /\ Write(j, id, Applied(j, row))
    BY <1>1, <1>3, SaveEffect
<1>5. rows' = Put(rows, id, Applied(j, row))
    BY <1>4 DEF Write
<1>6. ASSUME InTotals' = InTotals, Sum("count")' = Sum("count") + 0, Sum("value")' = Sum("value") + 0
      PROVE  TotalsTally'
    <2>1. InTotals \in SUBSET Events
        BY DEF InTotals, Possible
    <2>2. Amounts(InTotals) \in Int /\ Cardinality(InTotals) \in Nat
        BY <2>1, AmountsAre, FS_CardinalityType DEF TotalsTally
    <2>3. Sum("count")' = Sum("count") /\ Sum("value")' = Sum("value")
        BY <1>6, <2>2 DEF TotalsTally
    <2>4. Amounts(InTotals)' = Amounts(InTotals)
        BY <1>6 DEF Amounts
    <2>5. QED
        BY <1>6, <2>3, <2>4 DEF TotalsTally
<1>7. ASSUME SignUps' = SignUps, Sum("users")' = Sum("users") + 0
      PROVE  UsersTally'
    <2>1. Cardinality(SignUps) \in Nat
        BY FS_CardinalityType DEF UsersTally
    <2>2. Sum("users")' = Sum("users")
        BY <1>7, <2>1 DEF UsersTally
    <2>3. QED
        BY <1>7, <2>2 DEF UsersTally
<1>8. ASSUME \A u : Committed(Stats(u))' = Committed(Stats(u)), \A u, t : InStats(u, t)' = InStats(u, t)
      PROVE  \A u \in Users : StatsTally(u)'
    <2>1. SUFFICES ASSUME NEW u \in Users PROVE StatsTally(u)'
        OBVIOUS
    <2>2. \A t : Amounts(InStats(u, t))' = Amounts(InStats(u, t))
        BY <1>8 DEF Amounts
    <2>3. QED
        BY <1>8, <2>2 DEF StatsTally, Kobo
<1>9. SignUps' = SignUps
    <2>1. \A q \in Jobs \ {j} : step'[q] = step[q]
        BY OthersStill DEF Still
    <2>2. QED
        BY <2>1 DEF SignUps, Transactional
<1>10. CASE Op(j) = "stats"
    <2>1. Current(j).type \in Types(j) /\ ~StatsSaved(j, Current(j).type) /\
          \A t \in Types(j) : /\ TotalSaved(j, t)' <=> TotalSaved(j, t)
                              /\ StatsSaved(j, t)' <=> StatsSaved(j, t) \/ t = Current(j).type
        BY <1>2, <1>10, SavesStats DEF Saved, Op
    <2>2. PICK s \in Types(j) : at[j] = StatsCall(j, s) /\ Current(j).type = s /\ Current(j).user = Party(j, s)
        BY <1>2, <1>10, CallOf
    <2>3. id = Stats(Party(j, s)) /\ id \notin Snapshots
        BY <1>3, <1>10, <2>2, SoleWriter
    <2>4. Applied(j, row) = WithStats(j, s, row)
        BY <1>2, <1>10, <2>2, AppliedIs
    <2>5. Committed(Stats(Party(j, s)))' = WithStats(j, s, Committed(Stats(Party(j, s))))
        <3>1. Committed(id)' = Applied(j, row)
            BY <1>5 DEF Committed, Put
        <3>2. QED
            BY <1>4, <2>3, <2>4, <3>1
    <2>6. \A u \in Users : u # Party(j, s) => Committed(Stats(u))' = Committed(Stats(u))
        <3>1. \A u \in Users : u # Party(j, s) => Stats(u) # id
            BY <2>3 DEF Stats
        <3>2. QED
            BY <1>5, <3>1 DEF Committed, Put
    <2>7. /\ InTotals' = InTotals
          /\ EventOf(j, s) \notin InStats(Party(j, s), s)
          /\ InStats(Party(j, s), s)' = InStats(Party(j, s), s) \union {EventOf(j, s)}
          /\ \A u, t : u # Party(j, s) \/ t # s => InStats(u, t)' = InStats(u, t)
        <3>1. \A t \in Types(j) : /\ TotalSaved(j, t)' <=> TotalSaved(j, t)
                                  /\ StatsSaved(j, t)' <=> StatsSaved(j, t) \/ t = s
            BY <2>1, <2>2
        <3>2. ~StatsSaved(j, s)
            BY <2>1, <2>2
        <3>3. QED
            BY <3>1, <3>2, SetsGrow
    <2>8. \A u \in Users : StatsTally(u)'
        BY <2>5, <2>6, <2>7, StatsGrow
    <2>9. \A column \in Columns : Sum(column)' = Sum(column)
        <3>1. \A column : Sum(column) = SumOf(rows, column) /\ Sum(column)' = SumOf(rows', column)
            BY DEF Sum, SumOf
        <3>2. QED
            BY <1>5, <2>3, <3>1, SumPutOther
    <2>10. TotalsTally'
        <3>1. Amounts(InTotals)' = Amounts(InTotals)
            BY <2>7 DEF Amounts
        <3>2. QED
            BY <2>7, <2>9, <3>1 DEF TotalsTally, Columns
    <2>11. UsersTally'
        BY <1>9, <2>9 DEF UsersTally, Columns
    <2>12. QED
        BY <2>8, <2>10, <2>11
<1>11. CASE Op(j) # "stats"
    <2>1. id \in Snapshots /\ row \in SnapshotRow /\ UpdateRow(j)
        BY <1>3, <1>4, <1>11, SoleWriter DEF RowOf
    <2>2. PICK new : new = Applied(j, row)
        OBVIOUS
    <2>3. new \in SnapshotRow
        BY <1>2, <1>11, <2>2, AppliedTyped DEF RowOf
    <2>4. /\ \A column \in Columns : \A n \in Nat :
                 new[column] = row[column] + n => Sum(column)' = Sum(column) + n
          /\ \A u : Committed(Stats(u))' = Committed(Stats(u))
        BY <1>4, <1>5, <2>1, <2>2, <2>3, SumsAfterPut
    <2>5. row["count"] \in Nat /\ row["value"] \in Nat /\ row["users"] \in Nat
        BY <2>1 DEF SnapshotRow
    <2>6. CASE Op(j) = "record"
        <3>1. Current(j).type \in Types(j) /\ ~TotalSaved(j, Current(j).type) /\
              \A t \in Types(j) : /\ TotalSaved(j, t)' <=> TotalSaved(j, t) \/ t = Current(j).type
                                  /\ StatsSaved(j, t)' <=> StatsSaved(j, t)
            BY <1>2, <2>1, <2>6, SavesTotal DEF Saved, UpdateRow, Op
        <3>2. PICK s \in Types(j) : s = Current(j).type
            BY <3>1
        <3>3. /\ new["count"] = row["count"] + 1 /\ new["value"] = row["value"] + Kobo(Work[j].amount)
              /\ new["users"] = row["users"] + 0
            <4>1. new = WithRecord(j, row)
                BY <1>2, <2>2, <2>6, AppliedIs
            <4>2. QED
                BY <2>1, <2>5, <4>1, WithRecordIs
        <3>4. /\ Sum("count")' = Sum("count") + 1 /\ Sum("value")' = Sum("value") + Kobo(Work[j].amount)
              /\ Sum("users")' = Sum("users") + 0
            <4>1. Kobo(Work[j].amount) \in Nat
                BY CallsAre DEF Kobo
            <4>2. QED
                BY <2>4, <3>3, <4>1 DEF Columns
        <3>5. /\ EventOf(j, s) \notin InTotals /\ InTotals' = InTotals \union {EventOf(j, s)}
              /\ \A u, t : InStats(u, t)' = InStats(u, t)
            BY <3>1, <3>2, SetsGrow
        <3>6. TotalsTally'
            BY <3>4, <3>5, TotalsGrow
        <3>7. QED
            BY <1>7, <1>8, <1>9, <2>4, <3>4, <3>5, <3>6
    <2>7. CASE Op(j) # "record"
        <3>1. Op(j) = "mark"
            <4>1. Op(j) # "join"
                <5>1. CASE Work[j].kind = "report"
                    BY <1>2, <5>1, CallsAre DEF Op, Current
                <5>2. CASE Work[j].kind = "transfer"
                    <6>1. at[j] \in 1..6
                        BY <1>2, <5>2, CallsAre
                    <6>2. at[j] = 1 \/ at[j] = 2 \/ at[j] = 3 \/ at[j] = 4 \/ at[j] = 5 \/ at[j] = 6
                        BY <6>1
                    <6>3. QED
                        BY <5>2, <6>2, CallsAre DEF Op, Current
                <5>3. QED
                    BY <5>1, <5>2, CallsAre DEF Transactional
            <4>2. QED
                BY <1>2, <1>11, <2>7, <4>1, CurrentIs
        <3>2. new = Plus(row, "active", 1)
            BY <1>2, <2>2, <3>1, AppliedIs
        <3>3. /\ new["count"] = row["count"] + 0 /\ new["value"] = row["value"] + 0
              /\ new["users"] = row["users"] + 0
            BY <2>1, <2>5, <3>2, PlusIs
        <3>4. /\ Sum("count")' = Sum("count") + 0 /\ Sum("value")' = Sum("value") + 0
              /\ Sum("users")' = Sum("users") + 0
            BY <2>4, <3>3 DEF Columns
        <3>5. InTotals' = InTotals /\ \A u, t : InStats(u, t)' = InStats(u, t)
            <4>1. ~Commit(j)
                BY <1>2 DEF Commit
            <4>2. ~(Op(j) \in {"record", "stats"})
                BY <3>1
            <4>3. \A t \in Types(j) : /\ TotalSaved(j, t)' <=> TotalSaved(j, t)
                                      /\ StatsSaved(j, t)' <=> StatsSaved(j, t)
                BY <4>1, <4>2, NothingSaved
            <4>4. QED
                BY <4>3, SetsGrow
        <3>6. QED
            BY <1>6, <1>7, <1>8, <1>9, <2>4, <3>4, <3>5
    <2>8. QED
        BY <2>6, <2>7
<1>12. QED
    BY <1>10, <1>11

(* Every step keeps the tallies.                                           *)
LEMMA TallyKept ==
    ASSUME Inv, FiniteInv, \A q \in Jobs : FoundOf(q), SoundInv, TallyInv, NEW j \in Jobs, Step(j)
    PROVE  TallyInv'
<1>1. SUFFICES ASSUME Sound' PROVE TotalsTally' /\ UsersTally' /\ \A u \in Users : StatsTally(u)'
    BY DEF TallyInv
<1>2. /\ TotalsTally /\ UsersTally /\ \A u \in Users : StatsTally(u)
      /\ FoundOf(j) /\ ReadOf(j) /\ MineOf(j)
    BY <1>1, SoundBefore DEF TallyInv, SoundInv
<1>3. CASE Commit(j)
    BY <1>2, <1>3, CommitTallies
<1>4. CASE ~Transactional(j) /\ (UpdateRow(j) \/ InsertRow(j))
    BY <1>1, <1>2, <1>4, SaveTallies
<1>5. CASE ~Commit(j) /\ ~(~Transactional(j) /\ (UpdateRow(j) \/ InsertRow(j)))
    <2>1. /\ \A t \in Types(j) : /\ TotalSaved(j, t)' <=> TotalSaved(j, t)
                                 /\ StatsSaved(j, t)' <=> StatsSaved(j, t)
          /\ SignUps' = SignUps
        BY <1>1, <1>5, NothingSaved
    <2>2. InTotals' = InTotals /\ \A u, t : InStats(u, t)' = InStats(u, t)
        BY <2>1, SetsGrow
    <2>3. /\ \A column \in {"count", "value", "users"} : Sum(column)' = Sum(column)
          /\ \A u : Committed(Stats(u))' = Committed(Stats(u))
        <3>1. CASE rows' = rows
            BY <3>1 DEF Sum, Committed
        <3>2. CASE CreateSnapshot(j) /\ ~Transactional(j)
            <4>1. rows' = Put(rows, Snapshot(j), ZeroSnapshot)
                BY <3>2 DEF CreateSnapshot, Write
            <4>2. Snapshot(j) \in Snapshots /\ Snapshot(j) \notin DOMAIN rows
                BY <3>2, SoleWriter
            <4>3. ZeroSnapshot \in SnapshotRow /\ Committed(Snapshot(j)) = ZeroSnapshot
                BY <4>2 DEF Committed, ZeroSnapshot, SnapshotRow
            <4>4. /\ \A column \in Columns : \A n \in Nat :
                         ZeroSnapshot[column] = Committed(Snapshot(j))[column] + n =>
                             Sum(column)' = Sum(column) + n
                  /\ \A u : Committed(Stats(u))' = Committed(Stats(u))
                BY <4>1, <4>2, <4>3, SumsAfterPut
            <4>5. \A column \in Columns : ZeroSnapshot[column] = Committed(Snapshot(j))[column] + 0
                BY <4>3 DEF ZeroSnapshot, Columns
            <4>6. \A column \in Columns : Sum(column)' = Sum(column) + 0
                BY <4>4, <4>5
            <4>7. InTotals \in SUBSET Events
                BY DEF InTotals, Possible
            <4>8. Sum("count") \in Int /\ Sum("value") \in Int /\ Sum("users") \in Int
                <5>1. Cardinality(InTotals) \in Nat /\ Cardinality(SignUps) \in Nat
                    BY <1>2, FS_CardinalityType DEF TotalsTally, UsersTally
                <5>2. Amounts(InTotals) \in Int
                    BY <1>2, <4>7, AmountsAre DEF TotalsTally
                <5>3. QED
                    BY <1>2, <5>1, <5>2 DEF TotalsTally, UsersTally
            <4>9. QED
                BY <4>4, <4>6, <4>8 DEF Columns
        <3>3. CASE Transactional(j)
            <4>1. CreateSnapshot(j) => rows' = rows
                BY <3>3 DEF CreateSnapshot, Write
            <4>2. UpdateRow(j) \/ InsertRow(j) => rows' = rows
                BY <3>3 DEF UpdateRow, InsertRow, Write
            <4>3. RollBack(j) => rows' = rows
                BY DEF RollBack, tables
            <4>4. QED
                BY <1>5, <3>1, <4>1, <4>2, <4>3, RowsStill
        <3>4. RollBack(j) => rows' = rows
            BY DEF RollBack, tables
        <3>5. QED
            BY <1>5, <3>1, <3>2, <3>3, <3>4, RowsStill
    <2>4. TotalsTally'
        <3>1. Amounts(InTotals)' = Amounts(InTotals)
            BY <2>2 DEF Amounts
        <3>2. QED
            BY <1>2, <2>2, <2>3, <3>1 DEF TotalsTally
    <2>5. UsersTally'
        BY <1>2, <2>1, <2>3 DEF UsersTally
    <2>6. \A u \in Users : StatsTally(u)'
        <3>1. SUFFICES ASSUME NEW u \in Users PROVE StatsTally(u)'
            OBVIOUS
        <3>2. \A t : Amounts(InStats(u, t))' = Amounts(InStats(u, t))
            BY <2>2 DEF Amounts
        <3>3. QED
            BY <1>2, <2>2, <2>3, <3>2 DEF StatsTally, Kobo
    <2>7. QED
        BY <2>4, <2>5, <2>6
<1>6. QED
    BY <1>3, <1>4, <1>5

(* The inductive invariant, with Inv.                                      *)
HistoryInv ==
    /\ LastInv /\ EventsInv /\ (\A q \in Jobs : FoundOf(q)) /\ ApartInv
    /\ SoundInv /\ FiniteInv /\ TallyInv

(* HistoryInv holds at first,                                              *)
LEMMA HistoryInit == Init => HistoryInv
<1> SUFFICES ASSUME Init PROVE HistoryInv
    OBVIOUS
<1>1. /\ rows = <<>> /\ mine = [j \in Jobs |-> <<>>] /\ events = {} /\ noted = [j \in Jobs |-> {}]
      /\ at = [j \in Jobs |-> 0] /\ step = [j \in Jobs |-> "start"]
    BY DEF Init
<1>2. \A j \in Jobs : DOMAIN mine[j] = {} /\ noted[j] = {} /\ at[j] = 0 /\ step[j] = "start"
    BY <1>1
<1>3. DOMAIN rows = {}
    BY <1>1
<1>4. \A e \in Possible : e.job \in Jobs
    BY DEF Possible, Events
<1>5. \A j \in Jobs : \A t : ~EventSaved(j, t) /\ ~TotalSaved(j, t) /\ ~StatsSaved(j, t)
    BY <1>2 DEF EventSaved, TotalSaved, StatsSaved, RecordCall, StatsCall
<1>6. LastInv /\ (\A q \in Jobs : FoundOf(q)) /\ ApartInv
    BY <1>2 DEF LastInv, FoundOf, Saving, ApartInv
<1>7. EventsInv
    BY <1>1, <1>2, <1>4, <1>5 DEF EventsInv, Noting
<1>8. SoundInv
    BY <1>2 DEF SoundInv, ReadOf, MineOf, Running
<1>9. FiniteInv
    BY <1>2, <1>3, FS_EmptySet DEF FiniteInv
<1>10. InTotals = {} /\ SignUps = {} /\ \A u, t : InStats(u, t) = {}
    BY <1>2, <1>4, <1>5 DEF InTotals, InStats, SignUps
<1>11. Amounts({}) = 0
    <2>1. DOMAIN [e \in {} |-> e.amount] = {}
        OBVIOUS
    <2>2. QED
        BY <2>1, SumEmpty DEF Amounts, SumFunction
<1>12. \A column : Sum(column) = 0
    <2>1. SUFFICES ASSUME NEW column PROVE Sum(column) = 0
        OBVIOUS
    <2>2. Snapshots \intersect DOMAIN rows = {}
        BY <1>3
    <2>3. DOMAIN [id \in Snapshots \intersect DOMAIN rows |-> rows[id][column]] = {}
        BY <2>2
    <2>4. QED
        BY <2>3, SumEmpty DEF Sum, SumFunction
<1>13. TotalsTally /\ UsersTally
    BY <1>10, <1>11, <1>12, FS_EmptySet DEF TotalsTally, UsersTally
<1>14. \A u \in Users : StatsTally(u)
    <2>1. SUFFICES ASSUME NEW u \in Users PROVE StatsTally(u)
        OBVIOUS
    <2>2. Committed(Stats(u)) = ZeroStats
        BY <1>3, KeysDiffer DEF Committed
    <2>3. /\ Committed(Stats(u)).credit = 0 /\ Committed(Stats(u)).debit = 0
          /\ Committed(Stats(u)).volume = 0
        BY <2>2 DEF ZeroStats
    <2>4. QED
        BY <1>10, <1>11, <2>3, FS_EmptySet DEF StatsTally, Kobo
<1>15. QED
    BY <1>6, <1>7, <1>8, <1>9, <1>13, <1>14 DEF HistoryInv, TallyInv

(* when nothing happens,                                                   *)
LEMMA HistoryStutters ==
    ASSUME HistoryInv, UNCHANGED vars
    PROVE  HistoryInv'
<1>1. /\ rows' = rows /\ mine' = mine /\ events' = events /\ noted' = noted /\ at' = at /\ step' = step
      /\ target' = target /\ memory' = memory /\ base' = base /\ found' = found /\ clobbered' = clobbered
    BY DEF vars, tables, open, local, history
<1>2. \A q : Current(q)' = Current(q) /\ Op(q)' = Op(q) /\ (Running(q)' <=> Running(q))
    BY <1>1, CallsStay DEF Current, Op, Running
<1>3. \A q, t : /\ EventSaved(q, t)' <=> EventSaved(q, t)
                /\ TotalSaved(q, t)' <=> TotalSaved(q, t)
                /\ StatsSaved(q, t)' <=> StatsSaved(q, t)
                /\ Noting(q)' <=> Noting(q)
    BY <1>1, SavedOfOthers DEF SavedAsBefore
<1>4. LastInv' /\ ApartInv' /\ FiniteInv'
    BY <1>1, CallsStay DEF HistoryInv, LastInv, ApartInv, FiniteInv
<1>5. EventsInv'
    BY <1>1, <1>3 DEF HistoryInv, EventsInv
<1>6. \A q \in Jobs : FoundOf(q)'
    <2>1. SUFFICES ASSUME NEW q \in Jobs, step[q] \in Saving
                   PROVE  \E row \in RowOf(Op(q)) : found[q] = row /\ memory[q] = Applied(q, row)'
        BY <1>1, <1>2 DEF FoundOf
    <2>2. PICK row \in RowOf(Op(q)) : found[q] = row /\ memory[q] = Applied(q, row)
        BY <2>1 DEF HistoryInv, FoundOf
    <2>3. Applied(q, row)' = Applied(q, row)
        BY <1>2, AppliedStays
    <2>4. QED
        BY <2>2, <2>3
<1>7. \A id : Committed(id)' = Committed(id)
    BY <1>1 DEF Committed
<1>8. Sound' <=> Sound
    BY <1>1 DEF Sound, Transactional
<1>9. SoundInv'
    <2>1. SUFFICES ASSUME NEW q \in Jobs, ReadOf(q), MineOf(q) PROVE ReadOf(q)' /\ MineOf(q)'
        BY <1>8 DEF HistoryInv, SoundInv
    <2>2. Seen(q, target[q])' = Seen(q, target[q])
        BY <1>1 DEF Seen
    <2>3. ReadOf(q)'
        BY <1>1, <1>2, <2>1, <2>2 DEF ReadOf, AtMost
    <2>4. Holds(q)' <=> Holds(q)
        BY <1>1, <1>7 DEF Holds, WithRecord, WithStats, Plus, Kobo
    <2>5. MineOf(q)'
        BY <1>1, <1>2, <1>7, <2>1, <2>4 DEF MineOf, Plus, Transactional
    <2>6. QED
        BY <2>3, <2>5
<1>10. TallyInv'
    <2>1. \A column : Sum(column)' = Sum(column)
        BY <1>1 DEF Sum
    <2>2. InTotals' = InTotals /\ SignUps' = SignUps /\ \A u, t : InStats(u, t)' = InStats(u, t)
        BY <1>1, <1>3 DEF InTotals, InStats, SignUps
    <2>3. Amounts(InTotals)' = Amounts(InTotals) /\ \A u, t : Amounts(InStats(u, t))' = Amounts(InStats(u, t))
        BY <2>2 DEF Amounts
    <2>4. (TotalsTally' <=> TotalsTally) /\ (UsersTally' <=> UsersTally)
        BY <2>1, <2>2, <2>3 DEF TotalsTally, UsersTally
    <2>5. \A u \in Users : StatsTally(u)' <=> StatsTally(u)
        BY <1>7, <2>2, <2>3 DEF StatsTally, Kobo
    <2>6. QED
        BY <1>8, <2>4, <2>5 DEF HistoryInv, TallyInv
<1>11. QED
    BY <1>4, <1>5, <1>6, <1>9, <1>10 DEF HistoryInv

(* and after every step.                                                   *)
LEMMA HistoryPreserves ==
    ASSUME Inv, Inv', HistoryInv, [Next]_vars
    PROVE  HistoryInv'
<1>1. CASE UNCHANGED vars
    BY <1>1, HistoryStutters
<1>2. CASE Next
    <2>1. PICK j \in Jobs : Step(j)
        BY <1>2 DEF Next, Step
    <2>2. LastInv' /\ EventsInv' /\ (\A q \in Jobs : FoundOf(q)') /\ ApartInv'
        BY <2>1, LastKept, EventsKept, FoundKept, ApartKept DEF HistoryInv
    <2>3. SoundInv' /\ FiniteInv' /\ TallyInv'
        BY <2>1, SoundKept, FiniteKept, TallyKept DEF HistoryInv
    <2>4. QED
        BY <2>2, <2>3 DEF HistoryInv
<1>3. QED
    BY <1>1, <1>2

(* In every state of every run: the events are the rows that jobs have     *)
(* committed, a job saves what its call makes of the row it found, open    *)
(* transactions write to rows of their own, and, as long as no save has    *)
(* gone over a change and no listener has been cut off, the rows add up to *)
(* what has been saved (AdminAnalyticsService, with the repository's       *)
(* save).                                                                  *)
THEOREM HistoryInvariance == Spec => [](Inv /\ HistoryInv)
<1>1. Inv /\ HistoryInv /\ Inv' /\ [Next]_vars => HistoryInv'
    BY HistoryPreserves
<1>2. QED
    BY <1>1, HistoryInit, Invariance, PTL DEF Spec

(* When every job has ended well, all of the events are in the totals and  *)
(* in the users' stats.                                                    *)
LEMMA AllSaved ==
    ASSUME Inv, LastInv, EventsInv, Undisturbed
    PROVE  /\ Sound
           /\ InTotals = events
           /\ \A u, t : InStats(u, t) = EventsOf(u, t)
<1>1. Sound /\ \A j \in Jobs : ~Running(j)
    BY DEF Undisturbed, Quiet, Sound
<1>2. ASSUME NEW j \in Jobs, NEW t \in Types(j)
      PROVE  (TotalSaved(j, t) <=> EventSaved(j, t)) /\ (StatsSaved(j, t) <=> EventSaved(j, t))
    <2>1. step[j] \in {"start", "done", "failed"}
        BY <1>1 DEF Running, Ended
    <2>2. TotalSaved(j, t) <=> EventSaved(j, t)
        BY <2>1 DEF TotalSaved
    <2>3. CASE Transactional(j)
        BY <2>2, <2>3 DEF StatsSaved, EventSaved
    <2>4. CASE ~Transactional(j)
        <3>1. /\ RecordCall(j, t) \in {1, 2} /\ StatsCall(j, t) \in {3, 4} /\ Len(Calls(j)) = 6
            BY <2>4, TransferPlaces
        <3>2. step[j] # "failed"
            BY <1>1, <2>4 DEF Sound
        <3>3. at[j] = 0 \/ at[j] = 6
            BY <2>1, <3>1, <3>2 DEF Inv, PlaceOf, LastInv
        <3>4. QED
            BY <2>2, <2>4, <3>1, <3>3 DEF StatsSaved, EventSaved
    <2>5. QED
        BY <2>3, <2>4
<1>3. \A e \in Possible : e.job \in Jobs /\ e.type \in Types(e.job)
    BY DEF Possible, Events
<1>4. events = {e \in Possible : EventSaved(e.job, e.type)}
    BY DEF EventsInv
<1>5. InTotals = events
    BY <1>2, <1>3, <1>4 DEF InTotals
<1>6. \A u, t : InStats(u, t) = EventsOf(u, t)
    BY <1>2, <1>3, <1>4 DEF InStats, EventsOf
<1>7. QED
    BY <1>1, <1>5, <1>6

(* Whatever happened in between: when all is quiet, and no save has gone   *)
(* over a change nor a listener been cut off, the rows of the totals add   *)
(* up to the events and the sign-ups, and each user's row to the user's    *)
(* events (AdminAnalyticsService.recordTransaction, recordNewUser,         *)
(* updateUserTransactionStats).                                            *)
THEOREM TotalsAddUp == Spec => []TotalsAreHistory
<1>1. Inv /\ HistoryInv => TotalsAreHistory
    <2>1. SUFFICES ASSUME Inv, HistoryInv, Undisturbed
                   PROVE  /\ Sum("count") = Cardinality(events)
                          /\ Sum("value") = Amounts(events)
                          /\ Sum("users") = Cardinality(SignUps)
                          /\ \A u \in Users :
                                 /\ Kobo(StatsOf(u).credit) = Amounts(EventsOf(u, "CREDIT"))
                                 /\ Kobo(StatsOf(u).debit) = Amounts(EventsOf(u, "DEBIT"))
        BY DEF TotalsAreHistory
    <2>2. /\ Sound /\ InTotals = events
          /\ \A u, t : InStats(u, t) = EventsOf(u, t)
        BY <2>1, AllSaved DEF HistoryInv
    <2>3. TotalsTally /\ UsersTally /\ \A u \in Users : StatsTally(u)
        BY <2>1, <2>2 DEF HistoryInv, TallyInv
    <2>4. \A u : StatsOf(u) = Committed(Stats(u))
        BY KeysDiffer DEF StatsOf, Committed
    <2>5. QED
        BY <2>2, <2>3, <2>4 DEF TotalsTally, UsersTally, StatsTally
<1>2. QED
    BY <1>1, HistoryInvariance, PTL

-----------------------------------------------------------------------------
(* Whatever is lost or undone, nothing is counted twice: there is a table  *)
(* of the totals as they would be had no save undone another, of which the *)
(* rows fall short, and it counts no more than what jobs have recorded.    *)

HadIn(f, id) == IF id \in DOMAIN f THEN f[id].count ELSE 0

(* A transaction's version of a row holds one transaction more, its own,   *)
(* once that is recorded; a row to be saved with a record, likewise.       *)
Own(j) == IF Transactional(j) /\ Running(j) /\ (step[j] = "event" \/ at[j] = 3) THEN 1 ELSE 0
Adds(j) == IF Op(j) = "record" THEN 1 ELSE 0

(* What a job has, for all to see, recorded: no more than it has reached.  *)
Kept(j) ==
    IF Transactional(j) THEN IF step[j] = "done" /\ Work[j].kind # "signup" THEN 1 ELSE 0
    ELSE IF Work[j].kind # "transfer" \/ at[j] = 0 THEN 0
    ELSE IF at[j] > 2 THEN 2
    ELSE IF step[j] \in {"find", "create", "select", "update"} THEN at[j] - 1 ELSE at[j]
KeptInAll == SumFunction([j \in Started |-> Kept(j)])

MineUnder(f, j) ==
    \A id \in Snapshots \intersect DOMAIN mine[j] : mine[j][id].count <= HadIn(f, id) + Own(j)
MemoryUnder(f, j) ==
    step[j] \in Saving /\ Op(j) # "stats" => memory[j].count <= HadIn(f, target[j]) + Adds(j)
RowsUnder(f) ==
    /\ f \in [Snapshots \intersect DOMAIN rows -> SnapshotRow]
    /\ \A id \in DOMAIN f : rows[id].count <= f[id].count

(* The table covers the rows.                                              *)
Covers(f) ==
    /\ RowsUnder(f)
    /\ \A j \in Jobs : MineUnder(f, j) /\ MemoryUnder(f, j)
    /\ SumOf(f, "count") <= KeptInAll

CoverInv == IsFiniteSet(Started) /\ \E f : Covers(f)

(* There is such a table with n more on one row.                           *)
Richer(g, f, id, n) ==
    /\ HadIn(g, id) = HadIn(f, id) + n
    /\ \A x \in Snapshots : x # id => HadIn(g, x) = HadIn(f, x)
    /\ SumOf(g, "count") = SumOf(f, "count") + n

LEMMA RicherIs ==
    ASSUME NEW D \in SUBSET Snapshots, IsFiniteSet(D), NEW f \in [D -> SnapshotRow],
           NEW id \in Snapshots, NEW n \in Nat
    PROVE  \E g \in [D \union {id} -> SnapshotRow] : Richer(g, f, id, n)
<1>1. PICK row : row = (IF id \in DOMAIN f THEN f[id] ELSE ZeroSnapshot)
    OBVIOUS
<1>2. row \in SnapshotRow /\ row.count = HadIn(f, id)
    BY <1>1 DEF HadIn, ZeroSnapshot, SnapshotRow
<1>3. PICK new : new = Plus(row, "count", n)
    OBVIOUS
<1>4. new \in SnapshotRow /\ new["count"] = row["count"] + n
    BY <1>2, <1>3, PlusIs
<1>6. /\ Put(f, id, new) \in [D \union {id} -> SnapshotRow]
      /\ \A x \in D : x # id => Put(f, id, new)[x] = f[x]
      /\ Put(f, id, new)[id] = new
    BY <1>4 DEF Put
<1>8. /\ HadIn(Put(f, id, new), id) = HadIn(f, id) + n
      /\ \A x \in Snapshots : x # id => HadIn(Put(f, id, new), x) = HadIn(f, x)
    <2>1. HadIn(Put(f, id, new), id) = HadIn(f, id) + n
        BY <1>2, <1>4, <1>6 DEF HadIn
    <2>2. \A x \in Snapshots : x # id => HadIn(Put(f, id, new), x) = HadIn(f, x)
        BY <1>6 DEF HadIn
    <2>3. QED
        BY <2>1, <2>2
<1>9. SumOf(Put(f, id, new), "count") = SumOf(f, "count") + n
    <2>1. IsTable(f)
        BY DEF IsTable
    <2>2. new["count"] = (IF id \in DOMAIN f THEN f[id]["count"] ELSE 0) + n
        BY <1>2, <1>4 DEF HadIn
    <2>3. "count" \in Columns
        BY DEF Columns
    <2>4. IsFiniteSet(DOMAIN f)
        OBVIOUS
    <2>5. QED
        BY <1>4, <2>1, <2>2, <2>3, <2>4, SumPut
<1>10. Richer(Put(f, id, new), f, id, n)
    BY <1>8, <1>9 DEF Richer
<1>11. QED
    BY <1>6, <1>10

(* A step never lessens what a job has recorded; a listener's save of a    *)
(* record and the commit of one add to it.                                 *)
LEMMA KeptGrows ==
    ASSUME Inv, NEW j \in Jobs, Step(j)
    PROVE  /\ Kept(j) \in Nat /\ Kept(j)' \in Nat /\ Kept(j) <= Kept(j)'
           /\ UpdateRow(j) /\ Op(j) = "record" /\ ~Transactional(j) => Kept(j) + 1 <= Kept(j)'
           /\ Commit(j) /\ Own(j) = 1 => Kept(j) + 1 <= Kept(j)'
           /\ step[j] = "start" => Kept(j) = 0
<1>1. /\ PlaceOf(j) /\ at[j] \in 0..Len(Calls(j)) /\ Len(Calls(j)) \in {1, 3, 6}
      /\ Transactional(j)' <=> Transactional(j)
    BY CallsAre DEF Inv, TypeOK, Transactional
<1>2. step[j] \notin Ended
    BY OthersStill
<1>3. CASE Transactional(j)
    <2>1. /\ Kept(j) = 0 /\ Kept(j)' \in {0, 1}
          /\ step'[j] = "done" /\ Work[j].kind # "signup" => Kept(j)' = 1
        BY <1>1, <1>2, <1>3 DEF Kept, Ended
    <2>2. ASSUME Commit(j), Own(j) = 1 PROVE step'[j] = "done" /\ Work[j].kind # "signup"
        <3>1. at[j] = 3 /\ step'[j] = "done"
            BY <2>2, GotoGoes DEF Commit, Own
        <3>2. QED
            BY <1>1, <3>1, CallsAre
    <2>3. QED
        BY <1>3, <2>1, <2>2
<1>4. CASE ~Transactional(j) /\ Work[j].kind # "transfer"
    <2>1. Kept(j) = 0 /\ Kept(j)' = 0
        BY <1>1, <1>4 DEF Kept
    <2>2. ~(UpdateRow(j) /\ Op(j) = "record")
        <3>1. Work[j].kind = "report"
            BY <1>4, CallsAre DEF Transactional
        <3>2. UpdateRow(j) => at[j] = 1
            BY <1>1, <3>1, CallsAre DEF PlaceOf, UpdateRow
        <3>3. QED
            BY <3>1, <3>2, CallsAre DEF Op, Current
    <2>3. ~(Commit(j) /\ Own(j) = 1)
        BY <1>4 DEF Own
    <2>4. QED
        BY <2>1, <2>2, <2>3
<1>5. CASE ~Transactional(j) /\ Work[j].kind = "transfer"
    <2>1. Len(Calls(j)) = 6 /\ at[j] \in 0..6
        BY <1>1, <1>5, CallsAre
    <2>2. step[j] # "start" => (Op(j) = "record" <=> at[j] \in {1, 2})
        BY <1>1, <1>5, <2>1, CallsAre DEF PlaceOf, Op, Current
    <2>3. ~Commit(j)
        BY <1>1, <1>5 DEF Commit, PlaceOf
    <2>4. at[j] \in {1, 2} => step[j] \in {"start", "find", "create", "select", "update", "event"}
        <3>1. step[j] \in {"start", "post", "count", "find", "create", "select", "update", "insert",
                           "event", "commit"}
            BY <1>2 DEF Inv, TypeOK
        <3>2. step[j] \in Saving /\ Op(j) # "stats" => step[j] # "insert"
            BY DEF Inv, MemoryOf
        <3>3. QED
            BY <1>1, <1>5, <2>2, <3>1, <3>2 DEF PlaceOf, Saving
    <2>5. step[j] = "start" => at[j] = 0
        BY <1>1 DEF PlaceOf
    <2>6. /\ Kept(j) = (IF at[j] = 0 THEN 0 ELSE IF at[j] > 2 THEN 2
                        ELSE IF step[j] = "event" THEN at[j] ELSE at[j] - 1)
          /\ Kept(j)' = (IF at'[j] = 0 THEN 0 ELSE IF at'[j] > 2 THEN 2
                         ELSE IF step'[j] \in {"find", "create", "select", "update"}
                              THEN at'[j] - 1 ELSE at'[j])
        <3>1. at[j] \in 1..2 => (step[j] = "event" <=> step[j] \notin {"find", "create", "select", "update"})
            BY <2>4, <2>5
        <3>2. QED
            BY <1>1, <1>5, <2>1, <3>1 DEF Kept
    <2>7. CASE NextCall(j)
        <3>1. /\ at'[j] = (IF at[j] < 6 THEN at[j] + 1 ELSE at[j])
              /\ ~UpdateRow(j) \/ Op(j) # "record"
            <4>1. UpdateRow(j) /\ Op(j) = "record" => Goto(j, "event")
                BY DEF UpdateRow, Saved, Op
            <4>2. Goto(j, "event") => step'[j] = "event"
                BY GotoGoes
            <4>3. step'[j] # "event"
                BY <2>7, NextGoes
            <4>4. QED
                BY <2>1, <2>7, <4>1, <4>2, <4>3, NextGoes
        <3>2. QED
            BY <2>1, <2>3, <2>5, <2>6, <3>1
    <2>8. CASE \E place \in {"find", "create", "select", "update", "insert", "event",
                             "done", "failed"} : Goto(j, place)
        <3>1. at'[j] = at[j]
            BY <2>8, GotoGoes
        <3>2. step[j] = "event" /\ at[j] \in {1, 2} => step'[j] \notin {"find", "create", "select", "update"}
            <4>1. SUFFICES ASSUME step[j] = "event" PROVE step'[j] \notin {"find", "create", "select", "update"}
                OBVIOUS
            <4>2. SaveEvent(j) \/ Interrupt(j)
                BY <4>1 DEF Step, Begin, Post, CountTransactions, FindSnapshot, CreateSnapshot, FindStats,
                            SelectRow, UpdateRow, InsertRow, Commit, DuplicateStats
            <4>3. CASE SaveEvent(j)
                <5>1. NextCall(j)
                    BY <4>3 DEF SaveEvent
                <5>2. at[j] < Len(Calls(j)) => at'[j] = at[j] + 1
                    BY <5>1, NextGoes
                <5>3. ~(at[j] < Len(Calls(j)))
                    BY <2>1, <3>1, <5>2
                <5>4. QED
                    BY <5>1, <5>3, NextGoes
            <4>4. CASE Interrupt(j)
                BY <4>4, GotoGoes DEF Interrupt, RollBack
            <4>5. QED
                BY <4>2, <4>3, <4>4
        <3>3. ASSUME UpdateRow(j), Op(j) = "record" PROVE step'[j] = "event" /\ at[j] \in {1, 2}
            <4>1. step[j] = "update" /\ Goto(j, "event")
                BY <3>3 DEF UpdateRow, Saved, Op
            <4>2. QED
                BY <2>2, <3>3, <4>1, GotoGoes
        <3>4. step[j] = "event" => ~UpdateRow(j)
            BY DEF UpdateRow
        <3>5. QED
            BY <2>1, <2>3, <2>5, <2>6, <3>1, <3>2, <3>3, <3>4
    <2>9. QED
        BY <2>7, <2>8, GoesOnward DEF Step
<1>6. QED
    BY <1>3, <1>4, <1>5

(* A transaction's own record stays its own.                               *)
LEMMA OwnStays ==
    ASSUME Inv, NEW j \in Jobs, Step(j)
    PROVE  /\ Own(j) \in {0, 1} /\ Own(j)' \in {0, 1}
           /\ ~Commit(j) /\ ~RollBack(j) => Own(j) <= Own(j)'
           /\ step[j] \in {"find", "create", "select", "update"} /\ Op(j) # "stats" => Own(j) = 0
<1>1. PlaceOf(j) /\ (Transactional(j)' <=> Transactional(j))
    BY DEF Inv, Transactional
<1>2. Own(j) \in {0, 1} /\ Own(j)' \in {0, 1}
    BY DEF Own
<1>3. ASSUME Own(j) = 1
      PROVE  /\ Transactional(j) /\ step[j] # "start" /\ step[j] \notin Ended
             /\ (step[j] = "event" /\ at[j] = 2) \/ (Op(j) = "stats" /\ at[j] = 3 /\ Len(Calls(j)) = 3)
    <2>1. Transactional(j) /\ step[j] # "start" /\ step[j] \notin Ended
        BY <1>3 DEF Own, Running
    <2>2. step[j] = "event" \/ at[j] = 3
        BY <1>3 DEF Own
    <2>3. step[j] = "event" => Op(j) = "record"
        BY <1>1 DEF PlaceOf
    <2>4. QED
        BY <2>1, <2>2, <2>3, Places
<1>4. ASSUME Own(j) = 1, ~Commit(j), ~RollBack(j) PROVE Own(j)' = 1
    <2>1. CASE NextCall(j)
        <3>1. CASE step[j] = "event" /\ at[j] = 2
            <4>1. Len(Calls(j)) = 3
                BY <1>1, <1>3, <1>4, <3>1, Places DEF PlaceOf
            <4>2. at[j] < Len(Calls(j))
                BY <3>1, <4>1
            <4>3. at'[j] = 3 /\ step'[j] \in {"post", "count", "find"}
                BY <2>1, <3>1, <4>2, NextGoes
            <4>4. QED
                BY <1>1, <1>3, <1>4, <4>3 DEF Own, Running, Ended
        <3>2. CASE at[j] = 3 /\ Len(Calls(j)) = 3
            <4>1. ~(at[j] < Len(Calls(j)))
                BY <3>2
            <4>2. at'[j] = 3 /\ step'[j] = "commit"
                BY <1>3, <1>4, <2>1, <3>2, <4>1, NextGoes
            <4>3. QED
                BY <1>1, <1>3, <1>4, <4>2 DEF Own, Running, Ended
        <3>3. QED
            BY <1>3, <1>4, <3>1, <3>2
    <2>2. CASE \E place \in {"find", "create", "select", "update", "insert", "event"} : Goto(j, place)
        <3>1. step[j] # "event" \/ step'[j] = "event"
            <4>1. step[j] = "event" => SaveEvent(j) \/ RollBack(j)
                BY DEF Step, Begin, Post, CountTransactions, FindSnapshot, CreateSnapshot, FindStats,
                       SelectRow, UpdateRow, InsertRow, Commit, DuplicateStats, Interrupt
            <4>2. SaveEvent(j) => NextCall(j)
                BY DEF SaveEvent
            <4>3. CASE NextCall(j)
                <5>1. step'[j] \in {"post", "count", "find", "commit", "done"}
                    BY <4>3, NextCallGoes
                <5>2. step[j] = "event" => at[j] = 2 /\ Len(Calls(j)) = 3
                    BY <1>1, <1>3, <1>4, Places DEF PlaceOf
                <5>3. step[j] = "event" => at'[j] = 3
                    <6>1. SUFFICES ASSUME step[j] = "event" PROVE at'[j] = 3
                        OBVIOUS
                    <6>2. at[j] = 2 /\ Len(Calls(j)) = 3
                        BY <5>2, <6>1
                    <6>3. at[j] < Len(Calls(j))
                        BY <6>2
                    <6>4. QED
                        BY <4>3, <6>2, <6>3, NextGoes
                <5>4. at'[j] = at[j]
                    BY <2>2, GotoGoes
                <5>5. QED
                    BY <5>2, <5>3, <5>4
            <4>4. QED
                BY <1>4, <4>1, <4>2, <4>3
        <3>2. at'[j] = at[j] /\ step'[j] \in {"find", "create", "select", "update", "insert", "event"}
            BY <2>2, GotoGoes
        <3>3. QED
            BY <1>1, <1>3, <1>4, <3>1, <3>2 DEF Own, Running, Ended
    <2>3. NextCall(j) \/ \E place \in {"find", "create", "select", "update", "insert", "event"} : Goto(j, place)
        <3>1. CASE Begin(j) \/ Post(j) \/ CountTransactions(j) \/ SaveEvent(j)
            BY <3>1 DEF Begin, Post, CountTransactions, SaveEvent
        <3>2. CASE FindSnapshot(j) \/ CreateSnapshot(j)
            BY <3>2 DEF FindSnapshot, CreateSnapshot, GotSnapshot
        <3>3. CASE FindStats(j) \/ SelectRow(j)
            BY <3>3 DEF FindStats, SelectRow
        <3>4. CASE UpdateRow(j) \/ InsertRow(j)
            BY <3>4 DEF UpdateRow, InsertRow, Saved
        <3>5. ~DuplicateStats(j) /\ ~Interrupt(j)
            BY <1>4 DEF DuplicateStats, Interrupt
        <3>6. QED
            BY <1>4, <3>1, <3>2, <3>3, <3>4, <3>5 DEF Step
    <2>4. QED
        BY <2>1, <2>2, <2>3
<1>5. step[j] \in {"find", "create", "select", "update"} /\ Op(j) # "stats" => Own(j) = 0
    BY <1>2, <1>3
<1>6. QED
    BY <1>2, <1>4, <1>5

(* All that is recorded grows by what the job that takes a step adds.      *)
LEMMA KeptAdds ==
    ASSUME Inv, IsFiniteSet(Started), NEW j \in Jobs, Step(j)
    PROVE  /\ IsFiniteSet(Started)'
           /\ KeptInAll \in Int
           /\ KeptInAll' = KeptInAll + (Kept(j)' - Kept(j))
<1>1. \A q \in Jobs \ {j} : at'[q] = at[q] /\ step'[q] = step[q]
    BY OthersStill DEF Still
<1>2. step'[j] # "start"
    BY GoesOnward, NextGoes, GotoGoes DEF Step
<1>3. PICK R : R = Started \ {j}
    OBVIOUS
<1>4. /\ Started' = R \union {j} /\ j \notin R
      /\ Started = IF step[j] = "start" THEN R ELSE R \union {j}
      /\ IsFiniteSet(R) /\ IsFiniteSet(R \union {j}) /\ R \subseteq Jobs
    <2>1. Started' = R \union {j}
        BY <1>1, <1>2, <1>3 DEF Started
    <2>2. Started = IF step[j] = "start" THEN R ELSE R \union {j}
        BY <1>3 DEF Started
    <2>3. IsFiniteSet(R) /\ IsFiniteSet(R \union {j})
        BY <1>3, FS_Subset, FS_AddElement
    <2>4. QED
        BY <1>3, <2>1, <2>2, <2>3 DEF Started
<1>5. PICK w : w = [q \in Started |-> Kept(q)]
    OBVIOUS
<1>6. PICK v : v = [q \in R \union {j} |-> Kept(q)']
    OBVIOUS
<1>7. \A q \in Jobs : Kept(q) \in Int
    <2>1. SUFFICES ASSUME NEW q \in Jobs PROVE Kept(q) \in Int
        OBVIOUS
    <2>2. at[q] \in 0..Len(Calls(q)) /\ Len(Calls(q)) \in {1, 3, 6}
        BY CallsAre DEF Inv, TypeOK
    <2>3. at[q] \in Int
        BY <2>2
    <2>4. QED
        BY <2>3 DEF Kept
<1>8. Kept(j) \in Nat /\ Kept(j)' \in Nat /\ (step[j] = "start" => Kept(j) = 0)
    BY KeptGrows
<1>9. \A q \in R : Kept(q)' = Kept(q)
    BY <1>1, <1>3, <1>4 DEF Kept, Transactional
<1>10. /\ \A q \in R : w[q] = v[q] /\ w[q] \in Int
       /\ v[j] = Kept(j)'
       /\ \A q \in R \union {j} : v[q] \in Int
    BY <1>4, <1>5, <1>6, <1>7, <1>8, <1>9
<1>11. PICK rest : rest = SumFunctionOnSet(w, R)
    OBVIOUS
<1>12. rest \in Int /\ SumFunctionOnSet(v, R) = rest
    <2>1. IsFiniteSet(R) /\ (\A q \in R : w[q] \in Int) /\ (\A q \in R : w[q] = v[q])
        BY <1>4, <1>10
    <2>2. SumFunctionOnSet(w, R) \in Int
        BY <2>1, SumInt
    <2>3. SumFunctionOnSet(w, R) = SumFunctionOnSet(v, R)
        BY <2>1, SumAgrees
    <2>4. QED
        BY <1>11, <2>2, <2>3
<1>13. SumFunctionOnSet(v, R \union {j}) = rest + Kept(j)'
    <2>1. IsFiniteSet(R) /\ j \notin R /\ \A q \in R \union {j} : v[q] \in Int
        BY <1>4, <1>10
    <2>2. SumFunctionOnSet(v, R \union {j}) = SumFunctionOnSet(v, R) + v[j]
        BY <2>1, SumAdd
    <2>3. QED
        BY <1>10, <1>12, <2>2
<1>14. SumFunctionOnSet(w, Started) = rest + Kept(j)
    <2>1. CASE step[j] = "start"
        BY <1>4, <1>8, <1>11, <1>12, <2>1
    <2>2. CASE step[j] # "start"
        <3>1. Started = R \union {j} /\ w[j] = Kept(j) /\ \A q \in R \union {j} : w[q] \in Int
            BY <1>4, <1>5, <1>8, <1>10, <2>2
        <3>2. SumFunctionOnSet(w, R \union {j}) = SumFunctionOnSet(w, R) + w[j]
            BY <1>4, <3>1, SumAdd
        <3>3. QED
            BY <1>11, <3>1, <3>2
    <2>3. QED
        BY <2>1, <2>2
<1>15. KeptInAll = SumFunctionOnSet(w, Started)
    BY <1>5 DEF KeptInAll, SumFunction
<1>16. KeptInAll' = SumFunctionOnSet(v, R \union {j})
    BY <1>4, <1>6 DEF KeptInAll, SumFunction
<1>17. QED
    BY <1>4, <1>8, <1>12, <1>13, <1>14, <1>15, <1>16

(* The sum of the counts in a table is a number.                           *)
LEMMA CountsInt ==
    ASSUME NEW D \in SUBSET Snapshots, IsFiniteSet(D), NEW h \in [D -> SnapshotRow]
    PROVE  SumOf(h, "count") \in Int
<1>1. \A x \in D : [id \in D |-> h[id]["count"]][x] \in Int
    BY DEF SnapshotRow
<1>2. Snapshots \intersect DOMAIN h = D
    OBVIOUS
<1>3. SumOf(h, "count") = SumFunctionOnSet([id \in D |-> h[id]["count"]], D)
    BY <1>2 DEF SumOf, SumFunction
<1>4. QED
    BY <1>1, <1>3, SumInt

(* A table still covers the rows when only its own job's rows and memory   *)
(* are to be looked at again.                                              *)
LEMMA CoversStill ==
    ASSUME Inv, Inv', FiniteInv, NEW j \in Jobs, Step(j), NEW f, Covers(f), IsFiniteSet(Started),
           NEW g, RowsUnder(g)', \A id \in Snapshots : HadIn(f, id) <= HadIn(g, id),
           MineUnder(g, j)', MemoryUnder(g, j)',
           SumOf(g, "count") <= SumOf(f, "count") + (Kept(j)' - Kept(j))
    PROVE  Covers(g)'
<1>1. ASSUME NEW q \in Jobs \ {j} PROVE MineUnder(g, q)' /\ MemoryUnder(g, q)'
    <2>1. Still(q)
        BY OthersStill
    <2>2. /\ mine'[q] = mine[q] /\ memory'[q] = memory[q] /\ target'[q] = target[q]
          /\ Own(q)' = Own(q) /\ Adds(q)' = Adds(q) /\ Op(q)' = Op(q) /\ step'[q] = step[q]
        BY <2>1, CallsStay DEF Still, Own, Adds, Transactional, Running, Current, Op
    <2>3. MineUnder(f, q) /\ MemoryUnder(f, q) /\ MemoryOf(q) /\ IsTable(mine[q])
        BY DEF Covers, Inv, TypeOK
    <2>4. f \in [Snapshots \intersect DOMAIN rows -> SnapshotRow] /\ g \in [Snapshots \intersect DOMAIN rows' -> SnapshotRow]
        BY DEF Covers, RowsUnder
    <2>5. \A id \in Snapshots : HadIn(f, id) \in Int /\ HadIn(g, id) \in Int /\ HadIn(f, id) <= HadIn(g, id)
        BY <2>4 DEF HadIn, SnapshotRow
    <2>6. Own(q) \in Int /\ Adds(q) \in Int
        BY DEF Own, Adds
    <2>7. MineUnder(g, q)'
        <3>1. SUFFICES ASSUME NEW id \in Snapshots \intersect DOMAIN mine[q]
                       PROVE  mine[q][id].count <= HadIn(g, id) + Own(q)
            BY <2>2 DEF MineUnder, HadIn
        <3>2. mine[q][id].count \in Int /\ mine[q][id].count <= HadIn(f, id) + Own(q)
            BY <2>3, <3>1, KeysDiffer DEF MineUnder, IsTable, SnapshotRow
        <3>3. QED
            BY <2>5, <2>6, <3>2
    <2>8. MemoryUnder(g, q)'
        <3>1. SUFFICES ASSUME step[q] \in Saving, Op(q) # "stats"
                       PROVE  memory[q].count <= HadIn(g, target[q]) + Adds(q)
            BY <2>2 DEF MemoryUnder, HadIn
        <3>2. memory[q] \in SnapshotRow /\ target[q] \in Snapshots
            BY <2>3, <3>1 DEF MemoryOf, RowOf
        <3>3. memory[q].count \in Int /\ memory[q].count <= HadIn(f, target[q]) + Adds(q)
            BY <2>3, <3>1, <3>2 DEF MemoryUnder, SnapshotRow
        <3>4. QED
            BY <2>5, <2>6, <3>2, <3>3
    <2>9. QED
        BY <2>7, <2>8
<1>2. SumOf(g, "count") <= KeptInAll'
    <2>1. KeptInAll' = KeptInAll + (Kept(j)' - Kept(j)) /\ KeptInAll \in Int
        BY KeptAdds
    <2>2. SumOf(f, "count") <= KeptInAll
        BY DEF Covers
    <2>3. Kept(j) \in Int /\ Kept(j)' \in Int
        BY KeptGrows
    <2>4. SumOf(f, "count") \in Int /\ SumOf(g, "count") \in Int
        <3>2. IsFiniteSet(Snapshots \intersect DOMAIN rows) /\ IsFiniteSet(Snapshots \intersect DOMAIN rows')
            BY FiniteKept, FS_Intersection DEF FiniteInv
        <3>3. /\ f \in [Snapshots \intersect DOMAIN rows -> SnapshotRow]
              /\ g \in [Snapshots \intersect DOMAIN rows' -> SnapshotRow]
            BY DEF Covers, RowsUnder
        <3>4. QED
            BY <3>2, <3>3, CountsInt
    <2>5. QED
        BY <2>1, <2>2, <2>3, <2>4
<1>3. (SumOf(g, "count") <= KeptInAll)'
    BY <1>2 DEF SumOf
<1>4. QED
    BY <1>1, <1>3 DEF Covers

(* A row that a job sees counts no more than the table, and its own.       *)
LEMMA SeenUnder ==
    ASSUME Inv, NEW f, Covers(f), NEW j \in Jobs, NEW id \in Snapshots, Sees(j, id)
    PROVE  /\ HadIn(f, id) \in Nat /\ Seen(j, id) \in SnapshotRow
           /\ Seen(j, id).count <= HadIn(f, id) + Own(j)
<1>1. Seen(j, id) \in SnapshotRow
    <2>1. RowIdOf("look", id)
        BY DEF RowIdOf
    <2>2. QED
        BY <2>1, SeenTyped DEF RowOf
<1>2. /\ f \in [Snapshots \intersect DOMAIN rows -> SnapshotRow]
      /\ \A x \in DOMAIN f : rows[x].count <= f[x].count
      /\ MineUnder(f, j)
    BY DEF Covers, RowsUnder
<1>3. HadIn(f, id) \in Nat
    BY <1>2 DEF HadIn, SnapshotRow
<1>4. Own(j) \in {0, 1}
    BY DEF Own
<1>5. CASE id \in DOMAIN mine[j]
    BY <1>1, <1>2, <1>3, <1>5 DEF MineUnder, Seen
<1>6. CASE id \notin DOMAIN mine[j]
    <2>1. Seen(j, id) = rows[id] /\ id \in DOMAIN f
        BY <1>2, <1>6 DEF Seen, Sees
    <2>2. rows[id].count <= HadIn(f, id) /\ rows[id].count \in Nat
        BY <1>1, <1>2, <2>1 DEF HadIn, SnapshotRow
    <2>3. QED
        BY <1>1, <1>3, <1>4, <2>1, <2>2
<1>7. QED
    BY <1>1, <1>3, <1>5, <1>6

(* What a call makes of a row of totals counts a record, and nothing else. *)
LEMMA AppliedCounts ==
    ASSUME Inv, NEW j \in Jobs, at[j] \in 1..Len(Calls(j)), Op(j) \notin {"post", "stats", "look"},
           NEW row \in SnapshotRow
    PROVE  Applied(j, row) \in SnapshotRow /\ Applied(j, row).count = row.count + Adds(j)
<1>1. Op(j) \in {"record", "join", "mark"}
    BY CurrentIs
<1>2. CASE Op(j) = "record"
    <2>1. Applied(j, row) = WithRecord(j, row)
        BY <1>2, AppliedIs
    <2>2. QED
        BY <1>2, <2>1, WithRecordIs DEF Adds
<1>3. CASE Op(j) \in {"join", "mark"}
    <2>1. PICK column \in {"users", "active"} : Applied(j, row) = Plus(row, column, 1)
        BY <1>3, AppliedIs
    <2>2. /\ Plus(row, column, 1) \in SnapshotRow
          /\ Plus(row, column, 1)["count"] = row["count"]
        BY PlusIs
    <2>3. row.count \in Nat
        BY DEF SnapshotRow
    <2>4. QED
        BY <1>3, <2>1, <2>2, <2>3 DEF Adds
<1>4. QED
    BY <1>1, <1>2, <1>3

(* A row of totals that a job has found and goes to save.                  *)
LEMMA FindUnder ==
    ASSUME Inv, NEW f, Covers(f), NEW j \in Jobs, FindSnapshot(j) \/ CreateSnapshot(j) \/ SelectRow(j)
    PROVE  MemoryUnder(f, j)'
<1>1. PlaceOf(j) /\ MemoryOf(j) /\ LocksOf(j) /\ DOMAIN memory = Jobs /\ DOMAIN target = Jobs
    BY DEF Inv, TypeOK
<1>2. SUFFICES ASSUME step'[j] \in Saving, Op(j)' # "stats"
               PROVE  memory'[j].count <= HadIn(f, target'[j]) + Adds(j)'
    BY DEF MemoryUnder, HadIn
<1>3. \A place : Goto(j, place) => Op(j)' = Op(j) /\ Adds(j)' = Adds(j) /\ step'[j] = place
    BY GotoGoes DEF Adds
<1>4. ~NextCall(j)
    BY <1>2, NextCallGoes DEF Saving
<1>5. at[j] \in 1..Len(Calls(j))
    BY <1>1 DEF FindSnapshot, CreateSnapshot, SelectRow, PlaceOf
<1>6. ASSUME NEW id \in Snapshots, NEW row \in SnapshotRow, Goto(j, "select"), Op(j) \notin {"post", "look"},
             target'[j] = id, memory'[j] = Applied(j, row),
             HadIn(f, id) \in Nat, row.count <= HadIn(f, id)
      PROVE  memory'[j].count <= HadIn(f, target'[j]) + Adds(j)'
    <2>1. Op(j) # "stats" /\ Adds(j)' = Adds(j)
        BY <1>2, <1>3, <1>6
    <2>2. Applied(j, row).count = row.count + Adds(j)
        BY <1>5, <1>6, <2>1, AppliedCounts
    <2>3. row.count \in Nat /\ Adds(j) \in Nat
        BY <1>6 DEF SnapshotRow, Adds
    <2>4. QED
        BY <1>6, <2>1, <2>2, <2>3
<1>7. CASE FindSnapshot(j)
    <2>1. ~Goto(j, "create")
        BY <1>2, <1>3 DEF Saving
    <2>2. PICK id \in Snapshots :
              /\ Sees(j, id)
              /\ target' = [target EXCEPT ![j] = id]
              /\ memory' = [memory EXCEPT ![j] = Applied(j, Seen(j, id))]
              /\ GotSnapshot(j)
        BY <1>7, <2>1 DEF FindSnapshot
    <2>3. Goto(j, "select") /\ Op(j) # "look"
        BY <1>4, <2>2 DEF GotSnapshot, Op
    <2>4. Op(j) # "post" /\ step[j] = "find" /\ Op(j) # "stats"
        BY <1>1, <1>7 DEF FindSnapshot, PlaceOf, Op
    <2>5. Own(j) = 0
        <3>1. at[j] = 3 /\ Transactional(j) => Op(j) = "stats"
            BY <2>4, Places
        <3>2. QED
            BY <2>4, <3>1 DEF Own
    <2>6. PICK row : row = Seen(j, id)
        OBVIOUS
    <2>7. row \in SnapshotRow /\ HadIn(f, id) \in Nat /\ row.count <= HadIn(f, id)
        <3>1. HadIn(f, id) \in Nat /\ row \in SnapshotRow /\ row.count <= HadIn(f, id) + Own(j)
            BY <2>2, <2>6, SeenUnder
        <3>2. QED
            BY <2>5, <3>1
    <2>8. target'[j] = id /\ memory'[j] = Applied(j, row)
        BY <1>1, <2>2, <2>6
    <2>9. QED
        BY <1>6, <2>2, <2>3, <2>4, <2>7, <2>8
<1>8. CASE CreateSnapshot(j)
    <2>1. /\ target' = [target EXCEPT ![j] = Snapshot(j)] /\ GotSnapshot(j)
          /\ memory' = [memory EXCEPT ![j] = Applied(j, ZeroSnapshot)] /\ step[j] = "create"
        BY <1>8 DEF CreateSnapshot
    <2>2. Goto(j, "select") /\ Op(j) # "look" /\ Op(j) # "post"
        BY <1>1, <1>4, <2>1 DEF GotSnapshot, Op, PlaceOf
    <2>3. Snapshot(j) \in Snapshots /\ ZeroSnapshot \in SnapshotRow /\ ZeroSnapshot.count = 0
        BY DEF Snapshots, SnapshotRow, ZeroSnapshot
    <2>4. HadIn(f, Snapshot(j)) \in Nat
        BY <2>3 DEF Covers, RowsUnder, HadIn, SnapshotRow
    <2>5. ZeroSnapshot.count <= HadIn(f, Snapshot(j))
        BY <2>3, <2>4
    <2>6. target'[j] = Snapshot(j) /\ memory'[j] = Applied(j, ZeroSnapshot)
        BY <1>1, <2>1
    <2>7. QED
        BY <1>6, <2>2, <2>3, <2>4, <2>5, <2>6
<1>9. CASE SelectRow(j)
    <2>1. /\ memory' = memory /\ target' = target /\ step[j] = "select"
          /\ Goto(j, "update") \/ Goto(j, "insert")
        BY <1>9 DEF SelectRow
    <2>2. Op(j)' = Op(j) /\ Adds(j)' = Adds(j)
        BY <1>3, <2>1
    <2>3. MemoryUnder(f, j)
        BY DEF Covers
    <2>4. QED
        BY <1>2, <2>1, <2>2, <2>3 DEF MemoryUnder, Saving
<1>10. QED
    BY <1>7, <1>8, <1>9

(* A save of totals counts its own record, and what there was.             *)
LEMMA SaveUnder ==
    ASSUME Inv, NEW f, Covers(f), NEW j \in Jobs, UpdateRow(j), Op(j) # "stats"
    PROVE  /\ target[j] \in Snapshots /\ HadIn(f, target[j]) \in Nat /\ ~WrittenByOther(j, target[j])
           /\ \E new \in SnapshotRow :
                  Write(j, target[j], new) /\ new.count <= HadIn(f, target[j]) + Adds(j)
<1>1. PlaceOf(j) /\ MemoryOf(j)
    BY DEF Inv
<1>2. /\ step[j] = "update" /\ Current(j).op # "stats"
      /\ ~WrittenByOther(j, target[j])
      /\ Write(j, target[j], Merged(j, Seen(j, target[j])))
    BY DEF UpdateRow, Op
<1>3. /\ memory[j] \in SnapshotRow /\ base[j] \in SnapshotRow
      /\ target[j] \in Snapshots /\ Sees(j, target[j])
    BY <1>1, <1>2 DEF MemoryOf, Saving, RowOf
<1>4. PICK row : row = Seen(j, target[j])
    OBVIOUS
<1>5. HadIn(f, target[j]) \in Nat /\ row \in SnapshotRow /\ row.count <= HadIn(f, target[j]) + Own(j)
    BY <1>3, <1>4, SeenUnder
<1>6. Own(j) = 0
    <2>1. at[j] = 3 /\ Transactional(j) => Op(j) = "stats"
        BY <1>2, Places
    <2>2. QED
        BY <1>2, <2>1 DEF Own
<1>7. memory[j].count <= HadIn(f, target[j]) + Adds(j)
    BY <1>2 DEF Covers, MemoryUnder, Saving
<1>8. Merged(j, row) \in SnapshotRow
    BY <1>3, <1>5, MergedTyped DEF RowOf
<1>9. Merged(j, row).count \in {memory[j].count, row.count}
    BY <1>5 DEF Merged, SnapshotRow
<1>10. Adds(j) \in {0, 1} /\ row.count \in Nat /\ memory[j].count \in Nat
    BY <1>3, <1>5 DEF Adds, SnapshotRow
<1>11. Merged(j, row).count <= HadIn(f, target[j]) + Adds(j)
    BY <1>5, <1>6, <1>7, <1>9, <1>10
<1>12. QED
    BY <1>2, <1>3, <1>4, <1>5, <1>8, <1>11

(* No save, and none to come, of totals.                                   *)
LEMMA NoTotals ==
    ASSUME Inv, NEW j \in Jobs, Step(j), ~CreateSnapshot(j), ~FindSnapshot(j), ~SelectRow(j)
    PROVE  \A f : MemoryUnder(f, j)'
<1> SUFFICES ASSUME NEW f, step'[j] \in Saving PROVE Op(j)' = "stats"
    BY DEF MemoryUnder
<1>1. ~NextCall(j)
    BY NextCallGoes DEF Saving
<1>2. \A place : Goto(j, place) => step'[j] = place /\ Op(j)' = Op(j)
    BY GotoGoes
<1>3. FindStats(j) => Op(j) = "stats" /\ Goto(j, "select")
    BY DEF FindStats, Op
<1>4. ~Begin(j) /\ ~Post(j) /\ ~SaveEvent(j)
    BY <1>1 DEF Begin, Post, SaveEvent
<1>5. ~CountTransactions(j)
    BY <1>1, <1>2 DEF CountTransactions, Saving
<1>6. ~UpdateRow(j) /\ ~InsertRow(j)
    BY <1>1, <1>2 DEF UpdateRow, InsertRow, Saved, Saving
<1>7. ~Commit(j) /\ ~DuplicateStats(j) /\ ~Interrupt(j)
    BY <1>2 DEF Commit, DuplicateStats, Interrupt, RollBack, Saving
<1>8. FindStats(j)
    BY <1>4, <1>5, <1>6, <1>7 DEF Step
<1>9. QED
    BY <1>2, <1>3, <1>8

(* While no row is saved that others see, the table stands.                *)
LEMMA StillCovers ==
    ASSUME Inv, Inv', FiniteInv, NEW j \in Jobs, Step(j), NEW f, Covers(f), IsFiniteSet(Started),
           Snapshots \intersect DOMAIN rows' = Snapshots \intersect DOMAIN rows,
           \A id \in Snapshots \intersect DOMAIN rows : rows'[id] = rows[id],
           MineUnder(f, j)'
    PROVE  Covers(f)'
<1>1. RowsUnder(f)' /\ \A id \in Snapshots : HadIn(f, id) <= HadIn(f, id)
    <2>1. RowsUnder(f)
        BY DEF Covers
    <2>2. \A id \in Snapshots : HadIn(f, id) \in Nat
        BY <2>1 DEF RowsUnder, HadIn, SnapshotRow
    <2>3. QED
        BY <2>1, <2>2 DEF RowsUnder
<1>2. MemoryUnder(f, j)'
    BY NoTotals, FindUnder
<1>3. SumOf(f, "count") <= SumOf(f, "count") + (Kept(j)' - Kept(j))
    <2>1. Kept(j) \in Nat /\ Kept(j)' \in Nat /\ Kept(j) <= Kept(j)'
        BY KeptGrows
    <2>2. IsFiniteSet(Snapshots \intersect DOMAIN rows)
        BY FS_Intersection DEF FiniteInv
    <2>3. f \in [Snapshots \intersect DOMAIN rows -> SnapshotRow]
        BY DEF Covers, RowsUnder
    <2>4. SumOf(f, "count") \in Int
        BY <2>2, <2>3, CountsInt
    <2>5. QED
        BY <2>1, <2>4
<1>4. QED
    BY <1>1, <1>2, <1>3, CoversStill

(* When a row of totals is saved for others to see, the table's row takes  *)
(* what has been recorded.                                                 *)
LEMMA CreditCovers ==
    ASSUME Inv, Inv', FiniteInv, NEW j \in Jobs, Step(j), NEW f, Covers(f), IsFiniteSet(Started),
           NEW id \in Snapshots, NEW n \in Nat, NEW g,
           g \in [Snapshots \intersect DOMAIN rows' -> SnapshotRow],
           Richer(g, f, id, n), n <= Kept(j)' - Kept(j),
           \A x \in Snapshots \intersect DOMAIN rows' :
               x # id => x \in DOMAIN rows /\ rows'[x] = rows[x],
           rows'[id].count <= HadIn(f, id) + n,
           Snapshots \intersect DOMAIN mine'[j] = {}
    PROVE  Covers(g)'
<1>1. f \in [Snapshots \intersect DOMAIN rows -> SnapshotRow]
    BY DEF Covers, RowsUnder
<1>2. \A x \in Snapshots : HadIn(f, x) \in Nat
    BY <1>1 DEF HadIn, SnapshotRow
<1>3. IsFiniteSet(Snapshots \intersect DOMAIN rows)
    BY FS_Intersection DEF FiniteInv
<1>5. RowsUnder(g)'
    <2>1. ASSUME NEW x \in DOMAIN g PROVE rows'[x].count <= g[x].count
        <3>1. g[x].count = HadIn(g, x) /\ x \in Snapshots /\ x \in Snapshots \intersect DOMAIN rows'
            BY DEF HadIn
        <3>2. CASE x = id
            BY <3>1, <3>2 DEF Richer
        <3>3. CASE x # id
            <4>1. x \in DOMAIN rows /\ rows'[x] = rows[x] /\ x \in DOMAIN f
                BY <1>1, <3>1, <3>3
            <4>2. rows[x].count <= f[x].count /\ f[x].count = HadIn(f, x)
                BY <4>1 DEF Covers, RowsUnder, HadIn
            <4>3. HadIn(g, x) = HadIn(f, x)
                BY <3>1, <3>3 DEF Richer
            <4>4. QED
                BY <3>1, <4>1, <4>2, <4>3
        <3>4. QED
            BY <3>2, <3>3
    <2>2. QED
        BY <2>1 DEF RowsUnder
<1>6. \A x \in Snapshots : HadIn(f, x) <= HadIn(g, x) /\ HadIn(g, x) \in Nat
    <2>1. HadIn(f, id) <= HadIn(g, id) /\ HadIn(g, id) \in Nat
        BY <1>2 DEF Richer
    <2>2. \A x \in Snapshots : x # id => HadIn(f, x) <= HadIn(g, x) /\ HadIn(g, x) \in Nat
        BY <1>2 DEF Richer
    <2>3. QED
        BY <2>1, <2>2
<1>7. MineUnder(g, j)'
    BY DEF MineUnder
<1>8. MemoryUnder(g, j)'
    <2>1. CASE FindSnapshot(j) \/ CreateSnapshot(j) \/ SelectRow(j)
        <3>1. MemoryUnder(f, j)' /\ MemoryOf(j)'
            BY <2>1, FindUnder DEF Inv
        <3>2. SUFFICES ASSUME step'[j] \in Saving, Op(j)' # "stats"
                       PROVE  memory'[j].count <= HadIn(g, target'[j]) + Adds(j)'
            BY DEF MemoryUnder, HadIn
        <3>3. target'[j] \in Snapshots /\ memory'[j] \in SnapshotRow
            BY <3>1, <3>2 DEF MemoryOf, RowOf
        <3>4. memory'[j].count <= HadIn(f, target'[j]) + Adds(j)' /\ memory'[j].count \in Nat
            BY <3>1, <3>2, <3>3 DEF MemoryUnder, HadIn, SnapshotRow
        <3>5. Adds(j)' \in {0, 1}
            BY DEF Adds
        <3>6. /\ HadIn(f, target'[j]) <= HadIn(g, target'[j])
              /\ HadIn(f, target'[j]) \in Nat /\ HadIn(g, target'[j]) \in Nat
            BY <1>2, <1>6, <3>3
        <3>7. QED
            BY <3>4, <3>5, <3>6
    <2>2. CASE ~(FindSnapshot(j) \/ CreateSnapshot(j) \/ SelectRow(j))
        BY <2>2, NoTotals
    <2>3. QED
        BY <2>1, <2>2
<1>9. SumOf(g, "count") <= SumOf(f, "count") + (Kept(j)' - Kept(j))
    <2>1. SumOf(f, "count") \in Int /\ Kept(j) \in Nat /\ Kept(j)' \in Nat
        BY <1>1, <1>3, CountsInt, KeptGrows
    <2>2. QED
        BY <2>1 DEF Richer
<1>10. QED
    BY <1>5, <1>6, <1>7, <1>8, <1>9, CoversStill

(* A transaction that writes a row keeps to its own.                       *)
LEMMA MineKept ==
    ASSUME Inv, NEW j \in Jobs, Step(j), ~Commit(j), ~RollBack(j), NEW f, Covers(f),
           NEW id, id \in Snapshots => mine'[j][id].count <= HadIn(f, id) + Own(j)',
           DOMAIN mine'[j] \subseteq DOMAIN mine[j] \union {id},
           \A x \in DOMAIN mine[j] : x # id => mine'[j][x] = mine[j][x]
    PROVE  MineUnder(f, j)'
<1>1. SUFFICES ASSUME NEW x \in Snapshots \intersect DOMAIN mine'[j], x # id
               PROVE  mine'[j][x].count <= HadIn(f, x) + Own(j)'
    BY DEF MineUnder, HadIn
<1>2. x \in DOMAIN mine[j] /\ mine'[j][x] = mine[j][x]
    BY <1>1
<1>3. mine[j][x] \in SnapshotRow
    BY <1>1, <1>2, KeysDiffer DEF Inv, TypeOK, IsTable
<1>4. mine[j][x].count <= HadIn(f, x) + Own(j)
    BY <1>1, <1>2 DEF Covers, MineUnder
<1>5. HadIn(f, x) \in Nat
    BY <1>1 DEF Covers, RowsUnder, HadIn, SnapshotRow
<1>6. Own(j) \in Nat /\ Own(j)' \in Nat /\ Own(j) <= Own(j)'
    BY OwnStays
<1>7. mine[j][x].count \in Nat
    BY <1>3 DEF SnapshotRow
<1>8. QED
    BY <1>2, <1>4, <1>5, <1>6, <1>7

(* Every step keeps a table that covers the rows.                          *)
LEMMA CoverKept ==
    ASSUME Inv, Inv', FiniteInv, ApartInv, CoverInv, NEW j \in Jobs, Step(j)
    PROVE  CoverInv'
<1>1. PICK f : Covers(f)
    BY DEF CoverInv
<1>2. IsFiniteSet(Started) /\ IsFiniteSet(Started)'
    BY KeptAdds DEF CoverInv
<1>3. SUFFICES \E g : Covers(g)'
    BY <1>2 DEF CoverInv
<1>4. /\ DOMAIN mine = Jobs /\ DOMAIN rows' = DOMAIN rows'
      /\ f \in [Snapshots \intersect DOMAIN rows -> SnapshotRow]
      /\ IsFiniteSet(Snapshots \intersect DOMAIN rows)
    BY <1>1, FS_Intersection DEF Inv, Covers, RowsUnder, FiniteInv
<1>5. /\ \A x \in Snapshots : HadIn(f, x) \in Nat
      /\ PlaceOf(j) /\ LocksOf(j) /\ MineUnder(f, j)
    BY <1>1, <1>4 DEF HadIn, SnapshotRow, Inv, Covers
<1>6. ~Transactional(j) => DOMAIN mine[j] = {}
    BY <1>5 DEF LocksOf
<1>7. CASE UNCHANGED <<rows, mine>> /\ ~Commit(j) /\ ~RollBack(j)
    <2>1. \A x \in Snapshots \intersect DOMAIN mine[j] : mine[j][x].count <= HadIn(f, x) + Own(j)'
        <3>1. SUFFICES ASSUME NEW x \in Snapshots \intersect DOMAIN mine[j]
                       PROVE  mine[j][x].count <= HadIn(f, x) + Own(j)'
            OBVIOUS
        <3>2. mine[j][x] \in SnapshotRow
            BY KeysDiffer DEF Inv, TypeOK, IsTable
        <3>3. mine[j][x].count \in Nat
            BY <3>2 DEF SnapshotRow
        <3>4. Own(j) \in Nat /\ Own(j)' \in Nat /\ Own(j) <= Own(j)'
            BY <1>7, OwnStays
        <3>5. QED
            BY <1>5, <3>3, <3>4 DEF MineUnder
    <2>2. MineUnder(f, j)'
        BY <1>7, <2>1 DEF MineUnder, HadIn
    <2>3. QED
        BY <1>1, <1>2, <1>7, <2>2, StillCovers
<1>8. CASE RollBack(j)
    <2>1. rows' = rows /\ DOMAIN mine'[j] = {}
        BY <1>4, <1>8 DEF RollBack, tables
    <2>2. MineUnder(f, j)'
        BY <2>1 DEF MineUnder
    <2>3. QED
        BY <1>1, <1>2, <2>1, <2>2, StillCovers
<1>9. ASSUME NEW id \in Snapshots, NEW new \in SnapshotRow, NEW n \in {0, 1}, ~Transactional(j),
             Write(j, id, new), new.count <= HadIn(f, id) + n, n <= Kept(j)' - Kept(j)
      PROVE  \E g : Covers(g)'
    <2>1. rows' = Put(rows, id, new) /\ mine' = mine
        BY <1>9 DEF Write
    <2>2. /\ Snapshots \intersect DOMAIN rows' = (Snapshots \intersect DOMAIN rows) \union {id}
          /\ rows'[id] = new
          /\ \A x \in Snapshots \intersect DOMAIN rows' : x # id => x \in DOMAIN rows /\ rows'[x] = rows[x]
        BY <2>1 DEF Put
    <2>4. PICK D \in SUBSET Snapshots : D = Snapshots \intersect DOMAIN rows
        OBVIOUS
    <2>5. IsFiniteSet(D) /\ f \in [D -> SnapshotRow] /\ n \in Nat
        BY <1>4, <2>4
    <2>6. PICK g \in [D \union {id} -> SnapshotRow] : Richer(g, f, id, n)
        BY <2>5, RicherIs
    <2>7. g \in [Snapshots \intersect DOMAIN rows' -> SnapshotRow]
        BY <2>2, <2>4, <2>6
    <2>8. Snapshots \intersect DOMAIN mine'[j] = {}
        BY <1>6, <1>9, <2>1
    <2>9. rows'[id].count <= HadIn(f, id) + n
        BY <1>9, <2>2
    <2>10. Covers(g)'
        BY <1>1, <1>2, <1>9, <2>2, <2>5, <2>6, <2>7, <2>8, <2>9, CreditCovers
    <2>11. QED
        BY <2>10
<1>10. ASSUME NEW id, NEW new, Transactional(j), Write(j, id, new), ~Commit(j), ~RollBack(j),
              id \in Snapshots => new.count <= HadIn(f, id) + Own(j)'
       PROVE  \E g : Covers(g)'
    <2>1. rows' = rows /\ mine'[j] = Put(mine[j], id, new)
        BY <1>4, <1>10 DEF Write
    <2>2. /\ DOMAIN mine'[j] = DOMAIN mine[j] \union {id} /\ mine'[j][id] = new
          /\ \A x \in DOMAIN mine[j] : x # id => mine'[j][x] = mine[j][x]
        BY <2>1 DEF Put
    <2>3. MineUnder(f, j)'
        BY <1>1, <1>10, <2>2, MineKept
    <2>4. QED
        BY <1>1, <1>2, <2>1, <2>3, StillCovers
<1>11. Kept(j) \in Nat /\ Kept(j)' \in Nat /\ Kept(j) <= Kept(j)'
    BY KeptGrows
<1>12. CASE CreateSnapshot(j)
    <2>1. /\ Snapshot(j) \in Snapshots /\ Write(j, Snapshot(j), ZeroSnapshot) /\ step[j] = "create"
          /\ ZeroSnapshot \in SnapshotRow /\ ZeroSnapshot.count = 0
        BY <1>12 DEF CreateSnapshot, Snapshots, SnapshotRow, ZeroSnapshot
    <2>2. ~Commit(j) /\ Own(j)' \in {0, 1} /\ HadIn(f, Snapshot(j)) \in Nat
        BY <1>5, <2>1, OwnStays DEF Commit
    <2>3. 0 <= HadIn(f, Snapshot(j)) + Own(j)' /\ 0 <= HadIn(f, Snapshot(j)) + 0 /\ 0 <= Kept(j)' - Kept(j)
        BY <1>11, <2>2
    <2>4. CASE RollBack(j)
        BY <1>8, <2>4
    <2>5. CASE Transactional(j) /\ ~RollBack(j)
        BY <1>10, <2>1, <2>2, <2>3, <2>5
    <2>6. CASE ~Transactional(j)
        BY <1>9, <2>1, <2>3, <2>6
    <2>7. QED
        BY <2>4, <2>5, <2>6
<1>13. CASE UpdateRow(j) /\ Op(j) # "stats" /\ ~RollBack(j)
    <2>1. PICK new \in SnapshotRow :
              Write(j, target[j], new) /\ new.count <= HadIn(f, target[j]) + Adds(j)
        BY <1>1, <1>13, SaveUnder
    <2>2. target[j] \in Snapshots /\ HadIn(f, target[j]) \in Nat /\ ~Commit(j)
        BY <1>1, <1>13, SaveUnder DEF UpdateRow, Commit
    <2>3. new.count \in Nat /\ Adds(j) \in {0, 1} /\ Own(j)' \in {0, 1}
        BY OwnStays DEF SnapshotRow, Adds
    <2>4. CASE Transactional(j)
        <3>1. Adds(j) <= Own(j)'
            <4>1. SUFFICES ASSUME Op(j) = "record" PROVE Own(j)' = 1
                BY <2>3 DEF Adds
            <4>2. step'[j] = "event"
                BY <1>13, <4>1, GotoGoes DEF UpdateRow, Saved, Op
            <4>3. QED
                BY <2>4, <4>2 DEF Own, Running, Ended, Transactional
        <3>2. new.count <= HadIn(f, target[j]) + Own(j)'
            BY <2>1, <2>2, <2>3, <3>1
        <3>3. QED
            BY <1>10, <1>13, <2>1, <2>2, <2>4, <3>2
    <2>5. CASE ~Transactional(j)
        <3>1. Adds(j) <= Kept(j)' - Kept(j)
            <4>1. CASE Op(j) = "record"
                <5>1. Kept(j) + 1 <= Kept(j)'
                    BY <1>13, <2>5, <4>1, KeptGrows
                <5>2. QED
                    BY <1>11, <4>1, <5>1 DEF Adds
            <4>2. CASE Op(j) # "record"
                BY <1>11, <4>2 DEF Adds
            <4>3. QED
                BY <4>1, <4>2
        <3>2. QED
            BY <1>9, <2>1, <2>2, <2>3, <2>5, <3>1
    <2>6. QED
        BY <2>4, <2>5
<1>14. CASE (UpdateRow(j) \/ InsertRow(j)) /\ Op(j) = "stats" /\ ~RollBack(j)
    <2>1. target[j] \notin Snapshots /\ ~Commit(j)
        BY <1>14, SoleWriter DEF UpdateRow, InsertRow, Commit
    <2>2. UNCHANGED <<rows, mine>> \/ \E new : Write(j, target[j], new)
        BY <1>14 DEF UpdateRow, InsertRow
    <2>3. ASSUME NEW new, Write(j, target[j], new), ~Transactional(j) PROVE \E g : Covers(g)'
        <3>1. rows' = Put(rows, target[j], new) /\ mine' = mine
            BY <2>3 DEF Write
        <3>2. /\ Snapshots \intersect DOMAIN rows' = Snapshots \intersect DOMAIN rows
              /\ \A id \in Snapshots \intersect DOMAIN rows : rows'[id] = rows[id]
            BY <2>1, <3>1 DEF Put
        <3>3. MineUnder(f, j)'
            BY <1>6, <2>3, <3>1 DEF MineUnder
        <3>4. QED
            BY <1>1, <1>2, <3>2, <3>3, StillCovers
    <2>4. QED
        BY <1>7, <1>10, <1>14, <2>1, <2>2, <2>3
<1>15. CASE Commit(j)
    <2>1. /\ rows' = [id \in DOMAIN rows \union DOMAIN mine[j] |-> Seen(j, id)]
          /\ DOMAIN mine'[j] = {} /\ step[j] = "commit"
        BY <1>4, <1>15 DEF Commit
    <2>2. CASE Snapshots \intersect DOMAIN mine[j] = {}
        <3>1. /\ Snapshots \intersect DOMAIN rows' = Snapshots \intersect DOMAIN rows
              /\ \A id \in Snapshots \intersect DOMAIN rows : rows'[id] = rows[id]
            BY <2>1, <2>2 DEF Seen
        <3>2. MineUnder(f, j)'
            BY <2>1 DEF MineUnder
        <3>3. QED
            BY <1>1, <1>2, <3>1, <3>2, StillCovers
    <2>3. CASE Snapshots \intersect DOMAIN mine[j] # {}
        <3>1. PICK id \in Snapshots : Snapshots \intersect DOMAIN mine[j] = {id}
            BY <2>3 DEF ApartInv
        <3>2. PICK n : n = Own(j)
            OBVIOUS
        <3>3. n \in Nat /\ n <= Kept(j)' - Kept(j)
            <4>1. n \in {0, 1} /\ (n = 1 => Kept(j) + 1 <= Kept(j)')
                BY <1>15, <3>2, OwnStays, KeptGrows
            <4>2. QED
                BY <1>11, <4>1
        <3>4. /\ Snapshots \intersect DOMAIN rows' = (Snapshots \intersect DOMAIN rows) \union {id}
              /\ rows'[id] = mine[j][id]
              /\ \A x \in Snapshots \intersect DOMAIN rows' : x # id => x \in DOMAIN rows /\ rows'[x] = rows[x]
            BY <2>1, <3>1 DEF Seen
        <3>5. rows'[id].count <= HadIn(f, id) + n
            BY <1>5, <3>1, <3>2, <3>4 DEF MineUnder
        <3>6. PICK D \in SUBSET Snapshots : D = Snapshots \intersect DOMAIN rows
            OBVIOUS
        <3>7. IsFiniteSet(D) /\ f \in [D -> SnapshotRow]
            BY <1>4, <3>6
        <3>8. PICK g \in [D \union {id} -> SnapshotRow] : Richer(g, f, id, n)
            BY <3>3, <3>7, RicherIs
        <3>12. g \in [Snapshots \intersect DOMAIN rows' -> SnapshotRow]
            BY <3>4, <3>6, <3>8
        <3>13. Snapshots \intersect DOMAIN mine'[j] = {}
            BY <2>1
        <3>14. Covers(g)'
            BY <1>1, <1>2, <3>3, <3>4, <3>5, <3>8, <3>12, <3>13, CreditCovers
        <3>15. QED
            BY <3>14
    <2>4. QED
        BY <2>2, <2>3
<1>16. InsertRow(j) => Op(j) = "stats"
    BY DEF Inv, MemoryOf, InsertRow, Saving
<1>17. QED
    BY <1>7, <1>8, <1>12, <1>13, <1>14, <1>15, <1>16, RowsStill

(* There is such a table at first,                                        *)
LEMMA CoverInit == Init => CoverInv
<1> SUFFICES ASSUME Init PROVE CoverInv
    OBVIOUS
<1>1. /\ DOMAIN rows = {} /\ Started = {}
      /\ \A j \in Jobs : DOMAIN mine[j] = {} /\ step[j] = "start"
    BY DEF Init, Started
<1>2. PICK f : f = [id \in {} |-> ZeroSnapshot]
    OBVIOUS
<1>3. f \in [{} -> SnapshotRow] /\ DOMAIN f = {} /\ Snapshots \intersect DOMAIN rows = {}
    BY <1>1, <1>2
<1>4. SumOf(f, "count") = 0
    <2>1. DOMAIN [id \in Snapshots \intersect DOMAIN f |-> f[id]["count"]] = {}
        BY <1>3
    <2>2. QED
        BY <2>1, SumEmpty DEF SumOf, SumFunction
<1>5. KeptInAll = 0
    <2>1. DOMAIN [j \in Started |-> Kept(j)] = {}
        BY <1>1
    <2>2. QED
        BY <2>1, SumEmpty DEF KeptInAll, SumFunction
<1>6. RowsUnder(f) /\ \A j \in Jobs : MineUnder(f, j) /\ MemoryUnder(f, j)
    BY <1>1, <1>3 DEF RowsUnder, MineUnder, MemoryUnder, Saving
<1>7. Covers(f) /\ IsFiniteSet(Started)
    BY <1>1, <1>4, <1>5, <1>6, FS_EmptySet DEF Covers
<1>8. QED
    BY <1>7 DEF CoverInv

(* when nothing happens,                                                   *)
LEMMA CoverStutters ==
    ASSUME CoverInv, UNCHANGED vars
    PROVE  CoverInv'
<1>1. /\ rows' = rows /\ mine' = mine /\ at' = at /\ step' = step
      /\ target' = target /\ memory' = memory
    BY DEF vars, tables, open, local
<1>2. PICK f : Covers(f)
    BY DEF CoverInv
<1>3. \A q : Own(q)' = Own(q) /\ Adds(q)' = Adds(q) /\ Op(q)' = Op(q) /\ Kept(q)' = Kept(q)
    BY <1>1, CallsStay DEF Own, Adds, Op, Current, Kept, Transactional, Running
<1>4. Started' = Started /\ KeptInAll' = KeptInAll
    <2>1. Started' = Started
        BY <1>1 DEF Started
    <2>2. QED
        BY <1>3, <2>1 DEF KeptInAll
<1>5. Covers(f)'
    BY <1>1, <1>2, <1>3, <1>4 DEF Covers, RowsUnder, MineUnder, MemoryUnder, HadIn, SumOf
<1>6. QED
    BY <1>4, <1>5 DEF CoverInv

(* and after every step.                                                   *)
LEMMA CoverPreserves ==
    ASSUME Inv, Inv', HistoryInv, CoverInv, [Next]_vars
    PROVE  CoverInv'
<1>1. CASE UNCHANGED vars
    BY <1>1, CoverStutters
<1>2. CASE Next
    <2>1. PICK j \in Jobs : Step(j)
        BY <1>2 DEF Next, Step
    <2>2. FiniteInv /\ ApartInv
        BY DEF HistoryInv
    <2>3. QED
        BY <2>1, <2>2, CoverKept
<1>3. QED
    BY <1>1, <1>2

(* A job has recorded no more than the calls of recordTransaction that it  *)
(* has reached.                                                            *)
LEMMA KeptAreCalls ==
    ASSUME Inv, LastInv, NEW j \in Jobs
    PROVE  Kept(j) \in Int /\ Recorded(j) \in Int /\ Kept(j) <= Recorded(j)
<1>1. /\ at[j] \in 0..Len(Calls(j)) /\ Len(Calls(j)) \in {1, 3, 6}
      /\ step[j] = "done" => at[j] = Len(Calls(j))
    BY CallsAre DEF Inv, TypeOK, LastInv
<1>2. PICK R : R = {i \in 1..at[j] : Calls(j)[i].op = "record"}
    OBVIOUS
<1>3. at[j] \in Int
    BY <1>1
<1>4. IsFiniteSet(R) /\ Cardinality(R) \in Nat
    <2>1. IsFiniteSet(1..at[j])
        BY <1>3, FS_Interval
    <2>2. R \subseteq 1..at[j]
        BY <1>2
    <2>3. QED
        BY <2>1, <2>2, FS_Subset, FS_CardinalityType
<1>5. CASE Transactional(j)
    <2>1. CASE step[j] = "done" /\ Work[j].kind # "signup"
        <3>1. Len(Calls(j)) = 3 /\ Calls(j)[2].op = "record" /\ at[j] = 3
            BY <1>1, <1>5, <2>1, CallsAre DEF Transactional
        <3>2. 2 \in R
            BY <1>2, <3>1
        <3>3. Cardinality(R) # 0
            BY <1>4, <3>2, FS_EmptySet
        <3>4. Recorded(j) = Cardinality(R) /\ Kept(j) = 1
            BY <1>2, <1>5, <2>1 DEF Recorded, Kept
        <3>5. QED
            BY <1>4, <3>3, <3>4
    <2>2. CASE ~(step[j] = "done" /\ Work[j].kind # "signup")
        <3>1. Kept(j) = 0 /\ Recorded(j) \in {0, Cardinality(R)}
            BY <1>2, <1>5, <2>2 DEF Recorded, Kept
        <3>2. QED
            BY <1>4, <3>1
    <2>3. QED
        BY <2>1, <2>2
<1>6. CASE ~Transactional(j)
    <2>1. Recorded(j) = Cardinality(R)
        BY <1>2, <1>6 DEF Recorded
    <2>2. CASE Work[j].kind # "transfer" \/ at[j] = 0
        BY <1>4, <1>6, <2>1, <2>2 DEF Kept
    <2>3. CASE Work[j].kind = "transfer" /\ at[j] # 0
        <3>1. Calls(j)[1].op = "record" /\ Calls(j)[2].op = "record" /\ at[j] \in 1..6
            BY <1>1, <2>3, CallsAre
        <3>2. Kept(j) \in {0, 1, 2} /\ Kept(j) <= at[j]
            BY <1>6, <2>3, <3>1 DEF Kept
        <3>3. CASE at[j] = 1
            <4>1. R = {1}
                BY <1>2, <3>1, <3>3
            <4>2. Cardinality(R) = 1
                BY <4>1, FS_Singleton
            <4>3. QED
                BY <2>1, <3>2, <3>3, <4>2
        <3>4. CASE at[j] # 1
            <4>1. {1, 2} \subseteq R
                BY <1>2, <3>1, <3>4
            <4>2. IsFiniteSet({1}) /\ Cardinality({1}) = 1 /\ {1, 2} = {1} \union {2} /\ 2 \notin {1}
                BY FS_Singleton
            <4>3. Cardinality({1, 2}) = 2
                BY <4>2, FS_AddElement
            <4>4. Cardinality({1, 2}) <= Cardinality(R)
                BY <1>4, <4>1, FS_Subset
            <4>5. QED
                BY <1>4, <2>1, <3>2, <4>3, <4>4
        <3>5. QED
            BY <3>3, <3>4
    <2>4. QED
        BY <2>2, <2>3
<1>7. QED
    BY <1>5, <1>6

(* Whatever saves go over one another, and whichever jobs fail: the totals *)
(* count no transaction that was not recorded or that was rolled back, and *)
(* no wallet is counted as active twice (AdminAnalyticsService's           *)
(* recordTransaction and markWalletActive, with the repository's save).    *)
THEOREM OnlyEverLoses == Spec => []NeverOvercounted
<1>1. Inv /\ HistoryInv /\ CoverInv /\ MarkInv => NeverOvercounted
    <2>1. SUFFICES ASSUME Inv, HistoryInv, CoverInv, MarkInv PROVE NeverOvercounted
        OBVIOUS
    <2>2. PICK f : Covers(f)
        BY <2>1 DEF CoverInv
    <2>3. PICK S : S = Snapshots \intersect DOMAIN rows
        OBVIOUS
    <2>4. /\ IsFiniteSet(S) /\ S \subseteq Snapshots /\ f \in [S -> SnapshotRow]
          /\ \A id \in S : rows[id].count <= f[id].count
        BY <2>1, <2>2, <2>3, FS_Intersection DEF HistoryInv, FiniteInv, Covers, RowsUnder
    <2>5. \A id \in S : rows[id] \in SnapshotRow
        BY <2>1, <2>3, KeysDiffer DEF Inv, TypeOK, IsTable
    <2>6. PICK w : w = [id \in S |-> rows[id]["count"]]
        OBVIOUS
    <2>7. PICK v : v = [id \in S |-> f[id]["count"]]
        OBVIOUS
    <2>8. \A id \in S : w[id] \in Int /\ v[id] \in Int /\ w[id] <= v[id]
        BY <2>4, <2>5, <2>6, <2>7 DEF SnapshotRow
    <2>9. SumFunctionOnSet(w, S) <= SumFunctionOnSet(v, S)
        BY <2>4, <2>8, SumAtMost
    <2>10. Sum("count") = SumFunctionOnSet(w, S)
        BY <2>3, <2>6 DEF Sum, SumFunction
    <2>11. SumOf(f, "count") = SumFunctionOnSet(v, S)
        <3>1. Snapshots \intersect DOMAIN f = S
            BY <2>4
        <3>2. QED
            BY <2>7, <3>1 DEF SumOf, SumFunction
    <2>12. PICK k : k = [j \in Started |-> Kept(j)]
        OBVIOUS
    <2>13. PICK r : r = [j \in Started |-> Recorded(j)]
        OBVIOUS
    <2>14. IsFiniteSet(Started) /\ Started \subseteq Jobs /\ LastInv
        BY <2>1 DEF CoverInv, Started, HistoryInv
    <2>15. \A j \in Started : k[j] \in Int /\ r[j] \in Int /\ k[j] <= r[j]
        BY <2>1, <2>12, <2>13, <2>14, KeptAreCalls
    <2>16. SumFunctionOnSet(k, Started) <= SumFunctionOnSet(r, Started)
        BY <2>14, <2>15, SumAtMost
    <2>17. /\ KeptInAll = SumFunctionOnSet(k, Started)
           /\ SumFunction([j \in Started |-> Recorded(j)]) = SumFunctionOnSet(r, Started)
        BY <2>12, <2>13 DEF KeptInAll, SumFunction
    <2>18. /\ SumFunctionOnSet(w, S) \in Int /\ SumFunctionOnSet(v, S) \in Int
           /\ SumFunctionOnSet(k, Started) \in Int /\ SumFunctionOnSet(r, Started) \in Int
        BY <2>4, <2>8, <2>14, <2>15, SumInt
    <2>19. Sum("count") <= SumFunction([j \in Started |-> Recorded(j)])
        BY <2>2, <2>9, <2>10, <2>11, <2>16, <2>17, <2>18 DEF Covers
    <2>20. \A u \in Users : marks[u] <= 1
        BY <2>1 DEF MarkInv
    <2>21. QED
        BY <2>19, <2>20 DEF NeverOvercounted
<1>2. Inv /\ Inv' /\ HistoryInv /\ CoverInv /\ [Next]_vars => CoverInv'
    BY CoverPreserves
<1>3. Init => MarkInv
    BY DEF Init, MarkInv, Paid
<1>4. QED
    BY <1>1, <1>2, <1>3, CoverInit, HistoryInvariance, MarkPreserves, PTL DEF Spec

-----------------------------------------------------------------------------
(* The reports.                                                            *)

(* What events are worth, in naira.                                        *)
Worth == [e \in Possible |-> Work[e.job].amount]
Naira(es) == SumFunctionOnSet(Worth, es)

(* Events add up to whole naira, and to something if there are any.        *)
LEMMA NairaIs ==
    ASSUME NEW es \in SUBSET Possible, IsFiniteSet(es)
    PROVE  /\ Naira(es) \in Nat
           /\ Amounts(es) = Naira(es) * 100
           /\ Amounts(es) \div 100 = Naira(es)
           /\ es # {} => Naira(es) > 0
<1>1. \A e \in Possible : /\ e.job \in Jobs /\ e.amount = Kobo(Work[e.job].amount)
                          /\ Worth[e] = Work[e.job].amount
    BY DEF Possible, Events, EventOf, Worth
<1>2. \A j \in Jobs : Work[j].amount \in Nat \ {0}
    BY CallsAre
<1>3. \A e \in es : Worth[e] \in Int /\ Worth[e] >= 1
    BY <1>1, <1>2
<1>4. PICK v : v = [e \in es |-> e.amount]
    OBVIOUS
<1>5. \A e \in es : Worth[e] \in Int /\ v[e] = Worth[e] * 100
    BY <1>1, <1>3, <1>4 DEF Kobo
<1>6. Amounts(es) = Naira(es) * 100
    <2>1. Amounts(es) = SumFunctionOnSet(v, es)
        BY <1>4 DEF Amounts, SumFunction
    <2>2. SumFunctionOnSet(v, es) = SumFunctionOnSet(Worth, es) * 100
        BY <1>5, SumTimesHundred
    <2>3. QED
        BY <2>1, <2>2 DEF Naira
<1>7. PICK one : one = [e \in es |-> 1]
    OBVIOUS
<1>8. \A e \in es : one[e] \in Int /\ one[e] = 1 /\ one[e] <= Worth[e]
    BY <1>3, <1>7
<1>9. SumFunctionOnSet(one, es) = Cardinality(es)
    BY <1>8, SumOfOnes
<1>10. SumFunctionOnSet(one, es) <= SumFunctionOnSet(Worth, es)
    BY <1>3, <1>8, SumAtMost
<1>11. Naira(es) \in Int
    BY <1>3, SumInt DEF Naira
<1>12. Cardinality(es) \in Nat /\ (es # {} => Cardinality(es) # 0)
    BY FS_CardinalityType, FS_EmptySet
<1>13. Naira(es) \in Nat /\ (es # {} => Naira(es) > 0)
    BY <1>9, <1>10, <1>11, <1>12 DEF Naira
<1>14. Amounts(es) \div 100 = Naira(es)
    <2>1. PICK n \in Nat : n = Naira(es)
        BY <1>13
    <2>2. (n * 100) \div 100 = n
        OBVIOUS
    <2>3. QED
        BY <1>6, <2>1, <2>2
<1>15. QED
    BY <1>6, <1>13, <1>14

(* Events apart are worth what both are.                                   *)
LEMMA NairaApart ==
    ASSUME NEW es \in SUBSET Possible, IsFiniteSet(es), NEW fs \in SUBSET Possible,
           IsFiniteSet(fs), fs \intersect es = {}
    PROVE  Naira(fs \union es) = Naira(fs) + Naira(es)
<1>1. \A e \in Possible : e.job \in Jobs /\ Worth[e] = Work[e.job].amount
    BY DEF Possible, Events, Worth
<1>2. \A j \in Jobs : Work[j].amount \in Nat \ {0}
    BY CallsAre
<1>3. \A e \in fs \union es : Worth[e] \in Int
    BY <1>1, <1>2
<1>4. SumFunctionOnSet(Worth, fs \union es)
          = SumFunctionOnSet(Worth, fs) + SumFunctionOnSet(Worth, es)
    BY <1>3, SumApart
<1>5. QED
    BY <1>4 DEF Naira


(* What the rows hold when every job has ended well.                       *)
LEMMA WhenUndisturbed ==
    ASSUME Inv, HistoryInv, Undisturbed
    PROVE  /\ events \in SUBSET Possible /\ IsFiniteSet(events)
           /\ Sum("count") = Cardinality(events)
           /\ Sum("value") = Naira(events) * 100
           /\ IsFiniteSet(SignUps) /\ Sum("users") = Cardinality(SignUps)
           /\ \A u \in Users : StatsOf(u).volume = Naira({e \in events : e.user = u})
<1>1. /\ Sound /\ InTotals = events
      /\ \A u, t : InStats(u, t) = EventsOf(u, t)
    BY AllSaved DEF HistoryInv
<1>2. TotalsTally /\ UsersTally /\ \A u \in Users : StatsTally(u)
    BY <1>1 DEF HistoryInv, TallyInv
<1>3. events \in SUBSET Possible /\ IsFiniteSet(events)
    BY <1>1, <1>2 DEF TotalsTally, InTotals
<1>4. Sum("value") = Naira(events) * 100
    BY <1>1, <1>2, <1>3, NairaIs DEF TotalsTally
<1>5. ASSUME NEW u \in Users
      PROVE  StatsOf(u).volume = Naira({e \in events : e.user = u})
    <2>1. PICK c : c = EventsOf(u, "CREDIT")
        OBVIOUS
    <2>2. PICK d : d = EventsOf(u, "DEBIT")
        OBVIOUS
    <2>3. /\ c \in SUBSET Possible /\ d \in SUBSET Possible /\ IsFiniteSet(c) /\ IsFiniteSet(d)
          /\ d \intersect c = {}
        <3>1. c \subseteq events /\ d \subseteq events
            BY <2>1, <2>2 DEF EventsOf
        <3>2. IsFiniteSet(c) /\ IsFiniteSet(d)
            BY <1>3, <3>1, FS_Subset
        <3>3. d \intersect c = {}
            BY <2>1, <2>2 DEF EventsOf
        <3>4. QED
            BY <1>3, <3>1, <3>2, <3>3
    <2>4. {e \in events : e.user = u} = d \union c
        <3>1. \A e \in events : e.type \in {"CREDIT", "DEBIT"}
            BY <1>3 DEF Possible, Events
        <3>2. QED
            BY <2>1, <2>2, <3>1 DEF EventsOf
    <2>5. Naira(d \union c) = Naira(d) + Naira(c)
        BY <2>3, NairaApart
    <2>6. StatsOf(u) = Committed(Stats(u))
        BY KeysDiffer DEF StatsOf, Committed
    <2>7. /\ Kobo(StatsOf(u).credit) = Amounts(c) /\ Kobo(StatsOf(u).debit) = Amounts(d)
          /\ StatsOf(u).volume = StatsOf(u).credit + StatsOf(u).debit
        BY <1>1, <1>2, <2>1, <2>2, <2>6 DEF StatsTally
    <2>8. StatsOf(u) \in StatsRow
        BY <2>6, CommittedTyped DEF RowOf, RowIdOf
    <2>9. PICK m \in Nat, n \in Nat : m = StatsOf(u).credit /\ n = StatsOf(u).debit
        BY <2>8 DEF StatsRow
    <2>10. PICK x \in Nat, y \in Nat : x = Naira(c) /\ y = Naira(d)
        BY <2>3, NairaIs
    <2>11. m * 100 = x * 100 /\ n * 100 = y * 100
        BY <2>3, <2>7, <2>9, <2>10, NairaIs DEF Kobo
    <2>12. m = x /\ n = y
        BY <2>11
    <2>13. m + n = y + x
        BY <2>12
    <2>14. QED
        BY <2>4, <2>5, <2>7, <2>9, <2>10, <2>13
<1>6. QED
    BY <1>1, <1>2, <1>3, <1>4, <1>5 DEF TotalsTally, UsersTally

(* The day on which each event was.                                        *)
DayOn == [e \in events |-> Day[e.job][e.type]]

(* The days of the volume report add up to all of the events.              *)
LEMMA DaysAddUp ==
    ASSUME events \in SUBSET Possible, IsFiniteSet(events),
           NEW days, days = getTransactionVolumeOverTime
    PROVE  /\ SumFunction([d \in DOMAIN days |-> days[d].totalValue]) = Naira(events)
           /\ SumFunction([d \in DOMAIN days |-> days[d].count]) = Cardinality(events)
           /\ \A d \in DOMAIN days : days[d].totalValue = days[d].debitTotal + days[d].creditTotal
<1> DEFINE Total(es) == Amounts(es) \div 100
           On(d) == Under(events, DayOn, d)
<1>1. PICK K : K = {DayOn[e] : e \in events}
    OBVIOUS
<1>2. IsFiniteSet(K)
    BY <1>1, ImageFinite
<1>3. \A d : On(d) = {e \in events : Day[e.job][e.type] = d}
    BY DEF DayOn, Under
<1>4. {Day[e.job][e.type] : e \in events} = K
    BY <1>1 DEF DayOn
<1>5. days = [d \in K |->
                 [debitTotal |-> Total({e \in On(d) : e.type = "DEBIT"}),
                  creditTotal |-> Total({e \in On(d) : e.type = "CREDIT"}),
                  totalValue |-> Total(On(d)),
                  count |-> Cardinality(On(d))]]
    BY <1>3, <1>4 DEF getTransactionVolumeOverTime
<1>6. DOMAIN days = K
    BY <1>5
<1>7. \A d \in K : /\ days[d].debitTotal = Total({e \in On(d) : e.type = "DEBIT"})
                   /\ days[d].creditTotal = Total({e \in On(d) : e.type = "CREDIT"})
                   /\ days[d].totalValue = Total(On(d)) /\ days[d].count = Cardinality(On(d))
    BY <1>5
<1>8. UnderAny(events, DayOn, K) = events
    BY <1>1 DEF UnderAny
<1>9. \A es \in SUBSET events : IsFiniteSet(es) /\ es \in SUBSET Possible /\ Total(es) = Naira(es)
    BY FS_Subset, NairaIs
<1>10. \A d \in K : On(d) \in SUBSET events
    BY DEF Under
<1>11. SumFunction([d \in DOMAIN days |-> days[d].totalValue]) = Naira(events)
    <2>1. PICK part : part = [d \in K |-> days[d].totalValue]
        OBVIOUS
    <2>2. \A d \in K : part[d] = SumFunctionOnSet(Worth, Under(events, DayOn, d))
        BY <1>7, <1>9, <1>10, <2>1 DEF Naira
    <2>3. \A e \in events : Worth[e] \in Int
        BY CallsAre DEF Worth, Possible, Events
    <2>4. SumFunctionOnSet(part, K) = SumFunctionOnSet(Worth, UnderAny(events, DayOn, K))
        BY <1>2, <2>2, <2>3, SumOfParts
    <2>5. SumFunction([d \in DOMAIN days |-> days[d].totalValue]) = SumFunctionOnSet(part, K)
        BY <1>6, <2>1 DEF SumFunction
    <2>6. QED
        BY <1>8, <2>4, <2>5 DEF Naira
<1>12. SumFunction([d \in DOMAIN days |-> days[d].count]) = Cardinality(events)
    <2>1. PICK part : part = [d \in K |-> days[d].count]
        OBVIOUS
    <2>2. \A d \in K : part[d] = Cardinality(Under(events, DayOn, d))
        BY <1>7, <2>1
    <2>3. SumFunctionOnSet(part, K) = Cardinality(UnderAny(events, DayOn, K))
        BY <1>2, <2>2, CountsOfParts
    <2>4. SumFunction([d \in DOMAIN days |-> days[d].count]) = SumFunctionOnSet(part, K)
        BY <1>6, <2>1 DEF SumFunction
    <2>5. QED
        BY <1>8, <2>3, <2>4
<1>13. ASSUME NEW d \in K
       PROVE  days[d].totalValue = days[d].debitTotal + days[d].creditTotal
    <2>1. PICK S : S = On(d)
        OBVIOUS
    <2>2. PICK p : p = {e \in S : e.type = "DEBIT"}
        OBVIOUS
    <2>3. PICK q : q = {e \in S : e.type = "CREDIT"}
        OBVIOUS
    <2>4. S \in SUBSET events
        BY <1>10, <2>1
    <2>5. \A e \in events : e.type \in {"CREDIT", "DEBIT"}
        BY DEF Possible, Events
    <2>6. p \in SUBSET events /\ q \in SUBSET events /\ p \intersect q = {} /\ p \union q = S
        BY <2>2, <2>3, <2>4, <2>5
    <2>7. Naira(p \union q) = Naira(p) + Naira(q)
        BY <1>9, <2>6, NairaApart
    <2>8. Total(S) = Naira(S) /\ Total(p) = Naira(p) /\ Total(q) = Naira(q)
        BY <1>9, <2>4, <2>6
    <2>9. days[d].totalValue = Total(S) /\ days[d].debitTotal = Total(p) /\ days[d].creditTotal = Total(q)
        BY <1>7, <2>1, <2>2, <2>3
    <2> HIDE DEF Total, On
    <2>10. QED
        BY <2>6, <2>7, <2>8, <2>9
<1>14. QED
    BY <1>6, <1>11, <1>12, <1>13


(* The days of the report on new users add up to the sign-ups.             *)
LEMMA JoinsAddUp ==
    ASSUME IsFiniteSet(SignUps), NEW days, days = getNewUsersOverTime
    PROVE  SumFunction([d \in DOMAIN days |-> days[d].count]) = Cardinality(SignUps)
<1>1. PICK key : key = [j \in SignUps |-> Day[j]["none"]]
    OBVIOUS
<1>2. PICK K : K = {key[j] : j \in SignUps}
    OBVIOUS
<1>3. IsFiniteSet(K)
    BY <1>2, ImageFinite
<1>4. \A d : Under(SignUps, key, d) = {j \in SignUps : Day[j]["none"] = d}
    BY <1>1 DEF Under
<1>5. {Day[j]["none"] : j \in SignUps} = K
    BY <1>1, <1>2
<1>6. days = [d \in K |->
                 [userIds |-> {Work[j].user : j \in Under(SignUps, key, d)},
                  count |-> Cardinality(Under(SignUps, key, d))]]
    BY <1>4, <1>5 DEF getNewUsersOverTime
<1>7. DOMAIN days = K /\ \A d \in K : days[d].count = Cardinality(Under(SignUps, key, d))
    BY <1>6
<1>8. PICK part : part = [d \in K |-> days[d].count]
    OBVIOUS
<1>9. \A d \in K : part[d] = Cardinality(Under(SignUps, key, d))
    BY <1>7, <1>8
<1>10. SumFunctionOnSet(part, K) = Cardinality(UnderAny(SignUps, key, K))
    BY <1>3, <1>9, CountsOfParts
<1>11. UnderAny(SignUps, key, K) = SignUps
    BY <1>2 DEF UnderAny
<1>12. SumFunction([d \in DOMAIN days |-> days[d].count]) = SumFunctionOnSet(part, K)
    BY <1>7, <1>8 DEF SumFunction
<1>13. QED
    BY <1>10, <1>11, <1>12

(* A list of all users who have a row of stats is that of each once.       *)
LEMMA ListsAll ==
    ASSUME NEW S, IsFiniteSet(S), NEW s \in SetToSeqs(S)
    PROVE  LET T == 1..Cardinality(S)
           IN  /\ s \in [T -> S] /\ s \in Seq(S) /\ Len(s) = Cardinality(S)
               /\ \A x \in S : \E i \in T : s[i] = x
               /\ \A i, k \in T : s[i] = s[k] => i = k
<1>1. PICK n \in Nat : n = Cardinality(S)
    BY FS_CardinalityType
<1>2. s \in [1..n -> S] /\ \A i, k \in 1..n : s[i] = s[k] => i = k
    BY <1>1 DEF SetToSeqs
<1>3. s \in Injection(1..n, S)
    BY <1>2 DEF Injection, IsInjective
<1>4. Cardinality(1..n) = n
    BY FS_Interval
<1>5. s \in Surjection(1..n, S)
    BY <1>1, <1>3, <1>4, FS_Injection
<1>6. \A x \in S : \E i \in 1..n : s[i] = x
    BY <1>5 DEF Surjection
<1>7. s \in Seq(S) /\ Len(s) = n
    BY <1>2
<1>8. QED
    BY <1>1, <1>2, <1>6, <1>7

(* Whatever the order of users of equal volume, the volumes in the list of *)
(* top users add up to what all events are worth.                          *)
LEMMA TopAddsUp ==
    ASSUME Inv, HistoryInv, Undisturbed,
           NEW top \in getTopUsersByTransactionValue(Cardinality(Users))
    PROVE  SumFunction([i \in DOMAIN top |-> top[i].volume]) = Naira(events)
<1>1. PICK S : S = {u \in Users : Stats(u) \in DOMAIN rows}
    OBVIOUS
<1>2. /\ IsFiniteSet(S) /\ Cardinality(S) <= Cardinality(Users)
      /\ Cardinality(S) \in Nat /\ Cardinality(Users) \in Nat
    BY <1>1, UsersAssumption, FS_Subset, FS_CardinalityType
<1> DEFINE Shown(s) == [i \in DOMAIN s |-> [user |-> s[i], volume |-> StatsOf(s[i]).volume]]
           limit == Cardinality(Users)
<1>3. PICK s \in SetToSeqs(S) :
          top = SubSeq(Shown(s), 1, IF limit < Len(s) THEN limit ELSE Len(s))
    BY <1>1 DEF getTopUsersByTransactionValue
<1>4. PICK n \in Nat : n = Cardinality(S)
    BY <1>2
<1>5. PICK T : T = 1..n
    OBVIOUS
<1>6. /\ s \in [T -> S] /\ Len(s) = n
      /\ \A x \in S : \E i \in T : s[i] = x
      /\ \A i, k \in T : s[i] = s[k] => i = k
    BY <1>2, <1>4, <1>5, ListsAll
<1>7. PICK whole : whole = Shown(s)
    OBVIOUS
<1>8. /\ DOMAIN whole = T
      /\ \A i \in T : whole[i].volume = StatsOf(s[i]).volume
    BY <1>6, <1>7
<1>9. top = SubSeq(whole, 1, n)
    BY <1>2, <1>3, <1>4, <1>6, <1>7
<1>10. DOMAIN top = T /\ \A i \in T : top[i] = whole[i]
    <2>1. SubSeq(whole, 1, n) = [i \in 1..n |-> whole[i]]
        BY <1>5, <1>8
    <2>2. QED
        BY <1>5, <1>9, <2>1
<1>11. PICK volume : volume = [u \in S |-> StatsOf(u).volume]
    OBVIOUS
<1>12. PICK v : v = [i \in T |-> top[i].volume]
    OBVIOUS
<1>13. \A i \in T : v[i] = volume[s[i]]
    BY <1>6, <1>8, <1>10, <1>11, <1>12
<1>14. /\ events \in SUBSET Possible /\ IsFiniteSet(events)
       /\ \A u \in Users : StatsOf(u).volume = Naira({e \in events : e.user = u})
    BY WhenUndisturbed
<1>15. \A u \in S : volume[u] \in Int
    <2>1. \A u \in S : {e \in events : e.user = u} \in SUBSET events
        OBVIOUS
    <2>2. \A u \in S : Naira({e \in events : e.user = u}) \in Int
        BY <1>14, <2>1, FS_Subset, NairaIs
    <2>3. QED
        BY <1>1, <1>11, <1>14, <2>2
<1>16. SumFunctionOnSet(v, T) = SumFunctionOnSet(volume, S)
    <2>1. IsFiniteSet(T)
        BY <1>5, FS_Interval
    <2>2. QED
        BY <1>2, <1>6, <1>13, <1>15, <2>1, SumInOrder
<1>17. SumFunctionOnSet(volume, S) = Naira(events)
    <2>1. PICK key : key = [e \in events |-> e.user]
        OBVIOUS
    <2>2. \A u : Under(events, key, u) = {e \in events : e.user = u}
        BY <2>1 DEF Under
    <2>3. \A u \in S : volume[u] = SumFunctionOnSet(Worth, Under(events, key, u))
        BY <1>1, <1>11, <1>14, <2>2 DEF Naira
    <2>4. \A e \in events : Worth[e] \in Int
        BY <1>14, CallsAre DEF Worth, Possible, Events
    <2>5. SumFunctionOnSet(volume, S) = SumFunctionOnSet(Worth, UnderAny(events, key, S))
        BY <1>2, <1>14, <2>3, <2>4, SumOfParts
    <2>6. \A e \in events : e.user \in S
        <3>1. SUFFICES ASSUME NEW e \in events PROVE e.user \in S
            OBVIOUS
        <3>2. PICK u \in Users : u = e.user
            BY <1>14 DEF Possible, Events
        <3>3. PICK es : es = {x \in events : x.user = u}
            OBVIOUS
        <3>4. es \in SUBSET events /\ es # {}
            BY <3>2, <3>3
        <3>5. IsFiniteSet(es) /\ es \in SUBSET Possible
            BY <1>14, <3>4, FS_Subset
        <3>6. StatsOf(u).volume = Naira(es) /\ Naira(es) > 0
            BY <1>14, <3>3, <3>4, <3>5, NairaIs
        <3>7. Stats(u) \in DOMAIN rows
            BY <3>6 DEF StatsOf, ZeroStats
        <3>8. QED
            BY <1>1, <3>2, <3>7
    <2>7. UnderAny(events, key, S) = events
        BY <2>1, <2>6 DEF UnderAny
    <2>8. QED
        BY <2>5, <2>7 DEF Naira
<1>18. SumFunction([i \in DOMAIN top |-> top[i].volume]) = SumFunctionOnSet(v, T)
    BY <1>10, <1>12 DEF SumFunction
<1>19. QED
    BY <1>16, <1>17, <1>18

(* A single row of totals is the sum of all.                               *)
LEMMA OneSnapshot ==
    ASSUME Inv, NEW id \in Snapshots \intersect DOMAIN rows,
           Cardinality(Snapshots \intersect DOMAIN rows) = 1, FiniteInv,
           NEW column \in Columns
    PROVE  Sum(column) = rows[id][column]
<1>1. PICK S : S = Snapshots \intersect DOMAIN rows
    OBVIOUS
<1>2. IsFiniteSet(S) /\ Cardinality(S) = 1
    BY <1>1, FS_Intersection DEF FiniteInv
<1>3. S = {id}
    <2>1. PICK x : S = {x}
        BY <1>2, FS_Singleton
    <2>2. QED
        BY <1>1, <2>1
<1>4. rows[id] \in SnapshotRow
    BY KeysDiffer DEF Inv, TypeOK, IsTable
<1>5. rows[id][column] \in Int
    BY <1>4 DEF Columns, SnapshotRow
<1>6. PICK w : w = [x \in S |-> rows[x][column]]
    OBVIOUS
<1>7. w[id] = rows[id][column] /\ DOMAIN w = S
    BY <1>3, <1>6
<1>8. SumFunctionOnSet(w, {id}) = w[id]
    BY <1>5, <1>7, SumOne
<1>9. Sum(column) = SumFunctionOnSet(w, S)
    BY <1>1, <1>6 DEF Sum, SumFunction
<1>10. QED
    BY <1>3, <1>7, <1>8, <1>9

(* What the reports show agrees, whichever jobs were rolled back in        *)
(* between and however many rows the totals have come to be spread over:   *)
(* days with totals, sign-ups with users, the list of top users with the   *)
(* events (AdminAnalyticsService.getAnalytics,                             *)
(* getTransactionVolumeOverTime, getNewUsersOverTime,                      *)
(* getTopUsersByTransactionValue).                                         *)
THEOREM ReportsTellOneStory == Spec => []ReportsAgree
<1>1. Inv /\ HistoryInv => ReportsAgree
    <2>1. SUFFICES ASSUME Inv, HistoryInv, Undisturbed PROVE ReportsAgree
        BY DEF ReportsAgree
    <2>2. PICK days : days = getTransactionVolumeOverTime
        OBVIOUS
    <2>3. PICK joins : joins = getNewUsersOverTime
        OBVIOUS
    <2>4. PICK value : value = SumFunction([d \in DOMAIN days |-> days[d].totalValue])
        OBVIOUS
    <2>5. PICK count : count = SumFunction([d \in DOMAIN days |-> days[d].count])
        OBVIOUS
    <2>6. PICK joined : joined = SumFunction([d \in DOMAIN joins |-> joins[d].count])
        OBVIOUS
    <2>7. /\ events \in SUBSET Possible /\ IsFiniteSet(events)
          /\ Sum("count") = Cardinality(events)
          /\ Sum("value") = Naira(events) * 100
          /\ IsFiniteSet(SignUps) /\ Sum("users") = Cardinality(SignUps)
        BY <2>1, WhenUndisturbed
    <2>8. value = Naira(events) /\ count = Cardinality(events)
        BY <2>2, <2>4, <2>5, <2>7, DaysAddUp
    <2>9. joined = Cardinality(SignUps)
        BY <2>3, <2>6, <2>7, JoinsAddUp
    <2>10. ASSUME Cardinality(Snapshots \intersect DOMAIN rows) = 1, NEW shown \in getAnalytics
           PROVE  /\ shown.totalTransactionValue = value
                  /\ shown.totalTransactionCount = count
                  /\ shown.totalUsers = joined
        <3>1. PICK id \in Snapshots \intersect DOMAIN rows :
                  /\ shown.totalTransactionValue = rows[id].value \div 100
                  /\ shown.totalTransactionCount = rows[id].count
                  /\ shown.totalUsers = rows[id].users
            BY DEF getAnalytics
        <3>2. /\ Sum("value") = rows[id].value /\ Sum("count") = rows[id].count
              /\ Sum("users") = rows[id].users
            BY <2>1, <2>10, OneSnapshot DEF Columns, HistoryInv
        <3>3. PICK n \in Nat : n = Naira(events)
            BY <2>7, NairaIs
        <3>4. (n * 100) \div 100 = n
            OBVIOUS
        <3>5. rows[id].value \div 100 = n
            BY <2>7, <3>2, <3>3, <3>4
        <3>6. QED
            BY <2>7, <2>8, <2>9, <3>1, <3>2, <3>3, <3>5
    <2>11. \A d \in DOMAIN days : days[d].totalValue = days[d].debitTotal + days[d].creditTotal
        BY <2>2, <2>7, DaysAddUp
    <2>12. \A top \in getTopUsersByTransactionValue(Cardinality(Users)) :
               SumFunction([i \in DOMAIN top |-> top[i].volume]) = value
        BY <2>1, <2>8, TopAddsUp
    <2>13. QED
        BY <2>2, <2>3, <2>4, <2>5, <2>6, <2>10, <2>11, <2>12 DEF ReportsAgree
<1>2. QED
    BY <1>1, HistoryInvariance, PTL
=============================================================================
