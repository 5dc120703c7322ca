------------------------- MODULE OutboxLeaseProofs --------------------------
(***************************************************************************)
(* What the lease of a row gives while no lease ends under a working tick:  *)
(* proofs about Outbox with MaxOverruns = 0 and everything else arbitrary.  *)
(***************************************************************************)
EXTENDS OutboxProofs

\* A held row still has time on its lease, and its tick knows its attempts.
Running == \A t \in Tick : \A r \in ticks[t].batch :
              rows[r].lease > 0 /\ ticks[t].seen[r] = rows[r].attempts

\* Only a leased row has a lease, and only a failed one backs off.
Resting == \A r \in RowId : /\ rows[r].status # "leased" => rows[r].lease = 0
                            /\ rows[r].next = "later" => rows[r].status = "failed"

\* The inductive invariant.
LeaseInv == TypeInv /\ OneHolder /\ Running /\ Resting /\ AttemptsLeft

-----------------------------------------------------------------------------

\* Initially nothing is leased.
LEMMA LeaseInit == Init => LeaseInv
<1> SUFFICES ASSUME Init PROVE LeaseInv
  OBVIOUS
<1>1. TypeInv
  BY TypeInit
<1>2. OneHolder /\ Running
  BY DEF Init, OneHolder, Running, Held, IdleTick
<1>3. Resting /\ AttemptsLeft
  BY DEF Init, Resting, AttemptsLeft, RowOf
<1> QED
  BY <1>1, <1>2, <1>3 DEF LeaseInv

\* A step that leaves the rows and the batches as they are keeps the invariant.
LEMMA LeaseKept ==
    ASSUME LeaseInv, TypeInv', UNCHANGED rows,
           \A t \in Tick : ticks'[t].batch = ticks[t].batch /\ ticks'[t].seen = ticks[t].seen
    PROVE  LeaseInv'
BY DEF LeaseInv, OneHolder, Held, Running, Resting, AttemptsLeft

\* A call leaves the batches as they are.
LEMMA BatchesKept ==
    ASSUME TypeOK, NEW t \in Tick,
           \E call, ref : ticks' = [ticks EXCEPT ![t] = Calling(@, call, ref)]
    PROVE  \A u \in Tick : ticks'[u].batch = ticks[u].batch /\ ticks'[u].seen = ticks[u].seen
BY DEF TypeOK, Calling, TickState

\* So does one that changes a row nobody holds and that stays unleased.
LEMMA LeaseFree ==
    ASSUME LeaseInv, TypeInv', UNCHANGED ticks,
           NEW n \in RowId, NEW row, rows' = [rows EXCEPT ![n] = row],
           rows[n].status # "leased",
           row.status # "leased", row.lease = 0, row.next = "later" => row.status = "failed",
           row.status = "failed" => row.attempts < MaxAttempts
    PROVE  LeaseInv'
<1>1. rows \in [RowId -> Row] /\ \A t \in Tick : ticks[t].batch \subseteq RowId
  BY DEF LeaseInv, TypeInv, TypeOK, TickState
<1>2. ~Held(n)
  BY DEF LeaseInv, OneHolder
<1>3. rows'[n] = row /\ \A r \in RowId : r # n => rows'[r] = rows[r]
  BY <1>1
<1>4. OneHolder'
  BY <1>2, <1>3 DEF LeaseInv, OneHolder, Held
<1>5. Running'
  BY <1>1, <1>2, <1>3 DEF LeaseInv, Running, Held
<1>6. Resting' /\ AttemptsLeft'
  BY <1>3 DEF LeaseInv, Resting, AttemptsLeft
<1> QED
  BY <1>4, <1>5, <1>6 DEF LeaseInv

\* And one that settles the row at the head of a tick.
LEMMA LeaseSettled ==
    ASSUME LeaseInv, TypeInv', NEW t \in Tick, NEW h \in ticks[t].batch, NEW row,
           rows' = [rows EXCEPT ![h] = row], ticks' = [ticks EXCEPT ![t] = Without(@, h)],
           row.status # "leased", row.lease = 0, row.next = "later" => row.status = "failed",
           row.status = "failed" => row.attempts < MaxAttempts
    PROVE  LeaseInv'
<1>1. /\ rows \in [RowId -> Row] /\ ticks \in [Tick -> TickState]
      /\ \A u \in Tick : ticks[u].batch \subseteq RowId
  BY DEF LeaseInv, TypeInv, TypeOK, TickState
<1>2. rows'[h] = row /\ \A r \in RowId : r # h => rows'[r] = rows[r]
  BY <1>1
<1>3. /\ \A u \in Tick : u # t => ticks'[u] = ticks[u]
      /\ ticks'[t].batch = ticks[t].batch \ {h}
      /\ \A r \in RowId : r # h => ticks'[t].seen[r] = ticks[t].seen[r]
  BY <1>1 DEF Without, TickState
<1>4. \A u \in Tick : h \notin ticks'[u].batch
  BY <1>1, <1>3 DEF LeaseInv, OneHolder
<1>5. \A u \in Tick : ticks'[u].batch \subseteq ticks[u].batch
  BY <1>3
<1>6. OneHolder'
  BY <1>2, <1>4, <1>5 DEF LeaseInv, OneHolder, Held
<1>7. Running'
  <2> SUFFICES ASSUME NEW u \in Tick, NEW r \in ticks'[u].batch
               PROVE  rows'[r].lease > 0 /\ ticks'[u].seen[r] = rows'[r].attempts
    BY DEF Running
  <2>1. r \in ticks[u].batch /\ r \in RowId /\ r # h
    BY <1>1, <1>4, <1>5
  <2>2. ticks'[u].seen[r] = ticks[u].seen[r]
    BY <1>3, <2>1
  <2> QED
    BY <1>2, <2>1, <2>2 DEF LeaseInv, Running
<1>8. Resting' /\ AttemptsLeft'
  BY <1>2 DEF LeaseInv, Resting, AttemptsLeft
<1> QED
  BY <1>6, <1>7, <1>8 DEF LeaseInv

\* A claim takes rows nobody holds: a lease that ended belonged to no tick.
LEMMA LeaseClaim ==
    ASSUME LeaseInv, TypeInv', NEW t \in Tick, Claim(t)
    PROVE  LeaseInv'
<1>1. /\ rows \in [RowId -> Row] /\ ticks \in [Tick -> TickState]
      /\ \A u \in Tick : ticks[u].batch \subseteq RowId
  BY DEF LeaseInv, TypeInv, TypeOK, TickState
<1> DEFINE rs == Reclaimed(rows)
           b == Batch(rs)
<1>2. \A r \in RowId : /\ rs[r] \in Row
                       /\ rs[r] = rows[r]
                          \/ /\ rows[r].status = "leased" /\ rows[r].lease = 0
                             /\ rs[r] = [rows[r] EXCEPT !.status = "pending"]
  BY <1>1 DEF Reclaimed, Row, Statuses
<1>3. b \subseteq RowId /\ \A r \in b : rs[r].status \in {"pending", "failed"} /\ rs[r].next = "due"
  BY DEF Batch, Claimable
<1>4. /\ rows' = [r \in RowId |-> IF r \in b THEN Leased(rs[r]) ELSE rs[r]]
      /\ ticks' = [ticks EXCEPT
            ![t] = [batch |-> b,
                    seen |-> [r \in RowId |-> IF r \in b THEN rs[r].attempts + 1 ELSE 0],
                    call |-> "none", ref |-> NoIri]]
      /\ ticks[t].batch = {}
  BY DEF Claim
<1> HIDE DEF rs, b
<1>5. /\ ticks'[t].batch = b
      /\ \A r \in b : ticks'[t].seen[r] = rs[r].attempts + 1
      /\ \A u \in Tick : u # t => ticks'[u] = ticks[u]
  BY <1>1, <1>3, <1>4
<1>6. \A r \in RowId : Held(r) => rs[r] = rows[r] /\ r \notin b
  <2> SUFFICES ASSUME NEW r \in RowId, Held(r) PROVE rs[r] = rows[r] /\ r \notin b
    OBVIOUS
  <2>1. rows[r].status = "leased" /\ rows[r].lease > 0
    BY DEF LeaseInv, OneHolder, Running, Held
  <2>2. ~(rows[r].lease = 0)
    BY <2>1
  <2>3. rs[r] = rows[r]
    BY <1>2, <2>2
  <2> QED
    BY <1>3, <2>1, <2>3
<1>7. \A r \in b : /\ rows'[r].status = "leased" /\ rows'[r].lease = LeaseTime
                   /\ rows'[r].attempts = rs[r].attempts + 1 /\ rows'[r].next = "due"
  BY <1>2, <1>3, <1>4 DEF Leased, Row
<1>8. \A r \in RowId : r \notin b => rows'[r] = rs[r]
  BY <1>4
<1>9. \A u \in Tick : \A r \in ticks[u].batch :
         r \in RowId /\ Held(r) /\ r \notin b /\ rows'[r] = rows[r]
  BY <1>1, <1>6, <1>8 DEF Held
<1>10. LeaseTime > 0
  BY OutboxAssumption
<1>11. OneHolder'
  <2>1. ASSUME NEW r \in RowId, NEW u \in Tick, NEW w \in Tick,
               r \in ticks'[u].batch, r \in ticks'[w].batch
        PROVE  u = w
    BY <1>5, <1>9, <2>1 DEF LeaseInv, OneHolder
  <2>2. ASSUME NEW r \in RowId, NEW u \in Tick, r \in ticks'[u].batch
        PROVE  rows'[r].status = "leased"
    <3>1. CASE u = t
      BY <1>5, <1>7, <2>2, <3>1
    <3>2. CASE u # t
      BY <1>5, <1>9, <2>2, <3>2 DEF LeaseInv, OneHolder
    <3> QED
      BY <3>1, <3>2
  <2> QED
    BY <2>1, <2>2 DEF OneHolder, Held
<1>12. Running'
  <2> SUFFICES ASSUME NEW u \in Tick, NEW r \in ticks'[u].batch
               PROVE  rows'[r].lease > 0 /\ ticks'[u].seen[r] = rows'[r].attempts
    BY DEF Running
  <2>1. CASE u = t
    BY <1>5, <1>7, <1>10, <2>1
  <2>2. CASE u # t
    BY <1>5, <1>9, <2>2 DEF LeaseInv, Running
  <2> QED
    BY <2>1, <2>2
<1>13. \A r \in RowId : /\ rs[r].status # "leased" => rs[r].lease = 0
                        /\ rs[r].next = "later" => rs[r].status = "failed"
                        /\ rs[r].status = "failed" => rs[r].attempts < MaxAttempts
  <2> SUFFICES ASSUME NEW r \in RowId
               PROVE  /\ rs[r].status # "leased" => rs[r].lease = 0
                      /\ rs[r].next = "later" => rs[r].status = "failed"
                      /\ rs[r].status = "failed" => rs[r].attempts < MaxAttempts
    OBVIOUS
  <2>1. CASE rs[r] = rows[r]
    BY <2>1 DEF LeaseInv, Resting, AttemptsLeft
  <2>2. CASE /\ rows[r].status = "leased" /\ rows[r].lease = 0
             /\ rs[r] = [rows[r] EXCEPT !.status = "pending"]
    BY <1>1, <2>2 DEF LeaseInv, Resting, Row
  <2> QED
    BY <1>2, <2>1, <2>2
<1>14. Resting' /\ AttemptsLeft'
  BY <1>7, <1>8, <1>13 DEF Resting, AttemptsLeft
<1> QED
  BY <1>11, <1>12, <1>14 DEF LeaseInv

\* Time passes: with no overrun allowed, no lease ends while its row is held.
LEMMA LeaseElapse ==
    ASSUME LeaseInv, TypeInv', MaxOverruns = 0, Elapse
    PROVE  LeaseInv'
<1>1. rows \in [RowId -> Row] /\ spent.overrun \in Nat
      /\ \A u \in Tick : ticks[u].batch \subseteq RowId
  BY DEF LeaseInv, TypeInv, TypeOK, TickState
<1>2. Overdue = {}
  BY <1>1 DEF Elapse
<1>3. \A r \in RowId : /\ rows'[r].status = rows[r].status
                       /\ rows'[r].attempts = rows[r].attempts
                       /\ rows'[r].next = rows[r].next
                       /\ rows[r].lease = 0 => rows'[r].lease = 0
                       /\ rows[r].lease > 1 => rows'[r].lease > 0
  BY <1>1, OutboxAssumption DEF Elapse, Row
<1>4. \A r \in RowId : Held(r) => rows[r].lease > 1
  <2> SUFFICES ASSUME NEW r \in RowId, Held(r) PROVE rows[r].lease > 1
    OBVIOUS
  <2>1. rows[r].status = "leased" /\ rows[r].lease > 0
    BY DEF LeaseInv, OneHolder, Running, Held
  <2>2. rows[r].lease # 1
    BY <1>2, <2>1 DEF Overdue
  <2>3. rows[r].lease \in Nat
    BY <1>1, OutboxAssumption DEF Row
  <2> QED
    BY <2>1, <2>2, <2>3
<1>5. UNCHANGED ticks
  BY DEF Elapse
<1>6. OneHolder'
  BY <1>3, <1>5 DEF LeaseInv, OneHolder, Held
<1>7. Running'
  BY <1>1, <1>3, <1>4, <1>5 DEF LeaseInv, Running, Held
<1>8. Resting' /\ AttemptsLeft'
  BY <1>3 DEF LeaseInv, Resting, AttemptsLeft
<1> QED
  BY <1>6, <1>7, <1>8 DEF LeaseInv

-----------------------------------------------------------------------------

LEMMA LeaseStep ==
    ASSUME MaxOverruns = 0, LeaseInv, [Next]_vars
    PROVE  LeaseInv'
<1>a. TypeInv /\ TypeInv'
  BY TypeStep DEF LeaseInv
<1>b. /\ rows \in [RowId -> Row] /\ ticks \in [Tick -> TickState]
  BY <1>a DEF TypeInv, TypeOK
<1>1. ASSUME NEW op \in Requests, Enqueue(op) PROVE LeaseInv'
  <2>1. NewId(rows) \in RowId /\ rows[NewId(rows)].status = "absent"
    BY <1>1, NewIdFree DEF Enqueue
  <2>2. /\ rows' = [rows EXCEPT ![NewId(rows)] = RowOf(op, "pending")]
        /\ UNCHANGED ticks
    BY <1>1 DEF Enqueue, Insert
  <2>3. /\ RowOf(op, "pending").status = "pending" /\ RowOf(op, "pending").lease = 0
        /\ RowOf(op, "pending").next = "due"
    BY DEF RowOf
  <2> QED
    BY <1>a, <2>1, <2>2, <2>3, LeaseFree
<1>2. ASSUME NEW t \in Tick, Send(t) \/ Accept(t)
      PROVE  LeaseInv'
  <2>1. UNCHANGED rows
    BY <1>2 DEF Send, Accept, tableVars
  <2>2. \E call, ref : ticks' = [ticks EXCEPT ![t] = Calling(@, call, ref)]
    BY <1>2 DEF Send, Accept
  <2> QED
    BY <1>a, <2>1, <2>2, BatchesKept, LeaseKept DEF TypeInv
<1>3. ASSUME NEW t \in Tick, NEW c \in Answers \cup {"sent"}, LoseAnswer(t, c) \/ Refuse(t, c)
      PROVE  LeaseInv'
  <2>1. UNCHANGED rows
    BY <1>3 DEF LoseAnswer, Refuse, tableVars
  <2>2. \E call, ref : ticks' = [ticks EXCEPT ![t] = Calling(@, call, ref)]
    BY <1>3 DEF LoseAnswer, Refuse
  <2> QED
    BY <1>a, <2>1, <2>2, BatchesKept, LeaseKept DEF TypeInv
<1>4. ASSUME NEW t \in Tick, NEW h \in ticks[t].batch, NEW s \in {"failed", "dead"},
             MarkFailed(h, s), ticks' = [ticks EXCEPT ![t] = Without(@, h)],
             s = "failed" => ticks[t].seen[h] < MaxAttempts
      PROVE  LeaseInv'
  <2>1. h \in RowId /\ rows[h] \in Row
    BY <1>b DEF TickState
  <2>2. rows[h].status = "leased" /\ ticks[t].seen[h] = rows[h].attempts
    BY <2>1 DEF LeaseInv, OneHolder, Held, Running
  <2>3. rows[h].next = "due"
    BY <2>1, <2>2 DEF LeaseInv, Resting, Row
  <2> DEFINE row == Failed(rows[h], s)
  <2>4. /\ row.status = s /\ row.lease = 0 /\ row.attempts = rows[h].attempts
        /\ row.next = "later" => s = "failed"
    BY <2>1, <2>3 DEF Failed, Row
  <2>5. rows' = [rows EXCEPT ![h] = row]
    BY <1>4 DEF MarkFailed
  <2> HIDE DEF row
  <2> QED
    BY <1>a, <1>4, <2>2, <2>4, <2>5, LeaseSettled
<1>5. ASSUME NEW t \in Tick, HydrateFails(t) PROVE LeaseInv'
  BY <1>4, <1>5, <1>a, HeadInBatch DEF HydrateFails, Runs, TypeInv
<1>6. ASSUME NEW t \in Tick, SettleFailed(t) PROVE LeaseInv'
  <2>1. Head(t) \in ticks[t].batch /\ Head(t) \in RowId
    BY <1>6, <1>a, HeadInBatch DEF SettleFailed, TypeInv, CallsHaveRow
  <2>2. ticks[t].seen[Head(t)] \in Nat /\ MaxAttempts \in Nat
    BY <1>b, <2>1, OutboxAssumption DEF TickState
  <2>3. PICK s \in {"failed", "dead"} :
           /\ MarkFailed(Head(t), s)
           /\ s = "failed" => ~(ticks[t].seen[Head(t)] >= MaxAttempts)
    BY <1>6 DEF SettleFailed, Verdict
  <2>4. s = "failed" => ticks[t].seen[Head(t)] < MaxAttempts
    BY <2>2, <2>3
  <2>5. ticks' = [ticks EXCEPT ![t] = Without(@, Head(t))]
    BY <1>6 DEF SettleFailed
  <2> QED
    BY <1>4, <2>1, <2>3, <2>4, <2>5
<1>7. ASSUME NEW t \in Tick, SettleDelivered(t) PROVE LeaseInv'
  <2> DEFINE h == Head(t)
             row == Delivered(rows[h], ticks[t].ref)
  <2>1. h \in ticks[t].batch /\ h \in RowId
    BY <1>7, <1>a, HeadInBatch DEF SettleDelivered, TypeInv, CallsHaveRow
  <2>2. rows[h].status = "leased" /\ rows[h] \in Row
    BY <1>b, <2>1 DEF LeaseInv, OneHolder, Held
  <2>3. rows[h].next = "due"
    BY <2>1, <2>2 DEF LeaseInv, Resting, Row
  <2>4. row.status = "delivered" /\ row.lease = 0 /\ row.next = "due"
    BY <2>2, <2>3 DEF Delivered, Row
  <2>5. rows' = [rows EXCEPT ![h] = row] /\ ticks' = [ticks EXCEPT ![t] = Without(@, h)]
    BY <1>7 DEF SettleDelivered
  <2> HIDE DEF h, row
  <2> QED
    BY <1>a, <2>1, <2>4, <2>5, LeaseSettled
<1>8. ASSUME NEW r \in RowId, BackoffElapses(r) PROVE LeaseInv'
  <2> DEFINE row == [rows[r] EXCEPT !.next = "due"]
  <2>1. rows[r].status = "failed" /\ rows[r].lease = 0 /\ rows[r].attempts < MaxAttempts
    BY <1>8 DEF BackoffElapses, LeaseInv, Resting, AttemptsLeft
  <2>2. /\ row.status = "failed" /\ row.lease = 0 /\ row.next = "due"
        /\ row.attempts < MaxAttempts
    BY <1>b, <2>1 DEF Row
  <2>3. rows' = [rows EXCEPT ![r] = row] /\ UNCHANGED ticks
    BY <1>8 DEF BackoffElapses
  <2> HIDE DEF row
  <2> QED
    BY <1>a, <2>1, <2>2, <2>3, LeaseFree
<1>9. ASSUME NEW r \in RowId, Retry(r) PROVE LeaseInv'
  <2> DEFINE row == Requeued(rows[r])
  <2>1. row.status = "pending" /\ row.lease = 0 /\ row.next = "due"
    BY <1>b DEF Requeued, Row
  <2>2. /\ rows[r].status # "leased"
        /\ rows' = [rows EXCEPT ![r] = row] /\ UNCHANGED ticks
    BY <1>9 DEF Retry
  <2> HIDE DEF row
  <2> QED
    BY <1>a, <2>1, <2>2, LeaseFree
<1>10. CASE Crash
  <2>1. UNCHANGED rows /\ \A t \in Tick : ticks'[t].batch = {}
    BY <1>10 DEF Crash, IdleTick, tableVars
  <2> QED
    BY <1>a, <2>1 DEF LeaseInv, OneHolder, Held, Running, Resting, AttemptsLeft
<1>11. CASE UNCHANGED vars
  BY <1>a, <1>11, LeaseKept DEF vars
<1> QED
  BY <1>a, <1>1, <1>2, <1>3, <1>5, <1>6, <1>7, <1>8, <1>9, <1>10, <1>11, LeaseClaim,
     LeaseElapse DEF Next, Delivering, Worker, PartDb, Answers

\* LeaseInv is an invariant as long as leases outlive their ticks.
LEMMA LeaseInvariant == ASSUME MaxOverruns = 0 PROVE Spec => []LeaseInv
<1>1. LeaseInv /\ [Next]_vars => LeaseInv'
  BY LeaseStep
<1> QED
  BY <1>1, LeaseInit, PTL DEF Spec

\* As long as leases outlive their ticks, claimBatch hands a row to one tick at a time,
\* and a tick works on leased rows only.
THEOREM HeldByOne == ASSUME MaxOverruns = 0 PROVE Spec => []OneHolder
<1>1. LeaseInv => OneHolder
  BY DEF LeaseInv
<1> QED
  BY <1>1, LeaseInvariant, PTL

\* As long as leases outlive their ticks, a row that goes on backing off has attempts
\* left, although processOne judges by the attempts it saw at the claim.
THEOREM FailedHasAttempts == ASSUME MaxOverruns = 0 PROVE Spec => []AttemptsLeft
<1>1. LeaseInv => AttemptsLeft
  BY DEF LeaseInv
<1> QED
  BY <1>1, LeaseInvariant, PTL

-----------------------------------------------------------------------------
(* The outbox implements Delivery and repeats nothing needlessly.             *)

\* What a tick holds depends on nothing, or on what is delivered.
DepDone == \A t \in Tick : \A r \in ticks[t].batch : DepDelivered(rows, r)

\* The inductive invariant.
RefInv == LeaseInv /\ DepInv /\ DepDone

\* Delivered rows stay, and dependencies of rows do not change.
Keeps == \A r \in RowId :
            /\ rows[r].status = "delivered" => rows'[r] = rows[r]
            /\ rows[r].status # "absent" => rows'[r].dep = rows[r].dep

\* The variables of Delivery as the refinement computes them.
StageNow == [r \in RowId |-> StageOf(rows[r].status)]
AfterNow == [r \in RowId |-> rows[r].dep]

\* What has to be shown of a step.
Refines == Keeps /\ DepDone' /\ (D!Next \/ UNCHANGED D!delivery)

-----------------------------------------------------------------------------

\* The stages of the statuses.
LEMMA StageValues ==
    /\ StageOf("absent") = "absent" /\ StageOf("delivered") = "done"
    /\ StageOf("dead") = "given up"
    /\ \A s \in Open : StageOf(s) = "queued"
BY DEF StageOf, Open

LEMMA RefTypes ==
    ASSUME RefInv
    PROVE  /\ rows \in [RowId -> Row] /\ ticks \in [Tick -> TickState]
           /\ effects \in [RowId -> Nat]
           /\ \A t \in Tick : ticks[t].batch \subseteq RowId
           /\ \A r \in RowId : rows[r].dep \in RowId \cup {NoRow}
BY DEF RefInv, LeaseInv, TypeInv, TypeOK, TickState, Row

\* If no tick gets new rows, they still depend on what is delivered.
LEMMA DepDoneKept ==
    ASSUME RefInv, Keeps, \A t \in Tick : ticks'[t].batch \subseteq ticks[t].batch
    PROVE  DepDone'
<1> SUFFICES ASSUME NEW t \in Tick, NEW r \in ticks'[t].batch
             PROVE  DepDelivered(rows', r)
  BY DEF DepDone, DepDelivered
<1>1. r \in ticks[t].batch /\ r \in RowId
  BY RefTypes
<1>2. rows'[r].dep = rows[r].dep
  BY <1>1 DEF RefInv, DepInv, HeldReady, Keeps
<1>3. rows[r].dep = NoRow \/ rows[rows[r].dep].status = "delivered"
  BY <1>1 DEF RefInv, DepDone, DepDelivered
<1> QED
  BY <1>1, <1>2, <1>3, RefTypes DEF Keeps, DepDelivered

\* A step that changes no stage is a stutter.
LEMMA StageKept ==
    ASSUME UNCHANGED effects,
           \A r \in RowId : /\ rows'[r].dep = rows[r].dep
                            /\ StageOf(rows'[r].status) = StageOf(rows[r].status)
    PROVE  UNCHANGED D!delivery
BY DEF D!delivery

\* A step that changes the row n.
LEMMA StageOfRow ==
    ASSUME NEW n \in RowId, NEW row, rows \in [RowId -> Row], rows' = [rows EXCEPT ![n] = row]
    PROVE  /\ StageNow' = [StageNow EXCEPT ![n] = StageOf(row.status)]
           /\ AfterNow' = [AfterNow EXCEPT ![n] = row.dep]
<1>1. rows'[n] = row /\ \A r \in RowId : r # n => rows'[r] = rows[r]
  OBVIOUS
<1> QED
  BY <1>1 DEF StageNow, AfterNow

\* A held row is ready.
LEMMA HeldIsReady ==
    ASSUME RefInv, NEW t \in Tick, NEW h \in ticks[t].batch
    PROVE  /\ h \in RowId /\ rows[h].status = "leased"
           /\ StageNow[h] = "queued"
           /\ AfterNow[h] = NoRow \/ StageNow[AfterNow[h]] = "done"
           /\ D!Ready(h)
<1>1. h \in RowId /\ rows[h].status = "leased"
  BY RefTypes DEF RefInv, LeaseInv, OneHolder, Held
<1>2. rows[h].dep = NoRow \/ (rows[h].dep \in RowId /\ rows[rows[h].dep].status = "delivered")
  BY <1>1, RefTypes DEF RefInv, DepDone, DepDelivered
<1>3. StageOf(rows[h].status) = "queued"
  BY <1>1, StageValues DEF Open
<1>4. rows[h].dep = NoRow \/ StageOf(rows[rows[h].dep].status) = "done"
  BY <1>2, StageValues
<1> QED
  BY <1>1, <1>2, <1>3, <1>4 DEF StageNow, AfterNow, D!Ready

-----------------------------------------------------------------------------
(* The kinds of steps.                                                      *)

\* The table, the batches and the effects stay.
LEMMA QuietRefines ==
    ASSUME RefInv, UNCHANGED <<rows, effects>>,
           \A t \in Tick : ticks'[t].batch \subseteq ticks[t].batch
    PROVE  Refines
<1>1. Keeps
  BY DEF Keeps
<1> QED
  BY <1>1, DepDoneKept, StageKept DEF Refines

\* A row that nobody holds changes within its stage, or is taken up again.
LEMMA FreeRefines ==
    ASSUME RefInv, UNCHANGED <<effects, ticks>>, NEW n \in RowId, NEW row,
           rows' = [rows EXCEPT ![n] = row], row.dep = rows[n].dep,
           rows[n].status \in {"failed", "dead"}, row.status \in Open
    PROVE  Refines
<1>1. rows'[n] = row /\ \A r \in RowId : r # n => rows'[r] = rows[r]
  BY RefTypes
<1>2. Keeps
  BY <1>1 DEF Keeps
<1>3. CASE rows[n].status = "failed"
  <2>1. \A r \in RowId : StageOf(rows'[r].status) = StageOf(rows[r].status)
    BY <1>1, <1>3, StageValues DEF Open
  <2> QED
    BY <1>1, <1>2, <2>1, DepDoneKept, StageKept DEF Refines
<1>4. CASE rows[n].status = "dead"
  <2>1. /\ StageNow' = [StageNow EXCEPT ![n] = "queued"]
        /\ AfterNow' = [AfterNow EXCEPT ![n] = row.dep]
    <3>1. StageOf(row.status) = "queued"
      BY StageValues
    <3>2. /\ StageNow' = [StageNow EXCEPT ![n] = StageOf(row.status)]
          /\ AfterNow' = [AfterNow EXCEPT ![n] = row.dep]
      BY RefTypes, StageOfRow
    <3> QED
      BY <3>1, <3>2
  <2>2. AfterNow' = AfterNow
    BY <1>1 DEF AfterNow
  <2>3. StageNow[n] = "given up"
    BY <1>4, StageValues DEF StageNow
  <2>4. D!TakeUp(n)
    BY <2>1, <2>2, <2>3 DEF D!TakeUp, StageNow, AfterNow
  <2>5. D!Next
    BY <2>4 DEF D!Next
  <2> QED
    BY <1>2, <2>5, DepDoneKept DEF Refines
<1> QED
  BY <1>3, <1>4

\* A tick settles the row at its head.
LEMMA SettledRefines ==
    ASSUME RefInv, UNCHANGED effects, NEW t \in Tick, NEW h \in ticks[t].batch, NEW row,
           rows' = [rows EXCEPT ![h] = row], row.dep = rows[h].dep,
           ticks' = [ticks EXCEPT ![t] = Without(@, h)],
           \/ row.status \in {"failed", "dead"}
           \/ row.status = "delivered" /\ effects[h] > 0
    PROVE  Refines
<1>0. h \in RowId /\ rows[h].status = "leased" /\ StageNow[h] = "queued" /\ D!Ready(h)
  BY HeldIsReady
<1>1. rows'[h] = row /\ \A r \in RowId : r # h => rows'[r] = rows[r]
  BY <1>0, RefTypes
<1>2. Keeps
  BY <1>0, <1>1 DEF Keeps
<1>3. \A u \in Tick : ticks'[u].batch \subseteq ticks[u].batch
  BY RefTypes DEF Without, TickState
<1>4. DepDone'
  BY <1>2, <1>3, DepDoneKept
<1>5. AfterNow' = AfterNow
  BY <1>1 DEF AfterNow
<1>6. StageNow' = [StageNow EXCEPT ![h] = StageOf(row.status)]
  BY <1>0, RefTypes, StageOfRow
<1>7. CASE row.status = "failed"
  <2>1. StageOf(row.status) = StageOf(rows[h].status)
    BY <1>0, <1>7, StageValues DEF Open
  <2>2. \A r \in RowId : /\ rows'[r].dep = rows[r].dep
                         /\ StageOf(rows'[r].status) = StageOf(rows[r].status)
    BY <1>1, <2>1
  <2> QED
    BY <1>2, <1>4, <2>2, StageKept DEF Refines
<1>8. CASE row.status = "dead"
  <2>1. D!GiveUp(h)
    BY <1>0, <1>5, <1>6, <1>8, StageValues DEF D!GiveUp, StageNow, AfterNow
  <2> QED
    BY <1>0, <1>2, <1>4, <2>1 DEF Refines, D!Next
<1>9. CASE row.status = "delivered" /\ effects[h] > 0
  <2>1. D!Finish(h)
    BY <1>0, <1>5, <1>6, <1>9, StageValues DEF D!Finish, StageNow, AfterNow
  <2> QED
    BY <1>0, <1>2, <1>4, <2>1 DEF Refines, D!Next
<1> QED
  BY <1>7, <1>8, <1>9

\* Part-DB carries the operation of the head of a tick out.
LEMMA EffectRefines ==
    ASSUME RefInv, UNCHANGED rows, NEW t \in Tick, ticks[t].batch # {},
           effects' = [effects EXCEPT ![Head(t)] = @ + 1],
           \A u \in Tick : ticks'[u].batch = ticks[u].batch
    PROVE  Refines
<1>1. Head(t) \in ticks[t].batch
  BY HeadInBatch DEF RefInv, LeaseInv, TypeInv
<1>2. Head(t) \in RowId /\ D!Ready(Head(t))
  BY <1>1, HeldIsReady
<1>3. D!CarryOut(Head(t))
  BY <1>2 DEF D!CarryOut
<1>4. Keeps
  BY DEF Keeps
<1>5. DepDone'
  BY <1>4, DepDoneKept
<1> QED
  BY <1>2, <1>3, <1>4, <1>5 DEF Refines, D!Next

-----------------------------------------------------------------------------

\* Callers name as a dependency only a row that is there.
LEMMA RequestedDeps ==
    ASSUME NEW op \in Requests
    PROVE  op.dep = NoRow \/ op.dep \in Present(rows)
<1>1. \A X : RowsOf(X) \subseteq Present(rows)
  BY DEF RowsOf
<1>2. \A x \in PartTarget : \A o \in PartRequests(x) : o.dep = NoRow
  BY DEF PartRequests, Op
<1>3. \A x \in LotTarget : \A o \in LotRequests(x) : o.dep = NoRow \/ o.dep \in Present(rows)
  <2> SUFFICES ASSUME NEW x \in LotTarget, NEW o \in LotRequests(x)
               PROVE  o.dep = NoRow \/ o.dep \in Present(rows)
    OBVIOUS
  <2> DEFINE pairs == Named(Columns(PartTarget), RowsOf(PartTarget))
             own == Named(Columns({x}), RowsOf({x}))
  <2>1. \E k, v : \E n \in pairs \cup own : o = Op(k, x, n, v)
    BY DEF LotRequests
  <2>2. \A n \in pairs \cup own : n[2] = NoRow \/ n[2] \in Present(rows)
    BY <1>1 DEF Named
  <2> HIDE DEF pairs, own
  <2> QED
    BY <2>1, <2>2 DEF Op
<1>4. \A o \in Removals : o.dep = NoRow \/ o.dep \in Present(rows)
  BY <1>1 DEF Removals, LotRemovals, PartRemovals, Op
<1> QED
  BY <1>2, <1>3, <1>4 DEF Requests

\* enqueue submits.
LEMMA EnqueueRefines ==
    ASSUME RefInv, NEW op \in Requests, Enqueue(op)
    PROVE  Refines
<1> DEFINE n == NewId(rows)
           row == RowOf(op, "pending")
<1>1. n \in RowId /\ rows[n].status = "absent"
  BY NewIdFree DEF Enqueue
<1>2. rows' = [rows EXCEPT ![n] = row] /\ UNCHANGED <<ticks, effects>>
  BY DEF Enqueue, Insert
<1>3. row.status = "pending" /\ row.dep = op.dep
  BY DEF RowOf
<1>4. op.dep = NoRow \/ (op.dep \in RowId /\ rows[op.dep].status # "absent")
  BY RequestedDeps DEF Present
<1> HIDE DEF n, row
<1>5. rows'[n] = row /\ \A r \in RowId : r # n => rows'[r] = rows[r]
  BY <1>1, <1>2, RefTypes
<1>6. Keeps
  BY <1>1, <1>5 DEF Keeps
<1>7. DepDone'
  BY <1>2, <1>6, DepDoneKept
<1>8. /\ StageNow' = [StageNow EXCEPT ![n] = "queued"]
      /\ AfterNow' = [AfterNow EXCEPT ![n] = op.dep]
  <2>1. StageOf(row.status) = "queued"
    BY <1>3, StageValues DEF Open
  <2>2. /\ StageNow' = [StageNow EXCEPT ![n] = StageOf(row.status)]
        /\ AfterNow' = [AfterNow EXCEPT ![n] = row.dep]
    BY <1>1, <1>2, RefTypes, StageOfRow
  <2> QED
    BY <1>3, <2>1, <2>2
<1>9. StageNow[n] = "absent"
  BY <1>1, StageValues DEF StageNow
<1>10. op.dep = NoRow \/ (op.dep \in RowId /\ StageNow[op.dep] # "absent")
  <2>1. ASSUME NEW s \in Statuses, s # "absent" PROVE StageOf(s) # "absent"
    BY <2>1, StageValues DEF Statuses, Open
  <2>2. \A r \in RowId : rows[r].status \in Statuses
    BY RefTypes DEF Row
  <2> QED
    BY <1>4, <2>1, <2>2 DEF StageNow
<1>11. D!Submit(n, op.dep)
  BY <1>2, <1>8, <1>9, <1>10 DEF D!Submit, StageNow, AfterNow
<1>12. D!Next
  BY <1>1, <1>10, <1>11 DEF D!Next
<1> QED
  BY <1>6, <1>7, <1>12 DEF Refines

\* claimBatch changes no stage, and what it claims depends on what is delivered.
LEMMA ClaimRefines ==
    ASSUME RefInv, NEW t \in Tick, Claim(t)
    PROVE  Refines
<1> DEFINE rs == Reclaimed(rows)
           b == Batch(rs)
<1>1. \A r \in RowId : /\ rs[r] \in Row /\ rs[r].dep = rows[r].dep
                       /\ rs[r].status \notin Open => rs[r] = rows[r]
                       /\ rows[r].status \notin Open => rs[r] = rows[r]
  BY RefTypes DEF Reclaimed, Row, Statuses, Open
<1>2. \A r \in b : /\ r \in RowId /\ rs[r].status \in Open
                   /\ rs[r].dep = NoRow \/ rs[rs[r].dep].status = "delivered"
  BY DEF Batch, Claimable, DepDelivered, Open
<1>3. /\ rows' = [r \in RowId |-> IF r \in b THEN Leased(rs[r]) ELSE rs[r]]
      /\ UNCHANGED effects
  BY DEF Claim
<1>4. ticks'[t].batch = b /\ \A u \in Tick : u # t => ticks'[u] = ticks[u]
  BY RefTypes DEF Claim
<1> HIDE DEF rs, b
<1>5. \A r \in RowId : r \notin b => rows'[r] = rs[r]
  BY <1>3
<1>6. \A r \in b : rows'[r].status = "leased" /\ rows'[r].dep = rs[r].dep
  BY <1>1, <1>2, <1>3 DEF Leased, Row
<1>7. \A r \in RowId : /\ rows'[r].dep = rows[r].dep
                       /\ rows[r].status \notin Open => rows'[r] = rows[r]
                       /\ rows[r].status \in Open => rows'[r].status \in Open
  <2> SUFFICES ASSUME NEW r \in RowId
               PROVE  /\ rows'[r].dep = rows[r].dep
                      /\ rows[r].status \notin Open => rows'[r] = rows[r]
                      /\ rows[r].status \in Open => rows'[r].status \in Open
    OBVIOUS
  <2>1. CASE r \in b
    BY <1>1, <1>2, <1>6, <2>1 DEF Open
  <2>2. CASE r \notin b
    BY <1>1, <1>5, <2>2
  <2> QED
    BY <2>1, <2>2
<1>8. Keeps
  BY <1>7 DEF Keeps, Open
<1>9. UNCHANGED D!delivery
  <2>1. \A r \in RowId : StageOf(rows'[r].status) = StageOf(rows[r].status)
    BY <1>7, StageValues
  <2> QED
    BY <1>3, <1>7, <2>1, StageKept
<1>10. DepDone'
  <2> SUFFICES ASSUME NEW u \in Tick, NEW r \in ticks'[u].batch
               PROVE  DepDelivered(rows', r)
    BY DEF DepDone, DepDelivered
  <2>1. r \in RowId /\ (rows[r].dep = NoRow \/ rows[rows[r].dep].status = "delivered")
    <3>1. CASE u = t
      <4>1. r \in b
        BY <1>4, <3>1
      <4>2. rs[r].dep = rows[r].dep /\ rows[r].dep \in RowId \cup {NoRow}
        BY <1>1, <1>2, <4>1, RefTypes
      <4>3. rows[r].dep \in RowId /\ rs[rows[r].dep].status = "delivered"
              => rows[rows[r].dep].status = "delivered"
        BY <1>1 DEF Open
      <4> QED
        BY <1>2, <4>1, <4>2, <4>3
    <3>2. CASE u # t
      BY <1>4, <3>2, RefTypes DEF RefInv, DepDone, DepDelivered
    <3> QED
      BY <3>1, <3>2
  <2> QED
    BY <1>7, <2>1, RefTypes DEF DepDelivered, Open
<1> QED
  BY <1>8, <1>9, <1>10 DEF Refines

-----------------------------------------------------------------------------

LEMMA RefStep ==
    ASSUME RefInv, [Next]_vars
    PROVE  Refines
<1>0. TypeOK /\ CallsHaveRow
  BY DEF RefInv, LeaseInv, TypeInv
<1>1. ASSUME NEW t \in Tick, Send(t) PROVE Refines
  <2>1. \A u \in Tick : ticks'[u].batch \subseteq ticks[u].batch
    BY <1>0, <1>1, BatchesKept DEF Send
  <2> QED
    BY <1>1, <2>1, QuietRefines DEF Send, tableVars
<1>2. ASSUME NEW t \in Tick, NEW c \in Answers, Refuse(t, c) PROVE Refines
  <2>1. \A u \in Tick : ticks'[u].batch \subseteq ticks[u].batch
    BY <1>0, <1>2, BatchesKept DEF Refuse
  <2> QED
    BY <1>2, <2>1, QuietRefines DEF Refuse, tableVars
<1>3. ASSUME NEW t \in Tick, Accept(t) PROVE Refines
  <2>1. \A u \in Tick : ticks'[u].batch = ticks[u].batch
    <3>1. \E i : ticks' = [ticks EXCEPT ![t] = Calling(@, "ok", i)]
      BY <1>3 DEF Accept
    <3> QED
      BY <1>0, <3>1, BatchesKept
  <2> QED
    BY <1>0, <1>3, <2>1, EffectRefines DEF Accept, tableVars, CallsHaveRow
<1>4. ASSUME NEW t \in Tick, NEW c \in Answers \cup {"sent"}, LoseAnswer(t, c) PROVE Refines
  <2>1. \A u \in Tick : ticks'[u].batch = ticks[u].batch
    BY <1>0, <1>4, BatchesKept DEF LoseAnswer
  <2> QED
    BY <1>0, <1>4, <2>1, EffectRefines DEF LoseAnswer, tableVars, CallsHaveRow
<1>5. ASSUME NEW t \in Tick, NEW h \in ticks[t].batch, NEW s \in {"failed", "dead"},
             MarkFailed(h, s), ticks' = [ticks EXCEPT ![t] = Without(@, h)],
             UNCHANGED effects
      PROVE  Refines
  <2> DEFINE row == Failed(rows[h], s)
  <2>1. row.status = s /\ row.dep = rows[h].dep
    BY RefTypes DEF Failed, Row
  <2>2. rows' = [rows EXCEPT ![h] = row]
    BY <1>5 DEF MarkFailed
  <2> HIDE DEF row
  <2> QED
    BY <1>5, <2>1, <2>2, SettledRefines
<1>6. ASSUME NEW t \in Tick, HydrateFails(t) PROVE Refines
  <2>1. Head(t) \in ticks[t].batch
    BY <1>0, <1>6, HeadInBatch DEF HydrateFails, Runs
  <2> QED
    BY <1>5, <1>6, <2>1 DEF HydrateFails
<1>7. ASSUME NEW t \in Tick, SettleFailed(t) PROVE Refines
  <2>1. Head(t) \in ticks[t].batch
    BY <1>0, <1>7, HeadInBatch DEF SettleFailed, CallsHaveRow
  <2>2. PICK s \in {"failed", "dead"} : MarkFailed(Head(t), s)
    BY <1>7 DEF SettleFailed, Verdict
  <2>3. ticks' = [ticks EXCEPT ![t] = Without(@, Head(t))] /\ UNCHANGED effects
    BY <1>7 DEF SettleFailed
  <2> QED
    BY <1>5, <2>1, <2>2, <2>3
<1>8. ASSUME NEW t \in Tick, SettleDelivered(t) PROVE Refines
  <2> DEFINE h == Head(t)
             row == Delivered(rows[h], ticks[t].ref)
  <2>1. h \in ticks[t].batch
    BY <1>0, <1>8, HeadInBatch DEF SettleDelivered, CallsHaveRow
  <2>2. effects[h] > 0
    BY <1>8 DEF SettleDelivered, RefInv, DepInv, AnswersCarriedOut
  <2>3. row.status = "delivered" /\ row.dep = rows[h].dep
    BY <2>1, RefTypes DEF Delivered, Row
  <2>4. /\ rows' = [rows EXCEPT ![h] = row]
        /\ ticks' = [ticks EXCEPT ![t] = Without(@, h)] /\ UNCHANGED effects
    BY <1>8 DEF SettleDelivered
  <2> HIDE DEF h, row
  <2> QED
    BY <2>1, <2>2, <2>3, <2>4, SettledRefines
<1>9. CASE Elapse
  <2>1. \A r \in RowId : /\ rows'[r].status = rows[r].status /\ rows'[r].dep = rows[r].dep
                         /\ rows[r].lease = 0 => rows'[r] = rows[r]
    <3>1. \A r \in RowId : rows[r].lease \in Nat
      BY RefTypes, OutboxAssumption DEF Row
    <3> QED
      BY <1>9, <3>1, RefTypes DEF Elapse, Row
  <2>2. Keeps
    BY <2>1 DEF Keeps, RefInv, LeaseInv, Resting
  <2>3. UNCHANGED <<ticks, effects>>
    BY <1>9 DEF Elapse
  <2> QED
    BY <2>1, <2>2, <2>3, DepDoneKept, StageKept DEF Refines
<1>10. ASSUME NEW r \in RowId, BackoffElapses(r) PROVE Refines
  <2> DEFINE row == [rows[r] EXCEPT !.next = "due"]
  <2>1. rows[r].status = "failed"
    BY <1>10 DEF BackoffElapses, RefInv, LeaseInv, Resting
  <2>2. row.status = "failed" /\ row.dep = rows[r].dep
    BY <2>1, RefTypes DEF Row
  <2>3. rows' = [rows EXCEPT ![r] = row] /\ UNCHANGED <<effects, ticks>>
    BY <1>10 DEF BackoffElapses
  <2> HIDE DEF row
  <2> QED
    BY <2>1, <2>2, <2>3, FreeRefines DEF Open
<1>11. ASSUME NEW r \in RowId, Retry(r) PROVE Refines
  <2> DEFINE row == Requeued(rows[r])
  <2>1. row.status = "pending" /\ row.dep = rows[r].dep
    BY RefTypes DEF Requeued, Row
  <2>2. /\ rows[r].status \in {"failed", "dead"}
        /\ rows' = [rows EXCEPT ![r] = row] /\ UNCHANGED <<effects, ticks>>
    BY <1>11 DEF Retry
  <2> HIDE DEF row
  <2> QED
    BY <2>1, <2>2, FreeRefines DEF Open
<1>12. CASE Crash
  BY <1>12, QuietRefines DEF Crash, IdleTick, tableVars
<1>13. CASE UNCHANGED vars
  BY <1>13, QuietRefines DEF vars
<1> QED
  BY <1>1, <1>2, <1>3, <1>4, <1>6, <1>7, <1>8, <1>9, <1>10, <1>11, <1>12, <1>13,
     EnqueueRefines, ClaimRefines DEF Next, Delivering, Worker, PartDb

LEMMA RefInvariant == ASSUME MaxOverruns = 0 PROVE Spec => []RefInv
<1>1. Init => RefInv
  <2> SUFFICES ASSUME Init PROVE DepDone
    BY LeaseInit, DepInit DEF RefInv
  <2> QED
    BY DEF Init, DepDone, IdleTick
<1>2. RefInv /\ [Next]_vars => RefInv'
  BY LeaseStep, DepStep, RefStep DEF RefInv, Refines
<1> QED
  BY <1>1, <1>2, PTL DEF Spec

\* As long as leases outlive their ticks, nothing takes a delivered row back or changes
\* its answer.
THEOREM DeliveredStays == ASSUME MaxOverruns = 0 PROVE Spec => DeliveredIsFinal
<1>1. RefInv /\ [Next]_vars =>
         [\A r \in RowId : rows[r].status = "delivered" => rows'[r] = rows[r]]_vars
  BY RefStep DEF Refines, Keeps
<1> QED
  BY <1>1, RefInvariant, PTL DEF Spec, DeliveredIsFinal

\* As long as leases outlive their ticks, the outbox with its leases, back-offs,
\* restarts and lost answers implements the abstract delivery.
THEOREM Implements == ASSUME MaxOverruns = 0 PROVE Spec => ImplementsDelivery
<1>1. Init => D!Init
  <2> SUFFICES ASSUME Init PROVE D!Init
    OBVIOUS
  <2>1. \A r \in RowId : StageOf(rows[r].status) = "absent" /\ rows[r].dep = NoRow
    BY StageValues DEF Init, RowOf, NoOp
  <2> QED
    BY <2>1 DEF Init, D!Init
<1>2. RefInv /\ [Next]_vars => [D!Next]_(D!delivery)
  BY RefStep DEF Refines
<1> QED
  BY <1>1, <1>2, RefInvariant, PTL DEF Spec, ImplementsDelivery, D!Spec

-----------------------------------------------------------------------------
(* What Part-DB is asked to do twice.                                       *)

\* A tick has the answer to r's call and has not stored it.
Answered(r) == \E t \in Tick : ticks[t].call = "ok" /\ Head(t) = r

\* An effect whose answer was not lost is stored, or about to be.
Accounted == \A r \in RowId :
    /\ effects[r] <= lost[r] + 1
    /\ effects[r] > lost[r] => rows[r].status = "delivered" \/ Answered(r)

\* The inductive invariant.
RepeatInv == RefInv /\ Accounted

\* A step without effects keeps Accounted if no answer is forgotten.
LEMMA AccountedKept ==
    ASSUME RepeatInv, Keeps, UNCHANGED <<effects, lost>>,
           \A t \in Tick : ticks[t].call = "ok" =>
               ticks'[t].call = "ok" /\ ticks'[t].batch = ticks[t].batch
    PROVE  Accounted'
<1>1. \A t \in Tick : ticks'[t].batch = ticks[t].batch => Head(t)' = Head(t)
  BY DEF Head
<1>2. \A r \in RowId : Answered(r) => Answered(r)'
  BY <1>1 DEF Answered
<1>3. \A r \in RowId : rows[r].status = "delivered" => rows'[r].status = "delivered"
  BY DEF Keeps
<1> QED
  BY <1>2, <1>3 DEF RepeatInv, Accounted

\* The answer of tick t is the only thing that may make its row have one effect more.
LEMMA NotAnswered ==
    ASSUME RepeatInv, NEW t \in Tick, ticks[t].call = "sent"
    PROVE  /\ Head(t) \in RowId /\ Head(t) \in ticks[t].batch
           /\ effects[Head(t)] <= lost[Head(t)]
<1>0. TypeOK /\ CallsHaveRow
  BY DEF RepeatInv, RefInv, LeaseInv, TypeInv
<1>1. Head(t) \in RowId /\ Head(t) \in ticks[t].batch
  BY <1>0, HeadInBatch DEF CallsHaveRow
<1>2. rows[Head(t)].status = "leased"
  BY <1>1, HeldIsReady DEF RepeatInv
<1>3. ASSUME Answered(Head(t)) PROVE FALSE
  <2>1. PICK u \in Tick : ticks[u].call = "ok" /\ Head(u) = Head(t)
    BY <1>3 DEF Answered
  <2>2. Head(u) \in ticks[u].batch
    BY <1>0, <2>1, HeadInBatch DEF CallsHaveRow
  <2>3. u = t
    BY <1>1, <2>1, <2>2 DEF RepeatInv, RefInv, LeaseInv, OneHolder
  <2> QED
    BY <2>1, <2>3
<1>4. effects[Head(t)] \in Nat /\ lost[Head(t)] \in Nat
  BY <1>0, <1>1 DEF TypeOK
<1> QED
  BY <1>1, <1>2, <1>3, <1>4 DEF RepeatInv, Accounted

LEMMA RepeatStep ==
    ASSUME RepeatInv, [Next]_vars
    PROVE  Accounted'
<1>0. TypeOK /\ CallsHaveRow
  BY DEF RepeatInv, RefInv, LeaseInv, TypeInv
<1>a. Keeps
  BY RefStep DEF RepeatInv, Refines
<1>b. /\ ticks \in [Tick -> TickState] /\ effects \in [RowId -> Nat]
      /\ lost \in [RowId -> Nat]
  BY <1>0 DEF TypeOK
<1>1. ASSUME NEW t \in Tick, Send(t) \/ HydrateFails(t) \/ SettleFailed(t) \/ Claim(t)
      PROVE  Accounted'
  <2>1. ticks[t].call # "ok" /\ UNCHANGED <<effects, lost>>
    BY <1>0, <1>1 DEF Send, HydrateFails, SettleFailed, Claim, Runs, CallsHaveRow
  <2>2. \A u \in Tick : u # t => ticks'[u] = ticks[u]
    BY <1>b, <1>1 DEF Send, HydrateFails, SettleFailed, Claim
  <2> QED
    BY <1>a, <2>1, <2>2, AccountedKept
<1>2. ASSUME NEW t \in Tick, NEW c \in Answers, Refuse(t, c) PROVE Accounted'
  <2>1. ticks[t].call # "ok" /\ UNCHANGED <<effects, lost>>
    BY <1>2 DEF Refuse
  <2>2. \A u \in Tick : u # t => ticks'[u] = ticks[u]
    BY <1>b, <1>2 DEF Refuse
  <2> QED
    BY <1>a, <2>1, <2>2, AccountedKept
<1>3. ASSUME NEW t \in Tick, SettleDelivered(t) PROVE Accounted'
  <2> DEFINE h == Head(t)
  <2>1. h \in RowId
    BY <1>0, <1>3, HeadInBatch DEF SettleDelivered, CallsHaveRow
  <2>2. rows'[h].status = "delivered"
    BY <1>0, <1>3, <2>1 DEF SettleDelivered, Delivered, TypeOK, Row
  <2>3. \A u \in Tick : u # t => ticks'[u] = ticks[u]
    BY <1>b, <1>3 DEF SettleDelivered
  <2>4. \A r \in RowId : r # h /\ Answered(r) => Answered(r)'
    BY <2>3 DEF Answered, Head
  <2>5. \A r \in RowId : rows[r].status = "delivered" => rows'[r].status = "delivered"
    BY <1>a DEF Keeps
  <2>6. UNCHANGED <<effects, lost>>
    BY <1>3 DEF SettleDelivered
  <2> HIDE DEF h
  <2> QED
    BY <2>2, <2>4, <2>5, <2>6 DEF RepeatInv, Accounted
<1>4. ASSUME NEW t \in Tick, Accept(t) PROVE Accounted'
  <2> DEFINE h == Head(t)
  <2>1. h \in RowId /\ effects[h] <= lost[h]
    BY <1>4, NotAnswered DEF Accept
  <2>2. \E i : ticks' = [ticks EXCEPT ![t] = Calling(@, "ok", i)]
    BY <1>4 DEF Accept
  <2>3. /\ ticks'[t].call = "ok"
        /\ \A u \in Tick : u # t => ticks'[u] = ticks[u]
    BY <1>b, <2>2 DEF Calling, TickState
  <2>4. \A u \in Tick : ticks'[u].batch = ticks[u].batch
    BY <1>0, <2>2, BatchesKept
  <2>5. \A u \in Tick : Head(u)' = Head(u)
    BY <2>4 DEF Head
  <2>6. \A r \in RowId : r = h \/ Answered(r) => Answered(r)'
    BY <1>4, <2>3, <2>5 DEF Answered
  <2>7. UNCHANGED <<rows, lost>> /\ effects' = [effects EXCEPT ![h] = @ + 1]
    BY <1>4 DEF Accept, tableVars
  <2> HIDE DEF h
  <2>8. effects'[h] = effects[h] + 1 /\ \A r \in RowId : r # h => effects'[r] = effects[r]
    BY <1>b, <2>1, <2>7
  <2>9. effects[h] \in Nat /\ lost[h] \in Nat
    BY <1>b, <2>1
  <2> SUFFICES ASSUME NEW r \in RowId
               PROVE  /\ effects'[r] <= lost'[r] + 1
                      /\ effects'[r] > lost'[r] => rows'[r].status = "delivered" \/ Answered(r)'
    BY DEF Accounted
  <2>10. CASE r = h
    <3>1. effects'[h] <= lost'[h] + 1
      BY <2>1, <2>7, <2>8, <2>9
    <3>2. Answered(r)'
      BY <2>6, <2>10
    <3> QED
      BY <2>10, <3>1, <3>2
  <2>11. CASE r # h
    <3>1. /\ effects[r] <= lost[r] + 1
          /\ effects[r] > lost[r] => rows[r].status = "delivered" \/ Answered(r)
      BY DEF RepeatInv, Accounted
    <3>2. effects'[r] = effects[r] /\ lost'[r] = lost[r] /\ rows'[r].status = rows[r].status
      BY <2>7, <2>8, <2>11
    <3> QED
      BY <2>6, <3>1, <3>2
  <2> QED
    BY <2>10, <2>11
<1>5. ASSUME NEW t \in Tick, NEW c \in Answers \cup {"sent"}, LoseAnswer(t, c)
      PROVE  Accounted'
  <2> DEFINE h == Head(t)
  <2>1. h \in RowId /\ effects[h] <= lost[h]
    BY <1>5, NotAnswered DEF LoseAnswer
  <2>2. \A u \in Tick : u # t => ticks'[u] = ticks[u]
    BY <1>b, <1>5 DEF LoseAnswer
  <2>3. \A r \in RowId : Answered(r) => Answered(r)'
    BY <1>5, <2>2 DEF Answered, Head, LoseAnswer
  <2>4. /\ UNCHANGED rows /\ effects' = [effects EXCEPT ![h] = @ + 1]
        /\ lost' = [lost EXCEPT ![h] = @ + 1]
    BY <1>5 DEF LoseAnswer, tableVars
  <2> HIDE DEF h
  <2>5. /\ effects'[h] = effects[h] + 1 /\ lost'[h] = lost[h] + 1
        /\ \A r \in RowId : r # h => effects'[r] = effects[r] /\ lost'[r] = lost[r]
    BY <1>b, <2>1, <2>4
  <2>6. effects[h] \in Nat /\ lost[h] \in Nat
    BY <1>b, <2>1
  <2> QED
    BY <2>1, <2>3, <2>4, <2>5, <2>6 DEF RepeatInv, Accounted
<1>6. CASE Crash
  <2> SUFFICES ASSUME NEW r \in RowId PROVE effects'[r] <= lost'[r] + 1 /\
                 (effects'[r] > lost'[r] => rows'[r].status = "delivered" \/ Answered(r)')
    BY DEF Accounted
  <2> DEFINE A == {t \in Tick : ticks[t].call = "ok" /\ Head(t) = r}
  <2>1. lost'[r] = lost[r] + Cardinality(A) /\ UNCHANGED <<rows, effects>>
    BY <1>6 DEF Crash, tableVars
  <2>2. IsFiniteSet(A)
    BY OutboxAssumption, FS_Subset
  <2>3. Cardinality(A) \in Nat /\ (Answered(r) => Cardinality(A) > 0)
    <3>1. Answered(r) => A # {}
      BY DEF Answered
    <3>2. Cardinality(A) \in Nat
      BY <2>2, FS_CardinalityType
    <3>3. A # {} => Cardinality(A) # 0
      BY <2>2, FS_EmptySet
    <3> HIDE DEF A
    <3> QED
      BY <3>1, <3>2, <3>3
  <2> HIDE DEF A
  <2>4. effects[r] \in Nat /\ lost[r] \in Nat
    BY <1>b
  <2>5. /\ effects[r] <= lost[r] + 1
        /\ effects[r] > lost[r] => rows[r].status = "delivered" \/ Answered(r)
    BY DEF RepeatInv, Accounted
  <2> QED
    BY <2>1, <2>3, <2>4, <2>5
<1>7. ASSUME UNCHANGED <<ticks, effects, lost>> PROVE Accounted'
  BY <1>a, <1>7, AccountedKept
<1>8. CASE UNCHANGED vars
  BY <1>7, <1>8 DEF vars
<1>9. CASE Elapse
  BY <1>7, <1>9 DEF Elapse
<1>10. ASSUME NEW op \in Requests, Enqueue(op) PROVE Accounted'
  BY <1>7, <1>10 DEF Enqueue
<1>11. ASSUME NEW r \in RowId, BackoffElapses(r) \/ Retry(r) PROVE Accounted'
  BY <1>7, <1>11 DEF BackoffElapses, Retry
<1> QED
  BY <1>1, <1>2, <1>3, <1>4, <1>5, <1>6, <1>8, <1>9, <1>10, <1>11
     DEF Next, Delivering, Worker, PartDb

\* As long as leases outlive their ticks, Part-DB carries an operation out at most once
\* more often than its answer was lost, by restarts, failures or time-outs.
THEOREM NothingRepeated == ASSUME MaxOverruns = 0 PROVE Spec => []NoNeedlessRepeat
<1>1. Init => Accounted
  BY DEF Init, Accounted
<1>2. RefInv /\ Accounted /\ [Next]_vars => Accounted'
  BY RepeatStep DEF RepeatInv
<1>3. Accounted => NoNeedlessRepeat
  BY DEF Accounted, NoNeedlessRepeat
<1> QED
  BY <1>1, <1>2, <1>3, RefInvariant, PTL DEF Spec
=============================================================================
