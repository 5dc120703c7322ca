---------------------------- MODULE OutboxProofs ----------------------------
(***************************************************************************)
(* Proofs about Outbox, for every number of rows, ticks, attempts, crashes  *)
(* and overruns.                                                            *)
(***************************************************************************)
EXTENDS Outbox, FiniteSetTheorems, WellFoundedInduction, TLAPS

-----------------------------------------------------------------------------
(* Facts about the operators.                                               *)

LEMMA Smallest ==
    ASSUME NEW S \in SUBSET Nat, S # {}
    PROVE  \E r \in S : \A q \in S : r <= q
<1>1. PICK r \in S : \A q \in S : ~(<<q, r>> \in OpToRel(<, Nat))
  BY NatLessThanWellFounded, WFMin
<1>2. \A q \in S : ~(q < r)
  BY <1>1 DEF OpToRel
<1> QED
  BY <1>2

\* The row whose turn it is belongs to the batch.
LEMMA HeadInBatch ==
    ASSUME TypeOK, NEW t \in Tick, ticks[t].batch # {}
    PROVE  Head(t) \in ticks[t].batch /\ Head(t) \in RowId
<1>1. ticks[t].batch \in SUBSET RowId
  BY DEF TypeOK, TickState
<1>2. \E r \in ticks[t].batch : \A q \in ticks[t].batch : r <= q
  BY <1>1, OutboxAssumption, Smallest DEF RowId
<1> QED
  BY <1>1, <1>2 DEF Head

LEMMA ChosenValue == NoOp.val \in Values
  BY OutboxAssumption DEF NoOp

LEMMA RowOfType ==
    ASSUME NEW op \in Operation, NEW s \in Statuses
    PROVE  RowOf(op, s) \in Row
  BY OutboxAssumption DEF RowOf, Row, Operation, NoIri

LEMMA LeaseRange == 0 \in 0..LeaseTime /\ LeaseTime \in 0..LeaseTime
<1>1. LeaseTime \in Nat
  BY OutboxAssumption
<1> QED
  BY <1>1

LEMMA LeasedType == ASSUME NEW row \in Row PROVE Leased(row) \in Row
<1>1. row.attempts + 1 \in Nat
  BY DEF Row
<1> QED
  BY <1>1, LeaseRange DEF Leased, Row, Statuses

LEMMA RequeuedType == ASSUME NEW row \in Row PROVE Requeued(row) \in Row
  BY LeaseRange DEF Requeued, Row, Statuses

LEMMA SetSyncType ==
    ASSUME NEW ss \in [Targets -> {"never", "pending", "synced", "failed"}], NEW x,
           NEW s \in {"never", "pending", "synced", "failed"}
    PROVE  SetSync(ss, x, s) \in [Targets -> {"never", "pending", "synced", "failed"}]
  BY DEF SetSync

LEMMA NewIdFree ==
    ASSUME NEW rs, HasRoom(rs)
    PROVE  NewId(rs) \in RowId /\ rs[NewId(rs)].status = "absent"
  BY DEF HasRoom, NewId, NextFree
-----------------------------------------------------------------------------
(* Type correctness.                                                        *)

LEMMA OpType ==
    ASSUME NEW k \in Kinds, NEW x \in Targets \cup {NoTarget}, NEW v \in Values,
           NEW n \in (Iri \cup {NoIri}) \X (RowId \cup {NoRow})
    PROVE  Op(k, x, n, v) \in Operation
  BY DEF Op, Operation

\* Callers pass well-typed operations.
LEMMA RequestsType ==
    ASSUME TypeOK, NEW op \in Requests
    PROVE  op \in Operation
<1> DEFINE Pairs == (Iri \cup {NoIri}) \X (RowId \cup {NoRow})
<1>1. \A X \in SUBSET Targets : Columns(X) \subseteq Iri
  BY DEF TypeOK, Columns
<1>2. \A X : RowsOf(X) \subseteq RowId
  BY DEF RowsOf, Present
<1>3. \A X \in SUBSET Targets : \A Y : Named(Columns(X), RowsOf(Y)) \subseteq Pairs
  BY <1>1, <1>2 DEF Named
<1>4. PartTarget \subseteq Targets /\ LotTarget \subseteq Targets
  BY DEF Targets
<1>5. \A i \in Iri \cup {NoIri}, d \in RowId \cup {NoRow} : <<i, d>> \in Pairs
  OBVIOUS
<1> HIDE DEF Pairs
<1>6. \A k \in Kinds, x \in Targets \cup {NoTarget}, v \in Values, n \in Pairs :
         Op(k, x, n, v) \in Operation
  BY OpType DEF Pairs
<1>7. {"create_part", "update_part", "delete_part",
       "create_lot", "update_lot", "delete_lot"} \subseteq Kinds
  BY DEF Kinds, CreateKinds, LotChange, PartChange
<1>8. CASE \E x \in PartTarget : op \in PartRequests(x)
  <2>1. PICK x \in PartTarget : op \in PartRequests(x)
    BY <1>8
  <2>2. CASE \E v \in Values : op = Op("create_part", x, <<NoIri, NoRow>>, v)
    BY <2>2, <1>4, <1>5, <1>6, <1>7
  <2>3. CASE \E i \in Columns({x}), v \in Values : op = Op("update_part", x, <<i, NoRow>>, v)
    BY <2>3, <1>1, <1>4, <1>5, <1>6, <1>7
  <2> QED
    BY <2>1, <2>2, <2>3 DEF PartRequests
<1>9. CASE \E x \in LotTarget : op \in LotRequests(x)
  <2>1. PICK x \in LotTarget : op \in LotRequests(x)
    BY <1>9
  <2>2. CASE \E n \in Named(Columns(PartTarget), RowsOf(PartTarget)), v \in Values :
               op = Op("create_lot", x, n, v)
    BY <2>2, <1>3, <1>4, <1>6, <1>7
  <2>3. CASE \E n \in Named(Columns({x}), RowsOf({x})), v \in Values :
               op = Op("update_lot", x, n, v)
    BY <2>3, <1>3, <1>4, <1>6, <1>7
  <2>4. CASE \E n \in Named(Columns({x}), RowsOf({x})) : op = Op("delete_lot", x, n, NoOp.val)
    BY <2>4, <1>3, <1>4, <1>6, <1>7, ChosenValue
  <2> QED
    BY <2>1, <2>2, <2>3, <2>4 DEF LotRequests
<1>10. CASE op \in Removals
  <2>1. PICK d \in RowId \cup {NoRow} : op \in LotRemovals(d) \cup PartRemovals(d)
    BY <1>10, <1>2 DEF Removals
  <2>2. CASE \E i \in Columns(LotTarget) : op = Op("delete_lot", NoTarget, <<i, d>>, NoOp.val)
    BY <2>2, <1>1, <1>4, <1>5, <1>6, <1>7, ChosenValue
  <2>3. CASE \E i \in Columns(PartTarget) : op = Op("delete_part", NoTarget, <<i, d>>, NoOp.val)
    BY <2>3, <1>1, <1>4, <1>5, <1>6, <1>7, ChosenValue
  <2> QED
    BY <2>1, <2>2, <2>3 DEF LotRemovals, PartRemovals
<1> QED
  BY <1>8, <1>9, <1>10 DEF Requests

\* What markFailed does to a row and to its target.
LEMMA MarkFailedType ==
    ASSUME TypeOK, NEW r \in RowId, NEW s \in {"failed", "dead"}, MarkFailed(r, s)
    PROVE  /\ rows' \in [RowId -> Row]
           /\ syncStatus' \in [Targets -> {"never", "pending", "synced", "failed"}]
<1>1. rows[r] \in Row
  BY DEF TypeOK
<1>2. Failed(rows[r], s) \in Row
  BY <1>1, LeaseRange DEF Failed, Row, Statuses
<1>3. rows' \in [RowId -> Row]
  BY <1>2 DEF MarkFailed, TypeOK
<1>4. syncStatus' \in [Targets -> {"never", "pending", "synced", "failed"}]
  BY SetSyncType DEF MarkFailed, TypeOK
<1> QED
  BY <1>3, <1>4

LEMMA WithoutType ==
    ASSUME NEW k \in TickState, NEW r
    PROVE  Without(k, r) \in TickState
  BY DEF Without, TickState, CallPhases

LEMMA CallingType ==
    ASSUME NEW k \in TickState, NEW c \in CallPhases, NEW i \in Iri \cup {NoIri}
    PROVE  Calling(k, c, i) \in TickState
  BY DEF Calling, TickState

\* Whatever a call does at Part-DB leaves well-typed objects there.
LEMMA ApplyType ==
    ASSUME TypeOK, NEW row \in Row, NEW ref \in Iri \cup {NoIri}, NEW i \in Iri,
           Apply(row, ref, i)
    PROVE  remote' \in [Iri -> Object]
<1>1. row.target \in Targets \cup {NoTarget} /\ row.val \in Values
  BY DEF Row
<1>2. ASSUME NEW k \in {"part", "lot"}, NEW p \in Iri \cup {NoIri}, NewObject(i, k, row, p)
      PROVE  remote' \in [Iri -> Object]
  BY <1>1, <1>2 DEF NewObject, TypeOK, Object
<1>3. CASE remote' = [remote EXCEPT ![i].val = row.val]
  BY <1>1, <1>3 DEF TypeOK, Object
<1>4. CASE remote' = [remote EXCEPT ![i].live = FALSE]
  BY <1>4 DEF TypeOK, Object
<1> QED
  BY <1>2, <1>3, <1>4 DEF Apply, NoIri

\* A call in flight or answered is a call for a row.
CallsHaveRow == \A t \in Tick : ticks[t].call # "none" => ticks[t].batch # {}

TypeInv == TypeOK /\ CallsHaveRow

LEMMA TypeInit == Init => TypeInv
<1> SUFFICES ASSUME Init PROVE TypeInv
  OBVIOUS
<1>1. NoOp \in Operation
  BY ChosenValue DEF NoOp, Operation, Kinds, CreateKinds
<1>2. rows \in [RowId -> Row]
  BY <1>1, RowOfType DEF Init, Statuses
<1>3. ticks \in [Tick -> TickState] /\ CallsHaveRow
  BY DEF Init, IdleTick, TickState, CallPhases, CallsHaveRow
<1>4. remote \in [Iri -> Object]
  BY ChosenValue DEF Init, NoObject, Object
<1> QED
  BY <1>2, <1>3, <1>4 DEF Init, TypeInv, TypeOK

LEMMA TypeStep == TypeInv /\ [Next]_vars => TypeInv'
<1> SUFFICES ASSUME TypeInv, [Next]_vars PROVE TypeInv'
  OBVIOUS
<1> USE DEF TypeInv
<1>1. ASSUME NEW op \in Requests, Enqueue(op) PROVE TypeInv'
  <2>1. op \in Operation
    BY RequestsType
  <2>2. RowOf(op, "pending") \in Row
    BY <2>1, RowOfType DEF Statuses
  <2>3. rows' \in [RowId -> Row]
    BY <1>1, <2>2 DEF Enqueue, Insert, TypeOK
  <2>4. syncStatus' \in [Targets -> {"never", "pending", "synced", "failed"}]
    BY <1>1, SetSyncType DEF Enqueue, TypeOK
  <2> QED
    BY <1>1, <2>3, <2>4 DEF Enqueue, TypeOK, CallsHaveRow
<1>2. ASSUME NEW t \in Tick, Claim(t) PROVE TypeInv'
  <2> DEFINE rs == Reclaimed(rows)
             b == Batch(rs)
  <2>1. rs \in [RowId -> Row]
    BY DEF TypeOK, Reclaimed, Row, Statuses
  <2>2. b \in SUBSET RowId
    BY DEF Batch, Claimable
  <2>3. \A r \in RowId : Leased(rs[r]) \in Row
    BY <2>1, LeasedType
  <2>4. rows' \in [RowId -> Row]
    BY <1>2, <2>1, <2>3 DEF Claim
  <2>5. \A r \in RowId : rs[r].attempts \in Nat
    BY <2>1 DEF Row
  <2>6. [batch |-> b,
         seen |-> [r \in RowId |-> IF r \in b THEN rs[r].attempts + 1 ELSE 0],
         call |-> "none", ref |-> NoIri] \in TickState
    BY <2>2, <2>5 DEF TickState, CallPhases
  <2>7. ticks' \in [Tick -> TickState] /\ ticks'[t].call = "none"
    BY <1>2, <2>6 DEF Claim, TypeOK, IdleTick
  <2>8. CallsHaveRow'
    BY <1>2, <2>7 DEF Claim, CallsHaveRow, TypeOK
  <2> QED
    BY <1>2, <2>4, <2>7, <2>8 DEF Claim, TypeOK
<1>3. ASSUME NEW t \in Tick, Send(t) PROVE TypeInv'
  <2>1. HydratedRef(rows, Head(t)) \in Iri \cup {NoIri}
    <3>1. rows[Head(t)] \in Row
      BY <1>3, HeadInBatch DEF Send, Runs, TypeOK
    <3>2. \A d \in RowId : DependencyIri(rows, d) \in Iri \cup {NoIri}
      BY DEF TypeOK, Row, DependencyIri
    <3> QED
      BY <3>1, <3>2 DEF HydratedRef, Row
  <2>2. ticks' \in [Tick -> TickState]
    BY <1>3, <2>1, CallingType DEF Send, TypeOK, CallPhases
  <2>3. CallsHaveRow'
    BY <1>3 DEF Send, Runs, CallsHaveRow, Calling, TypeOK, TickState
  <2> QED
    BY <1>3, <2>2, <2>3 DEF Send, tableVars, TypeOK
<1>4. ASSUME NEW t \in Tick, HydrateFails(t) PROVE TypeInv'
  <2>1. Head(t) \in RowId
    BY <1>4, HeadInBatch DEF HydrateFails, Runs
  <2>2. ticks' \in [Tick -> TickState]
    BY <1>4, WithoutType DEF HydrateFails, TypeOK
  <2>3. CallsHaveRow'
    BY <1>4 DEF HydrateFails, CallsHaveRow, Without, TypeOK, TickState
  <2> QED
    BY <1>4, <2>1, <2>2, <2>3, MarkFailedType DEF HydrateFails, TypeOK
<1>5. ASSUME NEW t \in Tick, SettleDelivered(t) PROVE TypeInv'
  <2>1. Head(t) \in RowId
    BY <1>5, HeadInBatch DEF SettleDelivered, CallsHaveRow
  <2>2. ticks[t].ref \in Iri \cup {NoIri}
    BY DEF TypeOK, TickState
  <2>3. rows' \in [RowId -> Row]
    <3>1. rows[Head(t)] \in Row
      BY <2>1 DEF TypeOK
    <3>2. Delivered(rows[Head(t)], ticks[t].ref) \in Row
      BY <2>2, <3>1, LeaseRange DEF Delivered, Row, Statuses
    <3> QED
      BY <1>5, <2>1, <3>2 DEF SettleDelivered, TypeOK
  <2>4. column' \in [Targets -> Iri \cup {NoIri}]
    BY <1>5, <2>2 DEF SettleDelivered, TypeOK
  <2>5. syncStatus' \in [Targets -> {"never", "pending", "synced", "failed"}]
    BY <1>5, SetSyncType DEF SettleDelivered, TypeOK
  <2>6. ticks' \in [Tick -> TickState]
    BY <1>5, WithoutType DEF SettleDelivered, TypeOK
  <2>7. CallsHaveRow'
    BY <1>5 DEF SettleDelivered, CallsHaveRow, Without, TypeOK, TickState
  <2> QED
    BY <1>5, <2>3, <2>4, <2>5, <2>6, <2>7 DEF SettleDelivered, TypeOK
<1>6. ASSUME NEW t \in Tick, SettleFailed(t) PROVE TypeInv'
  <2>1. Head(t) \in RowId
    BY <1>6, HeadInBatch DEF SettleFailed, CallsHaveRow
  <2>2. ticks' \in [Tick -> TickState]
    BY <1>6, WithoutType DEF SettleFailed, TypeOK
  <2>3. CallsHaveRow'
    BY <1>6 DEF SettleFailed, CallsHaveRow, Without, TypeOK, TickState
  <2>4. PICK s \in {"failed", "dead"} : MarkFailed(Head(t), s)
    BY <1>6 DEF SettleFailed, Verdict
  <2> QED
    BY <1>6, <2>1, <2>2, <2>3, <2>4, MarkFailedType DEF SettleFailed, TypeOK
<1>7. ASSUME NEW t \in Tick, Accept(t) PROVE TypeInv'
  <2>1. rows[Head(t)] \in Row
    BY <1>7, HeadInBatch DEF Accept, CallsHaveRow, TypeOK
  <2>2. PICK i \in Iri : /\ Apply(rows[Head(t)], ticks[t].ref, i)
                         /\ ticks' = [ticks EXCEPT ![t] = Calling(@, "ok", i)]
    BY <1>7 DEF Accept
  <2>3. remote' \in [Iri -> Object]
    BY <2>1, <2>2, ApplyType DEF TypeOK, TickState
  <2>4. ticks' \in [Tick -> TickState]
    BY <2>2, CallingType DEF TypeOK, CallPhases
  <2>5. CallsHaveRow'
    BY <1>7, <2>2 DEF Accept, CallsHaveRow, Calling, TypeOK, TickState
  <2>6. effects' \in [RowId -> Nat]
    BY <1>7, HeadInBatch DEF Accept, CallsHaveRow, TypeOK
  <2> QED
    BY <1>7, <2>3, <2>4, <2>5, <2>6 DEF Accept, tableVars, TypeOK
<1>8. ASSUME NEW t \in Tick, NEW c \in Answers \cup {"sent"}, LoseAnswer(t, c)
      PROVE  TypeInv'
  <2>1. rows[Head(t)] \in Row
    BY <1>8, HeadInBatch DEF LoseAnswer, CallsHaveRow, TypeOK
  <2>2. remote' \in [Iri -> Object]
    BY <1>8, <2>1, ApplyType DEF LoseAnswer, TypeOK, TickState
  <2>3. ticks' \in [Tick -> TickState]
    BY <1>8, CallingType DEF LoseAnswer, TypeOK, TickState, CallPhases, Answers
  <2>4. CallsHaveRow'
    BY <1>8 DEF LoseAnswer, CallsHaveRow, Calling, TypeOK, TickState
  <2>5. effects' \in [RowId -> Nat] /\ lost' \in [RowId -> Nat]
    BY <1>8, HeadInBatch DEF LoseAnswer, CallsHaveRow, TypeOK
  <2>6. spent' \in [crash : Nat, retry : Nat, lost : Nat, overrun : Nat]
    BY <1>8 DEF LoseAnswer, TypeOK
  <2> QED
    BY <1>8, <2>2, <2>3, <2>4, <2>5, <2>6 DEF LoseAnswer, tableVars, TypeOK
<1>9. ASSUME NEW t \in Tick, NEW c \in Answers, Refuse(t, c) PROVE TypeInv'
  <2>1. ticks' \in [Tick -> TickState]
    BY <1>9, CallingType DEF Refuse, TypeOK, TickState, CallPhases, Answers
  <2>2. CallsHaveRow'
    BY <1>9 DEF Refuse, CallsHaveRow, Calling, TypeOK, TickState
  <2> QED
    BY <1>9, <2>1, <2>2 DEF Refuse, tableVars, TypeOK
<1>10. CASE Elapse
  <2>1. rows' \in [RowId -> Row]
    <3>1. ASSUME NEW r \in RowId, rows[r].lease > 0
          PROVE  [rows[r] EXCEPT !.lease = @ - 1] \in Row
      <4>1. rows[r] \in Row /\ rows[r].lease \in 0..LeaseTime
        BY DEF TypeOK, Row
      <4>2. rows[r].lease - 1 \in 0..LeaseTime
        BY <3>1, <4>1, OutboxAssumption
      <4> QED
        BY <4>1, <4>2 DEF Row
    <3> QED
      BY <1>10, <3>1 DEF Elapse, TypeOK
  <2>2. spent' \in [crash : Nat, retry : Nat, lost : Nat, overrun : Nat]
    BY <1>10 DEF Elapse, TypeOK
  <2> QED
    BY <1>10, <2>1, <2>2 DEF Elapse, TypeOK, CallsHaveRow
<1>11. ASSUME NEW r \in RowId, BackoffElapses(r) PROVE TypeInv'
  <2>1. rows' \in [RowId -> Row]
    BY <1>11 DEF BackoffElapses, TypeOK, Row
  <2> QED
    BY <1>11, <2>1 DEF BackoffElapses, TypeOK, CallsHaveRow
<1>12. ASSUME NEW r \in RowId, Retry(r) PROVE TypeInv'
  <2>1. rows' \in [RowId -> Row]
    BY <1>12, RequeuedType DEF Retry, TypeOK
  <2>2. syncStatus' \in [Targets -> {"never", "pending", "synced", "failed"}]
    BY <1>12, SetSyncType DEF Retry, TypeOK
  <2>3. spent' \in [crash : Nat, retry : Nat, lost : Nat, overrun : Nat]
    BY <1>12 DEF Retry, TypeOK
  <2> QED
    BY <1>12, <2>1, <2>2, <2>3 DEF Retry, TypeOK, CallsHaveRow
<1>13. CASE Crash
  <2>1. \A S \in SUBSET Tick : Cardinality(S) \in Nat
    BY OutboxAssumption, FS_Subset, FS_CardinalityType
  <2>2. lost' \in [RowId -> Nat]
    <3>1. \A r \in RowId : {t \in Tick : ticks[t].call = "ok" /\ Head(t) = r} \in SUBSET Tick
      OBVIOUS
    <3>2. \A r \in RowId : Cardinality({t \in Tick : ticks[t].call = "ok" /\ Head(t) = r}) \in Nat
      BY <2>1, <3>1
    <3> QED
      BY <1>13, <3>2 DEF Crash, TypeOK
  <2>3. ticks' \in [Tick -> TickState] /\ CallsHaveRow'
    BY <1>13 DEF Crash, IdleTick, TickState, CallPhases, CallsHaveRow
  <2>4. spent' \in [crash : Nat, retry : Nat, lost : Nat, overrun : Nat]
    BY <1>13 DEF Crash, TypeOK
  <2> QED
    BY <1>13, <2>2, <2>3, <2>4 DEF Crash, tableVars, TypeOK
<1>14. CASE UNCHANGED vars
  BY <1>14 DEF vars, TypeOK, CallsHaveRow
<1> QED
  BY <1>1, <1>2, <1>3, <1>4, <1>5, <1>6, <1>7, <1>8, <1>9, <1>10, <1>11, <1>12,
     <1>13, <1>14 DEF Next, Delivering, Worker, PartDb

\* Every state the outbox, its worker and Part-DB reach is well typed, and a tick has
\* a call out only for a row of its batch.
THEOREM TypeCorrect == Spec => []TypeOK
<1>1. Spec => []TypeInv
  BY TypeInit, TypeStep, PTL DEF Spec
<1> QED
  BY <1>1, PTL DEF TypeInv

-----------------------------------------------------------------------------
(* Effects follow dependencies.  The invariant is not inductive as it       *)
(* stands: a tick works from what it saw when it claimed its batch, so the  *)
(* strengthening says what a claim leaves true for as long as the row is    *)
(* held, even when the dependency has been failed meanwhile by a late tick. *)

HeldReady ==
    \A t \in Tick : \A r \in ticks[t].batch :
        /\ rows[r].status # "absent"
        /\ rows[r].dep # NoRow => effects[rows[r].dep] > 0

AnswersCarriedOut == \A t \in Tick : ticks[t].call = "ok" => effects[Head(t)] > 0

OnlyPresent == \A r \in RowId : effects[r] > 0 => rows[r].status # "absent"

DepInv == /\ TypeInv
          /\ HeldReady
          /\ AnswersCarriedOut
          /\ OnlyPresent
          /\ EffectsFollowDependencies

\* A step that carries nothing out, claims, adds and delivers no row.
LEMMA DepKept ==
    ASSUME DepInv, TypeInv', UNCHANGED effects,
           \A q \in RowId : /\ rows'[q].dep = rows[q].dep
                            /\ rows'[q].status = "delivered" => rows[q].status = "delivered"
                            /\ rows'[q].status = "absent" => rows[q].status = "absent",
           \A t \in Tick : /\ ticks'[t].batch \subseteq ticks[t].batch
                           /\ ticks'[t].call = "ok" => ticks'[t] = ticks[t]
    PROVE  DepInv'
<1>1. \A t \in Tick : ticks[t].batch \subseteq RowId
  BY DEF DepInv, TypeInv, TypeOK, TickState
<1>2. HeldReady'
  BY <1>1 DEF DepInv, HeldReady
<1>3. AnswersCarriedOut'
  BY DEF DepInv, AnswersCarriedOut, Head
<1>4. OnlyPresent' /\ EffectsFollowDependencies'
  BY DEF DepInv, OnlyPresent, EffectsFollowDependencies
<1> QED
  BY <1>2, <1>3, <1>4 DEF DepInv

LEMMA DepInit == Init => DepInv
<1> SUFFICES ASSUME Init PROVE DepInv
  OBVIOUS
<1>1. TypeInv
  BY TypeInit
<1>2. HeldReady /\ AnswersCarriedOut
  BY DEF Init, HeldReady, AnswersCarriedOut, IdleTick
<1>3. OnlyPresent /\ EffectsFollowDependencies
  BY DEF Init, OnlyPresent, EffectsFollowDependencies, RowOf
<1> QED
  BY <1>1, <1>2, <1>3 DEF DepInv

\* Part-DB carries out the operation of the row whose turn it is.
LEMMA DepEffect ==
    ASSUME DepInv, TypeInv', NEW t \in Tick, ticks[t].call = "sent", UNCHANGED rows,
           effects' = [effects EXCEPT ![Head(t)] = @ + 1],
           \A u \in Tick : /\ ticks'[u].batch = ticks[u].batch
                           /\ u # t => ticks'[u] = ticks[u]
    PROVE  DepInv'
<1>1. Head(t) \in RowId /\ Head(t) \in ticks[t].batch
  BY HeadInBatch DEF DepInv, TypeInv, CallsHaveRow
<1>2. effects \in [RowId -> Nat] /\ \A u \in Tick : ticks[u].batch \subseteq RowId
  BY DEF DepInv, TypeInv, TypeOK, TickState
<1>3. \A r \in RowId : effects[r] > 0 => effects'[r] > 0
  BY <1>1, <1>2
<1>4. effects'[Head(t)] > 0
  BY <1>1, <1>2
<1>5. \A r \in RowId : rows[r].dep \in RowId \cup {NoRow}
  BY DEF DepInv, TypeInv, TypeOK, Row
<1>6. HeldReady'
  BY <1>2, <1>3, <1>5 DEF DepInv, HeldReady
<1>7. AnswersCarriedOut'
  <2>1. \A u \in Tick : Head(u)' = Head(u)
    BY DEF Head
  <2>2. \A u \in Tick : ticks[u].call = "ok" => Head(u) \in RowId
    BY HeadInBatch DEF DepInv, TypeInv, CallsHaveRow
  <2> QED
    BY <1>3, <1>4, <2>1, <2>2 DEF DepInv, AnswersCarriedOut
<1>8. rows[Head(t)].status # "absent"
  BY <1>1 DEF DepInv, HeldReady
<1>9. OnlyPresent'
  BY <1>1, <1>2, <1>8 DEF DepInv, OnlyPresent
<1>10. EffectsFollowDependencies'
  <2>1. rows[Head(t)].dep # NoRow => effects[rows[Head(t)].dep] > 0
    BY <1>1 DEF DepInv, HeldReady
  <2>2. \A r \in RowId : r # Head(t) => effects'[r] = effects[r]
    BY <1>2
  <2> QED
    BY <1>3, <1>5, <2>1, <2>2 DEF DepInv, EffectsFollowDependencies
<1> QED
  BY <1>6, <1>7, <1>9, <1>10 DEF DepInv

LEMMA DepStep == DepInv /\ [Next]_vars => DepInv'
<1> SUFFICES ASSUME DepInv, [Next]_vars PROVE DepInv'
  OBVIOUS
<1>a. TypeInv /\ TypeInv'
  BY TypeStep DEF DepInv
<1>b. /\ rows \in [RowId -> Row] /\ ticks \in [Tick -> TickState]
      /\ effects \in [RowId -> Nat]
  BY <1>a DEF TypeInv, TypeOK
<1>1. ASSUME NEW op \in Requests, Enqueue(op) PROVE DepInv'
  <2>1. op \in Operation
    BY <1>a, RequestsType DEF TypeInv
  <2> DEFINE n == NewId(rows)
  <2>2. n \in RowId /\ rows[n].status = "absent"
    BY <1>1, NewIdFree DEF Enqueue
  <2>3. rows' = [rows EXCEPT ![n] = RowOf(op, "pending")] /\ UNCHANGED <<ticks, effects>>
    BY <1>1 DEF Enqueue, Insert
  <2> HIDE DEF n
  <2>4. \A r \in RowId : r # n => rows'[r] = rows[r]
    BY <2>3, <1>b
  <2>5. rows'[n].status = "pending"
    BY <2>2, <2>3, <1>b DEF RowOf
  <2>6. effects[n] = 0
    BY <2>2, <1>b DEF DepInv, OnlyPresent
  <2>7. \A t \in Tick : n \notin ticks[t].batch
    BY <2>2 DEF DepInv, HeldReady
  <2>8. HeldReady'
    BY <2>3, <2>4, <2>7, <1>b DEF DepInv, HeldReady, TickState
  <2>9. AnswersCarriedOut'
    BY <2>3 DEF DepInv, AnswersCarriedOut, Head
  <2>10. OnlyPresent' /\ EffectsFollowDependencies'
    BY <2>3, <2>4, <2>5, <2>6 DEF DepInv, OnlyPresent, EffectsFollowDependencies
  <2> QED
    BY <1>a, <2>8, <2>9, <2>10 DEF DepInv
<1>2. ASSUME NEW t \in Tick, Claim(t) PROVE DepInv'
  <2> DEFINE rs == Reclaimed(rows)
             b == Batch(rs)
  <2>1. \A r \in RowId : /\ rs[r].dep = rows[r].dep
                         /\ rs[r].status = "delivered" <=> rows[r].status = "delivered"
                         /\ rs[r].status = "absent" <=> rows[r].status = "absent"
    BY <1>b DEF Reclaimed, Row
  <2>2. b \subseteq Claimable(rs)
    BY DEF Batch
  <2> DEFINE new == [r \in RowId |-> IF r \in b THEN Leased(rs[r]) ELSE rs[r]]
  <2>3. rows' = new
    BY <1>2 DEF Claim
  <2>4. /\ \A u \in Tick : u # t => ticks'[u] = ticks[u]
        /\ ticks'[t].batch = b /\ ticks'[t].call = "none"
        /\ UNCHANGED effects
    BY <1>2, <1>b DEF Claim
  <2>5. \A r \in b : /\ r \in RowId
                     /\ rows[r].status # "absent"
                     /\ rows[r].dep = NoRow \/ rs[rows[r].dep].status = "delivered"
    BY <2>1, <2>2 DEF Claimable, DepDelivered
  <2>6. \A r \in RowId : rs[r] \in Row
    BY <1>b DEF Reclaimed, Row, Statuses
  <2>7. \A r \in RowId : /\ rows'[r].dep = rows[r].dep
                         /\ rows'[r].status = "delivered" => rows[r].status = "delivered"
                         /\ rows'[r].status = "absent" => rows[r].status = "absent"
    <3> HIDE DEF rs, b
    <3>1. \A r \in RowId : /\ Leased(rs[r]).dep = rs[r].dep
                           /\ Leased(rs[r]).status = "leased"
      BY <2>6 DEF Leased, Row
    <3> QED
      BY <2>1, <2>3, <3>1
  <2>8. \A r \in RowId : rows[r].dep \in RowId \cup {NoRow}
    BY <1>b DEF Row
  <2>9. HeldReady'
    <3>1. \A r \in b : /\ rows'[r].status # "absent"
                       /\ rows'[r].dep # NoRow => effects'[rows'[r].dep] > 0
      BY <2>1, <2>4, <2>5, <2>7, <2>8 DEF DepInv, EffectsFollowDependencies
    <3>2. \A u \in Tick : ticks[u].batch \subseteq RowId
      BY <1>b DEF TickState
    <3> HIDE DEF b
    <3> QED
      BY <2>4, <2>7, <3>1, <3>2 DEF DepInv, HeldReady
  <2>10. AnswersCarriedOut'
    BY <2>4 DEF DepInv, AnswersCarriedOut, Head
  <2>11. OnlyPresent' /\ EffectsFollowDependencies'
    BY <2>4, <2>7 DEF DepInv, OnlyPresent, EffectsFollowDependencies
  <2> QED
    BY <1>a, <2>9, <2>10, <2>11 DEF DepInv
<1>3. ASSUME NEW t \in Tick, Send(t) PROVE DepInv'
  BY <1>a, <1>b, <1>3, DepKept DEF Send, tableVars, Calling, TickState
<1>4. ASSUME NEW t \in Tick, NEW r \in RowId, NEW s \in {"failed", "dead"},
             MarkFailed(r, s), ticks' = [ticks EXCEPT ![t] = Without(@, r)],
             UNCHANGED effects
      PROVE  DepInv'
  <2>1. \A q \in RowId : /\ rows'[q].dep = rows[q].dep
                         /\ rows'[q].status = "delivered" => rows[q].status = "delivered"
                         /\ rows'[q].status = "absent" => rows[q].status = "absent"
    BY <1>b, <1>4 DEF MarkFailed, Failed, Row
  <2>2. \A u \in Tick : /\ ticks'[u].batch \subseteq ticks[u].batch
                        /\ ticks'[u].call = "ok" => ticks'[u] = ticks[u]
    BY <1>b, <1>4 DEF Without, TickState
  <2> QED
    BY <1>a, <1>4, <2>1, <2>2, DepKept
<1>5. ASSUME NEW t \in Tick, HydrateFails(t) PROVE DepInv'
  BY <1>5, <1>4, <1>a, HeadInBatch DEF HydrateFails, Runs, TypeInv
<1>6. ASSUME NEW t \in Tick, SettleFailed(t) PROVE DepInv'
  <2>1. Head(t) \in RowId
    BY <1>6, <1>a, HeadInBatch DEF SettleFailed, TypeInv, CallsHaveRow
  <2>2. PICK s \in {"failed", "dead"} : MarkFailed(Head(t), s)
    BY <1>6 DEF SettleFailed, Verdict
  <2> QED
    BY <1>6, <1>4, <2>1, <2>2 DEF SettleFailed
<1>7. ASSUME NEW t \in Tick, SettleDelivered(t) PROVE DepInv'
  <2> DEFINE h == Head(t)
  <2>1. h \in RowId /\ h \in ticks[t].batch
    BY <1>7, <1>a, HeadInBatch DEF SettleDelivered, TypeInv, CallsHaveRow
  <2>2. effects[h] > 0
    BY <1>7 DEF SettleDelivered, DepInv, AnswersCarriedOut
  <2>3. /\ rows' = [rows EXCEPT ![h] = Delivered(@, ticks[t].ref)]
        /\ ticks' = [ticks EXCEPT ![t] = Without(@, h)]
        /\ UNCHANGED effects
    BY <1>7 DEF SettleDelivered
  <2> HIDE DEF h
  <2>4. \A q \in RowId : /\ rows'[q].dep = rows[q].dep
                         /\ q # h => rows'[q] = rows[q]
                         /\ rows'[q].status = "absent" => rows[q].status = "absent"
    BY <1>b, <2>1, <2>3 DEF Delivered, Row
  <2>5. \A u \in Tick : /\ ticks'[u].batch \subseteq ticks[u].batch
                        /\ ticks'[u].call = "ok" => ticks'[u] = ticks[u]
    BY <1>b, <2>3 DEF Without, TickState
  <2>6. \A u \in Tick : ticks[u].batch \subseteq RowId
    BY <1>b DEF TickState
  <2>7. HeldReady'
    BY <2>3, <2>4, <2>5, <2>6 DEF DepInv, HeldReady
  <2>8. AnswersCarriedOut'
    BY <2>3, <2>5 DEF DepInv, AnswersCarriedOut, Head
  <2>9. OnlyPresent' /\ EffectsFollowDependencies'
    BY <2>2, <2>3, <2>4 DEF DepInv, OnlyPresent, EffectsFollowDependencies
  <2> QED
    BY <1>a, <2>7, <2>8, <2>9 DEF DepInv
<1>8. ASSUME NEW t \in Tick, Accept(t) PROVE DepInv'
  <2>1. \A u \in Tick : /\ ticks'[u].batch = ticks[u].batch
                        /\ u # t => ticks'[u] = ticks[u]
    BY <1>b, <1>8 DEF Accept, Calling, TickState
  <2> QED
    BY <1>a, <1>8, <2>1, DepEffect DEF Accept, tableVars
<1>9. ASSUME NEW t \in Tick, NEW c \in Answers \cup {"sent"}, LoseAnswer(t, c)
      PROVE  DepInv'
  <2>1. \A u \in Tick : /\ ticks'[u].batch = ticks[u].batch
                        /\ u # t => ticks'[u] = ticks[u]
    BY <1>b, <1>9 DEF LoseAnswer, Calling, TickState
  <2> QED
    BY <1>a, <1>9, <2>1, DepEffect DEF LoseAnswer, tableVars
<1>10. ASSUME NEW t \in Tick, NEW c \in Answers, Refuse(t, c) PROVE DepInv'
  <2>1. \A u \in Tick : /\ ticks'[u].batch \subseteq ticks[u].batch
                        /\ ticks'[u].call = "ok" => ticks'[u] = ticks[u]
    BY <1>b, <1>10 DEF Refuse, Calling, TickState, Answers
  <2> QED
    BY <1>a, <1>10, <2>1, DepKept DEF Refuse, tableVars
<1>11. CASE Elapse
  <2>1. \A q \in RowId : rows'[q].dep = rows[q].dep /\ rows'[q].status = rows[q].status
    BY <1>b, <1>11 DEF Elapse, Row
  <2> QED
    BY <1>a, <1>11, <2>1, DepKept DEF Elapse
<1>12. ASSUME NEW r \in RowId, BackoffElapses(r) PROVE DepInv'
  <2>1. \A q \in RowId : rows'[q].dep = rows[q].dep /\ rows'[q].status = rows[q].status
    BY <1>b, <1>12 DEF BackoffElapses, Row
  <2> QED
    BY <1>a, <1>12, <2>1, DepKept DEF BackoffElapses
<1>13. ASSUME NEW r \in RowId, Retry(r) PROVE DepInv'
  <2>1. \A q \in RowId : /\ rows'[q].dep = rows[q].dep
                         /\ rows'[q].status \in {rows[q].status, "pending"}
    BY <1>b, <1>13 DEF Retry, Requeued, Row
  <2> QED
    BY <1>a, <1>13, <2>1, DepKept DEF Retry
<1>14. CASE Crash
  <2>1. \A u \in Tick : ticks'[u].batch = {} /\ ticks'[u].call = "none"
    BY <1>14 DEF Crash, IdleTick
  <2> QED
    BY <1>a, <1>14, <2>1, DepKept DEF Crash, tableVars
<1>15. CASE UNCHANGED vars
  BY <1>a, <1>15, DepKept DEF vars
<1> QED
  BY <1>1, <1>2, <1>3, <1>5, <1>6, <1>7, <1>8, <1>9, <1>10, <1>11, <1>12, <1>13,
     <1>14, <1>15 DEF Next, Delivering, Worker, PartDb

\* Part-DB carries no operation out before the one it depends on, and no row is
\* delivered that it did not carry out: with any number of overlapping ticks, leases
\* that end too early, lost answers and restarts.
THEOREM DependenciesFirst == Spec => []EffectsFollowDependencies
<1>1. Spec => []DepInv
  BY DepInit, DepStep, PTL DEF Spec
<1> QED
  BY <1>1, PTL DEF DepInv

-----------------------------------------------------------------------------
(* Ownership: the remote ids in the tables and in the calls of the worker are *)
(* those of objects made for the same row, for any number of rows, ticks,     *)
(* overruns, lost answers, retries and restarts.                              *)

\* Part-DB made object i for x.
Own(x, i) == i \in Iri /\ remote[i].kind # "none" /\ remote[i].owner = x

\* What an update or a delete of x names is x's own, whether its row carries the id, or
\* takes it from the answer to the row it depends on, which is a row of x.
RowOwns(r) ==
    rows[r].status # "absent" /\ rows[r].target # NoTarget =>
       /\ rows[r].kind \notin CreateKinds /\ rows[r].ref # NoIri
             => Own(rows[r].target, rows[r].ref)
       /\ rows[r].kind \in LotChange /\ rows[r].dep # NoRow =>
             /\ rows[rows[r].dep].status # "absent"
             /\ rows[rows[r].dep].target = rows[r].target
       /\ rows[r].status = "delivered" => Own(rows[r].target, rows[r].iri)

\* The call a tick has under way, or the answer it has.
CallOwns(t) ==
    /\ ticks[t].call = "sent" /\ rows[Head(t)].kind \notin CreateKinds
          /\ rows[Head(t)].target # NoTarget => Own(rows[Head(t)].target, ticks[t].ref)
    /\ ticks[t].call = "ok" /\ rows[Head(t)].target # NoTarget
          => Own(rows[Head(t)].target, ticks[t].ref)

ColumnOwns == \A x \in Targets : column[x] # NoIri => Own(x, column[x])

OwnInv == ColumnOwns /\ (\A r \in RowId : RowOwns(r)) /\ (\A t \in Tick : CallOwns(t))

-----------------------------------------------------------------------------
(* What the steps have in common.                                           *)

\* Nothing changes its owner.
Kept == \A x, i : Own(x, i) => Own(x, i)'

\* The row says what it said, and is delivered only if it was.
SameRow(r) ==
    /\ rows'[r].kind = rows[r].kind /\ rows'[r].target = rows[r].target
    /\ rows'[r].ref = rows[r].ref /\ rows'[r].dep = rows[r].dep
    /\ rows'[r].status = "absent" <=> rows[r].status = "absent"
    /\ rows'[r].status = "delivered" => rows[r].status = "delivered" /\ rows'[r].iri = rows[r].iri

\* The tick waits for the same call, or for none.
SameCall(t) == \/ ticks'[t] = ticks[t] \/ ticks'[t].call = "none"

LEMMA RemoteKept == UNCHANGED remote => Kept
  BY DEF Kept, Own

LEMMA OwnFields ==
    ASSUME TypeOK
    PROVE  /\ \A r \in RowId : rows[r].dep \in RowId \cup {NoRow}
           /\ \A r \in RowId : rows[r].target \in Targets \cup {NoTarget}
           /\ \A r \in RowId : rows[r].kind \in Kinds
           /\ NoRow \notin RowId /\ NoTarget \notin Targets
<1>1. rows \in [RowId -> Row]
  BY DEF TypeOK
<1>2. NoRow \notin RowId /\ NoTarget \notin Targets
  BY OutboxAssumption DEF RowId, NoRow, Targets
<1> QED
  BY <1>1, <1>2 DEF Row

\* Rows that keep what they say keep what they own.
LEMMA RowsKept ==
    ASSUME TypeOK, OwnInv, Kept, NEW r \in RowId, SameRow(r),
           rows[r].dep # NoRow => SameRow(rows[r].dep)
    PROVE  RowOwns(r)'
  BY OwnFields DEF OwnInv, Kept, SameRow, RowOwns

\* A call keeps what it owns as long as its row says the same.
LEMMA CallsKept ==
    ASSUME DepInv, OwnInv, Kept, NEW t \in Tick, SameCall(t),
           \A r \in ticks[t].batch : SameRow(r)
    PROVE  CallOwns(t)'
<1>1. CASE ticks'[t].call = "none"
  BY <1>1 DEF CallOwns
<1>2. CASE ticks'[t] = ticks[t] /\ ticks[t].call # "none"
  <2>1. Head(t) \in ticks[t].batch
    BY <1>2, HeadInBatch DEF DepInv, TypeInv, CallsHaveRow
  <2>2. Head(t)' = Head(t) /\ SameRow(Head(t))
    BY <1>2, <2>1 DEF Head
  <2>3. CallOwns(t)
    BY DEF OwnInv
  <2> QED
    BY <1>2, <2>2, <2>3 DEF CallOwns, SameRow, Kept
<1> QED
  BY <1>1, <1>2 DEF SameCall

\* A step after which nothing new is delivered or called.
LEMMA AllKept ==
    ASSUME DepInv, OwnInv, UNCHANGED <<remote, column>>,
           \A r \in RowId : SameRow(r), \A t \in Tick : SameCall(t)
    PROVE  OwnInv'
<1>1. TypeOK /\ Kept /\ \A t \in Tick : ticks[t].batch \subseteq RowId
  BY RemoteKept DEF DepInv, TypeInv, TypeOK, TickState
<1>2. \A r \in RowId : RowOwns(r)'
  BY <1>1, RowsKept, OwnFields
<1>3. \A t \in Tick : CallOwns(t)'
  BY <1>1, CallsKept
<1>4. ColumnOwns'
  BY <1>1 DEF OwnInv, ColumnOwns, Kept
<1> QED
  BY <1>2, <1>3, <1>4 DEF OwnInv

\* What keeps kinds and owners keeps what is owned.
SameOwner(j) == remote'[j].kind = remote[j].kind /\ remote'[j].owner = remote[j].owner

LEMMA OwnersKept ==
    ASSUME \A j \in Iri : SameOwner(j)
    PROVE  Kept
<1> SUFFICES ASSUME NEW x, NEW j, Own(x, j) PROVE Own(x, j)'
  BY DEF Kept
<1>1. j \in Iri /\ SameOwner(j)
  BY DEF Own
<1> QED
  BY <1>1 DEF Own, SameOwner

\* A call at Part-DB changes no owner, and a create makes an object for its row.
LEMMA ApplyOwns ==
    ASSUME TypeOK, NEW row \in Row, NEW ref \in Iri \cup {NoIri}, NEW i \in Iri,
           Apply(row, ref, i)
    PROVE  /\ Kept
           /\ row.kind \in CreateKinds => \A x : x = row.target => Own(x, i)'
           /\ row.kind \notin CreateKinds => i = ref
<1>0. remote \in [Iri -> Object] /\ row.kind \in Kinds
  BY DEF TypeOK, Row
<1>1. ASSUME NEW k \in {"part", "lot"}, NEW p, NewObject(i, k, row, p)
      PROVE  Kept /\ Own(row.target, i)'
  BY <1>0, <1>1 DEF NewObject, Kept, Own
<1>2. ASSUME remote' = [remote EXCEPT ![i].val = row.val]
      PROVE  Kept
  <2>1. /\ [remote[i] EXCEPT !.val = row.val].kind = remote[i].kind
        /\ [remote[i] EXCEPT !.val = row.val].owner = remote[i].owner
    BY <1>0 DEF Object
  <2>2. \A j \in Iri : remote'[j] = IF j = i THEN [remote[i] EXCEPT !.val = row.val] ELSE remote[j]
    BY <1>0, <1>2
  <2>3. \A j \in Iri : SameOwner(j)
    BY <2>1, <2>2 DEF SameOwner
  <2> QED
    BY <2>3, OwnersKept
<1>3. ASSUME remote' = [remote EXCEPT ![i].live = FALSE]
      PROVE  Kept
  <2>1. /\ [remote[i] EXCEPT !.live = FALSE].kind = remote[i].kind
        /\ [remote[i] EXCEPT !.live = FALSE].owner = remote[i].owner
    BY <1>0 DEF Object
  <2>2. \A j \in Iri : remote'[j] = IF j = i THEN [remote[i] EXCEPT !.live = FALSE] ELSE remote[j]
    BY <1>0, <1>3
  <2>3. \A j \in Iri : SameOwner(j)
    BY <2>1, <2>2 DEF SameOwner
  <2> QED
    BY <2>3, OwnersKept
<1> QED
  BY <1>0, <1>1, <1>2, <1>3 DEF Apply, CreateKinds, Kinds, LotChange, PartChange

\* Callers name what the columns and the rows of the same target name.
LEMMA RequestsOwn ==
    ASSUME NEW op \in Requests, op.target # NoTarget
    PROVE  /\ op.kind \notin CreateKinds /\ op.ref # NoIri
                 => op.target \in Targets /\ op.ref = column[op.target]
           /\ op.kind \in LotChange /\ op.dep # NoRow => op.dep \in RowsOf({op.target})
<1>1. ASSUME NEW x \in PartTarget, op \in PartRequests(x)
      PROVE  /\ op.kind \notin CreateKinds => op.target = x /\ op.ref \in Columns({x})
             /\ op.kind \notin LotChange
  BY <1>1 DEF PartRequests, Op, CreateKinds, LotChange
<1>2. ASSUME NEW x \in LotTarget, op \in LotRequests(x), op.kind \notin CreateKinds
      PROVE  /\ op.target = x
             /\ op.ref \in Columns({x}) \cup {NoIri} /\ op.dep \in RowsOf({x}) \cup {NoRow}
  BY <1>2 DEF LotRequests, Op, CreateKinds, Named
<1>3. op \notin Removals
  BY DEF Removals, LotRemovals, PartRemovals, Op
<1>4. \A x : Columns({x}) \subseteq {column[x]}
  BY DEF Columns
<1> QED
  <2>1. CASE \E x \in PartTarget : op \in PartRequests(x)
    BY <1>1, <1>4, <2>1 DEF Targets
  <2>2. CASE \E x \in LotTarget : op \in LotRequests(x)
    <3>1. PICK x \in LotTarget : op \in LotRequests(x)
      BY <2>2
    <3>2. op.kind \in LotChange => op.kind \notin CreateKinds
      BY DEF LotChange, CreateKinds
    <3> QED
      BY <1>2, <1>4, <3>1, <3>2 DEF Targets
  <2> QED
    BY <1>3, <2>1, <2>2 DEF Requests

-----------------------------------------------------------------------------
(* The steps.                                                               *)

LEMMA OwnInit == Init => OwnInv
<1> SUFFICES ASSUME Init PROVE OwnInv
  OBVIOUS
<1>1. ColumnOwns
  BY DEF Init, ColumnOwns
<1>2. \A r \in RowId : RowOwns(r)
  BY DEF Init, RowOwns, RowOf
<1>3. \A t \in Tick : CallOwns(t)
  BY DEF Init, CallOwns, IdleTick
<1> QED
  BY <1>1, <1>2, <1>3 DEF OwnInv

LEMMA EnqueueOwns ==
    ASSUME DepInv, OwnInv, NEW op \in Requests, Enqueue(op) PROVE OwnInv'
<1>0. TypeOK /\ op \in Operation /\ rows \in [RowId -> Row]
  BY RequestsType DEF DepInv, TypeInv, TypeOK
<1>1. PICK n \in RowId : /\ rows[n].status = "absent"
                         /\ rows' = [rows EXCEPT ![n] = RowOf(op, "pending")]
  BY NewIdFree DEF Enqueue, Insert
<1>2. Kept /\ UNCHANGED <<column, ticks>>
  BY RemoteKept DEF Enqueue
<1>3. \A r \in RowId \ {n} : SameRow(r)
  BY <1>0, <1>1 DEF SameRow
<1>4. ASSUME NEW r \in RowId \ {n} PROVE RowOwns(r)'
  <2>1. CASE rows[r].dep = n /\ rows[r].status # "absent" /\ rows[r].target # NoTarget
    <3>1. rows[r].kind \notin LotChange
      BY <1>1, <2>1, OwnFields, <1>0 DEF OwnInv, RowOwns
    <3> QED
      BY <1>2, <1>3, <3>1 DEF OwnInv, RowOwns, SameRow, Kept
  <2>2. CASE rows[r].dep # n
    BY <1>0, <1>2, <1>3, <2>2, RowsKept, OwnFields
  <2>3. CASE rows[r].status = "absent" \/ rows[r].target = NoTarget
    BY <1>3, <2>3 DEF RowOwns, SameRow
  <2> QED
    BY <2>1, <2>2, <2>3
<1>5. RowOwns(n)'
  <2>1. /\ rows'[n].kind = op.kind /\ rows'[n].target = op.target /\ rows'[n].ref = op.ref
        /\ rows'[n].dep = op.dep /\ rows'[n].status = "pending"
    BY <1>0, <1>1 DEF RowOf
  <2>2. ASSUME op.target # NoTarget, op.kind \notin CreateKinds, op.ref # NoIri
        PROVE  Own(op.target, op.ref)'
    BY <1>2, <2>2, RequestsOwn DEF OwnInv, ColumnOwns, Kept
  <2>3. ASSUME op.target # NoTarget, op.kind \in LotChange, op.dep # NoRow
        PROVE  rows'[op.dep].status # "absent" /\ rows'[op.dep].target = op.target
    <3>1. op.dep \in RowId /\ rows[op.dep].status # "absent" /\ rows[op.dep].target = op.target
      BY <2>3, RequestsOwn DEF RowsOf, Present
    <3> QED
      BY <1>0, <1>1, <3>1
  <2> QED
    BY <2>1, <2>2, <2>3 DEF RowOwns
<1>6. \A t \in Tick : CallOwns(t)'
  <2>1. \A t \in Tick : \A r \in ticks[t].batch : r \in RowId /\ r # n
    BY <1>0, <1>1 DEF DepInv, HeldReady, TypeOK, TickState
  <2> QED
    BY <1>2, <1>3, <2>1, CallsKept DEF SameCall
<1>7. ColumnOwns'
  BY <1>2 DEF OwnInv, ColumnOwns, Kept
<1> QED
  BY <1>4, <1>5, <1>6, <1>7 DEF OwnInv

LEMMA ClaimOwns ==
    ASSUME DepInv, OwnInv, NEW t \in Tick, Claim(t) PROVE OwnInv'
<1>0. rows \in [RowId -> Row]
  BY DEF DepInv, TypeInv, TypeOK
<1>1. \A r \in RowId : Reclaimed(rows)[r] \in {rows[r], [rows[r] EXCEPT !.status = "pending"]}
      /\ (rows[r].status # "leased" => Reclaimed(rows)[r] = rows[r])
  BY DEF Reclaimed
<1>2. ASSUME NEW r \in RowId PROVE SameRow(r)
  <2> DEFINE row == Reclaimed(rows)[r]
  <2>1. /\ rows[r] \in Row
        /\ row.kind = rows[r].kind /\ row.target = rows[r].target /\ row.ref = rows[r].ref
        /\ row.dep = rows[r].dep /\ row.iri = rows[r].iri
        /\ row.status = rows[r].status \/ (rows[r].status = "leased" /\ row.status = "pending")
    <3>1. rows[r] \in Row
      BY <1>0
    <3>2. CASE row = rows[r]
      BY <3>1, <3>2
    <3>3. CASE row = [rows[r] EXCEPT !.status = "pending"] /\ rows[r].status = "leased"
      <4> HIDE DEF row
      <4> QED
        BY <3>1, <3>3 DEF Row
    <3> QED
      BY <1>1, <3>1, <3>2, <3>3
  <2>2. r \in Batch(Reclaimed(rows)) => row.status \in {"pending", "failed"}
    BY DEF Batch, Claimable
  <2>3. row \in Row
    BY <1>0, <1>1 DEF Row, Statuses
  <2>4. /\ Leased(row).kind = row.kind /\ Leased(row).target = row.target
        /\ Leased(row).ref = row.ref /\ Leased(row).dep = row.dep
        /\ Leased(row).status = "leased"
    BY <2>3 DEF Leased, Row
  <2>5. rows'[r] = IF r \in Batch(Reclaimed(rows)) THEN Leased(row) ELSE row
    BY DEF Claim
  <2> HIDE DEF row
  <2> QED
    BY <2>1, <2>2, <2>4, <2>5 DEF SameRow
<1>3. \A u \in Tick : SameCall(u)
  BY DEF Claim, SameCall, DepInv, TypeInv, TypeOK
<1> QED
  BY <1>2, <1>3, AllKept DEF Claim

\* A row that fails says what it said.
LEMMA FailedSame ==
    ASSUME TypeOK, NEW r \in RowId, NEW s \in {"failed", "dead"}, MarkFailed(r, s),
           NEW q \in RowId
    PROVE  SameRow(q) \/ (q = r /\ rows[r].status = "absent")
<1>1. rows \in [RowId -> Row] /\ rows' = [rows EXCEPT ![r] = Failed(rows[r], s)]
  BY DEF TypeOK, MarkFailed
<1>2. /\ Failed(rows[r], s).kind = rows[r].kind /\ Failed(rows[r], s).target = rows[r].target
      /\ Failed(rows[r], s).ref = rows[r].ref /\ Failed(rows[r], s).dep = rows[r].dep
      /\ Failed(rows[r], s).status = s
  BY <1>1 DEF Failed, Row
<1> QED
  BY <1>1, <1>2 DEF SameRow

LEMMA SettledTick ==
    ASSUME TypeOK, NEW t \in Tick, NEW r, ticks' = [ticks EXCEPT ![t] = Without(@, r)]
    PROVE  \A u \in Tick : SameCall(u)
<1>1. Without(ticks[t], r).call = "none"
  BY DEF Without, TypeOK, TickState
<1> QED
  BY <1>1 DEF SameCall, TypeOK

LEMMA FailingOwns ==
    ASSUME DepInv, OwnInv, NEW t \in Tick, HydrateFails(t) \/ SettleFailed(t) PROVE OwnInv'
<1>0. TypeOK /\ ticks[t].batch # {}
  BY DEF HydrateFails, Runs, SettleFailed, DepInv, TypeInv, CallsHaveRow
<1>1. Head(t) \in RowId /\ rows[Head(t)].status # "absent"
  BY <1>0, HeadInBatch DEF DepInv, HeldReady
<1>2. PICK s \in {"failed", "dead"} : MarkFailed(Head(t), s)
  BY DEF HydrateFails, SettleFailed, Verdict
<1>3. \A r \in RowId : SameRow(r)
  BY <1>0, <1>1, <1>2, FailedSame
<1>4. \A u \in Tick : SameCall(u)
  BY <1>0, SettledTick DEF HydrateFails, SettleFailed
<1> QED
  BY <1>3, <1>4, AllKept DEF HydrateFails, SettleFailed

\* The object a call will name is the row's own.
LEMMA SendOwns ==
    ASSUME DepInv, OwnInv, NEW t \in Tick, Send(t) PROVE OwnInv'
<1> DEFINE h == Head(t)
           i == HydratedRef(rows, h)
<1>0. TypeOK /\ ticks \in [Tick -> TickState] /\ rows \in [RowId -> Row]
  BY DEF DepInv, TypeInv, TypeOK
<1>1. h \in RowId /\ h \in ticks[t].batch /\ rows[h].status # "absent"
  BY <1>0, HeadInBatch DEF Send, Runs, DepInv, HeldReady
<1>2. /\ rows[h].kind = "create_part" \/ i # NoIri
      /\ ticks' = [ticks EXCEPT ![t] = Calling(@, "sent", i)]
      /\ UNCHANGED <<rows, column, remote>>
  BY DEF Send, tableVars
<1> HIDE DEF h
<1>3. ASSUME rows[h].kind \notin CreateKinds, rows[h].target # NoTarget
      PROVE  Own(rows[h].target, i)
  <2>1. RowOwns(h) /\ i # NoIri
    BY <1>1, <1>2, <1>3 DEF OwnInv, CreateKinds
  <2>2. CASE i = rows[h].ref
    BY <1>1, <1>3, <2>1, <2>2 DEF RowOwns
  <2>3. CASE i # rows[h].ref
    <3>1. rows[h].dep # NoRow /\ rows[h].kind \in LotChange /\ i = DependencyIri(rows, rows[h].dep)
      BY <1>3, <2>3 DEF HydratedRef, CreateKinds
    <3>2. /\ rows[h].dep \in RowId /\ rows[rows[h].dep].status = "delivered"
          /\ i = rows[rows[h].dep].iri
      BY <1>0, <1>1, <2>1, <3>1, OwnFields DEF DependencyIri
    <3>3. rows[rows[h].dep].target = rows[h].target
      BY <1>1, <1>3, <2>1, <3>1 DEF RowOwns
    <3>4. RowOwns(rows[h].dep)
      BY <3>2 DEF OwnInv
    <3> QED
      BY <1>3, <3>2, <3>3, <3>4 DEF RowOwns
  <2> QED
    BY <2>2, <2>3
<1> HIDE DEF i
<1>4. Kept /\ \A r \in RowId : SameRow(r)
  BY <1>2, RemoteKept DEF SameRow
<1>5. ASSUME NEW u \in Tick, u # t PROVE CallOwns(u)'
  <2>1. SameCall(u) /\ ticks[u].batch \subseteq RowId
    BY <1>0, <1>2, <1>5 DEF SameCall, TickState
  <2> QED
    BY <1>4, <2>1, CallsKept
<1>6. CallOwns(t)'
  <2>1. ticks'[t].call = "sent" /\ ticks'[t].ref = i /\ ticks'[t].batch = ticks[t].batch
    BY <1>0, <1>2 DEF Calling, TickState
  <2>2. Head(t)' = h
    BY <2>1 DEF Head, h
  <2> QED
    BY <1>2, <1>3, <1>4, <2>1, <2>2 DEF CallOwns, Kept
<1>7. \A r \in RowId : RowOwns(r)'
  BY <1>0, <1>4, RowsKept, OwnFields
<1>8. ColumnOwns'
  BY <1>2, <1>4 DEF OwnInv, ColumnOwns, Kept
<1> QED
  BY <1>5, <1>6, <1>7, <1>8 DEF OwnInv

\* The answer a tick has is stored in its row and in the column.
LEMMA DeliveredOwns ==
    ASSUME DepInv, OwnInv, NEW t \in Tick, SettleDelivered(t) PROVE OwnInv'
<1> DEFINE h == Head(t)
<1>0. TypeOK /\ ticks \in [Tick -> TickState] /\ rows \in [RowId -> Row]
      /\ column \in [Targets -> Iri \cup {NoIri}]
  BY DEF DepInv, TypeInv, TypeOK
<1>1. h \in RowId /\ rows[h].status # "absent"
  BY <1>0, HeadInBatch DEF SettleDelivered, DepInv, TypeInv, CallsHaveRow, HeldReady
<1>2. /\ rows' = [rows EXCEPT ![h] = Delivered(@, ticks[t].ref)]
      /\ ticks' = [ticks EXCEPT ![t] = Without(@, h)]
      /\ column' = IF rows[h].target = NoTarget THEN column
                   ELSE [column EXCEPT ![rows[h].target] =
                           IF rows[h].kind = "delete_lot" THEN NoIri ELSE ticks[t].ref]
      /\ ticks[t].call = "ok"
  BY DEF SettleDelivered
<1>3. rows[h].target # NoTarget => Own(rows[h].target, ticks[t].ref)
  BY <1>2 DEF OwnInv, CallOwns
<1>4. Kept
  BY RemoteKept DEF SettleDelivered
<1> HIDE DEF h
<1>5. /\ \A r \in RowId \ {h} : rows'[r] = rows[r]
      /\ rows'[h].kind = rows[h].kind /\ rows'[h].target = rows[h].target
      /\ rows'[h].ref = rows[h].ref /\ rows'[h].dep = rows[h].dep
      /\ rows'[h].status = "delivered" /\ rows'[h].iri = ticks[t].ref
  BY <1>0, <1>1, <1>2 DEF Delivered, Row
<1>6. ASSUME NEW r \in RowId PROVE RowOwns(r)'
  <2>1. RowOwns(r)
    BY DEF OwnInv
  <2>2. rows[r].dep # NoRow => rows[r].dep \in RowId
    BY <1>0, OwnFields
  <2> QED
    BY <1>1, <1>3, <1>4, <1>5, <2>1, <2>2 DEF RowOwns, Kept
<1>7. ASSUME NEW u \in Tick PROVE CallOwns(u)'
  <2>1. SameCall(u)
    BY <1>0, <1>2, SettledTick
  <2>2. CASE ticks'[u].call = "none"
    BY <2>2 DEF CallOwns
  <2>3. CASE ticks'[u] = ticks[u] /\ ticks[u].call # "none"
    <3>1. Head(u) \in RowId /\ Head(u)' = Head(u)
      BY <1>0, <2>3, HeadInBatch DEF Head, DepInv, TypeInv, CallsHaveRow
    <3>2. rows'[Head(u)].kind = rows[Head(u)].kind /\ rows'[Head(u)].target = rows[Head(u)].target
      BY <1>5, <3>1
    <3>3. CallOwns(u)
      BY DEF OwnInv
    <3> QED
      BY <1>4, <2>3, <3>1, <3>2, <3>3 DEF CallOwns, Kept
  <2> QED
    BY <2>1, <2>2, <2>3 DEF SameCall
<1>8. ColumnOwns'
  BY <1>0, <1>2, <1>3, <1>4 DEF OwnInv, ColumnOwns, Kept
<1> QED
  BY <1>6, <1>7, <1>8 DEF OwnInv

\* What Part-DB's side of a call leaves: tick t has answer c and object i.
Outcome(t, c, i) ==
    /\ ticks' = [ticks EXCEPT ![t] = Calling(@, c, i)]
    /\ Kept
    /\ c # "ok" => i = ticks[t].ref
    /\ c = "ok" => IF rows[Head(t)].kind \in CreateKinds
                   THEN \A x : x = rows[Head(t)].target => Own(x, i)'
                   ELSE i = ticks[t].ref

CallEnds == {"ok", "sent"} \cup Answers

\* Part-DB's side of a call, and what the tick then has.
LEMMA PartDbOwns ==
    ASSUME DepInv, OwnInv, NEW t \in Tick, PartDb(t) PROVE OwnInv'
<1> DEFINE h == Head(t)
<1>0. TypeOK /\ ticks \in [Tick -> TickState] /\ rows \in [RowId -> Row]
      /\ ticks[t].ref \in Iri \cup {NoIri} /\ ticks[t].batch # {}
  BY DEF DepInv, TypeInv, TypeOK, TickState, CallsHaveRow, PartDb, Accept, LoseAnswer, Refuse
<1>1. h \in RowId /\ rows[h] \in Row /\ ticks[t].call = "sent" /\ UNCHANGED <<rows, column>>
  BY <1>0, HeadInBatch DEF PartDb, Accept, LoseAnswer, Refuse, tableVars
<1>2. rows[h].kind \notin CreateKinds /\ rows[h].target # NoTarget
        => Own(rows[h].target, ticks[t].ref)
  BY <1>1 DEF OwnInv, CallOwns
<1>3. \E c \in CallEnds, i \in Iri \cup {NoIri} : Outcome(t, c, i)
  <2>1. CASE Accept(t)
    <3>1. PICK i \in Iri : /\ Apply(rows[h], ticks[t].ref, i)
                           /\ ticks' = [ticks EXCEPT ![t] = Calling(@, "ok", i)]
      BY <2>1 DEF Accept
    <3> QED
      <4>1. Outcome(t, "ok", i)
        <5>1. /\ Kept
              /\ rows[h].kind \in CreateKinds => \A x : x = rows[h].target => Own(x, i)'
              /\ rows[h].kind \notin CreateKinds => i = ticks[t].ref
          BY <1>0, <1>1, <3>1, ApplyOwns
        <5> QED
          BY <3>1, <5>1 DEF Outcome
      <4> QED
        BY <4>1 DEF CallEnds
  <2>2. ASSUME NEW c \in Answers \cup {"sent"}, LoseAnswer(t, c)
        PROVE  \E e \in CallEnds, i \in Iri \cup {NoIri} : Outcome(t, e, i)
    <3>1. PICK i \in Iri : Apply(rows[h], ticks[t].ref, i)
      BY <2>2 DEF LoseAnswer
    <3>2. Kept
      BY <1>0, <1>1, <3>1, ApplyOwns
    <3> QED
      <4>1. Outcome(t, c, ticks[t].ref)
        BY <2>2, <3>2 DEF LoseAnswer, Outcome, Answers
      <4> QED
        BY <1>0, <4>1 DEF CallEnds
  <2>3. ASSUME NEW c \in Answers, Refuse(t, c)
        PROVE  \E e \in CallEnds, i \in Iri \cup {NoIri} : Outcome(t, e, i)
    <3>1. Outcome(t, c, ticks[t].ref)
      BY <2>3, RemoteKept DEF Refuse, Outcome, Answers
    <3> QED
      BY <1>0, <3>1 DEF CallEnds
  <2> QED
    BY <2>1, <2>2, <2>3 DEF PartDb
<1>9. PICK c \in CallEnds, i \in Iri \cup {NoIri} : Outcome(t, c, i)
  BY <1>3
<1>10. Kept /\ ticks' = [ticks EXCEPT ![t] = Calling(@, c, i)]
  BY <1>9 DEF Outcome
<1> HIDE DEF h
<1>4. \A r \in RowId : SameRow(r)
  BY <1>1 DEF SameRow
<1>5. ASSUME NEW u \in Tick, u # t PROVE CallOwns(u)'
  <2>1. SameCall(u) /\ ticks[u].batch \subseteq RowId
    BY <1>0, <1>10, <1>5 DEF SameCall, TickState
  <2> QED
    BY <1>10, <1>4, <2>1, CallsKept
<1>6. CallOwns(t)'
  <2>1. ticks'[t].call = c /\ ticks'[t].ref = i /\ ticks'[t].batch = ticks[t].batch
    BY <1>0, <1>10 DEF Calling, TickState
  <2>2. Head(t)' = h
    BY <2>1 DEF Head, h
  <2> QED
    BY <1>1, <1>2, <1>9, <1>10, <2>1, <2>2 DEF CallOwns, Kept, Outcome, h
<1>7. \A r \in RowId : RowOwns(r)'
  BY <1>0, <1>4, <1>10, RowsKept, OwnFields
<1>8. ColumnOwns'
  BY <1>1, <1>10 DEF OwnInv, ColumnOwns, Kept
<1> QED
  BY <1>5, <1>6, <1>7, <1>8 DEF OwnInv

\* Time, administrators and restarts.
LEMMA OthersOwn ==
    ASSUME DepInv, OwnInv,
           Elapse \/ Crash \/ \E r \in RowId : BackoffElapses(r) \/ Retry(r)
    PROVE  OwnInv'
<1>0. TypeOK /\ rows \in [RowId -> Row]
  BY DEF DepInv, TypeInv, TypeOK
<1>1. CASE Elapse
  <2>1. \A r \in RowId : SameRow(r)
    BY <1>0, <1>1 DEF Elapse, SameRow, Row
  <2> QED
    BY <1>1, <2>1, AllKept DEF Elapse, SameCall
<1>2. CASE Crash
  <2>1. (\A r \in RowId : SameRow(r)) /\ \A u \in Tick : SameCall(u)
    BY <1>2 DEF Crash, tableVars, SameRow, SameCall, IdleTick
  <2> QED
    BY <1>2, <2>1, AllKept DEF Crash, tableVars
<1>3. ASSUME NEW r \in RowId, BackoffElapses(r) PROVE OwnInv'
  <2>1. \A q \in RowId : SameRow(q)
    BY <1>0, <1>3 DEF BackoffElapses, SameRow, Row
  <2> QED
    BY <1>3, <2>1, AllKept DEF BackoffElapses, SameCall
<1>4. ASSUME NEW r \in RowId, Retry(r) PROVE OwnInv'
  <2>1. /\ Requeued(rows[r]).kind = rows[r].kind /\ Requeued(rows[r]).target = rows[r].target
        /\ Requeued(rows[r]).ref = rows[r].ref /\ Requeued(rows[r]).dep = rows[r].dep
        /\ Requeued(rows[r]).status = "pending"
    BY <1>0 DEF Requeued, Row
  <2>2. \A q \in RowId : SameRow(q)
    BY <1>0, <1>4, <2>1 DEF Retry, SameRow
  <2> QED
    BY <1>4, <2>2, AllKept DEF Retry, SameCall
<1> QED
  BY <1>1, <1>2, <1>3, <1>4

LEMMA OwnStep == DepInv /\ OwnInv /\ [Next]_vars => OwnInv'
<1> SUFFICES ASSUME DepInv, OwnInv, [Next]_vars PROVE OwnInv'
  OBVIOUS
<1>1. CASE UNCHANGED vars
  BY <1>1, AllKept DEF vars, SameRow, SameCall
<1> QED
  BY <1>1, EnqueueOwns, ClaimOwns, SendOwns, FailingOwns, DeliveredOwns, PartDbOwns, OthersOwn
     DEF Next, Delivering, Worker

\* No item's amount is ever written to another item's lot: what a column stores, and what
\* an update or a delete in flight names, was made for that very row, also when a slow
\* tick and its successor work on the same rows.
THEOREM OwnObjects == Spec => []NamesOwnObject
<1>1. TypeInv /\ OwnInv => NamesOwnObject
  BY DEF OwnInv, ColumnOwns, CallOwns, Own, NamesOwnObject
<1>2. DepInv => TypeInv
  BY DEF DepInv
<1> QED
  BY <1>1, <1>2, DepInit, DepStep, OwnInit, OwnStep, PTL DEF Spec

=============================================================================
