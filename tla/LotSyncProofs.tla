--------------------------- MODULE LotSyncProofs ----------------------------
(***************************************************************************)
(* Proofs about LotSync, for every number of parts, items, rows, ticks,     *)
(* attempts and values.                                                     *)
(***************************************************************************)
EXTENDS LotSync, OutboxLeaseProofs

SyncStatuses == {"never", "pending", "synced", "failed"}

-----------------------------------------------------------------------------
(* The rows of a target.                                                    *)

OpenRows(rs, x) == {r \in RowId : rs[r].target = x /\ rs[r].status \in Open}

LEMMA Largest ==
    ASSUME NEW S \in SUBSET RowId, S # {}
    PROVE  \E r \in S : \A q \in S : q <= r
<1> DEFINE T == {MaxRows - r : r \in S}
<1>1. MaxRows \in Nat /\ \A r \in S : r \in Nat /\ r <= MaxRows
  BY OutboxAssumption DEF RowId
<1>2. T \in SUBSET Nat /\ T # {}
  BY <1>1
<1>3. PICK m \in T : \A k \in T : m <= k
  BY <1>2, Smallest
<1>4. PICK r \in S : m = MaxRows - r
  BY <1>3
<1>5. \A q \in S : MaxRows - r <= MaxRows - q
  BY <1>3, <1>4
<1> QED
  BY <1>1, <1>4, <1>5

\* findLatestPendingTarget finds the newest open row, or that there is none.
LEMMA LatestOpenIs ==
    ASSUME NEW rs, NEW x
    PROVE  /\ OpenRows(rs, x) = {} => LatestOpen(rs, x) = NoRow
           /\ OpenRows(rs, x) # {} =>
                 /\ LatestOpen(rs, x) \in OpenRows(rs, x)
                 /\ \A q \in OpenRows(rs, x) : q <= LatestOpen(rs, x)
           /\ NoRow \notin RowId
<1>1. OpenRows(rs, x) # {} =>
         \E r \in OpenRows(rs, x) : \A q \in OpenRows(rs, x) : q <= r
  <2>1. OpenRows(rs, x) \in SUBSET RowId
    BY DEF OpenRows
  <2> QED
    BY <2>1, Largest
<1>2. LatestOpen(rs, x) = IF OpenRows(rs, x) = {} THEN NoRow
        ELSE CHOOSE r \in OpenRows(rs, x) : \A q \in OpenRows(rs, x) : q <= r
  BY DEF LatestOpen, OpenRows
<1>3. NoRow \notin RowId
  BY OutboxAssumption DEF NoRow, RowId
<1> QED
  BY <1>1, <1>2, <1>3

LEMMA NoneOpen ==
    ASSUME NEW rs, NEW x, LatestOpen(rs, x) = NoRow
    PROVE  OpenRows(rs, x) = {}
<1>1. OpenRows(rs, x) \subseteq RowId
  BY DEF OpenRows
<1> QED
  BY <1>1, LatestOpenIs

\* It depends only on the rows of the target.
LEMMA LatestOpenSame ==
    ASSUME NEW rs, NEW rt, NEW x, OpenRows(rs, x) = OpenRows(rt, x)
    PROVE  LatestOpen(rs, x) = LatestOpen(rt, x)
<1>1. \A ru : LatestOpen(ru, x) = IF OpenRows(ru, x) = {} THEN NoRow
        ELSE CHOOSE r \in OpenRows(ru, x) : \A q \in OpenRows(ru, x) : q <= r
  BY DEF LatestOpen, OpenRows
<1> QED
  BY <1>1

-----------------------------------------------------------------------------
(* Transactions.                                                            *)

Txn == [rows : [RowId -> Row], sync : [Targets -> SyncStatuses],
        ignored : SUBSET (Targets \cup {NoTarget}), full : BOOLEAN]

Gapless(rs) == \A r \in Present(rs) : 1..r \subseteq Present(rs)

\* The table with new rows after the old ones.
Grown(rt) ==
    \A r \in RowId :
        \/ rt[r] = rows[r]
        \/ rows[r].status = "absent" /\ \E op \in Operation : rt[r] = RowOf(op, "pending")

TX(tx) == tx \in Txn /\ Grown(tx.rows) /\ Gapless(tx.rows)

\* The rows a transaction adds for y.
NewIn(rt, y) == {r \in RowId : /\ rows[r].status = "absent" /\ rt[r].status # "absent"
                               /\ rt[r].target = y}

\* Two transactions say the same of y.
Alike(tx, ty, y) ==
    /\ NewIn(ty.rows, y) = NewIn(tx.rows, y)
    /\ \A r \in NewIn(tx.rows, y) : ty.rows[r] = tx.rows[r]
    /\ y \in ty.ignored <=> y \in tx.ignored
    /\ y \in Targets => ty.sync[y] = tx.sync[y]

\* The transaction adds op and nothing else for its target, or ignores it.
Added(tx, op) == /\ \E n \in RowId : /\ NewIn(tx.rows, op.target) = {n}
                                     /\ tx.rows[n] = RowOf(op, "pending")
                 /\ op.target \notin tx.ignored
Refused(tx, y) == NewIn(tx.rows, y) = {} /\ y \in tx.ignored

\* The new row's id is the first that is free.
LEMMA Appends ==
    ASSUME NEW rs, HasRoom(rs), Gapless(rs)
    PROVE  /\ NewId(rs) \in RowId /\ rs[NewId(rs)].status = "absent"
           /\ 1..(NewId(rs) - 1) \subseteq Present(rs)
           /\ \A q \in Present(rs) : q < NewId(rs)
<1>1. NewId(rs) \in RowId /\ NextFree(rs, NewId(rs))
  BY DEF HasRoom, NewId
<1>2. \A q \in RowId : 1..(q - 1) \subseteq RowId /\ q \in 1..q /\ q \in Nat
  BY OutboxAssumption DEF RowId
<1>3. ASSUME NEW q \in Present(rs), ~(q < NewId(rs)) PROVE FALSE
  <2>1. q \in RowId /\ NewId(rs) \in 1..q
    BY <1>1, <1>2, <1>3 DEF Present, RowId
  <2>2. NewId(rs) \in Present(rs)
    BY <2>1 DEF Gapless
  <2> QED
    BY <1>1, <2>2 DEF NextFree, Present
<1>4. 1..(NewId(rs) - 1) \subseteq Present(rs)
  BY <1>1, <1>2 DEF NextFree, Present
<1> QED
  BY <1>1, <1>3, <1>4 DEF NextFree

\* enqueue does one of three things.
LEMMA EnqueuedCases ==
    ASSUME NEW tx \in Txn, NEW op \in Operation
    PROVE  /\ Enqueued(tx, op) \in Txn
           /\ tx.full => Enqueued(tx, op).full
           /\ Ignored(tx.rows, op) =>
                 /\ Enqueued(tx, op).rows = tx.rows /\ Enqueued(tx, op).sync = tx.sync
                 /\ Enqueued(tx, op).ignored = tx.ignored \cup {op.target}
                 /\ Enqueued(tx, op).full = tx.full
           /\ ~Ignored(tx.rows, op) /\ ~HasRoom(tx.rows) =>
                 /\ Enqueued(tx, op).rows = tx.rows /\ Enqueued(tx, op).sync = tx.sync
                 /\ Enqueued(tx, op).ignored = tx.ignored
                 /\ Enqueued(tx, op).full
           /\ ~Ignored(tx.rows, op) /\ HasRoom(tx.rows) =>
                 /\ Enqueued(tx, op).rows = [tx.rows EXCEPT ![NewId(tx.rows)] =
                                                RowOf(op, "pending")]
                 /\ Enqueued(tx, op).sync = SetSync(tx.sync, op.target, "pending")
                 /\ Enqueued(tx, op).ignored = tx.ignored \ {op.target}
                 /\ Enqueued(tx, op).full = tx.full
<1>1. op.target \in Targets \cup {NoTarget}
  BY DEF Operation
<1>2. CASE Ignored(tx.rows, op)
  <2>1. Enqueued(tx, op) = [tx EXCEPT !.ignored = @ \cup {op.target}]
    BY <1>2 DEF Enqueued
  <2> QED
    BY <1>1, <1>2, <2>1 DEF Txn
<1>3. CASE ~Ignored(tx.rows, op) /\ ~HasRoom(tx.rows)
  <2>1. Enqueued(tx, op) = [tx EXCEPT !.full = TRUE]
    BY <1>3 DEF Enqueued
  <2> QED
    BY <1>3, <2>1 DEF Txn
<1>4. CASE ~Ignored(tx.rows, op) /\ HasRoom(tx.rows)
  <2>1. RowOf(op, "pending") \in Row
    BY RowOfType DEF Statuses
  <2>2. SetSync(tx.sync, op.target, "pending") \in [Targets -> SyncStatuses]
    BY SetSyncType DEF Txn, SyncStatuses
  <2>3. Insert(tx.rows, op) = [tx.rows EXCEPT ![NewId(tx.rows)] = RowOf(op, "pending")]
    BY <1>4 DEF Insert
  <2>4. Insert(tx.rows, op) \in [RowId -> Row]
    BY <2>1, <2>3 DEF Txn
  <2>5. Enqueued(tx, op) = [tx EXCEPT !.rows = Insert(@, op),
                                      !.sync = SetSync(@, op.target, "pending"),
                                      !.ignored = @ \ {op.target}]
    BY <1>4 DEF Enqueued
  <2> HIDE DEF Insert
  <2> QED
    BY <1>4, <2>2, <2>3, <2>4, <2>5 DEF Txn
<1> QED
  BY <1>2, <1>3, <1>4

\* Where enqueue puts a row, the table grows by it.
LEMMA Grows ==
    ASSUME NEW rs, NEW op \in Operation, NEW rt, rs \in [RowId -> Row], Grown(rs), Gapless(rs),
           HasRoom(rs), rt = [rs EXCEPT ![NewId(rs)] = RowOf(op, "pending")]
    PROVE  /\ Grown(rt) /\ Gapless(rt)
           /\ \A y : y # op.target => NewIn(rt, y) = NewIn(rs, y)
           /\ NewIn(rt, op.target) = NewIn(rs, op.target) \cup {NewId(rs)}
           /\ rt[NewId(rs)] = RowOf(op, "pending")
           /\ \A r \in RowId : r # NewId(rs) => rt[r] = rs[r]
<1> DEFINE n == NewId(rs)
<1>1. n \in RowId /\ rs[n].status = "absent" /\ 1..(n - 1) \subseteq Present(rs)
  BY Appends
<1>2. rt[n] = RowOf(op, "pending") /\ \A r \in RowId : r # n => rt[r] = rs[r]
  BY <1>1
<1>3. RowOf(op, "pending").status = "pending" /\ RowOf(op, "pending").target = op.target
  BY DEF RowOf
<1>4. rows[n].status = "absent"
  BY <1>1 DEF Grown
<1> HIDE DEF n
<1>5. Grown(rt)
  BY <1>1, <1>2, <1>4 DEF Grown
<1>6. Present(rt) = Present(rs) \cup {n}
  BY <1>1, <1>2, <1>3 DEF Present
<1>7. Gapless(rt)
  <2>1. 1..n \subseteq 1..(n - 1) \cup {n}
    BY <1>1, OutboxAssumption DEF RowId
  <2> QED
    BY <1>1, <1>6, <2>1 DEF Gapless
<1>8. \A y : NewIn(rt, y) = IF y = op.target THEN NewIn(rs, y) \cup {n} ELSE NewIn(rs, y)
  BY <1>1, <1>2, <1>3, <1>4 DEF NewIn
<1> QED
  BY <1>2, <1>5, <1>7, <1>8 DEF n

\* What enqueue does to a transaction that has written nothing for the target yet.
LEMMA EnqueuedTx ==
    ASSUME NEW tx, TX(tx), NEW op \in Operation, NewIn(tx.rows, op.target) = {}
    PROVE  /\ TX(Enqueued(tx, op))
           /\ tx.full => Enqueued(tx, op).full
           /\ \A y : y # op.target => Alike(tx, Enqueued(tx, op), y)
           /\ ~Enqueued(tx, op).full => \/ /\ Added(Enqueued(tx, op), op)
                                        \/ /\ Refused(Enqueued(tx, op), op.target)
                                           /\ Ignored(tx.rows, op)
<1> DEFINE ty == Enqueued(tx, op)
<1>0. tx \in Txn /\ Grown(tx.rows) /\ Gapless(tx.rows) /\ tx.rows \in [RowId -> Row]
  BY DEF TX, Txn
<1>1. ty \in Txn /\ (tx.full => ty.full)
  BY <1>0, EnqueuedCases
<1>2. CASE Ignored(tx.rows, op)
  <2>1. /\ ty.rows = tx.rows /\ ty.sync = tx.sync /\ ty.full = tx.full
        /\ ty.ignored = tx.ignored \cup {op.target}
    BY <1>0, <1>2, EnqueuedCases
  <2> HIDE DEF ty
  <2>2. TX(ty) /\ \A y : y # op.target => Alike(tx, ty, y)
    BY <1>0, <1>1, <2>1 DEF TX, Alike
  <2>3. Refused(ty, op.target)
    BY <2>1 DEF Refused
  <2> QED
    BY <1>1, <1>2, <2>2, <2>3 DEF ty
<1>3. CASE ~Ignored(tx.rows, op) /\ ~HasRoom(tx.rows)
  <2>1. /\ ty.rows = tx.rows /\ ty.sync = tx.sync /\ ty.ignored = tx.ignored /\ ty.full
    BY <1>0, <1>3, EnqueuedCases
  <2> HIDE DEF ty
  <2>2. TX(ty) /\ \A y : y # op.target => Alike(tx, ty, y)
    BY <1>0, <1>1, <2>1 DEF TX, Alike
  <2> QED
    BY <1>1, <2>1, <2>2 DEF ty
<1>4. CASE ~Ignored(tx.rows, op) /\ HasRoom(tx.rows)
  <2>1. /\ ty.rows = [tx.rows EXCEPT ![NewId(tx.rows)] = RowOf(op, "pending")]
        /\ ty.sync = SetSync(tx.sync, op.target, "pending")
        /\ ty.ignored = tx.ignored \ {op.target} /\ ty.full = tx.full
    BY <1>0, <1>4, EnqueuedCases
  <2> HIDE DEF ty
  <2>2. /\ Grown(ty.rows) /\ Gapless(ty.rows)
        /\ \A y : y # op.target => NewIn(ty.rows, y) = NewIn(tx.rows, y)
        /\ NewIn(ty.rows, op.target) = {NewId(tx.rows)}
        /\ ty.rows[NewId(tx.rows)] = RowOf(op, "pending")
        /\ \A r \in RowId : r # NewId(tx.rows) => ty.rows[r] = tx.rows[r]
    BY <1>0, <1>4, <2>1, Grows
  <2>3. NewId(tx.rows) \in RowId /\ tx.rows[NewId(tx.rows)].status = "absent"
    BY <1>0, <1>4, Appends
  <2>4. ASSUME NEW y, y # op.target PROVE Alike(tx, ty, y)
    <3>1. y \in Targets => ty.sync[y] = tx.sync[y]
      BY <1>0, <2>1, <2>4 DEF SetSync, Txn
    <3>2. \A r \in NewIn(tx.rows, y) : r \in RowId /\ r # NewId(tx.rows)
      BY <2>3 DEF NewIn
    <3> QED
      BY <2>1, <2>2, <2>4, <3>1, <3>2 DEF Alike
  <2>5. Added(ty, op)
    BY <2>1, <2>2, <2>3 DEF Added
  <2>6. TX(ty)
    BY <1>1, <2>2 DEF TX
  <2> QED
    BY <1>1, <2>4, <2>5, <2>6 DEF ty
<1> QED
  BY <1>2, <1>3, <1>4

LEMMA AlikeTrans ==
    ASSUME NEW tx, NEW ty, NEW tz, NEW y, Alike(tx, ty, y), Alike(ty, tz, y)
    PROVE  Alike(tx, tz, y)
  BY DEF Alike

LEMMA AlikeKeeps ==
    ASSUME NEW tx, NEW ty, NEW y, Alike(tx, ty, y)
    PROVE  /\ Refused(tx, y) => Refused(ty, y)
           /\ \A op : op.target = y /\ Added(tx, op) => Added(ty, op)
           /\ NewIn(tx.rows, y) = {} => NewIn(ty.rows, y) = {}
  BY DEF Alike, Refused, Added

\* While a transaction has written nothing for x, its open rows are those of before.
LEMMA OpenBefore ==
    ASSUME NEW rt, Grown(rt), NEW x, NewIn(rt, x) = {}
    PROVE  OpenRows(rt, x) = OpenRows(rows, x) /\ LatestOpen(rt, x) = LatestOpen(rows, x)
<1>1. "absent" \notin Open
  BY DEF Open
<1>2. OpenRows(rt, x) = OpenRows(rows, x)
  BY <1>1 DEF OpenRows, Grown, NewIn
<1> QED
  BY <1>2, LatestOpenSame

-----------------------------------------------------------------------------
(* The inventory and the operations it makes.                               *)

StockTypes ==
    /\ stock \in [LotTarget -> Item] /\ parts \in [PartTarget -> PartType]
    /\ ignored \in SUBSET (Targets \cup {NoTarget}) /\ merged \in SUBSET LotTarget
    /\ backfills \in Nat
    /\ \A x \in LotTarget : Stored(x) => stock[x].part \in PartTarget

UpdateOp(x, amount) == Op("update_lot", x, <<column[x], LatestOpen(rows, x)>>, amount)
DeleteOp(x) == Op("delete_lot", x, <<column[x], LatestOpen(rows, x)>>, NoOp.val)
DropOp(x) == Op("delete_lot", NoTarget, <<column[x], NoRow>>, NoOp.val)
LotOp(x, p, d, amount) == Op("create_lot", x, <<column[p], d>>, amount)
UpdatePartOp(p, def) == Op("update_part", p, <<column[p], NoRow>>, def)

LEMMA Disjoint ==
    /\ PartTarget \cap LotTarget = {} /\ Definitions \subseteq Values /\ Values \subseteq Nat
    /\ NoOp.val \in Definitions /\ PartTarget \subseteq Targets /\ LotTarget \subseteq Targets
    /\ NoTarget \notin Targets
  BY LotSyncAssumption, OutboxAssumption DEF LotSyncAssumption, Targets

LEMMA LotOperations ==
    ASSUME TypeOK, NEW x \in LotTarget, NEW a \in Values
    PROVE  /\ UpdateOp(x, a) \in Operation /\ DeleteOp(x) \in Operation
           /\ DropOp(x) \in Operation
<1>1. column[x] \in Iri \cup {NoIri} /\ x \in Targets
  BY Disjoint DEF TypeOK
<1>2. LatestOpen(rows, x) \in RowId \cup {NoRow}
  BY LatestOpenIs DEF OpenRows
<1>3. "update_lot" \in Kinds /\ "delete_lot" \in Kinds
  BY DEF Kinds, LotChange
<1> QED
  BY <1>1, <1>2, <1>3, OpType, ChosenValue DEF UpdateOp, DeleteOp, DropOp

LEMMA PartOperations ==
    ASSUME TypeOK, NEW p \in PartTarget, NEW a \in Values
    PROVE  /\ CreatePartOp(p, a) \in Operation /\ UpdatePartOp(p, a) \in Operation
           /\ \A x \in LotTarget, d \in RowId \cup {NoRow} : LotOp(x, p, d, a) \in Operation
<1>1. column[p] \in Iri \cup {NoIri} /\ p \in Targets /\ LotTarget \subseteq Targets
  BY Disjoint DEF TypeOK
<1>2. {"create_part", "update_part", "create_lot"} \subseteq Kinds
  BY DEF Kinds, CreateKinds, PartChange
<1> QED
  BY <1>1, <1>2, OpType DEF LotOp, CreatePartOp, UpdatePartOp

LEMMA OperationTargets ==
    ASSUME NEW x, NEW p, NEW d, NEW a
    PROVE  /\ UpdateOp(x, a).target = x /\ DeleteOp(x).target = x
           /\ DropOp(x).target = NoTarget /\ LotOp(x, p, d, a).target = x
           /\ CreatePartOp(p, a).target = p /\ UpdatePartOp(p, a).target = p
  BY DEF UpdateOp, DeleteOp, DropOp, LotOp, CreatePartOp, UpdatePartOp, Op

\* A transaction starts with the tables as they are.
LEMMA BeginTx ==
    ASSUME TypeOK, StockTypes, Gapless(rows)
    PROVE  TX(Begin) /\ \A y : NewIn(Begin.rows, y) = {}
<1>1. Begin \in Txn
  BY DEF Begin, Txn, TypeOK, StockTypes, SyncStatuses
<1>2. Begin.rows = rows
  BY DEF Begin
<1> QED
  BY <1>1, <1>2 DEF TX, Grown, NewIn

\* There was a row like op already.
Known(op) == \E r \in Present(rows) : /\ rows[r].kind = op.kind /\ rows[r].target = op.target
                                      /\ rows[r].ref = op.ref

LEMMA IgnoredKnown ==
    ASSUME NEW rt, Grown(rt), NEW op, NewIn(rt, op.target) = {}, Ignored(rt, op)
    PROVE  Known(op)
<1>1. PICK r \in Present(rt) : KeyOf(rt[r]) = KeyOf(op)
  BY DEF Ignored
<1>2. rt[r].kind = op.kind /\ rt[r].target = op.target /\ rt[r].ref = op.ref
  BY <1>1 DEF KeyOf
<1>3. r \in RowId /\ rows[r].status # "absent"
  BY <1>1, <1>2 DEF Present, NewIn
<1> QED
  BY <1>2, <1>3 DEF Known, Grown, Present

\* The request is enqueued, or it is dropped since there was one like it.
Requested(ty, op) == Added(ty, op) \/ (Refused(ty, op.target) /\ Known(op))

LEMMA RequestTx ==
    ASSUME NEW tx, TX(tx), NEW op \in Operation, NewIn(tx.rows, op.target) = {}
    PROVE  /\ TX(Enqueued(tx, op))
           /\ tx.full => Enqueued(tx, op).full
           /\ \A y : y # op.target => Alike(tx, Enqueued(tx, op), y)
           /\ ~Enqueued(tx, op).full => Requested(Enqueued(tx, op), op)
<1>1. Ignored(tx.rows, op) => Known(op)
  BY IgnoredKnown DEF TX
<1> QED
  BY <1>1, EnqueuedTx DEF Requested

\* enqueueLotUpdate, after anything that wrote nothing for x.
LEMMA UpdateTx ==
    ASSUME TypeOK, NEW tx, TX(tx), NEW x \in LotTarget, NEW a \in Values,
           NewIn(tx.rows, x) = {}
    PROVE  /\ TX(UpdateLot(tx, x, a))
           /\ tx.full => UpdateLot(tx, x, a).full
           /\ \A y : y # x => Alike(tx, UpdateLot(tx, x, a), y)
           /\ ~UpdateLot(tx, x, a).full =>
                 IF column[x] = NoIri /\ LatestOpen(rows, x) = NoRow
                 THEN Alike(tx, UpdateLot(tx, x, a), x)
                 ELSE Requested(UpdateLot(tx, x, a), UpdateOp(x, a))
<1>1. LatestOpen(tx.rows, x) = LatestOpen(rows, x)
  BY OpenBefore DEF TX
<1>2. UpdateLot(tx, x, a) = IF column[x] = NoIri /\ LatestOpen(rows, x) = NoRow THEN tx
                            ELSE Enqueued(tx, UpdateOp(x, a))
  BY <1>1 DEF UpdateLot, UpdateOp
<1>3. UpdateOp(x, a) \in Operation /\ UpdateOp(x, a).target = x
  BY LotOperations, OperationTargets
<1>4. \A y : Alike(tx, tx, y)
  BY DEF Alike
<1> QED
  BY <1>2, <1>3, <1>4, RequestTx

\* enqueueDeleteLot
LEMMA DeleteTx ==
    ASSUME TypeOK, NEW tx, TX(tx), NEW x \in LotTarget, NewIn(tx.rows, x) = {}
    PROVE  /\ TX(DeleteLot(tx, x))
           /\ \A y : y # x => Alike(tx, DeleteLot(tx, x), y)
           /\ ~DeleteLot(tx, x).full =>
                 IF column[x] = NoIri /\ LatestOpen(rows, x) = NoRow
                 THEN Alike(tx, DeleteLot(tx, x), x)
                 ELSE Requested(DeleteLot(tx, x), DeleteOp(x))
<1>1. LatestOpen(tx.rows, x) = LatestOpen(rows, x)
  BY OpenBefore DEF TX
<1>2. DeleteLot(tx, x) = IF column[x] = NoIri /\ LatestOpen(rows, x) = NoRow THEN tx
                         ELSE Enqueued(tx, DeleteOp(x))
  BY <1>1 DEF DeleteLot, DeleteOp
<1>3. DeleteOp(x) \in Operation /\ DeleteOp(x).target = x
  BY LotOperations, OperationTargets, ChosenValue
<1>4. \A y : Alike(tx, tx, y)
  BY DEF Alike
<1> QED
  BY <1>2, <1>3, <1>4, RequestTx

\* The delete_lot of a correction.
LEMMA DropTx ==
    ASSUME TypeOK, NEW tx, TX(tx), NEW x \in LotTarget, NewIn(tx.rows, NoTarget) = {}
    PROVE  /\ TX(DropLot(tx, x))
           /\ tx.full => DropLot(tx, x).full
           /\ \A y : y # NoTarget => Alike(tx, DropLot(tx, x), y)
           /\ ~DropLot(tx, x).full => IF column[x] = NoIri
                                      THEN Alike(tx, DropLot(tx, x), NoTarget)
                                      ELSE Requested(DropLot(tx, x), DropOp(x))
<1>1. DropLot(tx, x) = IF column[x] = NoIri THEN tx ELSE Enqueued(tx, DropOp(x))
  BY DEF DropLot, DropOp
<1>2. DropOp(x) \in Operation /\ DropOp(x).target = NoTarget
  BY LotOperations, OperationTargets, ChosenValue
<1>3. \A y : Alike(tx, tx, y)
  BY DEF Alike
<1> QED
  BY <1>1, <1>2, <1>3, RequestTx

\* What may happen to the part of a lot.
PartAsked(tx, ty, p) ==
    \/ Alike(tx, ty, p)
    \/ /\ column[p] = NoIri /\ LatestOpen(rows, p) = NoRow
       /\ \E v \in Values : Requested(ty, CreatePartOp(p, v))

\* ensurePartTypeSync
LEMMA PartTx ==
    ASSUME TypeOK, NEW tx, TX(tx), NEW p \in PartTarget, NEW v \in Values,
           NewIn(tx.rows, p) = {}
    PROVE  /\ TX(EnsurePart(tx, p, v))
           /\ tx.full => EnsurePart(tx, p, v).full
           /\ \A y : y # p => Alike(tx, EnsurePart(tx, p, v), y)
           /\ ~EnsurePart(tx, p, v).full => PartAsked(tx, EnsurePart(tx, p, v), p)
<1>1. LatestOpen(tx.rows, p) = LatestOpen(rows, p)
  BY OpenBefore DEF TX
<1>2. EnsurePart(tx, p, v) = IF column[p] # NoIri \/ LatestOpen(rows, p) # NoRow THEN tx
                             ELSE Enqueued(tx, CreatePartOp(p, v))
  BY <1>1 DEF EnsurePart
<1>3. CreatePartOp(p, v) \in Operation /\ CreatePartOp(p, v).target = p
  BY PartOperations, OperationTargets
<1>4. \A y : Alike(tx, tx, y)
  BY DEF Alike
<1> QED
  BY <1>2, <1>3, <1>4, RequestTx DEF PartAsked

\* It returns the id of a row of the part, unless the part has its remote id.
LEMMA DependencyOfPart ==
    ASSUME TypeOK, NEW tx, TX(tx), NEW p \in PartTarget, NEW v \in Values,
           NewIn(tx.rows, p) = {}, ~EnsurePart(tx, p, v).full
    PROVE  LET ty == EnsurePart(tx, p, v)
               d == PartDependency(ty, p, v)
           IN  IF column[p] # NoIri THEN d = NoRow
               ELSE d \in Present(ty.rows) /\ ty.rows[d].target = p
<1> DEFINE ty == EnsurePart(tx, p, v)
           op == CreatePartOp(p, v)
           d == PartDependency(ty, p, v)
<1>1. column[p] # NoIri => d = NoRow
  BY DEF PartDependency
<1>2. ASSUME column[p] = NoIri, LatestOpen(ty.rows, p) # NoRow
      PROVE  d \in Present(ty.rows) /\ ty.rows[d].target = p
  <2>1. d = LatestOpen(ty.rows, p)
    BY <1>2 DEF PartDependency
  <2>2. LatestOpen(ty.rows, p) \in OpenRows(ty.rows, p)
    BY <1>2, LatestOpenIs
  <2> QED
    BY <2>1, <2>2 DEF OpenRows, Present, Open
<1>3. ASSUME column[p] = NoIri, LatestOpen(ty.rows, p) = NoRow
      PROVE  d \in Present(ty.rows) /\ ty.rows[d].target = p
  <2>1. op \in Operation /\ op.target = p
    BY PartOperations, OperationTargets
  <2>2. ty = IF LatestOpen(tx.rows, p) # NoRow THEN tx ELSE Enqueued(tx, op)
    BY <1>3 DEF EnsurePart
  <2>3. ty = Enqueued(tx, op)
    BY <1>3, <2>2
  <2>4. ~Added(ty, op)
    <3> SUFFICES ASSUME Added(ty, op) PROVE FALSE
      OBVIOUS
    <3>1. PICK n \in RowId : n \in NewIn(ty.rows, p) /\ ty.rows[n] = RowOf(op, "pending")
      BY <2>1 DEF Added
    <3>2. ty.rows[n].status = "pending" /\ ty.rows[n].target = p
      BY <2>1, <3>1 DEF RowOf
    <3>3. n \in OpenRows(ty.rows, p)
      BY <3>2 DEF OpenRows, Open
    <3>4. LatestOpen(ty.rows, p) \in RowId
      BY <3>3, LatestOpenIs DEF OpenRows
    <3> QED
      BY <1>3, <3>4, LatestOpenIs
  <2>5. Ignored(tx.rows, op)
    BY <2>1, <2>3, <2>4, EnqueuedTx
  <2>6. ty.rows = tx.rows
    <3>1. tx \in Txn
      BY DEF TX
    <3>2. Enqueued(tx, op).rows = tx.rows
      BY <2>1, <2>5, <3>1, EnqueuedCases
    <3> QED
      BY <2>3, <3>2
  <2>7. d = CHOOSE r \in Present(ty.rows) : KeyOf(ty.rows[r]) = KeyOf(op)
    BY <1>3, <2>5, <2>6 DEF PartDependency, EnqueuedId
  <2>8. d \in Present(ty.rows) /\ KeyOf(ty.rows[d]) = KeyOf(op)
    BY <2>5, <2>6, <2>7 DEF Ignored
  <2> QED
    BY <2>1, <2>8 DEF KeyOf
<1> QED
  BY <1>1, <1>2, <1>3

\* The row of the new lot names its part, or depends on a row of the part.
LotAsked(ty, x, p, a) ==
    \E d \in RowId \cup {NoRow} :
        /\ Requested(ty, LotOp(x, p, d, a))
        /\ IF column[p] # NoIri THEN d = NoRow
           ELSE d \in Present(ty.rows) /\ ty.rows[d].target = p

\* A row that is there stays as it is when the transaction goes on.
LEMMA RowStays ==
    ASSUME NEW tx, TX(tx), NEW ty, TX(ty), NEW d \in Present(tx.rows),
           \A y : tx.rows[d].target = y => Alike(tx, ty, y)
    PROVE  d \in Present(ty.rows) /\ ty.rows[d] = tx.rows[d]
<1>1. d \in RowId /\ tx.rows[d].status # "absent"
  BY DEF Present
<1>2. CASE rows[d].status # "absent"
  BY <1>1, <1>2 DEF TX, Grown, Present
<1>3. CASE rows[d].status = "absent"
  <2>1. d \in NewIn(tx.rows, tx.rows[d].target)
    BY <1>1, <1>3 DEF NewIn
  <2>2. ty.rows[d] = tx.rows[d]
    BY <2>1 DEF Alike
  <2> QED
    BY <1>1, <2>2 DEF Present
<1> QED
  BY <1>2, <1>3

\* ensurePartTypeSync and enqueueCreateLot, which always come together.
LEMMA PairTx ==
    ASSUME TypeOK, StockTypes, NEW tx, TX(tx), NEW x \in LotTarget, NEW p \in PartTarget,
           NEW a \in Values,
           NewIn(tx.rows, p) = {}, NewIn(tx.rows, x) = {}, LatestOpen(rows, x) = NoRow
    PROVE  LET ty == CreatePartAndLot(tx, x, p, a)
           IN  /\ TX(ty)
               /\ tx.full => ty.full
               /\ \A y : y # x /\ y # p => Alike(tx, ty, y)
               /\ ~ty.full => PartAsked(tx, ty, p) /\ LotAsked(ty, x, p, a)
<1> DEFINE v  == parts[p].def
           tp == EnsurePart(tx, p, v)
           d  == PartDependency(tp, p, v)
           op == LotOp(x, p, d, a)
           ty == CreatePartAndLot(tx, x, p, a)
<1>1. v \in Values /\ x # p
  BY Disjoint DEF StockTypes, PartType
<1>2. /\ TX(tp) /\ (tx.full => tp.full) /\ (\A y : y # p => Alike(tx, tp, y))
      /\ (~tp.full => PartAsked(tx, tp, p))
  BY <1>1, PartTx
<1>3. NewIn(tp.rows, x) = {} /\ LatestOpen(tp.rows, x) = NoRow
  <2>1. Alike(tx, tp, x)
    BY <1>1, <1>2
  <2>2. NewIn(tp.rows, x) = {}
    BY <2>1, AlikeKeeps
  <2> QED
    BY <1>2, <2>2, OpenBefore DEF TX
<1>4. ty = IF tp.full THEN tp ELSE Enqueued(tp, op)
  <2>1. ty = CreateLot(tp, x, p, a)
    BY DEF CreatePartAndLot
  <2>2. CreateLot(tp, x, p, a) = IF tp.full THEN tp ELSE Enqueued(tp, op)
    BY <1>3 DEF CreateLot, LotOp
  <2> QED
    BY <2>1, <2>2
<1>5. CASE tp.full
  BY <1>2, <1>4, <1>5
<1>6. CASE ~tp.full
  <2>1. IF column[p] # NoIri THEN d = NoRow ELSE d \in Present(tp.rows) /\ tp.rows[d].target = p
    BY <1>1, <1>6, DependencyOfPart
  <2>2. d \in RowId \cup {NoRow}
    BY <2>1 DEF Present
  <2>3. op \in Operation /\ op.target = x
    BY <2>2, PartOperations, OperationTargets
  <2>4. ty = Enqueued(tp, op)
    BY <1>4, <1>6
  <2> HIDE DEF tp, d, op, ty
  <2>5. /\ TX(ty) /\ (\A y : y # x => Alike(tp, ty, y))
        /\ (~ty.full => Requested(ty, op))
    BY <1>2, <1>3, <2>3, <2>4, RequestTx
  <2>6. ~ty.full => PartAsked(tx, ty, p)
    <3>1. Alike(tp, ty, p)
      BY <1>1, <2>5
    <3>2. Alike(tx, tp, p) => Alike(tx, ty, p)
      BY <3>1, AlikeTrans
    <3>3. \A w : Requested(tp, CreatePartOp(p, w)) => Requested(ty, CreatePartOp(p, w))
      BY <3>1, AlikeKeeps, OperationTargets DEF Requested
    <3> QED
      BY <1>2, <1>6, <3>2, <3>3 DEF PartAsked
  <2>7. column[p] = NoIri => d \in Present(ty.rows) /\ ty.rows[d].target = p
    <3> SUFFICES ASSUME column[p] = NoIri
                 PROVE  d \in Present(ty.rows) /\ ty.rows[d].target = p
      OBVIOUS
    <3>1. d \in Present(tp.rows) /\ tp.rows[d].target = p
      BY <2>1
    <3>2. \A y : tp.rows[d].target = y => Alike(tp, ty, y)
      BY <1>1, <2>5, <3>1
    <3> QED
      BY <1>2, <2>5, <3>1, <3>2, RowStays
  <2>8. ~ty.full => LotAsked(ty, x, p, a)
    BY <2>1, <2>2, <2>5, <2>7 DEF LotAsked, op
  <2>9. \A y : y # x /\ y # p => Alike(tx, ty, y)
    BY <1>2, <2>5, AlikeTrans
  <2> QED
    BY <1>6, <2>5, <2>6, <2>8, <2>9, <1>2 DEF ty, tp
<1> QED
  BY <1>5, <1>6

-----------------------------------------------------------------------------
(* What each command asks of the outbox.                                    *)

\* The database as a command leaves it.
Done == [rows |-> rows', sync |-> syncStatus', ignored |-> ignored', full |-> FALSE]

Untouched(y) == Alike(Begin, Done, y)

\* An item without a row in its table never had any in the outbox.
Unborn == \A x \in LotTarget : stock[x].status = "none" =>
             /\ \A r \in Present(rows) : rows[r].target # x
             /\ column[x] = NoIri /\ x \notin ignored

LEMMA Committed ==
    ASSUME NEW tx, TX(tx), Commit(tx)
    PROVE  tx = Done
  BY DEF TX, Txn, Commit, Done

LEMMA Nothing == ASSUME NEW y PROVE Alike(Begin, Begin, y)
  BY DEF Alike

LEMMA UnbornIdle ==
    ASSUME Unborn, NEW x \in LotTarget, stock[x].status = "none"
    PROVE  LatestOpen(rows, x) = NoRow
<1>1. OpenRows(rows, x) = {}
  BY DEF Unborn, OpenRows, Present, Open
<1> QED
  BY <1>1, LatestOpenIs

LEMMA DidAssign ==
    ASSUME TypeOK, StockTypes, Gapless(rows), Unborn,
           NEW x \in LotTarget, NEW p \in PartTarget, NEW a \in Values, AssignQr(x, p, a)
    PROVE  /\ TX(Done) /\ \A y : y # x /\ y # p => Untouched(y)
           /\ PartAsked(Begin, Done, p) /\ LotAsked(Done, x, p, a)
<1> DEFINE tx == CreatePartAndLot(Begin, x, p, a)
<1>1. LatestOpen(rows, x) = NoRow /\ Commit(tx) /\ ~tx.full
  BY UnbornIdle DEF AssignQr, Commit
<1>2. /\ TX(tx) /\ \A y : y # x /\ y # p => Alike(Begin, tx, y)
      /\ PartAsked(Begin, tx, p) /\ LotAsked(tx, x, p, a)
  BY <1>1, BeginTx, PairTx
<1> HIDE DEF tx
<1>3. tx = Done
  BY <1>1, <1>2, Committed
<1> QED
  BY <1>2, <1>3 DEF Untouched

\* What an update asks: nothing only if there is no lot and none is on its way.
UpdateAsked(x, a) ==
    IF column[x] = NoIri /\ LatestOpen(rows, x) = NoRow THEN Untouched(x)
    ELSE Requested(Done, UpdateOp(x, a))

LEMMA DidRecord ==
    ASSUME TypeOK, StockTypes, Gapless(rows),
           NEW x \in LotTarget, NEW a \in Values, RecordEvent(x, a)
    PROVE  /\ TX(Done) /\ \A y : y # x => Untouched(y)
           /\ UpdateAsked(x, a)
<1> DEFINE tx == UpdateLot(Begin, x, a)
<1>1. Commit(tx) /\ ~tx.full
  BY DEF RecordEvent, Commit
<1>2. /\ TX(tx) /\ \A y : y # x => Alike(Begin, tx, y)
      /\ IF column[x] = NoIri /\ LatestOpen(rows, x) = NoRow THEN Alike(Begin, tx, x)
         ELSE Requested(tx, UpdateOp(x, a))
  BY <1>1, BeginTx, UpdateTx
<1> HIDE DEF tx
<1>3. tx = Done
  BY <1>1, <1>2, Committed
<1> QED
  BY <1>2, <1>3 DEF Untouched, UpdateAsked

\* Requests for one target stay when the transaction goes on with others.
LEMMA RequestStays ==
    ASSUME NEW tx, NEW ty, NEW x, NEW op, op.target = x, Alike(tx, ty, x), Requested(tx, op)
    PROVE  Requested(ty, op)
  BY AlikeKeeps DEF Requested

LEMMA DidSplitToNew ==
    ASSUME TypeOK, StockTypes, Gapless(rows), Unborn,
           NEW x \in LotTarget, NEW y \in LotTarget, NEW a \in Values, SplitToNew(x, y, a)
    PROVE  LET p == stock[x].part
           IN  /\ TX(Done) /\ x # y /\ p \in PartTarget
               /\ \A z : z # x /\ z # y /\ z # p => Untouched(z)
               /\ UpdateAsked(x, stock[x].qty - a)
               /\ PartAsked(Begin, Done, p) /\ LotAsked(Done, y, p, a)
<1> DEFINE p  == stock[x].part
           b  == stock[x].qty - a
           tx == UpdateLot(Begin, x, b)
           ty == CreatePartAndLot(tx, y, p, a)
<1>1. /\ LatestOpen(rows, y) = NoRow /\ Commit(ty) /\ ~ty.full /\ x # y
      /\ p \in PartTarget /\ b \in Values
  BY UnbornIdle DEF SplitToNew, Commit, StockTypes
<1>2. TX(Begin) /\ NewIn(Begin.rows, x) = {} /\ p # x /\ p # y
  BY <1>1, BeginTx, Disjoint
<1> HIDE DEF p, b
<1>3. /\ TX(tx) /\ \A z : z # x => Alike(Begin, tx, z)
      /\ ~tx.full => IF column[x] = NoIri /\ LatestOpen(rows, x) = NoRow
                     THEN Alike(Begin, tx, x) ELSE Requested(tx, UpdateOp(x, b))
  BY <1>1, <1>2, UpdateTx
<1> HIDE DEF tx
<1>4. NewIn(tx.rows, p) = {} /\ NewIn(tx.rows, y) = {}
  <2>1. NewIn(Begin.rows, p) = {} /\ NewIn(Begin.rows, y) = {}
    BY BeginTx
  <2> QED
    BY <1>1, <1>2, <1>3, <2>1, AlikeKeeps
<1>5. /\ TX(ty) /\ (tx.full => ty.full) /\ \A z : z # y /\ z # p => Alike(tx, ty, z)
      /\ PartAsked(tx, ty, p) /\ LotAsked(ty, y, p, a)
  BY <1>1, <1>3, <1>4, PairTx
<1> HIDE DEF ty
<1>6. ty = Done
  BY <1>1, <1>5, Committed
<1>7. \A z : z # x /\ z # y /\ z # p => Alike(Begin, ty, z)
  BY <1>3, <1>5, AlikeTrans
<1>8. UpdateAsked(x, b)
  <2>1. Alike(tx, ty, x)
    BY <1>1, <1>2, <1>5
  <2>2. Alike(Begin, tx, x) => Alike(Begin, ty, x)
    BY <2>1, AlikeTrans
  <2>3. Requested(tx, UpdateOp(x, b)) => Requested(ty, UpdateOp(x, b))
    BY <2>1, RequestStays, OperationTargets
  <2> QED
    BY <1>1, <1>3, <1>5, <1>6, <2>2, <2>3 DEF UpdateAsked, Untouched
<1>9. PartAsked(Begin, ty, p)
  <2>1. Alike(Begin, tx, p)
    BY <1>2, <1>3
  <2>2. Alike(tx, ty, p) => Alike(Begin, ty, p)
    BY <2>1, AlikeTrans
  <2> QED
    BY <1>5, <2>2 DEF PartAsked
<1> QED
  BY <1>1, <1>5, <1>6, <1>7, <1>8, <1>9 DEF Untouched, p, b

LEMMA DidSplitInto ==
    ASSUME TypeOK, StockTypes, Gapless(rows),
           NEW x \in LotTarget, NEW y \in LotTarget, NEW a \in Values, SplitInto(x, y, a)
    PROVE  /\ TX(Done) /\ x # y
           /\ \A z : z # x /\ z # y => Untouched(z)
           /\ UpdateAsked(x, stock[x].qty - a) /\ UpdateAsked(y, stock[y].qty + a)
<1> DEFINE b  == stock[x].qty - a
           c  == stock[y].qty + a
           tx == UpdateLot(Begin, x, b)
           ty == UpdateLot(tx, y, c)
<1>1. Commit(ty) /\ ~ty.full /\ x # y /\ b \in Values /\ c \in Values
  BY DEF SplitInto, Commit
<1>2. TX(Begin) /\ NewIn(Begin.rows, x) = {} /\ NewIn(Begin.rows, y) = {}
  BY BeginTx
<1> HIDE DEF b, c
<1>3. /\ TX(tx) /\ \A z : z # x => Alike(Begin, tx, z)
      /\ ~tx.full => IF column[x] = NoIri /\ LatestOpen(rows, x) = NoRow
                     THEN Alike(Begin, tx, x) ELSE Requested(tx, UpdateOp(x, b))
  BY <1>1, <1>2, UpdateTx
<1> HIDE DEF tx
<1>4. NewIn(tx.rows, y) = {}
  BY <1>1, <1>2, <1>3, AlikeKeeps
<1>5. /\ TX(ty) /\ (tx.full => ty.full) /\ \A z : z # y => Alike(tx, ty, z)
      /\ IF column[y] = NoIri /\ LatestOpen(rows, y) = NoRow
         THEN Alike(tx, ty, y) ELSE Requested(ty, UpdateOp(y, c))
  BY <1>1, <1>3, <1>4, UpdateTx
<1> HIDE DEF ty
<1>6. ty = Done
  BY <1>1, <1>5, Committed
<1>7. \A z : z # x /\ z # y => Alike(Begin, ty, z)
  BY <1>3, <1>5, AlikeTrans
<1>8. UpdateAsked(x, b)
  <2>1. Alike(tx, ty, x)
    BY <1>1, <1>5
  <2>2. Alike(Begin, tx, x) => Alike(Begin, ty, x)
    BY <2>1, AlikeTrans
  <2>3. Requested(tx, UpdateOp(x, b)) => Requested(ty, UpdateOp(x, b))
    BY <2>1, RequestStays, OperationTargets
  <2> QED
    BY <1>1, <1>3, <1>5, <1>6, <2>2, <2>3 DEF UpdateAsked, Untouched
<1>9. UpdateAsked(y, c)
  <2>1. Alike(Begin, tx, y)
    BY <1>1, <1>3
  <2>2. Alike(tx, ty, y) => Alike(Begin, ty, y)
    BY <2>1, AlikeTrans
  <2> QED
    BY <1>5, <1>6, <2>2 DEF UpdateAsked, Untouched
<1> QED
  BY <1>1, <1>5, <1>6, <1>7, <1>8, <1>9 DEF Untouched, b, c

LEMMA DidVoid ==
    ASSUME TypeOK, StockTypes, Gapless(rows), NEW x \in LotTarget, VoidQrCode(x)
    PROVE  /\ TX(Done) /\ \A y : y # x => Untouched(y)
           /\ IF column[x] = NoIri /\ LatestOpen(rows, x) = NoRow THEN Untouched(x)
              ELSE Requested(Done, DeleteOp(x))
<1> DEFINE tx == DeleteLot(Begin, x)
<1>1. Commit(tx) /\ ~tx.full
  BY DEF VoidQrCode, Commit
<1>2. /\ TX(tx) /\ \A y : y # x => Alike(Begin, tx, y)
      /\ IF column[x] = NoIri /\ LatestOpen(rows, x) = NoRow THEN Alike(Begin, tx, x)
         ELSE Requested(tx, DeleteOp(x))
  BY <1>1, BeginTx, DeleteTx
<1> HIDE DEF tx
<1>3. tx = Done
  BY <1>1, <1>2, Committed
<1> QED
  BY <1>2, <1>3 DEF Untouched

\* What a correction does when there is a lot: it drops that and asks for another.
LEMMA DidReassign ==
    ASSUME TypeOK, StockTypes, Gapless(rows),
           NEW x \in LotTarget, NEW p \in PartTarget, ReassignPartType(x, p)
    PROVE  /\ TX(Done) /\ LatestOpen(rows, x) = NoRow
           /\ column[x] = NoIri => UNCHANGED column /\ \A z : Untouched(z)
           /\ column[x] # NoIri =>
                 /\ column' = [column EXCEPT ![x] = NoIri]
                 /\ \A z : z # x /\ z # p /\ z # NoTarget => Untouched(z)
                 /\ Requested(Done, DropOp(x))
                 /\ PartAsked(Begin, Done, p) /\ LotAsked(Done, x, p, stock[x].qty)
<1>1. LatestOpen(rows, x) = NoRow /\ stock[x].qty \in Values
  BY DEF ReassignPartType, Idle, StockTypes, Item
<1>2. TX(Begin) /\ \A y : NewIn(Begin.rows, y) = {}
  BY BeginTx
<1>3. CASE column[x] = NoIri
  <2>1. Commit(Begin) /\ UNCHANGED column
    BY <1>3 DEF ReassignPartType
  <2>2. Begin = Done
    BY <1>2, <2>1, Committed
  <2> QED
    BY <1>1, <1>2, <1>3, <2>1, <2>2, Nothing DEF Untouched
<1>4. CASE column[x] # NoIri
  <2> DEFINE tb == [Begin EXCEPT !.sync = SetSync(@, x, "pending")]
             td == DropLot(tb, x)
             ty == CreatePartAndLot(td, x, p, stock[x].qty)
  <2>1. Commit(ty) /\ ~ty.full /\ column' = [column EXCEPT ![x] = NoIri]
    BY <1>4 DEF ReassignPartType, Commit
  <2>2. TX(tb) /\ tb.rows = Begin.rows /\ \A y : y # x => Alike(Begin, tb, y)
    <3>1. SetSync(syncStatus, x, "pending") \in [Targets -> SyncStatuses]
      BY SetSyncType DEF TypeOK, SyncStatuses
    <3>2. Begin \in Txn /\ Begin.sync = syncStatus
      BY <1>2 DEF TX, Begin
    <3>3. /\ tb.rows = Begin.rows /\ tb.ignored = Begin.ignored
          /\ tb.sync = SetSync(syncStatus, x, "pending") /\ tb \in Txn
      BY <3>1, <3>2 DEF Txn
    <3>5. \A y \in Targets : y # x => SetSync(syncStatus, x, "pending")[y] = syncStatus[y]
      BY DEF SetSync, TypeOK
    <3> HIDE DEF tb
    <3> QED
      BY <1>2, <3>2, <3>3, <3>5 DEF TX, Alike
  <2>3. x # NoTarget /\ p # NoTarget /\ x # p
    BY Disjoint
  <2> HIDE DEF tb
  <2>4. /\ TX(td) /\ \A y : y # NoTarget => Alike(tb, td, y)
        /\ tb.full => td.full
        /\ ~td.full => Requested(td, DropOp(x))
    BY <1>2, <1>4, <2>2, DropTx
  <2> HIDE DEF td
  <2>5. NewIn(td.rows, x) = {} /\ NewIn(td.rows, p) = {}
    BY <1>2, <2>2, <2>3, <2>4, AlikeKeeps
  <2>6. /\ TX(ty) /\ (td.full => ty.full) /\ \A z : z # x /\ z # p => Alike(td, ty, z)
        /\ PartAsked(td, ty, p) /\ LotAsked(ty, x, p, stock[x].qty)
    BY <1>1, <2>1, <2>4, <2>5, PairTx
  <2> HIDE DEF ty
  <2>7. ty = Done
    BY <2>1, <2>6, Committed
  <2>8. \A z : z # x /\ z # p /\ z # NoTarget => Alike(Begin, ty, z)
    BY <2>2, <2>4, <2>6, AlikeTrans
  <2>9. Requested(ty, DropOp(x))
    <3>1. Alike(td, ty, NoTarget) /\ ~td.full
      BY <2>1, <2>3, <2>6
    <3> QED
      BY <2>4, <3>1, RequestStays, OperationTargets
  <2>10. PartAsked(Begin, ty, p)
    <3>1. Alike(Begin, td, p)
      BY <2>2, <2>3, <2>4, AlikeTrans
    <3>2. Alike(td, ty, p) => Alike(Begin, ty, p)
      BY <3>1, AlikeTrans
    <3> QED
      BY <2>6, <3>2 DEF PartAsked
  <2> QED
    BY <1>1, <1>4, <2>1, <2>6, <2>7, <2>8, <2>9, <2>10 DEF Untouched
<1> QED
  BY <1>3, <1>4

LEMMA DidReverse ==
    ASSUME TypeOK, StockTypes, Gapless(rows), NEW x \in LotTarget, ReverseIngest(x)
    PROVE  /\ TX(Done) /\ LatestOpen(rows, x) = NoRow
           /\ column' = [column EXCEPT ![x] = NoIri]
           /\ \A y : y # NoTarget => Untouched(y)
           /\ IF column[x] = NoIri THEN Untouched(NoTarget) ELSE Requested(Done, DropOp(x))
<1> DEFINE tx == DropLot(Begin, x)
<1>1. /\ Commit(tx) /\ ~tx.full /\ LatestOpen(rows, x) = NoRow
      /\ column' = [column EXCEPT ![x] = NoIri]
  BY DEF ReverseIngest, Commit, Idle
<1>2. /\ TX(tx) /\ \A y : y # NoTarget => Alike(Begin, tx, y)
      /\ IF column[x] = NoIri THEN Alike(Begin, tx, NoTarget) ELSE Requested(tx, DropOp(x))
  BY <1>1, BeginTx, DropTx
<1> HIDE DEF tx
<1>3. tx = Done
  BY <1>1, <1>2, Committed
<1> QED
  BY <1>1, <1>2, <1>3 DEF Untouched

\* What may be asked for a part.
PartAsks(p) ==
    \/ PartAsked(Begin, Done, p)
    \/ /\ column[p] # NoIri /\ LatestOpen(rows, p) = NoRow
       /\ \E v \in Values : Requested(Done, UpdatePartOp(p, v))

LEMMA DidEdit ==
    ASSUME TypeOK, StockTypes, Gapless(rows),
           NEW p \in PartTarget, NEW def \in Definitions, EditPartType(p, def)
    PROVE  /\ TX(Done) /\ \A y : y # p => Untouched(y)
           /\ PartAsks(p)
<1>1. def \in Values /\ LatestOpen(rows, p) = NoRow
  BY Disjoint DEF EditPartType, Idle
<1>2. TX(Begin) /\ NewIn(Begin.rows, p) = {}
  BY BeginTx
<1>3. CASE column[p] # NoIri
  <2> DEFINE tx == Enqueued(Begin, UpdatePartOp(p, def))
  <2>1. Commit(tx) /\ ~tx.full
    BY <1>3 DEF EditPartType, UpdatePartOp, Commit
  <2>2. UpdatePartOp(p, def) \in Operation /\ UpdatePartOp(p, def).target = p
    BY <1>1, PartOperations, OperationTargets
  <2>3. /\ TX(tx) /\ \A y : y # p => Alike(Begin, tx, y)
        /\ Requested(tx, UpdatePartOp(p, def))
    BY <1>2, <2>1, <2>2, RequestTx
  <2> HIDE DEF tx
  <2>4. tx = Done
    BY <2>1, <2>3, Committed
  <2> QED
    BY <1>1, <1>3, <2>3, <2>4 DEF Untouched, PartAsks
<1>4. CASE column[p] = NoIri
  <2> DEFINE tx == EnsurePart(Begin, p, def)
  <2>1. Commit(tx) /\ ~tx.full
    BY <1>4 DEF EditPartType, Commit
  <2>2. /\ TX(tx) /\ \A y : y # p => Alike(Begin, tx, y)
        /\ PartAsked(Begin, tx, p)
    BY <1>1, <1>2, <2>1, PartTx
  <2> HIDE DEF tx
  <2>3. tx = Done
    BY <2>1, <2>2, Committed
  <2> QED
    BY <2>2, <2>3 DEF Untouched, PartAsks
<1> QED
  BY <1>3, <1>4

LEMMA DidMerge ==
    ASSUME TypeOK, StockTypes, Gapless(rows),
           NEW p \in PartTarget, NEW q \in PartTarget, MergePartTypes(p, q)
    PROVE  TX(Done) /\ \A y : Untouched(y)
<1>1. TX(Begin) /\ Commit(Begin)
  BY BeginTx DEF MergePartTypes, Commit, Begin
<1> QED
  BY <1>1, Committed, Nothing DEF Untouched

-----------------------------------------------------------------------------
(* What all commands have in common.                                        *)

HasLot(x) == column[x] # NoIri \/ LatestOpen(rows, x) # NoRow

\* What may be asked for a lot.
LotAsks(x) ==
    \/ Untouched(x)
    \/ /\ HasLot(x) /\ column'[x] = column[x]
       /\ \/ \E a \in Values : Requested(Done, UpdateOp(x, a))
          \/ Requested(Done, DeleteOp(x))
    \/ /\ LatestOpen(rows, x) = NoRow /\ column'[x] = NoIri
       /\ \E p \in PartTarget, a \in Values : LotAsked(Done, x, p, a)

\* Only a correction of an item whose rows are all closed takes its lot from it.
DropAsks ==
    \/ Untouched(NoTarget)
    \/ \E x \in LotTarget : /\ column[x] # NoIri /\ LatestOpen(rows, x) = NoRow
                            /\ column'[x] = NoIri /\ Requested(Done, DropOp(x))

ColumnsStay ==
    /\ column' \in [Targets -> Iri \cup {NoIri}]
    /\ \A y \in Targets :
          \/ column'[y] = column[y]
          \/ /\ y \in LotTarget /\ column'[y] = NoIri /\ LatestOpen(rows, y) = NoRow
             /\ Requested(Done, DropOp(y))

Asks == /\ TX(Done) /\ ColumnsStay /\ DropAsks
        /\ \A x \in LotTarget : LotAsks(x)
        /\ \A p \in PartTarget : PartAsks(p)

\* A command that touches one lot, or the lot of an item and its part.
LEMMA OneLotAsks ==
    ASSUME TypeOK, TX(Done), UNCHANGED column, NEW x \in LotTarget,
           \A y : y # x => Untouched(y),
           LotAsks(x)
    PROVE  Asks
<1>1. ColumnsStay
  BY DEF ColumnsStay, TypeOK
<1>2. DropAsks
  BY Disjoint DEF DropAsks
<1>3. \A y \in LotTarget : LotAsks(y)
  BY DEF LotAsks
<1>4. \A p \in PartTarget : PartAsks(p)
  <2>1. \A p \in PartTarget : Alike(Begin, Done, p)
    BY Disjoint DEF Untouched
  <2> QED
    BY <2>1 DEF PartAsks, PartAsked
<1> QED
  BY <1>1, <1>2, <1>3, <1>4 DEF Asks

LEMMA UpdateAsks ==
    ASSUME NEW x \in LotTarget, NEW a \in Values, UpdateAsked(x, a), UNCHANGED column
    PROVE  LotAsks(x)
  BY DEF UpdateAsked, LotAsks, HasLot

LEMMA CommandAsks ==
    ASSUME TypeOK, StockTypes, Gapless(rows), Unborn, MaxBackfills = 0, Command
    PROVE  Asks
<1>1. ASSUME NEW x \in LotTarget, NEW p \in PartTarget, NEW a \in Values, AssignQr(x, p, a)
      PROVE  Asks
  <2>1. /\ TX(Done) /\ \A y : y # x /\ y # p => Untouched(y)
        /\ PartAsked(Begin, Done, p) /\ LotAsked(Done, x, p, a)
    BY <1>1, DidAssign
  <2>2. UNCHANGED column /\ LatestOpen(rows, x) = NoRow /\ column[x] = NoIri
    BY <1>1, UnbornIdle DEF AssignQr, Unborn
  <2>3. LotAsks(x)
    BY <2>1, <2>2 DEF LotAsks
  <2>4. \A y \in LotTarget : LotAsks(y)
    BY <2>1, <2>3, Disjoint DEF LotAsks
  <2>5. \A q \in PartTarget : q # p => Alike(Begin, Done, q)
    BY <2>1, Disjoint DEF Untouched
  <2>6. \A q \in PartTarget : PartAsks(q)
    BY <2>1, <2>5 DEF PartAsks, PartAsked
  <2>7. ColumnsStay
    BY <2>2 DEF ColumnsStay, TypeOK
  <2>8. DropAsks
    BY <2>1, Disjoint DEF DropAsks
  <2> QED
    BY <2>1, <2>4, <2>6, <2>7, <2>8 DEF Asks
<1>2. ASSUME NEW x \in LotTarget, NEW a \in Values, RecordEvent(x, a) PROVE Asks
  <2>1. TX(Done) /\ (\A y : y # x => Untouched(y)) /\ UpdateAsked(x, a) /\ UNCHANGED column
    BY <1>2, DidRecord DEF RecordEvent
  <2> QED
    BY <2>1, UpdateAsks, OneLotAsks
<1>3. ASSUME NEW x \in LotTarget, NEW y \in LotTarget, NEW a \in Values, SplitToNew(x, y, a)
      PROVE  Asks
  <2> DEFINE p == stock[x].part
             b == stock[x].qty - a
  <2>1. /\ TX(Done) /\ x # y /\ p \in PartTarget
        /\ \A z : z # x /\ z # y /\ z # p => Untouched(z)
        /\ UpdateAsked(x, b)
        /\ PartAsked(Begin, Done, p) /\ LotAsked(Done, y, p, a)
    BY <1>3, DidSplitToNew
  <2>2. /\ UNCHANGED column /\ LatestOpen(rows, y) = NoRow /\ column[y] = NoIri
        /\ b \in Values
    BY <1>3, UnbornIdle DEF SplitToNew, Unborn
  <2> HIDE DEF p, b
  <2>3. LotAsks(x) /\ LotAsks(y)
    BY <2>1, <2>2, UpdateAsks DEF LotAsks
  <2>4. \A z \in LotTarget : LotAsks(z)
    BY <2>1, <2>3, Disjoint DEF LotAsks
  <2>5. \A q \in PartTarget : q # p => Alike(Begin, Done, q)
    BY <2>1, Disjoint DEF Untouched
  <2>6. \A q \in PartTarget : PartAsks(q)
    BY <2>1, <2>5 DEF PartAsks, PartAsked
  <2>7. ColumnsStay
    BY <2>2 DEF ColumnsStay, TypeOK
  <2>8. DropAsks
    BY <2>1, Disjoint DEF DropAsks
  <2> QED
    BY <2>1, <2>4, <2>6, <2>7, <2>8 DEF Asks
<1>4. ASSUME NEW x \in LotTarget, NEW y \in LotTarget, NEW a \in Values, SplitInto(x, y, a)
      PROVE  Asks
  <2>1. /\ TX(Done) /\ x # y /\ \A z : z # x /\ z # y => Untouched(z)
        /\ UpdateAsked(x, stock[x].qty - a) /\ UpdateAsked(y, stock[y].qty + a)
        /\ UNCHANGED column
    BY <1>4, DidSplitInto DEF SplitInto
  <2>2. stock[x].qty - a \in Values /\ stock[y].qty + a \in Values
    BY <1>4 DEF SplitInto
  <2>3. LotAsks(x) /\ LotAsks(y)
    BY <2>1, <2>2, UpdateAsks
  <2>4. \A z \in LotTarget : LotAsks(z)
    BY <2>1, <2>3 DEF LotAsks
  <2>5. \A q \in PartTarget : Alike(Begin, Done, q)
    BY <2>1, Disjoint DEF Untouched
  <2>6. \A q \in PartTarget : PartAsks(q)
    BY <2>5 DEF PartAsks, PartAsked
  <2>7. ColumnsStay
    BY <2>1 DEF ColumnsStay, TypeOK
  <2>8. DropAsks
    BY <2>1, Disjoint DEF DropAsks
  <2> QED
    BY <2>1, <2>4, <2>6, <2>7, <2>8 DEF Asks
<1>5. ASSUME NEW x \in LotTarget, VoidQrCode(x) PROVE Asks
  <2>1. /\ TX(Done) /\ (\A y : y # x => Untouched(y)) /\ UNCHANGED column
        /\ IF column[x] = NoIri /\ LatestOpen(rows, x) = NoRow THEN Untouched(x)
           ELSE Requested(Done, DeleteOp(x))
    BY <1>5, DidVoid DEF VoidQrCode
  <2>2. LotAsks(x)
    BY <2>1 DEF LotAsks, HasLot
  <2> QED
    BY <2>1, <2>2, OneLotAsks
<1>6. ASSUME NEW x \in LotTarget, ReverseIngest(x) PROVE Asks
  <2>1. /\ TX(Done) /\ LatestOpen(rows, x) = NoRow
        /\ column' = [column EXCEPT ![x] = NoIri]
        /\ \A y : y # NoTarget => Untouched(y)
        /\ IF column[x] = NoIri THEN Untouched(NoTarget) ELSE Requested(Done, DropOp(x))
    BY <1>6, DidReverse
  <2>2. \A z \in LotTarget : LotAsks(z)
    BY <2>1, Disjoint DEF LotAsks
  <2>3. \A q \in PartTarget : Alike(Begin, Done, q)
    BY <2>1, Disjoint DEF Untouched
  <2>4. \A q \in PartTarget : PartAsks(q)
    BY <2>3 DEF PartAsks, PartAsked
  <2>5. column' \in [Targets -> Iri \cup {NoIri}] /\ column'[x] = NoIri
    BY <2>1, Disjoint DEF TypeOK
  <2>6. ColumnsStay
    BY <2>1, <2>5 DEF ColumnsStay, TypeOK
  <2>7. DropAsks
    BY <2>1, <2>5 DEF DropAsks
  <2> QED
    BY <2>1, <2>2, <2>4, <2>6, <2>7 DEF Asks
<1>7. ASSUME NEW x \in LotTarget, NEW p \in PartTarget, ReassignPartType(x, p) PROVE Asks
  <2>1. /\ TX(Done) /\ LatestOpen(rows, x) = NoRow
        /\ column[x] = NoIri => UNCHANGED column /\ \A z : Untouched(z)
        /\ column[x] # NoIri =>
              /\ column' = [column EXCEPT ![x] = NoIri]
              /\ \A z : z # x /\ z # p /\ z # NoTarget => Untouched(z)
              /\ Requested(Done, DropOp(x))
              /\ PartAsked(Begin, Done, p) /\ LotAsked(Done, x, p, stock[x].qty)
    BY <1>7, DidReassign
  <2>2. CASE column[x] = NoIri
    <3>1. UNCHANGED column /\ (\A z : Untouched(z)) /\ LotAsks(x)
      BY <2>1, <2>2 DEF LotAsks
    <3> QED
      BY <2>1, <3>1, OneLotAsks
  <2>3. CASE column[x] # NoIri
    <3>1. column' \in [Targets -> Iri \cup {NoIri}] /\ column'[x] = NoIri
      BY <2>1, <2>3, Disjoint DEF TypeOK
    <3>2. stock[x].qty \in Values
      BY DEF StockTypes, Item
    <3>3. LotAsks(x)
      BY <2>1, <2>3, <3>1, <3>2 DEF LotAsks
    <3>4. \A z \in LotTarget : LotAsks(z)
      BY <2>1, <2>3, <3>3, Disjoint DEF LotAsks
    <3>5. \A q \in PartTarget : q # p => Alike(Begin, Done, q)
      BY <2>1, <2>3, Disjoint DEF Untouched
    <3>6. \A q \in PartTarget : PartAsks(q)
      BY <2>1, <2>3, <3>5 DEF PartAsks, PartAsked
    <3>7. ColumnsStay
      BY <2>1, <2>3, <3>1 DEF ColumnsStay, TypeOK
    <3>8. DropAsks
      BY <2>1, <2>3, <3>1 DEF DropAsks
    <3> QED
      BY <2>1, <3>4, <3>6, <3>7, <3>8 DEF Asks
  <2> QED
    BY <2>2, <2>3
<1>8. ASSUME NEW p \in PartTarget, NEW def \in Definitions, EditPartType(p, def) PROVE Asks
  <2>1. TX(Done) /\ (\A y : y # p => Untouched(y)) /\ PartAsks(p) /\ UNCHANGED column
    BY <1>8, DidEdit DEF EditPartType
  <2>2. \A z \in LotTarget : LotAsks(z)
    BY <2>1, Disjoint DEF LotAsks
  <2>3. \A q \in PartTarget : q # p => Alike(Begin, Done, q)
    BY <2>1 DEF Untouched
  <2>4. \A q \in PartTarget : PartAsks(q)
    BY <2>1, <2>3 DEF PartAsks, PartAsked
  <2>5. ColumnsStay
    BY <2>1 DEF ColumnsStay, TypeOK
  <2>6. DropAsks
    BY <2>1, Disjoint DEF DropAsks
  <2> QED
    BY <2>1, <2>2, <2>4, <2>5, <2>6 DEF Asks
<1>9. ASSUME NEW p \in PartTarget, NEW q \in PartTarget, MergePartTypes(p, q) PROVE Asks
  <2>1. TX(Done) /\ (\A y : Untouched(y)) /\ UNCHANGED column
    BY <1>9, DidMerge DEF MergePartTypes
  <2>2. \A z \in LotTarget : LotAsks(z)
    BY <2>1 DEF LotAsks
  <2>3. \A r \in PartTarget : Alike(Begin, Done, r)
    BY <2>1 DEF Untouched
  <2>4. \A r \in PartTarget : PartAsks(r)
    BY <2>3 DEF PartAsks, PartAsked
  <2>5. ColumnsStay /\ DropAsks
    BY <2>1 DEF ColumnsStay, DropAsks, TypeOK
  <2> QED
    BY <2>1, <2>2, <2>4, <2>5 DEF Asks
<1>10. ~Backfill
  <2>1. Backfill => backfills < MaxBackfills
    BY Zenon DEF Backfill
  <2>2. ~(backfills < MaxBackfills)
    BY DEF StockTypes
  <2> QED
    BY <2>1, <2>2
<1> QED
  BY <1>1, <1>2, <1>3, <1>4, <1>5, <1>6, <1>7, <1>8, <1>9, <1>10 DEF Command

\* Commands keep the inventory well-typed; an item that is still to come is left alone.
Born == \A z \in LotTarget :
    stock'[z].status = "none" => /\ stock[z].status = "none" /\ Untouched(z)
                                 /\ column'[z] = column[z]

LEMMA CommandStock ==
    ASSUME TypeOK, StockTypes, Gapless(rows), Unborn, MaxBackfills = 0, Command
    PROVE  StockTypes' /\ Born
<1> USE DEF Stored
<1>0. ignored' \in SUBSET (Targets \cup {NoTarget})
  BY CommandAsks DEF Asks, TX, Txn, Done
<1>1. ASSUME NEW x \in LotTarget, NEW p \in PartTarget, NEW a \in Values, AssignQr(x, p, a)
      PROVE  StockTypes' /\ Born
  <2> DEFINE i == [status |-> "assigned", part |-> p, qty |-> a, fresh |-> TRUE]
  <2>1. /\ stock' = [stock EXCEPT ![x] = i] /\ UNCHANGED <<column, parts, merged, backfills>>
    BY <1>1 DEF AssignQr
  <2>2. i \in Item /\ i.status = "assigned" /\ i.part = p
    BY DEF Item
  <2> HIDE DEF i
  <2>3. StockTypes'
    BY <1>0, <2>1, <2>2 DEF StockTypes
  <2>4. \A y : y # x /\ y # p => Untouched(y)
    BY <1>1, DidAssign
  <2>5. Born
    BY <2>1, <2>2, <2>4, Disjoint DEF Born, StockTypes
  <2> QED
    BY <2>3, <2>5
<1>2. ASSUME NEW x \in LotTarget, NEW a \in Values, RecordEvent(x, a) PROVE StockTypes' /\ Born
  <2> DEFINE i == [stock[x] EXCEPT !.qty = a, !.fresh = FALSE]
  <2>1. /\ stock' = [stock EXCEPT ![x] = i] /\ UNCHANGED <<column, parts, merged, backfills>>
        /\ stock[x].status \in {"assigned", "voided"}
    BY <1>2 DEF RecordEvent
  <2>2. i \in Item /\ i.status = stock[x].status /\ i.part = stock[x].part
    BY DEF StockTypes, Item
  <2> HIDE DEF i
  <2>3. StockTypes'
    BY <1>0, <2>1, <2>2 DEF StockTypes
  <2>4. \A y : y # x => Untouched(y)
    BY <1>2, DidRecord
  <2>5. Born
    BY <2>1, <2>2, <2>4 DEF Born, StockTypes
  <2> QED
    BY <2>3, <2>5
<1>3. ASSUME NEW x \in LotTarget, NEW y \in LotTarget, NEW a \in Values, SplitToNew(x, y, a)
      PROVE  StockTypes' /\ Born
  <2> DEFINE p == stock[x].part
             b == stock[x].qty - a
             i == [stock[x] EXCEPT !.qty = b, !.fresh = FALSE]
             j == [status |-> "assigned", part |-> p, qty |-> a, fresh |-> TRUE]
  <2>1. /\ stock' = [stock EXCEPT ![x] = i, ![y] = j]
        /\ UNCHANGED <<column, parts, merged, backfills>> /\ x # y
        /\ stock[x].status \in {"assigned", "voided"} /\ p \in PartTarget /\ b \in Values
    BY <1>3 DEF SplitToNew, StockTypes
  <2>2. i \in Item /\ i.status = stock[x].status /\ i.part = p
        /\ j \in Item /\ j.status = "assigned" /\ j.part = p
    BY <2>1 DEF StockTypes, Item
  <2>4. \A z : z # x /\ z # y /\ z # p => Untouched(z)
    BY <1>3, DidSplitToNew
  <2> HIDE DEF p, b, i, j
  <2>3. StockTypes'
    BY <1>0, <2>1, <2>2 DEF StockTypes
  <2>5. Born
    BY <2>1, <2>2, <2>4, Disjoint DEF Born, StockTypes
  <2> QED
    BY <2>3, <2>5
<1>4. ASSUME NEW x \in LotTarget, NEW y \in LotTarget, NEW a \in Values, SplitInto(x, y, a)
      PROVE  StockTypes' /\ Born
  <2> DEFINE b == stock[x].qty - a
             c == stock[y].qty + a
             i == [stock[x] EXCEPT !.qty = b, !.fresh = FALSE]
             j == [stock[y] EXCEPT !.qty = c, !.fresh = FALSE]
  <2>1. /\ stock' = [stock EXCEPT ![x] = i, ![y] = j]
        /\ UNCHANGED <<column, parts, merged, backfills>> /\ x # y
        /\ stock[x].status \in {"assigned", "voided"} /\ b \in Values
        /\ stock[y].status \in {"assigned", "voided"} /\ c \in Values
    BY <1>4 DEF SplitInto
  <2>2. i \in Item /\ i.status = stock[x].status /\ i.part = stock[x].part
        /\ j \in Item /\ j.status = stock[y].status /\ j.part = stock[y].part
    BY <2>1 DEF StockTypes, Item
  <2>4. \A z : z # x /\ z # y => Untouched(z)
    BY <1>4, DidSplitInto
  <2> HIDE DEF b, c, i, j
  <2>3. StockTypes'
    BY <1>0, <2>1, <2>2 DEF StockTypes
  <2>5. Born
    BY <2>1, <2>2, <2>4 DEF Born, StockTypes
  <2> QED
    BY <2>3, <2>5
<1>5. ASSUME NEW x \in LotTarget, VoidQrCode(x) PROVE StockTypes' /\ Born
  <2> DEFINE i == [stock[x] EXCEPT !.status = "voided", !.fresh = FALSE]
  <2>1. /\ stock' = [stock EXCEPT ![x] = i] /\ UNCHANGED <<column, parts, merged, backfills>>
        /\ stock[x].status = "assigned"
    BY <1>5 DEF VoidQrCode
  <2>2. i \in Item /\ i.status = "voided" /\ i.part = stock[x].part
    BY DEF StockTypes, Item
  <2> HIDE DEF i
  <2>3. StockTypes'
    BY <1>0, <2>1, <2>2 DEF StockTypes
  <2>4. \A y : y # x => Untouched(y)
    BY <1>5, DidVoid
  <2>5. Born
    BY <2>1, <2>2, <2>4 DEF Born, StockTypes
  <2> QED
    BY <2>3, <2>5
<1>6. ASSUME NEW x \in LotTarget, ReverseIngest(x) PROVE StockTypes' /\ Born
  <2> DEFINE i == [NoItem EXCEPT !.status = "gone"]
  <2>1. /\ stock' = [stock EXCEPT ![x] = i] /\ UNCHANGED <<parts, merged, backfills>>
    BY <1>6 DEF ReverseIngest
  <2>2. i \in Item /\ i.status = "gone"
    BY Disjoint DEF Item, NoItem
  <2> HIDE DEF i
  <2>3. StockTypes'
    BY <1>0, <2>1, <2>2 DEF StockTypes
  <2>4. (\A y : y # NoTarget => Untouched(y)) /\ column' = [column EXCEPT ![x] = NoIri]
    BY <1>6, DidReverse
  <2>5. Born
    BY <2>1, <2>2, <2>4, Disjoint DEF Born, StockTypes, TypeOK
  <2> QED
    BY <2>3, <2>5
<1>7. ASSUME NEW x \in LotTarget, NEW p \in PartTarget, ReassignPartType(x, p)
      PROVE  StockTypes' /\ Born
  <2> DEFINE i == [stock[x] EXCEPT !.part = p]
  <2>1. /\ stock' = [stock EXCEPT ![x] = i] /\ UNCHANGED <<parts, merged, backfills>>
        /\ stock[x].status \in {"assigned", "voided"}
    BY <1>7 DEF ReassignPartType
  <2>2. i \in Item /\ i.status = stock[x].status /\ i.part = p
    BY DEF StockTypes, Item
  <2> HIDE DEF i
  <2>3. StockTypes'
    BY <1>0, <2>1, <2>2 DEF StockTypes
  <2>4. /\ column[x] = NoIri => UNCHANGED column /\ \A z : Untouched(z)
        /\ column[x] # NoIri =>
              /\ column' = [column EXCEPT ![x] = NoIri]
              /\ \A z : z # x /\ z # p /\ z # NoTarget => Untouched(z)
    BY <1>7, DidReassign
  <2>5. Born
    BY <2>1, <2>2, <2>4, Disjoint DEF Born, StockTypes, TypeOK
  <2> QED
    BY <2>3, <2>5
<1>8. ASSUME NEW p \in PartTarget, NEW def \in Definitions, EditPartType(p, def)
      PROVE  StockTypes' /\ Born
  <2>1. parts' = [parts EXCEPT ![p].def = def] /\ UNCHANGED <<stock, column, merged, backfills>>
    BY <1>8 DEF EditPartType
  <2>2. StockTypes'
    BY <1>0, <2>1 DEF StockTypes, PartType
  <2>3. Born
    BY <1>8, <2>1, DidEdit, Disjoint DEF Born
  <2> QED
    BY <2>2, <2>3
<1>9. ASSUME NEW p \in PartTarget, NEW q \in PartTarget, MergePartTypes(p, q)
      PROVE  StockTypes' /\ Born
  <2>1. /\ \A x \in LotTarget : stock'[x] = stock[x] \/ stock'[x] = [stock[x] EXCEPT !.part = q]
        /\ stock' \in [LotTarget -> Item]
    BY <1>9 DEF MergePartTypes, StockTypes, Item
  <2>2. \A x \in LotTarget : /\ stock'[x].status = stock[x].status
                             /\ stock'[x].part = stock[x].part \/ stock'[x].part = q
    BY <2>1 DEF StockTypes, Item
  <2>3. /\ parts' \in [PartTarget -> PartType] /\ merged' \in SUBSET LotTarget
        /\ UNCHANGED <<column, backfills>>
    BY <1>9 DEF MergePartTypes, StockTypes, PartType
  <2>4. StockTypes'
    BY <1>0, <2>1, <2>2, <2>3 DEF StockTypes
  <2>5. Born
    BY <1>9, <2>2, <2>3, DidMerge DEF Born
  <2> QED
    BY <2>4, <2>5
<1>10. ~Backfill
  <2>1. Backfill => backfills < MaxBackfills
    BY Zenon DEF Backfill
  <2>2. ~(backfills < MaxBackfills)
    BY DEF StockTypes
  <2> QED
    BY <2>1, <2>2
<1> QED
  BY <1>1, <1>2, <1>3, <1>4, <1>5, <1>6, <1>7, <1>8, <1>9, <1>10 DEF Command

-----------------------------------------------------------------------------
(* The rows a command adds.                                                 *)

LEMMA DoneTypes ==
    ASSUME TX(Done)
    PROVE  /\ rows' \in [RowId -> Row] /\ Grown(rows') /\ Gapless(rows')
           /\ syncStatus' \in [Targets -> SyncStatuses]
           /\ Done.rows = rows' /\ Done.sync = syncStatus' /\ Done.ignored = ignored'
           /\ Begin.rows = rows /\ Begin.sync = syncStatus /\ Begin.ignored = ignored
<1>1. /\ Done.rows = rows' /\ Done.sync = syncStatus' /\ Done.ignored = ignored'
      /\ Begin.rows = rows /\ Begin.sync = syncStatus /\ Begin.ignored = ignored
  BY DEF Done, Begin
<1>2. Done \in Txn /\ Grown(Done.rows) /\ Gapless(Done.rows)
  BY DEF TX
<1>3. Done.rows \in [RowId -> Row] /\ Done.sync \in [Targets -> SyncStatuses]
  BY <1>2 DEF Txn
<1> QED
  BY <1>1, <1>2, <1>3

\* An untouched or refused target has no new rows, one that is asked for has one.
LEMMA AskedRows ==
    ASSUME TX(Done), NEW y
    PROVE  /\ Untouched(y) => NewIn(rows', y) = {} /\ (y \in ignored' <=> y \in ignored)
           /\ \A op : op.target = y /\ Requested(Done, op) =>
                 \/ /\ NewIn(rows', y) = {} /\ y \in ignored' /\ Known(op)
                 \/ /\ \E n \in RowId : NewIn(rows', y) = {n} /\ rows'[n] = RowOf(op, "pending")
                    /\ y \notin ignored'
<1>1. NewIn(rows, y) = {}
  BY DEF NewIn
<1> QED
  BY <1>1, DoneTypes DEF Untouched, Alike, Requested, Added, Refused

LEMMA UpdateFields ==
    ASSUME NEW x, NEW a
    PROVE  /\ RowOf(UpdateOp(x, a), "pending").kind = "update_lot"
           /\ RowOf(UpdateOp(x, a), "pending").ref = column[x]
           /\ RowOf(UpdateOp(x, a), "pending").dep = LatestOpen(rows, x)
           /\ RowOf(UpdateOp(x, a), "pending").val = a
  BY DEF RowOf, Op, UpdateOp

LEMMA LotFields ==
    ASSUME NEW x, NEW p, NEW d, NEW a
    PROVE  /\ RowOf(LotOp(x, p, d, a), "pending").kind = "create_lot"
           /\ RowOf(LotOp(x, p, d, a), "pending").ref = column[p]
           /\ RowOf(LotOp(x, p, d, a), "pending").dep = d
           /\ RowOf(LotOp(x, p, d, a), "pending").val = a
  BY DEF RowOf, Op, LotOp

LEMMA PartFields ==
    ASSUME NEW p, NEW a
    PROVE  /\ RowOf(CreatePartOp(p, a), "pending").kind = "create_part"
           /\ RowOf(CreatePartOp(p, a), "pending").ref = NoIri
           /\ RowOf(CreatePartOp(p, a), "pending").dep = NoRow
           /\ RowOf(UpdatePartOp(p, a), "pending").kind = "update_part"
           /\ RowOf(UpdatePartOp(p, a), "pending").ref = column[p]
           /\ RowOf(UpdatePartOp(p, a), "pending").dep = NoRow
  BY DEF RowOf, Op, CreatePartOp, UpdatePartOp

LEMMA DeleteFields ==
    ASSUME NEW x
    PROVE  /\ RowOf(DeleteOp(x), "pending").kind = "delete_lot"
           /\ RowOf(DeleteOp(x), "pending").ref = column[x]
           /\ RowOf(DeleteOp(x), "pending").dep = LatestOpen(rows, x)
           /\ RowOf(DropOp(x), "pending").kind = "delete_lot"
           /\ RowOf(DropOp(x), "pending").ref = column[x]
           /\ RowOf(DropOp(x), "pending").dep = NoRow
  BY DEF RowOf, Op, DeleteOp, DropOp

\* What a new row is for.
NewUpdate(n) ==
    LET x == rows'[n].target
    IN  /\ x \in LotTarget /\ HasLot(x) /\ column'[x] = column[x]
        /\ rows'[n].kind \in LotChange
        /\ rows'[n].ref = column[x] /\ rows'[n].dep = LatestOpen(rows, x)

NewLot(n) ==
    LET x == rows'[n].target
        d == rows'[n].dep
    IN  /\ x \in LotTarget /\ LatestOpen(rows, x) = NoRow /\ column'[x] = NoIri
        /\ rows'[n].kind = "create_lot"
        /\ \E p \in PartTarget : /\ rows'[n].ref = column[p]
                                 /\ IF column[p] # NoIri THEN d = NoRow
                                    ELSE d \in Present(rows') /\ rows'[d].target = p

NewPart(n) ==
    LET x == rows'[n].target
    IN  /\ x \in PartTarget /\ LatestOpen(rows, x) = NoRow /\ rows'[n].dep = NoRow
        /\ \/ rows'[n].kind = "create_part" /\ rows'[n].ref = NoIri
           \/ rows'[n].kind = "update_part" /\ column[x] # NoIri /\ rows'[n].ref = column[x]

NewDrop(n) ==
    /\ rows'[n].target = NoTarget /\ rows'[n].kind = "delete_lot" /\ rows'[n].dep = NoRow
    /\ \E y \in LotTarget : /\ column[y] # NoIri /\ LatestOpen(rows, y) = NoRow
                            /\ column'[y] = NoIri /\ rows'[n].ref = column[y]

LEMMA NewAfter ==
    ASSUME NEW rs, Gapless(rs), NEW n \in RowId, n \notin Present(rs), NEW q \in Present(rs)
    PROVE  q < n
<1>1. n \in Nat /\ n >= 1 /\ q \in Nat /\ 1..q \subseteq Present(rs)
  BY OutboxAssumption DEF Gapless, Present, RowId
<1>2. ~(n <= q)
  BY <1>1
<1> QED
  BY <1>1, <1>2

LEMMA NewRows ==
    ASSUME TypeOK, Gapless(rows), Asks, NEW n \in RowId,
           rows[n].status = "absent", rows'[n].status # "absent"
    PROVE  /\ NewIn(rows', rows'[n].target) = {n}
           /\ rows'[n].status = "pending" /\ rows'[n].lease = 0 /\ rows'[n].next = "due"
           /\ \A q \in Present(rows) : q < n
           /\ NewUpdate(n) \/ NewLot(n) \/ NewPart(n) \/ NewDrop(n)
<1> DEFINE x == rows'[n].target
<1>0. TX(Done) /\ n \in NewIn(rows', x) /\ x \in Targets \cup {NoTarget}
  BY DoneTypes DEF Asks, NewIn, Row
<1>1. rows'[n].status = "pending" /\ rows'[n].lease = 0 /\ rows'[n].next = "due"
  BY <1>0, DoneTypes DEF Grown, RowOf
<1>2. \A q \in Present(rows) : q < n
  BY NewAfter DEF Present
<1>3. ~Untouched(x)
  BY <1>0, AskedRows
<1>4. \A op : op.target = x /\ Requested(Done, op)
                => NewIn(rows', x) = {n} /\ rows'[n] = RowOf(op, "pending")
  BY <1>0, AskedRows
<1>5. CASE x \in LotTarget
  <2>1. LotAsks(x)
    BY <1>5 DEF Asks
  <2>2. ASSUME NEW a \in Values, HasLot(x), column'[x] = column[x], Requested(Done, UpdateOp(x, a))
        PROVE  NewIn(rows', x) = {n} /\ NewUpdate(n)
    <3>1. NewIn(rows', x) = {n} /\ rows'[n] = RowOf(UpdateOp(x, a), "pending")
      BY <1>4, <2>2, OperationTargets
    <3>2. /\ rows'[n].kind = "update_lot" /\ rows'[n].ref = column[x]
          /\ rows'[n].dep = LatestOpen(rows, x)
      BY <3>1, UpdateFields
    <3> QED
      BY <1>5, <2>2, <3>1, <3>2 DEF NewUpdate, LotChange
  <2>3. ASSUME HasLot(x), column'[x] = column[x], Requested(Done, DeleteOp(x))
        PROVE  NewIn(rows', x) = {n} /\ NewUpdate(n)
    <3>1. NewIn(rows', x) = {n} /\ rows'[n] = RowOf(DeleteOp(x), "pending")
      BY <1>4, <2>3, OperationTargets
    <3>2. /\ rows'[n].kind = "delete_lot" /\ rows'[n].ref = column[x]
          /\ rows'[n].dep = LatestOpen(rows, x)
      BY <3>1, DeleteFields
    <3> QED
      BY <1>5, <2>3, <3>1, <3>2 DEF NewUpdate, LotChange
  <2>4. ASSUME LatestOpen(rows, x) = NoRow, column'[x] = NoIri,
               NEW p \in PartTarget, NEW a \in Values, LotAsked(Done, x, p, a)
        PROVE  NewIn(rows', x) = {n} /\ NewLot(n)
    <3>1. PICK d \in RowId \cup {NoRow} :
             /\ Requested(Done, LotOp(x, p, d, a))
             /\ IF column[p] # NoIri THEN d = NoRow
                ELSE d \in Present(rows') /\ rows'[d].target = p
      BY <1>0, <2>4, DoneTypes DEF LotAsked
    <3>2. NewIn(rows', x) = {n} /\ rows'[n] = RowOf(LotOp(x, p, d, a), "pending")
      BY <1>4, <3>1, OperationTargets
    <3>3. rows'[n].kind = "create_lot" /\ rows'[n].ref = column[p] /\ rows'[n].dep = d
      BY <3>2, LotFields
    <3> QED
      BY <1>5, <2>4, <3>1, <3>2, <3>3 DEF NewLot
  <2> HIDE DEF x
  <2> QED
    BY <1>1, <1>2, <1>3, <2>1, <2>2, <2>3, <2>4 DEF LotAsks, x
<1>6. CASE x \in PartTarget
  <2>1. PartAsks(x)
    BY <1>6 DEF Asks
  <2>2. ASSUME LatestOpen(rows, x) = NoRow, NEW v \in Values, Requested(Done, CreatePartOp(x, v))
        PROVE  NewIn(rows', x) = {n} /\ NewPart(n)
    <3>1. NewIn(rows', x) = {n} /\ rows'[n] = RowOf(CreatePartOp(x, v), "pending")
      BY <1>4, <2>2, OperationTargets
    <3>2. rows'[n].kind = "create_part" /\ rows'[n].ref = NoIri /\ rows'[n].dep = NoRow
      BY <3>1, PartFields
    <3> QED
      BY <1>6, <2>2, <3>1, <3>2 DEF NewPart
  <2>3. ASSUME LatestOpen(rows, x) = NoRow, column[x] # NoIri,
               NEW v \in Values, Requested(Done, UpdatePartOp(x, v))
        PROVE  NewIn(rows', x) = {n} /\ NewPart(n)
    <3>1. NewIn(rows', x) = {n} /\ rows'[n] = RowOf(UpdatePartOp(x, v), "pending")
      BY <1>4, <2>3, OperationTargets
    <3>2. rows'[n].kind = "update_part" /\ rows'[n].ref = column[x] /\ rows'[n].dep = NoRow
      BY <3>1, PartFields
    <3> QED
      BY <1>6, <2>3, <3>1, <3>2 DEF NewPart
  <2> HIDE DEF x
  <2> QED
    BY <1>1, <1>2, <1>3, <2>1, <2>2, <2>3 DEF PartAsks, PartAsked, Untouched, x
<1>7. CASE x = NoTarget
  <2>1. PICK y \in LotTarget : /\ column[y] # NoIri /\ LatestOpen(rows, y) = NoRow
                               /\ column'[y] = NoIri /\ Requested(Done, DropOp(y))
    BY <1>3, <1>7 DEF Asks, DropAsks
  <2>2. NewIn(rows', x) = {n} /\ rows'[n] = RowOf(DropOp(y), "pending")
    BY <1>4, <1>7, <2>1, OperationTargets
  <2>3. rows'[n].kind = "delete_lot" /\ rows'[n].ref = column[y] /\ rows'[n].dep = NoRow
    BY <2>2, DeleteFields
  <2> QED
    BY <1>1, <1>2, <1>7, <2>1, <2>2, <2>3 DEF NewDrop
<1> QED
  BY <1>0, <1>5, <1>6, <1>7 DEF Targets

-----------------------------------------------------------------------------
(* The form of the table: an inductive invariant, whatever gets lost,       *)
(* crashes, is retried or overruns.                                         *)

\* What kind of row each target has.
Fits(r) ==
    LET x == rows[r].target
    IN  /\ x \in PartTarget => /\ rows[r].kind \in {"create_part", "update_part"}
                               /\ rows[r].dep = NoRow
        /\ x \in LotTarget => rows[r].kind \in LotChange \cup {"create_lot"}
        /\ x = NoTarget => /\ rows[r].kind = "delete_lot" /\ rows[r].dep = NoRow
                           /\ \E y \in LotTarget : Own(y, rows[r].ref)

FormInv == /\ DepInv /\ OwnInv
           /\ StockTypes /\ Gapless(rows) /\ Unborn
           /\ \A r \in Present(rows) : Fits(r)

outside == <<ticks, remote, effects, lost, spent>>

LEMMA FormInit == LotInit => FormInv
<1> SUFFICES ASSUME LotInit PROVE FormInv
  OBVIOUS
<1>1. DepInv /\ OwnInv
  BY DepInit, OwnInit DEF LotInit
<1>2. Present(rows) = {}
  BY DEF LotInit, Init, Present, RowOf
<1>3. StockTypes
  <2>1. NoItem \in Item /\ NoItem.status = "none"
    BY Disjoint DEF NoItem, Item
  <2>2. [live |-> TRUE, def |-> NoOp.val] \in PartType
    BY Disjoint DEF PartType
  <2> HIDE DEF NoItem
  <2> QED
    BY <2>1, <2>2 DEF LotInit, StockTypes, Stored
<1>4. Gapless(rows)
  BY <1>2 DEF Gapless
<1>5. Unborn
  BY <1>2, Disjoint DEF Unborn, LotInit, Init
<1> QED
  BY <1>1, <1>2, <1>3, <1>4, <1>5 DEF FormInv

\* A held row is there, so a command leaves it as it is.
LEMMA HeldStay ==
    ASSUME DepInv, TX(Done), UNCHANGED outside
    PROVE  \A t \in Tick : /\ \A r \in ticks[t].batch : r \in RowId /\ rows'[r] = rows[r]
                           /\ ticks[t].call # "none" => Head(t) \in ticks[t].batch
                           /\ Head(t)' = Head(t)
<1>1. \A t \in Tick : ticks[t].batch \subseteq RowId
  BY DEF DepInv, TypeInv, TypeOK, TickState
<1>2. \A t \in Tick : ticks[t].call # "none" => Head(t) \in ticks[t].batch
  BY HeadInBatch DEF DepInv, TypeInv, CallsHaveRow
<1>3. \A t \in Tick : Head(t)' = Head(t)
  BY DEF outside, Head
<1> QED
  BY <1>1, <1>2, <1>3, DoneTypes DEF DepInv, HeldReady, Grown

LEMMA CommandDep ==
    ASSUME DepInv, Asks, UNCHANGED outside
    PROVE  DepInv'
<1>0. TX(Done) /\ TypeOK
  BY DEF Asks, DepInv, TypeInv
<1>1. TypeInv'
  BY <1>0, DoneTypes DEF Asks, ColumnsStay, DepInv, TypeInv, TypeOK, CallsHaveRow, outside,
     SyncStatuses
<1>2. HeldReady'
  BY <1>0, HeldStay DEF outside, DepInv, HeldReady
<1>3. AnswersCarriedOut'
  BY <1>0, HeldStay DEF outside, DepInv, AnswersCarriedOut
<1>4. \A r \in RowId : rows[r].status # "absent" => rows'[r] = rows[r]
  BY <1>0, DoneTypes DEF Grown
<1>5. \A r \in RowId : rows[r].status = "absent" => rows'[r].status \in {"absent", "pending"}
  BY <1>0, DoneTypes DEF Grown, RowOf
<1>6. OnlyPresent' /\ EffectsFollowDependencies'
  <2>1. effects' = effects
    BY DEF outside
  <2>2. OnlyPresent /\ EffectsFollowDependencies /\ effects \in [RowId -> Nat]
    BY <1>0 DEF DepInv, TypeOK
  <2> QED
    BY <1>4, <1>5, <2>1, <2>2 DEF OnlyPresent, EffectsFollowDependencies
<1> QED
  BY <1>1, <1>2, <1>3, <1>6 DEF DepInv

LEMMA CommandOwn ==
    ASSUME DepInv, OwnInv, Gapless(rows), Asks, UNCHANGED outside
    PROVE  OwnInv'
<1>0. TX(Done) /\ TypeOK /\ Kept
  BY RemoteKept DEF Asks, DepInv, TypeInv, outside
<1>1. ColumnOwns'
  BY <1>0 DEF Asks, ColumnsStay, OwnInv, ColumnOwns, Kept
<1>2. \A r \in RowId : rows[r].status # "absent" => rows'[r] = rows[r]
  BY <1>0, DoneTypes DEF Grown
<1>3. \A t \in Tick : CallOwns(t)'
  BY <1>0, HeldStay DEF OwnInv, CallOwns, Kept, outside
<1>4. ASSUME NEW r \in RowId, rows[r].status # "absent" PROVE RowOwns(r)'
  <2>1. rows'[r] = rows[r] /\ RowOwns(r)
    BY <1>2, <1>4 DEF OwnInv
  <2>2. rows[r].dep \in RowId \cup {NoRow}
    BY <1>0, OwnFields
  <2> QED
    BY <1>0, <1>2, <1>4, <2>1, <2>2 DEF RowOwns, Kept
<1>5. ASSUME NEW r \in RowId, rows[r].status = "absent", rows'[r].status # "absent"
      PROVE  RowOwns(r)'
  <2>1. /\ NewUpdate(r) \/ NewLot(r) \/ NewPart(r) \/ NewDrop(r)
        /\ rows'[r].status = "pending"
    BY <1>0, <1>5, NewRows
  <2>2. CASE NewUpdate(r)
    <3>0. PICK x, i : x = rows'[r].target /\ i = rows'[r].ref
      OBVIOUS
    <3>1. x \in Targets /\ i = column[x] /\ rows'[r].dep = LatestOpen(rows, x)
      BY <2>2, <3>0, Disjoint DEF NewUpdate
    <3>2. i # NoIri => Own(x, i)'
      BY <1>0, <3>1 DEF OwnInv, ColumnOwns, Kept
    <3>3. ASSUME rows'[r].dep # NoRow
          PROVE  rows'[rows'[r].dep].status # "absent" /\ rows'[rows'[r].dep].target = x
      <4>1. rows'[r].dep \in OpenRows(rows, x)
        BY <3>1, <3>3, LatestOpenIs
      <4>2. rows'[r].dep \in RowId /\ rows[rows'[r].dep].status # "absent"
            /\ rows[rows'[r].dep].target = x
        BY <4>1 DEF OpenRows, Open
      <4> QED
        BY <1>2, <4>2
    <3> QED
      BY <2>1, <3>0, <3>2, <3>3 DEF RowOwns
  <2>3. CASE NewLot(r) \/ NewPart(r)
    <3> DEFINE x == rows'[r].target
    <3>1. /\ rows'[r].kind \notin LotChange
          /\ rows'[r].kind \notin CreateKinds /\ rows'[r].ref # NoIri
               => rows'[r].ref = column[x] /\ x \in Targets
      BY <2>3, Disjoint DEF NewLot, NewPart, LotChange, CreateKinds
    <3> QED
      BY <1>0, <2>1, <3>1 DEF RowOwns, OwnInv, ColumnOwns, Kept
  <2>4. CASE NewDrop(r)
    BY <2>4 DEF NewDrop, RowOwns
  <2> QED
    BY <2>1, <2>2, <2>3, <2>4
<1>6. \A r \in RowId : RowOwns(r)'
  BY <1>4, <1>5 DEF RowOwns
<1> QED
  BY <1>1, <1>3, <1>6 DEF OwnInv

LEMMA CommandFits ==
    ASSUME DepInv, OwnInv, Gapless(rows), \A r \in Present(rows) : Fits(r), Asks,
           UNCHANGED outside
    PROVE  \A r \in Present(rows') : Fits(r)'
<1>0. TX(Done) /\ TypeOK /\ Kept
  BY RemoteKept DEF Asks, DepInv, TypeInv, outside
<1> SUFFICES ASSUME NEW r \in RowId, rows'[r].status # "absent" PROVE Fits(r)'
  BY DEF Present
<1>1. CASE rows[r].status # "absent"
  <2>1. rows'[r] = rows[r] /\ Fits(r)
    BY <1>0, <1>1, DoneTypes DEF Grown, Present
  <2> QED
    BY <1>0, <2>1 DEF Fits, Kept
<1>2. CASE rows[r].status = "absent"
  <2>1. NewUpdate(r) \/ NewLot(r) \/ NewPart(r) \/ NewDrop(r)
    BY <1>0, <1>2, NewRows
  <2>2. CASE NewDrop(r)
    <3>1. PICK y \in LotTarget : column[y] # NoIri /\ column[y] = rows'[r].ref
      BY <2>2 DEF NewDrop
    <3>2. PICK i : i = column[y]
      OBVIOUS
    <3>3. Own(y, i)'
      BY <1>0, <3>1, <3>2, Disjoint DEF OwnInv, ColumnOwns, Kept
    <3> QED
      BY <2>2, <3>1, <3>2, <3>3, Disjoint DEF NewDrop, Fits
  <2> QED
    BY <2>1, <2>2, Disjoint DEF NewUpdate, NewLot, NewPart, Fits
<1> QED
  BY <1>1, <1>2

LEMMA CommandUnborn ==
    ASSUME TypeOK, Unborn, Gapless(rows), TX(Done), Born
    PROVE  Unborn'
<1> SUFFICES ASSUME NEW x \in LotTarget, stock'[x].status = "none"
             PROVE  /\ \A r \in Present(rows') : rows'[r].target # x
                    /\ column'[x] = NoIri /\ x \notin ignored'
  BY DEF Unborn
<1>1. stock[x].status = "none" /\ Untouched(x) /\ column'[x] = column[x]
  BY DEF Born
<1>2. NewIn(rows', x) = {} /\ x \notin ignored'
  BY <1>1, AskedRows DEF Unborn
<1>3. ASSUME NEW r \in Present(rows'), rows'[r].target = x PROVE FALSE
  <2>1. r \in RowId /\ rows[r].status # "absent"
    BY <1>2, <1>3 DEF NewIn, Present
  <2>2. rows'[r] = rows[r]
    BY <2>1, DoneTypes DEF Grown
  <2> QED
    BY <1>1, <1>3, <2>1, <2>2 DEF Unborn, Present
<1> QED
  BY <1>1, <1>2, <1>3 DEF Unborn

LEMMA CommandForm ==
    ASSUME FormInv, MaxBackfills = 0, Command, UNCHANGED outside
    PROVE  FormInv' /\ Asks
<1>1. TypeOK
  BY DEF FormInv, DepInv, TypeInv
<1>2. Asks /\ StockTypes' /\ Born
  BY <1>1, CommandAsks, CommandStock DEF FormInv
<1>3. DepInv' /\ OwnInv' /\ (\A r \in Present(rows') : Fits(r)')
  BY <1>2, CommandDep, CommandOwn, CommandFits DEF FormInv
<1>4. TX(Done) /\ Gapless(rows')
  BY <1>2, DoneTypes DEF Asks
<1>5. Unborn'
  BY <1>1, <1>2, <1>4, CommandUnborn DEF FormInv
<1> QED
  BY <1>2, <1>3, <1>4, <1>5 DEF FormInv, Gapless, Present

-----------------------------------------------------------------------------
(* What delivering leaves as it is.                                         *)

SameAsk(r) ==
    /\ rows'[r].kind = rows[r].kind /\ rows'[r].target = rows[r].target
    /\ rows'[r].ref = rows[r].ref /\ rows'[r].dep = rows[r].dep
    /\ rows'[r].val = rows[r].val
    /\ rows'[r].status = "absent" <=> rows[r].status = "absent"

\* One row changes, and no field of its request.
LEMMA OneAsk ==
    ASSUME TypeOK, NEW h \in RowId, rows[h].status # "absent", NEW row,
           rows' = [rows EXCEPT ![h] = row], row.status # "absent",
           row.kind = rows[h].kind, row.target = rows[h].target, row.ref = rows[h].ref,
           row.dep = rows[h].dep, row.val = rows[h].val
    PROVE  \A r \in RowId : SameAsk(r)
<1>1. rows'[h] = row /\ \A r \in RowId : r # h => rows'[r] = rows[r]
  BY DEF TypeOK
<1> QED
  BY <1>1 DEF SameAsk

\* What settling makes of a row.
LEMMA SettledFields ==
    ASSUME NEW row \in Row, NEW s \in {"failed", "dead"}, NEW i
    PROVE  /\ Failed(row, s).kind = row.kind /\ Failed(row, s).target = row.target
           /\ Failed(row, s).ref = row.ref /\ Failed(row, s).dep = row.dep
           /\ Failed(row, s).val = row.val /\ Failed(row, s).status = s
           /\ Failed(row, s).iri = row.iri
           /\ Delivered(row, i).kind = row.kind /\ Delivered(row, i).target = row.target
           /\ Delivered(row, i).ref = row.ref /\ Delivered(row, i).dep = row.dep
           /\ Delivered(row, i).val = row.val /\ Delivered(row, i).status = "delivered"
           /\ Delivered(row, i).iri = i
  BY DEF Failed, Delivered, Row

\* The row whose turn it is in a tick that has a call, or that takes up a row.
LEMMA Turn ==
    ASSUME DepInv, NEW t \in Tick, ticks[t].call # "none" \/ Runs(t)
    PROVE  /\ Head(t) \in RowId /\ Head(t) \in ticks[t].batch /\ rows[Head(t)] \in Row
           /\ rows[Head(t)].status # "absent"
<1>1. Head(t) \in RowId /\ Head(t) \in ticks[t].batch
  BY HeadInBatch DEF DepInv, TypeInv, CallsHaveRow, Runs
<1>2. TypeOK /\ HeldReady
  BY DEF DepInv, TypeInv
<1> QED
  BY <1>1, <1>2 DEF TypeOK, HeldReady

LEMMA ClaimAsks ==
    ASSUME DepInv, NEW t \in Tick, Claim(t)
    PROVE  /\ \A r \in RowId : SameAsk(r)
           /\ \A r \in RowId : /\ rows[r].status \in Open <=> rows'[r].status \in Open
                               /\ rows'[r].iri = rows[r].iri
                               /\ rows[r].status \notin Open => rows'[r].status = rows[r].status
<1> DEFINE rs == Reclaimed(rows)
           batch == Batch(rs)
<1>0. TypeOK
  BY DEF DepInv, TypeInv
<1>1. /\ rows' = [r \in RowId |-> IF r \in batch THEN Leased(rs[r]) ELSE rs[r]]
      /\ batch \subseteq Claimable(rs)
  BY DEF Claim, Batch
<1>2. \A r \in RowId : \/ rs[r] = rows[r]
                       \/ rows[r].status = "leased" /\ rs[r] = [rows[r] EXCEPT !.status = "pending"]
  BY DEF Reclaimed
<1>3. \A r \in batch : rs[r].status \in {"pending", "failed"}
  BY <1>1 DEF Claimable
<1>4. ASSUME NEW r \in RowId
      PROVE  /\ rs[r] \in Row
             /\ rs[r].kind = rows[r].kind /\ rs[r].target = rows[r].target
             /\ rs[r].ref = rows[r].ref /\ rs[r].dep = rows[r].dep
             /\ rs[r].val = rows[r].val /\ rs[r].iri = rows[r].iri
             /\ \/ rs[r].status = rows[r].status
                \/ rows[r].status = "leased" /\ rs[r].status = "pending"
  <2>1. rows[r] \in Row
    BY <1>0 DEF TypeOK
  <2> HIDE DEF rs
  <2>2. CASE rs[r] = rows[r]
    BY <2>1, <2>2
  <2>3. CASE rows[r].status = "leased" /\ rs[r] = [rows[r] EXCEPT !.status = "pending"]
    BY <2>1, <2>3 DEF Row, Statuses
  <2> QED
    BY <1>2, <2>2, <2>3
<1> HIDE DEF rs, batch
<1>5. ASSUME NEW r \in RowId
      PROVE  /\ SameAsk(r) /\ (rows[r].status \in Open <=> rows'[r].status \in Open)
             /\ rows'[r].iri = rows[r].iri
             /\ rows[r].status \notin Open => rows'[r].status = rows[r].status
  <2>1. /\ rs[r].kind = rows[r].kind /\ rs[r].target = rows[r].target /\ rs[r].ref = rows[r].ref
        /\ rs[r].dep = rows[r].dep /\ rs[r].val = rows[r].val /\ rs[r].iri = rows[r].iri
        /\ rs[r].status = rows[r].status \/ (rows[r].status = "leased" /\ rs[r].status = "pending")
    BY <1>4
  <2>2. rows[r].status # "absent" <=> rs[r].status # "absent"
    BY <2>1
  <2>3. CASE r \in batch
    <3>1. rows'[r] = Leased(rs[r]) /\ rs[r].status \in {"pending", "failed"}
      BY <1>1, <1>3, <2>3
    <3>2. /\ Leased(rs[r]).kind = rs[r].kind /\ Leased(rs[r]).target = rs[r].target
          /\ Leased(rs[r]).ref = rs[r].ref /\ Leased(rs[r]).dep = rs[r].dep
          /\ Leased(rs[r]).val = rs[r].val /\ Leased(rs[r]).iri = rs[r].iri
          /\ Leased(rs[r]).status = "leased"
      BY <1>4 DEF Leased, Row
    <3> QED
      BY <2>1, <3>1, <3>2 DEF SameAsk, Open
  <2>4. CASE r \notin batch
    <3>1. rows'[r] = rs[r]
      BY <1>1, <2>4
    <3> QED
      BY <2>1, <3>1 DEF SameAsk, Open
  <2> QED
    BY <2>3, <2>4
<1> QED
  BY <1>5

LEMMA DeliveringAsks ==
    ASSUME DepInv, Delivering
    PROVE  /\ \A r \in RowId : SameAsk(r)
           /\ Kept
           /\ \A y \in Targets : \/ column'[y] = column[y]
                                 \/ \E r \in Present(rows) : rows[r].target = y
<1>0. TypeOK /\ rows \in [RowId -> Row]
  BY DEF DepInv, TypeInv, TypeOK
<1>1. ASSUME UNCHANGED <<rows, column>> PROVE /\ \A r \in RowId : SameAsk(r)
                                              /\ \A y \in Targets : column'[y] = column[y]
  BY <1>1 DEF SameAsk
<1>2. ASSUME NEW t \in Tick, Claim(t) PROVE /\ (\A r \in RowId : SameAsk(r)) /\ Kept
                                            /\ UNCHANGED column
  BY <1>2, ClaimAsks, RemoteKept DEF Claim
<1>3. ASSUME NEW t \in Tick, Send(t) PROVE Kept /\ UNCHANGED <<rows, column>>
  BY <1>3, RemoteKept DEF Send, tableVars
<1>4. ASSUME NEW t \in Tick, HydrateFails(t) \/ SettleFailed(t)
      PROVE  (\A r \in RowId : SameAsk(r)) /\ Kept /\ UNCHANGED column
  <2>1. PICK s \in {"failed", "dead"} : MarkFailed(Head(t), s)
    BY <1>4 DEF HydrateFails, SettleFailed, Verdict
  <2>2. Head(t) \in RowId /\ rows[Head(t)] \in Row /\ rows[Head(t)].status # "absent"
    BY <1>4, Turn DEF HydrateFails, SettleFailed
  <2>3. rows' = [rows EXCEPT ![Head(t)] = Failed(rows[Head(t)], s)]
    BY <2>1 DEF MarkFailed
  <2>4. \A r \in RowId : SameAsk(r)
    BY <1>0, <2>2, <2>3, SettledFields, OneAsk
  <2> QED
    BY <1>4, <2>4, RemoteKept DEF HydrateFails, SettleFailed
<1>5. ASSUME NEW t \in Tick, SettleDelivered(t)
      PROVE  /\ (\A r \in RowId : SameAsk(r)) /\ Kept
             /\ \A y \in Targets : column'[y] = column[y] \/ y = rows[Head(t)].target
             /\ Head(t) \in Present(rows)
  <2>1. Head(t) \in RowId /\ rows[Head(t)] \in Row /\ rows[Head(t)].status # "absent"
    BY <1>5, Turn DEF SettleDelivered
  <2>2. rows' = [rows EXCEPT ![Head(t)] = Delivered(rows[Head(t)], ticks[t].ref)]
    BY <1>5 DEF SettleDelivered
  <2>3. \A r \in RowId : SameAsk(r)
    BY <1>0, <2>1, <2>2, SettledFields, OneAsk
  <2>4. \A y \in Targets : column'[y] = column[y] \/ y = rows[Head(t)].target
    BY <1>0, <1>5 DEF SettleDelivered, TypeOK
  <2> QED
    BY <1>5, <2>1, <2>3, <2>4, RemoteKept DEF SettleDelivered, Present
<1>6. ASSUME NEW t \in Tick, PartDb(t) PROVE Kept /\ UNCHANGED <<rows, column>>
  <2>1. rows[Head(t)] \in Row /\ ticks[t].ref \in Iri \cup {NoIri}
        /\ UNCHANGED <<rows, column>>
    BY <1>0, <1>6, Turn DEF PartDb, Accept, LoseAnswer, Refuse, tableVars, TypeOK, TickState
  <2>2. UNCHANGED remote \/ \E i \in Iri : Apply(rows[Head(t)], ticks[t].ref, i)
    BY <1>6 DEF PartDb, Accept, LoseAnswer, Refuse
  <2>3. Kept
    BY <1>0, <2>1, <2>2, RemoteKept, ApplyOwns
  <2> QED
    BY <2>1, <2>3
<1>7. ASSUME Elapse PROVE (\A r \in RowId : SameAsk(r)) /\ Kept /\ UNCHANGED column
  <2>1. \A r \in RowId : rows'[r] = rows[r] \/ rows'[r] = [rows[r] EXCEPT !.lease = @ - 1]
    BY <1>7 DEF Elapse
  <2>2. ASSUME NEW r \in RowId PROVE SameAsk(r)
    <3>1. rows[r] \in Row
      BY <1>0
    <3> QED
      BY <2>1, <3>1 DEF SameAsk, Row
  <2> QED
    BY <1>7, <2>2, RemoteKept DEF Elapse
<1>8. ASSUME NEW n \in RowId, BackoffElapses(n) \/ Retry(n)
      PROVE  (\A r \in RowId : SameAsk(r)) /\ Kept /\ UNCHANGED column
  <2>1. \A r \in RowId : \/ rows'[r] = rows[r] \/ rows'[r] = [rows[r] EXCEPT !.next = "due"]
                         \/ rows[r].status # "absent" /\ rows'[r] = Requeued(rows[r])
    BY <1>0, <1>8 DEF BackoffElapses, Retry
  <2>2. ASSUME NEW r \in RowId PROVE SameAsk(r)
    <3>1. rows[r] \in Row
      BY <1>0
    <3>2. Requeued(rows[r]).status = "pending"
          /\ [rows[r] EXCEPT !.next = "due"].status = rows[r].status
      BY <3>1 DEF Requeued, Row
    <3> QED
      BY <2>1, <3>1, <3>2 DEF SameAsk, Row, Requeued
  <2> QED
    BY <1>8, <2>2, RemoteKept DEF BackoffElapses, Retry
<1>9. ASSUME Crash PROVE Kept /\ UNCHANGED <<rows, column>>
  BY <1>9, RemoteKept DEF Crash, tableVars
<1> QED
  BY <1>1, <1>2, <1>3, <1>4, <1>5, <1>6, <1>7, <1>8, <1>9 DEF Delivering, Worker

LEMMA DeliveringForm ==
    ASSUME FormInv, Delivering, UNCHANGED inventory
    PROVE  FormInv'
<1>1. DepInv' /\ OwnInv'
  BY DepStep, OwnStep DEF FormInv, Next
<1>2. /\ \A r \in RowId : SameAsk(r)
      /\ Kept
      /\ \A y \in Targets : \/ column'[y] = column[y]
                            \/ \E r \in Present(rows) : rows[r].target = y
  BY DeliveringAsks DEF FormInv
<1>3. Present(rows') = Present(rows)
  BY <1>2 DEF Present, SameAsk
<1>4. Gapless(rows')
  BY <1>3 DEF FormInv, Gapless
<1>5. StockTypes'
  BY DEF FormInv, StockTypes, inventory, Stored
<1>6. Unborn'
  <2> SUFFICES ASSUME NEW x \in LotTarget, stock'[x].status = "none"
               PROVE  /\ \A r \in Present(rows') : rows'[r].target # x
                      /\ column'[x] = NoIri /\ x \notin ignored'
    BY DEF Unborn
  <2>1. /\ \A r \in Present(rows) : rows[r].target # x
        /\ column[x] = NoIri /\ x \notin ignored
    BY DEF FormInv, Unborn, inventory
  <2>2. x \in Targets
    BY Disjoint
  <2>3. \A r \in Present(rows) : rows'[r].target = rows[r].target
    BY <1>2 DEF SameAsk, Present
  <2> QED
    BY <1>2, <1>3, <2>1, <2>2, <2>3 DEF inventory
<1>7. ASSUME NEW r \in Present(rows') PROVE Fits(r)'
  <2>1. r \in RowId /\ SameAsk(r) /\ Fits(r)
    BY <1>2, <1>3 DEF FormInv, Present
  <2> QED
    BY <1>2, <2>1 DEF SameAsk, Fits, Kept
<1> QED
  BY <1>1, <1>4, <1>5, <1>6, <1>7 DEF FormInv, Gapless, Present

LEMMA FormStep ==
    ASSUME MaxBackfills = 0
    PROVE  FormInv /\ [LotNext]_lotVars => FormInv'
<1> SUFFICES ASSUME FormInv, [LotNext]_lotVars PROVE FormInv'
  OBVIOUS
<1>1. CASE UNCHANGED lotVars
  <2>1. DepInv' /\ OwnInv'
    BY <1>1, DepStep, OwnStep DEF FormInv, lotVars, vars
  <2> QED
    BY <1>1, <2>1 DEF FormInv, lotVars, vars, inventory, StockTypes, Stored, Gapless, Unborn,
                      Present, Fits, Own
<1>2. CASE Command /\ UNCHANGED outside
  BY <1>2, CommandForm
<1>3. CASE Delivering /\ UNCHANGED inventory
  BY <1>3, DeliveringForm
<1> QED
  BY <1>1, <1>2, <1>3 DEF LotNext, outside

LEMMA FormInvariant == ASSUME MaxBackfills = 0 PROVE LotSpec => []FormInv
<1>1. FormInv /\ [LotNext]_lotVars => FormInv'
  BY FormStep
<1> QED
  BY <1>1, FormInit, PTL DEF LotSpec

-----------------------------------------------------------------------------
(* "pending" is shown only while something is on its way.                   *)

Waiting(x) == syncStatus[x] = "pending" /\ x \notin ignored => OpenRows(rows, x) # {}

\* A new row is open.
LEMMA AddedOpen ==
    ASSUME TX(Done), NEW op, NEW y, op.target = y, Requested(Done, op), y \notin ignored'
    PROVE  OpenRows(rows', y) # {}
<1>1. PICK n \in RowId : NewIn(rows', y) = {n} /\ rows'[n] = RowOf(op, "pending")
  BY AskedRows
<1>2. n \in OpenRows(rows', y)
  BY <1>1 DEF OpenRows, RowOf, Open
<1> QED
  BY <1>2

LEMMA CommandWaiting ==
    ASSUME TypeOK, Asks, NEW x \in LotTarget, Waiting(x)
    PROVE  Waiting(x)'
<1> SUFFICES ASSUME syncStatus'[x] = "pending", x \notin ignored'
             PROVE  OpenRows(rows', x) # {}
  BY DEF Waiting, OpenRows
<1>1. TX(Done) /\ LotAsks(x) /\ x \in Targets
  BY Disjoint DEF Asks
<1>2. CASE Untouched(x)
  <2>1. NewIn(rows', x) = {} /\ x \notin ignored
    BY <1>1, <1>2, AskedRows
  <2>2. syncStatus'[x] = syncStatus[x]
    BY <1>1, <1>2, DoneTypes DEF Untouched, Alike
  <2>3. OpenRows(rows', x) = OpenRows(rows, x)
    BY <1>1, <2>1, OpenBefore, DoneTypes
  <2> QED
    BY <2>1, <2>2, <2>3 DEF Waiting
<1>3. ASSUME NEW a \in Values, Requested(Done, UpdateOp(x, a)) PROVE OpenRows(rows', x) # {}
  BY <1>1, <1>3, AddedOpen, OperationTargets
<1>4. CASE Requested(Done, DeleteOp(x))
  BY <1>1, <1>4, AddedOpen, OperationTargets
<1>5. ASSUME NEW p \in PartTarget, NEW a \in Values, LotAsked(Done, x, p, a)
      PROVE  OpenRows(rows', x) # {}
  <2>1. PICK d \in RowId \cup {NoRow} : Requested(Done, LotOp(x, p, d, a))
    BY <1>5 DEF LotAsked
  <2> QED
    BY <1>1, <2>1, AddedOpen, OperationTargets
<1> QED
  BY <1>1, <1>2, <1>3, <1>4, <1>5 DEF LotAsks

LEMMA DeliveringWaiting ==
    ASSUME DepInv, Delivering, UNCHANGED inventory, NEW x \in LotTarget, Waiting(x)
    PROVE  Waiting(x)'
<1> SUFFICES ASSUME syncStatus'[x] = "pending" , x \notin ignored'
             PROVE  OpenRows(rows', x) # {}
  BY DEF Waiting, OpenRows
<1>0. TypeOK /\ rows \in [RowId -> Row] /\ x \in Targets /\ x \notin ignored
      /\ x # NoTarget /\ syncStatus \in [Targets -> SyncStatuses]
  BY Disjoint DEF DepInv, TypeInv, TypeOK, inventory, SyncStatuses
<1>1. \A r \in RowId : SameAsk(r)
  BY DeliveringAsks
<1>2. ASSUME syncStatus[x] = "pending",
             \A r \in RowId : rows[r].target = x /\ rows[r].status \in Open
                                => rows'[r].status \in Open
      PROVE  OpenRows(rows', x) # {}
  BY <1>0, <1>1, <1>2 DEF Waiting, OpenRows, SameAsk
<1>3. ASSUME UNCHANGED <<rows, syncStatus>> PROVE OpenRows(rows', x) # {}
  BY <1>2, <1>3
<1>4. ASSUME NEW t \in Tick, Claim(t) PROVE OpenRows(rows', x) # {}
  <2>1. \A r \in RowId : rows[r].status \in Open => rows'[r].status \in Open
    BY <1>4, ClaimAsks
  <2> QED
    BY <1>2, <1>4, <2>1 DEF Claim
<1>5. ASSUME NEW h \in RowId, NEW row, rows' = [rows EXCEPT ![h] = row],
             NEW s \in {"failed", "synced"}, syncStatus' = SetSync(syncStatus, rows[h].target, s)
      PROVE  OpenRows(rows', x) # {}
  <2>1. rows[h].target # x /\ syncStatus'[x] = syncStatus[x]
    BY <1>0, <1>5 DEF SetSync
  <2>2. \A r \in RowId : r # h => rows'[r] = rows[r]
    BY <1>0, <1>5
  <2> QED
    BY <1>2, <2>1, <2>2
<1>6. ASSUME NEW t \in Tick, HydrateFails(t) \/ SettleFailed(t) PROVE OpenRows(rows', x) # {}
  <2>1. PICK s \in {"failed", "dead"} : MarkFailed(Head(t), s)
    BY <1>6 DEF HydrateFails, SettleFailed, Verdict
  <2>2. Head(t) \in RowId
    BY <1>6, Turn DEF HydrateFails, SettleFailed
  <2> QED
    BY <1>5, <2>1, <2>2 DEF MarkFailed
<1>7. ASSUME NEW t \in Tick, SettleDelivered(t) PROVE OpenRows(rows', x) # {}
  <2>1. Head(t) \in RowId
    BY <1>7, Turn DEF SettleDelivered
  <2>2. /\ rows' = [rows EXCEPT ![Head(t)] = Delivered(rows[Head(t)], ticks[t].ref)]
        /\ syncStatus' = SetSync(syncStatus, rows[Head(t)].target, "synced")
    BY <1>7 DEF SettleDelivered
  <2> QED
    BY <1>5, <2>1, <2>2
<1>8. ASSUME Elapse PROVE OpenRows(rows', x) # {}
  <2>1. \A r \in RowId : rows'[r] = rows[r] \/ rows'[r] = [rows[r] EXCEPT !.lease = @ - 1]
    BY <1>8 DEF Elapse
  <2>2. ASSUME NEW r \in RowId PROVE rows'[r].status = rows[r].status
    <3>1. rows[r] \in Row
      BY <1>0
    <3> QED
      BY <2>1, <3>1 DEF Row
  <2> QED
    BY <1>2, <1>8, <2>2 DEF Elapse
<1>9. ASSUME NEW n \in RowId, BackoffElapses(n) PROVE OpenRows(rows', x) # {}
  <2>1. ASSUME NEW r \in RowId PROVE rows'[r].status = rows[r].status
    <3>1. rows[r] \in Row
      BY <1>0
    <3> QED
      BY <1>0, <1>9, <3>1 DEF BackoffElapses, Row
  <2> QED
    BY <1>2, <1>9, <2>1 DEF BackoffElapses
<1>10. ASSUME NEW n \in RowId, Retry(n) PROVE OpenRows(rows', x) # {}
  <2>1. rows[n] \in Row /\ rows' = [rows EXCEPT ![n] = Requeued(rows[n])]
        /\ syncStatus' = SetSync(syncStatus, rows[n].target, "pending")
    BY <1>0, <1>10 DEF Retry
  <2>2. Requeued(rows[n]).status = "pending" /\ Requeued(rows[n]).target = rows[n].target
    BY <2>1 DEF Requeued, Row
  <2>3. CASE rows[n].target = x
    <3>1. n \in OpenRows(rows', x)
      BY <1>0, <2>1, <2>2, <2>3 DEF OpenRows, Open
    <3> QED
      BY <3>1
  <2>4. CASE rows[n].target # x
    <3>1. syncStatus'[x] = syncStatus[x] /\ \A r \in RowId : r # n => rows'[r] = rows[r]
      BY <1>0, <2>1, <2>4 DEF SetSync
    <3> QED
      BY <1>2, <2>4, <3>1
  <2> QED
    BY <2>3, <2>4
<1> QED
  BY <1>3, <1>4, <1>6, <1>7, <1>8, <1>9, <1>10
     DEF Delivering, Worker, PartDb, Send, Accept, LoseAnswer, Refuse, Crash, tableVars

\* An item says "pending" only while something is on its way for it, or the last request
\* was dropped: whatever fails, is lost, retried by hand or interrupted.
THEOREM PendingWaits == ASSUME MaxBackfills = 0 PROVE LotSpec => []PendingIsWaiting
<1> DEFINE Inv == FormInv /\ \A x \in LotTarget : Waiting(x)
<1>1. LotInit => Inv
  <2> SUFFICES ASSUME LotInit PROVE Inv
    OBVIOUS
  <2>1. \A x \in LotTarget : Waiting(x)
    BY Disjoint DEF LotInit, Init, Waiting
  <2> QED
    BY <2>1, FormInit
<1>2. Inv /\ [LotNext]_lotVars => Inv'
  <2> SUFFICES ASSUME Inv, [LotNext]_lotVars PROVE Inv'
    OBVIOUS
  <2>1. FormInv'
    BY FormStep
  <2>2. CASE UNCHANGED lotVars
    BY <2>1, <2>2 DEF lotVars, vars, inventory, Waiting, OpenRows
  <2>3. CASE Command /\ UNCHANGED outside
    <3>1. Asks /\ TypeOK
      BY <2>3, CommandForm DEF FormInv, DepInv, TypeInv
    <3> QED
      BY <2>1, <3>1, CommandWaiting
  <2>4. CASE Delivering /\ UNCHANGED inventory
    BY <2>1, <2>4, DeliveringWaiting DEF FormInv
  <2> QED
    BY <2>2, <2>3, <2>4 DEF LotNext, outside
<1>3. Inv => PendingIsWaiting
  BY LatestOpenIs DEF Waiting, PendingIsWaiting, OpenRows
<1> QED
  BY <1>1, <1>2, <1>3, PTL DEF LotSpec

-----------------------------------------------------------------------------
(* The rows of a target reach Part-DB in the order they were made.          *)

\* Of the open rows of a target each depends on an open one, not older than any older one.
Chain ==
    \A q, r \in RowId :
        /\ rows[r].target # NoTarget /\ q < r
        /\ q \in OpenRows(rows, rows[r].target) /\ rows[r].status \in Open
        => /\ rows[r].dep \in OpenRows(rows, rows[r].target)
           /\ q <= rows[r].dep /\ rows[r].dep < r

\* The inductive invariant, as long as leases outlive ticks and nobody retries by hand.
SeqInv == FormInv /\ LeaseInv /\ DepDone /\ Chain

LEMMA CommandLease ==
    ASSUME FormInv, LeaseInv, DepDone, DepInv', Asks, UNCHANGED outside
    PROVE  LeaseInv' /\ DepDone'
<1>0. TX(Done) /\ TypeOK /\ DepInv /\ Gapless(rows) /\ ticks' = ticks
  BY DEF Asks, FormInv, DepInv, TypeInv, outside
<1>1. \A r \in RowId : rows[r].status # "absent" => rows'[r] = rows[r]
  BY <1>0, DoneTypes DEF Grown
<1>2. \A r \in RowId : rows[r].status = "absent" =>
         rows'[r].status = "absent" \/ rows'[r].status = "pending"
  BY <1>0, DoneTypes DEF Grown, RowOf
<1>3. \A t \in Tick : \A r \in ticks[t].batch :
         r \in RowId /\ rows'[r] = rows[r] /\ rows[r].dep \in RowId \cup {NoRow}
  BY <1>0, HeldStay, OwnFields
<1>4. OneHolder' /\ Running'
  BY <1>0, <1>3 DEF LeaseInv, OneHolder, Running, Held
<1>5. Resting' /\ AttemptsLeft'
  <2>1. ASSUME NEW r \in RowId, rows'[r] # rows[r]
        PROVE  rows'[r].status \in {"absent", "pending"} /\ rows'[r].lease = 0
               /\ rows'[r].next = "due"
    <3>1. rows[r].status = "absent"
      BY <1>1, <2>1
    <3>2. \E op \in Operation : rows'[r] = RowOf(op, "pending")
      BY <1>0, <2>1, DoneTypes DEF Grown
    <3> QED
      BY <3>2 DEF RowOf
  <2> QED
    BY <2>1 DEF LeaseInv, Resting, AttemptsLeft
<1>6. DepDone'
  <2> SUFFICES ASSUME NEW t \in Tick, NEW r \in ticks[t].batch PROVE DepDelivered(rows', r)
    BY <1>0 DEF DepDone, DepDelivered
  <2>1. DepDelivered(rows, r)
    BY DEF DepDone
  <2> QED
    BY <1>1, <1>3, <2>1 DEF DepDelivered
<1> QED
  BY <1>4, <1>5, <1>6 DEF LeaseInv, DepInv

LEMMA CommandChain ==
    ASSUME FormInv, Chain, Asks
    PROVE  Chain'
<1>0. TX(Done) /\ TypeOK /\ Gapless(rows)
  BY DEF Asks, FormInv, DepInv, TypeInv
<1>1. \A r \in RowId : rows[r].status # "absent" => rows'[r] = rows[r]
  BY <1>0, DoneTypes DEF Grown
<1>2. "absent" \notin Open /\ NoRow \notin RowId /\ RowId \subseteq Nat
  BY OutboxAssumption DEF Open, NoRow, RowId
<1>3. \A x : OpenRows(rows, x) \subseteq OpenRows(rows', x)
  BY <1>1, <1>2 DEF OpenRows
<1> SUFFICES ASSUME NEW q \in RowId, NEW r \in RowId, rows'[r].target # NoTarget, q < r,
                    q \in OpenRows(rows', rows'[r].target), rows'[r].status \in Open
             PROVE  /\ rows'[r].dep \in OpenRows(rows', rows'[r].target)
                    /\ q <= rows'[r].dep /\ rows'[r].dep < r
  BY DEF Chain, OpenRows
<1>4. rows[q].status # "absent"
  <2>1. CASE rows[r].status = "absent"
    <3>1. NewIn(rows', rows'[r].target) = {r}
      BY <1>0, <1>2, <2>1, NewRows
    <3>2. rows[q].status = "absent" => q \in NewIn(rows', rows'[r].target)
      BY <1>2 DEF NewIn, OpenRows
    <3> QED
      BY <1>2, <3>1, <3>2
  <2>2. CASE rows[r].status # "absent"
    <3>1. rows[q].status = "absent" => r < q
      BY <1>0, <1>2, <2>2, NewRows DEF Present, OpenRows
    <3> QED
      BY <1>2, <3>1
  <2> QED
    BY <2>1, <2>2
<1>5. rows'[q] = rows[q] /\ q \in OpenRows(rows, rows'[r].target)
  BY <1>1, <1>4 DEF OpenRows
<1>6. CASE rows[r].status # "absent"
  BY <1>1, <1>3, <1>5, <1>6 DEF Chain
<1>7. CASE rows[r].status = "absent"
  <2>1. LatestOpen(rows, rows'[r].target) \in OpenRows(rows, rows'[r].target)
        /\ q <= LatestOpen(rows, rows'[r].target)
    BY <1>5, LatestOpenIs
  <2>2. LatestOpen(rows, rows'[r].target) # NoRow
        /\ LatestOpen(rows, rows'[r].target) \in Present(rows)
    BY <1>2, <2>1 DEF OpenRows, Present
  <2>3. NewUpdate(r) /\ \A p \in Present(rows) : p < r
    BY <1>0, <1>2, <1>7, <2>2, NewRows DEF NewLot, NewPart, NewDrop
  <2>4. rows'[r].dep = LatestOpen(rows, rows'[r].target)
    BY <2>3 DEF NewUpdate
  <2> QED
    BY <1>3, <2>1, <2>2, <2>3, <2>4
<1> QED
  BY <1>6, <1>7

\* Only the oldest open row of a target closes.
LEMMA ChainKept ==
    ASSUME TypeOK, Chain, \A r \in RowId : SameAsk(r),
           \A r \in RowId : rows'[r].status \in Open => rows[r].status \in Open,
           \A r \in RowId : rows[r].status \in Open /\ rows'[r].status \notin Open
               /\ rows[r].target # NoTarget =>
                   \A q \in OpenRows(rows, rows[r].target) : r <= q
    PROVE  Chain'
<1>1. RowId \subseteq Nat
  BY OutboxAssumption DEF RowId
<1> SUFFICES ASSUME NEW q \in RowId, NEW r \in RowId, rows'[r].target # NoTarget, q < r,
                    q \in OpenRows(rows', rows'[r].target), rows'[r].status \in Open
             PROVE  /\ rows'[r].dep \in OpenRows(rows', rows'[r].target)
                    /\ q <= rows'[r].dep /\ rows'[r].dep < r
  BY DEF Chain, OpenRows
<1>2. /\ rows'[r].target = rows[r].target /\ rows'[r].dep = rows[r].dep
      /\ q \in OpenRows(rows, rows[r].target) /\ rows'[q].status \in Open
  BY DEF SameAsk, OpenRows
<1>3. /\ rows[r].dep \in OpenRows(rows, rows[r].target)
      /\ q <= rows[r].dep /\ rows[r].dep < r
  BY <1>2 DEF Chain
<1>4. rows[r].dep \in RowId /\ rows[rows[r].dep].status \in Open
      /\ rows[rows[r].dep].target = rows[r].target
  BY <1>3 DEF OpenRows
<1>5. rows'[rows[r].dep].status \in Open
  <2> SUFFICES ASSUME rows'[rows[r].dep].status \notin Open PROVE FALSE
    OBVIOUS
  <2>0. PICK d \in RowId : d = rows[r].dep
    BY <1>4
  <2>1. rows[d].status \in Open /\ rows'[d].status \notin Open /\ rows[d].target # NoTarget
        /\ q \in OpenRows(rows, rows[d].target)
    BY <1>2, <1>4, <2>0
  <2>2. d <= q
    BY <2>1
  <2>3. d = q
    BY <1>1, <1>3, <2>0, <2>2
  <2> QED
    BY <1>2, <2>1, <2>3
<1>6. rows[r].dep \in OpenRows(rows', rows[r].target)
  BY <1>4, <1>5 DEF OpenRows, SameAsk
<1> QED
  BY <1>2, <1>3, <1>6

\* A row a tick holds is the oldest open one of its target.
LEMMA HeldOldest ==
    ASSUME SeqInv, NEW t \in Tick, NEW h \in ticks[t].batch, rows[h].target # NoTarget
    PROVE  /\ h \in OpenRows(rows, rows[h].target)
           /\ \A q \in OpenRows(rows, rows[h].target) : h <= q
<1>1. h \in RowId /\ rows[h].status = "leased" /\ RowId \subseteq Nat
  BY OutboxAssumption DEF SeqInv, LeaseInv, TypeInv, TypeOK, TickState, OneHolder, Held, RowId
<1>2. DepDelivered(rows, h)
  BY DEF SeqInv, DepDone
<1>3. ASSUME NEW q \in OpenRows(rows, rows[h].target), ~(h <= q) PROVE FALSE
  <2>1. q \in RowId /\ q < h
    BY <1>1, <1>3 DEF OpenRows
  <2>2. rows[h].dep \in OpenRows(rows, rows[h].target)
    BY <1>1, <2>1 DEF SeqInv, Chain, Open
  <2>3. rows[h].dep # NoRow /\ rows[rows[h].dep].status # "delivered"
    BY <2>2, LatestOpenIs DEF OpenRows, Open
  <2> QED
    BY <1>2, <2>3 DEF DepDelivered
<1> QED
  BY <1>1, <1>3 DEF OpenRows, Open

LEMMA DeliveringChain ==
    ASSUME SeqInv, MaxRetries = 0, Delivering
    PROVE  Chain'
<1>0. TypeOK /\ DepInv /\ rows \in [RowId -> Row]
  BY DEF SeqInv, FormInv, DepInv, TypeInv, TypeOK
<1>1. \A r \in RowId : SameAsk(r)
  BY <1>0, DeliveringAsks
<1>2. ASSUME \A r \in RowId : rows[r].status \in Open <=> rows'[r].status \in Open PROVE Chain'
  BY <1>0, <1>1, <1>2, ChainKept DEF SeqInv
<1>3. ASSUME UNCHANGED rows PROVE Chain'
  BY <1>2, <1>3
<1>4. ASSUME NEW t \in Tick, Claim(t) PROVE Chain'
  BY <1>0, <1>2, <1>4, ClaimAsks
<1>5. ASSUME NEW t \in Tick, NEW h \in ticks[t].batch, NEW row,
             rows' = [rows EXCEPT ![h] = row]
      PROVE  Chain'
  <2>1. \A r \in RowId : r # h => rows'[r] = rows[r]
    BY <1>0, <1>5
  <2>2. rows[h].target # NoTarget =>
          \A q \in OpenRows(rows, rows[h].target) : h <= q
    BY HeldOldest
  <2>3. h \in RowId /\ rows[h].status \in Open
    BY DEF SeqInv, LeaseInv, TypeInv, TypeOK, TickState, OneHolder, Held, Open
  <2> QED
    BY <1>0, <1>1, <2>1, <2>2, <2>3, ChainKept DEF SeqInv
<1>6. ASSUME NEW t \in Tick, HydrateFails(t) \/ SettleFailed(t) \/ SettleDelivered(t) PROVE Chain'
  <2>1. Head(t) \in ticks[t].batch
    BY <1>0, <1>6, Turn DEF HydrateFails, SettleFailed, SettleDelivered
  <2>2. \E row : rows' = [rows EXCEPT ![Head(t)] = row]
    BY <1>6 DEF HydrateFails, SettleFailed, SettleDelivered, MarkFailed
  <2> QED
    BY <1>5, <2>1, <2>2
<1>7. ASSUME Elapse PROVE Chain'
  <2>1. \A r \in RowId : rows'[r] = rows[r] \/ rows'[r] = [rows[r] EXCEPT !.lease = @ - 1]
    BY <1>7 DEF Elapse
  <2>2. ASSUME NEW r \in RowId PROVE rows'[r].status = rows[r].status
    <3>1. rows[r] \in Row
      BY <1>0
    <3> QED
      BY <2>1, <3>1 DEF Row
  <2> QED
    BY <1>2, <2>2
<1>8. ASSUME NEW n \in RowId, BackoffElapses(n) PROVE Chain'
  <2>1. ASSUME NEW r \in RowId PROVE rows'[r].status = rows[r].status
    <3>1. rows[r] \in Row
      BY <1>0
    <3> QED
      BY <1>0, <1>8, <3>1 DEF BackoffElapses, Row
  <2> QED
    BY <1>2, <2>1
<1>9. ASSUME NEW n \in RowId, Retry(n) PROVE Chain'
  <2>1. spent.retry \in Nat /\ spent.retry < 0
    BY <1>0, <1>9 DEF Retry, TypeOK
  <2> QED
    BY <2>1
<1> QED
  BY <1>3, <1>4, <1>6, <1>7, <1>8, <1>9
     DEF Delivering, Worker, PartDb, Send, Accept, LoseAnswer, Refuse, Crash, tableVars

LEMMA SeqInit == LotInit => SeqInv
<1> SUFFICES ASSUME LotInit PROVE SeqInv
  OBVIOUS
<1>1. FormInv /\ LeaseInv
  BY FormInit, LeaseInit DEF LotInit
<1>2. DepDone /\ Chain
  BY DEF LotInit, Init, IdleTick, RowOf, DepDone, Chain, OpenRows, Open
<1> QED
  BY <1>1, <1>2 DEF SeqInv

LEMMA SeqStep ==
    ASSUME MaxBackfills = 0, MaxOverruns = 0, MaxRetries = 0, SeqInv, [LotNext]_lotVars
    PROVE  SeqInv'
<1>1. FormInv'
  BY FormStep DEF SeqInv
<1>2. CASE UNCHANGED lotVars
  <2>1. LeaseInv' /\ DepDone'
    BY <1>2, LeaseStep, RefStep DEF SeqInv, FormInv, RefInv, Refines, lotVars, vars
  <2>2. Chain'
    BY <1>2 DEF SeqInv, Chain, OpenRows, lotVars, vars
  <2> QED
    BY <1>1, <2>1, <2>2 DEF SeqInv
<1>3. CASE Command /\ UNCHANGED outside
  <2>1. Asks
    BY <1>3, CommandForm DEF SeqInv
  <2> QED
    BY <1>1, <1>3, <2>1, CommandLease, CommandChain DEF SeqInv, FormInv
<1>4. CASE Delivering /\ UNCHANGED inventory
  <2>1. LeaseInv' /\ DepDone'
    BY <1>4, LeaseStep, RefStep DEF SeqInv, FormInv, RefInv, Refines, Next
  <2> QED
    BY <1>1, <1>4, <2>1, DeliveringChain DEF SeqInv
<1> QED
  BY <1>2, <1>3, <1>4 DEF LotNext, outside

LEMMA SeqInvariant ==
    ASSUME MaxBackfills = 0, MaxOverruns = 0, MaxRetries = 0
    PROVE  LotSpec => []SeqInv
<1>1. SeqInv /\ [LotNext]_lotVars => SeqInv'
  BY SeqStep
<1> QED
  BY <1>1, SeqInit, PTL DEF LotSpec

\* The rows of one target reach Part-DB one after the other, as long as leases outlive
\* their ticks and nobody retries by hand: restarts, lost answers and failures included.
THEOREM OneAfterOther ==
    ASSUME MaxBackfills = 0, MaxOverruns = 0, MaxRetries = 0
    PROVE  LotSpec => []InOrder
<1>1. ASSUME SeqInv PROVE InOrder
  <2> SUFFICES ASSUME NEW x \in Targets
               PROVE  Cardinality({r \in RowsFor(x) : /\ rows[r].status \in Open
                                                      /\ DepDelivered(rows, r)}) <= 1
    BY DEF InOrder
  <2> DEFINE S == {r \in RowsFor(x) : rows[r].status \in Open /\ DepDelivered(rows, r)}
  <2>1. RowId \subseteq Nat /\ x # NoTarget
    BY OutboxAssumption DEF RowId, Targets
  <2>2. ASSUME NEW q \in S, NEW r \in S, q < r PROVE FALSE
    <3>1. q \in RowId /\ r \in RowId /\ rows[r].target = x /\ rows[r].status \in Open
          /\ q \in OpenRows(rows, x) /\ DepDelivered(rows, r)
      BY DEF RowsFor, Present, OpenRows
    <3>2. rows[r].dep \in OpenRows(rows, x)
      BY <1>1, <2>1, <2>2, <3>1 DEF SeqInv, Chain
    <3>3. rows[r].dep # NoRow /\ rows[rows[r].dep].status # "delivered"
      BY <3>2, LatestOpenIs DEF OpenRows, Open
    <3> QED
      BY <3>1, <3>3 DEF DepDelivered
  <2>3. S \subseteq RowId
    BY DEF RowsFor, Present
  <2>4. ASSUME NEW q \in S, NEW r \in S PROVE q = r
    <3>1. q \in Nat /\ r \in Nat /\ ~(q < r) /\ ~(r < q)
      BY <2>1, <2>2, <2>3
    <3> QED
      BY <3>1
  <2>5. S = {} \/ \E r : S = {r}
    BY <2>4
  <2> HIDE DEF S
  <2>6. Cardinality(S) = 0 \/ Cardinality(S) = 1
    BY <2>5, FS_EmptySet, FS_Singleton
  <2> QED
    BY <2>6 DEF S
<1> QED
  BY <1>1, SeqInvariant, PTL

-----------------------------------------------------------------------------
(* Every lot in Part-DB is known to the inventory, as long as no answer is  *)
(* lost: neither on the way nor with a tick that dies.                      *)

Gone(i) == i \in Iri /\ remote[i].kind # "none" /\ ~remote[i].live

\* Tick t has the answer to a call for x.
Answer(t, x, kind) ==
    ticks[t].call = "ok" /\ rows[Head(t)].target = x /\ rows[Head(t)].kind = kind

\* While a lot is to be created there is none, and what waits behind it names none.
CreateFirst(x) ==
    \A r \in OpenRows(rows, x) : rows[r].kind = "create_lot" =>
        /\ column[x] = NoIri
        /\ \A q \in OpenRows(rows, x) : q # r => r < q /\ rows[q].ref = NoIri

\* What an update or delete of x names, itself or by its dependency, is its lot or is gone.
NamesLot(x, i) == i = column[x] \/ Gone(i)

RowNamesLot(x) ==
    \A r \in OpenRows(rows, x) : rows[r].kind \in LotChange =>
        /\ rows[r].ref # NoIri => NamesLot(x, rows[r].ref)
        /\ rows[r].dep = NoRow => rows[r].ref # NoIri
        /\ rows[r].dep # NoRow /\ rows[rows[r].dep].status = "delivered" =>
              NamesLot(x, rows[rows[r].dep].iri)

\* The same of the call a tick has under way; an answer names the lot there is, or the one
\* that was made and that no correction drops yet.
CallNamesLot(t) ==
    LET row == rows[Head(t)]
        x == row.target
        i == ticks[t].ref
    IN  /\ x \in LotTarget /\ row.kind \in LotChange =>
              /\ ticks[t].call = "sent" => NamesLot(x, i)
              /\ ticks[t].call = "ok" => i = column[x]
              /\ ticks[t].call = "ok" /\ row.kind = "delete_lot" => Gone(i)
        /\ x \in LotTarget /\ row.kind = "create_lot" /\ ticks[t].call = "ok" =>
              /\ i \in LotsOf(x)
              /\ \A r \in Present(rows) : rows[r].target = NoTarget => rows[r].ref # i
        /\ x = NoTarget => /\ ticks[t].call = "sent" => i = row.ref
                           /\ ticks[t].call = "ok" => i = row.ref /\ Gone(i)

\* What a correction drops is nobody's lot any more.
Dropped ==
    \A r \in Present(rows) : rows[r].target = NoTarget =>
        /\ \A x \in LotTarget : column[x] # rows[r].ref
        /\ rows[r].status = "delivered" => Gone(rows[r].ref)

\* The lot of x is there, unless its deletion is answered.
ColumnLives(x) ==
    column[x] # NoIri => column[x] \in LotsOf(x) \/ \E t \in Tick : Answer(t, x, "delete_lot")

NoStray(x) ==
    \A i \in LotsOf(x) :
        \/ column[x] = i
        \/ \E r \in Present(rows) : /\ rows[r].target = NoTarget /\ rows[r].ref = i
                                    /\ rows[r].status # "delivered"
        \/ \E t \in Tick : Answer(t, x, "create_lot") /\ ticks[t].ref = i

LotInv ==
    /\ Dropped
    /\ \A x \in LotTarget : CreateFirst(x) /\ RowNamesLot(x) /\ ColumnLives(x) /\ NoStray(x)
    /\ \A t \in Tick : CallNamesLot(t)

LEMMA LotInvInit == LotInit => LotInv
<1> SUFFICES ASSUME LotInit PROVE LotInv
  OBVIOUS
<1>1. Present(rows) = {} /\ \A x : OpenRows(rows, x) = {}
  BY DEF LotInit, Init, Present, RowOf, OpenRows, Open
<1>2. \A x \in LotTarget : column[x] = NoIri /\ LotsOf(x) = {}
  BY Disjoint DEF LotInit, Init, LotsOf, NoObject
<1>3. \A t \in Tick : ticks[t].call = "none"
  BY DEF LotInit, Init, IdleTick
<1> QED
  BY <1>1, <1>2, <1>3
     DEF LotInv, Dropped, CreateFirst, RowNamesLot, ColumnLives, NoStray, CallNamesLot

\* A column that a correction clears had the lot that the correction drops.
LEMMA Cleared ==
    ASSUME TypeOK, Asks, Dropped, NEW x \in LotTarget, column'[x] # column[x]
    PROVE  /\ column'[x] = NoIri /\ OpenRows(rows, x) = {}
           /\ \E n \in RowId : /\ rows[n].status = "absent" /\ rows'[n].target = NoTarget
                               /\ rows'[n].ref = column[x] /\ rows'[n].status = "pending"
<1>1. /\ column'[x] = NoIri /\ LatestOpen(rows, x) = NoRow /\ Requested(Done, DropOp(x))
      /\ TX(Done)
  BY Disjoint DEF Asks, ColumnsStay
<1>2. OpenRows(rows, x) = {}
  BY <1>1, NoneOpen
<1>3. ~Known(DropOp(x))
  <2>1. DropOp(x).ref = column[x] /\ DropOp(x).target = NoTarget
    BY DEF DropOp, Op
  <2> QED
    BY <2>1 DEF Known, Dropped
<1>4. PICK n \in RowId : NewIn(rows', NoTarget) = {n} /\ rows'[n] = RowOf(DropOp(x), "pending")
  BY <1>1, <1>3, AskedRows, OperationTargets
<1>5. rows[n].status = "absent" /\ rows'[n].target = NoTarget /\ rows'[n].status = "pending"
  BY <1>4 DEF NewIn, RowOf
<1>6. rows'[n].ref = column[x]
  BY <1>4, DeleteFields
<1> QED
  BY <1>1, <1>2, <1>5, <1>6

LEMMA CommandLots ==
    ASSUME SeqInv, LotInv, Asks, UNCHANGED outside
    PROVE  LotInv'
<1>0. /\ TX(Done) /\ TypeOK /\ DepInv /\ OwnInv /\ Gapless(rows) /\ Dropped
      /\ remote' = remote /\ ticks' = ticks /\ \A x \in LotTarget : x \in Targets
  BY Disjoint DEF Asks, SeqInv, FormInv, DepInv, TypeInv, outside, LotInv
<1>1. \A r \in RowId : rows[r].status # "absent" => rows'[r] = rows[r]
  BY <1>0, DoneTypes DEF Grown
<1>2. "absent" \notin Open /\ NoRow \notin RowId /\ NoIri \notin Iri
  BY OutboxAssumption DEF Open, NoRow, RowId, NoIri, Iri
<1>3. ASSUME NEW t \in Tick, ticks[t].call # "none"
      PROVE  /\ Head(t)' = Head(t) /\ rows'[Head(t)] = rows[Head(t)]
             /\ Head(t) \in OpenRows(rows, rows[Head(t)].target)
  <2>1. Head(t) \in RowId /\ Head(t) \in ticks[t].batch
    BY <1>0, <1>3, Turn
  <2>2. rows[Head(t)].status = "leased"
    BY <2>1 DEF SeqInv, LeaseInv, OneHolder, Held
  <2> QED
    BY <1>0, <2>1, <2>2, HeldStay DEF OpenRows, Open
<1>4. \A x \in LotTarget : OpenRows(rows, x) # {} => column'[x] = column[x]
  BY <1>0, Cleared
<1>5. \A t \in Tick : \A x, k : Answer(t, x, k)' <=> Answer(t, x, k)
  BY <1>0, <1>3 DEF Answer
<1>6. ASSUME NEW x \in LotTarget PROVE CreateFirst(x)'
  <2> SUFFICES ASSUME NEW r \in OpenRows(rows', x), rows'[r].kind = "create_lot"
               PROVE  /\ column'[x] = NoIri
                      /\ \A q \in OpenRows(rows', x) : q # r => r < q /\ rows'[q].ref = NoIri
    BY DEF CreateFirst, OpenRows
  <2>1. r \in RowId /\ rows'[r].target = x /\ rows'[r].status # "absent"
    BY <1>2 DEF OpenRows
  <2>2. CASE rows[r].status # "absent"
    <3>1. r \in OpenRows(rows, x) /\ rows[r].kind = "create_lot"
      BY <1>1, <2>2 DEF OpenRows
    <3>2. /\ column[x] = NoIri /\ column'[x] = NoIri
          /\ \A q \in OpenRows(rows, x) : q # r => r < q /\ rows[q].ref = NoIri
      BY <1>4, <3>1 DEF LotInv, CreateFirst
    <3>3. ASSUME NEW q \in OpenRows(rows', x), q # r PROVE r < q /\ rows'[q].ref = NoIri
      <4>1. q \in RowId /\ rows'[q].target = x /\ rows'[q].status # "absent"
        BY <1>2 DEF OpenRows
      <4>2. CASE rows[q].status # "absent"
        <5>1. rows'[q] = rows[q] /\ q \in OpenRows(rows, x)
          BY <1>1, <4>2 DEF OpenRows
        <5> QED
          BY <3>2, <3>3, <5>1
      <4>3. CASE rows[q].status = "absent"
        <5>1. LatestOpen(rows, x) # NoRow
          BY <3>1, <1>2, LatestOpenIs DEF OpenRows
        <5>2. NewUpdate(q) /\ r < q
          BY <1>0, <2>1, <2>2, <4>1, <4>3, <5>1, Disjoint, NewRows
             DEF NewLot, NewPart, NewDrop, Present
        <5> QED
          BY <3>2, <4>1, <5>2 DEF NewUpdate
      <4> QED
        BY <4>2, <4>3
    <3> QED
      BY <3>2, <3>3
  <2>3. CASE rows[r].status = "absent"
    <3>1. NewLot(r) /\ NewIn(rows', x) = {r}
      BY <1>0, <2>1, <2>3, Disjoint, NewRows DEF NewUpdate, NewPart, NewDrop, LotChange
    <3>2. column'[x] = NoIri /\ OpenRows(rows, x) = {}
      BY <2>1, <3>1, NoneOpen DEF NewLot
    <3>3. \A q \in OpenRows(rows', x) : q = r
      BY <1>1, <1>2, <3>1, <3>2 DEF OpenRows, NewIn
    <3> QED
      BY <3>2, <3>3
  <2> QED
    BY <2>2, <2>3
<1>7. ASSUME NEW x \in LotTarget PROVE RowNamesLot(x)'
  <2> SUFFICES ASSUME NEW r \in OpenRows(rows', x), rows'[r].kind \in LotChange
               PROVE  /\ rows'[r].ref # NoIri =>
                            rows'[r].ref = column'[x] \/ Gone(rows'[r].ref)
                      /\ rows'[r].dep = NoRow => rows'[r].ref # NoIri
                      /\ rows'[r].dep # NoRow /\ rows'[rows'[r].dep].status = "delivered" =>
                            \/ rows'[rows'[r].dep].iri = column'[x]
                            \/ Gone(rows'[rows'[r].dep].iri)
    BY <1>0 DEF RowNamesLot, OpenRows, NamesLot, Gone
  <2>1. r \in RowId /\ rows'[r].target = x /\ rows'[r].status # "absent"
    BY <1>2 DEF OpenRows
  <2>2. CASE rows[r].status # "absent"
    <3>1. r \in OpenRows(rows, x) /\ rows'[r] = rows[r]
      BY <1>1, <2>2 DEF OpenRows
    <3>2. column'[x] = column[x] /\ x # NoTarget
      BY <1>0, <1>4, <3>1, Disjoint
    <3>3. rows[r].dep # NoRow => rows'[rows[r].dep] = rows[rows[r].dep]
      <4>1. RowOwns(r) /\ rows[r].dep \in RowId \cup {NoRow}
        BY <1>0, <2>1, OwnFields DEF OwnInv
      <4> QED
        BY <1>1, <2>1, <2>2, <3>1, <3>2, <4>1 DEF RowOwns
    <3> QED
      BY <3>1, <3>2, <3>3 DEF LotInv, RowNamesLot, NamesLot
  <2>3. CASE rows[r].status = "absent"
    <3>1. NewUpdate(r)
      BY <1>0, <2>1, <2>3, Disjoint, NewRows DEF NewLot, NewPart, NewDrop, LotChange
    <3>2. rows'[r].ref = column'[x] /\ rows'[r].dep = LatestOpen(rows, x) /\ HasLot(x)
          /\ column'[x] = column[x]
      BY <2>1, <3>1 DEF NewUpdate
    <3>3. rows'[r].dep # NoRow => rows'[rows'[r].dep].status # "delivered"
      <4>1. rows'[r].dep # NoRow => rows'[r].dep \in OpenRows(rows, x)
        BY <3>2, LatestOpenIs
      <4> QED
        BY <1>1, <4>1 DEF OpenRows, Open
    <3> QED
      BY <3>2, <3>3 DEF HasLot
  <2> QED
    BY <2>2, <2>3
<1>8. Dropped'
  <2> SUFFICES ASSUME NEW r \in RowId, rows'[r].status # "absent", rows'[r].target = NoTarget
               PROVE  /\ \A x \in LotTarget : column'[x] # rows'[r].ref
                      /\ rows'[r].status = "delivered" => Gone(rows'[r].ref)
    BY <1>0 DEF Dropped, Gone, Present
  <2>1. CASE rows[r].status # "absent"
    <3>1. rows'[r] = rows[r] /\ r \in Present(rows)
      BY <1>1, <2>1 DEF Present
    <3>2. rows[r].ref # NoIri
      BY <1>2, <3>1 DEF SeqInv, FormInv, Fits, Own
    <3>3. \A x \in LotTarget : column'[x] = column[x] \/ column'[x] = NoIri
      BY <1>0, Cleared
    <3> QED
      BY <1>0, <3>1, <3>2, <3>3 DEF Dropped
  <2>2. CASE rows[r].status = "absent"
    <3>1. NewDrop(r) /\ rows'[r].status = "pending"
      BY <1>0, <2>2, Disjoint, NewRows DEF NewLot, NewPart, NewUpdate
    <3>2. PICK y \in LotTarget : /\ column[y] # NoIri /\ column'[y] = NoIri
                                 /\ rows'[r].ref = column[y]
      BY <3>1 DEF NewDrop
    <3>3. \A x \in LotTarget : column'[x] # column[y]
      <4>1. \A x \in LotTarget : column[x] = column[y] => x = y
        BY <1>0, <3>2 DEF OwnInv, ColumnOwns, Own
      <4>2. \A x \in LotTarget : column'[x] = column[x] \/ column'[x] = NoIri
        BY <1>0, Cleared
      <4> QED
        BY <3>2, <4>1, <4>2
    <3> QED
      BY <3>1, <3>2, <3>3
  <2> QED
    BY <2>1, <2>2
<1>9. ASSUME NEW x \in LotTarget PROVE ColumnLives(x)' /\ NoStray(x)'
  <2>1. LotsOf(x)' = LotsOf(x)
    BY <1>0 DEF LotsOf
  <2>2. ColumnLives(x)'
    <3>1. column'[x] = column[x] \/ column'[x] = NoIri
      BY <1>0, Cleared
    <3> QED
      BY <1>5, <2>1, <3>1 DEF ColumnLives, LotInv
  <2>3. ASSUME NEW i \in LotsOf(x)
        PROVE  \/ column'[x] = i
               \/ \E r \in Present(rows') : /\ rows'[r].target = NoTarget /\ rows'[r].ref = i
                                            /\ rows'[r].status # "delivered"
               \/ \E t \in Tick : Answer(t, x, "create_lot") /\ ticks[t].ref = i
    <3>1. CASE column[x] = i
      BY <1>0, <3>1, Cleared DEF Present
    <3>2. CASE \E r \in Present(rows) : /\ rows[r].target = NoTarget /\ rows[r].ref = i
                                        /\ rows[r].status # "delivered"
      BY <1>1, <3>2 DEF Present
    <3> QED
      BY <3>1, <3>2 DEF NoStray, LotInv
  <2>4. NoStray(x)'
    BY <1>0, <1>5, <2>1, <2>3 DEF NoStray, Present
  <2> QED
    BY <2>2, <2>4
<1>10. ASSUME NEW t \in Tick PROVE CallNamesLot(t)'
  <2>1. CASE ticks[t].call = "none"
    BY <1>0, <2>1 DEF CallNamesLot
  <2>2. CASE ticks[t].call # "none"
    <3>1. PICK x, i, h : h = Head(t) /\ x = rows[h].target /\ i = ticks[t].ref
      OBVIOUS
    <3>2. /\ Head(t)' = h /\ rows'[h] = rows[h] /\ h \in OpenRows(rows, x)
          /\ h \in RowId /\ rows'[h].target = x /\ ticks'[t] = ticks[t] /\ ticks'[t].ref = i
      BY <1>0, <1>3, <2>2, <3>1 DEF OpenRows
    <3>3. x \in LotTarget => column'[x] = column[x]
      BY <1>4, <3>2
    <3>4. CallNamesLot(t)
      BY DEF LotInv
    <3>5. (Gone(i)' <=> Gone(i)) /\ (i \in LotsOf(x)' <=> i \in LotsOf(x))
      BY <1>0 DEF Gone, LotsOf
    <3>6. ASSUME x \in LotTarget, rows[h].kind = "create_lot", ticks[t].call = "ok",
                 NEW r \in Present(rows'), rows'[r].target = NoTarget
          PROVE  rows'[r].ref # i
      <4>1. i \in LotsOf(x) /\ \A q \in Present(rows) : rows[q].target = NoTarget => rows[q].ref # i
        BY <3>1, <3>4, <3>6 DEF CallNamesLot
      <4>2. CASE rows[r].status # "absent"
        BY <1>1, <3>6, <4>1, <4>2 DEF Present
      <4>3. CASE rows[r].status = "absent"
        <5>1. NewDrop(r)
          BY <1>0, <3>6, <4>3, Disjoint, NewRows DEF NewLot, NewPart, NewUpdate, Present
        <5>2. PICK y \in LotTarget : /\ column[y] # NoIri /\ LatestOpen(rows, y) = NoRow
                                     /\ rows'[r].ref = column[y]
          BY <5>1 DEF NewDrop
        <5>3. y # x
          BY <1>2, <3>2, <5>2, LatestOpenIs DEF OpenRows
        <5>4. remote[column[y]].owner = y
          BY <1>0, <5>2 DEF OwnInv, ColumnOwns, Own
        <5> QED
          BY <4>1, <5>2, <5>3, <5>4 DEF LotsOf
      <4> QED
        BY <4>2, <4>3
    <3>7. CallNamesLot(t)' <=>
            /\ x \in LotTarget /\ rows[h].kind \in LotChange =>
                  /\ ticks[t].call = "sent" => i = column'[x] \/ Gone(i)'
                  /\ ticks[t].call = "ok" => i = column'[x]
                  /\ ticks[t].call = "ok" /\ rows[h].kind = "delete_lot" => Gone(i)'
            /\ x \in LotTarget /\ rows[h].kind = "create_lot" /\ ticks[t].call = "ok" =>
                  /\ i \in LotsOf(x)'
                  /\ \A r \in Present(rows') : rows'[r].target = NoTarget => rows'[r].ref # i
            /\ x = NoTarget => /\ ticks[t].call = "sent" => i = rows[h].ref
                               /\ ticks[t].call = "ok" => i = rows[h].ref /\ Gone(i)'
      BY <3>2 DEF CallNamesLot, NamesLot, Gone, LotsOf, Present
    <3> QED
      BY <3>1, <3>3, <3>4, <3>5, <3>6, <3>7 DEF CallNamesLot, NamesLot
  <2> QED
    BY <2>1, <2>2
<1> QED
  BY <1>6, <1>7, <1>8, <1>9, <1>10 DEF LotInv

\* Two ticks never work on rows of one target.
LEMMA OneTick ==
    ASSUME SeqInv, NEW t \in Tick, NEW u \in Tick, NEW h \in ticks[t].batch,
           NEW k \in ticks[u].batch, rows[h].target = rows[k].target, rows[h].target # NoTarget
    PROVE  t = u /\ h = k
<1>1. h \in Nat /\ k \in Nat /\ h \in RowId
  BY OutboxAssumption DEF SeqInv, LeaseInv, TypeInv, TypeOK, TickState, RowId
<1>2. /\ h \in OpenRows(rows, rows[h].target) /\ k \in OpenRows(rows, rows[h].target)
      /\ h <= k /\ k <= h
  BY HeldOldest
<1>3. h = k
  BY <1>1, <1>2
<1> QED
  BY <1>1, <1>3 DEF SeqInv, LeaseInv, OneHolder

\* A call goes on, ends, or has failed.
LEMMA CallKept ==
    ASSUME SeqInv, LotInv, UNCHANGED <<remote, column>>, \A r \in RowId : SameAsk(r),
           NEW t \in Tick, ticks'[t].call \notin {"sent", "ok"} \/ ticks'[t] = ticks[t]
    PROVE  CallNamesLot(t)'
<1>1. CASE ticks'[t].call \notin {"sent", "ok"}
  BY <1>1 DEF CallNamesLot
<1>2. CASE ticks'[t] = ticks[t] /\ ticks[t].call \in {"sent", "ok"}
  <2>1. PICK x, i, h : h = Head(t) /\ x = rows[h].target /\ i = ticks[t].ref
    OBVIOUS
  <2>2. h \in RowId /\ Head(t)' = h
    BY <1>2, <2>1, Turn DEF SeqInv, FormInv, Head
  <2>3. rows'[h].target = x /\ rows'[h].kind = rows[h].kind /\ rows'[h].ref = rows[h].ref
    BY <2>1, <2>2 DEF SameAsk
  <2>4. (Gone(i)' <=> Gone(i)) /\ (i \in LotsOf(x)' <=> i \in LotsOf(x))
    BY DEF Gone, LotsOf
  <2>5. \A r \in RowId : /\ rows'[r].target = rows[r].target /\ rows'[r].ref = rows[r].ref
                         /\ rows'[r].status = "absent" <=> rows[r].status = "absent"
    BY DEF SameAsk
  <2>6. CallNamesLot(t)
    BY DEF LotInv
  <2> QED
    BY <1>2, <2>1, <2>2, <2>3, <2>4, <2>5, <2>6 DEF CallNamesLot, NamesLot, Gone, LotsOf, Present
<1> QED
  BY <1>1, <1>2

\* Steps that deliver nothing and leave Part-DB alone.
LEMMA CalmLots ==
    ASSUME SeqInv, LotInv, UNCHANGED <<remote, column>>, \A r \in RowId : SameAsk(r),
           \A r \in RowId : rows'[r].status \in Open => rows[r].status \in Open,
           \A r \in RowId : rows'[r].status = "delivered" <=> rows[r].status = "delivered",
           \A r \in RowId : rows[r].status = "delivered" => rows'[r].iri = rows[r].iri,
           \A t \in Tick : ticks[t].call = "ok" => ticks'[t] = ticks[t],
           \A t \in Tick : CallNamesLot(t)'
    PROVE  LotInv'
<1>0. TypeOK /\ DepInv /\ OwnInv /\ \A r \in RowId : rows[r].dep \in RowId \cup {NoRow}
  BY OwnFields DEF SeqInv, FormInv, DepInv, TypeInv
<1>1. /\ Present(rows') = Present(rows)
      /\ \A r \in RowId : /\ rows'[r].kind = rows[r].kind /\ rows'[r].target = rows[r].target
                          /\ rows'[r].ref = rows[r].ref /\ rows'[r].dep = rows[r].dep
  BY DEF SameAsk, Present
<1>2. \A x : OpenRows(rows', x) \subseteq OpenRows(rows, x)
  BY <1>1 DEF OpenRows
<1>3. (\A i : Gone(i)' <=> Gone(i)) /\ (\A x : LotsOf(x)' = LotsOf(x))
  BY DEF Gone, LotsOf
<1>4. ASSUME NEW t \in Tick, NEW x, NEW k, Answer(t, x, k)
      PROVE  Answer(t, x, k)' /\ ticks'[t].ref = ticks[t].ref
  <2>1. ticks'[t] = ticks[t] /\ Head(t)' = Head(t) /\ Head(t) \in RowId
    BY <1>0, <1>4, Turn DEF Answer, Head
  <2> QED
    BY <1>1, <1>4, <2>1 DEF Answer
<1>5. Dropped'
  BY <1>1, <1>3 DEF Dropped, LotInv, Present, Gone
<1>6. ASSUME NEW x \in LotTarget PROVE CreateFirst(x)'
  <2>1. CreateFirst(x) /\ \A r \in OpenRows(rows, x) : r \in RowId
    BY DEF LotInv, OpenRows
  <2> QED
    BY <1>1, <1>2, <2>1 DEF CreateFirst
<1>7. ASSUME NEW x \in LotTarget PROVE RowNamesLot(x)'
  <2> SUFFICES ASSUME NEW r \in OpenRows(rows', x), rows'[r].kind \in LotChange
               PROVE  /\ rows'[r].ref # NoIri =>
                            rows'[r].ref = column'[x] \/ Gone(rows'[r].ref)
                      /\ rows'[r].dep = NoRow => rows'[r].ref # NoIri
                      /\ rows'[r].dep # NoRow /\ rows'[rows'[r].dep].status = "delivered" =>
                            \/ rows'[rows'[r].dep].iri = column'[x]
                            \/ Gone(rows'[rows'[r].dep].iri)
    BY DEF RowNamesLot, OpenRows, NamesLot, Gone
  <2>1. r \in OpenRows(rows, x) /\ r \in RowId
    BY <1>2 DEF OpenRows
  <2> QED
    BY <1>0, <1>1, <2>1 DEF LotInv, RowNamesLot, NamesLot
<1>8. ASSUME NEW x \in LotTarget PROVE ColumnLives(x)'
  <2>1. column[x] # NoIri => column[x] \in LotsOf(x) \/ \E t \in Tick : Answer(t, x, "delete_lot")
    BY DEF LotInv, ColumnLives
  <2>2. column'[x] = column[x]
    OBVIOUS
  <2> QED
    BY <1>3, <1>4, <2>1, <2>2 DEF ColumnLives
<1>9. ASSUME NEW x \in LotTarget PROVE NoStray(x)'
  <2> SUFFICES ASSUME NEW i \in LotsOf(x)
               PROVE  \/ column'[x] = i
                      \/ \E r \in Present(rows) : /\ rows'[r].target = NoTarget /\ rows'[r].ref = i
                                                  /\ rows'[r].status # "delivered"
                      \/ \E t \in Tick : Answer(t, x, "create_lot")' /\ ticks'[t].ref = i
    BY <1>1, <1>3 DEF NoStray, Present
  <2>1. \/ column[x] = i
        \/ \E r \in Present(rows) : /\ rows[r].target = NoTarget /\ rows[r].ref = i
                                    /\ rows[r].status # "delivered"
        \/ \E t \in Tick : Answer(t, x, "create_lot") /\ ticks[t].ref = i
    BY DEF NoStray, LotInv
  <2>2. \A r \in Present(rows) : r \in RowId
    BY DEF Present
  <2> QED
    BY <1>1, <1>4, <2>1, <2>2
<1> QED
  BY <1>5, <1>6, <1>7, <1>8, <1>9 DEF LotInv

\* What a tick sends names the lot there is, or one that is gone.
LEMMA SendLots ==
    ASSUME SeqInv, LotInv, NEW t \in Tick, Send(t)
    PROVE  LotInv'
<1> DEFINE h == Head(t)
           i == HydratedRef(rows, h)
<1>0. TypeOK /\ DepInv /\ ticks \in [Tick -> TickState] /\ UNCHANGED <<rows, remote, column>>
  BY DEF SeqInv, FormInv, DepInv, TypeInv, TypeOK, Send, tableVars
<1>1. h \in RowId /\ h \in ticks[t].batch /\ rows[h].status # "absent"
  BY <1>0, Turn DEF Send
<1>2. /\ ticks[t].call = "none"
      /\ rows[h].kind = "create_part" \/ i # NoIri
      /\ ticks' = [ticks EXCEPT ![t] = Calling(ticks[t], "sent", i)]
  BY DEF Send, Runs
<1> HIDE DEF i
<1>3. ticks'[t] = Calling(ticks[t], "sent", i) /\ \A u \in Tick : u # t => ticks'[u] = ticks[u]
  BY <1>0, <1>2
<1>4. ticks'[t].call = "sent" /\ ticks'[t].ref = i /\ ticks'[t].batch = ticks[t].batch
  BY <1>0, <1>3 DEF Calling, TickState
<1>5. \A r \in RowId : SameAsk(r)
  BY <1>0 DEF SameAsk
<1>6. CallNamesLot(t)'
  <2>1. Head(t)' = h
    BY <1>4 DEF Head
  <2>2. rows[h].status = "leased" /\ Fits(h)
    BY <1>1 DEF SeqInv, LeaseInv, OneHolder, Held, FormInv, Present
  <2>3. ASSUME rows[h].target \in LotTarget, rows[h].kind \in LotChange
        PROVE  i = column[rows[h].target] \/ Gone(i)
    <3>1. h \in OpenRows(rows, rows[h].target)
      BY <1>1, <2>2 DEF OpenRows, Open
    <3>2. RowNamesLot(rows[h].target)
      BY <2>3 DEF LotInv
    <3>3. /\ rows[h].ref # NoIri => NamesLot(rows[h].target, rows[h].ref)
          /\ rows[h].dep # NoRow /\ rows[rows[h].dep].status = "delivered" =>
                NamesLot(rows[h].target, rows[rows[h].dep].iri)
      BY <2>3, <3>1, <3>2 DEF RowNamesLot
    <3>4. i # NoIri => \/ i = rows[h].ref
                       \/ /\ rows[h].dep # NoRow /\ rows[rows[h].dep].status = "delivered"
                          /\ i = rows[rows[h].dep].iri
      BY DEF i, HydratedRef, DependencyIri
    <3>5. i # NoIri
      BY <1>2, <2>3 DEF LotChange
    <3> QED
      BY <3>3, <3>4, <3>5 DEF NamesLot
  <2>4. rows[h].target = NoTarget => i = rows[h].ref
    BY <2>2 DEF Fits, i, HydratedRef
  <2> HIDE DEF h
  <2> QED
    BY <1>0, <1>4, <2>1, <2>3, <2>4 DEF CallNamesLot, NamesLot, Gone
<1>7. \A u \in Tick : CallNamesLot(u)'
  BY <1>0, <1>3, <1>5, <1>6, CallKept
<1>8. \A u \in Tick : ticks[u].call = "ok" => ticks'[u] = ticks[u]
  BY <1>2, <1>3
<1>9. UNCHANGED <<remote, column>> /\ rows' = rows
  BY <1>0
<1> HIDE DEF h
<1> QED
  BY <1>5, <1>7, <1>8, <1>9, CalmLots

\* A step that delivers nothing and neither opens a row nor changes what Part-DB holds:
\* a row that closes is its item's held one and is dead, and no answer comes or goes.
Calm ==
    /\ UNCHANGED <<remote, column>>
    /\ \A r \in RowId : rows'[r].status \in Open => rows[r].status \in Open
    /\ \A r \in RowId : rows'[r].status = "delivered" <=> rows[r].status = "delivered"
    /\ \A r \in RowId : rows[r].status = "delivered" => rows'[r].iri = rows[r].iri
    /\ \A r \in RowId : rows[r].status = "dead" => rows'[r].status = "dead"
    /\ \A r \in RowId : rows[r].status \in Open /\ rows'[r].status \notin Open =>
          Held(r) /\ rows'[r].status = "dead"
    /\ \A t \in Tick : \/ ticks'[t] = ticks[t]
                       \/ ticks'[t].call \notin {"sent", "ok"} /\ ticks[t].call # "ok"

\* As long as nothing is lost or retried, what delivers is calm but for these three.
LEMMA DeliveringIs ==
    ASSUME SeqInv, MaxRetries = 0, MaxCrashes = 0, MaxLost = 0, Delivering
    PROVE  Calm \/ \E t \in Tick : Send(t) \/ Accept(t) \/ SettleDelivered(t)
<1>1. TypeOK /\ DepInv /\ rows \in [RowId -> Row] /\ ticks \in [Tick -> TickState]
  BY DEF SeqInv, FormInv, DepInv, TypeInv, TypeOK
<1>2. ASSUME NEW t \in Tick, Claim(t) PROVE Calm
  <2>1. \A r \in RowId : /\ rows[r].status \in Open <=> rows'[r].status \in Open
                         /\ rows'[r].iri = rows[r].iri
                         /\ rows[r].status \notin Open => rows'[r].status = rows[r].status
    BY <1>1, <1>2, ClaimAsks
  <2>2. "delivered" \notin Open /\ "dead" \notin Open
    BY DEF Open
  <2>3. ticks[t].call = "none" /\ UNCHANGED <<remote, column>>
    BY <1>1, <1>2 DEF Claim, DepInv, TypeInv, CallsHaveRow, TypeOK, TickState, CallPhases
  <2>4. ticks'[t].call = "none" /\ \A u \in Tick : u # t => ticks'[u] = ticks[u]
    BY <1>1, <1>2 DEF Claim
  <2> QED
    BY <2>1, <2>2, <2>3, <2>4 DEF Calm
<1>3. ASSUME NEW t \in Tick, HydrateFails(t) \/ SettleFailed(t) PROVE Calm
  <2>1. PICK s \in {"failed", "dead"} : MarkFailed(Head(t), s)
    BY <1>3 DEF HydrateFails, SettleFailed, Verdict
  <2>2. Head(t) \in RowId /\ rows[Head(t)] \in Row /\ Head(t) \in ticks[t].batch
    BY <1>1, <1>3, Turn DEF HydrateFails, SettleFailed
  <2>3. rows[Head(t)].status = "leased" /\ Held(Head(t))
    BY <2>2 DEF SeqInv, LeaseInv, OneHolder, Held
  <2>4. rows' = [rows EXCEPT ![Head(t)] = Failed(rows[Head(t)], s)]
        /\ Failed(rows[Head(t)], s).status = s
    BY <2>1, <2>2, SettledFields DEF MarkFailed
  <2>5. \A r \in RowId : \/ rows'[r] = rows[r]
                         \/ /\ rows[r].status = "leased" /\ Held(r)
                            /\ rows'[r].status \in {"failed", "dead"}
    BY <1>1, <2>2, <2>3, <2>4
  <2>6. /\ UNCHANGED <<remote, column>> /\ ticks' = [ticks EXCEPT ![t] = Without(ticks[t], Head(t))]
        /\ ticks[t].call # "ok"
    BY <1>3 DEF HydrateFails, SettleFailed, Runs
  <2>7. Without(ticks[t], Head(t)).call = "none"
    BY <1>1 DEF Without, TickState
  <2>8. ticks'[t].call = "none" /\ \A u \in Tick : u # t => ticks'[u] = ticks[u]
    BY <1>1, <2>6, <2>7
  <2> QED
    BY <2>5, <2>6, <2>8 DEF Calm, Open
<1>4. ASSUME NEW t \in Tick, NEW call \in Answers, Refuse(t, call) PROVE Calm
  <2>1. /\ UNCHANGED <<rows, remote, column>> /\ ticks[t].call = "sent"
        /\ ticks' = [ticks EXCEPT ![t] = Calling(ticks[t], call, ticks[t].ref)]
    BY <1>4 DEF Refuse, tableVars
  <2>2. Calling(ticks[t], call, ticks[t].ref).call = call /\ call \notin {"sent", "ok"}
    BY <1>1 DEF Calling, TickState, Answers
  <2>3. ticks'[t].call = call /\ \A u \in Tick : u # t => ticks'[u] = ticks[u]
    BY <1>1, <2>1, <2>2
  <2> QED
    BY <2>1, <2>2, <2>3 DEF Calm
<1>5. ASSUME Elapse PROVE Calm
  <2>1. /\ \A r \in RowId : rows'[r] = rows[r] \/ rows'[r] = [rows[r] EXCEPT !.lease = @ - 1]
        /\ UNCHANGED <<remote, column, ticks>>
    BY <1>5 DEF Elapse
  <2>2. ASSUME NEW r \in RowId PROVE rows'[r].status = rows[r].status /\ rows'[r].iri = rows[r].iri
    <3>1. rows[r] \in Row
      BY <1>1
    <3> QED
      BY <2>1, <3>1 DEF Row
  <2> QED
    BY <2>1, <2>2 DEF Calm
<1>6. ASSUME NEW n \in RowId, BackoffElapses(n) PROVE Calm
  <2>1. ASSUME NEW r \in RowId PROVE rows'[r].status = rows[r].status /\ rows'[r].iri = rows[r].iri
    <3>1. rows[r] \in Row
      BY <1>1
    <3> QED
      BY <1>1, <1>6, <3>1 DEF BackoffElapses, Row
  <2> QED
    BY <1>6, <2>1 DEF Calm, BackoffElapses
<1>7. ASSUME Crash \/ (\E n \in RowId : Retry(n)) \/ \E t \in Tick : \E call : LoseAnswer(t, call)
      PROVE  FALSE
  <2>1. spent.retry \in Nat /\ spent.crash \in Nat /\ spent.lost \in Nat
    BY <1>1 DEF TypeOK
  <2> QED
    BY <1>7, <2>1 DEF Crash, Retry, LoseAnswer
<1> QED
  BY <1>2, <1>3, <1>4, <1>5, <1>6, <1>7 DEF Delivering, Worker, PartDb

\* Nothing a step of the delivery does to the lots, but for answers and what they deliver.
LEMMA CalmDelivering ==
    ASSUME SeqInv, LotInv, MaxRetries = 0, MaxCrashes = 0, MaxLost = 0, Delivering
    PROVE  \/ LotInv'
           \/ \E t \in Tick : Accept(t) \/ SettleDelivered(t)
<1>1. \A r \in RowId : SameAsk(r)
  BY DeliveringAsks DEF SeqInv, FormInv
<1>2. ASSUME Calm PROVE LotInv'
  <2>1. \A t \in Tick : CallNamesLot(t)'
    BY <1>1, <1>2, CallKept DEF Calm
  <2> QED
    BY <1>1, <1>2, <2>1, CalmLots DEF Calm
<1> QED
  BY <1>2, DeliveringIs, SendLots

\* What a call does to the lots in Part-DB.
LEMMA ApplyLots ==
    ASSUME TypeOK, NEW row \in Row, NEW ref, NEW i \in Iri, Apply(row, ref, i),
           row.kind # "delete_part"
    PROVE  /\ \A j : Gone(j) => Gone(j)'
           /\ \A y, j : j \in LotsOf(y)' =>
                 j \in LotsOf(y) \/ (j = i /\ y = row.target /\ row.kind = "create_lot")
           /\ \A y, j : j \in LotsOf(y) => j \in LotsOf(y)' \/ (j = i /\ row.kind = "delete_lot")
           /\ row.kind = "create_lot" => remote[i].kind = "none" /\ i \in LotsOf(row.target)'
           /\ row.kind = "delete_lot" /\ remote[i].kind # "none" => Gone(i)'
           /\ row.kind \notin CreateKinds => i = ref
<1>0. remote \in [Iri -> Object] /\ remote[i] \in Object
  BY DEF TypeOK
<1> DEFINE same == \A j \in Iri : j # i => remote'[j] = remote[j]
<1>1. CASE row.kind \in CreateKinds
  <2>1. PICK k \in {"part", "lot"}, p \in {NoIri, ref} :
           NewObject(i, k, row, p) /\ (k = "lot" <=> row.kind = "create_lot")
    BY <1>1 DEF Apply, CreateKinds
  <2>2. remote[i].kind = "none" /\ same
        /\ remote'[i] = [kind |-> k, owner |-> row.target, part |-> p, val |-> row.val,
                         live |-> TRUE]
    BY <1>0, <2>1 DEF NewObject
  <2>3. remote'[i].kind = k /\ remote'[i].owner = row.target /\ remote'[i].live
    BY <2>2
  <2> QED
    BY <1>1, <2>1, <2>2, <2>3 DEF Gone, LotsOf, CreateKinds
<1>2. CASE row.kind \in {"update_part", "update_lot"}
  <2>1. i = ref /\ remote' = [remote EXCEPT ![i].val = row.val]
    BY <1>2 DEF Apply
  <2>2. same /\ remote'[i] = [remote[i] EXCEPT !.val = row.val]
    BY <1>0, <2>1
  <2>3. remote'[i].kind = remote[i].kind /\ remote'[i].owner = remote[i].owner
        /\ remote'[i].live = remote[i].live
    BY <1>0, <2>2 DEF Object
  <2> QED
    BY <1>2, <2>1, <2>2, <2>3 DEF Gone, LotsOf, CreateKinds
<1>3. CASE row.kind = "delete_lot"
  <2>1. i = ref /\ remote' = [remote EXCEPT ![i].live = FALSE]
    BY <1>3 DEF Apply
  <2>2. same /\ remote'[i] = [remote[i] EXCEPT !.live = FALSE]
    BY <1>0, <2>1
  <2>3. remote'[i].kind = remote[i].kind /\ remote'[i].owner = remote[i].owner
        /\ ~remote'[i].live
    BY <1>0, <2>2 DEF Object
  <2> QED
    BY <1>3, <2>1, <2>2, <2>3 DEF Gone, LotsOf, CreateKinds
<1> QED
  BY <1>1, <1>2, <1>3 DEF Row, Kinds, CreateKinds, LotChange, PartChange

LEMMA AcceptLots ==
    ASSUME SeqInv, LotInv, NEW t \in Tick, Accept(t)
    PROVE  LotInv'
<1>0. /\ TypeOK /\ DepInv /\ OwnInv /\ ticks \in [Tick -> TickState]
      /\ UNCHANGED <<rows, column>> /\ ticks[t].call = "sent"
      /\ \A y \in LotTarget : y \in Targets /\ y # NoTarget
      /\ \A r \in RowId : rows[r].dep \in RowId \cup {NoRow}
  BY Disjoint, OwnFields DEF SeqInv, FormInv, DepInv, TypeInv, TypeOK, Accept, tableVars
<1>1. PICK h, x : h = Head(t) /\ x = rows[h].target
  OBVIOUS
<1>2. h \in RowId /\ h \in ticks[t].batch /\ rows[h] \in Row /\ rows[h].status = "leased"
  BY <1>0, <1>1, Turn DEF SeqInv, LeaseInv, OneHolder, Held
<1>3. Fits(h) /\ CallNamesLot(t) /\ x \in Targets \cup {NoTarget}
  BY <1>0, <1>1, <1>2, OwnFields DEF SeqInv, FormInv, Present, LotInv
<1>4. PICK i \in Iri : /\ Apply(rows[h], ticks[t].ref, i)
                       /\ ticks' = [ticks EXCEPT ![t] = Calling(ticks[t], "ok", i)]
  BY <1>1 DEF Accept
<1>5. /\ \A u \in Tick : u # t => ticks'[u] = ticks[u]
      /\ ticks'[t].call = "ok" /\ ticks'[t].ref = i /\ ticks'[t].batch = ticks[t].batch
  <2>1. Calling(ticks[t], "ok", i).call = "ok" /\ Calling(ticks[t], "ok", i).ref = i
        /\ Calling(ticks[t], "ok", i).batch = ticks[t].batch
    BY <1>0 DEF Calling, TickState
  <2> QED
    BY <1>0, <1>4, <2>1
<1>6. \A u \in Tick : Head(u)' = Head(u)
  BY <1>5 DEF Head
<1>7. rows[h].kind # "delete_part"
  BY <1>1, <1>3, Disjoint DEF Fits, Targets, LotChange
<1>8. /\ \A j : Gone(j) => Gone(j)'
      /\ \A y, j : j \in LotsOf(y)' =>
            j \in LotsOf(y) \/ (j = i /\ y = x /\ rows[h].kind = "create_lot")
      /\ \A y, j : j \in LotsOf(y) => j \in LotsOf(y)' \/ (j = i /\ rows[h].kind = "delete_lot")
      /\ rows[h].kind = "create_lot" => remote[i].kind = "none" /\ i \in LotsOf(x)'
      /\ rows[h].kind = "delete_lot" /\ remote[i].kind # "none" => Gone(i)'
      /\ rows[h].kind \notin CreateKinds => i = ticks[t].ref
  BY <1>0, <1>1, <1>2, <1>4, <1>7, ApplyLots
<1>9. rows[h].kind # "create_part" => remote[ticks[t].ref].live
  BY <1>1 DEF Accept, Works
<1>10. ASSUME x \in LotTarget, rows[h].kind \in LotChange
       PROVE  /\ i = column[x] /\ Own(x, i)
              /\ rows[h].kind = "delete_lot" => Gone(i)'
  <2>1. i = ticks[t].ref /\ remote[i].live
    BY <1>8, <1>9, <1>10 DEF LotChange, CreateKinds
  <2>2. i = column[x]
    BY <1>0, <1>1, <1>3, <1>10, <2>1 DEF CallNamesLot, NamesLot, Gone
  <2>3. Own(x, i)
    BY <1>0, <1>10, <2>2, OutboxAssumption DEF OwnInv, ColumnOwns, NoIri, Iri
  <2> QED
    BY <1>8, <2>2, <2>3 DEF Own
<1>11. x = NoTarget => /\ rows[h].kind = "delete_lot" /\ i = rows[h].ref /\ Gone(i)'
  <2>1. x = NoTarget => rows[h].kind = "delete_lot" /\ remote[rows[h].ref].kind # "none"
    BY <1>1, <1>3 DEF Fits, Own
  <2>2. x = NoTarget => ticks[t].ref = rows[h].ref
    BY <1>0, <1>1, <1>3 DEF CallNamesLot
  <2> QED
    BY <1>8, <2>1, <2>2 DEF CreateKinds
<1>12. rows[h].kind = "create_lot" =>
          \A r \in Present(rows) : rows[r].target = NoTarget => rows[r].ref # i
  BY <1>8 DEF SeqInv, FormInv, Fits, Own
<1>13. \A u \in Tick : \A y, k : Answer(u, y, k) =>
          Answer(u, y, k)' /\ ticks'[u].ref = ticks[u].ref
  BY <1>0, <1>5, <1>6 DEF Answer
<1>14. \A k : rows[h].kind = k => Answer(t, x, k)'
  BY <1>0, <1>1, <1>5, <1>6 DEF Answer
<1>15. ASSUME NEW y \in LotTarget, NEW u \in Tick, Answer(u, y, "create_lot")
       PROVE  ticks[u].ref \in LotsOf(y)'
  <2>1. u # t /\ Head(u) \in ticks[u].batch
    BY <1>0, <1>15, Turn DEF Answer
  <2>2. /\ ticks[u].ref \in LotsOf(y)
        /\ \A r \in Present(rows) : rows[r].target = NoTarget => rows[r].ref # ticks[u].ref
    BY <1>15 DEF LotInv, CallNamesLot, Answer
  <2>3. ASSUME ticks[u].ref = i, rows[h].kind = "delete_lot" PROVE FALSE
    <3>1. CASE x \in LotTarget
      <4>1. x = y
        BY <1>10, <2>2, <2>3, <3>1 DEF LotsOf, Own, LotChange
      <4> QED
        BY <1>0, <1>1, <1>2, <1>15, <2>1, <4>1, OneTick DEF Answer
    <3>2. CASE x = NoTarget
      BY <1>1, <1>2, <1>11, <2>2, <2>3, <3>2 DEF Present
    <3> QED
      BY <1>1, <1>3, <2>3, <3>1, <3>2 DEF Fits, Targets
  <2> QED
    BY <1>8, <2>2, <2>3
<1>16. ASSUME NEW u \in Tick PROVE CallNamesLot(u)'
  <2>1. CASE u = t
    <3>1. x \in LotTarget /\ rows[h].kind = "create_lot" => i \in LotsOf(x)'
      BY <1>8
    <3> QED
      BY <1>0, <1>1, <1>5, <1>6, <1>10, <1>11, <1>12, <2>1, <3>1
         DEF CallNamesLot, NamesLot, Gone, LotsOf, Present
  <2>2. CASE u # t
    <3>1. PICK y, k, j : k = Head(u) /\ y = rows[k].target /\ j = ticks[u].ref
      OBVIOUS
    <3>2. CallNamesLot(u) /\ ticks'[u] = ticks[u] /\ Head(u)' = k
      BY <1>5, <1>6, <2>2, <3>1 DEF LotInv
    <3>3. y \in LotTarget /\ rows[k].kind = "create_lot" /\ ticks[u].call = "ok" => j \in LotsOf(y)'
      BY <1>15, <3>1 DEF Answer
    <3>4. Gone(j) => Gone(j)'
      BY <1>8
    <3>5. CallNamesLot(u)' <=>
            /\ y \in LotTarget /\ rows[k].kind \in LotChange =>
                  /\ ticks[u].call = "sent" => j = column[y] \/ Gone(j)'
                  /\ ticks[u].call = "ok" => j = column[y]
                  /\ ticks[u].call = "ok" /\ rows[k].kind = "delete_lot" => Gone(j)'
            /\ y \in LotTarget /\ rows[k].kind = "create_lot" /\ ticks[u].call = "ok" =>
                  /\ j \in LotsOf(y)'
                  /\ \A r \in Present(rows) : rows[r].target = NoTarget => rows[r].ref # j
            /\ y = NoTarget => /\ ticks[u].call = "sent" => j = rows[k].ref
                               /\ ticks[u].call = "ok" => j = rows[k].ref /\ Gone(j)'
      BY <1>0, <3>1, <3>2 DEF CallNamesLot, NamesLot, Gone, LotsOf, Present
    <3> QED
      BY <3>1, <3>2, <3>3, <3>4, <3>5 DEF CallNamesLot, NamesLot
  <2> QED
    BY <2>1, <2>2
<1>17. Dropped'
  <2>1. \A r \in Present(rows) : rows[r].target = NoTarget =>
          /\ \A y \in LotTarget : column[y] # rows[r].ref
          /\ rows[r].status = "delivered" => Gone(rows[r].ref)
    BY DEF LotInv, Dropped
  <2>2. \A r \in Present(rows) : Gone(rows[r].ref) =>
          rows[r].ref \in Iri /\ remote'[rows[r].ref].kind # "none" /\ ~remote'[rows[r].ref].live
    <3> SUFFICES ASSUME NEW j, Gone(j)
                 PROVE  j \in Iri /\ remote'[j].kind # "none" /\ ~remote'[j].live
      OBVIOUS
    <3> QED
      BY <1>8 DEF Gone
  <2> QED
    BY <1>0, <2>1, <2>2 DEF Dropped, Present, Gone
<1>18. ASSUME NEW y \in LotTarget PROVE CreateFirst(y)' /\ RowNamesLot(y)'
  <2>1. CreateFirst(y) /\ RowNamesLot(y)
    BY DEF LotInv
  <2>2. CreateFirst(y)'
    BY <1>0, <2>1 DEF CreateFirst, OpenRows
  <2>3. ASSUME NEW j, NamesLot(y, j)
        PROVE  j = column[y] \/ (j \in Iri /\ remote'[j].kind # "none" /\ ~remote'[j].live)
    BY <1>8, <2>3 DEF NamesLot, Gone
  <2>4. RowNamesLot(y)'
    <3> SUFFICES ASSUME NEW r \in OpenRows(rows, y), rows[r].kind \in LotChange
                 PROVE  /\ rows[r].ref # NoIri =>
                              \/ rows[r].ref = column[y]
                              \/ rows[r].ref \in Iri /\ remote'[rows[r].ref].kind # "none"
                                                     /\ ~remote'[rows[r].ref].live
                        /\ rows[r].dep = NoRow => rows[r].ref # NoIri
                        /\ rows[r].dep # NoRow /\ rows[rows[r].dep].status = "delivered" =>
                              LET j == rows[rows[r].dep].iri
                              IN  \/ j = column[y]
                                  \/ j \in Iri /\ remote'[j].kind # "none" /\ ~remote'[j].live
      BY <1>0 DEF RowNamesLot, OpenRows, NamesLot, Gone
    <3> QED
      BY <2>1, <2>3 DEF RowNamesLot
  <2> QED
    BY <2>2, <2>4
<1>19. ASSUME NEW y \in LotTarget, column[y] # NoIri
       PROVE  column[y] \in LotsOf(y)' \/ \E u \in Tick : Answer(u, y, "delete_lot")'
  <2>1. column[y] \in LotsOf(y) \/ \E u \in Tick : Answer(u, y, "delete_lot")
    BY <1>19 DEF LotInv, ColumnLives
  <2>2. ASSUME column[y] = i, rows[h].kind = "delete_lot"
        PROVE  Answer(t, y, "delete_lot")'
    <3>1. CASE x = NoTarget
      BY <1>1, <1>2, <1>11, <2>2, <3>1 DEF LotInv, Dropped, Present
    <3>2. CASE x \in LotTarget
      <4>1. x = y
        BY <1>0, <1>10, <1>19, <2>2, <3>2 DEF OwnInv, ColumnOwns, Own, LotChange
      <4> QED
        BY <1>14, <2>2, <4>1
    <3> QED
      BY <1>1, <1>3, <2>2, <3>1, <3>2 DEF Fits, Targets
  <2> QED
    BY <1>8, <1>13, <2>1, <2>2
<1>20. ASSUME NEW y \in LotTarget, NEW j \in LotsOf(y)'
       PROVE  \/ column[y] = j
              \/ \E r \in Present(rows) : /\ rows[r].target = NoTarget /\ rows[r].ref = j
                                          /\ rows[r].status # "delivered"
              \/ \E u \in Tick : Answer(u, y, "create_lot")' /\ ticks'[u].ref = j
  <2>1. CASE j \in LotsOf(y)
    <3>1. NoStray(y)
      BY DEF LotInv
    <3> QED
      BY <1>13, <2>1, <3>1 DEF NoStray
  <2>2. CASE j = i /\ y = x /\ rows[h].kind = "create_lot"
    BY <1>5, <1>14, <2>2
  <2> QED
    BY <1>8, <2>1, <2>2
<1>21. ASSUME NEW y \in LotTarget PROVE ColumnLives(y)' /\ NoStray(y)'
  BY <1>0, <1>19, <1>20 DEF ColumnLives, NoStray, Present
<1> QED
  BY <1>16, <1>17, <1>18, <1>21 DEF LotInv

\* What delivering the row h of x changes.
LEMMA DeliveredIs ==
    ASSUME SeqInv, LotInv, NEW t \in Tick, SettleDelivered(t),
           NEW h, NEW x, NEW i, NEW k,
           h = Head(t), x = rows[h].target, i = ticks[t].ref, k = rows[h].kind
    PROVE  /\ h \in RowId /\ h \in ticks[t].batch /\ rows[h].status = "leased"
           /\ Fits(h) /\ x \in Targets \cup {NoTarget}
           /\ h \in OpenRows(rows, x) /\ h \in Present(rows)
           /\ rows'[h].status = "delivered" /\ rows'[h].iri = i /\ rows'[h].target = x
           /\ rows'[h].kind = k
           /\ \A r \in RowId : SameAsk(r) /\ (r # h => rows'[r] = rows[r])
           /\ Present(rows') = Present(rows)
           /\ \A y : OpenRows(rows', y) = OpenRows(rows, y) \ {h}
           /\ ticks'[t].call = "none" /\ \A u \in Tick : u # t => ticks'[u] = ticks[u]
           /\ \A u \in Tick : u # t /\ ticks[u].call # "none" =>
                 /\ Head(u)' = Head(u) /\ Head(u) \in RowId /\ rows'[Head(u)] = rows[Head(u)]
                 /\ x # NoTarget => rows[Head(u)].target # x
           /\ \A u \in Tick : \A y, a : u # t /\ Answer(u, y, a) =>
                 Answer(u, y, a)' /\ ticks'[u].ref = ticks[u].ref
           /\ \A y \in LotTarget : y # x => column'[y] = column[y]
           /\ x \in LotTarget =>
                 \/ /\ k = "create_lot" /\ column[x] = NoIri /\ column'[x] = i /\ i \in LotsOf(x)
                    /\ \A r \in Present(rows) : rows[r].target = NoTarget => rows[r].ref # i
                 \/ k = "update_lot" /\ column[x] = i /\ column'[x] = i
                 \/ k = "delete_lot" /\ column[x] = i /\ column'[x] = NoIri /\ Gone(i)
<1>0. /\ TypeOK /\ DepInv /\ ticks \in [Tick -> TickState] /\ rows \in [RowId -> Row]
      /\ column \in [Targets -> Iri \cup {NoIri}]
      /\ ticks[t].call = "ok"
      /\ \A y \in LotTarget : y \in Targets /\ y # NoTarget
  BY Disjoint DEF SeqInv, FormInv, DepInv, TypeInv, TypeOK, SettleDelivered
<1>1. h \in RowId /\ h \in ticks[t].batch /\ rows[h] \in Row /\ rows[h].status = "leased"
  BY <1>0, Turn DEF SeqInv, LeaseInv, OneHolder, Held
<1>2. /\ Fits(h) /\ CallNamesLot(t) /\ x \in Targets \cup {NoTarget}
      /\ h \in OpenRows(rows, x) /\ h \in Present(rows)
  BY <1>0, <1>1, OwnFields DEF SeqInv, FormInv, Present, LotInv, OpenRows, Open
<1>3. /\ rows' = [rows EXCEPT ![h] = Delivered(rows[h], i)]
      /\ column' = IF x = NoTarget THEN column
                   ELSE [column EXCEPT ![x] = IF k = "delete_lot" THEN NoIri ELSE i]
      /\ ticks' = [ticks EXCEPT ![t] = Without(ticks[t], h)]
  BY DEF SettleDelivered
<1>4. /\ rows'[h].status = "delivered" /\ rows'[h].iri = i /\ rows'[h].target = x
      /\ rows'[h].kind = k
      /\ \A r \in RowId : r # h => rows'[r] = rows[r]
  BY <1>0, <1>1, <1>3, SettledFields
<1>5. \A r \in RowId : SameAsk(r)
  BY <1>1, <1>3, <1>4, SettledFields DEF SameAsk
<1>6. ticks'[t].call = "none" /\ \A u \in Tick : u # t => ticks'[u] = ticks[u]
  <2>1. Without(ticks[t], h).call = "none"
    BY <1>0 DEF Without, TickState
  <2> QED
    BY <1>0, <1>3, <2>1
<1>7. Present(rows') = Present(rows) /\ \A y : OpenRows(rows', y) = OpenRows(rows, y) \ {h}
  BY <1>1, <1>4, <1>5 DEF SameAsk, Present, OpenRows, Open
<1>8. ASSUME NEW u \in Tick, u # t, ticks[u].call # "none"
      PROVE  /\ Head(u)' = Head(u) /\ Head(u) \in RowId /\ rows'[Head(u)] = rows[Head(u)]
             /\ x # NoTarget => rows[Head(u)].target # x
  <2>1. Head(u) \in ticks[u].batch /\ Head(u) \in RowId /\ Head(u)' = Head(u)
    BY <1>0, <1>6, <1>8, Turn DEF Head
  <2>2. Head(u) # h
    BY <1>1, <1>8, <2>1 DEF SeqInv, LeaseInv, OneHolder
  <2> QED
    BY <1>1, <1>4, <1>8, <2>1, <2>2, OneTick
<1>9. \A u \in Tick : \A y, a : u # t /\ Answer(u, y, a) =>
         Answer(u, y, a)' /\ ticks'[u].ref = ticks[u].ref
  BY <1>6, <1>8 DEF Answer
<1>10. \A y \in LotTarget : y # x => column'[y] = column[y]
  BY <1>0, <1>3
<1>11. ASSUME x \in LotTarget
       PROVE  \/ /\ k = "create_lot" /\ column[x] = NoIri /\ column'[x] = i /\ i \in LotsOf(x)
                 /\ \A r \in Present(rows) : rows[r].target = NoTarget => rows[r].ref # i
              \/ k = "update_lot" /\ column[x] = i /\ column'[x] = i
              \/ k = "delete_lot" /\ column[x] = i /\ column'[x] = NoIri /\ Gone(i)
  <2>1. column'[x] = IF k = "delete_lot" THEN NoIri ELSE i
    BY <1>0, <1>3, <1>11
  <2>2. k \in LotChange \cup {"create_lot"}
    BY <1>2, <1>11 DEF Fits
  <2>3. k = "create_lot" => column[x] = NoIri
    BY <1>2, <1>11 DEF LotInv, CreateFirst
  <2> QED
    BY <1>0, <1>2, <1>11, <2>1, <2>2, <2>3 DEF CallNamesLot, LotChange
<1> QED
  BY <1>1, <1>2, <1>4, <1>5, <1>6, <1>7, <1>8, <1>9, <1>10, <1>11

LEMMA DeliveredLots ==
    ASSUME SeqInv, LotInv, NEW t \in Tick, SettleDelivered(t)
    PROVE  LotInv'
<1>0. /\ TypeOK /\ DepInv /\ OwnInv /\ ticks \in [Tick -> TickState] /\ rows \in [RowId -> Row]
      /\ column \in [Targets -> Iri \cup {NoIri}]
      /\ UNCHANGED remote /\ ticks[t].call = "ok" /\ NoIri \notin Iri
      /\ \A y \in LotTarget : y \in Targets /\ y # NoTarget
      /\ \A r \in RowId : rows[r].dep \in RowId \cup {NoRow}
  <2>1. TypeOK /\ DepInv /\ OwnInv
    BY DEF SeqInv, FormInv, DepInv, TypeInv
  <2>2. /\ ticks \in [Tick -> TickState] /\ rows \in [RowId -> Row]
        /\ column \in [Targets -> Iri \cup {NoIri}]
    BY <2>1 DEF TypeOK
  <2>3. UNCHANGED remote /\ ticks[t].call = "ok"
    BY DEF SettleDelivered
  <2>4. NoIri \notin Iri
    BY OutboxAssumption DEF NoIri, Iri
  <2> QED
    BY <2>1, <2>2, <2>3, <2>4, Disjoint, OwnFields
<1>1. PICK h, x, i, k : h = Head(t) /\ x = rows[h].target /\ i = ticks[t].ref /\ k = rows[h].kind
  OBVIOUS
<1>2. /\ h \in RowId /\ h \in ticks[t].batch /\ rows[h].status = "leased"
      /\ h \in OpenRows(rows, x) /\ h \in Present(rows)
      /\ Present(rows') = Present(rows) /\ \A r \in RowId : SameAsk(r)
      /\ \A y : OpenRows(rows', y) = OpenRows(rows, y) \ {h}
  BY <1>1, DeliveredIs
<1>3. Fits(h) /\ CallNamesLot(t) /\ x \in Targets \cup {NoTarget}
  BY <1>1, DeliveredIs DEF LotInv
<1>4. /\ rows'[h].status = "delivered" /\ rows'[h].iri = i /\ rows'[h].target = x
      /\ rows'[h].kind = k
      /\ \A r \in RowId : r # h => rows'[r] = rows[r]
  BY <1>1, DeliveredIs
<1>5. ticks'[t].call = "none" /\ \A u \in Tick : u # t => ticks'[u] = ticks[u]
  BY <1>1, DeliveredIs
<1>6. (\A j : Gone(j)' <=> Gone(j)) /\ (\A y : LotsOf(y)' = LotsOf(y))
  BY <1>0 DEF Gone, LotsOf
<1>7. \A u \in Tick : u # t /\ ticks[u].call # "none" =>
          /\ Head(u)' = Head(u) /\ Head(u) \in RowId /\ rows'[Head(u)] = rows[Head(u)]
          /\ x # NoTarget => rows[Head(u)].target # x
  BY <1>1, DeliveredIs
<1>8. \A u \in Tick : \A y, a : u # t /\ Answer(u, y, a) =>
          Answer(u, y, a)' /\ ticks'[u].ref = ticks[u].ref
  BY <1>1, DeliveredIs
<1>9. \A y \in LotTarget : y # x => column'[y] = column[y]
  BY <1>1, DeliveredIs
<1>10. x \in LotTarget =>
          \/ /\ k = "create_lot" /\ column[x] = NoIri /\ column'[x] = i /\ i \in LotsOf(x)
             /\ \A r \in Present(rows) : rows[r].target = NoTarget => rows[r].ref # i
          \/ k = "update_lot" /\ column[x] = i /\ column'[x] = i
          \/ k = "delete_lot" /\ column[x] = i /\ column'[x] = NoIri /\ Gone(i)
  BY <1>1, DeliveredIs
<1>11. \A y \in LotTarget : \A j : NamesLot(y, j) /\ j # NoIri => j = column'[y] \/ Gone(j)
  BY <1>9, <1>10 DEF NamesLot
<1>12. ASSUME NEW y \in LotTarget PROVE CreateFirst(y)'
  <2> SUFFICES ASSUME NEW r \in OpenRows(rows', y), rows'[r].kind = "create_lot"
               PROVE  /\ column'[y] = NoIri
                      /\ \A q \in OpenRows(rows', y) : q # r => r < q /\ rows'[q].ref = NoIri
    BY DEF CreateFirst, OpenRows
  <2>1. r \in RowId /\ r \in OpenRows(rows, y) /\ r # h /\ rows[r].kind = "create_lot"
    BY <1>2, <1>4 DEF OpenRows
  <2>2. /\ column[y] = NoIri
        /\ \A q \in OpenRows(rows, y) : q # r => r < q /\ rows[q].ref = NoIri
    BY <2>1 DEF LotInv, CreateFirst
  <2>3. y # x
    <3> SUFFICES ASSUME y = x PROVE FALSE
      OBVIOUS
    <3>1. r < h
      BY <1>2, <2>1, <2>2
    <3>2. h <= r
      BY <1>0, <1>1, <1>2, <2>1, HeldOldest
    <3> QED
      BY <1>2, <2>1, <3>1, <3>2, OutboxAssumption DEF RowId
  <2>4. \A q \in OpenRows(rows', y) : q \in OpenRows(rows, y) /\ rows'[q] = rows[q]
    BY <1>2, <1>4 DEF OpenRows
  <2> QED
    BY <1>9, <2>2, <2>3, <2>4
<1>13. ASSUME NEW y \in LotTarget PROVE RowNamesLot(y)'
  <2> SUFFICES ASSUME NEW r \in OpenRows(rows', y), rows'[r].kind \in LotChange
               PROVE  /\ rows'[r].ref # NoIri =>
                            rows'[r].ref = column'[y] \/ Gone(rows'[r].ref)
                      /\ rows'[r].dep = NoRow => rows'[r].ref # NoIri
                      /\ rows'[r].dep # NoRow /\ rows'[rows'[r].dep].status = "delivered" =>
                            \/ rows'[rows'[r].dep].iri = column'[y]
                            \/ Gone(rows'[rows'[r].dep].iri)
    BY <1>0 DEF RowNamesLot, OpenRows, NamesLot, Gone
  <2>1. /\ r \in RowId /\ r \in OpenRows(rows, y) /\ rows'[r] = rows[r]
        /\ rows[r].target = y /\ rows[r].status # "absent"
    BY <1>2, <1>4 DEF OpenRows, Open
  <2>2. /\ rows[r].ref # NoIri => NamesLot(y, rows[r].ref)
        /\ rows[r].dep = NoRow => rows[r].ref # NoIri
        /\ rows[r].dep # NoRow /\ rows[rows[r].dep].status = "delivered" =>
              NamesLot(y, rows[rows[r].dep].iri)
    BY <2>1 DEF LotInv, RowNamesLot
  <2>3. ASSUME rows[r].dep # NoRow, rows'[rows[r].dep].status = "delivered"
        PROVE  rows'[rows[r].dep].iri = column'[y] \/ Gone(rows'[rows[r].dep].iri)
    <3>1. PICK d \in RowId : d = rows[r].dep
      BY <1>0, <2>1, <2>3
    <3>2. rows[d].target = y /\ rows[d].status # "absent"
      BY <1>0, <2>1, <2>3, <3>1 DEF OwnInv, RowOwns
    <3>3. CASE d = h
      BY <1>1, <1>4, <1>10, <3>1, <3>2, <3>3
    <3>4. CASE d # h
      <4>1. rows'[d] = rows[d] /\ NamesLot(y, rows[d].iri)
        BY <1>4, <2>2, <2>3, <3>1, <3>4
      <4>2. rows[d].iri # NoIri
        BY <1>0, <2>3, <3>1, <3>2, <4>1 DEF OwnInv, RowOwns, Own
      <4> QED
        BY <1>11, <3>1, <4>1, <4>2
    <3> QED
      BY <3>3, <3>4
  <2> QED
    BY <1>11, <2>1, <2>2, <2>3
<1>14. ASSUME NEW u \in Tick PROVE CallNamesLot(u)'
  <2>1. CASE u = t \/ ticks[u].call = "none"
    BY <1>5, <2>1 DEF CallNamesLot
  <2>2. CASE u # t /\ ticks[u].call # "none"
    <3>1. PICK y, m, j : m = Head(u) /\ y = rows[m].target /\ j = ticks[u].ref
      OBVIOUS
    <3>2. /\ CallNamesLot(u) /\ ticks'[u] = ticks[u] /\ Head(u)' = m /\ rows'[m] = rows[m]
      BY <1>5, <1>7, <2>2, <3>1 DEF LotInv
    <3>3. y \in LotTarget => column'[y] = column[y]
      BY <1>0, <1>7, <1>9, <2>2, <3>1
    <3>4. \A r \in Present(rows) : rows'[r].target = rows[r].target /\ rows'[r].ref = rows[r].ref
      BY <1>2 DEF SameAsk, Present
    <3>5. CallNamesLot(u)' <=>
            /\ y \in LotTarget /\ rows[m].kind \in LotChange =>
                  /\ ticks[u].call = "sent" => j = column'[y] \/ Gone(j)
                  /\ ticks[u].call = "ok" => j = column'[y]
                  /\ ticks[u].call = "ok" /\ rows[m].kind = "delete_lot" => Gone(j)
            /\ y \in LotTarget /\ rows[m].kind = "create_lot" /\ ticks[u].call = "ok" =>
                  /\ j \in LotsOf(y)
                  /\ \A r \in Present(rows') : rows'[r].target = NoTarget => rows'[r].ref # j
            /\ y = NoTarget => /\ ticks[u].call = "sent" => j = rows[m].ref
                               /\ ticks[u].call = "ok" => j = rows[m].ref /\ Gone(j)
      BY <1>0, <3>1, <3>2 DEF CallNamesLot, NamesLot, Gone, LotsOf, Present
    <3> QED
      BY <1>2, <3>1, <3>2, <3>3, <3>4, <3>5 DEF CallNamesLot, NamesLot
  <2> QED
    BY <2>1, <2>2
<1>15. Dropped'
  <2> SUFFICES ASSUME NEW r \in Present(rows), rows'[r].target = NoTarget
               PROVE  /\ \A y \in LotTarget : column'[y] # rows'[r].ref
                      /\ rows'[r].status = "delivered" => Gone(rows'[r].ref)
    BY <1>0, <1>2 DEF Dropped, Gone, Present
  <2>1. r \in RowId /\ rows'[r].ref = rows[r].ref /\ rows[r].target = NoTarget
    BY <1>2 DEF SameAsk, Present
  <2>2. /\ \A y \in LotTarget : column[y] # rows[r].ref
        /\ rows[r].status = "delivered" => Gone(rows[r].ref)
    BY <2>1 DEF LotInv, Dropped
  <2>3. rows[r].ref # NoIri
    BY <1>0, <2>1 DEF SeqInv, FormInv, Fits, Own
  <2>4. \A y \in LotTarget : column'[y] # rows[r].ref
    BY <1>9, <1>10, <2>1, <2>2, <2>3
  <2>5. r = h => Gone(rows[r].ref)
    BY <1>0, <1>1, <1>3, <2>1 DEF CallNamesLot
  <2> QED
    BY <1>4, <2>1, <2>2, <2>4, <2>5
<1>16. ASSUME NEW y \in LotTarget, column'[y] # NoIri
       PROVE  column'[y] \in LotsOf(y) \/ \E u \in Tick : Answer(u, y, "delete_lot")'
  <2>1. column[y] # NoIri =>
          column[y] \in LotsOf(y) \/ \E u \in Tick : Answer(u, y, "delete_lot")
    BY DEF LotInv, ColumnLives
  <2>2. ASSUME column'[y] = column[y], ~(y = x /\ k = "delete_lot")
        PROVE  column[y] \in LotsOf(y) \/ \E u \in Tick : Answer(u, y, "delete_lot")'
    <3>1. ~Answer(t, y, "delete_lot")
      BY <1>1, <2>2 DEF Answer
    <3> QED
      BY <1>8, <1>16, <2>1, <2>2, <3>1
  <2>3. CASE y # x
    BY <1>9, <2>2, <2>3
  <2>4. CASE y = x
    BY <1>10, <1>16, <2>2, <2>4
  <2> QED
    BY <2>3, <2>4
<1>17. ASSUME NEW y \in LotTarget, NEW j \in LotsOf(y)
       PROVE  \/ column'[y] = j
              \/ \E r \in Present(rows) : /\ rows'[r].target = NoTarget /\ rows'[r].ref = j
                                          /\ rows'[r].status # "delivered"
              \/ \E u \in Tick : Answer(u, y, "create_lot")' /\ ticks'[u].ref = j
  <2>0. ~Gone(j) /\ j \in Iri
    BY DEF LotsOf, Gone
  <2>1. CASE column[y] = j
    BY <1>0, <1>9, <1>10, <2>0, <2>1
  <2>2. CASE \E r \in Present(rows) : /\ rows[r].target = NoTarget /\ rows[r].ref = j
                                      /\ rows[r].status # "delivered"
    <3>1. PICK r \in Present(rows) : /\ rows[r].target = NoTarget /\ rows[r].ref = j
                                     /\ rows[r].status # "delivered"
      BY <2>2
    <3>2. r # h
      BY <1>0, <1>1, <1>3, <2>0, <3>1 DEF CallNamesLot
    <3>3. rows'[r] = rows[r]
      BY <1>4, <3>2 DEF Present
    <3> QED
      BY <3>1, <3>3
  <2>3. CASE \E u \in Tick : Answer(u, y, "create_lot") /\ ticks[u].ref = j
    <3>1. Answer(t, y, "create_lot") => y = x /\ k = "create_lot"
      BY <1>1 DEF Answer
    <3> QED
      BY <1>1, <1>8, <1>10, <2>3, <3>1
  <2> QED
    BY <2>1, <2>2, <2>3 DEF LotInv, NoStray
<1>18. ASSUME NEW y \in LotTarget PROVE ColumnLives(y)' /\ NoStray(y)'
  BY <1>2, <1>6, <1>16, <1>17 DEF ColumnLives, NoStray, Present
<1> QED
  BY <1>12, <1>13, <1>14, <1>15, <1>18 DEF LotInv

LEMMA LotStep ==
    ASSUME MaxBackfills = 0, MaxRetries = 0, MaxCrashes = 0, MaxLost = 0,
           SeqInv, LotInv, [LotNext]_lotVars
    PROVE  LotInv'
<1>1. CASE UNCHANGED lotVars
  <2>1. \A t \in Tick : CallNamesLot(t)'
    BY <1>1, CallKept DEF lotVars, vars, SameAsk
  <2> QED
    BY <1>1, <2>1, CalmLots DEF lotVars, vars, SameAsk
<1>2. CASE Command /\ UNCHANGED outside
  BY <1>2, CommandForm, CommandLots DEF SeqInv
<1>3. CASE Delivering /\ UNCHANGED inventory
  BY <1>3, CalmDelivering, AcceptLots, DeliveredLots
<1> QED
  BY <1>1, <1>2, <1>3 DEF LotNext, outside

\* A lot in Part-DB is the lot of its item, or its deletion is on its way, or the answer
\* to its creation is: no command, failure or interleaving leaves one behind, as long as
\* leases outlive ticks, nobody retries by hand and no answer is lost.
THEOREM LotsAreKnown ==
    ASSUME MaxBackfills = 0, MaxOverruns = 0, MaxRetries = 0, MaxCrashes = 0, MaxLost = 0
    PROVE  LotSpec => []NoOrphanLots
<1>1. LotInit => LotInv
  BY LotInvInit
<1>2. SeqInv /\ LotInv /\ [LotNext]_lotVars => LotInv'
  BY LotStep
<1>3. SeqInv /\ LotInv => NoOrphanLots
  BY DEF SeqInv, FormInv, Fits, LotInv, NoStray, NoOrphanLots, Answer
<1> QED
  BY <1>1, <1>2, <1>3, SeqInvariant, PTL DEF LotSpec

-----------------------------------------------------------------------------
(* What a command does to an item, and asks for it.                         *)

\* It leaves the item alone, but for a merge.
Left(y) ==
    /\ Untouched(y) /\ column'[y] = column[y]
    /\ stock'[y].status = stock[y].status /\ stock'[y].qty = stock[y].qty
    /\ stock'[y].part = stock[y].part \/ y \in merged'

\* It changes the amount.
Counted(y) ==
    /\ Stored(y) /\ column'[y] = column[y]
    /\ stock'[y].status = stock[y].status /\ stock'[y].part = stock[y].part
    /\ \E a \in Values : stock'[y].qty = a /\ UpdateAsked(y, a)

\* It makes the item, or gives it another part and drops its lot.
Made(y) ==
    /\ LatestOpen(rows, y) = NoRow /\ column'[y] = NoIri
    /\ \/ stock[y].status = "none" /\ stock'[y].status = "assigned"
       \/ Stored(y) /\ stock'[y].status = stock[y].status /\ column[y] # NoIri
    /\ \E p \in PartTarget, a \in Values :
          stock'[y].part = p /\ stock'[y].qty = a /\ LotAsked(Done, y, p, a)

\* It gives it another part when there is no lot yet.
Moved(y) ==
    /\ LatestOpen(rows, y) = NoRow /\ column[y] = NoIri /\ column'[y] = NoIri
    /\ Stored(y) /\ stock'[y].status = stock[y].status /\ stock'[y].qty = stock[y].qty
    /\ Untouched(y)

Emptied(y) ==
    /\ stock[y].status = "assigned" /\ stock'[y].status = "voided"
    /\ column'[y] = column[y] /\ stock'[y].part = stock[y].part
    /\ IF column[y] = NoIri /\ LatestOpen(rows, y) = NoRow THEN Untouched(y)
       ELSE Requested(Done, DeleteOp(y))

TakenBack(y) ==
    /\ stock[y].status = "assigned" /\ stock'[y].status = "gone"
    /\ LatestOpen(rows, y) = NoRow /\ column'[y] = NoIri /\ Untouched(y)

Story(y) == Left(y) \/ Counted(y) \/ Made(y) \/ Moved(y) \/ Emptied(y) \/ TakenBack(y)

LEMMA CommandStory ==
    ASSUME TypeOK, StockTypes, Gapless(rows), Unborn, MaxBackfills = 0, Command
    PROVE  merged \subseteq merged' /\ \A y \in LotTarget : Story(y)
<1> DEFINE Goal == merged \subseteq merged' /\ \A y \in LotTarget : Story(y)
<1>0. stock \in [LotTarget -> Item] /\ \A y \in LotTarget : y \in Targets
  BY Disjoint DEF StockTypes
<1>1. ASSUME NEW x \in LotTarget, NEW p \in PartTarget, NEW a \in Values, AssignQr(x, p, a)
      PROVE  Goal
  <2> DEFINE i == [status |-> "assigned", part |-> p, qty |-> a, fresh |-> TRUE]
  <2>1. /\ stock' = [stock EXCEPT ![x] = i] /\ UNCHANGED <<column, merged>>
        /\ stock[x].status = "none"
    BY <1>1 DEF AssignQr
  <2>2. i.status = "assigned" /\ i.part = p /\ i.qty = a
    OBVIOUS
  <2> HIDE DEF i
  <2>3. (\A y : y # x /\ y # p => Untouched(y)) /\ LotAsked(Done, x, p, a)
    BY <1>1, DidAssign
  <2>4. LatestOpen(rows, x) = NoRow /\ column[x] = NoIri
    BY <2>1, UnbornIdle DEF Unborn
  <2>5. Made(x)
    BY <1>0, <2>1, <2>2, <2>3, <2>4 DEF Made
  <2>6. \A y \in LotTarget : y # x => Left(y)
    BY <1>0, <2>1, <2>3, Disjoint DEF Left
  <2> QED
    BY <2>1, <2>5, <2>6 DEF Story
<1>2. ASSUME NEW x \in LotTarget, NEW a \in Values, RecordEvent(x, a) PROVE Goal
  <2> DEFINE i == [stock[x] EXCEPT !.qty = a, !.fresh = FALSE]
  <2>1. /\ stock' = [stock EXCEPT ![x] = i] /\ UNCHANGED <<column, merged>> /\ Stored(x)
    BY <1>2 DEF RecordEvent
  <2>2. i.status = stock[x].status /\ i.part = stock[x].part /\ i.qty = a
    BY <1>0 DEF Item
  <2> HIDE DEF i
  <2>3. (\A y : y # x => Untouched(y)) /\ UpdateAsked(x, a)
    BY <1>2, DidRecord
  <2>4. Counted(x)
    BY <1>0, <2>1, <2>2, <2>3 DEF Counted
  <2>5. \A y \in LotTarget : y # x => Left(y)
    BY <1>0, <2>1, <2>3 DEF Left
  <2> QED
    BY <2>1, <2>4, <2>5 DEF Story
<1>3. ASSUME NEW x \in LotTarget, NEW y \in LotTarget, NEW a \in Values, SplitToNew(x, y, a)
      PROVE  Goal
  <2> DEFINE p == stock[x].part
             b == stock[x].qty - a
             i == [stock[x] EXCEPT !.qty = b, !.fresh = FALSE]
             j == [status |-> "assigned", part |-> p, qty |-> a, fresh |-> TRUE]
  <2>1. /\ stock' = [stock EXCEPT ![x] = i, ![y] = j]
        /\ UNCHANGED <<column, merged>> /\ x # y
        /\ Stored(x) /\ p \in PartTarget /\ b \in Values /\ stock[y].status = "none"
    BY <1>3 DEF SplitToNew, StockTypes
  <2>2. i.status = stock[x].status /\ i.part = stock[x].part /\ i.qty = b
        /\ j.status = "assigned" /\ j.part = p /\ j.qty = a
    BY <1>0 DEF Item
  <2>3. /\ \A z : z # x /\ z # y /\ z # p => Untouched(z)
        /\ UpdateAsked(x, b) /\ LotAsked(Done, y, p, a)
    BY <1>3, DidSplitToNew
  <2>4. LatestOpen(rows, y) = NoRow /\ column[y] = NoIri
    BY <2>1, UnbornIdle DEF Unborn
  <2> HIDE DEF p, b, i, j
  <2>5. /\ stock'[x] = i /\ stock'[y] = j
        /\ \A z \in LotTarget : z # x /\ z # y => stock'[z] = stock[z]
    BY <1>0, <2>1
  <2>6. Counted(x) /\ Made(y)
    BY <2>1, <2>2, <2>3, <2>4, <2>5 DEF Counted, Made
  <2>7. \A z \in LotTarget : z # x /\ z # y => Left(z)
    BY <2>1, <2>3, <2>5, Disjoint DEF Left
  <2> QED
    BY <2>1, <2>6, <2>7 DEF Story
<1>4. ASSUME NEW x \in LotTarget, NEW y \in LotTarget, NEW a \in Values, SplitInto(x, y, a)
      PROVE  Goal
  <2> DEFINE b == stock[x].qty - a
             c == stock[y].qty + a
             i == [stock[x] EXCEPT !.qty = b, !.fresh = FALSE]
             j == [stock[y] EXCEPT !.qty = c, !.fresh = FALSE]
  <2>1. /\ stock' = [stock EXCEPT ![x] = i, ![y] = j]
        /\ UNCHANGED <<column, merged>> /\ x # y
        /\ Stored(x) /\ b \in Values /\ Stored(y) /\ c \in Values
    BY <1>4 DEF SplitInto
  <2>2. i.status = stock[x].status /\ i.part = stock[x].part /\ i.qty = b
        /\ j.status = stock[y].status /\ j.part = stock[y].part /\ j.qty = c
    BY <1>0 DEF Item
  <2>3. /\ \A z : z # x /\ z # y => Untouched(z)
        /\ UpdateAsked(x, b) /\ UpdateAsked(y, c)
    BY <1>4, DidSplitInto
  <2> HIDE DEF b, c, i, j
  <2>4. /\ stock'[x] = i /\ stock'[y] = j
        /\ \A z \in LotTarget : z # x /\ z # y => stock'[z] = stock[z]
    BY <1>0, <2>1
  <2>5. Counted(x) /\ Counted(y)
    BY <2>1, <2>2, <2>3, <2>4 DEF Counted
  <2>6. \A z \in LotTarget : z # x /\ z # y => Left(z)
    BY <2>1, <2>3, <2>4 DEF Left
  <2> QED
    BY <2>1, <2>5, <2>6 DEF Story
<1>5. ASSUME NEW x \in LotTarget, VoidQrCode(x) PROVE Goal
  <2> DEFINE i == [stock[x] EXCEPT !.status = "voided", !.fresh = FALSE]
  <2>1. /\ stock' = [stock EXCEPT ![x] = i] /\ UNCHANGED <<column, merged>>
        /\ stock[x].status = "assigned"
    BY <1>5 DEF VoidQrCode
  <2>2. i.status = "voided" /\ i.part = stock[x].part
    BY <1>0 DEF Item
  <2> HIDE DEF i
  <2>3. /\ \A y : y # x => Untouched(y)
        /\ IF column[x] = NoIri /\ LatestOpen(rows, x) = NoRow THEN Untouched(x)
           ELSE Requested(Done, DeleteOp(x))
    BY <1>5, DidVoid
  <2>4. Emptied(x)
    BY <1>0, <2>1, <2>2, <2>3 DEF Emptied
  <2>5. \A y \in LotTarget : y # x => Left(y)
    BY <1>0, <2>1, <2>3 DEF Left
  <2> QED
    BY <2>1, <2>4, <2>5 DEF Story
<1>6. ASSUME NEW x \in LotTarget, ReverseIngest(x) PROVE Goal
  <2> DEFINE i == [NoItem EXCEPT !.status = "gone"]
  <2>1. /\ stock' = [stock EXCEPT ![x] = i] /\ UNCHANGED merged
        /\ stock[x].status = "assigned"
    BY <1>6 DEF ReverseIngest
  <2>2. i.status = "gone"
    BY DEF NoItem
  <2> HIDE DEF i
  <2>3. /\ \A y : y # NoTarget => Untouched(y)
        /\ LatestOpen(rows, x) = NoRow /\ column' = [column EXCEPT ![x] = NoIri]
    BY <1>6, DidReverse
  <2>4. column'[x] = NoIri /\ \A y \in LotTarget : y # x => column'[y] = column[y]
    BY <1>0, <2>3 DEF TypeOK
  <2>5. TakenBack(x)
    BY <1>0, <2>1, <2>2, <2>3, <2>4, Disjoint DEF TakenBack
  <2>6. \A y \in LotTarget : y # x => Left(y)
    BY <1>0, <2>1, <2>3, <2>4, Disjoint DEF Left
  <2> QED
    BY <2>1, <2>5, <2>6 DEF Story
<1>7. ASSUME NEW x \in LotTarget, NEW p \in PartTarget, ReassignPartType(x, p) PROVE Goal
  <2> DEFINE i == [stock[x] EXCEPT !.part = p]
  <2>1. stock' = [stock EXCEPT ![x] = i] /\ UNCHANGED merged /\ Stored(x)
    BY <1>7 DEF ReassignPartType
  <2>2. i.status = stock[x].status /\ i.part = p /\ i.qty = stock[x].qty
        /\ stock[x].qty \in Values
    BY <1>0 DEF Item
  <2> HIDE DEF i
  <2>3. /\ LatestOpen(rows, x) = NoRow
        /\ column[x] = NoIri => UNCHANGED column /\ \A z : Untouched(z)
        /\ column[x] # NoIri =>
              /\ column' = [column EXCEPT ![x] = NoIri]
              /\ \A z : z # x /\ z # p /\ z # NoTarget => Untouched(z)
              /\ LotAsked(Done, x, p, stock[x].qty)
    BY <1>7, DidReassign
  <2>4. column'[x] = NoIri /\ \A y \in LotTarget : y # x => column'[y] = column[y]
    BY <1>0, <2>3 DEF TypeOK
  <2>5. column[x] = NoIri => Moved(x)
    BY <1>0, <2>1, <2>2, <2>3, <2>4 DEF Moved
  <2>6. column[x] # NoIri => Made(x)
    BY <1>0, <2>1, <2>2, <2>3, <2>4 DEF Made
  <2>7. \A y \in LotTarget : y # x => Left(y)
    BY <1>0, <2>1, <2>3, <2>4, Disjoint DEF Left
  <2> QED
    BY <2>1, <2>5, <2>6, <2>7 DEF Story
<1>8. ASSUME NEW p \in PartTarget, NEW def \in Definitions, EditPartType(p, def) PROVE Goal
  <2>1. UNCHANGED <<stock, column, merged>> /\ \A y : y # p => Untouched(y)
    BY <1>8, DidEdit DEF EditPartType
  <2> QED
    BY <2>1, Disjoint DEF Left, Story
<1>9. ASSUME NEW p \in PartTarget, NEW q \in PartTarget, MergePartTypes(p, q) PROVE Goal
  <2> DEFINE m == {x \in LotTarget : stock[x].part = p}
  <2>1. /\ stock' = [x \in LotTarget |-> IF x \in m THEN [stock[x] EXCEPT !.part = q] ELSE stock[x]]
        /\ merged' = merged \cup m /\ UNCHANGED column /\ \A y : Untouched(y)
    BY <1>9, DidMerge DEF MergePartTypes
  <2> HIDE DEF m
  <2>2. ASSUME NEW y \in LotTarget PROVE Left(y)
    <3>1. stock[y] \in Item
      BY <1>0
    <3>2. y \in m => stock'[y] = [stock[y] EXCEPT !.part = q]
      BY <2>1
    <3>3. y \notin m => stock'[y] = stock[y]
      BY <2>1
    <3> QED
      BY <2>1, <3>1, <3>2, <3>3 DEF Left, Item
  <2> QED
    BY <2>1, <2>2 DEF Story
<1>10. ~Backfill
  <2>1. Backfill => backfills < MaxBackfills
    BY Zenon DEF Backfill
  <2>2. ~(backfills < MaxBackfills)
    BY DEF StockTypes
  <2> QED
    BY <2>1, <2>2
<1> QED
  BY <1>1, <1>2, <1>3, <1>4, <1>5, <1>6, <1>7, <1>8, <1>9, <1>10 DEF Command

-----------------------------------------------------------------------------
(* What Part-DB is told of an item in the end, as long as no answer is lost: *)
(* the newest row carries what the inventory says, rows are closed in the    *)
(* order they were made, and a lot bears what the last row delivered said.   *)

\* No row of x was given up.
Sound(x) == \A r \in RowsFor(x) : rows[r].status # "dead"

\* A row of x is closed after the older ones.
DoneFirst(x) ==
    \A q, r \in RowsFor(x) : q < r /\ rows[r].status \notin Open => rows[q].status \notin Open

\* Nothing is open for an item taken back, and only one that is gone is ever deleted.
Life(x) ==
    /\ stock[x].status = "gone" => OpenRows(rows, x) = {}
    /\ \A r \in RowsFor(x) : rows[r].kind = "delete_lot" => stock[x].status \in {"voided", "gone"}

\* The newest row says the amount, and there is a lot or one is on its way.
Latest(x) ==
    Sound(x) /\ stock[x].status = "assigned" /\ x \notin ignored =>
        /\ \E n \in RowsFor(x) : /\ \A q \in RowsFor(x) : q <= n
                                 /\ rows[n].kind # "delete_lot" /\ rows[n].val = stock[x].qty
        /\ column[x] = NoIri => OpenRows(rows, x) # {}

\* The lot of a voided item is to be deleted.
Voiding(x) ==
    Sound(x) /\ stock[x].status = "voided"
        /\ (column[x] # NoIri \/ \E r \in OpenRows(rows, x) : rows[r].kind = "create_lot") =>
    \E r \in OpenRows(rows, x) : rows[r].kind = "delete_lot"

\* The lot bears the amount of the last row delivered, unless a later update is answered.
LastDone(x, d) ==
    /\ d \in RowsFor(x) /\ rows[d].status = "delivered" /\ rows[d].kind # "delete_lot"
    /\ \A q \in RowsFor(x) : rows[q].status = "delivered" => q <= d

Content(x) ==
    column[x] # NoIri =>
        \E d \in RowId : /\ LastDone(x, d)
                         /\ \/ remote[column[x]].val = rows[d].val
                            \/ \E t \in Tick : Answer(t, x, "update_lot")

CallVal(t) ==
    ticks[t].call = "ok" /\ rows[Head(t)].kind \in {"create_lot", "update_lot"} =>
        remote[ticks[t].ref].val = rows[Head(t)].val

\* Lot i lies under the part of x.
OfPart(x, i) == x \notin merged => Own(stock[x].part, remote[i].part)

\* The lot that is to be made will lie there.
ToPart(x, r) ==
    IF rows[r].ref # NoIri THEN Own(stock[x].part, rows[r].ref)
    ELSE /\ rows[r].dep \in Present(rows)
         /\ rows[rows[r].dep].target = stock[x].part

RowPart(x) ==
    /\ column[x] # NoIri => OfPart(x, column[x])
    /\ \A r \in OpenRows(rows, x) :
          rows[r].kind = "create_lot" /\ x \notin merged => ToPart(x, r)

CallPart(t) ==
    LET x == rows[Head(t)].target
    IN  x \in LotTarget /\ rows[Head(t)].kind = "create_lot" =>
            /\ ticks[t].call = "sent" /\ x \notin merged => Own(stock[x].part, ticks[t].ref)
            /\ ticks[t].call = "ok" => OfPart(x, ticks[t].ref)

History == \A x \in LotTarget : DoneFirst(x) /\ Life(x)
Amounts == /\ \A x \in LotTarget : Latest(x) /\ Voiding(x) /\ Content(x)
           /\ \A t \in Tick : CallVal(t)
Places == (\A x \in LotTarget : RowPart(x)) /\ \A t \in Tick : CallPart(t)

MirrorInv == History /\ Amounts /\ Places

LEMMA MirrorInit == LotInit => MirrorInv
<1> SUFFICES ASSUME LotInit PROVE MirrorInv
  OBVIOUS
<1>1. /\ Present(rows) = {} /\ (\A x : OpenRows(rows, x) = {}) /\ \A x : RowsFor(x) = {}
  BY DEF LotInit, Init, Present, RowOf, OpenRows, Open, RowsFor
<1>2. \A x \in LotTarget : column[x] = NoIri /\ stock[x].status = "none"
  BY Disjoint DEF LotInit, Init, NoItem
<1>3. \A t \in Tick : ticks[t].call = "none"
  BY DEF LotInit, Init, IdleTick
<1>4. History
  BY <1>1, <1>2 DEF History, DoneFirst, Life
<1>5. Amounts
  BY <1>1, <1>2, <1>3 DEF Amounts, Latest, Voiding, Content, CallVal
<1>6. Places
  BY <1>1, <1>2, <1>3 DEF Places, RowPart, CallPart
<1> QED
  BY <1>4, <1>5, <1>6 DEF MirrorInv

-----------------------------------------------------------------------------
(* Commands.                                                                *)

\* A command adds the rows of a target after the ones there are.
LEMMA RowsExtend ==
    ASSUME TypeOK, Gapless(rows), Asks, NEW x
    PROVE  /\ RowsFor(x)' = RowsFor(x) \cup NewIn(rows', x)
           /\ OpenRows(rows', x) = OpenRows(rows, x) \cup NewIn(rows', x)
           /\ \A r \in RowsFor(x) : /\ r \in RowId /\ rows'[r] = rows[r]
                                    /\ r \notin NewIn(rows', x)
           /\ \A n \in NewIn(rows', x) : /\ n \in RowId /\ rows'[n].status = "pending"
                                         /\ \A q \in RowsFor(x) : q < n
<1>0. TX(Done)
  BY DEF Asks
<1>1. \A r \in RowId : rows[r].status # "absent" => rows'[r] = rows[r]
  BY <1>0, DoneTypes DEF Grown
<1>2. \A n \in NewIn(rows', x) : /\ n \in RowId /\ rows'[n].status = "pending"
                                 /\ \A q \in Present(rows) : q < n
  BY NewRows DEF NewIn
<1>3. RowsFor(x)' = {r \in RowId : rows'[r].status # "absent" /\ rows'[r].target = x}
  BY DEF RowsFor, Present
<1>4. \A r \in RowId : r \in RowsFor(x)' <=> r \in RowsFor(x) \/ r \in NewIn(rows', x)
  BY <1>1, <1>3 DEF RowsFor, Present, NewIn
<1>5. RowsFor(x) \subseteq RowId /\ RowsFor(x)' \subseteq RowId /\ NewIn(rows', x) \subseteq RowId
  BY <1>3 DEF RowsFor, Present, NewIn
<1>6. \A r \in RowId : r \in OpenRows(rows', x)
                          <=> r \in OpenRows(rows, x) \/ r \in NewIn(rows', x)
  BY <1>1, <1>2 DEF OpenRows, NewIn, Open
<1>7. OpenRows(rows, x) \subseteq RowId /\ OpenRows(rows', x) \subseteq RowId
  BY DEF OpenRows
<1> QED
  BY <1>1, <1>2, <1>4, <1>5, <1>6, <1>7 DEF RowsFor, Present, NewIn

\* What a command writes for an item.
Quiet(x) == NewIn(rows', x) = {} /\ (x \in ignored' <=> x \in ignored)
Dropping(x) == NewIn(rows', x) = {} /\ x \in ignored'
Written(x, n, kind) == /\ NewIn(rows', x) = {n} /\ n \in RowId
                       /\ rows'[n].kind = kind /\ x \notin ignored'

LEMMA StoryRows ==
    ASSUME TX(Done), NEW x \in LotTarget
    PROVE  /\ Left(x) => Quiet(x)
           /\ Counted(x) =>
                 \/ ~HasLot(x) /\ Quiet(x)
                 \/ Dropping(x)
                 \/ \E n : Written(x, n, "update_lot") /\ rows'[n].val = stock'[x].qty
           /\ Made(x) =>
                 \/ Dropping(x)
                 \/ \E n : /\ Written(x, n, "create_lot") /\ rows'[n].val = stock'[x].qty
                           /\ \E p \in PartTarget :
                                 /\ stock'[x].part = p /\ rows'[n].ref = column[p]
                                 /\ column[p] = NoIri => /\ rows'[n].dep \in Present(rows')
                                                         /\ rows'[rows'[n].dep].target = p
           /\ Moved(x) => Quiet(x)
           /\ Emptied(x) =>
                 \/ ~HasLot(x) /\ Quiet(x)
                 \/ Dropping(x) /\ \E r \in RowsFor(x) : rows[r].kind = "delete_lot"
                 \/ \E n : Written(x, n, "delete_lot")
           /\ TakenBack(x) => Quiet(x)
<1>1. Untouched(x) => Quiet(x)
  BY AskedRows DEF Quiet
<1>2. ASSUME NEW op, op.target = x, Requested(Done, op)
      PROVE  \/ Dropping(x) /\ Known(op)
             \/ \E n \in RowId : /\ NewIn(rows', x) = {n} /\ rows'[n] = RowOf(op, "pending")
                                 /\ x \notin ignored'
  BY <1>2, AskedRows DEF Dropping
<1>3. ASSUME Counted(x)
      PROVE  \/ ~HasLot(x) /\ Quiet(x)
             \/ Dropping(x)
             \/ \E n : Written(x, n, "update_lot") /\ rows'[n].val = stock'[x].qty
  <2>1. PICK a \in Values : stock'[x].qty = a /\ UpdateAsked(x, a)
    BY <1>3 DEF Counted
  <2>2. CASE HasLot(x)
    <3>1. Requested(Done, UpdateOp(x, a)) /\ UpdateOp(x, a).target = x
      BY <2>1, <2>2, OperationTargets DEF UpdateAsked, HasLot
    <3>2. CASE \E n \in RowId : /\ NewIn(rows', x) = {n} /\ x \notin ignored'
                                /\ rows'[n] = RowOf(UpdateOp(x, a), "pending")
      BY <2>1, <3>2, UpdateFields DEF Written
    <3> QED
      BY <1>2, <3>1, <3>2
  <2>3. CASE ~HasLot(x)
    BY <1>1, <2>1, <2>3 DEF UpdateAsked, HasLot
  <2> QED
    BY <2>2, <2>3
<1>4. ASSUME Made(x)
      PROVE  \/ Dropping(x)
             \/ \E n : /\ Written(x, n, "create_lot") /\ rows'[n].val = stock'[x].qty
                       /\ \E p \in PartTarget :
                             /\ stock'[x].part = p /\ rows'[n].ref = column[p]
                             /\ column[p] = NoIri => /\ rows'[n].dep \in Present(rows')
                                                     /\ rows'[rows'[n].dep].target = p
  <2>1. PICK p \in PartTarget, a \in Values :
           stock'[x].part = p /\ stock'[x].qty = a /\ LotAsked(Done, x, p, a)
    BY <1>4 DEF Made
  <2>2. PICK d \in RowId \cup {NoRow} :
           /\ Requested(Done, LotOp(x, p, d, a))
           /\ IF column[p] # NoIri THEN d = NoRow ELSE d \in Present(rows') /\ rows'[d].target = p
    BY <2>1, DoneTypes DEF LotAsked
  <2>3. LotOp(x, p, d, a).target = x
    BY OperationTargets
  <2>4. CASE \E n \in RowId : /\ NewIn(rows', x) = {n} /\ x \notin ignored'
                              /\ rows'[n] = RowOf(LotOp(x, p, d, a), "pending")
    BY <2>1, <2>2, <2>4, LotFields DEF Written
  <2> QED
    BY <1>2, <2>2, <2>3, <2>4
<1>5. ASSUME Emptied(x)
      PROVE  \/ ~HasLot(x) /\ Quiet(x)
             \/ Dropping(x) /\ \E r \in RowsFor(x) : rows[r].kind = "delete_lot"
             \/ \E n : Written(x, n, "delete_lot")
  <2>1. CASE HasLot(x)
    <3>1. Requested(Done, DeleteOp(x)) /\ DeleteOp(x).target = x /\ DeleteOp(x).kind = "delete_lot"
      BY <1>5, <2>1, OperationTargets DEF Emptied, HasLot, DeleteOp, Op
    <3>2. CASE \E n \in RowId : /\ NewIn(rows', x) = {n} /\ x \notin ignored'
                                /\ rows'[n] = RowOf(DeleteOp(x), "pending")
      BY <3>2, DeleteFields DEF Written
    <3>3. Known(DeleteOp(x)) => \E r \in RowsFor(x) : rows[r].kind = "delete_lot"
      BY <3>1 DEF Known, RowsFor
    <3> QED
      BY <1>2, <3>1, <3>2, <3>3
  <2>2. CASE ~HasLot(x)
    BY <1>1, <1>5, <2>2 DEF Emptied, HasLot
  <2> QED
    BY <2>1, <2>2
<1> QED
  BY <1>1, <1>3, <1>4, <1>5 DEF Left, Moved, TakenBack

LEMMA CommandHistory ==
    ASSUME TypeOK, Gapless(rows), Asks, NEW x \in LotTarget, Story(x), DoneFirst(x), Life(x)
    PROVE  DoneFirst(x)' /\ Life(x)'
<1>0. TX(Done) /\ "pending" \in Open
  BY DEF Asks, Open
<1>1. /\ RowsFor(x)' = RowsFor(x) \cup NewIn(rows', x)
      /\ OpenRows(rows', x) = OpenRows(rows, x) \cup NewIn(rows', x)
      /\ \A r \in RowsFor(x) : r \in RowId /\ rows'[r] = rows[r] /\ r \notin NewIn(rows', x)
      /\ \A n \in NewIn(rows', x) : /\ n \in RowId /\ rows'[n].status = "pending"
                                    /\ \A q \in RowsFor(x) : q < n
  BY RowsExtend
<1>2. ASSUME NEW q \in RowsFor(x)', NEW r \in RowsFor(x)', q < r, rows'[r].status \notin Open
      PROVE  rows'[q].status \notin Open
  <2>1. r \in RowsFor(x)
    BY <1>0, <1>1, <1>2
  <2>2. q \in RowsFor(x)
    <3>1. q \in NewIn(rows', x) => r < q /\ q \in RowId /\ r \in RowId
      BY <1>1, <2>1
    <3> QED
      BY <1>1, <1>2, <3>1, OutboxAssumption DEF RowId
  <2> QED
    BY <1>1, <1>2, <2>1, <2>2 DEF DoneFirst
<1>3. stock'[x].status = "gone" => OpenRows(rows', x) = {}
  <2>1. CASE Left(x)
    BY <1>0, <1>1, <2>1, StoryRows DEF Left, Life, Quiet
  <2>2. CASE TakenBack(x)
    BY <1>0, <1>1, <2>2, StoryRows, NoneOpen DEF TakenBack, Quiet
  <2>3. CASE Counted(x) \/ Made(x) \/ Moved(x) \/ Emptied(x)
    BY <2>3 DEF Counted, Made, Moved, Emptied, Stored
  <2> QED
    BY <2>1, <2>2, <2>3 DEF Story
<1>4. ASSUME NEW r \in RowsFor(x)', rows'[r].kind = "delete_lot"
      PROVE  stock'[x].status \in {"voided", "gone"}
  <2>1. CASE r \in RowsFor(x)
    <3>1. stock[x].status \in {"voided", "gone"}
      BY <1>1, <1>4, <2>1 DEF Life
    <3> QED
      BY <3>1 DEF Story, Left, Counted, Made, Moved, Emptied, TakenBack, Stored
  <2>2. CASE r \in NewIn(rows', x)
    <3>1. Emptied(x)
      BY <1>0, <1>4, <2>2, StoryRows DEF Story, Quiet, Dropping, Written
    <3> QED
      BY <3>1 DEF Emptied
  <2> QED
    BY <1>1, <1>4, <2>1, <2>2
<1> QED
  BY <1>2, <1>3, <1>4 DEF DoneFirst, Life

\* Without a lot and without an open row, an assigned item is one whose request was dropped.
LEMMA LotWanted ==
    ASSUME NEW x \in LotTarget, Latest(x), Sound(x), stock[x].status = "assigned", x \notin ignored
    PROVE  HasLot(x)
  BY NoneOpen DEF Latest, HasLot

LEMMA CommandLatest ==
    ASSUME TypeOK, Gapless(rows), Asks, NEW x \in LotTarget, Story(x), Latest(x)
    PROVE  Latest(x)'
<1>0. TX(Done) /\ "pending" \in Open
  BY DEF Asks, Open
<1>1. /\ RowsFor(x)' = RowsFor(x) \cup NewIn(rows', x)
      /\ OpenRows(rows', x) = OpenRows(rows, x) \cup NewIn(rows', x)
      /\ \A r \in RowsFor(x) : r \in RowId /\ rows'[r] = rows[r] /\ r \notin NewIn(rows', x)
      /\ \A n \in NewIn(rows', x) : /\ n \in RowId /\ rows'[n].status = "pending"
                                    /\ \A q \in RowsFor(x) : q < n
  BY RowsExtend
<1> SUFFICES ASSUME Sound(x)', stock'[x].status = "assigned", x \notin ignored'
             PROVE  /\ \E n \in RowsFor(x)' : /\ \A q \in RowsFor(x)' : q <= n
                                              /\ rows'[n].kind # "delete_lot"
                                              /\ rows'[n].val = stock'[x].qty
                    /\ column'[x] = NoIri => OpenRows(rows', x) # {}
  BY DEF Latest, OpenRows
<1>2. Sound(x)
  BY <1>1 DEF Sound
<1>3. ASSUME NEW n, NEW kind, Written(x, n, kind), kind # "delete_lot", rows'[n].val = stock'[x].qty
      PROVE  /\ \E m \in RowsFor(x)' : /\ \A q \in RowsFor(x)' : q <= m
                                       /\ rows'[m].kind # "delete_lot"
                                       /\ rows'[m].val = stock'[x].qty
             /\ OpenRows(rows', x) # {}
  <2>1. n \in NewIn(rows', x) /\ n \in RowsFor(x)' /\ n \in OpenRows(rows', x)
    BY <1>1, <1>3 DEF Written
  <2>2. \A q \in RowsFor(x)' : q \in RowId /\ n \in RowId /\ (q = n \/ q < n)
    BY <1>1, <1>3 DEF Written
  <2>3. \A q \in RowsFor(x)' : q <= n
    BY <2>2, OutboxAssumption DEF RowId
  <2> QED
    BY <1>3, <2>1, <2>3 DEF Written
<1>4. CASE Left(x)
  <2>1. /\ Quiet(x) /\ stock[x].status = "assigned" /\ stock'[x].qty = stock[x].qty
        /\ column'[x] = column[x]
    BY <1>0, <1>4, StoryRows DEF Left
  <2>2. /\ x \notin ignored /\ RowsFor(x)' = RowsFor(x) /\ OpenRows(rows', x) = OpenRows(rows, x)
    BY <1>1, <2>1 DEF Quiet
  <2>3. /\ \E n \in RowsFor(x) : /\ \A q \in RowsFor(x) : q <= n
                                 /\ rows[n].kind # "delete_lot" /\ rows[n].val = stock[x].qty
        /\ column[x] = NoIri => OpenRows(rows, x) # {}
    BY <1>2, <2>1, <2>2 DEF Latest
  <2> QED
    BY <1>1, <2>1, <2>2, <2>3
<1>5. CASE Counted(x)
  <2>1. stock[x].status = "assigned"
    BY <1>5 DEF Counted
  <2>2. ~(~HasLot(x) /\ Quiet(x))
    BY <1>2, <2>1, LotWanted DEF Quiet
  <2>3. \E n : Written(x, n, "update_lot") /\ rows'[n].val = stock'[x].qty
    BY <1>0, <1>5, <2>2, StoryRows DEF Dropping
  <2> QED
    BY <1>3, <2>3
<1>6. CASE Made(x)
  <2>1. \E n : Written(x, n, "create_lot") /\ rows'[n].val = stock'[x].qty
    BY <1>0, <1>6, StoryRows DEF Dropping
  <2> QED
    BY <1>3, <2>1
<1>7. ~Moved(x)
  <2>1. Moved(x) => Quiet(x) /\ stock[x].status = "assigned" /\ ~HasLot(x)
    BY <1>0, StoryRows DEF Moved, HasLot
  <2> QED
    BY <1>2, <2>1, LotWanted DEF Quiet
<1> QED
  BY <1>4, <1>5, <1>6, <1>7 DEF Story, Emptied, TakenBack

LEMMA CommandVoiding ==
    ASSUME TypeOK, Gapless(rows), Asks, NEW x \in LotTarget, Story(x), Voiding(x), Life(x)
    PROVE  Voiding(x)'
<1>0. TX(Done) /\ "pending" \in Open
  BY DEF Asks, Open
<1>1. /\ RowsFor(x)' = RowsFor(x) \cup NewIn(rows', x)
      /\ OpenRows(rows', x) = OpenRows(rows, x) \cup NewIn(rows', x)
      /\ \A r \in RowsFor(x) : r \in RowId /\ rows'[r] = rows[r] /\ r \notin NewIn(rows', x)
      /\ \A n \in NewIn(rows', x) : /\ n \in RowId /\ rows'[n].status = "pending"
                                    /\ \A q \in RowsFor(x) : q < n
  BY RowsExtend
<1> SUFFICES ASSUME Sound(x)', stock'[x].status = "voided",
                    \/ column'[x] # NoIri
                    \/ \E r \in OpenRows(rows', x) : rows'[r].kind = "create_lot"
             PROVE  \E r \in OpenRows(rows', x) : rows'[r].kind = "delete_lot"
  BY DEF Voiding, OpenRows
<1>2. Sound(x)
  BY <1>1 DEF Sound
<1>3. \A r \in OpenRows(rows, x) : rows'[r] = rows[r]
  <2>1. \A r \in OpenRows(rows, x) : r \in RowsFor(x)
    BY DEF OpenRows, RowsFor, Present, Open
  <2> QED
    BY <1>1, <2>1
<1>4. ASSUME column'[x] = column[x], stock[x].status = "voided",
             \A n \in NewIn(rows', x) : rows'[n].kind # "create_lot"
      PROVE  \E r \in OpenRows(rows', x) : rows'[r].kind = "delete_lot"
  <2>1. column[x] # NoIri \/ \E r \in OpenRows(rows, x) : rows[r].kind = "create_lot"
    BY <1>1, <1>3, <1>4
  <2>2. \E r \in OpenRows(rows, x) : rows[r].kind = "delete_lot"
    BY <1>2, <1>4, <2>1 DEF Voiding
  <2> QED
    BY <1>1, <1>3, <2>2
<1>5. CASE Left(x)
  BY <1>0, <1>4, <1>5, StoryRows DEF Left, Quiet
<1>6. CASE Counted(x)
  <2>1. \A n \in NewIn(rows', x) : rows'[n].kind # "create_lot"
    BY <1>0, <1>6, StoryRows DEF Quiet, Dropping, Written
  <2> QED
    BY <1>4, <1>6, <2>1 DEF Counted
<1>7. ~Made(x)
  <2>1. Made(x) => /\ OpenRows(rows, x) = {} /\ stock[x].status = "voided" /\ column[x] # NoIri
    BY NoneOpen DEF Made
  <2> QED
    BY <1>2, <2>1 DEF Voiding
<1>8. ~Moved(x)
  <2>1. Moved(x) => OpenRows(rows, x) = {} /\ NewIn(rows', x) = {} /\ column'[x] = NoIri
    BY <1>0, StoryRows, NoneOpen DEF Moved, Quiet
  <2> QED
    BY <1>1, <2>1
<1>9. CASE Emptied(x)
  <2>1. stock[x].status = "assigned" /\ column'[x] = column[x]
    BY <1>9 DEF Emptied
  <2>2. ~(~HasLot(x) /\ Quiet(x))
    <3>1. ~HasLot(x) => column[x] = NoIri /\ OpenRows(rows, x) = {}
      BY NoneOpen DEF HasLot
    <3> QED
      BY <1>1, <2>1, <3>1 DEF Quiet
  <2>3. ~\E r \in RowsFor(x) : rows[r].kind = "delete_lot"
    BY <2>1 DEF Life
  <2>4. \E n : Written(x, n, "delete_lot")
    BY <1>0, <1>9, <2>2, <2>3, StoryRows
  <2> QED
    BY <1>1, <2>4 DEF Written
<1> QED
  BY <1>5, <1>6, <1>7, <1>8, <1>9 DEF Story, TakenBack

\* A command adds nothing a lot or a call bears.
LEMMA CommandContent ==
    ASSUME DepInv, Gapless(rows), Asks, UNCHANGED outside, NEW x \in LotTarget, Story(x), Content(x)
    PROVE  Content(x)'
<1>0. /\ TX(Done) /\ TypeOK /\ "pending" # "delivered" /\ remote' = remote /\ ticks' = ticks
      /\ \A t \in Tick : \A k : Answer(t, x, k)' <=> Answer(t, x, k)
  <2>1. TX(Done) /\ TypeOK /\ remote' = remote /\ ticks' = ticks
    BY DEF Asks, DepInv, TypeInv, outside
  <2>2. \A t \in Tick : /\ Head(t)' = Head(t)
                       /\ ticks[t].call # "none" => rows'[Head(t)] = rows[Head(t)]
    BY <2>1, HeldStay
  <2>3. ASSUME NEW t \in Tick, NEW k PROVE Answer(t, x, k)' <=> Answer(t, x, k)
    <3>1. ticks'[t] = ticks[t] /\ Head(t)' = Head(t)
      BY DEF outside, Head
    <3>2. CASE ticks[t].call = "none"
      BY <3>1, <3>2 DEF Answer
    <3>3. CASE ticks[t].call # "none"
      BY <2>2, <3>1, <3>3 DEF Answer
    <3> QED
      BY <3>2, <3>3
  <2> QED
    BY <2>1, <2>3
<1>1. /\ RowsFor(x)' = RowsFor(x) \cup NewIn(rows', x)
      /\ \A r \in RowsFor(x) : r \in RowId /\ rows'[r] = rows[r] /\ r \notin NewIn(rows', x)
      /\ \A n \in NewIn(rows', x) : n \in RowId /\ rows'[n].status = "pending"
  BY <1>0, RowsExtend
<1>2. column'[x] = NoIri \/ column'[x] = column[x]
  BY DEF Story, Left, Counted, Made, Moved, Emptied, TakenBack
<1> SUFFICES ASSUME column'[x] # NoIri
             PROVE  \E d \in RowId : /\ LastDone(x, d)'
                                     /\ \/ remote'[column'[x]].val = rows'[d].val
                                        \/ \E t \in Tick : Answer(t, x, "update_lot")'
  BY DEF Content
<1>3. PICK d \in RowId : /\ LastDone(x, d)
                         /\ \/ remote[column[x]].val = rows[d].val
                            \/ \E t \in Tick : Answer(t, x, "update_lot")
  BY <1>2 DEF Content
<1>4. LastDone(x, d)'
  BY <1>0, <1>1, <1>3 DEF LastDone
<1>5. rows'[d] = rows[d]
  BY <1>1, <1>3 DEF LastDone
<1> QED
  BY <1>0, <1>2, <1>3, <1>4, <1>5

LEMMA CommandCalls ==
    ASSUME DepInv, TX(Done), UNCHANGED outside, NEW t \in Tick, CallVal(t)
    PROVE  CallVal(t)'
<1>1. /\ Head(t)' = Head(t) /\ (ticks[t].call # "none" => rows'[Head(t)] = rows[Head(t)])
      /\ remote' = remote /\ ticks' = ticks
  BY HeldStay DEF outside
<1> QED
  BY <1>1 DEF CallVal

\* Nor does it put an open row, a lot or a call under another part.
LEMMA CommandParts ==
    ASSUME SeqInv, Asks, UNCHANGED outside, NEW x \in LotTarget, Story(x), RowPart(x),
           merged \subseteq merged'
    PROVE  RowPart(x)'
<1>0. /\ TX(Done) /\ TypeOK /\ OwnInv /\ Gapless(rows) /\ remote' = remote
      /\ \A r \in RowId : rows[r].dep \in RowId \cup {NoRow}
  BY OwnFields DEF Asks, SeqInv, FormInv, DepInv, TypeInv, outside
<1>1. /\ OpenRows(rows', x) = OpenRows(rows, x) \cup NewIn(rows', x)
      /\ \A r \in RowId : rows[r].status # "absent" => rows'[r] = rows[r]
  BY <1>0, RowsExtend, DoneTypes DEF Grown
<1>2. \A p, i : Own(p, i)' <=> Own(p, i)
  BY <1>0 DEF Own
<1>3. x \in merged' \/ stock'[x].part = stock[x].part \/ OpenRows(rows, x) = {}
  BY NoneOpen DEF Story, Left, Counted, Made, Moved, Emptied, TakenBack
<1>4. ASSUME column'[x] # NoIri PROVE OfPart(x, column[x])' /\ column'[x] = column[x]
  <2>1. Left(x) \/ Counted(x) \/ Emptied(x)
    BY <1>4 DEF Story, Made, Moved, TakenBack
  <2>2. column'[x] = column[x] /\ (x \in merged' \/ stock'[x].part = stock[x].part)
    BY <2>1 DEF Left, Counted, Emptied
  <2>3. OfPart(x, column[x])
    BY <1>4, <2>2 DEF RowPart
  <2> QED
    BY <1>0, <1>2, <2>2, <2>3 DEF OfPart
<1>5. ASSUME NEW r \in OpenRows(rows', x), rows'[r].kind = "create_lot", x \notin merged'
      PROVE  ToPart(x, r)'
  <2>1. CASE r \in OpenRows(rows, x)
    <3>1. r \in RowId /\ rows'[r] = rows[r] /\ stock'[x].part = stock[x].part /\ x \notin merged
      BY <1>1, <1>3, <1>5, <2>1 DEF OpenRows, Open
    <3>2. ToPart(x, r)
      BY <1>5, <2>1, <3>1 DEF RowPart
    <3>3. rows[r].dep \in Present(rows) =>
             rows[r].dep \in Present(rows') /\ rows'[rows[r].dep] = rows[rows[r].dep]
      BY <1>1 DEF Present
    <3> QED
      BY <1>2, <3>1, <3>2, <3>3 DEF ToPart
  <2>2. CASE r \in NewIn(rows', x)
    <3>1. Made(x) /\ Written(x, r, "create_lot")
          /\ \E p \in PartTarget :
                /\ stock'[x].part = p /\ rows'[r].ref = column[p]
                /\ column[p] = NoIri => /\ rows'[r].dep \in Present(rows')
                                        /\ rows'[rows'[r].dep].target = p
      BY <1>0, <1>5, <2>2, StoryRows DEF Story, Quiet, Dropping, Written
    <3>2. PICK p \in PartTarget :
                /\ stock'[x].part = p /\ rows'[r].ref = column[p]
                /\ column[p] = NoIri => /\ rows'[r].dep \in Present(rows')
                                        /\ rows'[rows'[r].dep].target = p
      BY <3>1
    <3>3. column[p] # NoIri => Own(p, column[p])
      BY <1>0, Disjoint DEF OwnInv, ColumnOwns
    <3> QED
      BY <1>2, <3>2, <3>3 DEF ToPart
  <2> QED
    BY <1>1, <1>5, <2>1, <2>2
<1> QED
  BY <1>4, <1>5 DEF RowPart, OpenRows

LEMMA CommandCallPart ==
    ASSUME SeqInv, Asks, UNCHANGED outside, NEW t \in Tick, CallPart(t),
           \A x \in LotTarget : Story(x),
           merged \subseteq merged'
    PROVE  CallPart(t)'
<1>0. /\ TX(Done) /\ DepInv /\ remote' = remote /\ ticks' = ticks
  BY DEF Asks, SeqInv, FormInv, outside
<1>1. CASE ticks[t].call = "none"
  BY <1>0, <1>1 DEF CallPart
<1>2. CASE ticks[t].call # "none"
  <2>1. PICK h, x, i : h = Head(t) /\ x = rows[h].target /\ i = ticks[t].ref
    OBVIOUS
  <2>2. Head(t)' = h /\ rows'[h] = rows[h] /\ h \in RowId /\ h \in ticks[t].batch
    BY <1>0, <1>2, <2>1, Turn, HeldStay
  <2>3. h \in OpenRows(rows, x)
    BY <2>1, <2>2 DEF SeqInv, LeaseInv, OneHolder, Held, OpenRows, Open
  <2>4. x \in LotTarget => x \in merged' \/ stock'[x].part = stock[x].part
    BY <2>3, NoneOpen DEF Story, Left, Counted, Made, Moved, Emptied, TakenBack
  <2>5. \A p, j : Own(p, j)' <=> Own(p, j)
    BY <1>0 DEF Own
  <2>6. CallPart(t)' <=>
          (x \in LotTarget /\ rows[h].kind = "create_lot" =>
             /\ ticks[t].call = "sent" /\ x \notin merged' => Own(stock[x].part, i)'
             /\ ticks[t].call = "ok" /\ x \notin merged' => Own(stock[x].part, remote[i].part)')
    BY <1>0, <2>1, <2>2 DEF CallPart, OfPart, Own
  <2>7. CallPart(t) <=>
          (x \in LotTarget /\ rows[h].kind = "create_lot" =>
             /\ ticks[t].call = "sent" /\ x \notin merged => Own(stock[x].part, i)
             /\ ticks[t].call = "ok" /\ x \notin merged => Own(stock[x].part, remote[i].part))
    BY <2>1 DEF CallPart, OfPart
  <2> QED
    BY <1>0, <2>4, <2>5, <2>6, <2>7 DEF Own
<1> QED
  BY <1>1, <1>2

LEMMA CommandMirror ==
    ASSUME SeqInv, MirrorInv, MaxBackfills = 0, Command, UNCHANGED outside
    PROVE  MirrorInv'
<1>1. Asks /\ TypeOK /\ DepInv /\ Gapless(rows) /\ TX(Done)
  BY CommandForm DEF SeqInv, FormInv, DepInv, TypeInv, Asks
<1>2. merged \subseteq merged' /\ \A x \in LotTarget : Story(x)
  BY CommandStory DEF SeqInv, FormInv, DepInv, TypeInv
<1>3. History'
  BY <1>1, <1>2, CommandHistory DEF MirrorInv, History
<1>4. Amounts'
  BY <1>1, <1>2, CommandLatest, CommandVoiding, CommandContent, CommandCalls
     DEF MirrorInv, Amounts, History
<1>5. Places'
  BY <1>1, <1>2, CommandParts, CommandCallPart DEF MirrorInv, Places
<1> QED
  BY <1>3, <1>4, <1>5 DEF MirrorInv
-----------------------------------------------------------------------------
(* Steps that deliver nothing and leave Part-DB alone.                      *)

LEMMA CallStays ==
    ASSUME DepInv, UNCHANGED <<remote, inventory>>, \A r \in RowId : SameAsk(r),
           NEW t \in Tick, ticks'[t].call \notin {"sent", "ok"} \/ ticks'[t] = ticks[t],
           CallVal(t), CallPart(t)
    PROVE  CallVal(t)' /\ CallPart(t)'
<1>1. CASE ticks'[t].call \notin {"sent", "ok"}
  BY <1>1 DEF CallVal, CallPart
<1>2. CASE ticks'[t] = ticks[t] /\ ticks[t].call \in {"sent", "ok"}
  <2>1. PICK x, i, h : h = Head(t) /\ x = rows[h].target /\ i = ticks[t].ref
    OBVIOUS
  <2>2. h \in RowId /\ Head(t)' = h
    BY <1>2, <2>1, Turn DEF Head
  <2>3. rows'[h].target = x /\ rows'[h].kind = rows[h].kind /\ rows'[h].val = rows[h].val
    BY <2>1, <2>2 DEF SameAsk
  <2>4. remote' = remote /\ stock' = stock /\ merged' = merged
    BY DEF inventory
  <2> QED
    BY <1>2, <2>1, <2>2, <2>3, <2>4 DEF CallVal, CallPart, OfPart, Own
<1> QED
  BY <1>1, <1>2

LEMMA CalmMirror ==
    ASSUME SeqInv, MirrorInv, UNCHANGED <<remote, column, inventory>>,
           \A r \in RowId : SameAsk(r),
           \A r \in RowId : rows'[r].status \in Open => rows[r].status \in Open,
           \A r \in RowId : rows'[r].status = "delivered" <=> rows[r].status = "delivered",
           \A r \in RowId : rows[r].status = "dead" => rows'[r].status = "dead",
           \A r \in RowId : rows[r].status \in Open /\ rows'[r].status \notin Open =>
               Held(r) /\ rows'[r].status = "dead",
           \A t \in Tick : ticks[t].call = "ok" => ticks'[t] = ticks[t],
           \A t \in Tick : CallVal(t)' /\ CallPart(t)'
    PROVE  MirrorInv'
<1>0. /\ TypeOK /\ DepInv /\ rows \in [RowId -> Row] /\ RowId \subseteq Nat
      /\ \A x \in LotTarget : x # NoTarget
      /\ stock' = stock /\ merged' = merged /\ ignored' = ignored
  <2>1. TypeOK /\ DepInv /\ rows \in [RowId -> Row]
    BY DEF SeqInv, FormInv, DepInv, TypeInv, TypeOK
  <2>2. RowId \subseteq Nat /\ \A x \in LotTarget : x # NoTarget
    BY Disjoint, OutboxAssumption DEF RowId
  <2> QED
    BY <2>1, <2>2 DEF inventory
<1>1. /\ Present(rows') = Present(rows)
      /\ \A r \in RowId : /\ rows'[r].kind = rows[r].kind /\ rows'[r].target = rows[r].target
                          /\ rows'[r].ref = rows[r].ref /\ rows'[r].dep = rows[r].dep
                          /\ rows'[r].val = rows[r].val
                          /\ rows'[r].status = "absent" <=> rows[r].status = "absent"
  BY DEF SameAsk, Present
<1>2. /\ \A x : RowsFor(x)' = RowsFor(x) /\ OpenRows(rows', x) \subseteq OpenRows(rows, x)
      /\ \A x : RowsFor(x) \subseteq RowId /\ OpenRows(rows, x) \subseteq RowId
  <2>1. \A x : RowsFor(x) \subseteq RowId /\ OpenRows(rows, x) \subseteq RowId
    BY DEF RowsFor, Present, OpenRows
  <2>2. \A x : RowsFor(x)' = RowsFor(x)
    BY <1>1 DEF RowsFor, Present
  <2> QED
    BY <1>1, <2>1, <2>2 DEF OpenRows
<1>3. ASSUME NEW x, Sound(x)' PROVE Sound(x) /\ OpenRows(rows', x) = OpenRows(rows, x)
  <2>1. \A r \in RowsFor(x) : rows'[r].status # "dead" /\ rows[r].status # "dead"
    BY <1>2, <1>3 DEF Sound
  <2>2. ASSUME NEW r \in OpenRows(rows, x) PROVE r \in OpenRows(rows', x)
    <3>1. /\ r \in RowsFor(x) /\ r \in RowId /\ rows[r].target = x /\ rows[r].status \in Open
      BY DEF OpenRows, RowsFor, Present, Open
    <3> QED
      BY <1>1, <2>1, <3>1 DEF OpenRows
  <2> QED
    BY <1>2, <2>1, <2>2 DEF Sound
<1>4. \A t \in Tick : \A x, k : Answer(t, x, k) => Answer(t, x, k)'
  <2> SUFFICES ASSUME NEW t \in Tick, NEW x, NEW k, Answer(t, x, k) PROVE Answer(t, x, k)'
    OBVIOUS
  <2>1. ticks'[t] = ticks[t] /\ Head(t)' = Head(t) /\ Head(t) \in RowId
    BY <1>0, Turn DEF Answer, Head
  <2> QED
    BY <1>1, <2>1 DEF Answer
<1>5. ASSUME NEW x \in LotTarget PROVE DoneFirst(x)'
  <2> SUFFICES ASSUME NEW q \in RowsFor(x), NEW r \in RowsFor(x), q < r, rows'[r].status \notin Open
               PROVE  rows'[q].status \notin Open
    BY <1>2 DEF DoneFirst
  <2>0. q \in RowId /\ r \in RowId /\ rows[r].target = x /\ rows[q].target = x
    BY DEF RowsFor, Present
  <2>1. CASE rows[r].status \notin Open
    BY <2>0, <2>1 DEF MirrorInv, History, DoneFirst
  <2>2. CASE rows[r].status \in Open
    <3>1. PICK t \in Tick : r \in ticks[t].batch
      BY <2>0, <2>2 DEF Held
    <3>2. \A p \in OpenRows(rows, x) : r <= p
      BY <1>0, <2>0, <3>1, HeldOldest
    <3>3. ~(r <= q)
      <4>1. q \in Nat /\ r \in Nat
        BY <1>0, <2>0
      <4> QED
        BY <4>1
    <3>4. q \notin OpenRows(rows, x)
      BY <3>2, <3>3
    <3> QED
      BY <2>0, <3>4 DEF OpenRows
  <2> QED
    BY <2>1, <2>2
<1>6. ASSUME NEW x \in LotTarget PROVE Life(x)'
  BY <1>0, <1>1, <1>2 DEF MirrorInv, History, Life
<1>7. ASSUME NEW x \in LotTarget PROVE Latest(x)' /\ Voiding(x)'
  <2>1. Latest(x) /\ Voiding(x)
    BY DEF MirrorInv, Amounts
  <2>2. Latest(x)'
    BY <1>0, <1>1, <1>2, <1>3, <2>1 DEF Latest
  <2>3. \A r \in OpenRows(rows, x) : rows'[r].kind = rows[r].kind
    BY <1>1, <1>2
  <2>4. Voiding(x)'
    BY <1>0, <1>3, <2>1, <2>3 DEF Voiding
  <2> QED
    BY <2>2, <2>4
<1>8. ASSUME NEW x \in LotTarget PROVE Content(x)'
  <2>1. Content(x)
    BY DEF MirrorInv, Amounts
  <2>2. \A d \in RowId : LastDone(x, d) => LastDone(x, d)' /\ rows'[d].val = rows[d].val
    BY <1>1, <1>2 DEF LastDone
  <2> QED
    BY <1>4, <2>1, <2>2 DEF Content
<1>9. ASSUME NEW x \in LotTarget PROVE RowPart(x)'
  <2>1. RowPart(x)
    BY DEF MirrorInv, Places
  <2>2. OfPart(x, column[x]) => OfPart(x, column[x])'
    BY <1>0 DEF OfPart, Own
  <2>3. ASSUME NEW r \in OpenRows(rows, x), ToPart(x, r) PROVE ToPart(x, r)'
    <3>1. r \in RowId /\ rows'[r].ref = rows[r].ref /\ rows'[r].dep = rows[r].dep
      BY <1>1, <1>2
    <3>2. rows[r].dep \in Present(rows) => rows'[rows[r].dep].target = rows[rows[r].dep].target
      BY <1>1 DEF Present
    <3> QED
      BY <1>0, <1>1, <2>3, <3>1, <3>2 DEF ToPart, Own
  <2> QED
    BY <1>0, <1>1, <1>2, <2>1, <2>2, <2>3 DEF RowPart
<1> QED
  BY <1>5, <1>6, <1>7, <1>8, <1>9 DEF MirrorInv, History, Amounts, Places

\* The lot that a tick asks for will lie under the part of the item.
LEMMA SendMirror ==
    ASSUME SeqInv, MirrorInv, NEW t \in Tick, Send(t), UNCHANGED inventory
    PROVE  MirrorInv'
<1> DEFINE h == Head(t)
           i == HydratedRef(rows, h)
<1>0. TypeOK /\ DepInv /\ ticks \in [Tick -> TickState] /\ UNCHANGED <<rows, remote, column>>
  BY DEF SeqInv, FormInv, DepInv, TypeInv, TypeOK, Send, tableVars
<1>1. h \in RowId /\ h \in ticks[t].batch /\ rows[h].status # "absent"
  BY <1>0, Turn DEF Send
<1>2. /\ ticks[t].call = "none"
      /\ rows[h].kind = "create_part" \/ i # NoIri
      /\ ticks' = [ticks EXCEPT ![t] = Calling(ticks[t], "sent", i)]
  BY DEF Send, Runs
<1> HIDE DEF i
<1>3. ticks'[t] = Calling(ticks[t], "sent", i) /\ \A u \in Tick : u # t => ticks'[u] = ticks[u]
  BY <1>0, <1>2
<1>4. ticks'[t].call = "sent" /\ ticks'[t].ref = i /\ ticks'[t].batch = ticks[t].batch
  BY <1>0, <1>3 DEF Calling, TickState
<1>5. \A r \in RowId : SameAsk(r)
  BY <1>0 DEF SameAsk
<1>6. ASSUME NEW x \in LotTarget, x = rows[h].target, rows[h].kind = "create_lot", x \notin merged
      PROVE  Own(stock[x].part, i)
  <2>1. h \in OpenRows(rows, x) /\ h \in Present(rows)
    BY <1>1, <1>6 DEF SeqInv, LeaseInv, OneHolder, Held, OpenRows, Open, Present
  <2>2. ToPart(x, h) /\ i # NoIri
    BY <1>2, <1>6, <2>1 DEF MirrorInv, Places, RowPart
  <2>3. stock[x].part \in PartTarget
    <3>1. stock[x].status # "none" /\ stock[x].status # "gone"
      BY <1>6, <2>1 DEF SeqInv, FormInv, Unborn, MirrorInv, History, Life
    <3>2. StockTypes /\ stock[x].status \in {"none", "assigned", "voided", "gone"}
      BY DEF SeqInv, FormInv, StockTypes, Item
    <3> QED
      BY <3>1, <3>2 DEF StockTypes, Stored
  <2>4. CASE rows[h].ref # NoIri
    BY <1>6, <2>2, <2>4 DEF ToPart, i, HydratedRef, LotChange
  <2>5. CASE rows[h].ref = NoIri
    <3>1. PICK d : d = rows[h].dep
      OBVIOUS
    <3>2. d \in RowId /\ rows[d].status # "absent" /\ rows[d].target = stock[x].part /\ d # NoRow
      BY <1>0, <2>2, <2>5, <3>1, OwnFields DEF ToPart, Present
    <3>3. i = DependencyIri(rows, d)
      BY <1>6, <2>5, <3>1, <3>2 DEF i, HydratedRef
    <3>4. rows[d].status = "delivered" /\ i = rows[d].iri
      BY <2>2, <3>3 DEF DependencyIri
    <3>5. RowOwns(d) /\ rows[d].target # NoTarget
      BY <2>3, <3>2, Disjoint DEF SeqInv, FormInv, OwnInv
    <3> QED
      BY <3>2, <3>4, <3>5 DEF RowOwns
  <2> QED
    BY <2>4, <2>5
<1>7. CallVal(t)' /\ CallPart(t)'
  <2>1. Head(t)' = h
    BY <1>4 DEF Head
  <2>2. stock' = stock /\ merged' = merged /\ rows' = rows /\ remote' = remote
    BY <1>0 DEF inventory
  <2> HIDE DEF h
  <2> QED
    BY <1>4, <1>6, <2>1, <2>2 DEF CallVal, CallPart, Own
<1>8. \A u \in Tick : CallVal(u)' /\ CallPart(u)'
  BY <1>0, <1>3, <1>5, <1>7, CallStays DEF MirrorInv, Amounts, Places
<1>9. \A u \in Tick : ticks[u].call = "ok" => ticks'[u] = ticks[u]
  BY <1>2, <1>3
<1>10. UNCHANGED <<remote, column, inventory>> /\ rows' = rows
  BY <1>0
<1> HIDE DEF h
<1> QED
  BY <1>5, <1>8, <1>9, <1>10, CalmMirror

LEMMA MirrorDelivering ==
    ASSUME SeqInv, MirrorInv, MaxRetries = 0, MaxCrashes = 0, MaxLost = 0, Delivering,
           UNCHANGED inventory
    PROVE  \/ MirrorInv'
           \/ \E t \in Tick : Accept(t) \/ SettleDelivered(t)
<1>1. TypeOK /\ DepInv /\ \A r \in RowId : SameAsk(r)
  BY DeliveringAsks DEF SeqInv, FormInv, DepInv, TypeInv
<1>2. ASSUME Calm PROVE MirrorInv'
  <2>1. \A t \in Tick : CallVal(t)' /\ CallPart(t)'
    BY <1>1, <1>2, CallStays DEF Calm, MirrorInv, Amounts, Places
  <2> QED
    BY <1>1, <1>2, <2>1, CalmMirror DEF Calm
<1> QED
  BY <1>2, DeliveringIs, SendMirror

\* A row is delivered: its item's lot bears what the row says.
LEMMA DeliveredMirror ==
    ASSUME SeqInv, LotInv, MirrorInv, NEW t \in Tick, SettleDelivered(t), UNCHANGED inventory
    PROVE  MirrorInv'
<1>0. /\ TypeOK /\ DepInv /\ OwnInv /\ rows \in [RowId -> Row]
      /\ remote' = remote /\ stock' = stock /\ merged' = merged /\ ignored' = ignored
      /\ ticks[t].call = "ok" /\ NoIri \notin Iri /\ RowId \subseteq Nat
      /\ \A y \in LotTarget : y \in Targets /\ y # NoTarget
  <2>1. TypeOK /\ DepInv /\ OwnInv /\ rows \in [RowId -> Row]
    BY DEF SeqInv, FormInv, DepInv, TypeInv, TypeOK
  <2>2. /\ remote' = remote /\ stock' = stock /\ merged' = merged /\ ignored' = ignored
        /\ ticks[t].call = "ok"
    BY DEF SettleDelivered, inventory
  <2>3. NoIri \notin Iri /\ RowId \subseteq Nat
    BY OutboxAssumption DEF NoIri, Iri, RowId
  <2> QED
    BY <2>1, <2>2, <2>3, Disjoint
<1>1. PICK h, x, i, k : h = Head(t) /\ x = rows[h].target /\ i = ticks[t].ref /\ k = rows[h].kind
  OBVIOUS
<1>2. /\ h \in RowId /\ h \in ticks[t].batch /\ rows[h].status = "leased"
      /\ h \in OpenRows(rows, x) /\ h \in Present(rows)
      /\ rows'[h].status = "delivered" /\ rows'[h].target = x /\ rows'[h].kind = k
      /\ \A r \in RowId : r # h => rows'[r] = rows[r]
      /\ Present(rows') = Present(rows)
      /\ \A y : OpenRows(rows', y) = OpenRows(rows, y) \ {h}
  BY <1>1, DeliveredIs
<1>3. \A r \in RowId : SameAsk(r)
  BY <1>1, DeliveredIs
<1>4. /\ ticks'[t].call = "none" /\ \A u \in Tick : u # t => ticks'[u] = ticks[u]
      /\ \A u \in Tick : \A y, a : u # t /\ Answer(u, y, a) => Answer(u, y, a)'
      /\ \A y \in LotTarget : y # x => column'[y] = column[y]
  BY <1>1, DeliveredIs
<1>5. x \in LotTarget =>
         \/ k = "create_lot" /\ column[x] = NoIri /\ column'[x] = i /\ i \in LotsOf(x)
         \/ k = "update_lot" /\ column[x] = i /\ column'[x] = i
         \/ k = "delete_lot" /\ column[x] = i /\ column'[x] = NoIri
  BY <1>1, DeliveredIs
<1>6. \A r \in RowId : /\ rows'[r].kind = rows[r].kind /\ rows'[r].target = rows[r].target
                       /\ rows'[r].ref = rows[r].ref /\ rows'[r].dep = rows[r].dep
                       /\ rows'[r].val = rows[r].val
  BY <1>3 DEF SameAsk
<1>7. /\ \A y : RowsFor(y)' = RowsFor(y)
      /\ \A y : RowsFor(y) \subseteq RowId /\ OpenRows(rows, y) \subseteq RowId
      /\ h \in RowsFor(x)
  <2>1. \A y : RowsFor(y) \subseteq RowId /\ OpenRows(rows, y) \subseteq RowId
    BY DEF RowsFor, Present, OpenRows
  <2>2. \A y : RowsFor(y)' = RowsFor(y)
    BY <1>2, <1>6 DEF RowsFor, Present
  <2> QED
    BY <1>1, <1>2, <2>1, <2>2 DEF RowsFor
<1>8. \A y : y # x => h \notin RowsFor(y) /\ h \notin OpenRows(rows, y)
  BY <1>1 DEF RowsFor, OpenRows
<1>9. \A y : Sound(y)' => Sound(y)
  BY <1>2, <1>7 DEF Sound
<1>10. x \in LotTarget => \A q \in OpenRows(rows, x) : h <= q
  BY <1>0, <1>1, <1>2, HeldOldest
<1>11. ASSUME NEW y \in LotTarget PROVE DoneFirst(y)' /\ Life(y)'
  <2>1. DoneFirst(y) /\ Life(y)
    BY DEF MirrorInv, History
  <2>2. ASSUME NEW q \in RowsFor(y), NEW r \in RowsFor(y), q < r, rows'[r].status \notin Open
        PROVE  rows'[q].status \notin Open
    <3>0. q \in RowId /\ r \in RowId /\ rows[q].target = y /\ q \in Nat /\ r \in Nat
      BY <1>0, <1>7 DEF RowsFor
    <3>1. CASE r = h
      <4>1. y = x /\ ~(h <= q)
        BY <1>8, <2>2, <3>0, <3>1
      <4>2. q \notin OpenRows(rows, x)
        BY <1>10, <4>1
      <4>3. rows[q].status \notin Open
        BY <3>0, <4>1, <4>2 DEF OpenRows
      <4> QED
        BY <1>2, <3>0, <4>3 DEF Open
    <3>2. CASE r # h
      <4>1. rows[q].status \notin Open
        BY <1>2, <2>1, <2>2, <3>0, <3>2 DEF DoneFirst
      <4> QED
        BY <1>2, <3>0, <4>1 DEF Open
    <3> QED
      BY <3>1, <3>2
  <2>3. DoneFirst(y)'
    BY <1>7, <2>2 DEF DoneFirst
  <2>4. Life(y)'
    BY <1>0, <1>2, <1>6, <1>7, <2>1 DEF Life
  <2> QED
    BY <2>3, <2>4
<1>12. ASSUME NEW y \in LotTarget PROVE Latest(y)'
  <2> SUFFICES ASSUME Sound(y)', stock[y].status = "assigned", y \notin ignored
               PROVE  /\ \E n \in RowsFor(y) : /\ \A q \in RowsFor(y) : q <= n
                                               /\ rows'[n].kind # "delete_lot"
                                               /\ rows'[n].val = stock[y].qty
                      /\ column'[y] = NoIri => OpenRows(rows', y) # {}
    BY <1>0, <1>7 DEF Latest
  <2>1. /\ \E n \in RowsFor(y) : /\ \A q \in RowsFor(y) : q <= n
                                 /\ rows[n].kind # "delete_lot" /\ rows[n].val = stock[y].qty
        /\ column[y] = NoIri => OpenRows(rows, y) # {}
    BY <1>9 DEF MirrorInv, Amounts, Latest
  <2>2. CASE y # x
    BY <1>2, <1>4, <1>6, <1>7, <1>8, <2>1, <2>2
  <2>3. CASE y = x
    <3>1. Life(x) /\ h \in RowsFor(x)
      BY <1>7, <2>3 DEF MirrorInv, History
    <3>2. k # "delete_lot"
      BY <1>1, <2>3, <3>1 DEF Life
    <3>3. i # NoIri
      <4>1. CallOwns(t)
        BY <1>0 DEF OwnInv
      <4> QED
        BY <1>0, <1>1, <2>3, <4>1 DEF CallOwns, Own
    <3>4. column'[y] # NoIri
      BY <1>5, <2>3, <3>2, <3>3
    <3> QED
      BY <1>6, <1>7, <2>1, <3>4
  <2> QED
    BY <2>2, <2>3
<1>13. ASSUME NEW y \in LotTarget PROVE Voiding(y)'
  <2> SUFFICES ASSUME Sound(y)', stock[y].status = "voided",
                      \/ column'[y] # NoIri
                      \/ \E r \in OpenRows(rows', y) : rows'[r].kind = "create_lot"
               PROVE  \E r \in OpenRows(rows', y) : rows'[r].kind = "delete_lot"
    BY <1>0 DEF Voiding, OpenRows
  <2>1. ASSUME \/ column[y] # NoIri \/ \E r \in OpenRows(rows, y) : rows[r].kind = "create_lot"
        PROVE  \E r \in OpenRows(rows, y) : rows[r].kind = "delete_lot"
    BY <1>9, <2>1 DEF MirrorInv, Amounts, Voiding
  <2>2. \A r \in OpenRows(rows', y) : /\ r \in OpenRows(rows, y) /\ r # h
                                      /\ rows'[r].kind = rows[r].kind
    BY <1>2, <1>6, <1>7
  <2>3. CASE y # x
    BY <1>2, <1>4, <1>6, <1>7, <1>8, <2>1, <2>2, <2>3
  <2>4. CASE y = x
    <3>1. ASSUME NEW r \in OpenRows(rows, x), r # h, rows[r].kind = "create_lot" PROVE FALSE
      <4>1. r < h /\ h <= r /\ r \in Nat /\ h \in Nat
        BY <1>0, <1>2, <1>7, <1>10, <2>4, <3>1 DEF LotInv, CreateFirst
      <4> QED
        BY <4>1
    <3>2. column'[x] # NoIri
      BY <2>2, <2>4, <3>1
    <3>3. k \in {"create_lot", "update_lot"} /\ (k = "update_lot" => column[x] # NoIri)
      BY <1>5, <2>4, <3>2
    <3>4. \E r \in OpenRows(rows, x) : rows[r].kind = "delete_lot"
      BY <1>1, <1>2, <2>1, <2>4, <3>3
    <3> QED
      BY <1>1, <1>2, <1>6, <1>7, <2>4, <3>3, <3>4
  <2> QED
    BY <2>3, <2>4
<1>14. ASSUME NEW y \in LotTarget PROVE Content(y)'
  <2>1. CASE y # x
    <3>1. \A d \in RowId : LastDone(y, d) => LastDone(y, d)' /\ rows'[d].val = rows[d].val
      BY <1>2, <1>6, <1>7, <1>8, <2>1 DEF LastDone
    <3>2. \A u \in Tick : Answer(u, y, "update_lot") => Answer(u, y, "update_lot")'
      <4>1. ~Answer(t, y, "update_lot")
        BY <1>1, <2>1 DEF Answer
      <4> QED
        BY <1>4, <4>1
    <3>3. Content(y) /\ column'[y] = column[y]
      BY <1>4, <2>1 DEF MirrorInv, Amounts
    <3> QED
      BY <1>0, <3>1, <3>2, <3>3 DEF Content
  <2>2. CASE y = x
    <3> SUFFICES ASSUME column'[x] # NoIri PROVE Content(x)'
      BY <2>2 DEF Content
    <3>1. k \in {"create_lot", "update_lot"} /\ column'[x] = i
      BY <1>5, <2>2
    <3>2. ASSUME NEW q \in RowsFor(x), rows'[q].status = "delivered" PROVE q <= h
      <4>1. CASE q = h
        BY <1>0, <1>2, <4>1
      <4>2. CASE q # h
        <5>1. rows[q].status \notin Open /\ q \in RowId /\ q \in Nat /\ h \in Nat
          BY <1>0, <1>2, <1>7, <3>2, <4>2 DEF Open
        <5>2. rows[h].status \in Open /\ DoneFirst(x)
          BY <1>2, <2>2 DEF Open, MirrorInv, History
        <5>3. ~(h < q)
          BY <1>7, <5>1, <5>2 DEF DoneFirst
        <5> QED
          BY <5>1, <5>3
      <4> QED
        BY <4>1, <4>2
    <3>3. LastDone(x, h)'
      BY <1>2, <1>7, <3>1, <3>2 DEF LastDone
    <3>4. remote[i].val = rows[h].val
      <4>1. CallVal(t)
        BY DEF MirrorInv, Amounts
      <4> QED
        BY <1>0, <1>1, <3>1, <4>1 DEF CallVal
    <3> QED
      BY <1>0, <1>2, <1>6, <3>1, <3>3, <3>4 DEF Content
  <2> QED
    BY <2>1, <2>2
<1>15. ASSUME NEW y \in LotTarget PROVE RowPart(y)'
  <2>1. ASSUME column'[y] # NoIri PROVE OfPart(y, column'[y])
    <3>1. CASE y = x /\ k = "create_lot"
      <4>1. CallPart(t)
        BY DEF MirrorInv, Places
      <4> QED
        BY <1>0, <1>1, <1>5, <3>1, <4>1 DEF CallPart
    <3>2. CASE ~(y = x /\ k = "create_lot")
      <4>1. column'[y] = column[y]
        BY <1>4, <1>5, <2>1, <3>2
      <4> QED
        BY <2>1, <4>1 DEF MirrorInv, Places, RowPart
    <3> QED
      BY <3>1, <3>2
  <2>2. OfPart(y, column[y])' <=> OfPart(y, column'[y])
    BY <1>0 DEF OfPart, Own
  <2>3. ASSUME NEW r \in OpenRows(rows', y), rows'[r].kind = "create_lot", y \notin merged
        PROVE  ToPart(y, r)'
    <3>1. r \in OpenRows(rows, y) /\ r \in RowId /\ rows[r].kind = "create_lot"
      BY <1>2, <1>6, <1>7, <2>3
    <3>2. ToPart(y, r)
      BY <2>3, <3>1 DEF MirrorInv, Places, RowPart
    <3>3. rows[r].dep \in Present(rows) => rows'[rows[r].dep].target = rows[rows[r].dep].target
      BY <1>6 DEF Present
    <3> QED
      BY <1>0, <1>2, <1>6, <3>1, <3>2, <3>3 DEF ToPart, Own
  <2> QED
    BY <1>0, <2>1, <2>2, <2>3 DEF RowPart, OpenRows
<1>16. ASSUME NEW u \in Tick PROVE CallVal(u)' /\ CallPart(u)'
  <2>1. ticks'[u].call \notin {"sent", "ok"} \/ ticks'[u] = ticks[u]
    BY <1>4
  <2> QED
    BY <1>0, <1>3, <2>1, CallStays DEF MirrorInv, Amounts, Places
<1> QED
  BY <1>11, <1>12, <1>13, <1>14, <1>15, <1>16 DEF MirrorInv, History, Amounts, Places

\* What a call writes at Part-DB.
LEMMA ApplyWrites ==
    ASSUME TypeOK, NEW row \in Row, NEW ref, NEW i \in Iri, Apply(row, ref, i)
    PROVE  /\ \A j \in Iri : remote[j].kind # "none" => remote'[j].part = remote[j].part
           /\ \A j \in Iri : remote'[j].val # remote[j].val =>
                 j = i /\ row.kind \in CreateKinds \cup {"update_part", "update_lot"}
           /\ row.kind \in CreateKinds => remote[i].kind = "none"
           /\ row.kind = "create_lot" => remote'[i].part = ref
           /\ row.kind \in {"create_lot", "update_lot"} => remote'[i].val = row.val
<1>0. remote \in [Iri -> Object] /\ remote[i] \in Object
  BY DEF TypeOK
<1> DEFINE same == \A j \in Iri : j # i => remote'[j] = remote[j]
<1>1. CASE row.kind \in CreateKinds
  <2>1. PICK k \in {"part", "lot"}, p \in {NoIri, ref} :
           NewObject(i, k, row, p) /\ (row.kind = "create_lot" => p = ref)
    BY <1>1 DEF Apply, CreateKinds
  <2>2. remote[i].kind = "none" /\ same
        /\ remote'[i] = [kind |-> k, owner |-> row.target, part |-> p, val |-> row.val,
                         live |-> TRUE]
    BY <1>0, <2>1 DEF NewObject
  <2>3. remote'[i].part = p /\ remote'[i].val = row.val
    BY <2>2
  <2> QED
    BY <1>1, <2>1, <2>2, <2>3
<1>2. CASE row.kind \in {"update_part", "update_lot"}
  <2>1. remote' = [remote EXCEPT ![i].val = row.val]
    BY <1>2 DEF Apply
  <2>2. same /\ remote'[i] = [remote[i] EXCEPT !.val = row.val]
    BY <1>0, <2>1
  <2>3. remote'[i].part = remote[i].part /\ remote'[i].val = row.val
    BY <1>0, <2>2 DEF Object
  <2> QED
    BY <1>2, <2>2, <2>3 DEF CreateKinds
<1>3. CASE row.kind \in {"delete_part", "delete_lot"}
  <2>1. remote' = [remote EXCEPT ![i].live = FALSE]
    BY <1>3 DEF Apply
  <2>2. same /\ remote'[i] = [remote[i] EXCEPT !.live = FALSE]
    BY <1>0, <2>1
  <2>3. remote'[i].part = remote[i].part /\ remote'[i].val = remote[i].val
    BY <1>0, <2>2 DEF Object
  <2> QED
    BY <1>3, <2>2, <2>3 DEF CreateKinds
<1> QED
  BY <1>1, <1>2, <1>3 DEF Row, Kinds, CreateKinds, LotChange, PartChange

\* Part-DB carries a call out: it writes only to the lot of the call's item.
LEMMA AcceptMirror ==
    ASSUME SeqInv, LotInv, MirrorInv, NEW t \in Tick, Accept(t), UNCHANGED inventory
    PROVE  MirrorInv'
<1>0. /\ TypeOK /\ DepInv /\ OwnInv /\ ticks \in [Tick -> TickState]
      /\ rows' = rows /\ column' = column /\ ticks[t].call = "sent"
      /\ stock' = stock /\ merged' = merged /\ ignored' = ignored
      /\ \A y \in LotTarget : y \in Targets /\ y # NoTarget
  <2>1. TypeOK /\ DepInv /\ OwnInv /\ ticks \in [Tick -> TickState]
    BY DEF SeqInv, FormInv, DepInv, TypeInv, TypeOK
  <2>2. /\ rows' = rows /\ column' = column /\ ticks[t].call = "sent"
        /\ stock' = stock /\ merged' = merged /\ ignored' = ignored
    BY DEF Accept, tableVars, inventory
  <2> QED
    BY <2>1, <2>2, Disjoint
<1>1. PICK h, x, k : h = Head(t) /\ x = rows[h].target /\ k = rows[h].kind
  OBVIOUS
<1>2. h \in RowId /\ h \in ticks[t].batch /\ rows[h] \in Row
  BY <1>0, <1>1, Turn
<1>3. Fits(h) /\ CallNamesLot(t) /\ CallOwns(t) /\ x \in Targets \cup {NoTarget}
  <2>1. rows[h].status # "absent"
    BY <1>0, <1>1, Turn
  <2> QED
    BY <1>0, <1>1, <1>2, <2>1, OwnFields DEF SeqInv, FormInv, Present, LotInv, OwnInv
<1>4. PICK i \in Iri : /\ Apply(rows[h], ticks[t].ref, i)
                       /\ ticks' = [ticks EXCEPT ![t] = Calling(ticks[t], "ok", i)]
  BY <1>1 DEF Accept
<1>5. /\ \A u \in Tick : u # t => ticks'[u] = ticks[u]
      /\ ticks'[t].call = "ok" /\ ticks'[t].ref = i /\ ticks'[t].batch = ticks[t].batch
  <2>1. Calling(ticks[t], "ok", i).call = "ok" /\ Calling(ticks[t], "ok", i).ref = i
        /\ Calling(ticks[t], "ok", i).batch = ticks[t].batch
    BY <1>0 DEF Calling, TickState
  <2> QED
    BY <1>0, <1>4, <2>1
<1>6. \A u \in Tick : Head(u)' = Head(u)
  BY <1>5 DEF Head
<1>7. /\ \A j \in Iri : remote[j].kind # "none" => remote'[j].part = remote[j].part
      /\ \A j \in Iri : remote'[j].val # remote[j].val =>
            j = i /\ k \in CreateKinds \cup {"update_part", "update_lot"}
      /\ k \in CreateKinds => remote[i].kind = "none"
      /\ k = "create_lot" => remote'[i].part = ticks[t].ref
      /\ k \in {"create_lot", "update_lot"} => remote'[i].val = rows[h].val
  BY <1>0, <1>1, <1>2, <1>4, ApplyWrites
<1>8. Kept /\ (k \notin CreateKinds => i = ticks[t].ref)
  <2>1. ticks[t].ref \in Iri \cup {NoIri}
    BY <1>0 DEF TickState
  <2> QED
    BY <1>0, <1>1, <1>2, <1>4, <2>1, ApplyOwns
<1>9. \A u \in Tick : \A y, a : Answer(u, y, a) => Answer(u, y, a)'
  BY <1>0, <1>5, <1>6 DEF Answer
<1>10. \A a : k = a => Answer(t, x, a)'
  BY <1>0, <1>1, <1>5, <1>6 DEF Answer
<1>11. ASSUME NEW y \in LotTarget, NEW j, Own(y, j), remote'[j].val # remote[j].val
       PROVE  y = x /\ k = "update_lot"
  <2>1. j = i /\ k \in {"update_part", "update_lot"}
    BY <1>7, <1>11 DEF Own
  <2>2. x # NoTarget
    BY <1>1, <1>3, <2>1 DEF Fits
  <2>3. Own(x, i)
    BY <1>0, <1>1, <1>3, <1>8, <2>1, <2>2 DEF CallOwns, CreateKinds
  <2>4. y = x
    BY <1>11, <2>1, <2>3 DEF Own
  <2> QED
    BY <1>1, <1>3, <2>1, <2>4 DEF Fits, LotChange
<1>12. \A y \in LotTarget : \A j : Own(y, j) /\ y # x => remote'[j].val = remote[j].val
  BY <1>11
<1>13. History'
  BY <1>0 DEF MirrorInv, History, DoneFirst, Life, RowsFor, Present, OpenRows
<1>14. ASSUME NEW y \in LotTarget PROVE Latest(y)' /\ Voiding(y)'
  <2>1. Latest(y) /\ Voiding(y)
    BY DEF MirrorInv, Amounts
  <2>2. /\ RowsFor(y)' = RowsFor(y) /\ OpenRows(rows', y) = OpenRows(rows, y)
        /\ Sound(y)' <=> Sound(y)
    BY <1>0 DEF RowsFor, Present, Sound
  <2> QED
    BY <1>0, <2>1, <2>2 DEF Latest, Voiding
<1>15. ASSUME NEW y \in LotTarget PROVE Content(y)'
  <2> SUFFICES ASSUME column[y] # NoIri
               PROVE  \E d \in RowId : /\ LastDone(y, d)
                                       /\ \/ remote'[column[y]].val = rows[d].val
                                          \/ \E u \in Tick : Answer(u, y, "update_lot")'
    BY <1>0 DEF Content, LastDone, RowsFor, Present
  <2>1. PICK d \in RowId : /\ LastDone(y, d)
                           /\ \/ remote[column[y]].val = rows[d].val
                              \/ \E u \in Tick : Answer(u, y, "update_lot")
    BY DEF MirrorInv, Amounts, Content
  <2>2. PICK j : j = column[y]
    OBVIOUS
  <2>3. Own(y, j)
    BY <1>0, <2>2 DEF OwnInv, ColumnOwns
  <2>4. remote'[j].val = remote[j].val \/ Answer(t, y, "update_lot")'
    BY <1>10, <1>11, <2>3
  <2> QED
    BY <1>9, <2>1, <2>2, <2>4
<1>16. ASSUME NEW u \in Tick, u # t, ticks[u].call = "ok", NEW m, NEW y, NEW j,
              m = Head(u), y = rows[m].target, j = ticks[u].ref,
              y \in LotTarget
       PROVE  /\ Own(y, j) /\ j \in Iri /\ remote'[j].val = remote[j].val
              /\ remote'[j].part = remote[j].part
  <2>1. m \in RowId /\ m \in ticks[u].batch /\ CallOwns(u)
    BY <1>0, <1>16, Turn DEF OwnInv
  <2>2. Own(y, j)
    BY <1>0, <1>16, <2>1 DEF CallOwns
  <2>3. y # x
    BY <1>0, <1>1, <1>2, <1>16, <2>1, OneTick
  <2>4. j \in Iri /\ remote[j].kind # "none"
    BY <2>2 DEF Own
  <2> QED
    BY <1>7, <1>12, <1>16, <2>2, <2>3, <2>4
<1>17. ASSUME NEW u \in Tick PROVE CallVal(u)' /\ CallPart(u)'
  <2>1. CASE u = t
    <3>1. CallVal(t)'
      BY <1>0, <1>1, <1>5, <1>6, <1>7 DEF CallVal
    <3>2. PICK p, j : p = stock[x].part /\ j = ticks[t].ref
      OBVIOUS
    <3>3. x \in LotTarget /\ k = "create_lot" /\ x \notin merged => Own(p, j)
      BY <1>0, <1>1, <3>2 DEF MirrorInv, Places, CallPart
    <3>4. Own(p, j) => Own(p, j)'
      BY <1>8 DEF Kept
    <3>5. k = "create_lot" => remote'[i].part = j
      BY <1>7, <3>2
    <3>6. CallPart(t)' <=>
            (x \in LotTarget /\ k = "create_lot" /\ x \notin merged => Own(p, remote[i].part)')
      BY <1>0, <1>1, <1>5, <1>6, <3>2 DEF CallPart, OfPart, Own
    <3>7. remote'[i].part = j => (Own(p, remote[i].part)' <=> Own(p, j)')
      BY DEF Own
    <3>8. CallPart(t)'
      BY <3>3, <3>4, <3>5, <3>6, <3>7
    <3> QED
      BY <2>1, <3>1, <3>8
  <2>2. CASE u # t
    <3>1. PICK m, y, j, p, q : /\ m = Head(u) /\ y = rows[m].target /\ j = ticks[u].ref
                               /\ p = stock[y].part /\ q = remote[j].part
      OBVIOUS
    <3>2. ticks'[u] = ticks[u] /\ Head(u)' = m
      BY <1>5, <1>6, <2>2, <3>1
    <3>3. (Own(p, j) => Own(p, j)') /\ (Own(p, q) => Own(p, q)')
      BY <1>8 DEF Kept
    <3>4. ticks[u].call = "ok" /\ y \in LotTarget =>
             remote'[j].val = remote[j].val /\ remote'[j].part = q
      BY <1>16, <2>2, <3>1
    <3>5. CallVal(u) /\ CallPart(u)
      BY DEF MirrorInv, Amounts, Places
    <3>6. ticks[u].call = "ok" /\ rows[m].kind \in {"create_lot", "update_lot"} => y \in LotTarget
      <4>1. ticks[u].call = "ok" => m \in Present(rows) /\ Fits(m) /\ y \in Targets \cup {NoTarget}
        BY <1>0, <3>1, Turn, OwnFields DEF SeqInv, FormInv, Present
      <4> QED
        BY <3>1, <4>1 DEF Fits, Targets
    <3>7. CallVal(u)'
      BY <1>0, <3>1, <3>2, <3>4, <3>5, <3>6 DEF CallVal
    <3>8. CallPart(u) <=>
            (y \in LotTarget /\ rows[m].kind = "create_lot" =>
               /\ ticks[u].call = "sent" /\ y \notin merged => Own(p, j)
               /\ ticks[u].call = "ok" /\ y \notin merged => Own(p, q))
      BY <3>1 DEF CallPart, OfPart
    <3>9. CallPart(u)' <=>
            (y \in LotTarget /\ rows[m].kind = "create_lot" =>
               /\ ticks[u].call = "sent" /\ y \notin merged => Own(p, j)'
               /\ ticks[u].call = "ok" /\ y \notin merged => Own(p, remote[j].part)')
      BY <1>0, <3>1, <3>2 DEF CallPart, OfPart, Own
    <3>10. remote'[j].part = q => (Own(p, remote[j].part)' <=> Own(p, q)')
      BY DEF Own
    <3> QED
      BY <3>3, <3>4, <3>5, <3>7, <3>8, <3>9, <3>10
  <2> QED
    BY <2>1, <2>2
<1>18. ASSUME NEW y \in LotTarget PROVE RowPart(y)'
  <2>1. RowPart(y)
    BY DEF MirrorInv, Places
  <2>2. PICK p, c, q : p = stock[y].part /\ c = column[y] /\ q = remote[c].part
    OBVIOUS
  <2>3. c # NoIri => remote'[c].part = q
    <3>1. c # NoIri => Own(y, c)
      BY <1>0, <2>2 DEF OwnInv, ColumnOwns
    <3> QED
      BY <1>7, <2>2, <3>1 DEF Own
  <2>4. \A j : Own(p, j) => Own(p, j)'
    BY <1>8 DEF Kept
  <2>5. c # NoIri => OfPart(y, column[y])'
    BY <1>0, <2>1, <2>2, <2>3, <2>4 DEF RowPart, OfPart, Own
  <2>6. \A r \in RowId : ToPart(y, r) => ToPart(y, r)'
    BY <1>0, <2>2, <2>4 DEF ToPart, Present, Own
  <2> QED
    BY <1>0, <2>1, <2>2, <2>5, <2>6 DEF RowPart, OpenRows
<1> QED
  BY <1>13, <1>14, <1>15, <1>17, <1>18 DEF MirrorInv, Amounts, Places
-----------------------------------------------------------------------------
(* Part-DB mirrors an item once nothing is under way for it.                *)

LEMMA MirrorStep ==
    ASSUME MaxBackfills = 0, MaxRetries = 0, MaxCrashes = 0, MaxLost = 0,
           SeqInv, LotInv, MirrorInv, [LotNext]_lotVars
    PROVE  MirrorInv'
<1>1. CASE UNCHANGED lotVars
  <2>1. \A t \in Tick : CallVal(t)' /\ CallPart(t)'
    BY <1>1, CallStays DEF lotVars, vars, inventory, SameAsk, SeqInv, FormInv, MirrorInv, Amounts,
                           Places
  <2> QED
    BY <1>1, <2>1, CalmMirror DEF lotVars, vars, SameAsk
<1>2. CASE Command /\ UNCHANGED outside
  BY <1>2, CommandMirror
<1>3. CASE Delivering /\ UNCHANGED inventory
  BY <1>3, MirrorDelivering, AcceptMirror, DeliveredMirror
<1> QED
  BY <1>1, <1>2, <1>3 DEF LotNext, outside

LEMMA SettledMirrors ==
    ASSUME SeqInv, LotInv, MirrorInv, NEW x \in LotTarget, Settled(x), x \notin ignored
    PROVE  Mirrored(x)
<1>0. TypeOK /\ DepInv /\ x # NoTarget /\ NoIri \notin Iri /\ RowId \subseteq Nat
  BY Disjoint, OutboxAssumption DEF SeqInv, FormInv, DepInv, TypeInv, NoIri, Iri, RowId
<1>1. \A r \in RowsFor(x) : r \in RowId /\ rows[r].status = "delivered"
  BY DEF Settled, RowsFor, Present
<1>2. Sound(x) /\ OpenRows(rows, x) = {}
  BY <1>1 DEF Sound, OpenRows, RowsFor, Present, Open
<1>3. ~\E t \in Tick : \E k : Answer(t, x, k)
  <2> SUFFICES ASSUME NEW t \in Tick, NEW k, Answer(t, x, k) PROVE FALSE
    OBVIOUS
  <2>1. Head(t) \in ticks[t].batch /\ rows[Head(t)].target = x
    BY <1>0, Turn DEF Answer
  <2>2. Head(t) \in OpenRows(rows, x)
    BY <1>0, <2>1, HeldOldest
  <2> QED
    BY <1>2, <2>2
<1>4. \A i \in LotsOf(x) : column[x] = i
  <2> SUFFICES ASSUME NEW i \in LotsOf(x), column[x] # i PROVE FALSE
    OBVIOUS
  <2>1. PICK r \in Present(rows) : /\ rows[r].target = NoTarget /\ rows[r].ref = i
                                   /\ rows[r].status # "delivered"
    BY <1>3 DEF LotInv, NoStray
  <2>2. Drops(r, x)
    BY <2>1 DEF Drops, LotsOf
  <2> QED
    BY <2>1, <2>2 DEF Settled
<1>5. ASSUME stock[x].status = "assigned"
      PROVE  /\ column[x] \in LotsOf(x)
             /\ remote[column[x]].val = stock[x].qty
             /\ x \in merged \/ remote[remote[column[x]].part].owner = stock[x].part
  <2>1. /\ \E n \in RowsFor(x) : (\A q \in RowsFor(x) : q <= n) /\ rows[n].val = stock[x].qty
        /\ column[x] # NoIri
    BY <1>2, <1>5 DEF MirrorInv, Amounts, Latest
  <2>2. PICK n \in RowsFor(x) : /\ \A q \in RowsFor(x) : q <= n
                                /\ rows[n].val = stock[x].qty
    BY <2>1
  <2>3. PICK d \in RowId : LastDone(x, d) /\ remote[column[x]].val = rows[d].val
    BY <1>3, <2>1 DEF MirrorInv, Amounts, Content
  <2>4. d <= n /\ n <= d /\ d \in Nat /\ n \in Nat
    BY <1>0, <1>1, <2>2, <2>3 DEF LastDone
  <2>5. d = n
    BY <2>4
  <2>6. column[x] \in LotsOf(x)
    BY <1>3, <2>1 DEF LotInv, ColumnLives
  <2>7. x \in merged \/ remote[remote[column[x]].part].owner = stock[x].part
    BY <2>1 DEF MirrorInv, Places, RowPart, OfPart, Own
  <2> QED
    BY <2>2, <2>3, <2>5, <2>6, <2>7
<1>6. ASSUME stock[x].status = "voided" PROVE LotsOf(x) = {}
  <2>1. column[x] = NoIri
    BY <1>2, <1>6 DEF MirrorInv, Amounts, Voiding
  <2>2. LotsOf(x) \subseteq Iri
    BY DEF LotsOf
  <2> QED
    BY <1>0, <1>4, <2>1, <2>2
<1> QED
  BY <1>5, <1>6 DEF Mirrored

\* Once everything asked for an item is delivered, its lot in Part-DB bears its amount and
\* lies under its part, or is gone with it, however commands and deliveries interleaved:
\* as long as leases outlive ticks, nobody retries by hand, and no answer is lost, neither
\* on the way nor with a tick that dies.  No item is excused but those whose last request
\* INSERT OR IGNORE dropped, and merged ones as to their part.
THEOREM MirrorHolds ==
    ASSUME MaxBackfills = 0, MaxOverruns = 0, MaxRetries = 0, MaxCrashes = 0, MaxLost = 0
    PROVE  LotSpec => []MirrorSettles
<1> DEFINE Inv == SeqInv /\ LotInv /\ MirrorInv
<1>1. LotInit => Inv
  BY SeqInit, LotInvInit, MirrorInit
<1>2. Inv /\ [LotNext]_lotVars => Inv'
  BY SeqStep, LotStep, MirrorStep
<1>3. Inv => MirrorSettles
  BY SettledMirrors DEF MirrorSettles
<1> QED
  BY <1>1, <1>2, <1>3, PTL DEF LotSpec
=============================================================================
