------------------------------ MODULE LotSync -------------------------------
(***************************************************************************)
(* InventoryService over the outbox: how the changes users make to items    *)
(* and part types become operations for Part-DB, and whether Part-DB ends   *)
(* up saying what the inventory says.                                       *)
(*                                                                          *)
(* An item is a bulk stock with its amount; a physical instance is an item  *)
(* whose amount never changes.  Each command is one SQLite transaction and  *)
(* so one action; a transaction reads the outbox rows it has just written,  *)
(* so its steps are functions on the part of the database it works on       *)
(* (Begin ... Commit).                                                      *)
(***************************************************************************)
EXTENDS Outbox, FiniteSetsExt

CONSTANTS
    Definitions,    \* what a part type's definition may be (values of an update_part)
    MaxBackfills    \* bound: POST /backfill by an administrator

ASSUME LotSyncAssumption == /\ PartTarget \cap LotTarget = {}
                            /\ Values \subseteq Nat
                            /\ Definitions \subseteq Values /\ NoOp.val \in Definitions
                            /\ MaxBackfills \in Nat

VARIABLES
    stock,      \* physical_instances and bulk_stocks
    parts,      \* part_types
    ignored,    \* history: targets whose last request INSERT OR IGNORE dropped
    merged,     \* history: items that mergePartTypes moved
    backfills   \* how often /backfill ran

inventory == <<stock, parts, ignored, merged, backfills>>
lotVars == <<vars, inventory>>

Item == [status : {"none", "assigned", "voided", "gone"}, part : PartTarget \cup {NoTarget},
         qty : Values, fresh : BOOLEAN]
PartType == [live : BOOLEAN, def : Definitions]

NoItem == [status |-> "none", part |-> NoTarget, qty |-> NoOp.val, fresh |-> TRUE]

Stored(x) == stock[x].status \in {"assigned", "voided"}   \* a row of its table

LotInit ==
    /\ Init
    /\ stock = [x \in LotTarget |-> NoItem]
    /\ parts = [p \in PartTarget |-> [live |-> TRUE, def |-> NoOp.val]]
    /\ ignored = {}
    /\ merged = {}
    /\ backfills = 0

-----------------------------------------------------------------------------
(* Inside a transaction.                                                    *)

\* full: the bound on rows is reached, and no command is cut short by it.
Begin == [rows |-> rows, sync |-> syncStatus, ignored |-> ignored, full |-> FALSE]

Commit(tx) == /\ ~tx.full
              /\ rows' = tx.rows
              /\ syncStatus' = tx.sync
              /\ ignored' = tx.ignored

\* PartDbOutbox.enqueue
Enqueued(tx, op) ==
    IF Ignored(tx.rows, op)
    THEN [tx EXCEPT !.ignored = @ \cup {op.target}]
    ELSE IF ~HasRoom(tx.rows) THEN [tx EXCEPT !.full = TRUE]
    ELSE [tx EXCEPT !.rows = Insert(@, op), !.sync = SetSync(@, op.target, "pending"),
                    !.ignored = @ \ {op.target}]

CreatePartOp(p, def) == Op("create_part", p, <<NoIri, NoRow>>, def)

\* ensurePartTypeSync: first what it writes, then the id it returns.
EnsurePart(tx, p, def) ==
    IF column[p] # NoIri \/ LatestOpen(tx.rows, p) # NoRow THEN tx
    ELSE Enqueued(tx, CreatePartOp(p, def))

PartDependency(tx, p, def) ==
    IF column[p] # NoIri THEN NoRow
    ELSE IF LatestOpen(tx.rows, p) # NoRow THEN LatestOpen(tx.rows, p)
    ELSE EnqueuedId(tx.rows, CreatePartOp(p, def))

\* enqueueCreateLot
CreateLot(tx, x, p, amount) ==
    IF tx.full \/ LatestOpen(tx.rows, x) # NoRow THEN tx
    ELSE Enqueued(tx, Op("create_lot", x,
                         <<column[p], PartDependency(tx, p, parts[p].def)>>, amount))

\* The two calls always come together.
CreatePartAndLot(tx, x, p, amount) ==
    CreateLot(EnsurePart(tx, p, parts[p].def), x, p, amount)

NotInOrder(tx, x, amount) ==                                         \* mutant
    LET dep == LatestOpen(tx.rows, x)
    IN  IF column[x] = NoIri /\ dep = NoRow THEN tx
        ELSE Enqueued(tx, Op("update_lot", x,
                <<column[x], IF column[x] = NoIri THEN dep ELSE NoRow>>, amount))

\* enqueueLotUpdate
UpdateLot(tx, x, amount) ==
    LET dep == LatestOpen(tx.rows, x)
    IN  IF column[x] = NoIri /\ dep = NoRow THEN tx
        ELSE Enqueued(tx, Op("update_lot", x, <<column[x], dep>>, amount))

DeletesSyncedLots(tx, x) ==                                          \* mutant
    IF column[x] = NoIri THEN tx
    ELSE Enqueued(tx, Op("delete_lot", x, <<column[x], LatestOpen(tx.rows, x)>>, NoOp.val))

\* enqueueDeleteLot
DeleteLot(tx, x) ==
    LET dep == LatestOpen(tx.rows, x)
    IN  IF column[x] = NoIri /\ dep = NoRow THEN tx
        ELSE Enqueued(tx, Op("delete_lot", x, <<column[x], dep>>, NoOp.val))

\* The delete_lot of a correction, which names the lot and no target.
DropLot(tx, x) ==
    IF column[x] = NoIri THEN tx
    ELSE Enqueued(tx, Op("delete_lot", NoTarget, <<column[x], NoRow>>, NoOp.val))

Idle(x) == LatestOpen(rows, x) = NoRow   \* assertNoPendingLotSync, assertNoPendingPartSync

-----------------------------------------------------------------------------
(* The commands.                                                            *)

\* assignQr, a new item of a part type.
AssignQr(x, p, amount) ==
    /\ stock[x].status = "none" /\ parts[p].live
    /\ stock' = [stock EXCEPT ![x] =
          [status |-> "assigned", part |-> p, qty |-> amount, fresh |-> TRUE]]
    /\ Commit(CreatePartAndLot(Begin, x, p, amount))
    /\ UNCHANGED <<column, parts, merged, backfills>>

\* recordEvent of a bulk stock (also one whose QR code is voided), and the increment
\* of autoIncrementExternalBulk.
RecordEvent(x, amount) ==
    /\ Stored(x)
    /\ stock' = [stock EXCEPT ![x].qty = amount, ![x].fresh = FALSE]
    /\ Commit(UpdateLot(Begin, x, amount))
    /\ UNCHANGED <<column, parts, merged, backfills>>

\* splitBulkStock, part of the amount, into a new bin.
SplitToNew(x, y, amount) ==
    /\ Stored(x) /\ y # x
    /\ amount > 0 /\ amount < stock[x].qty /\ stock[x].qty - amount \in Values
    /\ stock[y].status = "none"
    /\ stock' = [stock EXCEPT
          ![x].qty = @ - amount, ![x].fresh = FALSE,
          ![y] = [status |-> "assigned", part |-> stock[x].part, qty |-> amount,
                  fresh |-> TRUE]]
    /\ Commit(CreatePartAndLot(UpdateLot(Begin, x, stock[x].qty - amount),
                               y, stock[x].part, amount))
    /\ UNCHANGED <<column, parts, merged, backfills>>

\* splitBulkStock into a bin of the same part type at the destination.
SplitInto(x, y, amount) ==
    /\ Stored(x) /\ Stored(y) /\ y # x
    /\ stock[y].part = stock[x].part
    /\ amount > 0 /\ amount < stock[x].qty
    /\ {stock[x].qty - amount, stock[y].qty + amount} \subseteq Values
    /\ stock' = [stock EXCEPT ![x].qty = @ - amount, ![x].fresh = FALSE,
                              ![y].qty = @ + amount, ![y].fresh = FALSE]
    /\ Commit(UpdateLot(UpdateLot(Begin, x, stock[x].qty - amount),
                        y, stock[y].qty + amount))
    /\ UNCHANGED <<column, parts, merged, backfills>>

\* voidQrCode of an assigned code; the amount of a bulk stock stays in its row.
VoidQrCode(x) ==
    /\ stock[x].status = "assigned"
    /\ stock' = [stock EXCEPT ![x].status = "voided", ![x].fresh = FALSE]
    /\ Commit(DeleteLot(Begin, x))
    /\ UNCHANGED <<column, parts, merged, backfills>>

KeepsOldLot(x, p) ==                                                 \* mutant
    /\ Stored(x) /\ parts[p].live /\ p # stock[x].part
    /\ Idle(x)
    /\ stock' = [stock EXCEPT ![x].part = p]
    /\ column' = [column EXCEPT ![x] = NoIri]
    /\ Commit(CreatePartAndLot(Begin, x, p, stock[x].qty))
    /\ UNCHANGED <<parts, merged, backfills>>

\* reassignEntityPartType: the old lot is dropped and one is made under the new part.
\* It records a correction, not a stock event.
ReassignPartType(x, p) ==
    /\ Stored(x) /\ parts[p].live /\ p # stock[x].part
    /\ Idle(x)
    /\ stock' = [stock EXCEPT ![x].part = p]
    /\ IF column[x] = NoIri
       THEN Commit(Begin) /\ UNCHANGED column
       ELSE /\ column' = [column EXCEPT ![x] = NoIri]
            /\ LET tx == [Begin EXCEPT !.sync = SetSync(@, x, "pending")]
               IN  Commit(CreatePartAndLot(DropLot(tx, x), x, p, stock[x].qty))
    /\ UNCHANGED <<parts, merged, backfills>>

\* reverseIngestAssignment: the row and its column are deleted.
ReverseIngest(x) ==
    /\ stock[x].status = "assigned" /\ stock[x].fresh
    /\ Idle(x)
    /\ stock' = [stock EXCEPT ![x] = [NoItem EXCEPT !.status = "gone"]]
    /\ column' = [column EXCEPT ![x] = NoIri]
    /\ Commit(DropLot(Begin, x))
    /\ UNCHANGED <<parts, merged, backfills>>

\* editPartTypeDefinition
EditPartType(p, def) ==
    /\ parts[p].live
    /\ Idle(p)
    /\ parts' = [parts EXCEPT ![p].def = def]
    /\ Commit(IF column[p] # NoIri
              THEN Enqueued(Begin, Op("update_part", p, <<column[p], NoRow>>, def))
              ELSE EnsurePart(Begin, p, def))
    /\ UNCHANGED <<column, stock, merged, backfills>>

\* mergePartTypes: Part-DB is told nothing.
MergePartTypes(p, q) ==
    /\ parts[p].live /\ parts[q].live /\ p # q
    /\ LET moved == {x \in LotTarget : stock[x].part = p}
       IN  /\ stock' = [x \in LotTarget |->
                 IF x \in moved THEN [stock[x] EXCEPT !.part = q] ELSE stock[x]]
           /\ merged' = merged \cup moved
    /\ parts' = [parts EXCEPT ![p].live = FALSE]
    /\ UNCHANGED <<rows, syncStatus, column, ignored, backfills>>

\* backfillPartDbSync: every part type, then every item, that has no remote id and no
\* open row; items whose code is voided are not left out.
Backfill ==
    /\ backfills < MaxBackfills
    /\ LET bareParts == {p \in PartTarget : parts[p].live}
           bareItems == {x \in LotTarget : Stored(x) /\ column[x] = NoIri}
           withParts == FoldSet(LAMBDA p, tx : EnsurePart(tx, p, parts[p].def),
                                Begin, bareParts)
       IN  Commit(FoldSet(LAMBDA x, tx : CreateLot(tx, x, stock[x].part, stock[x].qty),
                          withParts, bareItems))
    /\ backfills' = backfills + 1
    /\ UNCHANGED <<column, stock, parts, merged>>

-----------------------------------------------------------------------------
Command ==
    \/ \E x \in LotTarget, v \in Values :
          \/ \E p \in PartTarget : AssignQr(x, p, v)
          \/ RecordEvent(x, v)
          \/ \E y \in LotTarget : SplitToNew(x, y, v) \/ SplitInto(x, y, v)
    \/ \E x \in LotTarget : VoidQrCode(x) \/ ReverseIngest(x)
    \/ \E x \in LotTarget, p \in PartTarget : ReassignPartType(x, p)
    \/ \E p \in PartTarget, def \in Definitions : EditPartType(p, def)
    \/ \E p, q \in PartTarget : MergePartTypes(p, q)
    \/ Backfill

LotNext ==
    \/ Command /\ UNCHANGED <<ticks, remote, effects, lost, spent>>
    \/ Delivering /\ UNCHANGED inventory

LotSpec == LotInit /\ [][LotNext]_lotVars
LotFairSpec == LotSpec /\ Fairness

-----------------------------------------------------------------------------
(* Properties.                                                              *)

RowsFor(x) == {r \in Present(rows) : rows[r].target = x}

\* The delete_lot of a correction, which has no target, of a lot of x.
Drops(r, x) == rows[r].target = NoTarget /\ remote[rows[r].ref].owner = x

\* Nothing is under way for x, or given up.
Settled(x) ==
    \A r \in Present(rows) :
        rows[r].target = x \/ Drops(r, x) => rows[r].status = "delivered"

LotsOf(x) == {i \in Iri : remote[i].kind = "lot" /\ remote[i].live /\ remote[i].owner = x}

\* Part-DB says of x what the inventory says.
Mirrored(x) ==
    /\ stock[x].status = "assigned" =>
          /\ column[x] \in LotsOf(x)
          /\ remote[column[x]].val = stock[x].qty
          /\ x \in merged \/ remote[remote[column[x]].part].owner = stock[x].part
    /\ stock[x].status = "voided" /\ backfills = 0 => LotsOf(x) = {}

\* Once everything enqueued for an item is delivered, Part-DB mirrors the item: its
\* amount and its part, or its absence, however events, corrections and deliveries
\* interleaved.  Excused are items whose last request INSERT OR IGNORE dropped, the
\* part of items that were merged, and the absence of voided items after a backfill.
MirrorSettles ==
    \A x \in LotTarget : Settled(x) /\ x \notin ignored => Mirrored(x)

\* The same without the excuse: what the plan of the sync promises.
MirrorAlwaysSettles == \A x \in LotTarget : Settled(x) => Mirrored(x)

\* The rows of one item or part reach Part-DB one after the other: at most one of them
\* is claimed or can be claimed, so an older amount never overwrites a newer one.
InOrder ==
    \A x \in Targets :
        Cardinality({r \in RowsFor(x) : rows[r].status \in Open /\ DepDelivered(rows, r)})
            <= 1

\* Every lot in Part-DB is known to the inventory: it is the lot of its item, or its
\* deletion is on its way, or the answer to its creation is.
NoOrphanLots ==
    \A x \in LotTarget : \A i \in LotsOf(x) :
        \/ column[x] = i
        \/ \E r \in Present(rows) : /\ rows[r].kind = "delete_lot" /\ rows[r].ref = i
                                    /\ rows[r].status # "delivered"
        \/ \E t \in Tick : ticks[t].call = "ok" /\ ticks[t].ref = i

\* "pending" is shown only while something is still on its way.
PendingIsWaiting ==
    \A x \in LotTarget : Stored(x) /\ syncStatus[x] = "pending" /\ x \notin ignored
                           => LatestOpen(rows, x) # NoRow

\* An item that was labelled gets its lot, unless an operation died or a correction
\* takes the item away.
LabelledGetsLot ==
    \A x \in LotTarget :
        stock[x].status = "assigned"
            ~> \/ column[x] # NoIri \/ stock[x].status # "assigned"
               \/ x \in ignored \/ \E r \in RowId : rows[r].status = "dead"

=============================================================================
