----------------------------- MODULE Inventory ------------------------------
(***************************************************************************)
(* InventoryService without Part-DB: the labels (qrcodes), the items they   *)
(* name (physical_instances and bulk_stocks), the borrow records, and the   *)
(* entities table that repeats every item.                                  *)
(*                                                                          *)
(* Every command runs in one synchronous handler and is one action.  The    *)
(* exception is scanCode, which reads a label, waits for Part-DB, and uses  *)
(* what it read afterwards.  Without an outbox no command waits for a sync  *)
(* to finish; LotSync models the service with one.                          *)
(***************************************************************************)
EXTENDS Integers

CONSTANTS
    Code,       \* what a label may say
    ScanKey(_), \* scanLookupCompactKey: a scanned code without separators and case
    StoredKey(_), \* what SQL makes of a stored code to compare it with that
    Batch,      \* the batches that may be registered, each a set of codes
    Item,       \* ids of items; an id is given out once
    NoItem,     \* assigned_id of a code that names nothing
    NoCode,     \* the label of an item that does not exist
    PartType,   \* ids of part types; an id is given out once
    NoPart,
    Countable,  \* the part types whose items are physical instances
    Place,      \* locations
    NoPlace,
    MaxQty,     \* bound: the largest amount of a bulk stock
    Scan        \* scans that may wait for Part-DB at the same time

ASSUME InventoryAssumption ==
    /\ NoItem \notin Item /\ NoCode \notin Code /\ NoPart \notin PartType
    /\ Batch \subseteq SUBSET Code
    /\ Countable \subseteq PartType
    /\ MaxQty \in Nat \ {0}
    /\ NoPlace \notin Place

\* SQL knows fewer separators and cases than scanLookupCompactKey does.  Where it comes
\* to the key of a scan all the same, it has left out what scanLookupCompactKey leaves out.
ASSUME SpellingAssumption ==
    \A c, d \in Code : StoredKey(d) = ScanKey(c) => ScanKey(d) = ScanKey(c)

VARIABLES
    qr,         \* qrcodes
    item,       \* physical_instances and bulk_stocks
    open,       \* instances with a row in borrow_records that is not returned
    entities,   \* the unified entities table
    types,      \* part_types
    scans       \* scanCode calls that wait for getLookupSummary

vars == <<qr, item, open, entities, types, scans>>

Qty == 0 .. MaxQty

InstanceStatus == {"available", "checked_out", "damaged", "lost", "consumed"}

QrCode == [status : {"none", "printed", "assigned", "voided"},
           batch : {"none", "printed", "external"}, item : Item \cup {NoItem}]
NoQr == [status |-> "none", batch |-> "none", item |-> NoItem]

\* kind "new": the id is not given out yet; "gone": its row was deleted.
Stock == [kind : {"new", "instance", "bulk", "gone"}, code : Code \cup {NoCode},
          part : PartType \cup {NoPart}, place : Place \cup {NoPlace}, status : InstanceStatus,
          qty : Qty, assigned : BOOLEAN, fresh : BOOLEAN]
Unborn == [kind |-> "new", code |-> NoCode, part |-> NoPart,
           place |-> NoPlace, status |-> "available",
           qty |-> 0, assigned |-> FALSE, fresh |-> FALSE]

Stored(x) == item[x].kind \in {"instance", "bulk"}
Bulk(x) == item[x].kind = "bulk"
External(row) == row.batch = "external"

\* The row of entities that repeats an item: everything but its stock events.  The two
\* columns of Part-DB, which the outbox later changes in the item's own table only, are in
\* neither table here.
Copy(rec) == [rec EXCEPT !.fresh = FALSE]

Init ==
    /\ qr = [c \in Code |-> NoQr]
    /\ item = [x \in Item |-> Unborn]
    /\ open = {}
    /\ entities = [x \in Item |-> Copy(Unborn)]
    /\ types = [p \in PartType |-> "new"]
    /\ scans = [s \in Scan |-> NoQr]

-----------------------------------------------------------------------------
(* Helpers.                                                                 *)

ExactOnly(codes, c) ==                                               \* mutant
    IF codes[c].status # "none" THEN {c} ELSE {}

\* The external codes that SQL takes for c.
Matching(codes, c) == {d \in Code : External(codes[d]) /\ StoredKey(d) = ScanKey(c)}

\* findQrRowByScannedCode: the code itself, else the external code it matches.  More than
\* one is an error.
Found(codes, c) == IF codes[c].status # "none" THEN {c} ELSE Matching(codes, c)

\* assignQr and reassignEntityQr register a barcode nobody knew.
Registered(codes, c) ==
    IF Found(codes, c) = {}
    THEN [codes EXCEPT ![c] = [status |-> "printed", batch |-> "external", item |-> NoItem]]
    ELSE codes

Assigned(codes, c, x) == [codes EXCEPT ![c].status = "assigned", ![c].item = x]
Printed(codes, c) == [codes EXCEPT ![c].status = "printed", ![c].item = NoItem]

\* enforcePartTypeCompatibility
Fits(kind, p) == (kind = "instance") <=> (p \in Countable)

\* syncEntityFromInstance, syncEntityFromBulk for the items of S.
SyncEntities(S) ==
    entities' = [x \in Item |-> IF x \in S THEN Copy(item'[x]) ELSE entities[x]]

\* insertEvent: the item's history is more than its label.
WithEvent(rec) == [rec EXCEPT !.fresh = FALSE]

\* The status an instance or the amount a bulk stock may start with.
Starts(kind) ==
    IF kind = "instance" THEN [status : InstanceStatus, qty : {1}]
    ELSE [status : {"available"}, qty : Qty \ {0}]

\* An item just labelled; one that is handed out at once (initialCheckout) has two events.
Labelled(kind, c, p, l, start) ==
    [kind |-> kind, code |-> c, part |-> p, place |-> l,
     status |-> start.status, qty |-> start.qty,
     assigned |-> start.status = "checked_out", fresh |-> start.status # "checked_out"]

\* What resolvePartType finds or creates.
Resolved(p) == [types EXCEPT ![p] = "live"]
Resolvable(p) == types[p] \in {"new", "live"}

-----------------------------------------------------------------------------
(* Labels and assignments.                                                  *)

\* registerQrBatch; INSERT OR IGNORE keeps the codes that exist.
RegisterQrBatch(b) ==
    /\ qr' = [c \in Code |->
          IF c \in b /\ qr[c].status = "none"
          THEN [status |-> "printed", batch |-> "printed", item |-> NoItem] ELSE qr[c]]
    /\ UNCHANGED <<item, open, entities, types, scans>>

\* The code is printed, and spelt as it is stored: the item's row refers to it.
Assignable(codes, c) == Found(codes, c) \in {{}, {c}}
                        /\ Registered(codes, c)[c].status = "printed"

OpenIf(start, S) == IF start.status = "checked_out" THEN open \cup S ELSE open

\* assignQr
AssignQr(c, x, kind, p, l, start) ==
    /\ Resolvable(p) /\ Fits(kind, p)
    /\ Assignable(qr, c)
    /\ qr' = Assigned(Registered(qr, c), c, x)
    /\ item' = [item EXCEPT ![x] = Labelled(kind, c, p, l, start)]
    /\ open' = OpenIf(start, {x})
    /\ types' = Resolved(p)
    /\ SyncEntities({x})
    /\ UNCHANGED scans

\* bulkAssignQrs of two codes: the second is looked up after the first is assigned, and
\* all is rolled back if it is refused.
BulkAssignQrs(c, d, x, y, kind, p, l, start) ==
    /\ c # d /\ x # y
    /\ Resolvable(p) /\ Fits(kind, p)
    /\ Assignable(qr, c)
    /\ LET first == Assigned(Registered(qr, c), c, x)
       IN  /\ Assignable(first, d)
           /\ qr' = Assigned(Registered(first, d), d, y)
    /\ item' = [item EXCEPT ![x] = Labelled(kind, c, p, l, start),
                            ![y] = Labelled(kind, d, p, l, start)]
    /\ open' = OpenIf(start, {x, y})
    /\ types' = Resolved(p)
    /\ SyncEntities({x, y})
    /\ UNCHANGED scans

\* assignQr writes an unknown barcode and a new part type before its transaction: both
\* stay when the command is then refused, for a part type that does not exist or does
\* not fit, or for a code spelt otherwise than it is stored.  A refusal inside a
\* transaction, as every one of bulkAssignQrs is, rolls them back and changes nothing.
RefusedAssign(c, kind, p) ==
    \/ /\ types[p] = "gone" \/ (types[p] = "live" /\ ~Fits(kind, p))
       /\ qr' = Registered(qr, c)
       /\ UNCHANGED <<item, open, entities, types, scans>>
    \/ /\ types[p] = "new" /\ Fits(kind, p)
       /\ \E d \in Code \ {c} : Found(qr, c) = {d} /\ qr[d].status = "printed"
       /\ types' = Resolved(p)
       /\ UNCHANGED <<qr, item, open, entities, scans>>

\* An instance is used up; the amount of a bulk stock stays in its row.
Voided(rec) ==
    WithEvent([rec EXCEPT !.status = IF rec.kind = "bulk" THEN @ ELSE "consumed"])

\* voidQrCode looks the label up in any spelling, but its UPDATE wants the exact one.
VoidQrCode(c) ==
    \E d \in Found(qr, c) :
       /\ Found(qr, c) = {d} /\ qr[d].status # "voided"
       /\ qr' = [qr EXCEPT ![c].status = IF c = d THEN "voided" ELSE @]
       /\ LET x == qr[d].item
          IN  IF x = NoItem THEN UNCHANGED <<item, open, entities>>
              ELSE /\ item' = [item EXCEPT ![x] = Voided(@)]
                   /\ open' = open \ {x}
                   /\ SyncEntities({x})
       /\ UNCHANGED <<types, scans>>

-----------------------------------------------------------------------------
(* Stock events.                                                            *)

InstanceAction == {"checked_out", "returned", "consumed", "damaged", "lost", "disposed"}

\* INSTANCE_TRANSITIONS, without the moves, which keep the status: from, event, to.
Transitions ==
    ({"available", "checked_out"} \X
        {<<"checked_out", "checked_out">>, <<"consumed", "consumed">>, <<"damaged", "damaged">>,
         <<"lost", "lost">>, <<"disposed", "consumed">>})
    \cup ({"checked_out", "damaged", "lost"} \X {<<"returned", "available">>})
    \cup ({"damaged", "lost"} \X {<<"disposed", "consumed">>})
    \cup {<<"damaged", <<"lost", "lost">>>>}

LostKeepsBorrow(x, event) ==                                         \* mutant
    IF event = "checked_out" THEN open \cup {x}
    ELSE IF event \in {"returned", "consumed", "disposed"} THEN open \ {x}
    ELSE open

\* applyBorrowSideEffect; closeMap has no entry for damaged.
BorrowAfter(x, event) ==
    IF event = "checked_out" THEN open \cup {x}
    ELSE IF event \in {"returned", "consumed", "disposed", "lost"} THEN open \ {x}
    ELSE open

\* The unique index lets one open record per instance in; a second checkout closes the
\* first one's.
BorrowAccepted(x, event) ==
    event = "checked_out" => x \notin open \/ item[x].status = "checked_out"

\* recordEvent of an instance other than a move; it may name another place all the same.
InstanceEvent(x, event, to, l) ==
    /\ item[x].kind = "instance"
    /\ <<item[x].status, <<event, to>>>> \in Transitions
    /\ BorrowAccepted(x, event)
    /\ item' = [item EXCEPT ![x] =
          WithEvent([@ EXCEPT !.status = to, !.assigned = (event = "checked_out"),
                              !.place = l])]
    /\ open' = BorrowAfter(x, event)
    /\ SyncEntities({x})
    /\ UNCHANGED <<qr, types, scans>>

\* recordEvent "moved", and bulkMoveEntities, which moves all or none.
Movable(x, l) == /\ Stored(x) /\ item[x].place # l
                 /\ Bulk(x) \/ item[x].status \notin {"lost", "consumed"}

Move(S, l) ==
    /\ \A x \in S : Movable(x, l)
    /\ item' = [x \in Item |->
          IF x \in S THEN WithEvent([item[x] EXCEPT !.place = l]) ELSE item[x]]
    /\ SyncEntities(S)
    /\ UNCHANGED <<qr, open, types, scans>>

\* getNextBulkQuantity; null is what Accepts refuses.
NextBulkQuantity(n, event, d) ==
    CASE event \in {"restocked", "adjusted"} -> n + d
      [] event = "consumed" -> n - d
      [] event = "stocktaken" -> d

TakesAnyAmount(n, event, d) == event = "adjusted" => n + d >= 0        \* mutant

Accepts(n, event, d) ==
    /\ event = "consumed" => d <= n
    /\ event = "adjusted" => n + d >= 0

\* The schema of a command: a quantity, or a change of one that only adjusted lets be negative.
Delta(event) ==
    CASE event \in {"restocked", "consumed"} -> 1 .. MaxQty
      [] event = "stocktaken" -> Qty
      [] event = "adjusted" -> (-MaxQty) .. MaxQty

BulkAction == {"restocked", "consumed", "stocktaken", "adjusted"}

\* recordEvent of a bulk stock other than a move.
BulkEvent(x, event, d, l) ==
    /\ Bulk(x) /\ Accepts(item[x].qty, event, d)
    /\ NextBulkQuantity(item[x].qty, event, d) <= MaxQty
    /\ item' = [item EXCEPT ![x] =
          WithEvent([item[x] EXCEPT !.qty = NextBulkQuantity(@, event, d), !.place = l])]
    /\ SyncEntities({x})
    /\ UNCHANGED <<qr, open, types, scans>>

-----------------------------------------------------------------------------
(* splitBulkStock.                                                          *)

Gains(x, q) == WithEvent([item[x] EXCEPT !.qty = @ + q])
Loses(x, q) == WithEvent([item[x] EXCEPT !.qty = @ - q])

MovedWhole(x, l) ==
    /\ Bulk(x) /\ l # item[x].place /\ item[x].qty > 0
    /\ item' = [item EXCEPT ![x] = WithEvent([@ EXCEPT !.place = l])]
    /\ SyncEntities({x})
    /\ UNCHANGED <<qr, open, types, scans>>

Destinations(x, l) ==
    {y \in Item : Bulk(y) /\ item[y].part = item[x].part /\ item[y].place = l}

CopiesSourceOnly(x, y, l, q) ==                                      \* mutant
    /\ Bulk(x) /\ l # item[x].place /\ q > 0 /\ q < item[x].qty
    /\ y \in Destinations(x, l) /\ item[y].qty + q \in Qty
    /\ item' = [item EXCEPT ![x] = Loses(x, q),
                            ![y] = Gains(y, q)]
    /\ SyncEntities({x})
    /\ UNCHANGED <<qr, open, types, scans>>

\* Part of the stock, into a bin of the same part type at the destination.
SplitInto(x, y, l, q) ==
    /\ Bulk(x) /\ l # item[x].place /\ q > 0 /\ q < item[x].qty
    /\ y \in Destinations(x, l) /\ item[y].qty + q \in Qty
    /\ item' = [item EXCEPT ![x] = Loses(x, q),
                            ![y] = Gains(y, q)]
    /\ SyncEntities({x, y})
    /\ UNCHANGED <<qr, open, types, scans>>

MadeUp(c, y) == [qr EXCEPT ![c] = [status |-> "assigned", batch |-> "external", item |-> y]]

\* Into a new bin, whose code is random, so that no spelling of it is known, and belongs
\* to the external batch.
SplitToNew(x, y, c, l, q) ==
    /\ Bulk(x) /\ l # item[x].place /\ q > 0 /\ q < item[x].qty
    /\ Destinations(x, l) = {}
    /\ \A d \in Code : ScanKey(d) = ScanKey(c) => qr[d].status = "none"
    /\ qr' = MadeUp(c, y)
    /\ item' = [item EXCEPT ![x] = Loses(x, q),
                    ![y] = Labelled("bulk", c, item[x].part, l,
                                    [status |-> "available", qty |-> q])]
    /\ SyncEntities({x, y})
    /\ UNCHANGED <<open, types, scans>>

-----------------------------------------------------------------------------
(* Corrections.                                                             *)

\* reassignEntityPartType
ReassignPartType(x, p) ==
    /\ Stored(x) /\ types[p] = "live" /\ Fits(item[x].kind, p)
    /\ item' = [item EXCEPT ![x].part = p]
    /\ SyncEntities({x})
    /\ UNCHANGED <<qr, open, types, scans>>

KeepsOldCode(x, c) ==                                                \* mutant
    /\ Stored(x) /\ qr[item[x].code].status = "assigned"
    /\ \E d \in Code :
          /\ Found(Registered(qr, c), c) = {d}
          /\ d # item[x].code /\ Registered(qr, c)[d].status = "printed"
          /\ qr' = Assigned(Registered(qr, c), d, x)
          /\ item' = [item EXCEPT ![x].code = d]
    /\ SyncEntities({x})
    /\ UNCHANGED <<open, types, scans>>

\* reassignEntityQr: the old label may be used again.  The new one is taken in the
\* spelling in which it is stored.
ReassignQr(x, c) ==
    /\ Stored(x) /\ qr[item[x].code].status = "assigned"
    /\ \E d \in Code :
          /\ Found(Registered(qr, c), c) = {d}
          /\ d # item[x].code /\ Registered(qr, c)[d].status = "printed"
          /\ qr' = Assigned(Printed(Registered(qr, c), item[x].code), d, x)
          /\ item' = [item EXCEPT ![x].code = d]
    /\ SyncEntities({x})
    /\ UNCHANGED <<open, types, scans>>

\* reverseIngestAssignment, and bulkReverseIngest, which reverses all or none: only items
\* that were labelled and nothing else.
ReverseIngest(S) ==
    /\ \A x \in S : Stored(x) /\ item[x].fresh /\ qr[item[x].code].status = "assigned"
    /\ qr' = [c \in Code |-> IF qr[c].item \in S THEN Printed(qr, c)[c] ELSE qr[c]]
    /\ item' = [x \in Item |-> IF x \in S THEN [Unborn EXCEPT !.kind = "gone"] ELSE item[x]]
    /\ SyncEntities(S)
    /\ UNCHANGED <<open, types, scans>>

\* mergePartTypes asks nothing of the two part types but that they differ.
MergePartTypes(p, r) ==
    /\ p # r /\ types[p] = "live" /\ types[r] = "live"
    /\ types' = [types EXCEPT ![p] = "gone"]
    /\ item' = [x \in Item |-> IF item[x].part = p THEN [item[x] EXCEPT !.part = r]
                               ELSE item[x]]
    /\ entities' = [x \in Item |-> IF entities[x].part = p
                                   THEN [entities[x] EXCEPT !.part = r] ELSE entities[x]]
    /\ UNCHANGED <<qr, open, scans>>

\* resetInventoryState empties every table.
Reset ==
    /\ qr' = [c \in Code |-> NoQr]
    /\ item' = [x \in Item |-> IF Stored(x) THEN [Unborn EXCEPT !.kind = "gone"] ELSE item[x]]
    /\ open' = {}
    /\ entities' = [x \in Item |-> Copy(item'[x])]
    /\ types' = [p \in PartType |-> IF types[p] = "live" THEN "gone" ELSE types[p]]
    /\ UNCHANGED scans

-----------------------------------------------------------------------------
(* scanCode.                                                                *)

\* It reads the label's row and waits for getLookupSummary.
ScanReads(s, c) ==
    /\ scans[s] = NoQr
    /\ \E d \in Found(qr, c) : Found(qr, c) = {d} /\ scans' = [scans EXCEPT ![s] = qr[d]]
    /\ UNCHANGED <<qr, item, open, entities, types>>

\* It answers.  The scan of an external code of a bulk stock adds to it, unless asked not to.
Counts(row) == /\ row.status = "assigned" /\ External(row)
               /\ row.item # NoItem /\ Bulk(row.item)

\* autoIncrementExternalBulk of one, or of the incrementAmount that was asked for.
ScanCounts(s, n) ==
    /\ Counts(scans[s]) /\ item[scans[s].item].qty + n \in Qty
    /\ item' = [item EXCEPT ![scans[s].item] = Gains(scans[s].item, n)]
    /\ SyncEntities({scans[s].item})
    /\ scans' = [scans EXCEPT ![s] = NoQr]
    /\ UNCHANGED <<qr, open, types>>

ScanAnswers(s) ==
    /\ scans[s] # NoQr
    /\ scans' = [scans EXCEPT ![s] = NoQr]
    /\ UNCHANGED <<qr, item, open, entities, types>>

-----------------------------------------------------------------------------
New == {x \in Item : item[x].kind = "new"}     \* ids not given out yet

Labelling ==
    \/ \E b \in Batch : RegisterQrBatch(b)
    \/ \E c \in Code, kind \in {"instance", "bulk"}, p \in PartType :
          \/ RefusedAssign(c, kind, p)
          \/ \E x \in New, l \in Place, start \in Starts(kind) :
                \/ AssignQr(c, x, kind, p, l, start)
                \/ \E d \in Code, y \in New : BulkAssignQrs(c, d, x, y, kind, p, l, start)
    \/ \E c \in Code : VoidQrCode(c)

Events ==
    \/ \E x \in Item, event \in InstanceAction, to \in InstanceStatus, l \in Place :
          InstanceEvent(x, event, to, l)
    \/ \E S \in (SUBSET Item) \ {{}}, l \in Place : Move(S, l)
    \/ \E x \in Item, event \in BulkAction, l \in Place :
          \E d \in Delta(event) : BulkEvent(x, event, d, l)
    \/ \E x \in Item, l \in Place :
          \/ MovedWhole(x, l)
          \/ \E q \in Qty :
                \/ \E y \in Item : SplitInto(x, y, l, q)
                \/ \E y \in New, c \in Code : SplitToNew(x, y, c, l, q)

Corrections ==
    \/ \E x \in Item, p \in PartType : ReassignPartType(x, p)
    \/ \E x \in Item, c \in Code : ReassignQr(x, c)
    \/ \E S \in (SUBSET Item) \ {{}} : ReverseIngest(S)
    \/ \E p, r \in PartType : MergePartTypes(p, r)
    \/ Reset

Scanning ==
    \E s \in Scan : \/ \E c \in Code : ScanReads(s, c)
                    \/ \E n \in 1 .. MaxQty : ScanCounts(s, n)
                    \/ ScanAnswers(s)

Next == Labelling \/ Events \/ Corrections \/ Scanning

Spec == Init /\ [][Next]_vars

-----------------------------------------------------------------------------
(* Properties.                                                              *)

TypeOK ==
    /\ qr \in [Code -> QrCode]
    /\ item \in [Item -> Stock]
    /\ open \subseteq Item
    /\ entities \in [Item -> Stock]
    /\ types \in [PartType -> {"new", "live", "gone"}]
    /\ scans \in [Scan -> QrCode]

\* Labels and items name each other: the label of every item names that item and no
\* other, and a label names only items that exist and wear it, through assignments,
\* splits, voids in any spelling, reversals and the reuse of labels after a correction.
CodeNamesOneItem ==
    /\ \A x \in Item : Stored(x) =>
          /\ item[x].code \in Code
          /\ qr[item[x].code].item = x
          /\ qr[item[x].code].status \in {"assigned", "voided"}
    /\ \A c \in Code :
          /\ qr[c].status \in {"none", "printed"} => qr[c].item = NoItem
          /\ qr[c].status = "assigned" => qr[c].item # NoItem
          /\ qr[c].item # NoItem => Stored(qr[c].item) /\ item[qr[c].item].code = c

\* An instance is borrowed if it is checked out, and only then or when it was reported
\* damaged before it came back (applyBorrowSideEffect leaves that record open).  An
\* instance that is available, lost, used up or deleted is borrowed by nobody.
BorrowMatchesStatus ==
    /\ \A x \in Item : item[x].kind = "instance" /\ item[x].status = "checked_out" => x \in open
    /\ \A x \in open : item[x].kind = "instance" /\ item[x].status \in {"checked_out", "damaged"}

\* The entities table says of every item what its own table says, so that
\* listEntitiesForPartType and getPartTypeItems answer alike about all but the lot and the
\* sync status, which the outbox changes behind its back.
EntitiesMirror == \A x \in Item : entities[x] = Copy(item[x])

\* No scan, in whatever spelling, is refused as ambiguous: although three commands register
\* external codes, and SQL compares by less than scanLookupCompactKey, no two of them are
\* ever taken for one scanned code.
NeverAmbiguous == \A c \in Code : \A d, e \in Matching(qr, c) : d = e

=============================================================================
