-------------------------- MODULE InventoryProofs ---------------------------
(***************************************************************************)
(* Proofs about Inventory, for every set of codes, items, part types,       *)
(* places and scans, and every bound on amounts.                            *)
(***************************************************************************)
EXTENDS Inventory, TLAPS

Kinds == {"instance", "bulk"}

-----------------------------------------------------------------------------
(* Facts about the operators.                                               *)

LEMMA QtyFacts == 0 \in Qty /\ 1 \in Qty /\ Qty \subseteq Nat
  BY InventoryAssumption DEF Qty

LEMMA UnbornType == Unborn \in Stock /\ [Unborn EXCEPT !.kind = "gone"] \in Stock
  BY QtyFacts DEF Unborn, Stock, InstanceStatus

LEMMA LabelledType ==
    ASSUME NEW kind \in Kinds, NEW c \in Code, NEW p \in PartType, NEW l \in Place,
           NEW start \in Starts(kind)
    PROVE  Labelled(kind, c, p, l, start) \in Stock
  BY QtyFacts DEF Labelled, Stock, Starts, InstanceStatus, Kinds

LEMMA WithEventType == ASSUME NEW rec \in Stock PROVE WithEvent(rec) \in Stock
  BY DEF WithEvent, Stock

LEMMA StatusType ==
    ASSUME NEW rec \in Stock, NEW to \in InstanceStatus, NEW a \in BOOLEAN, NEW l \in Place
    PROVE  [rec EXCEPT !.status = to, !.assigned = a, !.place = l] \in Stock
  BY DEF Stock

LEMMA BinType ==
    ASSUME NEW rec \in Stock, NEW event, NEW d, NEW l \in Place,
           NextBulkQuantity(rec.qty, event, d) \in Qty
    PROVE  [rec EXCEPT !.qty = NextBulkQuantity(@, event, d), !.place = l] \in Stock
  BY DEF Stock

\* What getNextBulkQuantity returns when the command is accepted is an amount again.
LEMMA NextQuantityType ==
    ASSUME NEW n \in Qty, NEW event \in BulkAction, NEW d \in Delta(event),
           Accepts(n, event, d), NextBulkQuantity(n, event, d) <= MaxQty
    PROVE  NextBulkQuantity(n, event, d) \in Qty
<1>1. n \in Nat /\ MaxQty \in Nat
  BY InventoryAssumption DEF Qty
<1>2. CASE event = "restocked"
  BY <1>1, <1>2 DEF Delta, NextBulkQuantity, Qty
<1>3. CASE event = "adjusted"
  BY <1>1, <1>3 DEF Delta, NextBulkQuantity, Accepts, Qty
<1>4. CASE event = "consumed"
  BY <1>1, <1>4 DEF Delta, NextBulkQuantity, Accepts, Qty
<1>5. CASE event = "stocktaken"
  BY <1>1, <1>5 DEF Delta, NextBulkQuantity, Qty
<1> QED
  BY <1>2, <1>3, <1>4, <1>5 DEF BulkAction

LEMMA PlaceType ==
    ASSUME NEW rec \in Stock, NEW l \in Place PROVE [rec EXCEPT !.place = l] \in Stock
  BY DEF Stock

LEMMA AmountType ==
    ASSUME NEW rec \in Stock, NEW q \in Qty PROVE [rec EXCEPT !.qty = q] \in Stock
  BY DEF Stock

LEMMA GainsType ==
    ASSUME TypeOK, NEW x \in Item, NEW q \in Qty, item[x].qty + q \in Qty
    PROVE  Gains(x, q) \in Stock
  BY AmountType, WithEventType DEF Gains, TypeOK

LEMMA LosesType ==
    ASSUME TypeOK, NEW x \in Item, NEW q \in Qty, q < item[x].qty
    PROVE  Loses(x, q) \in Stock
<1>1. item[x] \in Stock /\ item[x].qty \in Qty
  BY DEF TypeOK, Stock
<1>2. item[x].qty - q \in Qty
  BY <1>1, InventoryAssumption DEF Qty
<1> QED
  BY <1>1, <1>2, AmountType, WithEventType DEF Loses

LEMMA PartOfType ==
    ASSUME NEW rec \in Stock, NEW p \in PartType PROVE [rec EXCEPT !.part = p] \in Stock
  BY DEF Stock

LEMMA CodeType ==
    ASSUME NEW rec \in Stock, NEW c \in Code PROVE [rec EXCEPT !.code = c] \in Stock
  BY DEF Stock

LEMMA VoidedType == ASSUME NEW rec \in Stock PROVE Voided(rec) \in Stock
<1>1. [rec EXCEPT !.status = IF rec.kind = "bulk" THEN @ ELSE "consumed"] \in Stock
  BY DEF Stock, InstanceStatus
<1> QED
  BY <1>1, WithEventType DEF Voided

LEMMA RegisteredType ==
    ASSUME NEW codes \in [Code -> QrCode], NEW c \in Code
    PROVE  Registered(codes, c) \in [Code -> QrCode]
  BY DEF Registered, QrCode

LEMMA AssignedType ==
    ASSUME NEW codes \in [Code -> QrCode], NEW c \in Code, NEW x \in Item
    PROVE  Assigned(codes, c, x) \in [Code -> QrCode]
  BY DEF Assigned, QrCode

LEMMA AssignedFacts ==
    ASSUME NEW codes \in [Code -> QrCode], NEW c \in Code, NEW x \in Item
    PROVE  /\ Assigned(codes, c, x)[c].status = "assigned" /\ Assigned(codes, c, x)[c].item = x
           /\ \A e \in Code \ {c} : Assigned(codes, c, x)[e] = codes[e]
  BY DEF Assigned, QrCode

LEMMA PrintedFacts ==
    ASSUME NEW codes \in [Code -> QrCode], NEW c \in Code
    PROVE  Printed(codes, c)[c].status = "printed" /\ Printed(codes, c)[c].item = NoItem
  BY DEF Printed, QrCode

LEMMA PrintedType ==
    ASSUME NEW codes \in [Code -> QrCode], NEW c \in Code
    PROVE  Printed(codes, c) \in [Code -> QrCode]
  BY DEF Printed, QrCode

LEMMA CopyType == ASSUME NEW rec \in Stock PROVE Copy(rec) \in Stock
  BY DEF Copy, Stock

LEMMA SyncType ==
    ASSUME TypeOK, item' \in [Item -> Stock], NEW S, SyncEntities(S)
    PROVE  entities' \in [Item -> Stock]
  BY CopyType DEF TypeOK, SyncEntities

-----------------------------------------------------------------------------
(* Type correctness.                                                        *)

LEMMA InitTypeOK == Init => TypeOK
  BY UnbornType, CopyType DEF Init, TypeOK, NoQr, QrCode

LEMMA LabellingType == TypeOK /\ Labelling => TypeOK'
<1> SUFFICES ASSUME TypeOK, Labelling PROVE TypeOK'
  OBVIOUS
<1>0. /\ qr \in [Code -> QrCode] /\ item \in [Item -> Stock] /\ open \subseteq Item
      /\ types \in [PartType -> {"new", "live", "gone"}] /\ New \subseteq Item
  BY DEF TypeOK, New
<1>1. ASSUME NEW b \in Batch, RegisterQrBatch(b) PROVE TypeOK'
  BY <1>1 DEF RegisterQrBatch, TypeOK, QrCode
<1>2. ASSUME NEW c \in Code, NEW kind \in Kinds, NEW p \in PartType, RefusedAssign(c, kind, p)
      PROVE TypeOK'
  BY <1>0, <1>2, RegisteredType DEF RefusedAssign, TypeOK, Resolved
<1>3. ASSUME NEW c \in Code, NEW kind \in Kinds, NEW p \in PartType, NEW x \in New,
             NEW l \in Place, NEW start \in Starts(kind), AssignQr(c, x, kind, p, l, start)
      PROVE TypeOK'
  <2>1. item' \in [Item -> Stock]
    BY <1>0, <1>3, LabelledType DEF AssignQr
  <2>2. qr' \in [Code -> QrCode]
    BY <1>0, <1>3, RegisteredType, AssignedType DEF AssignQr
  <2>3. entities' \in [Item -> Stock]
    BY <1>3, <2>1, SyncType DEF AssignQr
  <2> QED
    BY <1>0, <1>3, <2>1, <2>2, <2>3 DEF AssignQr, TypeOK, OpenIf, Resolved
<1>4. ASSUME NEW c \in Code, NEW d \in Code, NEW kind \in Kinds, NEW p \in PartType,
             NEW x \in New, NEW y \in New, NEW l \in Place, NEW start \in Starts(kind),
             BulkAssignQrs(c, d, x, y, kind, p, l, start)
      PROVE TypeOK'
  <2>1. item' \in [Item -> Stock]
    BY <1>0, <1>4, LabelledType DEF BulkAssignQrs
  <2>2. Assigned(Registered(qr, c), c, x) \in [Code -> QrCode]
    BY <1>0, RegisteredType, AssignedType
  <2>3. qr' \in [Code -> QrCode]
    BY <1>0, <1>4, <2>2, RegisteredType, AssignedType DEF BulkAssignQrs
  <2>4. entities' \in [Item -> Stock]
    BY <1>4, <2>1, SyncType DEF BulkAssignQrs
  <2> QED
    BY <1>0, <1>4, <2>1, <2>3, <2>4 DEF BulkAssignQrs, TypeOK, OpenIf, Resolved
<1>5. ASSUME NEW c \in Code, VoidQrCode(c) PROVE TypeOK'
  <2>1. PICK d \in Found(qr, c) :
           /\ qr' = [qr EXCEPT ![c].status = IF c = d THEN "voided" ELSE @]
           /\ \/ UNCHANGED <<item, open, entities>>
              \/ /\ item' = [item EXCEPT ![qr[d].item] = Voided(@)]
                 /\ open' = open \ {qr[d].item} /\ SyncEntities({qr[d].item})
           /\ UNCHANGED <<types, scans>>
    BY <1>5 DEF VoidQrCode
  <2>2. qr' \in [Code -> QrCode]
    BY <1>0, <2>1 DEF QrCode
  <2>3. item' \in [Item -> Stock]
    BY <1>0, <2>1, VoidedType
  <2>4. entities' \in [Item -> Stock]
    BY <2>1, <2>3, SyncType DEF TypeOK
  <2> QED
    BY <2>1, <2>2, <2>3, <2>4 DEF TypeOK
<1> QED
  BY <1>1, <1>2, <1>3, <1>4, <1>5 DEF Labelling, Kinds

LEMMA EventsType == TypeOK /\ Events => TypeOK'
<1> SUFFICES ASSUME TypeOK, Events PROVE TypeOK'
  OBVIOUS
<1>0. /\ qr \in [Code -> QrCode] /\ item \in [Item -> Stock] /\ open \subseteq Item
      /\ New \subseteq Item
  BY DEF TypeOK, New
<1>1. ASSUME NEW x \in Item, NEW event \in InstanceAction, NEW to \in InstanceStatus,
             NEW l \in Place, InstanceEvent(x, event, to, l)
      PROVE TypeOK'
  <2>1. item' \in [Item -> Stock]
    BY <1>0, <1>1, StatusType, WithEventType DEF InstanceEvent
  <2> QED
    BY <1>0, <1>1, <2>1, SyncType DEF InstanceEvent, TypeOK, BorrowAfter
<1>2. ASSUME NEW S \in SUBSET Item, NEW l \in Place, Move(S, l) PROVE TypeOK'
  <2>1. item' \in [Item -> Stock]
    BY <1>0, <1>2, PlaceType, WithEventType DEF Move
  <2> QED
    BY <1>2, <2>1, SyncType DEF Move, TypeOK
<1>3. ASSUME NEW x \in Item, NEW event \in BulkAction, NEW l \in Place, NEW d \in Delta(event),
             BulkEvent(x, event, d, l)
      PROVE TypeOK'
  <2>1. item[x] \in Stock /\ item[x].qty \in Qty
    BY <1>0 DEF Stock
  <2>2. NextBulkQuantity(item[x].qty, event, d) \in Qty
    BY <1>3, <2>1, NextQuantityType DEF BulkEvent
  <2>3. WithEvent([item[x] EXCEPT !.qty = NextBulkQuantity(@, event, d), !.place = l]) \in Stock
    BY <2>1, <2>2, BinType, WithEventType
  <2>4. item' \in [Item -> Stock]
    BY <1>0, <1>3, <2>3 DEF BulkEvent
  <2> QED
    BY <1>3, <2>4, SyncType DEF BulkEvent, TypeOK
<1>4. ASSUME NEW x \in Item, NEW l \in Place, MovedWhole(x, l) PROVE TypeOK'
  <2>1. item' \in [Item -> Stock]
    BY <1>0, <1>4, PlaceType, WithEventType DEF MovedWhole
  <2> QED
    BY <1>4, <2>1, SyncType DEF MovedWhole, TypeOK
<1>5. ASSUME NEW x \in Item, NEW l \in Place, NEW y \in Item, NEW q \in Qty,
             SplitInto(x, y, l, q)
      PROVE TypeOK'
  <2>1. Loses(x, q) \in Stock /\ Gains(y, q) \in Stock
    BY <1>5, GainsType, LosesType DEF SplitInto
  <2>2. item' \in [Item -> Stock]
    BY <1>0, <1>5, <2>1 DEF SplitInto
  <2> QED
    BY <1>5, <2>2, SyncType DEF SplitInto, TypeOK
<1>6. ASSUME NEW x \in Item, NEW l \in Place, NEW y \in New, NEW c \in Code, NEW q \in Qty,
             SplitToNew(x, y, c, l, q)
      PROVE TypeOK'
  <2>1. Loses(x, q) \in Stock
    BY <1>6, LosesType DEF SplitToNew
  <2>2. Labelled("bulk", c, item[x].part, l, [status |-> "available", qty |-> q]) \in Stock
    BY <1>0 DEF Labelled, Stock, InstanceStatus
  <2>3. item' \in [Item -> Stock]
    BY <1>0, <1>6, <2>1, <2>2 DEF SplitToNew
  <2>4. qr' \in [Code -> QrCode]
    BY <1>0, <1>6 DEF SplitToNew, MadeUp, QrCode
  <2> QED
    BY <1>6, <2>3, <2>4, SyncType DEF SplitToNew, TypeOK
<1> QED
  BY <1>1, <1>2, <1>3, <1>4, <1>5, <1>6 DEF Events

LEMMA CorrectionsType == TypeOK /\ Corrections => TypeOK'
<1> SUFFICES ASSUME TypeOK, Corrections PROVE TypeOK'
  OBVIOUS
<1>0. /\ qr \in [Code -> QrCode] /\ item \in [Item -> Stock] /\ entities \in [Item -> Stock]
      /\ types \in [PartType -> {"new", "live", "gone"}]
  BY DEF TypeOK
<1>1. ASSUME NEW x \in Item, NEW p \in PartType, ReassignPartType(x, p) PROVE TypeOK'
  <2>1. item' \in [Item -> Stock]
    BY <1>0, <1>1, PartOfType DEF ReassignPartType
  <2> QED
    BY <1>1, <2>1, SyncType DEF ReassignPartType, TypeOK
<1>2. ASSUME NEW x \in Item, NEW c \in Code, ReassignQr(x, c) PROVE TypeOK'
  <2>1. PICK d \in Code :
          /\ qr' = Assigned(Printed(Registered(qr, c), item[x].code), d, x)
          /\ item' = [item EXCEPT ![x].code = d]
    BY <1>2 DEF ReassignQr
  <2>2. item' \in [Item -> Stock]
    BY <1>0, <2>1, CodeType
  <2>3. qr' \in [Code -> QrCode]
    <3>1. Registered(qr, c) \in [Code -> QrCode]
      BY <1>0, RegisteredType
    <3>2. Printed(Registered(qr, c), item[x].code) \in [Code -> QrCode]
      BY <3>1 DEF Printed, QrCode
    <3> QED
      BY <2>1, <3>2, AssignedType
  <2> QED
    BY <1>2, <2>2, <2>3, SyncType DEF ReassignQr, TypeOK
<1>3. ASSUME NEW S \in SUBSET Item, ReverseIngest(S) PROVE TypeOK'
  <2>1. item' \in [Item -> Stock]
    BY <1>0, <1>3, UnbornType DEF ReverseIngest
  <2>2. qr' \in [Code -> QrCode]
    BY <1>0, <1>3, PrintedType DEF ReverseIngest
  <2> QED
    BY <1>3, <2>1, <2>2, SyncType DEF ReverseIngest, TypeOK
<1>4. ASSUME NEW p \in PartType, NEW r \in PartType, MergePartTypes(p, r) PROVE TypeOK'
  BY <1>0, <1>4, PartOfType DEF MergePartTypes, TypeOK
<1>5. ASSUME Reset PROVE TypeOK'
  <2>1. item' \in [Item -> Stock]
    BY <1>0, <1>5, UnbornType DEF Reset
  <2> QED
    BY <1>0, <1>5, <2>1, CopyType DEF Reset, TypeOK, NoQr, QrCode
<1> QED
  BY <1>1, <1>2, <1>3, <1>4, <1>5 DEF Corrections

LEMMA ScanningType == TypeOK /\ Scanning => TypeOK'
<1> SUFFICES ASSUME TypeOK, Scanning PROVE TypeOK'
  OBVIOUS
<1>0. item \in [Item -> Stock] /\ qr \in [Code -> QrCode] /\ NoQr \in QrCode
  BY DEF TypeOK, NoQr, QrCode
<1>1. ASSUME NEW s \in Scan, NEW c \in Code, ScanReads(s, c) PROVE TypeOK'
  BY <1>0, <1>1 DEF ScanReads, Found, Matching, TypeOK
<1>2. ASSUME NEW s \in Scan, NEW n \in 1 .. MaxQty, ScanCounts(s, n) PROVE TypeOK'
  <2>1. item' \in [Item -> Stock]
    <3>1. scans[s].item \in Item
      BY <1>2, InventoryAssumption DEF ScanCounts, Counts, TypeOK, QrCode
    <3>2. Gains(scans[s].item, n) \in Stock
      BY <1>2, <3>1, GainsType, QtyFacts, InventoryAssumption DEF ScanCounts, Qty
    <3> QED
      BY <1>0, <1>2, <3>1, <3>2 DEF ScanCounts
  <2> QED
    BY <1>0, <1>2, <2>1, SyncType DEF ScanCounts, TypeOK
<1>3. ASSUME NEW s \in Scan, ScanAnswers(s) PROVE TypeOK'
  BY <1>0, <1>3 DEF ScanAnswers, TypeOK
<1> QED
  BY <1>1, <1>2, <1>3 DEF Scanning

\* The tables, the mirror and the scans in progress only ever hold what their columns
\* allow: no amount is negative after a command that getNextBulkQuantity or
\* splitBulkStock accepted, or after a scan that counted.
THEOREM Typing == Spec => []TypeOK
<1>1. TypeOK /\ [Next]_vars => TypeOK'
  <2>1. TypeOK /\ UNCHANGED vars => TypeOK'
    BY DEF TypeOK, vars
  <2> QED
    BY <2>1, LabellingType, EventsType, CorrectionsType, ScanningType DEF Next
<1> QED
  BY <1>1, InitTypeOK, PTL DEF Spec

-----------------------------------------------------------------------------
(* The entities table.                                                      *)

LEMMA SyncMirrors ==
    ASSUME EntitiesMirror, NEW S, SyncEntities(S),
           \A x \in Item : x \notin S => item'[x] = item[x]
    PROVE  EntitiesMirror'
  BY DEF EntitiesMirror, SyncEntities

LEMMA MirrorStep == TypeOK /\ EntitiesMirror /\ [Next]_vars => EntitiesMirror'
<1> SUFFICES ASSUME TypeOK, EntitiesMirror, [Next]_vars PROVE EntitiesMirror'
  OBVIOUS
<1>0. item \in [Item -> Stock] /\ entities \in [Item -> Stock]
  BY DEF TypeOK
<1>1. ASSUME UNCHANGED <<item, entities>> PROVE EntitiesMirror'
  BY <1>1 DEF EntitiesMirror
<1>2. CASE Labelling
  <2>1. ASSUME NEW b \in Batch, RegisterQrBatch(b) PROVE EntitiesMirror'
    BY <1>1, <2>1 DEF RegisterQrBatch
  <2>2. ASSUME NEW c \in Code, NEW kind \in Kinds, NEW p \in PartType,
               RefusedAssign(c, kind, p)
        PROVE EntitiesMirror'
    BY <1>1, <2>2 DEF RefusedAssign
  <2>3. ASSUME NEW c \in Code, NEW kind \in Kinds, NEW p \in PartType, NEW x \in New,
               NEW l \in Place, NEW start \in Starts(kind), AssignQr(c, x, kind, p, l, start)
        PROVE EntitiesMirror'
    BY <1>0, <2>3, SyncMirrors DEF AssignQr
  <2>4. ASSUME NEW c \in Code, NEW d \in Code, NEW kind \in Kinds, NEW p \in PartType,
               NEW x \in New, NEW y \in New, NEW l \in Place, NEW start \in Starts(kind),
               BulkAssignQrs(c, d, x, y, kind, p, l, start)
        PROVE EntitiesMirror'
    BY <1>0, <2>4, SyncMirrors DEF BulkAssignQrs
  <2>5. ASSUME NEW c \in Code, VoidQrCode(c) PROVE EntitiesMirror'
    <3>1. PICK x : \/ UNCHANGED <<item, entities>>
                   \/ item' = [item EXCEPT ![x] = Voided(@)] /\ SyncEntities({x})
      BY <2>5 DEF VoidQrCode
    <3> QED
      BY <1>0, <1>1, <3>1, SyncMirrors
  <2> QED
    BY <1>2, <2>1, <2>2, <2>3, <2>4, <2>5 DEF Labelling, Kinds
<1>3. CASE Events
  <2>1. ASSUME NEW x \in Item, NEW event \in InstanceAction, NEW to \in InstanceStatus,
               NEW l \in Place, InstanceEvent(x, event, to, l)
        PROVE EntitiesMirror'
    BY <1>0, <2>1, SyncMirrors DEF InstanceEvent
  <2>2. ASSUME NEW S \in SUBSET Item, NEW l \in Place, Move(S, l) PROVE EntitiesMirror'
    BY <1>0, <2>2, SyncMirrors DEF Move
  <2>3. ASSUME NEW x \in Item, NEW event \in BulkAction, NEW l \in Place, NEW d \in Delta(event),
               BulkEvent(x, event, d, l)
        PROVE EntitiesMirror'
    BY <1>0, <2>3, SyncMirrors DEF BulkEvent
  <2>4. ASSUME NEW x \in Item, NEW l \in Place, MovedWhole(x, l) PROVE EntitiesMirror'
    BY <1>0, <2>4, SyncMirrors DEF MovedWhole
  <2>5. ASSUME NEW x \in Item, NEW l \in Place, NEW y \in Item, NEW q \in Qty,
               SplitInto(x, y, l, q)
        PROVE EntitiesMirror'
    BY <1>0, <2>5, SyncMirrors DEF SplitInto
  <2>6. ASSUME NEW x \in Item, NEW l \in Place, NEW y \in New, NEW c \in Code, NEW q \in Qty,
               SplitToNew(x, y, c, l, q)
        PROVE EntitiesMirror'
    BY <1>0, <2>6, SyncMirrors DEF SplitToNew
  <2> QED
    BY <1>3, <2>1, <2>2, <2>3, <2>4, <2>5, <2>6 DEF Events
<1>4. CASE Corrections
  <2>1. ASSUME NEW x \in Item, NEW p \in PartType, ReassignPartType(x, p)
        PROVE EntitiesMirror'
    BY <1>0, <2>1, SyncMirrors DEF ReassignPartType
  <2>2. ASSUME NEW x \in Item, NEW c \in Code, ReassignQr(x, c) PROVE EntitiesMirror'
    <3>1. PICK d \in Code : item' = [item EXCEPT ![x].code = d]
      BY <2>2 DEF ReassignQr
    <3> QED
      BY <1>0, <2>2, <3>1, SyncMirrors DEF ReassignQr
  <2>3. ASSUME NEW S \in SUBSET Item, ReverseIngest(S) PROVE EntitiesMirror'
    BY <1>0, <2>3, SyncMirrors DEF ReverseIngest
  <2>4. ASSUME NEW p \in PartType, NEW r \in PartType, MergePartTypes(p, r)
        PROVE EntitiesMirror'
    <3> SUFFICES ASSUME NEW x \in Item PROVE entities'[x] = Copy(item'[x])
      BY DEF EntitiesMirror
    <3>1. entities[x] = [item[x] EXCEPT !.fresh = FALSE] /\ item[x] \in Stock
      BY <1>0 DEF EntitiesMirror, Copy
    <3>2. entities[x].part = item[x].part
      BY <3>1 DEF Stock
    <3>3. CASE item[x].part = p
      <4>1. item'[x] = [item[x] EXCEPT !.part = r]
        BY <2>4, <3>3 DEF MergePartTypes
      <4>2. entities'[x] = [entities[x] EXCEPT !.part = r]
        BY <2>4, <3>2, <3>3 DEF MergePartTypes
      <4> QED
        BY <3>1, <4>1, <4>2 DEF Copy, Stock
    <3>4. CASE item[x].part # p
      BY <2>4, <3>1, <3>2, <3>4 DEF MergePartTypes, Copy
    <3> QED
      BY <3>3, <3>4
  <2>5. ASSUME Reset PROVE EntitiesMirror'
    BY <2>5 DEF Reset, EntitiesMirror
  <2> QED
    BY <1>4, <2>1, <2>2, <2>3, <2>4, <2>5 DEF Corrections
<1>5. CASE Scanning
  <2>1. ASSUME NEW s \in Scan, NEW n \in 1 .. MaxQty, ScanCounts(s, n) PROVE EntitiesMirror'
    BY <1>0, <2>1, SyncMirrors DEF ScanCounts
  <2> QED
    BY <1>1, <1>5, <2>1 DEF Scanning, ScanReads, ScanAnswers
<1> QED
  BY <1>1, <1>2, <1>3, <1>4, <1>5 DEF Next, vars

\* The entities table never disagrees with the tables it repeats, Part-DB's two columns
\* apart, which the model leaves out.
THEOREM Mirror == Spec => []EntitiesMirror
<1>1. Init => EntitiesMirror
  BY DEF Init, EntitiesMirror
<1> QED
  BY <1>1, Typing, MirrorStep, PTL DEF Spec

-----------------------------------------------------------------------------
(* Labels.                                                                  *)

\* Commands that leave the labels of items alone.
LEMMA SameLabels ==
    ASSUME TypeOK, CodeNamesOneItem, UNCHANGED qr,
           \A x \in Item : item'[x].kind = item[x].kind /\ item'[x].code = item[x].code
    PROVE  CodeNamesOneItem'
<1>1. \A c \in Code : qr[c].item \in Item \cup {NoItem}
  BY DEF TypeOK, QrCode
<1> QED
  BY <1>1 DEF CodeNamesOneItem, Stored

LEMMA RegisteredFacts ==
    ASSUME TypeOK, CodeNamesOneItem, NEW c \in Code
    PROVE  /\ \A e \in Code : e # c => Registered(qr, c)[e] = qr[e]
           /\ Registered(qr, c)[c].status = "printed" => qr[c].item = NoItem
           /\ Registered(qr, c)[c].item = qr[c].item
           /\ Registered(qr, c) \in [Code -> QrCode]
           /\ \A e \in Code : Registered(qr, c)[e].status = "printed"
                                => Registered(qr, c)[e].item = NoItem
           /\ Registered(qr, c)[c].status = qr[c].status
                 \/ (qr[c].status = "none" /\ Registered(qr, c)[c].status = "printed")
<1>1. qr \in [Code -> QrCode] /\ Registered(qr, c) \in [Code -> QrCode]
  BY RegisteredType DEF TypeOK
<1>2. CASE Found(qr, c) = {}
  <2>1. qr[c].status = "none"
    BY <1>2 DEF Found
  <2>2. qr[c].item = NoItem
    BY <2>1 DEF CodeNamesOneItem
  <2>3. Registered(qr, c) = [qr EXCEPT ![c] =
           [status |-> "printed", batch |-> "external", item |-> NoItem]]
    BY <1>2 DEF Registered
  <2> QED
    BY <1>1, <2>1, <2>2, <2>3 DEF CodeNamesOneItem
<1>3. CASE Found(qr, c) # {}
  <2>1. Registered(qr, c) = qr
    BY <1>3 DEF Registered
  <2> QED
    BY <1>1, <2>1 DEF CodeNamesOneItem
<1> QED
  BY <1>2, <1>3

\* The new items of S take the free labels of C.
Take(S, C) ==
    /\ S \subseteq New /\ C \subseteq Code
    /\ \A e \in C : /\ qr[e].item = NoItem /\ qr'[e].status = "assigned"
                    /\ qr'[e].item \in S /\ item'[qr'[e].item].code = e
    /\ \A e \in Code \ C : qr'[e] = qr[e]
    /\ \A y \in S : /\ item'[y].kind \in Kinds /\ item'[y].code \in C
                    /\ qr'[item'[y].code].item = y
    /\ \A y \in Item \ S : item'[y].kind = item[y].kind /\ item'[y].code = item[y].code

LEMMA NewLabels ==
    ASSUME TypeOK, CodeNamesOneItem, NEW C, NEW S, Take(S, C) PROVE CodeNamesOneItem'
<1> USE DEF Take
<1>1. S \subseteq Item /\ NoItem \notin S /\ \A y \in S : ~Stored(y)
  BY InventoryAssumption DEF New, Stored
<1>2. \A e \in Code : qr[e].item \notin S /\ qr[e].item \in Item \cup {NoItem}
  BY <1>1 DEF CodeNamesOneItem, TypeOK, QrCode
<1>3. \A y \in Item : Stored(y) => item[y].code \notin C
  BY InventoryAssumption DEF CodeNamesOneItem
<1>4. ASSUME NEW y \in Item, item'[y].kind \in Kinds
      PROVE  /\ item'[y].code \in Code /\ qr'[item'[y].code].item = y
             /\ qr'[item'[y].code].status \in {"assigned", "voided"}
  <2>1. CASE y \in S
    BY <2>1
  <2>2. CASE y \notin S
    <3>1. Stored(y) /\ item'[y].code = item[y].code
      BY <1>4, <2>2 DEF Stored, Kinds
    <3> QED
      BY <1>3, <3>1 DEF CodeNamesOneItem
  <2> QED
    BY <2>1, <2>2
<1>5. ASSUME NEW e \in Code
      PROVE  /\ qr'[e].status \in {"none", "printed"} => qr'[e].item = NoItem
             /\ qr'[e].status = "assigned" => qr'[e].item # NoItem
             /\ qr'[e].item # NoItem =>
                    item'[qr'[e].item].kind \in Kinds /\ item'[qr'[e].item].code = e
  <2>1. CASE e \in C
    BY <1>1, <2>1
  <2>2. CASE e \notin C
    <3>1. qr'[e] = qr[e]
      BY <2>2
    <3>2. ASSUME qr[e].item # NoItem
          PROVE  /\ Stored(qr[e].item) /\ item[qr[e].item].code = e
                 /\ item'[qr[e].item].kind = item[qr[e].item].kind
                 /\ item'[qr[e].item].code = item[qr[e].item].code
      BY <1>2, <3>2 DEF CodeNamesOneItem
    <3> QED
      BY <3>1, <3>2 DEF CodeNamesOneItem, Stored, Kinds
  <2> QED
    BY <2>1, <2>2
<1> QED
  BY <1>4, <1>5 DEF CodeNamesOneItem, Stored, Kinds

LEMMA LabelsStep == TypeOK /\ CodeNamesOneItem /\ [Next]_vars => CodeNamesOneItem'
<1> SUFFICES ASSUME TypeOK, CodeNamesOneItem, [Next]_vars PROVE CodeNamesOneItem'
  OBVIOUS
<1>0. /\ qr \in [Code -> QrCode] /\ item \in [Item -> Stock] /\ New \subseteq Item
  BY DEF TypeOK, New
<1>1. CASE Labelling
  <2>1. ASSUME NEW b \in Batch, RegisterQrBatch(b) PROVE CodeNamesOneItem'
    BY <1>0, <2>1 DEF RegisterQrBatch, CodeNamesOneItem, Stored
  <2>2. ASSUME NEW c \in Code, NEW kind \in Kinds, NEW p \in PartType,
               RefusedAssign(c, kind, p)
        PROVE CodeNamesOneItem'
    <3>1. UNCHANGED item /\ (qr' = Registered(qr, c) \/ qr' = qr)
      BY <2>2 DEF RefusedAssign
    <3> QED
      BY <1>0, <3>1, RegisteredFacts, SameLabels DEF CodeNamesOneItem, Stored
  <2>3. ASSUME NEW c \in Code, NEW kind \in Kinds, NEW p \in PartType, NEW x \in New,
               NEW l \in Place, NEW start \in Starts(kind), AssignQr(c, x, kind, p, l, start)
        PROVE CodeNamesOneItem'
    <3>1. /\ qr[c].item = NoItem /\ qr'[c].status = "assigned" /\ qr'[c].item = x
          /\ \A e \in Code \ {c} : qr'[e] = qr[e]
      BY <1>0, <2>3, RegisteredFacts DEF AssignQr, Assignable, Assigned, QrCode
    <3>2. /\ item'[x].kind \in Kinds /\ item'[x].code = c
          /\ \A y \in Item \ {x} : item'[y] = item[y]
      BY <1>0, <2>3 DEF AssignQr, Labelled
    <3>3. Take({x}, {c})
      BY <3>1, <3>2 DEF Take
    <3> QED
      BY <3>3, NewLabels
  <2>4. ASSUME NEW c \in Code, NEW d \in Code, NEW kind \in Kinds, NEW p \in PartType,
               NEW x \in New, NEW y \in New, NEW l \in Place, NEW start \in Starts(kind),
               BulkAssignQrs(c, d, x, y, kind, p, l, start)
        PROVE CodeNamesOneItem'
    <3> DEFINE first == Assigned(Registered(qr, c), c, x)
    <3>1. /\ qr[c].item = NoItem /\ first[c].status = "assigned" /\ first[c].item = x
          /\ \A e \in Code \ {c} : first[e] = qr[e]
          /\ first \in [Code -> QrCode]
      <4>1. Registered(qr, c)[c].status = "printed"
        BY <2>4 DEF BulkAssignQrs, Assignable
      <4> QED
        BY <1>0, <4>1, RegisteredFacts, AssignedFacts, AssignedType
    <3>6. /\ c # d /\ x # y /\ qr' = Assigned(Registered(first, d), d, y)
          /\ Registered(first, d)[d].status = "printed"
      BY <2>4 DEF BulkAssignQrs, Assignable
    <3> HIDE DEF first
    <3>2. /\ first[d].item = NoItem
          /\ \A e \in Code \ {d} : Registered(first, d)[e] = first[e]
          /\ Registered(first, d) \in [Code -> QrCode]
      <4>1. CASE Found(first, d) = {}
        <5>1. first[d].status = "none"
          BY <4>1 DEF Found
        <5> QED
          BY <3>1, <3>6, <4>1, <5>1 DEF Registered, CodeNamesOneItem, QrCode
      <4>2. CASE Found(first, d) # {}
        BY <3>1, <3>6, <4>2 DEF Registered, CodeNamesOneItem
      <4> QED
        BY <4>1, <4>2
    <3>3. /\ qr'[c].status = "assigned" /\ qr'[c].item = x
          /\ qr[d].item = NoItem /\ qr'[d].status = "assigned" /\ qr'[d].item = y
          /\ \A e \in Code \ {c, d} : qr'[e] = qr[e]
      BY <1>0, <3>1, <3>6, <3>2 DEF Assigned, QrCode
    <3>4. /\ item'[x].kind \in Kinds /\ item'[x].code = c
          /\ item'[y].kind \in Kinds /\ item'[y].code = d
          /\ \A z \in Item \ {x, y} : item'[z] = item[z]
      BY <1>0, <2>4, <3>6 DEF BulkAssignQrs, Labelled, Kinds
    <3>5. Take({x, y}, {c, d})
      BY <3>1, <3>6, <3>3, <3>4 DEF Take
    <3> QED
      BY <3>5, NewLabels
  <2>5. ASSUME NEW c \in Code, VoidQrCode(c) PROVE CodeNamesOneItem'
    <3>1. /\ \A e \in Code : qr'[e].item = qr[e].item
          /\ \A e \in Code : qr'[e].status \in {qr[e].status, "voided"}
      BY <1>0, <2>5 DEF VoidQrCode, QrCode
    <3>2. PICK x : UNCHANGED item \/ item' = [item EXCEPT ![x] = Voided(@)]
      BY <2>5 DEF VoidQrCode
    <3>3. \A y \in Item : item'[y].kind = item[y].kind /\ item'[y].code = item[y].code
      <4>1. \A rec \in Stock : Voided(rec).kind = rec.kind /\ Voided(rec).code = rec.code
        BY DEF Voided, WithEvent, Stock
      <4> QED
        BY <1>0, <3>2, <4>1
    <3>4. \A e \in Code : qr[e].item \in Item \cup {NoItem}
      BY <1>0 DEF QrCode
    <3> QED
      BY <3>1, <3>3, <3>4 DEF CodeNamesOneItem, Stored
  <2> QED
    BY <1>1, <2>1, <2>2, <2>3, <2>4, <2>5 DEF Labelling, Kinds
<1>2. CASE Events
  <2>1. ASSUME NEW x \in Item, NEW event \in InstanceAction, NEW to \in InstanceStatus,
               NEW l \in Place, InstanceEvent(x, event, to, l)
        PROVE CodeNamesOneItem'
    BY <1>0, <2>1, SameLabels DEF InstanceEvent, WithEvent, Stock
  <2>2. ASSUME NEW S \in SUBSET Item, NEW l \in Place, Move(S, l) PROVE CodeNamesOneItem'
    BY <1>0, <2>2, SameLabels DEF Move, WithEvent, Stock
  <2>3. ASSUME NEW x \in Item, NEW event \in BulkAction, NEW l \in Place, NEW d \in Delta(event),
               BulkEvent(x, event, d, l)
        PROVE CodeNamesOneItem'
    BY <1>0, <2>3, SameLabels DEF BulkEvent, WithEvent, Stock
  <2>4. ASSUME NEW x \in Item, NEW l \in Place, MovedWhole(x, l) PROVE CodeNamesOneItem'
    BY <1>0, <2>4, SameLabels DEF MovedWhole, WithEvent, Stock
  <2>5. ASSUME NEW x \in Item, NEW l \in Place, NEW y \in Item, NEW q \in Qty,
               SplitInto(x, y, l, q)
        PROVE CodeNamesOneItem'
    BY <1>0, <2>5, SameLabels DEF SplitInto, WithEvent, Gains, Loses, Stock
  <2>6. ASSUME NEW x \in Item, NEW l \in Place, NEW y \in New, NEW c \in Code, NEW q \in Qty,
               SplitToNew(x, y, c, l, q)
        PROVE CodeNamesOneItem'
    <3>1. x # y /\ qr[c].status = "none"
      BY <2>6 DEF SplitToNew, New, Bulk
    <3>2. /\ qr[c].item = NoItem /\ qr'[c].status = "assigned" /\ qr'[c].item = y
          /\ \A e \in Code \ {c} : qr'[e] = qr[e]
      BY <1>0, <2>6, <3>1 DEF SplitToNew, MadeUp, CodeNamesOneItem
    <3>3. /\ item'[y].kind \in Kinds /\ item'[y].code = c
          /\ \A z \in Item \ {y} : item'[z].kind = item[z].kind /\ item'[z].code = item[z].code
      BY <1>0, <2>6, <3>1 DEF SplitToNew, Labelled, Loses, WithEvent, Stock, Kinds
    <3>4. Take({y}, {c})
      BY <3>2, <3>3 DEF Take
    <3> QED
      BY <3>4, NewLabels
  <2> QED
    BY <1>2, <2>1, <2>2, <2>3, <2>4, <2>5, <2>6 DEF Events
<1>3. CASE Corrections
  <2>1. ASSUME NEW x \in Item, NEW p \in PartType, ReassignPartType(x, p)
        PROVE CodeNamesOneItem'
    BY <1>0, <2>1, SameLabels DEF ReassignPartType, Stock
  <2>2. ASSUME NEW x \in Item, NEW c \in Code, ReassignQr(x, c) PROVE CodeNamesOneItem'
    <3> DEFINE R == Registered(qr, c)
               o == item[x].code
    <3>1. PICK d \in Code :
             /\ d # o /\ R[d].status = "printed"
             /\ qr' = Assigned(Printed(R, o), d, x) /\ item' = [item EXCEPT ![x].code = d]
      BY <2>2 DEF ReassignQr
    <3>2. Stored(x) /\ o \in Code /\ qr[o].item = x
      BY <2>2 DEF ReassignQr, CodeNamesOneItem
    <3>3. /\ R[d].item = NoItem /\ R \in [Code -> QrCode]
          /\ \A e \in Code : R[e].item = qr[e].item
          /\ \A e \in Code : R[e].status = qr[e].status
                             \/ (qr[e].status = "none" /\ R[e].status = "printed")
      BY <3>1, RegisteredFacts
    <3> HIDE DEF R, o
    <3>4. /\ qr'[o].status = "printed" /\ qr'[o].item = NoItem
          /\ qr'[d].status = "assigned" /\ qr'[d].item = x
          /\ \A e \in Code \ {o, d} : qr'[e] = R[e]
      BY <3>1, <3>2, <3>3 DEF Assigned, Printed, QrCode
    <3>5. /\ \A y \in Item : item'[y].kind = item[y].kind
          /\ \A y \in Item \ {x} : item'[y].code = item[y].code
          /\ item'[x].code = d
      BY <1>0, <3>1 DEF Stock
    <3>6. ASSUME NEW y \in Item, Stored(y), y # x
          PROVE  item[y].code \in Code \ {o, d}
      BY <3>2, <3>3, <3>6, InventoryAssumption DEF CodeNamesOneItem
    <3>7. \A e \in Code \ {o, d} : qr'[e].item \in (Item \ {x}) \cup {NoItem}
      BY <1>0, <3>2, <3>3, <3>4 DEF QrCode, CodeNamesOneItem, o
    <3>8. \A y \in Item : Stored(y)' =>
             /\ item'[y].code \in Code /\ qr'[item'[y].code].item = y
             /\ qr'[item'[y].code].status \in {"assigned", "voided"}
      BY <3>3, <3>4, <3>5, <3>6 DEF Stored, CodeNamesOneItem
    <3>9. \A e \in Code :
             /\ qr'[e].status \in {"none", "printed"} => qr'[e].item = NoItem
             /\ qr'[e].status = "assigned" => qr'[e].item # NoItem
             /\ qr'[e].item # NoItem =>
                   item'[qr'[e].item].kind \in Kinds /\ item'[qr'[e].item].code = e
      BY <3>2, <3>3, <3>4, <3>5, <3>7, InventoryAssumption
         DEF Stored, CodeNamesOneItem, Kinds
    <3> QED
      BY <3>8, <3>9 DEF Stored, Kinds, CodeNamesOneItem
  <2>3. ASSUME NEW S \in SUBSET Item, ReverseIngest(S) PROVE CodeNamesOneItem'
    <3>1. \A e \in Code : IF qr[e].item \in S
                          THEN qr'[e].status = "printed" /\ qr'[e].item = NoItem
                          ELSE qr'[e] = qr[e]
      BY <1>0, <2>3, PrintedFacts DEF ReverseIngest
    <3>2. \A y \in Item : IF y \in S THEN item'[y].kind = "gone" ELSE item'[y] = item[y]
      BY <2>3 DEF ReverseIngest, Unborn
    <3>3. \A e \in Code : qr[e].item \in Item \cup {NoItem}
      BY <1>0 DEF QrCode
    <3> QED
      BY <3>1, <3>2, <3>3 DEF CodeNamesOneItem, Stored
  <2>4. ASSUME NEW p \in PartType, NEW r \in PartType, MergePartTypes(p, r)
        PROVE CodeNamesOneItem'
    BY <1>0, <2>4, SameLabels DEF MergePartTypes, Stock
  <2>5. ASSUME Reset PROVE CodeNamesOneItem'
    BY <2>5 DEF Reset, CodeNamesOneItem, Stored, NoQr, Unborn
  <2> QED
    BY <1>3, <2>1, <2>2, <2>3, <2>4, <2>5 DEF Corrections
<1>4. CASE Scanning
  <2>1. ASSUME NEW s \in Scan, NEW n \in 1 .. MaxQty, ScanCounts(s, n) PROVE CodeNamesOneItem'
    BY <1>0, <2>1, SameLabels DEF ScanCounts, Gains, WithEvent, Stock
  <2>2. ASSUME UNCHANGED <<qr, item>> PROVE CodeNamesOneItem'
    BY <2>2, SameLabels
  <2> QED
    BY <1>4, <2>1, <2>2 DEF Scanning, ScanReads, ScanAnswers
<1>5. CASE UNCHANGED vars
  BY <1>5, SameLabels DEF vars
<1> QED
  BY <1>1, <1>2, <1>3, <1>4, <1>5 DEF Next

\* Labels and items name each other, whatever is assigned, split, voided, reversed or
\* corrected, with any number of labels and items.
THEOREM Labels == Spec => []CodeNamesOneItem
<1>1. Init => CodeNamesOneItem
  BY DEF Init, CodeNamesOneItem, Stored, NoQr, Unborn
<1> QED
  BY <1>1, Typing, LabelsStep, PTL DEF Spec

-----------------------------------------------------------------------------
(* Borrows.                                                                 *)

\* An item that can be reversed has one event, its label: no borrow was ever opened.
Borrows == BorrowMatchesStatus /\ \A x \in open : ~item[x].fresh

\* Where each event leads.
LEMMA TransitionFacts ==
    ASSUME NEW from, NEW event, NEW to, <<from, <<event, to>>>> \in Transitions
    PROVE  <<event, to>> \in {<<"checked_out", "checked_out">>, <<"consumed", "consumed">>,
               <<"damaged", "damaged">>, <<"lost", "lost">>, <<"disposed", "consumed">>,
               <<"returned", "available">>}
  BY DEF Transitions

\* Commands that leave the status of every item alone and add no event-free one.
LEMMA SameBorrows ==
    ASSUME TypeOK, Borrows, UNCHANGED open,
           \A x \in open : /\ item'[x].kind = item[x].kind /\ item'[x].status = item[x].status
                           /\ item'[x].fresh \in {FALSE, item[x].fresh},
           \A x \in Item : item'[x].kind = "instance" /\ item'[x].status = "checked_out"
                             => item[x].kind = "instance" /\ item[x].status = "checked_out"
    PROVE  Borrows'
  BY DEF Borrows, BorrowMatchesStatus, TypeOK

LEMMA BorrowsStep == TypeOK /\ Borrows /\ [Next]_vars => Borrows'
<1> SUFFICES ASSUME TypeOK, Borrows, [Next]_vars PROVE Borrows'
  OBVIOUS
<1>0. /\ item \in [Item -> Stock] /\ New \subseteq Item /\ open \subseteq Item
      /\ \A x \in Item : /\ item[x].fresh \in BOOLEAN
                         /\ item[x].kind \in {"new", "instance", "bulk", "gone"}
      /\ \A x \in New : x \notin open
  BY DEF TypeOK, New, Stock, Borrows, BorrowMatchesStatus
<1>1. CASE Labelling
  <2>1. ASSUME UNCHANGED <<item, open>> PROVE Borrows'
    BY <2>1 DEF Borrows, BorrowMatchesStatus
  <2>2. ASSUME NEW c \in Code, NEW kind \in Kinds, NEW p \in PartType, NEW x \in New,
               NEW l \in Place, NEW start \in Starts(kind), AssignQr(c, x, kind, p, l, start)
        PROVE Borrows'
    <3>1. /\ open' = OpenIf(start, {x}) /\ \A y \in Item \ {x} : item'[y] = item[y]
          /\ item'[x] = Labelled(kind, c, p, l, start)
      BY <1>0, <2>2 DEF AssignQr
    <3>2. /\ item'[x].kind = kind /\ item'[x].status = start.status
          /\ item'[x].fresh = (start.status # "checked_out")
          /\ start.status = "checked_out" => kind = "instance"
      BY <3>1 DEF Labelled, Starts, Kinds
    <3> QED
      BY <1>0, <3>1, <3>2 DEF Borrows, BorrowMatchesStatus, OpenIf
  <2>3. ASSUME NEW c \in Code, NEW d \in Code, NEW kind \in Kinds, NEW p \in PartType,
               NEW x \in New, NEW y \in New, NEW l \in Place, NEW start \in Starts(kind),
               BulkAssignQrs(c, d, x, y, kind, p, l, start)
        PROVE Borrows'
    <3>1. /\ open' = OpenIf(start, {x, y}) /\ \A z \in Item \ {x, y} : item'[z] = item[z]
          /\ item'[x] = Labelled(kind, c, p, l, start)
          /\ item'[y] = Labelled(kind, d, p, l, start)
      BY <1>0, <2>3 DEF BulkAssignQrs
    <3>2. /\ item'[x].kind = kind /\ item'[x].status = start.status
          /\ item'[y].kind = kind /\ item'[y].status = start.status
          /\ item'[x].fresh = (start.status # "checked_out")
          /\ item'[y].fresh = (start.status # "checked_out")
          /\ start.status = "checked_out" => kind = "instance"
      BY <3>1 DEF Labelled, Starts, Kinds
    <3> QED
      BY <1>0, <3>1, <3>2 DEF Borrows, BorrowMatchesStatus, OpenIf
  <2>4. ASSUME NEW c \in Code, VoidQrCode(c) PROVE Borrows'
    <3>1. PICK x : \/ UNCHANGED <<item, open>>
                   \/ item' = [item EXCEPT ![x] = Voided(@)] /\ open' = open \ {x}
      BY <2>4 DEF VoidQrCode
    <3>2. \A rec \in Stock : Voided(rec).kind = rec.kind
                             /\ (rec.kind # "bulk" => Voided(rec).status = "consumed")
      BY DEF Voided, WithEvent, Stock
    <3> QED
      BY <1>0, <2>1, <3>1, <3>2 DEF Borrows, BorrowMatchesStatus
  <2> QED
    BY <1>1, <2>1, <2>2, <2>3, <2>4 DEF Labelling, RegisterQrBatch, RefusedAssign, Kinds
<1>2. CASE Events
  <2>1. ASSUME NEW x \in Item, NEW event \in InstanceAction, NEW to \in InstanceStatus,
               NEW l \in Place, InstanceEvent(x, event, to, l)
        PROVE Borrows'
    <3>1. /\ item[x].kind = "instance" /\ open' = BorrowAfter(x, event)
          /\ \A y \in Item \ {x} : item'[y] = item[y]
      BY <1>0, <2>1 DEF InstanceEvent
    <3>2. item'[x].kind = "instance" /\ item'[x].status = to /\ ~item'[x].fresh
      BY <1>0, <2>1 DEF InstanceEvent, WithEvent, Stock
    <3>3. <<event, to>> \in {<<"checked_out", "checked_out">>, <<"consumed", "consumed">>,
               <<"damaged", "damaged">>, <<"lost", "lost">>, <<"disposed", "consumed">>,
               <<"returned", "available">>}
      BY <2>1, TransitionFacts DEF InstanceEvent
    <3> QED
      BY <1>0, <3>1, <3>2, <3>3 DEF Borrows, BorrowMatchesStatus, BorrowAfter
  <2>2. ASSUME NEW S \in SUBSET Item, NEW l \in Place, Move(S, l) PROVE Borrows'
    BY <1>0, <2>2, SameBorrows DEF Move, WithEvent, Stock
  <2>3. ASSUME NEW x \in Item, NEW event \in BulkAction, NEW l \in Place, NEW d \in Delta(event),
               BulkEvent(x, event, d, l)
        PROVE Borrows'
    BY <1>0, <2>3, SameBorrows DEF BulkEvent, WithEvent, Stock
  <2>4. ASSUME NEW x \in Item, NEW l \in Place, MovedWhole(x, l) PROVE Borrows'
    BY <1>0, <2>4, SameBorrows DEF MovedWhole, WithEvent, Stock
  <2>5. ASSUME NEW x \in Item, NEW l \in Place, NEW y \in Item, NEW q \in Qty,
               SplitInto(x, y, l, q)
        PROVE Borrows'
    <3>1. /\ Gains(y, q).kind = item[y].kind /\ Gains(y, q).status = item[y].status
          /\ Gains(y, q).fresh = FALSE
          /\ Loses(x, q).kind = item[x].kind /\ Loses(x, q).status = item[x].status
          /\ Loses(x, q).fresh = FALSE
      BY <1>0 DEF Gains, Loses, WithEvent, Stock
    <3>2. item' = [item EXCEPT ![x] = Loses(x, q), ![y] = Gains(y, q)] /\ UNCHANGED open
      BY <2>5 DEF SplitInto
    <3>3. \A z \in Item : /\ item'[z].kind = item[z].kind /\ item'[z].status = item[z].status
                          /\ item'[z].fresh \in {FALSE, item[z].fresh}
      BY <1>0, <3>1, <3>2
    <3>4. open \subseteq Item
      BY <1>0 DEF TypeOK
    <3> QED
      BY <1>0, <3>2, <3>3, <3>4, SameBorrows
  <2>6. ASSUME NEW x \in Item, NEW l \in Place, NEW y \in New, NEW c \in Code, NEW q \in Qty,
               SplitToNew(x, y, c, l, q)
        PROVE Borrows'
    <3>1. item'[y].kind = "bulk" /\ \A z \in Item \ {x, y} : item'[z] = item[z]
      BY <1>0, <2>6 DEF SplitToNew, Labelled
    <3>2. item[x].kind = "bulk" /\ x # y
      BY <2>6 DEF SplitToNew, Bulk, New
    <3>3. item'[x].kind = "bulk"
      BY <1>0, <2>6, <3>2 DEF SplitToNew, Loses, WithEvent, Stock
    <3>4. open' = open /\ x \notin open /\ y \notin open
      BY <1>0, <2>6, <3>2 DEF SplitToNew, Borrows, BorrowMatchesStatus
    <3> QED
      BY <1>0, <3>1, <3>2, <3>3, <3>4 DEF Borrows, BorrowMatchesStatus
  <2> QED
    BY <1>2, <2>1, <2>2, <2>3, <2>4, <2>5, <2>6 DEF Events
<1>3. CASE Corrections
  <2>1. ASSUME NEW x \in Item, NEW p \in PartType, ReassignPartType(x, p) PROVE Borrows'
    BY <1>0, <2>1, SameBorrows DEF ReassignPartType, Stock
  <2>2. ASSUME NEW x \in Item, NEW c \in Code, ReassignQr(x, c) PROVE Borrows'
    <3>1. PICK d \in Code : item' = [item EXCEPT ![x].code = d]
      BY <2>2 DEF ReassignQr
    <3>2. \A y \in Item : /\ item'[y].kind = item[y].kind /\ item'[y].status = item[y].status
                          /\ item'[y].fresh = item[y].fresh
      BY <1>0, <3>1 DEF Stock
    <3>3. UNCHANGED open
      BY <2>2 DEF ReassignQr
    <3> QED
      BY <1>0, <3>2, <3>3, SameBorrows
  <2>3. ASSUME NEW S \in SUBSET Item, ReverseIngest(S) PROVE Borrows'
    <3>1. /\ UNCHANGED open /\ S \cap open = {}
          /\ \A y \in Item : IF y \in S THEN item'[y].kind = "gone" ELSE item'[y] = item[y]
      BY <1>0, <2>3 DEF ReverseIngest, Unborn, Borrows
    <3> QED
      BY <1>0, <3>1 DEF Borrows, BorrowMatchesStatus
  <2>4. ASSUME NEW p \in PartType, NEW r \in PartType, MergePartTypes(p, r) PROVE Borrows'
    <3>1. \A y \in Item : /\ item'[y].kind = item[y].kind /\ item'[y].status = item[y].status
                          /\ item'[y].fresh = item[y].fresh
      BY <1>0, <2>4 DEF MergePartTypes, Stock
    <3>2. UNCHANGED open /\ open \subseteq Item
      BY <1>0, <2>4 DEF MergePartTypes, TypeOK
    <3> QED
      BY <1>0, <3>1, <3>2, SameBorrows
  <2>5. ASSUME Reset PROVE Borrows'
    BY <1>0, <2>5 DEF Reset, Borrows, BorrowMatchesStatus, Stored, Unborn
  <2> QED
    BY <1>3, <2>1, <2>2, <2>3, <2>4, <2>5 DEF Corrections
<1>4. CASE Scanning
  <2>1. ASSUME NEW s \in Scan, NEW n \in 1 .. MaxQty, ScanCounts(s, n) PROVE Borrows'
    BY <1>0, <2>1, SameBorrows DEF ScanCounts, Gains, WithEvent, Stock
  <2>2. ASSUME UNCHANGED <<item, open>> PROVE Borrows'
    BY <2>2 DEF Borrows, BorrowMatchesStatus
  <2> QED
    BY <1>4, <2>1, <2>2 DEF Scanning, ScanReads, ScanAnswers
<1>5. CASE UNCHANGED vars
  BY <1>5 DEF vars, Borrows, BorrowMatchesStatus
<1> QED
  BY <1>1, <1>2, <1>3, <1>4, <1>5 DEF Next

\* Who has an instance is known exactly while it is out: checked out, or damaged before
\* it came back.  The strengthening says why a reversal never strands a borrow record.
THEOREM Lending == Spec => []BorrowMatchesStatus
<1>1. Init => Borrows
  BY DEF Init, Borrows, BorrowMatchesStatus, Unborn
<1>2. Borrows => BorrowMatchesStatus
  BY DEF Borrows
<1> QED
  BY <1>1, <1>2, Typing, BorrowsStep, PTL DEF Spec

-----------------------------------------------------------------------------
(* Scans that match one external code.                                      *)

\* No two external codes of a table are taken for one scan.
Unique(codes) ==
    /\ \A c \in Code : \A d, e \in Matching(codes, c) : d = e
    /\ \A c \in Code : External(codes[c]) => codes[c].status # "none"

\* Commands that make no code external.
LEMMA SameBatches ==
    ASSUME NEW codes, NEW next, Unique(codes),
           \A c \in Code : External(next[c]) =>
               External(codes[c]) /\ next[c].status \in {codes[c].status, "printed",
                                                         "assigned", "voided"}
    PROVE  Unique(next)
<1>1. \A c \in Code : Matching(next, c) \subseteq Matching(codes, c)
  BY DEF Matching
<1> QED
  BY <1>1 DEF Unique

\* Only c became external, and no external code was a spelling of c.
LEMMA OneMore ==
    ASSUME NEW codes, NEW next, NEW c \in Code, Unique(codes),
           \A d \in Code : External(codes[d]) => StoredKey(d) # ScanKey(c),
           \A d \in Code \ {c} : next[d] = codes[d], next[c].status # "none"
    PROVE  Unique(next)
<1>1. ASSUME NEW e \in Code, NEW a \in Matching(next, e), NEW b \in Matching(next, e), a # b
      PROVE  FALSE
  <2>1. /\ a \in Code /\ b \in Code /\ External(next[a]) /\ External(next[b])
        /\ StoredKey(a) = ScanKey(e) /\ StoredKey(b) = ScanKey(e)
    BY DEF Matching
  <2>2. ScanKey(a) = ScanKey(e) /\ ScanKey(b) = ScanKey(e)
    BY <2>1, SpellingAssumption
  <2>3. CASE a = c
    <3>1. External(codes[b])
      BY <1>1, <2>1, <2>3
    <3> QED
      BY <2>1, <2>2, <2>3, <3>1
  <2>4. CASE b = c
    <3>1. External(codes[a])
      BY <1>1, <2>1, <2>4
    <3> QED
      BY <2>1, <2>2, <2>4, <3>1
  <2>5. CASE a # c /\ b # c
    <3>1. a \in Matching(codes, e) /\ b \in Matching(codes, e)
      BY <2>1, <2>5 DEF Matching
    <3> QED
      BY <1>1, <3>1 DEF Unique
  <2> QED
    BY <2>3, <2>4, <2>5
<1> QED
  BY <1>1 DEF Unique

\* assignQr and reassignEntityQr look for what SQL takes for the code before they
\* register it.
LEMMA RegisteredUnique ==
    ASSUME NEW codes \in [Code -> QrCode], Unique(codes), NEW c \in Code
    PROVE  Unique(Registered(codes, c))
<1>1. CASE Found(codes, c) = {}
  <2>1. \A d \in Code : External(codes[d]) => StoredKey(d) # ScanKey(c)
    BY <1>1 DEF Found, Matching
  <2>2. /\ \A d \in Code \ {c} : Registered(codes, c)[d] = codes[d]
        /\ Registered(codes, c)[c].status # "none"
    BY <1>1 DEF Registered
  <2> QED
    BY <2>1, <2>2, OneMore
<1> QED
  BY <1>1 DEF Registered

LEMMA AssignedUnique ==
    ASSUME NEW codes \in [Code -> QrCode], Unique(codes), NEW c \in Code, NEW x \in Item
    PROVE  Unique(Assigned(codes, c, x))
<1>1. \A d \in Code : /\ Assigned(codes, c, x)[d].batch = codes[d].batch
                      /\ Assigned(codes, c, x)[d].status \in {codes[d].status, "assigned"}
  BY DEF Assigned, QrCode
<1> QED
  BY <1>1, SameBatches DEF External

LEMMA PrintedUnique ==
    ASSUME NEW codes \in [Code -> QrCode], Unique(codes), NEW c
    PROVE  Printed(codes, c) \in [Code -> QrCode] /\ Unique(Printed(codes, c))
<1>1. /\ Printed(codes, c) \in [Code -> QrCode]
      /\ \A d \in Code : /\ Printed(codes, c)[d].batch = codes[d].batch
                         /\ Printed(codes, c)[d].status \in {codes[d].status, "printed"}
  BY DEF Printed, QrCode
<1> QED
  BY <1>1, SameBatches DEF External

LEMMA UniqueStep ==
    ASSUME TypeOK, Unique(qr), [Next]_vars PROVE Unique(qr')
<1>0. qr \in [Code -> QrCode] /\ New \subseteq Item
  BY DEF TypeOK, New
<1>1. ASSUME NEW b \in Batch, RegisterQrBatch(b) PROVE Unique(qr')
  <2>1. \A c \in Code : External(qr'[c]) => External(qr[c]) /\ qr'[c].status = qr[c].status
    BY <1>1 DEF RegisterQrBatch, External
  <2> QED
    BY <2>1, SameBatches
<1>2. ASSUME NEW c \in Code, NEW kind \in Kinds, NEW p \in PartType, RefusedAssign(c, kind, p)
      PROVE Unique(qr')
  BY <1>0, <1>2, RegisteredUnique DEF RefusedAssign
<1>3. ASSUME NEW c \in Code, NEW x \in Item PROVE
        LET first == Assigned(Registered(qr, c), c, x)
        IN  first \in [Code -> QrCode] /\ Unique(first)
  BY <1>0, RegisteredType, RegisteredUnique, AssignedType, AssignedUnique
<1>4. ASSUME NEW c \in Code, NEW kind \in Kinds, NEW p \in PartType, NEW x \in New,
             NEW l \in Place, NEW start \in Starts(kind), AssignQr(c, x, kind, p, l, start)
      PROVE Unique(qr')
  BY <1>0, <1>3, <1>4 DEF AssignQr
<1>5. ASSUME NEW c \in Code, NEW d \in Code, NEW kind \in Kinds, NEW p \in PartType,
             NEW x \in New, NEW y \in New, NEW l \in Place, NEW start \in Starts(kind),
             BulkAssignQrs(c, d, x, y, kind, p, l, start)
      PROVE Unique(qr')
  <2> DEFINE first == Assigned(Registered(qr, c), c, x)
  <2>1. first \in [Code -> QrCode] /\ Unique(first)
    BY <1>0, <1>3
  <2>2. qr' = Assigned(Registered(first, d), d, y)
    BY <1>5 DEF BulkAssignQrs
  <2> HIDE DEF first
  <2>3. Registered(first, d) \in [Code -> QrCode] /\ Unique(Registered(first, d))
    BY <2>1, RegisteredType, RegisteredUnique
  <2> QED
    BY <1>0, <2>2, <2>3, AssignedUnique
<1>6. ASSUME NEW c \in Code, VoidQrCode(c) PROVE Unique(qr')
  <2>1. \A d \in Code : qr'[d].batch = qr[d].batch
                        /\ qr'[d].status \in {qr[d].status, "voided"}
    BY <1>0, <1>6 DEF VoidQrCode, QrCode
  <2> QED
    BY <2>1, SameBatches DEF External
<1>7. ASSUME NEW x \in Item, NEW l \in Place, NEW y \in New, NEW c \in Code, NEW q \in Qty,
             SplitToNew(x, y, c, l, q)
      PROVE Unique(qr')
  <2>1. \A d \in Code : ScanKey(d) = ScanKey(c) => ~External(qr[d])
    BY <1>7 DEF SplitToNew, Unique
  <2>2. \A d \in Code : External(qr[d]) => StoredKey(d) # ScanKey(c)
    BY <2>1, SpellingAssumption
  <2>3. qr' = MadeUp(c, y)
    BY <1>7 DEF SplitToNew
  <2>4. qr'[c].status # "none" /\ \A d \in Code \ {c} : qr'[d] = qr[d]
    BY <1>0, <2>3 DEF MadeUp
  <2> QED
    BY <2>2, <2>4, OneMore
<1>8. CASE Events
  BY <1>7, <1>8 DEF Events, InstanceEvent, Move, BulkEvent, MovedWhole, SplitInto
<1>9. ASSUME NEW x \in Item, NEW c \in Code, ReassignQr(x, c) PROVE Unique(qr')
  <2>1. PICK d \in Code : qr' = Assigned(Printed(Registered(qr, c), item[x].code), d, x)
    BY <1>9 DEF ReassignQr
  <2>2. Registered(qr, c) \in [Code -> QrCode] /\ Unique(Registered(qr, c))
    BY <1>0, RegisteredType, RegisteredUnique
  <2>3. /\ Printed(Registered(qr, c), item[x].code) \in [Code -> QrCode]
        /\ Unique(Printed(Registered(qr, c), item[x].code))
    BY <2>2, PrintedUnique
  <2> QED
    BY <2>1, <2>3, AssignedUnique
<1>10. ASSUME NEW S \in SUBSET Item, ReverseIngest(S) PROVE Unique(qr')
  <2>1. \A c \in Code : qr'[c].batch = qr[c].batch
                        /\ qr'[c].status \in {qr[c].status, "printed"}
    <3>1. \A c \in Code : Printed(qr, c)[c].batch = qr[c].batch
                          /\ Printed(qr, c)[c].status = "printed"
      BY <1>0 DEF Printed, QrCode
    <3> QED
      BY <1>10, <3>1 DEF ReverseIngest
  <2> QED
    BY <2>1, SameBatches DEF External
<1>11. CASE Reset
  <2>1. \A c \in Code : ~External(qr'[c])
    BY <1>11 DEF Reset, NoQr, External
  <2> QED
    BY <2>1 DEF Unique, Matching
<1>12. CASE Scanning
  BY <1>12 DEF Scanning, ScanReads, ScanCounts, ScanAnswers
<1>13. CASE UNCHANGED vars
  BY <1>13 DEF vars
<1> QED
  <2>1. CASE Labelling
    BY <1>1, <1>2, <1>4, <1>5, <1>6, <2>1 DEF Labelling, Kinds
  <2>2. CASE Corrections
    BY <1>9, <1>10, <1>11, <2>2 DEF Corrections, ReassignPartType, MergePartTypes
  <2> QED
    BY <1>8, <1>12, <1>13, <2>1, <2>2 DEF Next

\* findQrRowByScannedCode never finds two codes for one scan, although SQL folds less than
\* scanLookupCompactKey: however codes come into the table, whoever lets one in has looked
\* for what SQL takes for it, and SpellingAssumption makes that look-up enough.
THEOREM Unambiguous == Spec => []NeverAmbiguous
<1> DEFINE U == Unique(qr)
<1>1. Init => U
  BY DEF Init, Unique, Matching, External, NoQr
<1>2. TypeOK /\ U /\ [Next]_vars => U'
  BY UniqueStep
<1>3. U => NeverAmbiguous
  BY DEF Unique, NeverAmbiguous
<1> HIDE DEF U
<1> QED
  BY <1>1, <1>2, <1>3, Typing, PTL DEF Spec

=============================================================================
