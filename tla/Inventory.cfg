SPECIFICATION Spec
CONSTANTS
    printed = printed
    barcode = barcode
    spelling = spelling
    pcs = pcs
    box = box
    bag = bag
    Code <- MCCode
    ScanKey <- MCScanKey
    StoredKey <- MCStoredKey
    Batch <- MCBatch
    Item = {x1, x2}
    NoItem = NoItem
    NoCode = NoCode
    PartType <- MCPartType
    NoPart = NoPart
    Countable <- MCCountable
    Place = {here, there}
    NoPlace = NoPlace
    MaxQty = 3
    Scan = {s1}
SYMMETRY Symmetry
INVARIANTS
    TypeOK
    CodeNamesOneItem
    BorrowMatchesStatus
    EntitiesMirror
    NeverAmbiguous
