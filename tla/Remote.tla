------------------------------- MODULE Remote --------------------------------
(* What the middleware's calls leave behind in Part-DB, call by call: the      *)
(* resolvers that look up or create categories and storage locations           *)
(* (category-resolver.ts, location-resolver.ts), the operations that use them  *)
(* (partdb-operations.ts) on overlapping ticks of the worker, and the script   *)
(* that clears references to objects deleted in Part-DB by hand                *)
(* (partdb-reconciler.ts), a process beside the server.                        *)
(*                                                                             *)
(* Outbox has the table, its leases and its dependencies; here an operation is *)
(* the one row a part type or an item has open, and `dead` holds those that    *)
(* failed for good.  Amounts, units and descriptions are left out, a part      *)
(* type's name, tags and review are its definition, and instances and bulk     *)
(* stocks are one table.                                                       *)
(* A call and its answer are one action, except where something can come       *)
(* between them: the last call of an operation, and a GET of the reconciler.   *)
EXTENDS Naturals, Sequences

CONSTANTS
    Part,           \* part types
    Item,           \* instances and bulk stocks
    Name,           \* names of categories and storage locations
    Lower,          \* LOWER of a name
    Definition,     \* what a part type's create_part says of it
    Category,       \* the category path of a definition
    Places,         \* the locations an item may be at
    NoTarget,       \* no part type and no item
    Tick,           \* ticks of the worker that may run at once
    MaxObjects,     \* bound: what Part-DB ever holds
    MaxMishaps,     \* bound: failed calls, lost answers and deletions by hand
    MaxPasses,      \* bound: runs of the reconciler
    MaxChanges,     \* bound: moves, reassignments, edits and approvals
    MaxRetries      \* bound: retries by an administrator

ASSUME RemoteAssumption ==
    /\ NoTarget \notin Part \cup Item
    /\ Part \cap Item = {}
    /\ Lower \in [Name -> Name]
    /\ Places \subseteq Seq(Name) \ {<<>>}
    /\ Category \in [Definition -> Seq(Name) \ {<<>>}]
    /\ {MaxObjects, MaxMishaps, MaxPasses, MaxChanges, MaxRetries} \subseteq Nat

Target == Part \cup Item

Paths == Places \cup {Category[d] : d \in Definition}

Lowered(path) == [d \in DOMAIN path |-> Lower[path[d]]]

\* path_key: a path or the first part of one, in lower case.
PathKey == UNION {{Lowered(SubSeq(path, 1, d)) : d \in DOMAIN path} : path \in Paths}

Id == 1 .. MaxObjects
NoId == 0

\* A row about a part type: a create_part, or an update_part of the part it names.
PartRow == Part \X Definition \X (Id \cup {NoId})

Trees == {"category", "location"}

VARIABLES
    remote,     \* Part-DB: its objects, in the order they were created
    cache,      \* partdb_category_cache and partdb_location_cache
    column,     \* partdb_part_id, partdb_lot_id
    part,       \* part_type_id of an item
    place,      \* location of an item
    def,        \* the definition of each part type
    live,       \* part types that were not merged into another
    op,         \* the open row of each target
    dead,       \* the dead rows, with their targets
    drops,      \* open delete_lot rows, by their lot
    keys,       \* idempotency keys of the rows so far
    made,       \* the answers of the delivered rows about part types
    work,       \* what each tick is doing
    pass,       \* the reconciler
    spent,      \* mishaps, passes, changes and retries so far
    raced       \* history: two ticks resolved paths at once, or a POST was sent again

vars == <<remote, cache, column, part, place, def, live, op, dead, drops, keys, made,
          work, pass, spent, raced>>

inventory == <<part, place, def, live>>
table == <<op, dead, drops, keys, made>>

\* A category or location lies under its parent, a part under its category, a lot under
\* its location.  path is history: the path the object was last filed by.
Object == [kind: {"category", "location", "part", "lot"}, name: Name \cup {NoTarget},
           under: Id \cup {NoId}, of: Id \cup {NoId},
           path: Paths \cup {<<>>}, exists: BOOLEAN]

Node(tree, name, parent) ==
    [kind |-> tree, name |-> name, under |-> parent, of |-> NoId, path |-> <<>>, exists |-> TRUE]

NoOp == [kind |-> "none", path |-> <<>>, ref |-> NoId, of |-> NoTarget]

\* ref is the part a lot is created under, or the object an update is for.  of is what a
\* row about a part type is, and what the row of a lot without a part depends on.
Op(kind, path, ref, row) == [kind |-> kind, path |-> path, ref |-> ref, of |-> row]

CreatePart(p, d) == Op("create", Category[d], NoId, <<p, d, NoId>>)

UpdatePart(p, d, i) == Op("update", Category[d], i, <<p, d, i>>)

\* The key is the hash of kind, payload and target.  What a lot's row depends on is no
\* part of it, what a create_part says of its part type is.
KeyOf(x, o) == <<x, IF x \in Item THEN [o EXCEPT !.of = NoTarget] ELSE o>>

IdleTick == [on |-> NoTarget, stage |-> "idle", depth |-> 0, at |-> NoId]
NoEntry == <<NoTarget, NoId>>
NoPass == [phase |-> "idle", todo |-> {}, gone |-> NoEntry]

Init ==
    /\ remote = <<>>
    /\ cache = [tree \in Trees |-> [key \in PathKey |-> NoId]]
    /\ column = [x \in Target |-> NoId]
    /\ part = [x \in Item |-> NoTarget] /\ place = [x \in Item |-> <<>>]
    /\ def \in [Part -> Definition] /\ live = Part
    /\ op = [x \in Target |-> NoOp] /\ dead = {} /\ drops = {} /\ keys = {}
    /\ made = [row \in PartRow |-> NoId]
    /\ work = [t \in Tick |-> IdleTick]
    /\ pass = NoPass
    /\ spent = [mishap |-> 0, pass |-> 0, change |-> 0, retry |-> 0]
    /\ raced = FALSE

-----------------------------------------------------------------------------
(* The resolvers.                                                              *)

TreeOf(x) == IF x \in Part THEN "category" ELSE "location"

Cached(c, tree, path, d) == c[tree][Lowered(SubSeq(path, 1, d))]

WithEntry(tree, path, d, i) == [cache EXCEPT ![tree][Lowered(SubSeq(path, 1, d))] = i]

\* resolveOrCreate from depth d on, up to its next await or its return: the whole path
\* may be cached, and so may each part of it.
Resolving(x, c, path, d, at) ==
    LET tree == TreeOf(x)
        n == Len(path)
        missing == {e \in d .. n : Cached(c, tree, path, e) = NoId}
        first == CHOOSE e \in missing : \A f \in missing : e <= f
        step(stage, e, i) == [on |-> x, stage |-> stage, depth |-> e, at |-> i]
    IN  IF path = <<>> \/ d > n THEN step("call", 0, at)
        ELSE IF missing = {} \/ (d = 1 /\ Cached(c, tree, path, n) # NoId)
             THEN step("call", 0, Cached(c, tree, path, n))
        ELSE step("find", first, IF first = d THEN at ELSE Cached(c, tree, path, first - 1))

HasRoom == Len(remote) < MaxObjects

\* Mutant: the parent is not asked for.
AnyParent(tree, name, parent) ==
    {i \in DOMAIN remote : remote[i].kind = tree /\ remote[i].name = name}

\* Mutant: the spelling of the cache's keys is looked up.
ByKey(tree, name, parent) ==
    {i \in DOMAIN remote :
        remote[i].kind = tree /\ remote[i].name = Lower[name] /\ remote[i].under = parent}

\* findByNameAndParent.  That Part-DB's filter on names is exact, which the categories
\* rely on and the locations check again, is assumed.
Matches(tree, name, parent) ==
    {i \in DOMAIN remote :
        remote[i].kind = tree /\ remote[i].name = name /\ remote[i].under = parent}

\* An operation is taken up: claimBatch and hydrateOperation let it run.
PartOf(x) == IF op[x].ref # NoId THEN op[x].ref ELSE made[op[x].of]

Busy(tree) == \E t \in Tick : work[t].stage \in {"find", "create"} /\ TreeOf(work[t].on) = tree

Take(t, x) ==
    /\ work[t] = IdleTick
    /\ op[x].kind # "none" /\ \A u \in Tick : work[u].on # x
    /\ x \in Item => PartOf(x) # NoId
    /\ work' = [work EXCEPT ![t] = Resolving(x, cache, op[x].path, 1, NoId)]
    /\ raced' = (raced \/ (work'[t].stage = "find" /\ Busy(TreeOf(x))))
    /\ UNCHANGED <<remote, cache, column, inventory, table, pass, spent>>

\* The tick goes on with its path, one level down, with node i.
Descends(t, i) ==
    LET x == work[t].on
        d == work[t].depth
    IN  /\ cache' = WithEntry(TreeOf(x), op[x].path, d, i)
        /\ work' = [work EXCEPT ![t] = Resolving(x, cache', op[x].path, d + 1, i)]

NodeWanted(t) ==
    LET x == work[t].on
    IN  Node(TreeOf(x), op[x].path[work[t].depth], work[t].at)

Find(t) ==
    /\ work[t].stage = "find"
    /\ LET found == Matches(NodeWanted(t).kind, NodeWanted(t).name, work[t].at)
       IN  IF found = {}
           THEN work' = [work EXCEPT ![t].stage = "create"] /\ UNCHANGED cache
           ELSE Descends(t, CHOOSE i \in found : \A j \in found : i <= j)
    /\ UNCHANGED <<remote, column, inventory, table, pass, spent, raced>>

Create(t) ==
    /\ work[t].stage = "create" /\ HasRoom
    /\ remote' = Append(remote, NodeWanted(t))
    /\ Descends(t, Len(remote'))
    /\ UNCHANGED <<column, inventory, table, pass, spent, raced>>

\* A call fails or is not answered, the process stops, or Part-DB is changed by hand.
Mishap == spent.mishap < MaxMishaps /\ spent' = [spent EXCEPT !.mishap = @ + 1]

\* The connection is lost once Part-DB has created the node: withRetry sends the POST
\* again, or the call fails.
CreateUnanswered(t, again) ==
    /\ work[t].stage = "create" /\ HasRoom
    /\ Mishap
    /\ remote' = Append(remote, NodeWanted(t))
    /\ work' = IF again THEN work ELSE [work EXCEPT ![t] = IdleTick]
    /\ raced' = (raced \/ again)
    /\ UNCHANGED <<cache, column, inventory, table, pass>>

-----------------------------------------------------------------------------
(* The operations: execute's last call, and what the worker makes of it.       *)

\* The object an operation is about and the one it names must be there.
Possible(x) ==
    /\ op[x].kind = "update" => remote[op[x].ref].exists
    /\ op[x].kind = "create" /\ x \in Item => remote[PartOf(x)].exists

Created(t) ==
    LET x == work[t].on
    IN  [kind |-> IF x \in Part THEN "part" ELSE "lot", name |-> NoTarget,
         under |-> work[t].at, of |-> IF x \in Part THEN NoId ELSE PartOf(x),
         path |-> op[x].path, exists |-> TRUE]

Call(t) ==
    /\ work[t].stage = "call"
    /\ LET x == work[t].on
           i == IF op[x].kind = "create" THEN Len(remote) + 1 ELSE op[x].ref
       IN  /\ Possible(x)
           /\ IF op[x].kind = "create"
              THEN HasRoom /\ remote' = Append(remote, Created(t))
              ELSE remote' = [remote EXCEPT ![i].under = work[t].at, ![i].path = op[x].path]
           /\ work' = [work EXCEPT ![t] = [@ EXCEPT !.stage = "settle", !.at = i]]
    /\ UNCHANGED <<cache, column, inventory, table, pass, spent, raced>>

\* Mutant: the answer of a move is taken for the location's.
KeepsLocation(t) ==
    IF op[work[t].on].kind = "update" THEN remote[work[t].at].under ELSE work[t].at

\* The IRI of the answer.
AnswerIri(t) == work[t].at

\* markDelivered: the answer goes into the column, whatever became of it meanwhile.
Settle(t) ==
    /\ work[t].stage = "settle"
    /\ LET x == work[t].on
       IN  /\ column' = [column EXCEPT ![x] = IF x \in live \cup Item THEN AnswerIri(t) ELSE @]
           /\ op' = [op EXCEPT ![x] = NoOp]
           /\ made' = IF x \in Part THEN [made EXCEPT ![op[x].of] = AnswerIri(t)] ELSE made
    /\ work' = [work EXCEPT ![t] = IdleTick]
    /\ UNCHANGED <<remote, cache, inventory, dead, drops, keys, pass, spent, raced>>

\* Any call fails for now, or the process stops: the row is claimed again.
Fails(t) ==
    /\ work[t].stage # "idle"
    /\ Mishap
    /\ work' = [work EXCEPT ![t] = IdleTick]
    /\ UNCHANGED <<remote, cache, column, inventory, table, pass, raced>>

\* Any call fails for good, or for the last time, or a call names what is gone: the row
\* is dead.
GivesUp(t) ==
    /\ \/ work[t].stage \in {"find", "create", "call"} /\ Mishap
       \/ work[t].stage = "call" /\ ~Possible(work[t].on) /\ UNCHANGED spent
    /\ op' = [op EXCEPT ![work[t].on] = NoOp]
    /\ dead' = dead \cup {<<work[t].on, op[work[t].on]>>}
    /\ work' = [work EXCEPT ![t] = IdleTick]
    /\ UNCHANGED <<remote, cache, column, inventory, drops, keys, made, pass, raced>>

\* An administrator puts a dead row back, with the payload it had.  Left out: one whose
\* target has another row open by now.
Retry(x, o) ==
    /\ <<x, o>> \in dead /\ op[x] = NoOp
    /\ spent.retry < MaxRetries /\ spent' = [spent EXCEPT !.retry = @ + 1]
    /\ op' = [op EXCEPT ![x] = o] /\ dead' = dead \ {<<x, o>>}
    /\ UNCHANGED <<remote, cache, column, inventory, drops, keys, made, work, pass, raced>>

\* The delete_lot of a correction.
DropLot(i) ==
    /\ i \in drops
    /\ drops' = drops \ {i}
    /\ remote' = [remote EXCEPT ![i].exists = FALSE]
    /\ UNCHANGED <<cache, column, inventory, op, dead, keys, made, work, pass, spent, raced>>

-----------------------------------------------------------------------------
(* InventoryService enqueues: the commands that create, move and rename lots.  *)

\* INSERT OR IGNORE
Enqueued(ops, x, o) == IF KeyOf(x, o) \in keys THEN ops ELSE [ops EXCEPT ![x] = o]

\* ensurePartTypeSync: of a part type that is not at Part-DB and has no row open.
Ensures(p) == column[p] = NoId /\ op[p] = NoOp

\* ensurePartTypeSync and enqueueCreateLot, in one transaction.  The row of the lot
\* depends on the part type's, the open one or the one just asked for.
CreatesLot(x, p, path) ==
    LET partOp == CreatePart(p, def[p])
        lotOp == Op("create", path, column[p],
                    IF column[p] # NoId THEN NoTarget
                    ELSE IF op[p] # NoOp THEN op[p].of ELSE partOp.of)
    IN  /\ op' = Enqueued(IF Ensures(p) THEN Enqueued(op, p, partOp) ELSE op, x, lotOp)
        /\ keys' = keys \cup {KeyOf(x, lotOp)}
                        \cup (IF Ensures(p) THEN {KeyOf(p, partOp)} ELSE {})

\* assignQr, a new item
AssignQr(x, p, path) ==
    /\ part[x] = NoTarget /\ p \in live
    /\ part' = [part EXCEPT ![x] = p] /\ place' = [place EXCEPT ![x] = path]
    /\ CreatesLot(x, p, path)
    /\ UNCHANGED <<remote, cache, column, def, live, dead, drops, made, work, pass, spent, raced>>

Change == spent.change < MaxChanges /\ spent' = [spent EXCEPT !.change = @ + 1]

\* recordEvent, moved
Move(x, path) ==
    /\ part[x] # NoTarget /\ op[x] = NoOp
    /\ Change
    /\ place' = [place EXCEPT ![x] = path]
    /\ LET o == Op("update", path, column[x], NoTarget)
       IN  IF column[x] = NoId THEN UNCHANGED <<op, keys>>
           ELSE op' = Enqueued(op, x, o) /\ keys' = keys \cup {KeyOf(x, o)}
    /\ UNCHANGED <<remote, cache, column, part, def, live, dead, drops, made, work, pass, raced>>

\* reassignEntityPartType, of an item without open rows: the others are LotSync's.
ReassignPartType(x, p) ==
    /\ part[x] # NoTarget /\ op[x] = NoOp /\ p \in live \ {part[x]}
    /\ Change
    /\ part' = [part EXCEPT ![x] = p]
    /\ IF column[x] = NoId THEN UNCHANGED <<column, op, drops, keys>>
       ELSE /\ column' = [column EXCEPT ![x] = NoId]
            /\ drops' = drops \cup {column[x]}
            /\ CreatesLot(x, p, place[x])
    /\ UNCHANGED <<remote, cache, place, def, live, dead, made, work, pass, raced>>

\* editPartTypeDefinition, of a part type without an open row: an update_part, or
\* ensurePartTypeSync when Part-DB does not have the part type.
EditPartType(p, d) ==
    /\ p \in live /\ op[p] = NoOp
    /\ Change
    /\ def' = [def EXCEPT ![p] = d]
    /\ LET o == IF column[p] = NoId THEN CreatePart(p, d) ELSE UpdatePart(p, d, column[p])
       IN  op' = Enqueued(op, p, o) /\ keys' = keys \cup {KeyOf(p, o)}
    /\ UNCHANGED <<remote, cache, column, part, place, live, dead, drops, made, work, pass, raced>>

\* What an approval and a merge change of a definition: the review, and the aliases.
Alike(d) == {e \in Definition : Category[e] = Category[d]}

\* approvePartType: no row is enqueued.
ApprovePartType(p, d) ==
    /\ p \in live /\ d \in Alike(def[p])
    /\ Change
    /\ def' = [def EXCEPT ![p] = d]
    /\ UNCHANGED <<remote, cache, column, part, place, live, table, work, pass, raced>>

\* mergePartTypes: the row of the source is deleted, Part-DB is told nothing.
MergePartTypes(p, q, d) ==
    /\ {p, q} \subseteq live /\ p # q /\ d \in Alike(def[q])
    /\ live' = live \ {p}
    /\ part' = [x \in Item |-> IF part[x] = p THEN q ELSE part[x]]
    /\ def' = [def EXCEPT ![q] = d]
    /\ column' = [column EXCEPT ![p] = NoId]
    /\ UNCHANGED <<remote, cache, place, table, work, pass, spent, raced>>

-----------------------------------------------------------------------------
(* Deletions by hand in Part-DB, and the script that reconciles with them.     *)

\* With a part go its lots.
DeletedByHand(i) ==
    /\ Mishap
    /\ remote[i].exists /\ remote[i].kind \in {"part", "lot"}
    /\ remote' = [j \in DOMAIN remote |->
          IF j = i \/ (remote[i].kind = "part" /\ remote[j].of = i)
          THEN [remote[j] EXCEPT !.exists = FALSE] ELSE remote[j]]
    /\ UNCHANGED <<cache, column, inventory, table, work, pass, raced>>

\* The rows with a reference are read, the part types' first, the items' when those are done.
References(X) == {<<x, column[x]>> : x \in {y \in X : column[y] # NoId}}

StartPass ==
    /\ pass = NoPass /\ spent.pass < MaxPasses
    /\ pass' = [NoPass EXCEPT !.phase = "parts", !.todo = References(live)]
    /\ spent' = [spent EXCEPT !.pass = @ + 1]
    /\ UNCHANGED <<remote, cache, column, inventory, table, work, raced>>

\* Mutant: any failure is taken for a 404.
AnyFailure(entry) == {entry, NoEntry}

\* What to clear after the GET of an entry.
Verdict(entry) == IF remote[entry[2]].exists THEN {NoEntry} ELSE {entry}

Ask(entry) ==
    /\ entry \in pass.todo /\ pass.gone = NoEntry
    /\ \E gone \in Verdict(entry) : pass' = [pass EXCEPT !.todo = @ \ {entry}, !.gone = gone]
    /\ UNCHANGED <<remote, cache, column, inventory, table, work, spent, raced>>

\* clearPartReference, clearLotReference: by the row's id, not by the reference that was
\* looked up.
Clear ==
    /\ pass.gone # NoEntry
    /\ LET x == pass.gone[1]
       IN  column' = [y \in Target |->
              IF y = x \/ (y \in Item /\ part[y] = x) THEN NoId ELSE column[y]]
    /\ pass' = [pass EXCEPT !.gone = NoEntry]
    /\ UNCHANGED <<remote, cache, inventory, table, work, spent, raced>>

PassGoesOn ==
    /\ pass.phase # "idle" /\ pass.todo = {} /\ pass.gone = NoEntry
    /\ pass' = IF pass.phase = "items" THEN NoPass
               ELSE [NoPass EXCEPT !.phase = "items", !.todo = References(Item)]
    /\ UNCHANGED <<remote, cache, column, inventory, table, work, spent, raced>>

\* Any other failure ends the pass.
PassFails ==
    /\ pass.todo # {} /\ pass.gone = NoEntry
    /\ pass' = NoPass
    /\ UNCHANGED <<remote, cache, column, inventory, table, work, spent, raced>>

-----------------------------------------------------------------------------
Command ==
    \/ \E x \in Item :
          \/ \E path \in Places : Move(x, path) \/ \E p \in Part : AssignQr(x, p, path)
          \/ \E p \in Part : ReassignPartType(x, p)
    \/ \E p \in Part, d \in Definition :
          \/ EditPartType(p, d) \/ ApprovePartType(p, d)
          \/ \E q \in Part : MergePartTypes(p, q, d)

Worker(t) ==
    \/ \E x \in Target : Take(t, x)
    \/ Find(t) \/ Create(t) \/ \E again \in BOOLEAN : CreateUnanswered(t, again)
    \/ Call(t) \/ Settle(t) \/ Fails(t) \/ GivesUp(t)

Reconciler ==
    \/ StartPass \/ Clear \/ PassGoesOn \/ PassFails
    \/ \E entry \in pass.todo : Ask(entry)

Next ==
    \/ Command
    \/ \E t \in Tick : Worker(t)
    \/ \E row \in dead : Retry(row[1], row[2])
    \/ \E i \in drops : DropLot(i)
    \/ \E i \in DOMAIN remote : DeletedByHand(i)
    \/ Reconciler

Spec == Init /\ [][Next]_vars

-----------------------------------------------------------------------------
(* Properties.                                                                 *)

Names(x, i) == remote[i].kind = IF x \in Part THEN "part" ELSE "lot"

\* Every reference is the id of an object of its kind, those the reconciler and the open
\* rows still hold included, and every tick has a place in its operation's path.
TypeOK ==
    /\ remote \in Seq(Object) /\ Len(remote) <= MaxObjects
    /\ \A tree \in Trees, key \in PathKey : cache[tree][key] \in 0 .. Len(remote)
    /\ \A x \in Target : column[x] # NoId => Names(x, column[x])
    /\ \A row \in PartRow : made[row] # NoId => Names(row[1], made[row])
    /\ \A entry \in pass.todo \cup ({pass.gone} \ {NoEntry}) : Names(entry[1], entry[2])
    /\ drops \subseteq {i \in DOMAIN remote : remote[i].kind = "lot"}
    /\ \A t \in Tick : work[t].stage \in {"find", "create"} =>
          work[t].depth \in DOMAIN op[work[t].on].path

\* Node i of a tree is where the first d names of a path lead: it and its ancestors, from
\* the root on, bear these names up to case.
LeadsTo(tree, path, d, i) ==
    \E chain \in [1 .. d -> DOMAIN remote] :
        /\ chain[d] = i
        /\ \A e \in 1 .. d :
              LET node == remote[chain[e]]
              IN  /\ node.kind = tree /\ Lower[node.name] = Lower[path[e]]
                  /\ node.under = IF e = 1 THEN NoId ELSE chain[e - 1]

TreeFor(kind) == IF kind = "part" THEN "category" ELSE "location"

\* A part or lot lies under the category or location its last operation named, up to case:
\* whatever ticks resolve at once, whatever was cached, and whichever answers were lost.
FiledUnderPath ==
    \A i \in DOMAIN remote :
        LET object == remote[i]
        IN  object.kind \in {"part", "lot"} =>
                LeadsTo(TreeFor(object.kind), object.path, Len(object.path), object.under)

\* No category or location is created twice, by failed operations that are tried again
\* either, unless two ticks resolved paths at once or a POST was sent again.
OneNodePerPath ==
    ~raced =>
        \A i, j \in DOMAIN remote :
            remote[i].kind \in Trees /\ remote[j].kind = remote[i].kind
                /\ remote[j].name = remote[i].name /\ remote[j].under = remote[i].under => i = j

\* The reconciler forgets only what is gone from Part-DB.  Excused are a reference that
\* changed while it was asking, and the lot of an item that lies under another part than
\* the one its part type was found to have lost.
ForgetsOnlyTheGone ==
    [][Clear => \A x \in Target : column'[x] # column[x] =>
          \/ ~remote[column[x]].exists
          \/ x = pass.gone[1] /\ column[x] # pass.gone[2]
          \/ x # pass.gone[1] /\ remote[column[x]].of # pass.gone[2]]_vars

=============================================================================
