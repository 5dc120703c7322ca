------------------------------- MODULE Outbox -------------------------------
(***************************************************************************)
(* The durable outbox of apps/middleware: the partdb_outbox table           *)
(* (PartDbOutbox), the worker that drains it (PartDbOutboxWorker), and the  *)
(* Part-DB server at the other end of each call.                            *)
(*                                                                          *)
(* SQLite is synchronous and Node runs one callback at a time, so whatever  *)
(* lies between two awaits is one action.  A tick of the worker awaits each *)
(* HTTP call; nothing stops setInterval or POST /drain from starting        *)
(* another tick meanwhile, so several ticks run interleaved.                *)
(*                                                                          *)
(* A row's id stands for its place in ORDER BY created_at, id.  Times are   *)
(* not numbers: "next" says whether next_attempt_at is due, "lease" counts  *)
(* down to lease_expires_at in units of time passing.                       *)
(***************************************************************************)
EXTENDS Naturals, FiniteSets

CONSTANTS
    PartTarget,   \* rows of part_types
    LotTarget,    \* rows of physical_instances and bulk_stocks
    NoTarget,     \* target = null
    Values,       \* what a create or a patch carries
    Tick,         \* ticks of the worker that may run at once
    MaxRows,      \* bound: rows the table ever holds
    MaxRemote,    \* bound: objects Part-DB ever creates
    MaxAttempts,  \* max_attempts of a row (10 in the code)
    BatchSize,    \* LIMIT of claimBatch (10 in the code)
    LeaseTime,    \* leaseDurationMs (30 s in the code), in units of Elapse
    MaxCrashes,   \* bound: restarts of the process
    MaxRetries,   \* bound: POST /retry by an administrator
    MaxLost,      \* bound: calls whose effect happens and whose answer is lost
    MaxOverruns   \* bound: leases that end while a tick still works on the batch

ASSUME OutboxAssumption ==
    /\ NoTarget \notin PartTarget \cup LotTarget
    /\ Values # {}
    /\ IsFiniteSet(Tick)
    /\ {MaxRows, MaxRemote, MaxCrashes, MaxRetries, MaxLost, MaxOverruns}
         \subseteq Nat
    /\ {MaxAttempts, BatchSize, LeaseTime} \subseteq Nat \ {0}

Targets == PartTarget \cup LotTarget
RowId == 1..MaxRows
NoRow == 0                  \* depends_on_id IS NULL
Iri   == 1..MaxRemote       \* Part-DB numbers its objects as it creates them
NoIri == 0                  \* null

CreateKinds == {"create_part", "create_lot"}
LotChange   == {"update_lot", "delete_lot"}
PartChange  == {"update_part", "delete_part"}
Kinds == CreateKinds \cup LotChange \cup PartChange

VARIABLES
    rows,        \* partdb_outbox
    column,      \* partdb_part_id or partdb_lot_id of each target
    syncStatus,  \* partdb_sync_status of each target
    ticks,       \* the worker's ticks: claimed rows not yet settled, call in flight
    remote,      \* Part-DB: what each IRI denotes
    effects,     \* history: times Part-DB carried out each row's operation
    lost,        \* history: those whose answer never reached the row
    spent        \* restarts, retries, lost answers and overruns so far

tableVars == <<rows, column, syncStatus>>
vars == <<rows, column, syncStatus, ticks, remote, effects, lost, spent>>

Operation == [kind : Kinds, target : Targets \cup {NoTarget},
              ref : Iri \cup {NoIri}, val : Values, dep : RowId \cup {NoRow}]

Statuses == {"absent", "pending", "leased", "failed", "delivered", "dead"}

Row == [kind : Kinds, target : Targets \cup {NoTarget},
        ref : Iri \cup {NoIri}, val : Values, dep : RowId \cup {NoRow},
        status : Statuses, attempts : Nat, next : {"due", "later"},
        lease : 0..LeaseTime, iri : Iri \cup {NoIri}]

NoOp == [kind |-> "create_part", target |-> NoTarget, ref |-> NoIri,
         val |-> CHOOSE v \in Values : TRUE, dep |-> NoRow]

RowOf(op, status) ==
    [kind |-> op.kind, target |-> op.target, ref |-> op.ref, val |-> op.val,
     dep |-> op.dep, status |-> status, attempts |-> 0, next |-> "due",
     lease |-> 0, iri |-> NoIri]

IdleTick == [batch |-> {}, seen |-> [r \in RowId |-> 0],
             call |-> "none", ref |-> NoIri]

CallPhases == {"none", "sent", "ok", "retryable", "fatal"}
TickState == [batch : SUBSET RowId, seen : [RowId -> Nat],
              call : CallPhases, ref : Iri \cup {NoIri}]

\* A Part-DB part or lot; a lot names its part and carries its owner's QR code as
\* user_barcode.
Object == [kind : {"none", "part", "lot"}, owner : Targets \cup {NoTarget},
           part : Iri \cup {NoIri}, val : Values, live : BOOLEAN]
NoObject == [kind |-> "none", owner |-> NoTarget, part |-> NoIri, val |-> NoOp.val,
             live |-> FALSE]

-----------------------------------------------------------------------------
(* The table: insertion.                                                    *)

Present(rs) == {r \in RowId : rs[r].status # "absent"}

\* computeIdempotencyKey: the hash of kind, payload and target, not of
\* dependsOnId.
KeyOf(op) == <<op.kind, op.ref, op.val, op.target>>

\* INSERT OR IGNORE against UNIQUE idempotency_key, whatever the old row's status.
Ignored(rs, op) == \E r \in Present(rs) : KeyOf(rs[r]) = KeyOf(op)

NextFree(rs, r) == /\ rs[r].status = "absent"
                   /\ \A q \in 1..(r - 1) : rs[q].status # "absent"
HasRoom(rs) == \E r \in RowId : NextFree(rs, r)
NewId(rs) == CHOOSE r \in RowId : NextFree(rs, r)

Insert(rs, op) == IF Ignored(rs, op) THEN rs
                  ELSE [rs EXCEPT ![NewId(rs)] = RowOf(op, "pending")]

\* setTargetSyncStatus
SetSync(ss, target, s) == IF target = NoTarget THEN ss ELSE [ss EXCEPT ![target] = s]

\* The id enqueue returns: the new row's, or that of the row already there.
EnqueuedId(rs, op) ==
    IF Ignored(rs, op) THEN CHOOSE r \in Present(rs) : KeyOf(rs[r]) = KeyOf(op)
    ELSE NewId(rs)

\* findLatestPendingTarget: the newest row of the target that is still open.
Open == {"pending", "failed", "leased"}
LatestOpen(rs, target) ==
    LET open == {r \in RowId : rs[r].target = target /\ rs[r].status \in Open}
    IN  IF open = {} THEN NoRow
        ELSE CHOOSE r \in open : \A q \in open : q <= r

-----------------------------------------------------------------------------
Init ==
    /\ rows = [r \in RowId |-> RowOf(NoOp, "absent")]
    /\ column = [x \in Targets |-> NoIri]
    /\ syncStatus = [x \in Targets |-> "never"]
    /\ ticks = [t \in Tick |-> IdleTick]
    /\ remote = [i \in Iri |-> NoObject]
    /\ effects = [r \in RowId |-> 0]
    /\ lost = [r \in RowId |-> 0]
    /\ spent = [crash |-> 0, retry |-> 0, lost |-> 0, overrun |-> 0]

Op(kind, x, named, v) ==
    [kind |-> kind, target |-> x, ref |-> named[1], val |-> v, dep |-> named[2]]

\* A payload's IRI and dependsOnId: callers read the IRI from a column and take the
\* dependency from the ids in the table.
Named(refs, deps) ==
    ((refs \cup {NoIri}) \X (deps \cup {NoRow})) \ {<<NoIri, NoRow>>}

RowsOf(X) == {r \in Present(rows) : rows[r].target \in X}
Columns(X) == {column[x] : x \in X} \ {NoIri}

\* What the callers of enqueue pass.
PartRequests(x) ==
    {Op("create_part", x, <<NoIri, NoRow>>, v) : v \in Values}
    \cup {Op("update_part", x, <<i, NoRow>>, v) : i \in Columns({x}), v \in Values}

LotRequests(x) ==
    LET own == Named(Columns({x}), RowsOf({x}))
    IN  {Op("create_lot", x, n, v) :
            n \in Named(Columns(PartTarget), RowsOf(PartTarget)), v \in Values}
        \cup {Op("update_lot", x, n, v) : n \in own, v \in Values}
        \cup {Op("delete_lot", x, n, NoOp.val) : n \in own}

LotRemovals(d) == {Op("delete_lot", NoTarget, <<i, d>>, NoOp.val) : i \in Columns(LotTarget)}
PartRemovals(d) == {Op("delete_part", NoTarget, <<i, d>>, NoOp.val) : i \in Columns(PartTarget)}
Removals == UNION {LotRemovals(d) \cup PartRemovals(d) : d \in {NoRow} \cup RowsOf({NoTarget})}

Requests == (UNION {PartRequests(x) : x \in PartTarget})
            \cup (UNION {LotRequests(x) : x \in LotTarget})
            \cup Removals

\* enqueue, called by InventoryService inside its own transaction.
Enqueue(op) ==
    /\ ~Ignored(rows, op)
    /\ HasRoom(rows)
    /\ rows' = Insert(rows, op)
    /\ syncStatus' = SetSync(syncStatus, op.target, "pending")
    /\ UNCHANGED <<column, ticks, remote, effects, lost, spent>>

-----------------------------------------------------------------------------
(* A tick: claimBatch, then processOne on each claimed row in turn.         *)

NoneReclaimed(rs) == rs                                              \* mutant
AllReclaimed(rs) == [r \in RowId |->                                 \* mutant
    IF rs[r].status = "leased" THEN [rs[r] EXCEPT !.status = "pending"] ELSE rs[r]]

\* The first statement of claimBatch: leases that ended are given back.
Reclaimed(rs) == [r \in RowId |->
    IF rs[r].status = "leased" /\ rs[r].lease = 0
    THEN [rs[r] EXCEPT !.status = "pending"] ELSE rs[r]]

DepSettled(rs, r) ==                                                 \* mutant
    rs[r].dep = NoRow \/ rs[rs[r].dep].status \in {"delivered", "dead"}

DepDelivered(rs, r) == rs[r].dep = NoRow \/ rs[rs[r].dep].status = "delivered"

EvenLeased(rs) == {r \in RowId : /\ rs[r].status \in Open           \* mutant
                                 /\ rs[r].next = "due" /\ DepDelivered(rs, r)}
EvenBlocked(rs) == {r \in RowId : /\ rs[r].status \in {"pending", "failed"}   \* mutant
                                  /\ rs[r].next = "due"}
OnlyPending(rs) == {r \in RowId : /\ rs[r].status = "pending"        \* mutant
                                  /\ rs[r].next = "due" /\ DepDelivered(rs, r)}

Claimable(rs) == {r \in RowId : /\ rs[r].status \in {"pending", "failed"}
                                /\ rs[r].next = "due"
                                /\ DepDelivered(rs, r)}

Batch(rs) == LET c == Claimable(rs)
             IN  {r \in c : Cardinality({q \in c : q <= r}) <= BatchSize}

LeasedTooLong(row) == [row EXCEPT !.status = "leased", !.lease = LeaseTime + 1,  \* mutant
                                  !.attempts = @ + 1]

Leased(row) == [row EXCEPT !.status = "leased", !.lease = LeaseTime,
                           !.attempts = @ + 1]

Claim(t) ==
    /\ ticks[t].batch = {}
    /\ LET rs == Reclaimed(rows)
           batch == Batch(rs)
       IN  /\ rows' = [r \in RowId |-> IF r \in batch THEN Leased(rs[r]) ELSE rs[r]]
           /\ ticks' = [ticks EXCEPT
                ![t] = [batch |-> batch,
                        seen |-> [r \in RowId |->
                                    IF r \in batch THEN rs[r].attempts + 1 ELSE 0],
                        call |-> "none", ref |-> NoIri]]
    /\ UNCHANGED <<column, syncStatus, remote, effects, lost, spent>>

\* The row whose turn it is in tick t.
Head(t) == CHOOSE r \in ticks[t].batch : \A q \in ticks[t].batch : r <= q

\* The tick is done with r and goes to the next row of its batch.
Without(tick, r) == [tick EXCEPT !.batch = @ \ {r}, !.seen[r] = 0,
                                 !.call = "none", !.ref = NoIri]

PayloadIri(rs, d) == IF rs[d].status = "delivered" THEN rs[d].ref ELSE NoIri  \* mutant

\* getDependencyResponseIri
DependencyIri(rs, d) == IF rs[d].status = "delivered" THEN rs[d].iri ELSE NoIri

\* hydrateOperation: the object the call will name, NoIri for dependency_missing.
HydratedRef(rs, r) ==
    LET row == rs[r]
        viaDep == /\ row.dep # NoRow
                  /\ \/ row.kind = "create_lot" /\ row.ref = NoIri
                     \/ row.kind \in LotChange
    IN  IF ~viaDep THEN row.ref
        ELSE IF row.ref # NoIri /\ DependencyIri(rs, row.dep) # NoIri THEN row.ref
        ELSE DependencyIri(rs, row.dep)

\* markFailed; a dead row keeps its next_attempt_at, a failed one backs off.
Failed(row, status) == [row EXCEPT !.status = status, !.lease = 0,
                                   !.next = IF status = "dead" THEN @ ELSE "later"]

FailsQuietly(r, status) ==                                           \* mutant
    /\ rows' = [rows EXCEPT ![r] = Failed(rows[r], status)]
    /\ UNCHANGED syncStatus

MarkFailed(r, status) ==
    /\ rows' = [rows EXCEPT ![r] = Failed(rows[r], status)]
    /\ syncStatus' = SetSync(syncStatus, rows[r].target, "failed")

\* The answer a call of the tick awaits, or has.
Calling(tick, call, ref) == [tick EXCEPT !.call = call, !.ref = ref]

Runs(t) == ticks[t].batch # {} /\ ticks[t].call = "none"

\* processOne up to its await.
Send(t) ==
    /\ Runs(t)
    /\ LET ref == HydratedRef(rows, Head(t))
       IN  /\ rows[Head(t)].kind = "create_part" \/ ref # NoIri
           /\ ticks' = [ticks EXCEPT ![t] = Calling(@, "sent", ref)]
    /\ UNCHANGED <<tableVars, remote, effects, lost, spent>>

\* dependency_missing: the row is dead without a call.
HydrateFails(t) ==
    /\ Runs(t)
    /\ rows[Head(t)].kind # "create_part"
    /\ HydratedRef(rows, Head(t)) = NoIri
    /\ MarkFailed(Head(t), "dead")
    /\ ticks' = [ticks EXCEPT ![t] = Without(@, Head(t))]
    /\ UNCHANGED <<column, remote, effects, lost, spent>>

Delivered(row, iri) == [row EXCEPT !.status = "delivered", !.lease = 0, !.iri = iri]

\* processOne after its await: markDelivered.
SettleDelivered(t) ==
    /\ ticks[t].call = "ok"
    /\ LET r == Head(t)
           x == rows[r].target
       IN  /\ rows' = [rows EXCEPT ![r] = Delivered(@, ticks[t].ref)]
           /\ column' = IF x = NoTarget THEN column
                        ELSE [column EXCEPT ![x] = IF rows[r].kind = "delete_lot"
                                                   THEN NoIri ELSE ticks[t].ref]
           /\ syncStatus' = SetSync(syncStatus, x, "synced")
           /\ ticks' = [ticks EXCEPT ![t] = Without(@, r)]
    /\ UNCHANGED <<remote, effects, lost, spent>>

\* The attempts are those of the claim, not those the row has by now.
Verdict(t, r) ==
    IF ticks[t].call = "fatal" \/ ticks[t].seen[r] >= MaxAttempts THEN "dead" ELSE "failed"

SettleFailed(t) ==
    /\ ticks[t].call \in {"retryable", "fatal"}
    /\ LET r == Head(t)
       IN  /\ MarkFailed(r, Verdict(t, r))
           /\ ticks' = [ticks EXCEPT ![t] = Without(@, r)]
    /\ UNCHANGED <<column, remote, effects, lost, spent>>

-----------------------------------------------------------------------------
(* Part-DB, as the worker sees it: PartDbOperations, PartDbRest.            *)

\* Whatever names an object (a lot names its part) needs it to be there.
Works(t) == \/ rows[Head(t)].kind = "create_part"
            \/ ticks[t].ref # NoIri /\ remote[ticks[t].ref].live

NewObject(i, k, row, ref) ==
    /\ remote[i].kind = "none"
    /\ \A j \in 1..(i - 1) : remote[j].kind # "none"
    /\ remote' = [remote EXCEPT ![i] =
          [kind |-> k, owner |-> row.target, part |-> ref, val |-> row.val, live |-> TRUE]]

\* The effect of a call for a row that names ref; i is the IRI of the answer.
Apply(row, ref, i) ==
    \/ row.kind = "create_part" /\ NewObject(i, "part", row, NoIri)
    \/ row.kind = "create_lot" /\ NewObject(i, "lot", row, ref)
    \/ /\ row.kind \in {"update_part", "update_lot"} /\ i = ref
       /\ remote' = [remote EXCEPT ![i].val = row.val]
    \/ /\ row.kind \in {"delete_part", "delete_lot"} /\ i = ref
       /\ remote' = [remote EXCEPT ![i].live = FALSE]

\* Part-DB carries the call out and its answer arrives.
Accept(t) ==
    /\ ticks[t].call = "sent" /\ Works(t)
    /\ \E i \in Iri :
        /\ Apply(rows[Head(t)], ticks[t].ref, i)
        /\ ticks' = [ticks EXCEPT ![t] = Calling(@, "ok", i)]
    /\ effects' = [effects EXCEPT ![Head(t)] = @ + 1]
    /\ UNCHANGED <<tableVars, lost, spent>>

\* Part-DB carries it out, the worker learns nothing of it: the connection drops
\* and withRetry sends again, or gives up, the 10 s pass, or the body does not parse
\* (schema_mismatch, which is not retryable).
LoseAnswer(t, call) ==
    /\ ticks[t].call = "sent" /\ Works(t)
    /\ spent.lost < MaxLost
    /\ \E i \in Iri : Apply(rows[Head(t)], ticks[t].ref, i)
    /\ ticks' = [ticks EXCEPT ![t] = Calling(@, call, ticks[t].ref)]
    /\ effects' = [effects EXCEPT ![Head(t)] = @ + 1]
    /\ lost' = [lost EXCEPT ![Head(t)] = @ + 1]
    /\ spent' = [spent EXCEPT !.lost = @ + 1]
    /\ UNCHANGED tableVars

\* Part-DB is down, slow or refuses: nothing happens there.
Refuse(t, call) ==
    /\ ticks[t].call = "sent"
    /\ ticks' = [ticks EXCEPT ![t] = Calling(@, call, ticks[t].ref)]
    /\ UNCHANGED <<tableVars, remote, effects, lost, spent>>

-----------------------------------------------------------------------------
(* Time, administrators and restarts.                                       *)

Held(r) == \E t \in Tick : r \in ticks[t].batch

\* Time passes for every lease.  A batch is worked on one row after the other, each
\* with calls of up to 10 s, so a lease can end under the tick that took it.
Overdue == {r \in RowId : rows[r].status = "leased" /\ rows[r].lease = 1 /\ Held(r)}

Elapse ==
    /\ \E r \in RowId : rows[r].status = "leased" /\ rows[r].lease > 0
    /\ Overdue # {} => spent.overrun < MaxOverruns
    /\ rows' = [r \in RowId |-> IF rows[r].lease > 0
                                THEN [rows[r] EXCEPT !.lease = @ - 1] ELSE rows[r]]
    /\ spent' = [spent EXCEPT !.overrun = IF Overdue = {} THEN @ ELSE @ + 1]
    /\ UNCHANGED <<column, syncStatus, ticks, remote, effects, lost>>

\* next_attempt_at passes: retryBackoffMs is 2 s to 300 s, either side of a lease.
BackoffElapses(r) ==
    /\ rows[r].next = "later"
    /\ rows' = [rows EXCEPT ![r] = [@ EXCEPT !.next = "due"]]
    /\ UNCHANGED <<column, syncStatus, ticks, remote, effects, lost, spent>>

Requeued(row) == [row EXCEPT !.status = "pending", !.next = "due", !.lease = 0]

RetryAnyDone(r) ==                                                   \* mutant
    /\ spent.retry < MaxRetries
    /\ rows[r].status \in {"failed", "dead", "delivered"}
    /\ rows' = [rows EXCEPT ![r] = Requeued(@)]
    /\ syncStatus' = SetSync(syncStatus, rows[r].target, "pending")
    /\ spent' = [spent EXCEPT !.retry = @ + 1]
    /\ UNCHANGED <<column, ticks, remote, effects, lost>>

\* POST /api/partdb/sync/retry/:id
Retry(r) ==
    /\ spent.retry < MaxRetries
    /\ rows[r].status \in {"failed", "dead"}
    /\ rows' = [rows EXCEPT ![r] = Requeued(@)]
    /\ syncStatus' = SetSync(syncStatus, rows[r].target, "pending")
    /\ spent' = [spent EXCEPT !.retry = @ + 1]
    /\ UNCHANGED <<column, ticks, remote, effects, lost>>

\* The process dies and starts again: the table survives, the ticks do not, and
\* an answer that had arrived is forgotten with them.
Crash ==
    /\ spent.crash < MaxCrashes
    /\ ticks' = [t \in Tick |-> IdleTick]
    /\ lost' = [r \in RowId |->
          lost[r] + Cardinality({t \in Tick : ticks[t].call = "ok" /\ Head(t) = r})]
    /\ spent' = [spent EXCEPT !.crash = @ + 1]
    /\ UNCHANGED <<tableVars, remote, effects>>

-----------------------------------------------------------------------------
Answers == {"retryable", "fatal"}

PartDb(t) == \/ Accept(t)
             \/ \E call \in Answers \cup {"sent"} : LoseAnswer(t, call)
             \/ \E call \in Answers : Refuse(t, call)

Worker(t) == \/ Send(t)
             \/ HydrateFails(t)
             \/ SettleDelivered(t)
             \/ SettleFailed(t)

\* What happens to the outbox besides enqueueing.
Delivering == \/ \E t \in Tick : Claim(t) \/ Worker(t) \/ PartDb(t)
              \/ Elapse
              \/ \E r \in RowId : BackoffElapses(r) \/ Retry(r)
              \/ Crash

Next == \/ \E op \in Requests : Enqueue(op)
        \/ Delivering

\* setInterval keeps firing, a promise that settled is taken up, a call is answered
\* or times out, and time passes.  Nobody has to enqueue, retry or crash.
Fairness ==
    /\ \A t \in Tick : /\ WF_vars(Claim(t))
                       /\ WF_vars(Worker(t))
                       /\ WF_vars(PartDb(t))
    /\ WF_vars(Elapse)
    /\ \A r \in RowId : WF_vars(BackoffElapses(r))

Spec == Init /\ [][Next]_vars
FairSpec == Spec /\ Fairness

-----------------------------------------------------------------------------
(* Properties.                                                              *)

TypeOK ==
    /\ rows \in [RowId -> Row]
    /\ column \in [Targets -> Iri \cup {NoIri}]
    /\ syncStatus \in [Targets -> {"never", "pending", "synced", "failed"}]
    /\ ticks \in [Tick -> TickState]
    /\ remote \in [Iri -> Object]
    /\ effects \in [RowId -> Nat]
    /\ lost \in [RowId -> Nat]
    /\ spent \in [crash : Nat, retry : Nat, lost : Nat, overrun : Nat]

\* Part-DB never carries out an operation before the one it depends on, and a row
\* is delivered only if Part-DB carried it out, however ticks overlap, answers get
\* lost and the process restarts.
EffectsFollowDependencies ==
    \A r \in RowId :
        /\ effects[r] > 0 /\ rows[r].dep # NoRow => effects[rows[r].dep] > 0
        /\ rows[r].status = "delivered" => effects[r] > 0

\* The remote id stored for a row of the inventory, and the object an update or a
\* delete in flight names, are always an object made for that same row: no item's
\* amount is ever written to another item's lot.
NamesOwnObject ==
    /\ \A x \in Targets : column[x] # NoIri => remote[column[x]].owner = x
    /\ \A t \in Tick : ticks[t].call = "sent" =>
          LET row == rows[Head(t)]
          IN  row.kind \notin CreateKinds /\ row.target # NoTarget
                => remote[ticks[t].ref].owner = row.target

\* claimBatch hands a row to one tick at a time, and only leased rows are worked on.
OneHolder ==
    /\ \A r \in RowId, t, u \in Tick :
          r \in ticks[t].batch /\ r \in ticks[u].batch => t = u
    /\ \A r \in RowId : Held(r) => rows[r].status = "leased"

\* Part-DB carries an operation out at most once more often than its answer was lost:
\* claiming, backing off, restarting and retrying by hand never repeat it.
NoNeedlessRepeat == \A r \in RowId : effects[r] <= lost[r] + 1

\* A create that was delivered, replayed by another tick, makes no second part or lot.
ReplayIsIdempotent ==
    \A r \in RowId : rows[r].status = "delivered" /\ rows[r].kind \in CreateKinds
                       => effects[r] <= lost[r] + 1

\* A row goes on backing off only while it has attempts left.
AttemptsLeft == \A r \in RowId : rows[r].status = "failed" => rows[r].attempts < MaxAttempts

\* Nothing takes a delivered row back, and its answer never changes.
DeliveredIsFinal ==
    [][\A r \in RowId : rows[r].status = "delivered" => rows'[r] = rows[r]]_vars

\* A lease whose tick died with the process does not hold its row for ever.
LeasesReclaimed ==
    \A r \in RowId : rows[r].status = "leased" /\ ~Held(r)
                       ~> ~(rows[r].status = "leased" /\ ~Held(r))

\* A row whose dependency is delivered is itself delivered or dead in the end.
Finishes ==
    \A r \in RowId :
        rows[r].status \in Open /\ DepDelivered(rows, r)
            ~> rows[r].status \in {"delivered", "dead"}

-----------------------------------------------------------------------------
(* The abstract delivery this implements as long as leases outlive ticks.   *)

StageOf(status) == CASE status = "absent" -> "absent"
                     [] status \in Open -> "queued"
                     [] status = "delivered" -> "done"
                     [] status = "dead" -> "given up"

D == INSTANCE Delivery WITH
        Id <- RowId, None <- NoRow,
        stage <- [r \in RowId |-> StageOf(rows[r].status)],
        after <- [r \in RowId |-> rows[r].dep],
        times <- effects

\* What becomes of the rows is an abstract delivery: a queued operation reaches
\* Part-DB only while its dependency is delivered, and only then ends.
ImplementsDelivery == D!Spec

=============================================================================
