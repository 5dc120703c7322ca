----------------------------- MODULE Controller -----------------------------
(* The browser's side: RewriteAppController (app-controller.ts), its lock     *)
(* `pendingAction`, its scans and submissions in flight, and the bulk queue   *)
(* machine (bulk-queue-machine.ts) with the copy of it that the view draws.   *)
(*                                                                            *)
(* JavaScript runs one handler at a time up to its next await, so an action   *)
(* is a handler, or the rest of it after an await.  A user's control is       *)
(* enabled exactly when render.ts draws it enabled.  The answers of the       *)
(* server are chosen freely: a code may be on another item each time it is    *)
(* looked up, since other users assign labels too.  Rows are a set: their     *)
(* order is how they are drawn.                                               *)
EXTENDS Naturals

CONSTANTS
    Code,       \* the codes the user scans
    NoCode,     \* no code
    Item,       \* ids of items
    NoItem,     \* no item
    Instance,   \* the items that are physical instances; the others are bins
    NoJob,      \* no handler
    Job,        \* handlers of submissions under way: what bounds them is the user's patience
    MaxBypasses \* bound on how often the user gets around the lock

ASSUME ControllerAssumption ==
    /\ NoCode \notin Code
    /\ NoItem \notin Item
    /\ Instance \subseteq Item
    /\ NoJob \notin Job
    /\ MaxBypasses \in Nat

Actions == {"label", "move", "delete"}
Kinds == {"unlabeled", "assigned"}

VARIABLES
    auth,       \* the auth machine's state; the application is drawn when it is authenticated
    pending,    \* pendingAction, the lock on every form: "none", "logout", or "busy" with
                \* anything else
    scanMode,   \* "oneByOne", or the action of the bulk mode
    screen,     \* scanResult: what the scan card shows
    assignFor,  \* assignForm.qrCode
    eventFor,   \* eventForm.targetId
    queue,      \* the bulk queue machine
    view,       \* state.bulkQueue, the copy of it that is drawn and submitted
    swapped,    \* history: the card shows another item than the one whose form is drawn,
                \* because a refresh of the card was answered with another one
    lookup,     \* the scan scanRequestId numbers, while it is under way
    jobs,       \* the handlers of submissions under way
    leaving,    \* handleLogout is under way
    bypasses    \* history: how often the user got around the lock while it was held

vars == <<auth, pending, scanMode, screen, assignFor, eventFor, swapped,
          queue, view, lookup, jobs, leaving, bypasses>>

card == <<screen, assignFor, eventFor, swapped>>

Row == [code: Code, kind: Kinds, fresh: BOOLEAN]

\* What a scan can be answered with, and the card that shows it for a code.
Mode(x) == IF x \in Instance THEN "instance" ELSE "bulk"
Answers == [mode: {"unknown", "label"}, item: {NoItem}]
               \cup {[mode |-> Mode(x), item |-> x] : x \in Item}
Shown(answer, c) == [mode |-> answer.mode, code |-> c, item |-> answer.item]

NoScreen == [mode |-> "none", code |-> NoCode, item |-> NoItem]
NoLookup == [use |-> "none", code |-> NoCode, job |-> NoJob, aborted |-> FALSE]
At(stage) == [stage |-> stage, kind |-> "none", code |-> NoCode, item |-> NoItem,
              action |-> "none", rows |-> {}]
Sent(kind, c, x) == [At("sent") EXCEPT !.kind = kind, !.code = c, !.item = x]
EmptyQueue(a) == [state |-> "empty", action |-> a, kind |-> "none", rows |-> {}]
EmptyView(a) == [action |-> a, kind |-> "none", rows |-> {}]

Interacts(s) == s.mode \in {"instance", "bulk"}
Working == \E j \in Job : jobs[j].stage # "idle"
Looking == lookup.use # "none"

\* Opening a correction and signing out are the two things no lock holds back.
GetsAround ==
    IF Working \/ Looking
    THEN bypasses < MaxBypasses /\ bypasses' = bypasses + 1
    ELSE UNCHANGED bypasses

Init ==
    /\ auth = "authenticated" /\ pending = "none" /\ scanMode = "oneByOne"
    /\ screen = NoScreen /\ assignFor = NoCode /\ eventFor = NoItem /\ swapped = FALSE
    /\ queue = EmptyQueue("label") /\ view = EmptyView("label")
    /\ lookup = NoLookup
    /\ jobs = [j \in Job |-> At("idle")]
    /\ leaving = FALSE /\ bypasses = 0

-----------------------------------------------------------------------------
(* What render.ts draws of the state, and enabled: where the user can act.      *)

DrawsApp == auth = "authenticated"

\* Every button that submits is disabled while something is pending.
Unlocked == DrawsApp /\ pending = "none"

DrawsCard(modes) == Unlocked /\ scanMode = "oneByOne" /\ screen.mode \in modes

DrawsLabelCard == DrawsCard({"label"})

DrawsEventForm == DrawsCard({"instance", "bulk"})

DrawsChips == DrawsCard({"instance", "bulk"})

DrawsEditPanel == DrawsCard({"instance", "bulk"})

\* The tabs of the queue and the steppers of its rows are never disabled.
DrawsQueue == DrawsApp /\ scanMode \in Actions

\* The forms of the queue: the view says which one, not the mode.
DrawsQueueForm(a) ==
    Unlocked /\ scanMode \in Actions /\ view.action = a /\ view.rows # {}

-----------------------------------------------------------------------------
(* The bulk queue machine: what it becomes on each event.  While it is        *)
(* submitting it ignores everything but the outcome.                          *)

\* Mutant: the rows survive the change.
KeepsRows(q, a) == IF q.state = "submitting" THEN q ELSE [q EXCEPT !.action = a]

ActionChanged(q, a) == IF q.state = "submitting" THEN q ELSE EmptyQueue(a)

Cleared(q) == IF q.state = "submitting" THEN q ELSE EmptyQueue(q.action)

\* mergeRow: a code scanned again only counts, and how often is left out.
Merged(rows, row) ==
    IF \E r \in rows : r.code = row.code THEN rows ELSE rows \cup {row}

RowAccepted(q, row) ==
    IF q.state = "submitting" THEN q
    ELSE [q EXCEPT !.state = "ready", !.kind = row.kind, !.rows = Merged(q.rows, row)]

RowRejected(q) ==
    IF q.state = "submitting" THEN q ELSE [q EXCEPT !.state = "failed"]

\* deriveKind: the kind of the first row, which is the kind of all of them.
KindOf(rows) == IF rows = {} THEN "none" ELSE (CHOOSE r \in rows : TRUE).kind

\* Mutants: the queue keeps the kind of the rows it lost; the steppers reach a queue
\* that is being submitted.
KeepsKind(q, rows) ==
    IF q.state \in {"empty", "submitting"} THEN q
    ELSE [q EXCEPT !.state = IF rows = {} THEN "empty" ELSE "ready", !.rows = rows]

StepsWhileSubmitting(q, rows) ==
    IF q.state = "empty" \/ rows = {} THEN q
    ELSE [q EXCEPT !.kind = KindOf(rows), !.rows = rows]

RowsBecome(q, rows) ==
    IF q.state \in {"empty", "submitting"} THEN q
    ELSE [q EXCEPT !.state = IF rows = {} THEN "empty" ELSE "ready",
                   !.kind = KindOf(rows), !.rows = rows]

Without(rows, c) == {r \in rows : r.code # c}

SubmitRequested(q) ==
    IF q.state \in {"ready", "failed"} THEN [q EXCEPT !.state = "submitting"] ELSE q

SubmitSucceeded(q) == IF q.state = "submitting" THEN EmptyQueue(q.action) ELSE q

SubmitFailed(q) == IF q.state = "submitting" THEN [q EXCEPT !.state = "failed"] ELSE q

\* The subscription copies the machine into the view after every event sent to it.
Drawn(q) == [action |-> q.action, kind |-> q.kind, rows |-> q.rows]

Send(q) == queue' = q /\ view' = Drawn(q)

\* clearBulkQueue: the view is emptied whatever the machine made of the event.
ClearBulkQueue(q, a) == queue' = ActionChanged(q, a) /\ view' = EmptyView(a)

-----------------------------------------------------------------------------
(* Parts of the handlers.                                                     *)

\* clearCurrentScanWorkspace
ClearWorkspace ==
    /\ screen' = NoScreen /\ assignFor' = NoCode /\ eventFor' = NoItem /\ swapped' = FALSE

\* resetAuthenticatedView, with the AUTH.FAILED that follows: the auth machine
\* ignores it while it is logging out.  The scan is aborted, submissions are not.
ResetView(q) ==
    /\ ClearWorkspace
    /\ scanMode' = "oneByOne"
    /\ queue' = Cleared(q) /\ view' = EmptyView("label")
    /\ pending' = "none"

AuthFails == auth' = IF auth = "loggingOut" THEN auth ELSE "out"

Aborted == lookup' = IF Looking THEN [lookup EXCEPT !.aborted = TRUE, !.code = NoCode] ELSE lookup

\* Mutant: the event form keeps the target it had.
KeepsTarget(c, answer) ==
    /\ screen' = Shown(answer, c)
    /\ assignFor' = IF answer.mode = "label" THEN c ELSE assignFor
    /\ eventFor' = IF eventFor = NoItem THEN answer.item ELSE eventFor
    /\ swapped' = (swapped /\ answer.item = NoItem)

\* applyScanResponse
Shows(c, answer) ==
    /\ screen' = Shown(answer, c)
    /\ assignFor' = IF answer.mode = "label" THEN c ELSE assignFor
    /\ eventFor' = IF answer.item = NoItem THEN eventFor ELSE answer.item
    /\ swapped' = (swapped /\ answer.item = NoItem)

\* performScan and handleBulkQueueScan up to their await.  The scan before is aborted
\* and its number overtaken, so the rest of it does nothing; a silent one's handler
\* goes on (Overtaken).
Starts(use, c, j) == lookup' = [use |-> use, code |-> c, job |-> j, aborted |-> FALSE]

\* buildBulkQueueRow: why an answer to a bulk scan may become a row.
Fits(a, row) ==
    /\ row.kind = IF a = "label" THEN "unlabeled" ELSE "assigned"
    /\ a = "delete" => row.fresh

Queueable(row, external) ==
    /\ scanMode \in Actions
    /\ ~external
    /\ view.kind \in {"none", row.kind}
    /\ Fits(scanMode, row)

-----------------------------------------------------------------------------
(* Scans.                                                                     *)

\* The scan form or the camera.
Scan(c) ==
    /\ Unlocked
    /\ Starts(IF scanMode = "oneByOne" THEN "scan" ELSE "queue", c, NoJob)
    /\ pending' = "busy"
    /\ UNCHANGED <<auth, scanMode, card, queue, view, jobs, leaving, bypasses>>

\* "Open on scan" in the correction log: the one scan no lock holds back.
OpenCorrection(c) ==
    /\ DrawsApp
    /\ Starts("scan", c, NoJob)
    /\ pending' = "busy"
    /\ GetsAround
    /\ UNCHANGED <<auth, scanMode, card, queue, view, jobs, leaving>>

\* The finally block.  A silent scan belongs to a submission, whose lock it leaves
\* alone and whose handler goes on when it returns.
Ends ==
    /\ lookup' = NoLookup
    /\ jobs' = IF lookup.use = "silent" THEN [jobs EXCEPT ![lookup.job] = At("reload")] ELSE jobs

\* Mutant: a silent scan releases the lock like any other.
AlwaysUnlocks == pending' = "none"

Unlocks == pending' = IF lookup.use = "silent" THEN pending ELSE "none"

Answerable == Looking /\ ~lookup.aborted

Answered(answer) ==
    /\ Answerable /\ lookup.use # "queue"
    /\ Shows(lookup.code, answer)
    /\ Unlocks /\ Ends
    /\ UNCHANGED <<auth, scanMode, queue, view, leaving, bypasses>>

\* applyBulkQueueScanResponse, for an answer a row can be made of.
Queued(row, external) ==
    /\ Answerable /\ lookup.use = "queue" /\ lookup.code = row.code
    /\ Send(IF Queueable(row, external) THEN RowAccepted(queue, row) ELSE RowRejected(queue))
    /\ Unlocks /\ Ends
    /\ UNCHANGED <<auth, scanMode, card, leaving, bypasses>>

\* No row can be made of the answer, or there is none.
LookupFails ==
    /\ Answerable
    /\ IF lookup.use = "queue" THEN Send(RowRejected(queue)) ELSE UNCHANGED <<queue, view>>
    /\ Unlocks /\ Ends
    /\ UNCHANGED <<auth, scanMode, card, leaving, bypasses>>

LookupRefused ==
    /\ Answerable
    /\ ResetView(queue) /\ AuthFails
    /\ Ends
    /\ UNCHANGED <<leaving, bypasses>>

\* A scan aborted when the view was reset is still the latest.
LookupDropped ==
    /\ Looking /\ lookup.aborted
    /\ Unlocks /\ Ends
    /\ UNCHANGED <<auth, scanMode, card, queue, view, leaving, bypasses>>

\* A later scan overtook the silent scan of this handler.
Overtaken(j) ==
    /\ jobs[j].stage = "rescan" /\ lookup.job # j
    /\ jobs' = [jobs EXCEPT ![j] = At("reload")]
    /\ UNCHANGED <<auth, pending, scanMode, card, queue, view, lookup, leaving, bypasses>>

-----------------------------------------------------------------------------
(* The card and the queue in the user's hands.                                *)

ScanNext ==
    /\ Unlocked /\ ClearWorkspace
    /\ UNCHANGED <<auth, pending, scanMode, queue, view, lookup, jobs, leaving, bypasses>>

RegisterUnknown ==
    /\ DrawsCard({"unknown"})
    /\ screen' = [screen EXCEPT !.mode = "label"]
    /\ assignFor' = screen.code
    /\ UNCHANGED <<auth, pending, scanMode, eventFor, swapped, queue, view,
                   lookup, jobs, leaving, bypasses>>

\* The mode switches are not locked.
SetOneByOne ==
    /\ DrawsQueue
    /\ ClearBulkQueue(queue, view.action)
    /\ scanMode' = "oneByOne"
    /\ UNCHANGED <<auth, pending, card, lookup, jobs, leaving, bypasses>>

SetBulk ==
    /\ DrawsApp /\ scanMode = "oneByOne"
    /\ ClearWorkspace
    /\ scanMode' = view.action
    /\ UNCHANGED <<auth, pending, queue, view, lookup, jobs, leaving, bypasses>>

SetBulkAction(a) ==
    /\ DrawsQueue
    /\ ClearBulkQueue(queue, a)
    /\ scanMode' = a
    /\ UNCHANGED <<auth, pending, card, lookup, jobs, leaving, bypasses>>

ClearQueue ==
    /\ Unlocked /\ DrawsQueue /\ view.rows # {}
    /\ ClearBulkQueue(queue, view.action)
    /\ UNCHANGED <<auth, pending, scanMode, card, lookup, jobs, leaving, bypasses>>

\* The steppers of a row are not locked.  Decrementing a row takes it away or, when
\* it was scanned more than once, leaves it.
StepRow(c) ==
    /\ DrawsQueue
    /\ \E r \in view.rows : r.code = c
    /\ \E rows \in {Without(queue.rows, c), queue.rows} : Send(RowsBecome(queue, rows))
    /\ UNCHANGED <<auth, pending, scanMode, card, lookup, jobs, leaving, bypasses>>

-----------------------------------------------------------------------------
(* Submissions.                                                               *)

\* The handler keeps of its request what it reads when the answer comes.
Begin(j, job) ==
    /\ Unlocked /\ jobs[j].stage = "idle"
    /\ pending' = "busy"
    /\ jobs' = [jobs EXCEPT ![j] = job]
    /\ UNCHANGED <<auth, scanMode, card, queue, view, lookup, leaving, bypasses>>

\* handleAssign sends the form's code, handleAssignSame (with the last assignment,
\* which is data here) the card's.
Assign(j) ==
    /\ DrawsLabelCard
    /\ \/ assignFor # NoCode /\ Begin(j, Sent("assign", assignFor, NoItem))
       \/ Begin(j, Sent("assign", screen.code, NoItem))

\* handleRecordEvent sends the form's target, of the form's type, and submitQuickEvent
\* the card's, which it looks up again when that is a bin.
RecordEvent(j) ==
    \/ DrawsEventForm /\ eventFor # NoItem /\ Begin(j, Sent("event", NoCode, eventFor))
    \/ DrawsChips /\ Begin(j, Sent("quick", screen.code, screen.item))

\* The four corrections of the edit panel, which the user opens and closes at will.  The
\* card is looked up again, under the new code when that is what was corrected;
\* reversing an ingest takes the item away.
Correct(j) ==
    /\ DrawsEditPanel
    /\ \/ \E c \in Code : Begin(j, Sent("correct", c, screen.item))
       \/ Begin(j, Sent("reverse", NoCode, screen.item))

\* Batches, synchronisation, merges, corrections from the inventory tab: their answers
\* touch nothing modelled, so the request and the reload after it are one stage.
Administer(j) == Begin(j, At("reload"))

\* The form drawn is the view's, the handler checks the mode.  The rows are read
\* after the machine was told, and a form that does not parse ends it at once.
BulkSubmit(j) ==
    LET q == SubmitRequested(queue)
        sent == IF scanMode = "label" THEN q.rows ELSE {r \in q.rows : r.kind = "assigned"}
    IN  /\ DrawsQueueForm(scanMode) /\ jobs[j].stage = "idle"
        /\ \/ /\ sent # {}
              /\ Send(q)
              /\ pending' = "busy"
              /\ jobs' = [jobs EXCEPT ![j] = [At("sent") EXCEPT
                    !.kind = "bulk", !.action = scanMode, !.rows = sent]]
           \/ /\ Send(SubmitFailed(q))
              /\ UNCHANGED <<pending, jobs>>
        /\ UNCHANGED <<auth, scanMode, card, lookup, leaving, bypasses>>

Finishes(j) == jobs' = [jobs EXCEPT ![j] = At("idle")] /\ pending' = "none"

Reloads(j) == jobs' = [jobs EXCEPT ![j] = At("reload")]

\* After an assignment, or an event on a bin, the handler scans the code again.
Rescans(j, c) ==
    /\ Starts("silent", c, j)
    /\ jobs' = [jobs EXCEPT ![j] = At("rescan")]

AssignDone(j) ==
    /\ jobs[j].stage = "sent" /\ jobs[j].kind = "assign"
    /\ assignFor' = NoCode
    /\ Rescans(j, jobs[j].code)
    /\ UNCHANGED <<auth, pending, scanMode, screen, eventFor, swapped, queue, view,
                   leaving, bypasses>>

\* An instance's card is put away; a bin's is looked up again.
EventDone(j) ==
    /\ jobs[j].stage = "sent" /\ jobs[j].kind \in {"event", "quick"}
    /\ \/ /\ jobs[j].item \in Instance
          /\ ClearWorkspace /\ Reloads(j)
          /\ UNCHANGED lookup
       \/ /\ jobs[j].item \notin Instance /\ jobs[j].kind = "quick"
          /\ jobs' = [jobs EXCEPT ![j].stage = "refresh"]
          /\ UNCHANGED <<card, lookup>>
       \/ /\ jobs[j].item \notin Instance /\ jobs[j].kind = "event"
          /\ IF Interacts(screen) THEN Rescans(j, screen.code)
             ELSE Reloads(j) /\ UNCHANGED lookup
          /\ UNCHANGED card
    /\ UNCHANGED <<auth, pending, scanMode, queue, view, leaving, bypasses>>

CorrectDone(j) ==
    /\ jobs[j].stage = "sent"
    /\ \/ /\ jobs[j].kind = "correct"
          /\ jobs' = [jobs EXCEPT ![j].stage = "refresh"]
          /\ UNCHANGED screen
       \/ /\ jobs[j].kind = "reverse" /\ Reloads(j)
          /\ screen' = NoScreen
    /\ UNCHANGED <<auth, pending, scanMode, assignFor, eventFor, swapped, queue, view, lookup,
                   leaving, bypasses>>

\* The answer of a plain api.scan: no number, no abort, and the forms keep their target,
\* although the code may be on another item by now.
Refreshed(j, answer) ==
    /\ jobs[j].stage = "refresh"
    /\ screen' = Shown(answer, jobs[j].code)
    /\ swapped' = (swapped \/ answer.item \notin {NoItem, jobs[j].item})
    /\ Reloads(j)
    /\ UNCHANGED <<auth, pending, scanMode, assignFor, eventFor, queue, view, lookup,
                   leaving, bypasses>>

BulkDone(j) ==
    /\ jobs[j].stage = "sent" /\ jobs[j].kind = "bulk"
    /\ ClearBulkQueue(SubmitSucceeded(queue), jobs[j].action)
    /\ Reloads(j)
    /\ UNCHANGED <<auth, pending, scanMode, card, lookup, leaving, bypasses>>

\* loadAuthenticatedData returns, and the handler with it.
Reloaded(j) ==
    /\ jobs[j].stage = "reload"
    /\ Finishes(j)
    /\ UNCHANGED <<auth, scanMode, card, queue, view, lookup, leaving, bypasses>>

\* Mutant: a refused bulk request signs out before the machine hears of it.
MachineNotTold(j) == queue

\* The catch block tells the machine before anything else.
QueueAfterFailure(j) == IF jobs[j].kind = "bulk" THEN SubmitFailed(queue) ELSE queue

JobFails(j) ==
    /\ jobs[j].stage \in {"sent", "refresh"}
    /\ IF jobs[j].kind = "bulk" THEN Send(QueueAfterFailure(j)) ELSE UNCHANGED <<queue, view>>
    /\ Finishes(j)
    /\ UNCHANGED <<auth, scanMode, card, lookup, leaving, bypasses>>

JobRefused(j) ==
    /\ jobs[j].stage \in {"sent", "refresh", "reload"}
    /\ ResetView(IF jobs[j].stage = "sent" THEN QueueAfterFailure(j) ELSE queue) /\ AuthFails
    /\ jobs' = [jobs EXCEPT ![j] = At("idle")]
    /\ Aborted
    /\ UNCHANGED <<leaving, bypasses>>

-----------------------------------------------------------------------------
(* Signing out, and finding oneself signed out.                               *)

\* The 30 second poll, a search, a history: any other answer may be a 401.
PollRefused ==
    /\ auth # "out"
    /\ ResetView(queue) /\ AuthFails
    /\ Aborted
    /\ UNCHANGED <<jobs, leaving, bypasses>>

Logout ==
    /\ DrawsApp /\ pending # "logout"
    /\ pending' = "logout" /\ auth' = "loggingOut" /\ leaving' = TRUE
    /\ GetsAround
    /\ UNCHANGED <<scanMode, card, queue, view, lookup, jobs>>

\* A redirect leaves the page as it is; a failure brings the session back.
LogoutAnswered ==
    /\ leaving /\ leaving' = FALSE
    /\ \/ /\ ResetView(queue)
          /\ auth' = "out" /\ Aborted
       \/ /\ pending' = "none"
          /\ UNCHANGED <<auth, scanMode, card, queue, view, lookup>>
       \/ /\ pending' = "none" /\ auth' = "authenticated"
          /\ UNCHANGED <<scanMode, card, queue, view, lookup>>
    /\ UNCHANGED <<jobs, bypasses>>

-----------------------------------------------------------------------------
\* What a scan of this code can be answered with; a printed label is as fresh as can be.
Rows(c) ==
    {r \in [code: {c}, kind: Kinds, fresh: BOOLEAN] : r.kind = "unlabeled" => r.fresh}

LookupStep ==
    \/ \E c \in Code : Scan(c) \/ OpenCorrection(c)
    \/ \E answer \in Answers : Answered(answer)
    \/ \E row \in Rows(lookup.code), external \in BOOLEAN : Queued(row, external)
    \/ LookupFails \/ LookupRefused \/ LookupDropped

JobStep(j) ==
    \/ Assign(j) \/ RecordEvent(j) \/ Correct(j) \/ Administer(j) \/ BulkSubmit(j)
    \/ AssignDone(j) \/ EventDone(j) \/ CorrectDone(j) \/ BulkDone(j)
    \/ \E answer \in Answers : Refreshed(j, answer)
    \/ Overtaken(j) \/ Reloaded(j) \/ JobFails(j) \/ JobRefused(j)

UserStep ==
    \/ ScanNext \/ RegisterUnknown
    \/ SetOneByOne \/ SetBulk \/ ClearQueue
    \/ \E a \in Actions : SetBulkAction(a)
    \/ \E c \in Code : StepRow(c)

Next ==
    \/ LookupStep
    \/ \E j \in Job : JobStep(j)
    \/ UserStep \/ PollRefused \/ Logout \/ LogoutAnswered

Spec == Init /\ [][Next]_vars

-----------------------------------------------------------------------------
(* Properties.                                                                *)

\* The state has its types: the queue machine's states agree with its rows, and a
\* scan under way has a place in at most one handler.
TypeOK ==
    /\ auth \in {"authenticated", "loggingOut", "out"}
    /\ pending \in {"none", "busy", "logout"}
    /\ scanMode \in {"oneByOne"} \cup Actions
    /\ screen \in {Shown(answer, c) : answer \in Answers, c \in Code} \cup {NoScreen}
    /\ assignFor \in Code \cup {NoCode} /\ eventFor \in Item \cup {NoItem}
    /\ swapped \in BOOLEAN
    /\ leaving \in BOOLEAN /\ bypasses \in 0 .. MaxBypasses
    /\ queue.action \in Actions /\ queue.kind \in Kinds \cup {"none"}
    /\ queue.rows \subseteq Row /\ view.rows \subseteq Row
    /\ \A r, s \in queue.rows : r.code = s.code => r = s
    /\ (queue.rows = {}) = (queue.kind = "none")
    /\ queue.state = "empty" => queue.rows = {}
    /\ queue.state \in {"ready", "submitting"} => queue.rows # {}
    /\ queue.state \in {"empty", "ready", "submitting", "failed"}
    /\ lookup.use \in {"none", "scan", "queue", "silent"}
    /\ lookup.use = "silent" => jobs[lookup.job].stage = "rescan"
    /\ \A j \in Job : jobs[j].stage \in {"idle", "sent", "rescan", "refresh", "reload"}

\* Whatever the user switched while a submission was under way, and however it ended,
\* a bulk request only carries rows its action was offered for: printed labels to
\* label, assigned items to move, fresh ingests to reverse.
RowsFitRequest ==
    \A j \in Job : \A r \in jobs[j].rows : Fits(jobs[j].action, r)

\* Nothing is left locked: pendingAction is set, or the queue submitting, only while
\* a handler is under way that will release it.
NothingStaysLocked ==
    /\ pending # "none" =>
          Working \/ leaving \/ lookup.use \in {"scan", "queue"}
    /\ queue.state = "submitting" =>
          \E j \in Job : jobs[j].stage = "sent" /\ jobs[j].kind = "bulk"

\* Every form is locked while a submission is under way, up to the end of its
\* reload, and no scan the user asked for runs beside it.
Exclusive ==
    \A j \in Job : jobs[j].stage # "idle" =>
        /\ DrawsApp => pending # "none"
        /\ \A k \in Job \ {j} : jobs[k].stage = "idle"
        /\ Looking => lookup.use = "silent"

\* ... unless the user went around the lock, with one of the two controls it leaves
\* enabled, or was signed out and in by a sign-out that failed.
OneAtATime == bypasses = 0 => Exclusive

\* A bulk submission holds the queue until it is answered: what is cleared when it
\* succeeds, or is offered again when it fails, is what was sent.
SubmissionHoldsQueue ==
    bypasses = 0 => \A j \in Job : jobs[j].kind = "bulk" /\ jobs[j].stage = "sent" =>
        queue.state = "submitting" /\ queue.rows = jobs[j].rows

\* The event form acts on the item the card shows, or on nothing, unless a refresh
\* after a correction or a quick event was answered with another item.
FormActsOnCard ==
    bypasses = 0 /\ ~swapped /\ Interacts(screen) => eventFor \in {NoItem, screen.item}

=============================================================================
