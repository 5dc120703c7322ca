-------------------------- MODULE ControllerProofs --------------------------
(* Theorems of Controller, for any number of codes and of submissions under   *)
(* way: no lock outlives what it is for, two submissions or a scan beside one *)
(* need the user to go around the lock, the event form keeps to the card, and *)
(* a bulk request carries the rows of its queue, which fit its action.        *)
EXTENDS Controller, TLAPS

-----------------------------------------------------------------------------
(* Shapes: the fields a handler, the queue and a scan always have.            *)

HandlerOf(h) == [stage |-> h.stage, kind |-> h.kind, code |-> h.code, item |-> h.item,
                 action |-> h.action, rows |-> h.rows]

QueueOf(q) == [state |-> q.state, action |-> q.action, kind |-> q.kind, rows |-> q.rows]

IsLookup(l) == l \in [use: {l.use}, code: {l.code}, job: {l.job}, aborted: BOOLEAN]

Handlers ==
    /\ jobs = [j \in Job |-> jobs[j]]
    /\ \A j \in Job : jobs[j] = HandlerOf(jobs[j])

\* The rest of a silent scan's handler waits for it.
Awaited == lookup.use = "silent" => lookup.job \in Job /\ jobs[lookup.job].stage = "rescan"

ShapeInv ==
    /\ Handlers /\ Awaited
    /\ queue = QueueOf(queue)
    /\ IsLookup(lookup)

\* Only handler j moves on, to h.
Put(j, h) ==
    /\ Handlers'
    /\ jobs'[j] = h
    /\ \A k \in Job \ {j} : jobs'[k] = jobs[k]

LEMMA Puts ==
    ASSUME Handlers, NEW j \in Job, NEW h, h = HandlerOf(h), jobs' = [jobs EXCEPT ![j] = h]
    PROVE  Put(j, h)
<1>1. jobs' = [k \in Job |-> IF k = j THEN h ELSE jobs[k]]
  BY DEF Handlers
<1>2. jobs'[j] = h /\ \A k \in Job \ {j} : jobs'[k] = jobs[k]
  BY <1>1
<1>3. \A k \in Job : jobs'[k] = HandlerOf(jobs'[k])
  BY <1>2 DEF Handlers
<1>4. jobs' = [k \in Job |-> jobs'[k]]
  BY <1>1
<1> QED
  BY <1>2, <1>3, <1>4 DEF Put, Handlers

\* The handlers there are besides those under way.
LEMMA HandlersAre ==
    /\ \A s : /\ At(s) = HandlerOf(At(s)) /\ At(s).stage = s
              /\ At(s).kind = "none" /\ At(s).rows = {}
    /\ \A kind, c, x : /\ Sent(kind, c, x) = HandlerOf(Sent(kind, c, x))
                       /\ Sent(kind, c, x).stage = "sent"
                       /\ Sent(kind, c, x).kind = kind
                       /\ Sent(kind, c, x).code = c
                       /\ Sent(kind, c, x).item = x
                       /\ Sent(kind, c, x).rows = {}
<1>1. ASSUME NEW s
      PROVE  At(s) = HandlerOf(At(s)) /\ At(s).stage = s /\ At(s).kind = "none" /\ At(s).rows = {}
  BY DEF At, HandlerOf
<1>2. ASSUME NEW kind, NEW c, NEW x
      PROVE  Sent(kind, c, x) = [stage |-> "sent", kind |-> kind, code |-> c, item |-> x,
                                 action |-> "none", rows |-> {}]
  <2> DEFINE a == At("sent")
             b == [a EXCEPT !.kind = kind]
             d == [b EXCEPT !.code = c]
  <2>1. b = [stage |-> "sent", kind |-> kind, code |-> NoCode, item |-> NoItem,
             action |-> "none", rows |-> {}]
    BY DEF At
  <2> HIDE DEF b
  <2>2. d = [stage |-> "sent", kind |-> kind, code |-> c, item |-> NoItem,
             action |-> "none", rows |-> {}]
    BY <2>1
  <2>3. Sent(kind, c, x) = [d EXCEPT !.item = x]
    BY DEF Sent, b
  <2> HIDE DEF d
  <2> QED
    BY <2>2, <2>3
<1> QED
  BY <1>1, <1>2 DEF HandlerOf

\* A handler that moves on to its refresh, and one that carries rows.
LEMMA Refreshing ==
    ASSUME NEW h, h = HandlerOf(h)
    PROVE  LET r == [h EXCEPT !.stage = "refresh"] IN
           r = HandlerOf(r) /\ r.stage = "refresh" /\ r.kind = h.kind /\ r.code = h.code
             /\ r.item = h.item /\ r.action = h.action /\ r.rows = h.rows
<1>1. [h EXCEPT !.stage = "refresh"] =
        [stage |-> "refresh", kind |-> h.kind, code |-> h.code, item |-> h.item,
         action |-> h.action, rows |-> h.rows]
  BY DEF HandlerOf
<1> QED
  BY <1>1 DEF HandlerOf

Carrier(a, rows) == [At("sent") EXCEPT !.kind = "bulk", !.action = a, !.rows = rows]

LEMMA Carrying ==
    ASSUME NEW a, NEW rows
    PROVE  LET r == Carrier(a, rows) IN
           r = HandlerOf(r) /\ r.stage = "sent" /\ r.kind = "bulk" /\ r.action = a /\ r.rows = rows
<1> DEFINE b == [At("sent") EXCEPT !.kind = "bulk"]
           d == [b EXCEPT !.action = a]
<1>1. b = [stage |-> "sent", kind |-> "bulk", code |-> NoCode, item |-> NoItem,
           action |-> "none", rows |-> {}]
  BY DEF At
<1> HIDE DEF b
<1>2. d = [stage |-> "sent", kind |-> "bulk", code |-> NoCode, item |-> NoItem,
           action |-> a, rows |-> {}]
  BY <1>1
<1>3. Carrier(a, rows) = [d EXCEPT !.rows = rows]
  BY DEF b, Carrier
<1> HIDE DEF d
<1>4. [d EXCEPT !.rows = rows] = [stage |-> "sent", kind |-> "bulk", code |-> NoCode,
                                  item |-> NoItem, action |-> a, rows |-> rows]
  BY <1>2
<1> QED
  BY <1>3, <1>4 DEF HandlerOf

\* What the queue machine becomes is submitting only if it was, or was told to.
LEMMA QueueSteps ==
    ASSUME NEW q, q = QueueOf(q), NEW a, NEW row, NEW rows
    PROVE  \A r \in {ActionChanged(q, a), Cleared(q), RowAccepted(q, row), RowRejected(q),
                     RowsBecome(q, rows)} :
              r = QueueOf(r) /\ (r.state = "submitting" => q.state = "submitting")
<1>1. LET r == ActionChanged(q, a) IN
      r = QueueOf(r) /\ (r.state = "submitting" => q.state = "submitting")
  BY DEF ActionChanged, EmptyQueue, QueueOf
<1>2. LET r == Cleared(q) IN
      r = QueueOf(r) /\ (r.state = "submitting" => q.state = "submitting")
  BY DEF Cleared, EmptyQueue, QueueOf
<1>3. ASSUME NEW s, NEW k, NEW m
      PROVE  [q EXCEPT !.state = s, !.kind = k, !.rows = m] =
             [state |-> s, action |-> q.action, kind |-> k, rows |-> m]
  <2> DEFINE b == [q EXCEPT !.state = s]
             d == [b EXCEPT !.kind = k]
  <2>1. b = [state |-> s, action |-> q.action, kind |-> q.kind, rows |-> q.rows]
    BY DEF QueueOf
  <2> HIDE DEF b
  <2>2. d = [state |-> s, action |-> q.action, kind |-> k, rows |-> q.rows]
    BY <2>1
  <2>3. [q EXCEPT !.state = s, !.kind = k, !.rows = m] = [d EXCEPT !.rows = m]
    BY DEF b
  <2> HIDE DEF d
  <2> QED
    BY <2>2, <2>3
<1>4. LET r == RowAccepted(q, row) IN
      r = QueueOf(r) /\ (r.state = "submitting" => q.state = "submitting")
  BY <1>3 DEF RowAccepted, QueueOf
<1>5. LET r == RowRejected(q) IN
      r = QueueOf(r) /\ (r.state = "submitting" => q.state = "submitting")
  BY DEF RowRejected, QueueOf
<1>6. LET r == RowsBecome(q, rows) IN
      r = QueueOf(r) /\ (r.state = "submitting" => q.state = "submitting")
  BY <1>3 DEF RowsBecome, QueueOf
<1> QED
  BY <1>1, <1>2, <1>4, <1>5, <1>6

LEMMA QueueOutcomes ==
    ASSUME NEW q, q = QueueOf(q)
    PROVE  /\ SubmitRequested(q) = QueueOf(SubmitRequested(q))
           /\ \A r \in {SubmitSucceeded(q), SubmitFailed(q)} :
                 r = QueueOf(r) /\ r.state # "submitting"
  BY DEF SubmitRequested, SubmitSucceeded, SubmitFailed, EmptyQueue, QueueOf

\* Aborting a scan changes neither what it is for nor whose it is.
LEMMA Aborting ==
    ASSUME NEW l, IsLookup(l)
    PROVE  LET a == [l EXCEPT !.aborted = TRUE, !.code = NoCode] IN
           IsLookup(a) /\ a.use = l.use /\ a.job = l.job
<1> DEFINE b == [l EXCEPT !.aborted = TRUE]
           a == [b EXCEPT !.code = NoCode]
<1>1. /\ b \in [use: {l.use}, code: {l.code}, job: {l.job}, aborted: BOOLEAN]
      /\ b.use = l.use /\ b.job = l.job
  BY DEF IsLookup
<1>2. [l EXCEPT !.aborted = TRUE, !.code = NoCode] = a
  BY DEF b
<1> HIDE DEF b
<1>3. /\ a \in [use: {l.use}, code: {NoCode}, job: {l.job}, aborted: BOOLEAN]
      /\ a.use = l.use /\ a.job = l.job /\ a.code = NoCode
  BY <1>1
<1> HIDE DEF a
<1> QED
  BY <1>2, <1>3 DEF IsLookup

LEMMA Aborts ==
    ASSUME IsLookup(lookup), Aborted
    PROVE  IsLookup(lookup') /\ lookup'.use = lookup.use /\ lookup'.job = lookup.job
  BY Aborting DEF Aborted, IsLookup

-----------------------------------------------------------------------------
(* What each step does to the handlers.                                       *)

\* The steps of the scans: a silent one lets its handler go on.
LEMMA EndsPut ==
    ASSUME ShapeInv, Ends
    PROVE  /\ IsLookup(lookup') /\ lookup'.use = "none"
           /\ IF lookup.use = "silent" THEN lookup.job \in Job /\ Put(lookup.job, At("reload"))
                                       ELSE jobs' = jobs
<1>1. IsLookup(lookup') /\ lookup'.use = "none"
  BY DEF Ends, NoLookup, IsLookup
<1>2. ASSUME lookup.use = "silent"
      PROVE  lookup.job \in Job /\ Put(lookup.job, At("reload"))
  <2>1. lookup.job \in Job /\ jobs' = [jobs EXCEPT ![lookup.job] = At("reload")]
    BY <1>2 DEF ShapeInv, Awaited, Ends
  <2> QED
    BY <2>1, Puts, HandlersAre DEF ShapeInv
<1> QED
  BY <1>1, <1>2 DEF Ends

\* A submission starts: the handler was idle, and one that acts on the card knows
\* its item.
Starting(j, h) ==
    /\ jobs[j].stage = "idle" /\ Put(j, h)
    /\ Unlocked /\ pending' = "busy"
    /\ UNCHANGED <<auth, scanMode, card, lookup, leaving, bypasses>>

LEMMA BeginPut ==
    ASSUME ShapeInv, NEW j \in Job, NEW h, h = HandlerOf(h), Begin(j, h)
    PROVE  Starting(j, h) /\ queue' = queue
  BY Puts DEF Begin, ShapeInv, Starting

\* What the handler is then, of a form or of the card.
Begun(h) ==
    /\ h.stage \in {"sent", "reload"} /\ h.kind # "bulk" /\ h.rows = {}
    /\ h.kind \in {"quick", "correct"} =>
          /\ Interacts(screen) /\ h.item = screen.item
          /\ h.code = screen.code \/ h.code \in Code
    /\ h.kind = "assign" =>
          \/ assignFor # NoCode /\ h.code = assignFor
          \/ screen.mode = "label" /\ h.code = screen.code

LEMMA Beginning ==
    ASSUME ShapeInv, NEW j \in Job,
           Assign(j) \/ RecordEvent(j) \/ Correct(j) \/ Administer(j)
    PROVE  /\ queue' = queue
           /\ \E h : Starting(j, h) /\ Begun(h)
<1> DEFINE Fine(h) == h = HandlerOf(h) /\ Begun(h)
<1> USE DEF Begun
<1>1. \E h : Fine(h) /\ Begin(j, h)
  <2>1. CASE Assign(j)
    <3>1. \/ assignFor # NoCode /\ Begin(j, Sent("assign", assignFor, NoItem))
          \/ screen.mode = "label" /\ Begin(j, Sent("assign", screen.code, NoItem))
      BY <2>1 DEF Assign, DrawsLabelCard, DrawsCard
    <3> QED
      BY <3>1, HandlersAre
  <2>2. CASE RecordEvent(j)
    <3>1. \/ Begin(j, Sent("event", NoCode, eventFor))
          \/ Interacts(screen) /\ Begin(j, Sent("quick", screen.code, screen.item))
      BY <2>2 DEF RecordEvent, DrawsChips, DrawsCard, Interacts
    <3> QED
      BY <3>1, HandlersAre
  <2>3. CASE Correct(j)
    <3>1. /\ Interacts(screen)
          /\ \/ \E c \in Code : Begin(j, Sent("correct", c, screen.item))
             \/ Begin(j, Sent("reverse", NoCode, screen.item))
      BY <2>3 DEF Correct, DrawsEditPanel, DrawsCard, Interacts
    <3> QED
      BY <3>1, HandlersAre
  <2>4. CASE Administer(j)
    BY <2>4, HandlersAre DEF Administer
  <2> QED
    BY <2>1, <2>2, <2>3, <2>4
<1>2. PICK h : Fine(h) /\ Begin(j, h)
  BY <1>1
<1>3. Starting(j, h) /\ queue' = queue
  BY <1>2, BeginPut
<1> QED
  BY <1>2, <1>3

\* A bulk submission starts, or fails at once.
Carries(h) ==
    /\ h.stage = "sent" /\ h.kind = "bulk" /\ h.action = scanMode
    /\ h.rows = IF scanMode = "label" THEN SubmitRequested(queue).rows
                ELSE {r \in SubmitRequested(queue).rows : r.kind = "assigned"}

LEMMA BulkBeginning ==
    ASSUME ShapeInv, NEW j \in Job, BulkSubmit(j)
    PROVE  \/ /\ queue' = SubmitRequested(queue)
              /\ \E h : Starting(j, h) /\ Carries(h)
           \/ /\ queue' = SubmitFailed(SubmitRequested(queue))
              /\ UNCHANGED <<auth, pending, scanMode, card, lookup, jobs, leaving, bypasses>>
<1> DEFINE rows == IF scanMode = "label" THEN SubmitRequested(queue).rows
                   ELSE {r \in SubmitRequested(queue).rows : r.kind = "assigned"}
           h == Carrier(scanMode, rows)
<1> HIDE DEF rows
<1>0. /\ h = HandlerOf(h) /\ h.stage = "sent" /\ h.kind = "bulk"
      /\ h.action = scanMode /\ h.rows = rows
  BY Carrying
<1>1. h = HandlerOf(h) /\ Carries(h)
  BY <1>0 DEF Carries, rows
<1>2. \/ queue' = SubmitRequested(queue) /\ pending' = "busy" /\ jobs' = [jobs EXCEPT ![j] = h]
      \/ queue' = SubmitFailed(SubmitRequested(queue)) /\ UNCHANGED <<pending, jobs>>
  BY DEF BulkSubmit, Send, rows, Carrier
<1>3. /\ Unlocked /\ jobs[j].stage = "idle"
      /\ UNCHANGED <<auth, scanMode, card, lookup, leaving, bypasses>>
  BY DEF BulkSubmit, DrawsQueueForm
<1> HIDE DEF h
<1> QED
  BY <1>1, <1>2, <1>3, Puts DEF Starting, ShapeInv

\* The answers: what becomes of the handler.
LEMMA Answering ==
    ASSUME ShapeInv, NEW j \in Job
    PROVE  /\ AssignDone(j) \/ EventDone(j) \/ CorrectDone(j) =>
                /\ jobs[j].stage = "sent" /\ jobs[j].kind # "bulk"
                /\ \/ Put(j, At("reload")) /\ lookup' = lookup
                   \/ Put(j, At("rescan")) /\ lookup'.job = j /\ lookup'.use = "silent"
                        /\ IsLookup(lookup')
                   \/ /\ jobs[j].kind \in {"quick", "correct"} /\ lookup' = lookup
                      /\ Put(j, [jobs[j] EXCEPT !.stage = "refresh"])
           /\ BulkDone(j) \/ (\E m : Refreshed(j, m)) => Put(j, At("reload")) /\ lookup' = lookup
           /\ Overtaken(j) => Put(j, At("reload"))
           /\ Reloaded(j) \/ JobFails(j) \/ JobRefused(j) => Put(j, At("idle"))
<1>1. Reloads(j) => Put(j, At("reload"))
  BY Puts, HandlersAre DEF ShapeInv, Reloads
<1>2. ASSUME NEW c, Rescans(j, c)
      PROVE  /\ Put(j, At("rescan")) /\ lookup'.job = j
             /\ lookup'.use = "silent" /\ IsLookup(lookup')
  <2>1. Put(j, At("rescan"))
    BY <1>2, Puts, HandlersAre DEF ShapeInv, Rescans
  <2>2. lookup'.job = j /\ lookup'.use = "silent" /\ IsLookup(lookup')
    BY <1>2 DEF Rescans, Starts, IsLookup
  <2> QED
    BY <2>1, <2>2
<1>3. ASSUME jobs' = [jobs EXCEPT ![j].stage = "refresh"]
      PROVE  Put(j, [jobs[j] EXCEPT !.stage = "refresh"])
  <2> DEFINE h == [jobs[j] EXCEPT !.stage = "refresh"]
  <2>1. h = HandlerOf(h)
    BY Refreshing DEF ShapeInv, Handlers
  <2>2. jobs' = [jobs EXCEPT ![j] = h]
    BY <1>3
  <2> HIDE DEF h
  <2>3. Put(j, h)
    BY <2>1, <2>2, Puts DEF ShapeInv
  <2> QED
    BY <2>3 DEF h
<1>4. jobs' = [jobs EXCEPT ![j] = At("idle")] => Put(j, At("idle"))
  BY Puts, HandlersAre DEF ShapeInv
<1>5. AssignDone(j) => jobs[j].stage = "sent" /\ jobs[j].kind = "assign" /\ \E c : Rescans(j, c)
  BY DEF AssignDone
<1>6. EventDone(j) =>
         /\ jobs[j].stage = "sent" /\ jobs[j].kind \in {"event", "quick"}
         /\ \/ Reloads(j) /\ lookup' = lookup
            \/ \E c : Rescans(j, c)
            \/ /\ jobs[j].kind = "quick" /\ lookup' = lookup
               /\ jobs' = [jobs EXCEPT ![j].stage = "refresh"]
  BY DEF EventDone
<1>7. CorrectDone(j) =>
         /\ jobs[j].stage = "sent" /\ jobs[j].kind \in {"correct", "reverse"} /\ lookup' = lookup
         /\ \/ Reloads(j)
            \/ jobs[j].kind = "correct" /\ jobs' = [jobs EXCEPT ![j].stage = "refresh"]
  BY DEF CorrectDone
<1>8. BulkDone(j) \/ (\E m : Refreshed(j, m)) => Put(j, At("reload")) /\ lookup' = lookup
  BY <1>1 DEF BulkDone, Refreshed
<1>9. Overtaken(j) => Put(j, At("reload"))
  BY Puts, HandlersAre DEF ShapeInv, Overtaken
<1>10. Reloaded(j) \/ JobFails(j) \/ JobRefused(j) => Put(j, At("idle"))
  BY <1>4 DEF Reloaded, JobFails, JobRefused, Finishes
<1> QED
  BY <1>1, <1>2, <1>3, <1>5, <1>6, <1>7, <1>8, <1>9, <1>10

-----------------------------------------------------------------------------
(* The steps in groups, by what they do to handlers and scans.                *)

ScanBegins(c) == Scan(c) \/ OpenCorrection(c)

ScanEnds ==
    \/ \E answer \in Answers : Answered(answer)
    \/ \E row \in Rows(lookup.code), external \in BOOLEAN : Queued(row, external)
    \/ LookupFails \/ LookupRefused \/ LookupDropped

Submits(j) == Assign(j) \/ RecordEvent(j) \/ Correct(j) \/ Administer(j)

IsAnswered(j) == AssignDone(j) \/ EventDone(j) \/ CorrectDone(j)

Returns(j) == BulkDone(j) \/ \E answer \in Answers : Refreshed(j, answer)

Finished(j) == Reloaded(j) \/ JobFails(j) \/ JobRefused(j)

LEMMA Steps ==
    ASSUME Next
    PROVE  \/ \E c \in Code : ScanBegins(c)
           \/ ScanEnds
           \/ \E j \in Job : \/ Submits(j) \/ BulkSubmit(j) \/ IsAnswered(j)
                             \/ Returns(j) \/ Overtaken(j) \/ Finished(j)
           \/ UserStep \/ PollRefused \/ Logout \/ LogoutAnswered
  BY DEF Next, LookupStep, JobStep, ScanBegins, ScanEnds, Submits, IsAnswered, Returns, Finished

LEMMA EndsScan == ScanEnds => Ends /\ Looking
  BY DEF ScanEnds, Answered, Queued, LookupFails, LookupRefused, LookupDropped, Answerable

LEMMA BeginsScan ==
    ASSUME NEW c, ScanBegins(c)
    PROVE  /\ IsLookup(lookup') /\ lookup'.use \in {"scan", "queue"}
           /\ pending' = "busy" /\ DrawsApp
           /\ pending = "none" \/ GetsAround
           /\ UNCHANGED <<auth, scanMode, card, queue, view, jobs, leaving>>
<1>1. ASSUME NEW use, Starts(use, c, NoJob)
      PROVE  IsLookup(lookup') /\ lookup'.use = use
  BY <1>1 DEF Starts, IsLookup
<1> QED
  BY <1>1 DEF ScanBegins, Scan, OpenCorrection, Unlocked

LEMMA UserShape ==
    ASSUME UserStep
    PROVE  UNCHANGED <<auth, pending, lookup, jobs, leaving, bypasses>> /\ DrawsApp
  BY DEF UserStep, ScanNext, RegisterUnknown, SetOneByOne, SetBulk, ClearQueue, SetBulkAction,
         StepRow, DrawsCard, Unlocked, DrawsQueue, DrawsApp

LEMMA FinishedShape ==
    ASSUME ShapeInv, NEW j \in Job, Finished(j)
    PROVE  /\ Put(j, At("idle")) /\ pending' = "none"
           /\ jobs[j].stage \in {"sent", "refresh", "reload"}
           /\ IsLookup(lookup') /\ lookup'.use = lookup.use /\ lookup'.job = lookup.job
           /\ UNCHANGED <<leaving, bypasses>>
<1>1. Put(j, At("idle"))
  BY Answering DEF Finished
<1>2. /\ pending' = "none" /\ jobs[j].stage \in {"sent", "refresh", "reload"}
      /\ UNCHANGED <<leaving, bypasses>> /\ (lookup' = lookup \/ Aborted)
  BY DEF Finished, Reloaded, JobFails, JobRefused, Finishes, ResetView
<1> QED
  BY <1>1, <1>2, Aborts DEF ShapeInv

-----------------------------------------------------------------------------
(* The shapes are kept.                                                       *)

\* A handler that moves on leaves the one a silent scan belongs to waiting for it.
LEMMA KeepsAwaited ==
    ASSUME ShapeInv, NEW j \in Job, NEW h, Put(j, h),
           lookup'.use = lookup.use, lookup'.job = lookup.job,
           jobs[j].stage # "rescan" \/ lookup.job # j
    PROVE  Handlers' /\ Awaited'
  BY DEF ShapeInv, Awaited, Put

LEMMA HandlersShape ==
    ASSUME ShapeInv, Next
    PROVE  Handlers' /\ Awaited' /\ IsLookup(lookup')
<1>1. ASSUME NEW c \in Code, ScanBegins(c) PROVE Handlers' /\ Awaited' /\ IsLookup(lookup')
  BY <1>1, BeginsScan DEF ShapeInv, Handlers, Awaited
<1>2. CASE ScanEnds
  <2>1. Ends
    BY <1>2, EndsScan
  <2>2. IsLookup(lookup') /\ Awaited'
    BY <2>1, EndsPut DEF Awaited
  <2>3. Handlers'
    BY <2>1, EndsPut DEF ShapeInv, Handlers, Put
  <2> QED
    BY <2>2, <2>3
<1>3. ASSUME NEW j \in Job, Submits(j) \/ BulkSubmit(j)
      PROVE  Handlers' /\ Awaited' /\ IsLookup(lookup')
  <2>1. \/ lookup' = lookup /\ jobs' = jobs
        \/ lookup' = lookup /\ jobs[j].stage = "idle" /\ \E h : Put(j, h)
    BY <1>3, Beginning, BulkBeginning DEF Starting, Submits
  <2> QED
    BY <2>1, KeepsAwaited DEF ShapeInv, Handlers, Awaited
<1>4. ASSUME NEW j \in Job, IsAnswered(j) PROVE Handlers' /\ Awaited' /\ IsLookup(lookup')
  <2>1. jobs[j].stage = "sent"
    BY <1>4, Answering DEF IsAnswered
  <2>2. CASE lookup' = lookup /\ \E h : Put(j, h)
    BY <2>1, <2>2, KeepsAwaited DEF ShapeInv
  <2>3. CASE Put(j, At("rescan")) /\ lookup'.job = j /\ IsLookup(lookup')
    BY <2>3, HandlersAre DEF Put, Awaited
  <2> QED
    BY <1>4, <2>2, <2>3, Answering DEF IsAnswered
<1>5. ASSUME NEW j \in Job, Returns(j) PROVE Handlers' /\ Awaited' /\ IsLookup(lookup')
  <2>1. Put(j, At("reload")) /\ lookup' = lookup /\ jobs[j].stage \in {"sent", "refresh"}
    BY <1>5, Answering DEF Returns, BulkDone, Refreshed
  <2> QED
    BY <2>1, KeepsAwaited DEF ShapeInv
<1>6. ASSUME NEW j \in Job, Overtaken(j) PROVE Handlers' /\ Awaited' /\ IsLookup(lookup')
  <2>1. Put(j, At("reload")) /\ lookup' = lookup /\ lookup.job # j
    BY <1>6, Answering DEF Overtaken
  <2> QED
    BY <2>1, KeepsAwaited DEF ShapeInv
<1>7. ASSUME NEW j \in Job, Finished(j) PROVE Handlers' /\ Awaited' /\ IsLookup(lookup')
  BY <1>7, FinishedShape, KeepsAwaited
<1>8. CASE UserStep
  BY <1>8, UserShape DEF ShapeInv, Handlers, Awaited
<1>9. CASE PollRefused \/ Logout \/ LogoutAnswered
  <2>1. jobs' = jobs /\ (lookup' = lookup \/ Aborted)
    BY <1>9 DEF PollRefused, Logout, LogoutAnswered
  <2>2. IsLookup(lookup') /\ lookup'.use = lookup.use /\ lookup'.job = lookup.job
    BY <2>1, Aborts DEF ShapeInv
  <2> QED
    BY <2>1, <2>2 DEF ShapeInv, Handlers, Awaited
<1> QED
  BY <1>1, <1>2, <1>3, <1>4, <1>5, <1>6, <1>7, <1>8, <1>9, Steps

\* The queue keeps its shape, and only a bulk submission makes it submitting.
LEMMA QueueShape ==
    ASSUME ShapeInv, Next
    PROVE  /\ queue' = QueueOf(queue')
           /\ queue'.state = "submitting" =>
                 \/ queue.state = "submitting"
                 \/ \E j \in Job : BulkSubmit(j) /\ queue' = SubmitRequested(queue)
<1> DEFINE Keeps(q) == q = QueueOf(q) /\ (q.state = "submitting" => queue.state = "submitting")
<1>0. queue = QueueOf(queue) /\ Keeps(queue)
  BY DEF ShapeInv
<1>1. \A r \in {Cleared(queue), SubmitFailed(queue), SubmitSucceeded(queue),
                RowRejected(queue)} : Keeps(r)
  BY <1>0, QueueSteps, QueueOutcomes
<1>2. \A a, row, rows : Keeps(ActionChanged(queue, a)) /\ Keeps(RowAccepted(queue, row))
                          /\ Keeps(RowsBecome(queue, rows))
  BY <1>0, QueueSteps
<1>3. /\ \A a : Keeps(ActionChanged(SubmitSucceeded(queue), a))
      /\ Keeps(Cleared(SubmitFailed(queue)))
      /\ Keeps(SubmitFailed(SubmitRequested(queue)))
      /\ SubmitRequested(queue) = QueueOf(SubmitRequested(queue))
  BY <1>0, QueueSteps, QueueOutcomes
<1>4. ASSUME NEW j \in Job, BulkSubmit(j)
      PROVE  Keeps(queue') \/ queue' = SubmitRequested(queue)
  BY <1>3, <1>4, BulkBeginning
<1>5. ASSUME ScanEnds PROVE Keeps(queue')
  <2>1. \/ queue' = queue \/ queue' = RowRejected(queue) \/ queue' = Cleared(queue)
        \/ \E row : queue' = RowAccepted(queue, row)
    BY <1>5 DEF ScanEnds, Answered, Queued, LookupFails, LookupRefused, LookupDropped,
                Send, ResetView
  <2> QED
    BY <2>1, <1>0, <1>1, <1>2
<1>6. ASSUME UserStep PROVE Keeps(queue')
  <2>1. \/ queue' = queue
        \/ \E a : queue' = ActionChanged(queue, a)
        \/ \E rows : queue' = RowsBecome(queue, rows)
    BY <1>6 DEF UserStep, ScanNext, RegisterUnknown, SetOneByOne, SetBulk, ClearQueue,
                SetBulkAction, StepRow, ClearBulkQueue, Send
  <2> QED
    BY <2>1, <1>0, <1>2
<1>7. ASSUME NEW j \in Job, Returns(j) \/ Finished(j) PROVE Keeps(queue')
  <2>1. \/ queue' = queue \/ queue' = SubmitFailed(queue) \/ queue' = Cleared(queue)
        \/ queue' = Cleared(SubmitFailed(queue))
        \/ \E a : queue' = ActionChanged(SubmitSucceeded(queue), a)
    BY <1>7 DEF Returns, BulkDone, Refreshed, Finished, Reloaded, JobFails, JobRefused, Send,
                ResetView, QueueAfterFailure, ClearBulkQueue
  <2> QED
    BY <2>1, <1>0, <1>1, <1>3
<1>8. ASSUME PollRefused \/ Logout \/ LogoutAnswered PROVE Keeps(queue')
  <2>1. queue' = queue \/ queue' = Cleared(queue)
    BY <1>8 DEF PollRefused, Logout, LogoutAnswered, ResetView
  <2> QED
    BY <2>1, <1>0, <1>1
<1>9. ASSUME NEW j \in Job, Submits(j) \/ IsAnswered(j) \/ Overtaken(j) PROVE Keeps(queue')
  <2>1. queue' = queue
    BY <1>9, Beginning DEF Submits, IsAnswered, AssignDone, EventDone, CorrectDone, Overtaken
  <2> QED
    BY <2>1, <1>0
<1>10. ASSUME NEW c \in Code, ScanBegins(c) PROVE Keeps(queue')
  BY <1>10, <1>0, BeginsScan
<1> HIDE DEF Keeps
<1>11. Keeps(queue') \/ \E j \in Job : BulkSubmit(j) /\ queue' = SubmitRequested(queue)
  BY <1>4, <1>5, <1>6, <1>7, <1>8, <1>9, <1>10, Steps
<1> QED
  BY <1>3, <1>11 DEF Keeps

LEMMA ShapeStep == ShapeInv /\ [Next]_vars => ShapeInv'
<1> SUFFICES ASSUME ShapeInv, [Next]_vars PROVE ShapeInv'
  OBVIOUS
<1>1. CASE Next
  BY <1>1, HandlersShape, QueueShape DEF ShapeInv
<1>2. CASE UNCHANGED vars
  BY <1>2 DEF vars, ShapeInv, Handlers, Awaited
<1> QED
  BY <1>1, <1>2

LEMMA ShapeInit == Init => ShapeInv
<1> SUFFICES ASSUME Init PROVE ShapeInv
  OBVIOUS
<1>1. Handlers
  BY HandlersAre DEF Init, Handlers
<1>2. Awaited /\ IsLookup(lookup) /\ queue = QueueOf(queue)
  BY DEF Init, Awaited, NoLookup, IsLookup, EmptyQueue, QueueOf
<1> QED
  BY <1>1, <1>2 DEF ShapeInv

-----------------------------------------------------------------------------
(* Nothing stays locked.                                                      *)

PendingHeld ==
    pending # "none" => Working \/ leaving \/ lookup.use \in {"scan", "queue"}

SendsBulk(j) == jobs[j].stage = "sent" /\ jobs[j].kind = "bulk"

SubmitHeld == queue.state = "submitting" => \E j \in Job : SendsBulk(j)

LockInv == ShapeInv /\ PendingHeld /\ SubmitHeld

\* A handler that moves on and is not done works.
LEMMA Works ==
    ASSUME NEW j \in Job, NEW h, Put(j, h), h.stage # "idle"
    PROVE  Working'
  BY DEF Put, Working

LEMMA Advances ==
    ASSUME ShapeInv, NEW j \in Job, IsAnswered(j) \/ Returns(j) \/ Overtaken(j)
    PROVE  \E h : Put(j, h) /\ h.stage # "idle"
<1>1. [jobs[j] EXCEPT !.stage = "refresh"].stage = "refresh"
  BY Refreshing DEF ShapeInv, Handlers
<1>2. \A t : At(t).stage = t
  BY HandlersAre
<1>3. \/ \E t \in {"reload", "rescan"} : Put(j, At(t))
      \/ Put(j, [jobs[j] EXCEPT !.stage = "refresh"])
  BY Answering DEF IsAnswered, Returns
<1> QED
  BY <1>1, <1>2, <1>3

LEMMA PendingStep ==
    ASSUME LockInv, Next
    PROVE  PendingHeld'
<1> USE DEF LockInv
<1>1. ASSUME NEW c \in Code, ScanBegins(c) PROVE PendingHeld'
  BY <1>1, BeginsScan DEF PendingHeld
<1>2. CASE ScanEnds
  <2>1. pending' = "none" \/ (pending' = pending /\ lookup.use = "silent")
    BY <1>2 DEF ScanEnds, Answered, Queued, LookupFails, LookupRefused, LookupDropped,
                Unlocks, ResetView
  <2>2. CASE lookup.use = "silent"
    <3>1. lookup.job \in Job /\ Put(lookup.job, At("reload"))
      BY <1>2, <2>2, EndsScan, EndsPut
    <3> QED
      BY <3>1, Works, HandlersAre DEF PendingHeld
  <2> QED
    BY <2>1, <2>2 DEF PendingHeld
<1>3. ASSUME NEW j \in Job, Submits(j) \/ BulkSubmit(j) PROVE PendingHeld'
  <2>1. \/ \E h : Put(j, h) /\ h.stage # "idle"
        \/ UNCHANGED <<pending, jobs, leaving, lookup>>
    BY <1>3, Beginning, BulkBeginning DEF Starting, Submits, Begun, Carries
  <2> QED
    BY <2>1, Works DEF PendingHeld, Working
<1>4. ASSUME NEW j \in Job, IsAnswered(j) \/ Returns(j) \/ Overtaken(j) PROVE PendingHeld'
  BY <1>4, Advances, Works DEF PendingHeld
<1>5. ASSUME NEW j \in Job, Finished(j) PROVE PendingHeld'
  BY <1>5, FinishedShape DEF PendingHeld
<1>6. CASE UserStep
  BY <1>6, UserShape DEF PendingHeld, Working
<1>7. CASE PollRefused \/ Logout \/ LogoutAnswered
  BY <1>7 DEF PollRefused, Logout, LogoutAnswered, ResetView, PendingHeld
<1> QED
  BY <1>1, <1>2, <1>3, <1>4, <1>5, <1>6, <1>7, Steps

\* A bulk submission under way stays so, or the queue is told how it ended.
LEMMA SendsOn ==
    ASSUME ShapeInv, Next, NEW k \in Job, SendsBulk(k), queue'.state = "submitting"
    PROVE  SendsBulk(k)'
<1>0. queue = QueueOf(queue)
  BY DEF ShapeInv
<1>1. ASSUME NEW j \in Job, NEW h, Put(j, h), j # k PROVE SendsBulk(k)'
  BY <1>1 DEF Put, SendsBulk
<1>2. ASSUME NEW c \in Code, ScanBegins(c) PROVE SendsBulk(k)'
  BY <1>2, BeginsScan DEF SendsBulk
<1>3. CASE ScanEnds
  <2>1. \/ jobs' = jobs
        \/ lookup.job \in Job /\ Put(lookup.job, At("reload")) /\ lookup.use = "silent"
    BY <1>3, EndsScan, EndsPut
  <2>2. lookup.use = "silent" => lookup.job # k
    BY DEF ShapeInv, Awaited, SendsBulk
  <2> QED
    BY <2>1, <2>2, <1>1 DEF SendsBulk
<1>4. ASSUME NEW j \in Job, Submits(j) \/ BulkSubmit(j) PROVE SendsBulk(k)'
  <2>1. \/ jobs' = jobs
        \/ jobs[j].stage = "idle" /\ \E h : Put(j, h)
    BY <1>4, Beginning, BulkBeginning DEF Starting, Submits
  <2> QED
    BY <2>1, <1>1 DEF SendsBulk
<1>5. ASSUME NEW j \in Job, IsAnswered(j) \/ Overtaken(j) PROVE SendsBulk(k)'
  <2>1. j # k
    BY <1>5, Answering DEF IsAnswered, Overtaken, SendsBulk
  <2> QED
    BY <1>5, <2>1, <1>1, Advances
<1>6. ASSUME NEW j \in Job, Returns(j) PROVE SendsBulk(k)'
  <2>1. ASSUME BulkDone(j) PROVE queue'.state # "submitting"
    <3>1. \E a : queue' = ActionChanged(SubmitSucceeded(queue), a)
      BY <2>1 DEF BulkDone, ClearBulkQueue
    <3>2. SubmitSucceeded(queue) = QueueOf(SubmitSucceeded(queue))
          /\ SubmitSucceeded(queue).state # "submitting"
      BY <1>0, QueueOutcomes
    <3>3. \A a : ActionChanged(SubmitSucceeded(queue), a).state # "submitting"
      BY <3>2, QueueSteps
    <3> QED
      BY <3>1, <3>3
  <2>2. j # k
    BY <1>6, <2>1 DEF Returns, Refreshed, SendsBulk
  <2> QED
    BY <1>6, <2>2, <1>1, Advances
<1>7. ASSUME NEW j \in Job, Finished(j) PROVE SendsBulk(k)'
  <2>1. ASSUME j = k PROVE queue'.state # "submitting"
    <3>1. queue' = SubmitFailed(queue) \/ queue' = Cleared(SubmitFailed(queue))
      BY <1>7, <2>1 DEF SendsBulk, Finished, Reloaded, JobFails, JobRefused, Send, ResetView,
                        QueueAfterFailure
    <3>2. SubmitFailed(queue) = QueueOf(SubmitFailed(queue))
          /\ SubmitFailed(queue).state # "submitting"
      BY <1>0, QueueOutcomes
    <3>3. Cleared(SubmitFailed(queue)).state # "submitting"
      BY <3>2, QueueSteps
    <3> QED
      BY <3>1, <3>2, <3>3
  <2> QED
    BY <1>7, <2>1, <1>1, FinishedShape
<1>8. CASE UserStep
  BY <1>8, UserShape DEF SendsBulk
<1>9. CASE PollRefused \/ Logout \/ LogoutAnswered
  BY <1>9 DEF PollRefused, Logout, LogoutAnswered, SendsBulk
<1> QED
  BY <1>2, <1>3, <1>4, <1>5, <1>6, <1>7, <1>8, <1>9, Steps

LEMMA SubmitStep ==
    ASSUME LockInv, Next
    PROVE  SubmitHeld'
<1> SUFFICES ASSUME queue'.state = "submitting" PROVE \E j \in Job : SendsBulk(j)'
  BY DEF SubmitHeld
<1>1. CASE queue.state = "submitting"
  BY <1>1, SendsOn DEF LockInv, SubmitHeld
<1>2. ASSUME NEW j \in Job, BulkSubmit(j) PROVE SendsBulk(j)'
  <2>1. SubmitFailed(SubmitRequested(queue)).state # "submitting"
    BY QueueOutcomes DEF LockInv, ShapeInv
  <2> QED
    BY <1>2, <2>1, BulkBeginning DEF LockInv, Starting, Carries, Put, SendsBulk
<1> QED
  BY <1>1, <1>2, QueueShape DEF LockInv

LEMMA LockStep == LockInv /\ [Next]_vars => LockInv'
<1> SUFFICES ASSUME LockInv, [Next]_vars PROVE LockInv'
  OBVIOUS
<1>1. CASE Next
  BY <1>1, ShapeStep, PendingStep, SubmitStep DEF LockInv
<1>2. CASE UNCHANGED vars
  BY <1>2, ShapeStep DEF vars, LockInv, PendingHeld, Working, SubmitHeld, SendsBulk
<1> QED
  BY <1>1, <1>2

\* pendingAction is set, and the queue submitting, only while a handler is under way
\* that will release it (app-controller.ts's finally blocks, bulk-queue-machine.ts).
THEOREM Releases == Spec => []NothingStaysLocked
<1>1. Init => LockInv
  BY ShapeInit DEF Init, EmptyQueue, LockInv, PendingHeld, SubmitHeld
<1>2. LockInv => NothingStaysLocked
  BY DEF LockInv, PendingHeld, SubmitHeld, SendsBulk, NothingStaysLocked
<1> QED
  BY <1>1, <1>2, LockStep, PTL DEF Spec

-----------------------------------------------------------------------------
(* One submission at a time.                                                  *)

\* Nothing works while the user signs out, and a scan holds the lock.
Alone ==
    /\ Exclusive
    /\ auth = "loggingOut" => ~Working /\ ~Looking
    /\ DrawsApp /\ Looking => pending # "none"

AloneInv ==
    /\ ShapeInv
    /\ bypasses \in Nat
    /\ leaving => auth = "loggingOut"
    /\ bypasses = 0 => Alone

\* Going around the lock counts, and counts once.
LEMMA Bypasses ==
    ASSUME Next
    PROVE  bypasses' = bypasses \/ bypasses' = bypasses + 1
<1>1. ASSUME NEW c \in Code, ScanBegins(c) PROVE bypasses' = bypasses \/ bypasses' = bypasses + 1
  BY <1>1 DEF ScanBegins, Scan, OpenCorrection, GetsAround
<1>2. ASSUME ScanEnds PROVE bypasses' = bypasses
  BY <1>2 DEF ScanEnds, Answered, Queued, LookupFails, LookupRefused, LookupDropped
<1>3. ASSUME NEW j \in Job, Submits(j) \/ BulkSubmit(j) \/ IsAnswered(j)
      PROVE  bypasses' = bypasses
  BY <1>3 DEF Submits, Assign, RecordEvent, Correct, Administer, Begin, BulkSubmit, IsAnswered,
              AssignDone, EventDone, CorrectDone
<1>4. ASSUME NEW j \in Job, Returns(j) \/ Overtaken(j) \/ Finished(j)
      PROVE  bypasses' = bypasses
  BY <1>4 DEF Returns, BulkDone, Refreshed, Overtaken, Finished, Reloaded, JobFails, JobRefused
<1>5. ASSUME UserStep \/ PollRefused \/ LogoutAnswered PROVE bypasses' = bypasses
  BY <1>5, UserShape DEF PollRefused, LogoutAnswered
<1>6. ASSUME Logout PROVE bypasses' = bypasses \/ bypasses' = bypasses + 1
  BY <1>6 DEF Logout, GetsAround
<1> QED
  BY <1>1, <1>2, <1>3, <1>4, <1>5, <1>6, Steps

\* Signing out is under way only in the machine's own state for it.
LEMMA LeavingStep ==
    ASSUME leaving => auth = "loggingOut", Next
    PROVE  leaving' => auth' = "loggingOut"
<1>1. ASSUME NEW c \in Code, ScanBegins(c) PROVE UNCHANGED <<auth, leaving>>
  BY <1>1, BeginsScan
<1>2. ASSUME ScanEnds PROVE leaving' = leaving /\ (auth' = auth \/ AuthFails)
  BY <1>2 DEF ScanEnds, Answered, Queued, LookupFails, LookupRefused, LookupDropped
<1>3. ASSUME NEW j \in Job, Submits(j) \/ BulkSubmit(j) \/ IsAnswered(j)
      PROVE  UNCHANGED <<auth, leaving>>
  BY <1>3 DEF Submits, Assign, RecordEvent, Correct, Administer, Begin, BulkSubmit, IsAnswered,
              AssignDone, EventDone, CorrectDone
<1>4. ASSUME NEW j \in Job, Returns(j) \/ Overtaken(j) \/ Finished(j)
      PROVE  leaving' = leaving /\ (auth' = auth \/ AuthFails)
  BY <1>4 DEF Returns, BulkDone, Refreshed, Overtaken, Finished, Reloaded, JobFails, JobRefused
<1>5. ASSUME UserStep \/ PollRefused PROVE leaving' = leaving /\ (auth' = auth \/ AuthFails)
  BY <1>5, UserShape DEF PollRefused
<1>6. ASSUME Logout \/ LogoutAnswered PROVE leaving' => auth' = "loggingOut"
  BY <1>6 DEF Logout, LogoutAnswered
<1> QED
  BY <1>1, <1>2, <1>3, <1>4, <1>5, <1>6, Steps DEF AuthFails

\* With the lock respected, a handler that works is the only one.
LEMMA OnlyOne ==
    ASSUME AloneInv, bypasses = 0, NEW j \in Job, jobs[j].stage # "idle"
    PROVE  /\ DrawsApp => pending # "none"
           /\ \A k \in Job \ {j} : jobs[k].stage = "idle"
           /\ Looking => lookup.use = "silent"
           /\ auth # "loggingOut"
  BY DEF AloneInv, Alone, Exclusive, Working

LEMMA AtRest ==
    ASSUME ~Working', ~Looking'
    PROVE  Alone'
  BY DEF Alone, Exclusive, Working

\* ... and where nothing holds the lock, none works and no scan is under way.
LEMMA Unlockable ==
    ASSUME AloneInv, bypasses = 0, Unlocked
    PROVE  ~Working /\ ~Looking
  BY DEF AloneInv, Alone, Exclusive, Unlocked, Working

LEMMA AroundTheLock ==
    ASSUME AloneInv, bypasses' = 0, GetsAround
    PROVE  ~Working /\ ~Looking
  BY DEF AloneInv, GetsAround

LEMMA AloneStep ==
    ASSUME AloneInv, Next, bypasses = 0, bypasses' = 0
    PROVE  Alone'
<1>0. ShapeInv /\ ShapeInv'
  BY ShapeStep DEF AloneInv
<1>1. ASSUME NEW c \in Code, ScanBegins(c) PROVE Alone'
  <2>1. ~Working
    BY <1>1, BeginsScan, Unlockable, AroundTheLock DEF Unlocked
  <2> QED
    BY <1>1, <2>1, BeginsScan DEF Alone, Exclusive, Working, DrawsApp
<1>2. CASE ScanEnds
  <2>1. Looking /\ ~Looking' /\ Ends
    BY <1>2, EndsScan, EndsPut, <1>0 DEF Looking
  <2>2. CASE lookup.use # "silent"
    <3>1. ~Working /\ jobs' = jobs
      BY <2>1, <2>2, <1>0, OnlyOne, EndsPut DEF Working
    <3> QED
      BY <3>1, <2>1, AtRest DEF Working
  <2>3. CASE lookup.use = "silent"
    <3>1. /\ lookup.job \in Job /\ Put(lookup.job, At("reload"))
          /\ jobs[lookup.job].stage = "rescan"
      BY <2>1, <2>3, <1>0, EndsPut DEF ShapeInv, Awaited
    <3>2. \A k \in Job \ {lookup.job} : jobs'[k].stage = "idle"
      BY <3>1, OnlyOne DEF Put
    <3>3. (DrawsApp => pending # "none") /\ auth # "loggingOut"
      BY <3>1, OnlyOne
    <3>4. (auth' = auth /\ pending' = pending) \/ AuthFails
      BY <1>2, <2>3 DEF ScanEnds, Answered, Queued, LookupFails, LookupRefused, LookupDropped,
                        Unlocks
    <3>5. (DrawsApp' => pending' # "none") /\ auth' # "loggingOut"
      BY <3>3, <3>4 DEF AuthFails, DrawsApp
    <3> QED
      BY <2>1, <3>1, <3>2, <3>5 DEF Alone, Exclusive
  <2> QED
    BY <2>2, <2>3
<1>3. ASSUME NEW j \in Job, Submits(j) \/ BulkSubmit(j) PROVE Alone'
  <2>1. \/ \E h : Starting(j, h)
        \/ UNCHANGED <<auth, pending, lookup, jobs>>
    BY <1>3, <1>0, Beginning, BulkBeginning DEF Submits
  <2>2. ASSUME NEW h, Starting(j, h) PROVE Alone'
    <3>1. ~Working /\ ~Looking /\ DrawsApp
      BY <2>2, Unlockable DEF Starting, Unlocked
    <3>2. /\ \A k \in Job \ {j} : jobs'[k].stage = "idle"
          /\ ~Looking' /\ auth' # "loggingOut" /\ pending' = "busy"
      BY <2>2, <3>1 DEF Starting, Put, Working, Looking, DrawsApp
    <3> QED
      BY <3>2 DEF Alone, Exclusive
  <2> QED
    BY <2>1, <2>2 DEF AloneInv, Alone, Exclusive, Working, Looking, DrawsApp
<1>4. ASSUME NEW j \in Job, IsAnswered(j) \/ Returns(j) \/ Overtaken(j) PROVE Alone'
  <2>1. jobs[j].stage # "idle" /\ UNCHANGED <<auth, pending>>
    BY <1>4 DEF IsAnswered, AssignDone, EventDone, CorrectDone, Returns, BulkDone, Refreshed,
                Overtaken
  <2>2. lookup' = lookup \/ lookup'.use = "silent"
    BY <1>4, <1>0, Answering DEF IsAnswered, Returns, Overtaken
  <2>3. \A k \in Job \ {j} : jobs'[k].stage = "idle"
    BY <1>4, <2>1, <1>0, Advances, OnlyOne DEF Put
  <2> QED
    BY <2>1, <2>2, <2>3, OnlyOne DEF Alone, Exclusive, Looking, DrawsApp
<1>5. ASSUME NEW j \in Job, Finished(j) PROVE Alone'
  <2>1. Put(j, At("idle")) /\ jobs[j].stage # "idle" /\ jobs[j].stage # "rescan"
          /\ lookup'.use = lookup.use
    BY <1>5, <1>0, FinishedShape
  <2>2. ~Working'
    BY <2>1, OnlyOne, HandlersAre DEF Put, Working
  <2>3. ~Looking
    BY <2>1, <1>0, OnlyOne DEF ShapeInv, Awaited
  <2> QED
    BY <2>1, <2>2, <2>3, AtRest DEF Looking
<1>6. CASE UserStep
  BY <1>6, UserShape DEF AloneInv, Alone, Exclusive, Working, Looking, DrawsApp
<1>7. CASE PollRefused
  <2>1. jobs' = jobs /\ lookup'.use = lookup.use /\ AuthFails
    BY <1>7, <1>0, Aborts DEF PollRefused, ShapeInv
  <2> QED
    BY <2>1 DEF AloneInv, Alone, Exclusive, Working, Looking, DrawsApp, AuthFails
<1>8. CASE Logout
  <2>1. ~Working /\ ~Looking
    BY <1>8, AroundTheLock DEF Logout
  <2> QED
    BY <1>8, <2>1, AtRest DEF Logout, Working, Looking
<1>9. CASE LogoutAnswered
  <2>1. ~Working /\ ~Looking
    BY <1>9 DEF LogoutAnswered, AloneInv, Alone
  <2>2. jobs' = jobs /\ lookup'.use = lookup.use
    BY <1>9, <1>0, Aborts DEF LogoutAnswered, ShapeInv
  <2> QED
    BY <2>1, <2>2, AtRest DEF Working, Looking
<1> QED
  BY <1>1, <1>2, <1>3, <1>4, <1>5, <1>6, <1>7, <1>8, <1>9, Steps

LEMMA AloneInvStep == AloneInv /\ [Next]_vars => AloneInv'
<1> SUFFICES ASSUME AloneInv, [Next]_vars PROVE AloneInv'
  OBVIOUS
<1>1. CASE Next
  <2>1. bypasses \in Nat /\ (bypasses' = bypasses \/ bypasses' = bypasses + 1)
    BY <1>1, Bypasses DEF AloneInv
  <2>2. bypasses' \in Nat /\ (bypasses' = 0 => bypasses = 0)
    BY <2>1
  <2> QED
    BY <1>1, <2>2, ShapeStep, LeavingStep, AloneStep DEF AloneInv
<1>2. CASE UNCHANGED vars
  BY <1>2, ShapeStep DEF vars, AloneInv, Alone, Exclusive, Working, Looking, DrawsApp
<1> QED
  BY <1>1, <1>2

LEMMA AloneInit == Init => AloneInv
  BY ShapeInit DEF Init, AloneInv, Alone, Exclusive, Working, Looking, NoLookup, At

\* As long as the user does not go around the lock, a submission is alone until its
\* reload is over, and no scan the user asked for runs beside it (pendingAction).
THEOREM Alternate == Spec => []OneAtATime
<1>1. AloneInv => OneAtATime
  BY DEF AloneInv, Alone, OneAtATime
<1> QED
  BY <1>1, AloneInit, AloneInvStep, PTL DEF Spec

-----------------------------------------------------------------------------
(* The event form acts on the card.                                           *)

\* A handler that will show its item again found the form on it, or on nothing.
Returning(j) ==
    \/ jobs[j].stage = "refresh"
    \/ jobs[j].stage = "sent" /\ jobs[j].kind \in {"quick", "correct"}

FormKept(j) == ~swapped /\ Returning(j) => eventFor \in {NoItem, jobs[j].item}

FormFits == ~swapped /\ Interacts(screen) => eventFor \in {NoItem, screen.item}

CardOf(s) == s = [mode |-> s.mode, code |-> s.code, item |-> s.item]

FormInv ==
    /\ AloneInv
    /\ CardOf(screen)
    /\ bypasses = 0 => FormFits /\ \A j \in Job : FormKept(j)

\* What the card becomes.
CardKept == screen' = screen /\ eventFor' = eventFor /\ swapped' = swapped

CardEmptied == screen' = NoScreen /\ eventFor' = NoItem

LEMMA ResetEmpties == \A q : ResetView(q) => CardEmptied
  BY DEF ResetView, ClearWorkspace, CardEmptied

\* Where the form stays or is emptied, nothing new fits it less.
LEMMA KeptElsewhere ==
    ASSUME FormInv, bypasses = 0, CardKept \/ CardEmptied, NEW k \in Job, jobs'[k] = jobs[k]
    PROVE  FormKept(k)'
  BY DEF FormInv, CardKept, CardEmptied, FormKept, Returning

LEMMA FitsStill ==
    ASSUME FormInv, bypasses = 0, CardKept \/ CardEmptied
    PROVE  FormFits'
  BY DEF FormInv, CardKept, CardEmptied, FormFits, NoScreen, Interacts

\* ... and so it is when one handler moves on and does not come back to the card.
LEMMA KeptAfter ==
    ASSUME FormInv, bypasses = 0, CardKept \/ CardEmptied,
           NEW j \in Job, NEW h, Put(j, h), h.stage \in {"idle", "rescan", "reload"}
    PROVE  FormFits' /\ (\A k \in Job : FormKept(k)')
<1>1. FormKept(j)'
  BY DEF Put, FormKept, Returning
<1>2. ASSUME NEW k \in Job \ {j} PROVE FormKept(k)'
  BY KeptElsewhere DEF Put
<1> QED
  BY <1>1, <1>2, FitsStill

FormHolds == FormFits' /\ \A k \in Job : FormKept(k)'

LEMMA FormStep ==
    ASSUME FormInv, Next, bypasses = 0
    PROVE  FormHolds
<1>0. AloneInv /\ ShapeInv /\ \A t : At(t).stage = t
  BY HandlersAre DEF FormInv, AloneInv
<1> USE DEF FormHolds
<1>same. ASSUME CardKept \/ CardEmptied, jobs' = jobs PROVE FormHolds
  BY <1>same, KeptElsewhere, FitsStill
<1>1. ASSUME NEW c \in Code, ScanBegins(c) PROVE FormHolds
  BY <1>1, <1>same, BeginsScan DEF CardKept, card
<1>2. CASE ScanEnds
  <2>1. \/ jobs' = jobs
        \/ lookup.use = "silent" /\ lookup.job \in Job /\ Put(lookup.job, At("reload"))
    BY <1>0, <1>2, EndsScan, EndsPut
  <2>2. \/ CardKept \/ CardEmptied
        \/ \E c : \E answer \in Answers : Shows(c, answer)
    BY <1>2, ResetEmpties DEF ScanEnds, Answered, Queued, LookupFails, LookupRefused,
                              LookupDropped, CardKept, card
  <2>3. CASE CardKept \/ CardEmptied
    BY <1>0, <1>same, <2>1, <2>3, KeptAfter
  <2>4. ASSUME NEW c, NEW answer \in Answers, Shows(c, answer) PROVE FormHolds
    <3>1. /\ screen'.mode = answer.mode /\ screen'.item = answer.item
          /\ answer.item # NoItem => eventFor' = answer.item
      BY <2>4 DEF Shows, Shown
    <3>i. answer.mode \in {"instance", "bulk"} => answer.item # NoItem
      BY ControllerAssumption DEF Answers, ControllerAssumption
    <3>2. \A k \in Job : jobs'[k].stage \in {"idle", "reload"}
      <4>1. CASE lookup.use = "silent"
        <5>1. lookup.job \in Job /\ jobs[lookup.job].stage = "rescan"
          BY <1>0, <4>1 DEF ShapeInv, Awaited
        <5>2. \A k \in Job \ {lookup.job} : jobs[k].stage = "idle"
          BY <1>0, <5>1, OnlyOne
        <5>3. Put(lookup.job, At("reload"))
          BY <1>0, <1>2, <4>1, EndsScan, EndsPut
        <5> QED
          BY <1>0, <5>1, <5>2, <5>3 DEF Put
      <4>2. CASE lookup.use # "silent"
        BY <1>0, <1>2, <2>1, <4>2, EndsScan, OnlyOne
      <4> QED
        BY <4>1, <4>2
    <3> QED
      BY <3>1, <3>i, <3>2 DEF FormFits, Interacts, FormKept, Returning
  <2> QED
    BY <2>2, <2>3, <2>4
<1>3. ASSUME NEW j \in Job, Submits(j) \/ BulkSubmit(j) PROVE FormHolds
  <2>1. \/ CardKept /\ jobs' = jobs
        \/ \E h : /\ Starting(j, h) /\ h.stage \in {"sent", "reload"}
                  /\ h.kind \in {"quick", "correct"}
                       => Interacts(screen) /\ h.item = screen.item
    BY <1>0, <1>3, Beginning, BulkBeginning DEF Submits, Begun, Carries, CardKept, card
  <2>2. ASSUME NEW h, Starting(j, h), h.stage \in {"sent", "reload"},
               h.kind \in {"quick", "correct"}
                  => Interacts(screen) /\ h.item = screen.item
        PROVE  FormHolds
    <3>1. CardKept /\ Put(j, h)
      BY <2>2 DEF Starting, CardKept, card
    <3>2. FormKept(j)'
      BY <2>2, <3>1 DEF FormInv, FormFits, CardKept, Put, FormKept, Returning
    <3>3. \A k \in Job \ {j} : FormKept(k)'
      BY <3>1, KeptElsewhere DEF Put
    <3> QED
      BY <3>1, <3>2, <3>3, FitsStill
  <2> QED
    BY <1>same, <2>1, <2>2
<1>4. ASSUME NEW j \in Job, IsAnswered(j) PROVE FormHolds
  <2>1. \/ CardKept \/ CardEmptied
        \/ screen' = NoScreen /\ eventFor' = eventFor /\ swapped' = swapped
    BY <1>4 DEF IsAnswered, AssignDone, EventDone, CorrectDone, ClearWorkspace, CardKept,
                CardEmptied, card
  <2>2. FormFits'
    BY <2>1, FitsStill DEF FormFits, NoScreen, Interacts
  <2>3. \/ Put(j, At("reload")) \/ Put(j, At("rescan"))
        \/ /\ jobs[j].stage = "sent" /\ jobs[j].kind \in {"quick", "correct"}
           /\ Put(j, [jobs[j] EXCEPT !.stage = "refresh"])
    BY <1>0, <1>4, Answering DEF IsAnswered
  <2>4. FormKept(j)'
    <3>1. jobs[j] = HandlerOf(jobs[j])
      BY <1>0 DEF ShapeInv, Handlers
    <3>2. [jobs[j] EXCEPT !.stage = "refresh"].item = jobs[j].item
      BY <3>1, Refreshing
    <3>3. FormKept(j) /\ (eventFor' = NoItem \/ (eventFor' = eventFor /\ swapped' = swapped))
      BY <2>1 DEF FormInv, CardKept, CardEmptied
    <3>4. CASE Put(j, At("reload")) \/ Put(j, At("rescan"))
      BY <1>0, <3>4 DEF Put, FormKept, Returning
    <3>5. ASSUME jobs[j].stage = "sent", jobs[j].kind \in {"quick", "correct"},
                 Put(j, [jobs[j] EXCEPT !.stage = "refresh"])
          PROVE  FormKept(j)'
      <4>1. jobs'[j].item = jobs[j].item
        BY <3>2, <3>5 DEF Put
      <4>2. swapped \/ eventFor \in {NoItem, jobs[j].item}
        BY <3>3, <3>5 DEF FormKept, Returning
      <4> QED
        BY <3>3, <4>1, <4>2 DEF FormKept
    <3> QED
      BY <2>3, <3>4, <3>5
  <2>5. ASSUME NEW k \in Job \ {j} PROVE FormKept(k)'
    <3>1. jobs'[k] = jobs[k] /\ jobs[k].stage = "idle"
      BY <1>0, <1>4, <2>3, Answering, OnlyOne DEF Put, IsAnswered
    <3> QED
      BY <3>1 DEF FormKept, Returning
  <2> QED
    BY <2>2, <2>4, <2>5
<1>5. ASSUME NEW j \in Job, Returns(j) PROVE FormHolds
  <2>1. Put(j, At("reload"))
    BY <1>0, <1>5, Answering DEF Returns
  <2>2. CASE BulkDone(j)
    BY <1>0, <2>1, <2>2, KeptAfter DEF BulkDone, CardKept, card
  <2>3. ASSUME NEW answer \in Answers, Refreshed(j, answer) PROVE FormHolds
    <3>1. /\ jobs[j].stage = "refresh" /\ eventFor' = eventFor
          /\ screen'.mode = answer.mode /\ screen'.item = answer.item
          /\ swapped' = (swapped \/ answer.item \notin {NoItem, jobs[j].item})
      BY <2>3 DEF Refreshed, Shown
    <3>i. answer.mode \in {"instance", "bulk"} => answer.item # NoItem
      BY ControllerAssumption DEF Answers, ControllerAssumption
    <3>e. ~swapped => eventFor \in {NoItem, jobs[j].item}
      BY <3>1 DEF FormInv, FormKept, Returning
    <3>s. ~swapped' => ~swapped /\ answer.item \in {NoItem, jobs[j].item}
      BY <3>1
    <3>2. FormFits'
      BY <3>1, <3>i, <3>e, <3>s DEF FormFits, Interacts
    <3>3. \A k \in Job \ {j} : FormKept(k)'
      BY <2>1, <3>1, <3>s DEF FormInv, Put, FormKept, Returning
    <3>4. FormKept(j)'
      BY <1>0, <2>1 DEF Put, FormKept, Returning
    <3> QED
      BY <3>1, <3>2, <3>3, <3>4
  <2> QED
    BY <1>5, <2>2, <2>3 DEF Returns
<1>6. ASSUME NEW j \in Job, Overtaken(j) PROVE FormHolds
  <2>1. Put(j, At("reload")) /\ CardKept
    BY <1>0, <1>6, Answering DEF Overtaken, CardKept, card
  <2> QED
    BY <1>0, <2>1, KeptAfter
<1>7. ASSUME NEW j \in Job, Finished(j) PROVE FormHolds
  <2>1. Put(j, At("idle")) /\ (CardKept \/ CardEmptied)
    BY <1>0, <1>7, FinishedShape, ResetEmpties
       DEF Finished, Reloaded, JobFails, JobRefused, CardKept, card
  <2> QED
    BY <1>0, <2>1, KeptAfter
<1>8. CASE UserStep
  <2>1. jobs' = jobs
    BY <1>8, UserShape
  <2>2. \/ CardKept \/ CardEmptied
        \/ /\ screen' = [screen EXCEPT !.mode = "label"]
           /\ eventFor' = eventFor /\ swapped' = swapped
    BY <1>8 DEF UserStep, ScanNext, RegisterUnknown, SetOneByOne, SetBulk, ClearQueue,
                SetBulkAction, StepRow, ClearWorkspace, CardKept, CardEmptied, card
  <2>3. ASSUME screen' = [screen EXCEPT !.mode = "label"], eventFor' = eventFor,
               swapped' = swapped
        PROVE  FormHolds
    <3>1. screen' = [mode |-> "label", code |-> screen.code, item |-> screen.item]
      BY <2>3 DEF FormInv, CardOf
    <3>2. \A k \in Job : FormKept(k)'
      BY <2>1, <2>3 DEF FormInv, FormKept, Returning
    <3> QED
      BY <3>1, <3>2 DEF FormFits, Interacts
  <2> QED
    BY <1>same, <2>1, <2>2, <2>3
<1>9. CASE PollRefused \/ Logout \/ LogoutAnswered
  <2>1. jobs' = jobs /\ (CardKept \/ CardEmptied)
    BY <1>9, ResetEmpties DEF PollRefused, Logout, LogoutAnswered, CardKept, card
  <2> QED
    BY <1>same, <2>1
<1> QED
  BY <1>1, <1>2, <1>3, <1>4, <1>5, <1>6, <1>7, <1>8, <1>9, Steps

\* The card has its fields, whatever the user goes around.
LEMMA CardShape ==
    ASSUME CardOf(screen), Next
    PROVE  CardOf(screen')
<1>1. \/ screen' = screen \/ screen' = NoScreen
      \/ \E answer, c : screen' = Shown(answer, c)
      \/ screen' = [screen EXCEPT !.mode = "label"]
  <2>1. ASSUME NEW c \in Code, ScanBegins(c) PROVE screen' = screen
    BY <2>1, BeginsScan DEF card
  <2>2. ASSUME ScanEnds
        PROVE  \/ screen' = screen \/ screen' = NoScreen
               \/ \E answer, c : screen' = Shown(answer, c)
    BY <2>2 DEF ScanEnds, Answered, Shows, Queued, LookupFails, LookupRefused, LookupDropped,
                ResetView, ClearWorkspace, card
  <2>3. ASSUME NEW j \in Job, Submits(j) \/ BulkSubmit(j) PROVE screen' = screen
    BY <2>3 DEF Submits, Assign, RecordEvent, Correct, Administer, Begin, BulkSubmit, card
  <2>4. ASSUME NEW j \in Job, IsAnswered(j) PROVE screen' \in {screen, NoScreen}
    BY <2>4 DEF IsAnswered, AssignDone, EventDone, CorrectDone, ClearWorkspace, card
  <2>5. ASSUME NEW j \in Job, Returns(j)
        PROVE  screen' = screen \/ \E answer, c : screen' = Shown(answer, c)
    BY <2>5 DEF Returns, BulkDone, Refreshed, card
  <2>6. ASSUME NEW j \in Job, Overtaken(j) \/ Finished(j) PROVE screen' \in {screen, NoScreen}
    BY <2>6 DEF Overtaken, Finished, Reloaded, JobFails, JobRefused, ResetView,
                ClearWorkspace, card
  <2>7. ASSUME UserStep
        PROVE  screen' \in {screen, NoScreen} \/ screen' = [screen EXCEPT !.mode = "label"]
    BY <2>7 DEF UserStep, ScanNext, RegisterUnknown, SetOneByOne, SetBulk, ClearQueue,
                SetBulkAction, StepRow, ClearWorkspace, card
  <2>8. ASSUME PollRefused \/ Logout \/ LogoutAnswered PROVE screen' \in {screen, NoScreen}
    BY <2>8 DEF PollRefused, Logout, LogoutAnswered, ResetView, ClearWorkspace, card
  <2> QED
    BY <2>1, <2>2, <2>3, <2>4, <2>5, <2>6, <2>7, <2>8, Steps
<1>2. [screen EXCEPT !.mode = "label"] =
        [mode |-> "label", code |-> screen.code, item |-> screen.item]
  BY DEF CardOf
<1> QED
  BY <1>1, <1>2 DEF NoScreen, Shown, CardOf

LEMMA FormInvStep == FormInv /\ [Next]_vars => FormInv'
<1> SUFFICES ASSUME FormInv, [Next]_vars PROVE FormInv'
  OBVIOUS
<1>1. AloneInv'
  BY AloneInvStep DEF FormInv
<1>2. CASE UNCHANGED vars
  BY <1>1, <1>2 DEF vars, FormInv, FormFits, FormKept, Returning
<1>3. CASE Next
  <2>1. CardOf(screen')
    BY <1>3, CardShape DEF FormInv
  <2>2. bypasses' = 0 => bypasses = 0
    BY <1>3, Bypasses DEF FormInv, AloneInv
  <2> QED
    BY <1>1, <1>3, <2>1, <2>2, FormStep DEF FormInv, FormHolds
<1> QED
  BY <1>2, <1>3

\* As long as the user does not go around the lock, and no refresh is answered with
\* another item than the card had, the event form acts on the item the card shows, or
\* on nothing (applyScanResponse, and the refreshes that leave the form).
THEOREM FormOnCard == Spec => []FormActsOnCard
<1>1. Init => FormInv
  BY AloneInit DEF Init, NoScreen, CardOf, FormInv, FormFits, FormKept, Returning, Interacts, At
<1>2. FormInv => FormActsOnCard
  BY DEF FormInv, FormFits, FormActsOnCard
<1> QED
  BY <1>1, <1>2, FormInvStep, PTL DEF Spec

-----------------------------------------------------------------------------
(* The queue machine, the copy of it that is drawn, and the mode.             *)

\* The machine's state agrees with its rows, which have one kind and a code once.
Consistent(q) ==
    /\ q = QueueOf(q)
    /\ q.action \in Actions /\ q.kind \in Kinds \cup {"none"}
    /\ q.state \in {"empty", "ready", "submitting", "failed"}
    /\ q.rows \subseteq Row
    /\ \A r, s \in q.rows : r.code = s.code => r = s
    /\ \A r \in q.rows : r.kind = q.kind
    /\ q.rows = {} <=> q.kind = "none"
    /\ q.state = "empty" => q.rows = {}
    /\ q.state \in {"ready", "submitting"} => q.rows # {}

\* The view is the machine's, or was emptied while the machine could not be, or both
\* are empty.
Copied ==
    \/ view = Drawn(queue)
    \/ /\ \E a \in Actions : view = EmptyView(a)
       /\ queue.state = "submitting" \/ queue.rows = {}

\* The rows fit the action of the queue; only a queue left over from another mode may
\* have rows that do not, and it cannot be submitted.
AllFit(q) == \A r \in q.rows : Fits(q.action, r)

Suited ==
    AllFit(queue) \/ (queue.state # "submitting" /\ scanMode \in Actions \ {queue.action})

QueueInv == Consistent(queue) /\ Copied /\ Suited

\* Mutations of a record with the queue's fields.
LEMMA QueueParts ==
    ASSUME NEW q, q = QueueOf(q), NEW s, NEW k, NEW m
    PROVE  /\ [q EXCEPT !.state = s, !.kind = k, !.rows = m] =
                [state |-> s, action |-> q.action, kind |-> k, rows |-> m]
           /\ [q EXCEPT !.state = s] =
                [state |-> s, action |-> q.action, kind |-> q.kind, rows |-> q.rows]
<1> DEFINE b == [q EXCEPT !.state = s]
           d == [b EXCEPT !.kind = k]
<1>1. b = [state |-> s, action |-> q.action, kind |-> q.kind, rows |-> q.rows]
  BY DEF QueueOf
<1>2. [q EXCEPT !.state = s] = b
  OBVIOUS
<1> HIDE DEF b
<1>3. d = [state |-> s, action |-> q.action, kind |-> k, rows |-> q.rows]
  BY <1>1
<1>4. [q EXCEPT !.state = s, !.kind = k, !.rows = m] = [d EXCEPT !.rows = m]
  BY DEF b
<1> HIDE DEF d
<1>5. [d EXCEPT !.rows = m] = [state |-> s, action |-> q.action, kind |-> k, rows |-> m]
  BY <1>3
<1> QED
  BY <1>1, <1>2, <1>4, <1>5

LEMMA EmptyConsistent ==
    ASSUME NEW a \in Actions
    PROVE  /\ Consistent(EmptyQueue(a)) /\ AllFit(EmptyQueue(a))
           /\ Drawn(EmptyQueue(a)) = EmptyView(a)
           /\ EmptyQueue(a).rows = {} /\ EmptyQueue(a).state = "empty"
           /\ EmptyQueue(a).action = a
  BY DEF Consistent, EmptyQueue, EmptyView, Drawn, QueueOf, AllFit

LEMMA Accepting ==
    ASSUME NEW q, Consistent(q), NEW row \in Row, q.kind \in {"none", row.kind}
    PROVE  /\ Consistent(RowAccepted(q, row))
           /\ RowAccepted(q, row).action = q.action
           /\ q.state # "submitting" => RowAccepted(q, row).state = "ready"
           /\ RowAccepted(q, row).rows \subseteq q.rows \cup {row}
<1>1. CASE q.state = "submitting"
  BY <1>1 DEF RowAccepted
<1>2. CASE q.state # "submitting"
  <2> DEFINE m == Merged(q.rows, row)
             a == [state |-> "ready", action |-> q.action, kind |-> row.kind, rows |-> m]
  <2>1. RowAccepted(q, row) = a
    BY <1>2, QueueParts DEF RowAccepted, Consistent
  <2>2. /\ m \subseteq Row /\ m # {} /\ m \subseteq q.rows \cup {row}
        /\ \A r, s \in m : r.code = s.code => r = s
    BY DEF Merged, Consistent
  <2>3. row.kind \in Kinds
    BY DEF Row
  <2>4. \A r \in m : r.kind = row.kind
    BY <2>2 DEF Consistent
  <2> HIDE DEF m
  <2>5. Consistent(a) /\ a.action = q.action /\ a.state = "ready" /\ a.rows = m
    BY <2>2, <2>3, <2>4 DEF Consistent, QueueOf, Kinds
  <2> QED
    BY <2>1, <2>2, <2>5, <1>2
<1> QED
  BY <1>1, <1>2

LEMMA Becoming ==
    ASSUME NEW q, Consistent(q), NEW rows \in SUBSET q.rows
    PROVE  LET n == RowsBecome(q, rows) IN
           /\ Consistent(n) /\ n.action = q.action
           /\ n.rows \subseteq q.rows
           /\ n.state = "submitting" => q.state = "submitting" /\ n = q
<1>1. CASE q.state \in {"empty", "submitting"}
  BY <1>1 DEF RowsBecome
<1>2. CASE q.state \notin {"empty", "submitting"}
  <2> DEFINE s == IF rows = {} THEN "empty" ELSE "ready"
             k == KindOf(rows)
             n == [state |-> s, action |-> q.action, kind |-> k, rows |-> rows]
  <2>1. RowsBecome(q, rows) = n
    BY <1>2, QueueParts DEF RowsBecome, Consistent
  <2>2. rows = {} => k = "none"
    BY DEF KindOf
  <2>3. rows # {} => k = q.kind /\ k # "none"
    BY DEF KindOf, Consistent
  <2>4. Consistent(n) /\ n.action = q.action /\ n.rows = rows /\ n.state = s
    BY <2>2, <2>3 DEF Consistent, QueueOf
  <2> QED
    BY <2>1, <2>4
<1> QED
  BY <1>1, <1>2

LEMMA Marking ==
    ASSUME NEW q, Consistent(q)
    PROVE  /\ Consistent(RowRejected(q)) /\ RowRejected(q).action = q.action
           /\ RowRejected(q).rows = q.rows
           /\ RowRejected(q).state = "submitting" => q.state = "submitting"
           /\ Consistent(SubmitFailed(q)) /\ SubmitFailed(q).action = q.action
           /\ SubmitFailed(q).rows = q.rows /\ SubmitFailed(q).state # "submitting"
           /\ q.rows # {} => /\ Consistent(SubmitRequested(q))
                             /\ SubmitRequested(q).state = "submitting"
           /\ SubmitRequested(q).action = q.action
           /\ SubmitRequested(q).rows = q.rows
<1>1. ASSUME NEW s \in {"failed", "submitting"}, s = "submitting" => q.rows # {}
      PROVE  LET n == [q EXCEPT !.state = s] IN
             Consistent(n) /\ n.action = q.action /\ n.rows = q.rows /\ n.state = s
  <2> DEFINE n == [state |-> s, action |-> q.action, kind |-> q.kind, rows |-> q.rows]
  <2>1. [q EXCEPT !.state = s] = n
    BY QueueParts DEF Consistent
  <2>2. Consistent(n) /\ n.action = q.action /\ n.rows = q.rows /\ n.state = s
    BY <1>1 DEF Consistent, QueueOf
  <2> QED
    BY <2>1, <2>2
<1>2. q.rows # {} => q.state \in {"ready", "submitting", "failed"}
  BY DEF Consistent
<1>3. q = QueueOf(q)
  BY DEF Consistent
<1>4. /\ SubmitRequested(q).action = q.action
      /\ SubmitRequested(q).rows = q.rows
  BY <1>3 DEF SubmitRequested, QueueOf
<1> QED
  BY <1>1, <1>2, <1>4 DEF RowRejected, SubmitFailed, SubmitRequested

\* The handlers: what they were sent with and will look up again is a code, and a bulk
\* request carries what its action was offered for.
Sound(h) ==
    /\ h.stage \in {"idle", "sent", "rescan", "refresh", "reload"}
    /\ h.kind = "bulk" => h.action \in Actions
    /\ h.kind \in {"assign", "quick", "correct"} => h.code \in Code
    /\ h.stage = "refresh" => h.kind \in {"quick", "correct"}
    /\ \A r \in h.rows : Fits(h.action, r)

SoundInv == \A j \in Job : Sound(jobs[j])

ScreenOf == {Shown(answer, c) : answer \in Answers, c \in Code} \cup {NoScreen}

CardInv ==
    /\ screen \in ScreenOf
    /\ assignFor \in Code \cup {NoCode} /\ eventFor \in Item \cup {NoItem}
    /\ swapped \in BOOLEAN
    /\ lookup.use \in {"none", "scan", "queue", "silent"}
    /\ Answerable => lookup.code \in Code

FlagInv ==
    /\ auth \in {"authenticated", "loggingOut", "out"}
    /\ pending \in {"none", "busy", "logout"}
    /\ scanMode \in {"oneByOne"} \cup Actions
    /\ leaving \in BOOLEAN /\ bypasses \in 0 .. MaxBypasses

TypeInv == ShapeInv /\ QueueInv /\ SoundInv /\ CardInv /\ FlagInv

-----------------------------------------------------------------------------
(* The queue, the view and the mode after a step.                             *)

\* An event is sent to the machine and its answer drawn.
Told(q) == Send(q) /\ scanMode' = scanMode

Emptied(a) == queue' = EmptyQueue(a) /\ view' = EmptyView(a)

Rejoins(q) == queue' = Cleared(q) /\ view' = EmptyView("label") /\ scanMode' = "oneByOne"

QueueMove ==
    \/ UNCHANGED <<queue, view, scanMode>>
    \/ UNCHANGED <<queue, view>> /\ scanMode = "oneByOne" /\ scanMode' = view.action
    \/ \E row \in Row : view.kind \in {"none", row.kind} /\ scanMode \in Actions
                          /\ Fits(scanMode, row) /\ Told(RowAccepted(queue, row))
    \/ Told(RowRejected(queue)) \/ Told(SubmitFailed(queue))
    \/ \E rows \in SUBSET queue.rows : Told(RowsBecome(queue, rows))
    \/ /\ view.action = scanMode /\ view.rows # {}
       /\ Told(SubmitRequested(queue)) \/ Told(SubmitFailed(SubmitRequested(queue)))
    \/ \E a \in Actions : /\ ClearBulkQueue(queue, a)
                          /\ scanMode' \in {scanMode, "oneByOne"} \cup Actions
    \/ \E a \in Actions : Emptied(a) /\ scanMode' = scanMode
    \/ Rejoins(queue) \/ Rejoins(SubmitFailed(queue))

LEMMA ViewTypes ==
    ASSUME QueueInv
    PROVE  /\ view.action \in Actions
           /\ view.rows # {} => view = Drawn(queue)
           /\ queue.state # "submitting" => view.kind = queue.kind
  BY DEF QueueInv, Copied, Drawn, EmptyView, Consistent

LEMMA QueueMoves ==
    ASSUME TypeInv, Next
    PROVE  QueueMove
<1>0. QueueInv /\ Consistent(queue) /\ view.action \in Actions /\ ShapeInv
  BY ViewTypes DEF TypeInv, QueueInv
<1>1. ASSUME NEW c \in Code, ScanBegins(c) PROVE QueueMove
  BY <1>1, BeginsScan DEF QueueMove
<1>2. CASE ScanEnds
  <2>1. CASE \E answer \in Answers : Answered(answer)
    BY <2>1 DEF Answered, QueueMove
  <2>2. ASSUME NEW row \in Rows(lookup.code), NEW external \in BOOLEAN, Queued(row, external)
        PROVE  QueueMove
    <3>1. CASE Queueable(row, external)
      <4>1. row \in Row
        BY <2>2 DEF Rows, Row, Queued, TypeInv, CardInv
      <4> QED
        BY <2>2, <3>1, <4>1 DEF Queued, Queueable, QueueMove, Told
    <3>2. CASE ~Queueable(row, external)
      BY <2>2, <3>2 DEF Queued, QueueMove, Told
    <3> QED
      BY <3>1, <3>2
  <2>3. CASE LookupFails \/ LookupDropped
    BY <2>3 DEF LookupFails, LookupDropped, QueueMove, Told
  <2>4. CASE LookupRefused
    BY <2>4 DEF LookupRefused, ResetView, QueueMove, Rejoins
  <2> QED
    BY <1>2, <2>1, <2>2, <2>3, <2>4 DEF ScanEnds
<1>3. ASSUME NEW j \in Job, Submits(j) \/ IsAnswered(j) \/ Overtaken(j) PROVE QueueMove
  <2>1. UNCHANGED <<queue, view, scanMode>>
    BY <1>3 DEF Submits, Assign, RecordEvent, Correct, Administer, Begin, IsAnswered,
                AssignDone, EventDone, CorrectDone, Overtaken
  <2> QED
    BY <2>1 DEF QueueMove
<1>4. ASSUME NEW j \in Job, BulkSubmit(j) PROVE QueueMove
  BY <1>4 DEF BulkSubmit, DrawsQueueForm, QueueMove, Told
<1>5. ASSUME NEW j \in Job, Returns(j) PROVE QueueMove
  <2>1. CASE BulkDone(j)
    <3>1. jobs[j].action \in Actions
      BY <2>1 DEF BulkDone, TypeInv, SoundInv, Sound
    <3>2. ActionChanged(SubmitSucceeded(queue), jobs[j].action) = EmptyQueue(jobs[j].action)
      BY <1>0, QueueOutcomes DEF ActionChanged, ShapeInv
    <3>3. Emptied(jobs[j].action) /\ scanMode' = scanMode
      BY <2>1, <3>2 DEF BulkDone, ClearBulkQueue, Emptied
    <3> QED
      BY <3>1, <3>3 DEF QueueMove
  <2>2. CASE \E answer : Refreshed(j, answer)
    BY <2>2 DEF Refreshed, QueueMove
  <2> QED
    BY <1>5, <2>1, <2>2 DEF Returns
<1>6. ASSUME NEW j \in Job, Finished(j) PROVE QueueMove
  BY <1>6 DEF Finished, Reloaded, JobFails, JobRefused, QueueAfterFailure, ResetView,
              QueueMove, Told, Rejoins
<1>7. CASE UserStep
  <2>1. CASE ScanNext \/ RegisterUnknown
    BY <2>1 DEF ScanNext, RegisterUnknown, QueueMove
  <2>2. CASE SetOneByOne \/ ClearQueue
    BY <1>0, <2>2 DEF SetOneByOne, ClearQueue, QueueMove
  <2>3. CASE SetBulk
    BY <2>3 DEF SetBulk, QueueMove
  <2>4. CASE \E a \in Actions : SetBulkAction(a)
    BY <2>4 DEF SetBulkAction, QueueMove
  <2>5. ASSUME NEW c \in Code, StepRow(c) PROVE QueueMove
    <3>1. PICK rows \in {Without(queue.rows, c), queue.rows} : Send(RowsBecome(queue, rows))
      BY <2>5 DEF StepRow
    <3>2. rows \in SUBSET queue.rows
      BY DEF Without
    <3> QED
      BY <2>5, <3>1, <3>2 DEF StepRow, QueueMove, Told
  <2> QED
    BY <1>7, <2>1, <2>2, <2>3, <2>4, <2>5 DEF UserStep
<1>8. CASE PollRefused \/ LogoutAnswered \/ Logout
  BY <1>8 DEF PollRefused, LogoutAnswered, Logout, ResetView, QueueMove, Rejoins
<1> QED
  BY <1>1, <1>2, <1>3, <1>4, <1>5, <1>6, <1>7, <1>8, Steps

\* A row that fits the mode fits the queue of that mode.
LEMMA QueueInvMove ==
    ASSUME QueueInv, scanMode \in {"oneByOne"} \cup Actions, QueueMove
    PROVE  QueueInv'
<1>0. Consistent(queue) /\ Suited /\ Copied /\ queue.action \in Actions
  BY DEF QueueInv, Consistent
<1>told. ASSUME NEW q, Told(q), Consistent(q),
                AllFit(q) \/ (q.state # "submitting" /\ scanMode \in Actions \ {q.action})
         PROVE  QueueInv'
  BY <1>told DEF Told, Send, QueueInv, Copied, Suited, AllFit
<1>1. CASE UNCHANGED <<queue, view, scanMode>>
  BY <1>1, <1>0 DEF QueueInv, Copied, Suited
<1>2. CASE UNCHANGED <<queue, view>> /\ scanMode = "oneByOne"
  <2>1. AllFit(queue)
    BY <1>0, <1>2 DEF Suited, Actions
  <2> QED
    BY <1>2, <1>0, <2>1 DEF QueueInv, Copied, Suited, AllFit
<1>3. ASSUME NEW row \in Row, view.kind \in {"none", row.kind}, scanMode \in Actions,
             Fits(scanMode, row), Told(RowAccepted(queue, row))
      PROVE  QueueInv'
  <2>1. CASE queue.state = "submitting"
    <3>1. RowAccepted(queue, row) = queue
      BY <2>1 DEF RowAccepted
    <3> QED
      BY <1>3, <1>0, <3>1, <1>told DEF Suited
  <2>2. CASE queue.state # "submitting"
    <3>1. queue.kind \in {"none", row.kind}
      BY <1>3, <2>2, ViewTypes
    <3> DEFINE q == RowAccepted(queue, row)
    <3>2. /\ Consistent(q) /\ q.action = queue.action /\ q.state = "ready"
          /\ q.rows \subseteq queue.rows \cup {row}
      BY <1>0, <2>2, <3>1, Accepting
    <3> HIDE DEF q
    <3>3. AllFit(q) \/ (q.state # "submitting" /\ scanMode \in Actions \ {q.action})
      BY <1>0, <1>3, <3>2 DEF Suited, AllFit
    <3>4. Told(q)
      BY <1>3 DEF q
    <3> QED
      BY <3>2, <3>3, <3>4, <1>told
  <2> QED
    BY <2>1, <2>2
<1>4. ASSUME Told(RowRejected(queue)) \/ Told(SubmitFailed(queue)) PROVE QueueInv'
  <2>1. PICK q \in {RowRejected(queue), SubmitFailed(queue)} : Told(q)
    BY <1>4
  <2>2. /\ Consistent(q) /\ q.action = queue.action /\ q.rows = queue.rows
        /\ q.state = "submitting" => queue.state = "submitting"
    BY <1>0, Marking
  <2> QED
    BY <1>0, <2>1, <2>2, <1>told DEF Suited, AllFit
<1>5. ASSUME NEW rows \in SUBSET queue.rows, Told(RowsBecome(queue, rows)) PROVE QueueInv'
  <2> DEFINE q == RowsBecome(queue, rows)
  <2>1. /\ Consistent(q) /\ q.action = queue.action /\ q.rows \subseteq queue.rows
        /\ q.state = "submitting" => queue.state = "submitting"
    BY <1>0, Becoming
  <2>2. Told(q)
    BY <1>5
  <2> HIDE DEF q
  <2> QED
    BY <1>0, <2>1, <2>2, <1>told DEF Suited, AllFit
<1>6. ASSUME view.action = scanMode, view.rows # {},
             Told(SubmitRequested(queue)) \/ Told(SubmitFailed(SubmitRequested(queue)))
      PROVE  QueueInv'
  <2>1. view = Drawn(queue)
    BY <1>6, ViewTypes
  <2>2. queue.action = scanMode /\ queue.rows # {} /\ AllFit(queue)
    BY <1>0, <1>6, <2>1 DEF Drawn, Suited
  <2>3. PICK q \in {SubmitRequested(queue), SubmitFailed(SubmitRequested(queue))} : Told(q)
    BY <1>6
  <2>4. Consistent(SubmitRequested(queue))
    BY <1>0, <2>2, Marking
  <2>5. Consistent(q) /\ q.action = queue.action /\ q.rows = queue.rows
    BY <1>0, <2>2, <2>4, Marking
  <2> QED
    BY <2>2, <2>3, <2>5, <1>told DEF AllFit
<1>empty. ASSUME NEW a \in Actions, Emptied(a) PROVE QueueInv'
  BY <1>empty, EmptyConsistent DEF Emptied, QueueInv, Copied, Suited, AllFit
<1>held. ASSUME NEW a \in Actions, queue.state = "submitting", queue' = queue, view' = EmptyView(a)
         PROVE  QueueInv'
  BY <1>held, <1>0 DEF QueueInv, Copied, Suited, AllFit
<1>7. ASSUME NEW a \in Actions, ClearBulkQueue(queue, a) PROVE QueueInv'
  BY <1>7, <1>empty, <1>held DEF ClearBulkQueue, ActionChanged, Emptied
<1>8. ASSUME NEW q, Consistent(q), q.rows = queue.rows, q.state = "submitting" => q = queue,
             Rejoins(q)
      PROVE  QueueInv'
  <2>1. "label" \in Actions
    BY DEF Actions
  <2>2. CASE q.state = "submitting"
    <3>1. Cleared(q) = q /\ q = queue
      BY <1>8, <2>2 DEF Cleared
    <3> QED
      BY <1>8, <2>1, <2>2, <3>1, <1>held DEF Rejoins
  <2>3. CASE q.state # "submitting"
    <3>1. queue' = EmptyQueue(q.action) /\ q.action \in Actions
      BY <1>8, <2>3 DEF Rejoins, Cleared, Consistent
    <3> QED
      BY <1>8, <2>1, <3>1, EmptyConsistent DEF Rejoins, QueueInv, Copied, Suited, AllFit
  <2> QED
    BY <2>2, <2>3
<1>9. CASE Rejoins(queue) \/ Rejoins(SubmitFailed(queue))
  <2>1. Consistent(SubmitFailed(queue)) /\ SubmitFailed(queue).rows = queue.rows
        /\ SubmitFailed(queue).state # "submitting"
    BY <1>0, Marking
  <2> QED
    BY <1>9, <1>0, <2>1, <1>8
<1> QED
  BY <1>1, <1>2, <1>3, <1>4, <1>5, <1>6, <1>empty, <1>7, <1>9 DEF QueueMove

LEMMA SoundStages == \A s \in {"idle", "rescan", "reload"} : Sound(At(s))
  BY HandlersAre DEF Sound

LEMMA SoundPut ==
    ASSUME SoundInv, NEW j \in Job, NEW h, Put(j, h), Sound(h)
    PROVE  SoundInv'
  BY DEF SoundInv, Put, Sound

LEMMA SoundStep ==
    ASSUME TypeInv, Next
    PROVE  SoundInv'
<1>0. ShapeInv /\ SoundInv
  BY DEF TypeInv
<1>same. ASSUME jobs' = jobs PROVE SoundInv'
  BY <1>0, <1>same DEF SoundInv, Sound
<1>1. ASSUME NEW c \in Code, ScanBegins(c) PROVE SoundInv'
  BY <1>1, <1>same, BeginsScan
<1>2. CASE ScanEnds
  BY <1>0, <1>2, <1>same, EndsScan, EndsPut, SoundPut, SoundStages
<1>3. ASSUME NEW j \in Job, Submits(j) PROVE SoundInv'
  <2>1. PICK h : Starting(j, h) /\ Begun(h)
    BY <1>0, <1>3, Beginning DEF Submits
  <2>2. Sound(h)
    <3>1. /\ Interacts(screen) \/ screen.mode = "label" => screen.code \in Code
          /\ assignFor # NoCode => assignFor \in Code
      BY DEF TypeInv, CardInv, ScreenOf, Shown, Interacts, NoScreen
    <3> QED
      BY <2>1, <3>1 DEF Begun, Sound
  <2> QED
    BY <1>0, <2>1, <2>2, SoundPut DEF Starting
<1>4. ASSUME NEW j \in Job, BulkSubmit(j) PROVE SoundInv'
  <2>1. CASE \E h : Starting(j, h) /\ Carries(h)
    <3>1. PICK h : Starting(j, h) /\ Carries(h)
      BY <2>1
    <3>2. view.action = scanMode /\ view.rows # {} /\ scanMode \in Actions
      BY <1>4 DEF BulkSubmit, DrawsQueueForm
    <3>3. queue.action = scanMode /\ Consistent(queue)
      BY <3>2, ViewTypes DEF TypeInv, QueueInv, Drawn
    <3>4. AllFit(queue)
      BY <3>3 DEF TypeInv, QueueInv, Suited
    <3>5. h.rows \subseteq queue.rows
      BY <3>1, <3>3, Marking DEF Carries
    <3>6. Sound(h)
      BY <3>1, <3>2, <3>3, <3>4, <3>5 DEF Carries, Sound, AllFit
    <3> QED
      BY <1>0, <3>1, <3>6, SoundPut DEF Starting
  <2> QED
    BY <1>0, <1>4, <2>1, <1>same, BulkBeginning
<1>5. ASSUME NEW j \in Job, IsAnswered(j) PROVE SoundInv'
  <2>1. \/ \E s \in {"rescan", "reload"} : Put(j, At(s))
        \/ /\ jobs[j].kind \in {"quick", "correct"}
           /\ Put(j, [jobs[j] EXCEPT !.stage = "refresh"])
    BY <1>0, <1>5, Answering DEF IsAnswered
  <2>2. ASSUME jobs[j].kind \in {"quick", "correct"}
        PROVE  Sound([jobs[j] EXCEPT !.stage = "refresh"])
    <3> DEFINE r == [jobs[j] EXCEPT !.stage = "refresh"]
    <3>1. Sound(jobs[j]) /\ jobs[j] = HandlerOf(jobs[j])
      BY <1>0 DEF SoundInv, ShapeInv, Handlers
    <3>2. /\ r.stage = "refresh" /\ r.kind = jobs[j].kind
          /\ r.code = jobs[j].code /\ r.action = jobs[j].action /\ r.rows = jobs[j].rows
      BY <3>1, Refreshing
    <3> HIDE DEF r
    <3>3. Sound(r)
      BY <2>2, <3>1, <3>2 DEF Sound
    <3> QED
      BY <3>3 DEF r
  <2> QED
    BY <1>0, <2>1, <2>2, SoundPut, SoundStages
<1>6. ASSUME NEW j \in Job, Returns(j) \/ Overtaken(j) PROVE SoundInv'
  BY <1>0, <1>6, Answering, SoundPut, SoundStages DEF Returns
<1>7. ASSUME NEW j \in Job, Finished(j) PROVE SoundInv'
  BY <1>0, <1>7, FinishedShape, SoundPut, SoundStages
<1>8. CASE UserStep
  BY <1>8, <1>same, UserShape
<1>9. CASE PollRefused \/ Logout \/ LogoutAnswered
  BY <1>9, <1>same DEF PollRefused, Logout, LogoutAnswered
<1> QED
  BY <1>1, <1>2, <1>3, <1>4, <1>5, <1>6, <1>7, <1>8, <1>9, Steps

-----------------------------------------------------------------------------
(* The card, the forms and the scan under way.                                *)

LEMMA CardSteps ==
    ASSUME TypeInv, Next
    PROVE  /\ screen' \in ScreenOf /\ assignFor' \in Code \cup {NoCode}
           /\ eventFor' \in Item \cup {NoItem} /\ swapped' \in BOOLEAN
<1>0. /\ screen \in ScreenOf /\ assignFor \in Code \cup {NoCode}
      /\ eventFor \in Item \cup {NoItem} /\ swapped \in BOOLEAN
      /\ SoundInv
  BY DEF TypeInv, CardInv
<1>a. ASSUME NEW answer \in Answers PROVE answer.item \in Item \cup {NoItem}
  BY DEF Answers
<1> DEFINE Good == /\ screen' \in ScreenOf /\ assignFor' \in Code \cup {NoCode}
                   /\ eventFor' \in Item \cup {NoItem} /\ swapped' \in BOOLEAN
<1>kept. ASSUME screen' \in {screen, NoScreen}, assignFor' \in {assignFor, NoCode},
                eventFor' \in {eventFor, NoItem}, swapped' \in {swapped, FALSE}
         PROVE  Good
  <2>1. screen' \in ScreenOf
    <3> DEFINE Cards == {Shown(answer, c) : answer \in Answers, c \in Code}
    <3>1. ScreenOf = Cards \cup {NoScreen}
      BY DEF ScreenOf
    <3> HIDE DEF Cards
    <3> QED
      BY <1>0, <1>kept, <3>1
  <2>2. /\ assignFor' \in Code \cup {NoCode} /\ eventFor' \in Item \cup {NoItem}
        /\ swapped' \in BOOLEAN
    BY <1>0, <1>kept
  <2> QED
    BY <2>1, <2>2
<1>1. ASSUME NEW c \in Code, ScanBegins(c) PROVE Good
  BY <1>1, <1>kept, BeginsScan DEF card
<1>2. CASE ScanEnds
  <2>1. ASSUME NEW answer \in Answers, Answered(answer) PROVE Good
    <3>1. lookup.code \in Code /\ Shows(lookup.code, answer)
      BY <2>1 DEF Answered, TypeInv, CardInv
    <3>2. screen' \in ScreenOf
      BY <3>1 DEF Shows, ScreenOf
    <3> QED
      BY <1>0, <1>a, <3>1, <3>2 DEF Shows
  <2>2. CASE LookupFails \/ LookupDropped \/ LookupRefused
              \/ \E row, external : Queued(row, external)
    BY <2>2, <1>kept DEF LookupFails, LookupDropped, LookupRefused, Queued, ResetView,
                         ClearWorkspace, card
  <2> QED
    BY <1>2, <2>1, <2>2 DEF ScanEnds
<1>3. ASSUME NEW j \in Job, Submits(j) \/ BulkSubmit(j) PROVE Good
  BY <1>3, <1>kept DEF Submits, Assign, RecordEvent, Correct, Administer, Begin, BulkSubmit, card
<1>4. ASSUME NEW j \in Job, IsAnswered(j) PROVE Good
  BY <1>4, <1>kept DEF IsAnswered, AssignDone, EventDone, CorrectDone, ClearWorkspace, card
<1>5. ASSUME NEW j \in Job, Returns(j) PROVE Good
  <2>1. CASE BulkDone(j)
    BY <2>1, <1>kept DEF BulkDone, card
  <2>2. ASSUME NEW answer \in Answers, Refreshed(j, answer) PROVE Good
    <3>1. jobs[j].code \in Code
      BY <1>0, <2>2 DEF Refreshed, SoundInv, Sound
    <3>2. screen' \in ScreenOf
      BY <2>2, <3>1 DEF Refreshed, ScreenOf
    <3> QED
      BY <1>0, <2>2, <3>2 DEF Refreshed
  <2> QED
    BY <1>5, <2>1, <2>2 DEF Returns
<1>6. ASSUME NEW j \in Job, Overtaken(j) \/ Finished(j) PROVE Good
  BY <1>6, <1>kept DEF Overtaken, Finished, Reloaded, JobFails, JobRefused, ResetView,
        ClearWorkspace, card
<1>7. CASE UserStep
  <2>1. CASE RegisterUnknown
    <3>1. screen.mode = "unknown" /\ screen' = [screen EXCEPT !.mode = "label"]
          /\ assignFor' = screen.code /\ UNCHANGED <<eventFor, swapped>>
      BY <2>1 DEF RegisterUnknown, DrawsCard
    <3>2. PICK answer \in Answers, c \in Code : screen = Shown(answer, c)
      BY <1>0, <3>1 DEF ScreenOf, NoScreen
    <3>3. answer.item = NoItem
      BY <3>1, <3>2 DEF Answers, Shown, Mode
    <3>4. [mode |-> "label", item |-> NoItem] \in Answers
      BY DEF Answers
    <3>5. screen' = Shown([mode |-> "label", item |-> NoItem], c) /\ screen.code = c
      BY <3>1, <3>2, <3>3 DEF Shown
    <3> QED
      BY <1>0, <3>1, <3>4, <3>5 DEF ScreenOf
  <2> QED
    BY <1>7, <2>1, <1>kept DEF UserStep, ScanNext, SetOneByOne, SetBulk, ClearQueue,
          SetBulkAction, StepRow, ClearWorkspace, card
<1>8. CASE PollRefused \/ Logout \/ LogoutAnswered
  BY <1>8, <1>kept DEF PollRefused, Logout, LogoutAnswered, ResetView, ClearWorkspace, card
<1> QED
  BY <1>1, <1>2, <1>3, <1>4, <1>5, <1>6, <1>7, <1>8, Steps

\* A scan is of a code until it is aborted.
ScanOf(l) ==
    /\ l.use \in {"none", "scan", "queue", "silent"}
    /\ l.use # "none" /\ ~l.aborted => l.code \in Code

LEMMA AbortsScan ==
    ASSUME IsLookup(lookup), ScanOf(lookup), lookup' = lookup \/ Aborted
    PROVE  ScanOf(lookup)'
<1>1. CASE lookup' = lookup
  BY <1>1 DEF ScanOf
<1>2. CASE Aborted /\ lookup' # lookup
  <2> DEFINE b == [lookup EXCEPT !.aborted = TRUE]
             a == [b EXCEPT !.code = NoCode]
  <2>1. b \in [use: {lookup.use}, code: {lookup.code}, job: {lookup.job}, aborted: {TRUE}]
    BY DEF IsLookup
  <2>2. lookup' = a
    BY <1>2 DEF Aborted, b
  <2> HIDE DEF b
  <2>3. a.aborted = TRUE /\ a.use = lookup.use
    BY <2>1
  <2> QED
    BY <2>2, <2>3 DEF ScanOf
<1> QED
  BY <1>1, <1>2

LEMMA StartsScan ==
    ASSUME NEW use \in {"scan", "queue", "silent"}, NEW c \in Code, NEW j, Starts(use, c, j)
    PROVE  ScanOf(lookup)'
  BY DEF Starts, ScanOf

LEMMA ScanStep ==
    ASSUME TypeInv, Next
    PROVE  ScanOf(lookup)'
<1>0. ShapeInv /\ ScanOf(lookup) /\ IsLookup(lookup)
  BY DEF TypeInv, CardInv, Answerable, Looking, ScanOf, ShapeInv
<1>same. ASSUME lookup' = lookup \/ Aborted PROVE ScanOf(lookup)'
  BY <1>0, <1>same, AbortsScan
<1>1. ASSUME NEW c \in Code, ScanBegins(c) PROVE ScanOf(lookup)'
  BY <1>1, StartsScan DEF ScanBegins, Scan, OpenCorrection
<1>2. CASE ScanEnds
  BY <1>0, <1>2, EndsScan, EndsPut DEF ScanOf
<1>3. ASSUME NEW j \in Job, Submits(j) \/ BulkSubmit(j) PROVE ScanOf(lookup)'
  BY <1>3, <1>same DEF Submits, Assign, RecordEvent, Correct, Administer, Begin, BulkSubmit
<1>4. ASSUME NEW j \in Job, IsAnswered(j) PROVE ScanOf(lookup)'
  <2>1. \/ lookup' = lookup
        \/ jobs[j].kind = "assign" /\ Starts("silent", jobs[j].code, j)
        \/ Interacts(screen) /\ Starts("silent", screen.code, j)
    BY <1>4 DEF IsAnswered, AssignDone, EventDone, CorrectDone, Rescans
  <2>2. jobs[j].kind = "assign" => jobs[j].code \in Code
    BY DEF TypeInv, SoundInv, Sound
  <2>3. Interacts(screen) => screen.code \in Code
    BY DEF TypeInv, CardInv, ScreenOf, Shown, Interacts, NoScreen
  <2> QED
    BY <2>1, <2>2, <2>3, <1>same, StartsScan
<1>5. ASSUME NEW j \in Job, Returns(j) \/ Overtaken(j) \/ Finished(j) PROVE ScanOf(lookup)'
  BY <1>5, <1>same DEF Returns, BulkDone, Refreshed, Overtaken, Finished, Reloaded, JobFails,
                       JobRefused
<1>6. CASE UserStep
  BY <1>6, <1>same, UserShape
<1>7. CASE PollRefused \/ Logout \/ LogoutAnswered
  BY <1>7, <1>same DEF PollRefused, Logout, LogoutAnswered
<1> QED
  BY <1>1, <1>2, <1>3, <1>4, <1>5, <1>6, <1>7, Steps

LEMMA CardInvStep ==
    ASSUME TypeInv, Next
    PROVE  CardInv'
<1>1. /\ screen' \in ScreenOf /\ assignFor' \in Code \cup {NoCode}
      /\ eventFor' \in Item \cup {NoItem} /\ swapped' \in BOOLEAN
  BY CardSteps
<1>2. ScanOf(lookup)'
  BY ScanStep
<1> QED
  BY <1>1, <1>2 DEF CardInv, ScanOf, Answerable, Looking

-----------------------------------------------------------------------------
(* The locks and the modes.                                                   *)

LEMMA FlagStep ==
    ASSUME TypeInv, Next
    PROVE  FlagInv'
<1>0. FlagInv /\ view.action \in Actions
  BY ViewTypes DEF TypeInv
<1>1. auth' \in {"authenticated", "loggingOut", "out"} /\ leaving' \in BOOLEAN
      /\ pending' \in {"none", "busy", "logout"}
  <2> DEFINE Good == auth' \in {"authenticated", "loggingOut", "out"} /\ leaving' \in BOOLEAN
                       /\ pending' \in {"none", "busy", "logout"}
  <2>0. ASSUME auth' = auth \/ AuthFails, leaving' = leaving, pending' \in {pending, "none", "busy"}
        PROVE  Good
    BY <1>0, <2>0 DEF AuthFails, FlagInv
  <2>1. ASSUME NEW c \in Code, ScanBegins(c) PROVE Good
    BY <2>1, <2>0, BeginsScan
  <2>2. CASE ScanEnds
    BY <2>2, <2>0 DEF ScanEnds, Answered, Queued, LookupFails, LookupRefused, LookupDropped,
                      Unlocks, ResetView
  <2>3. ASSUME NEW j \in Job, Submits(j) \/ BulkSubmit(j) \/ IsAnswered(j) PROVE Good
    BY <2>3, <2>0 DEF Submits, Assign, RecordEvent, Correct, Administer, Begin, BulkSubmit,
                      IsAnswered, AssignDone, EventDone, CorrectDone
  <2>4. ASSUME NEW j \in Job, Returns(j) \/ Overtaken(j) \/ Finished(j) PROVE Good
    BY <2>4, <2>0 DEF Returns, BulkDone, Refreshed, Overtaken, Finished, Reloaded, JobFails,
                      JobRefused, Finishes, ResetView
  <2>5. CASE UserStep
    BY <2>5, <2>0, UserShape
  <2>6. CASE PollRefused
    BY <2>6, <2>0 DEF PollRefused, ResetView
  <2>7. CASE Logout \/ LogoutAnswered
    BY <1>0, <2>7 DEF Logout, LogoutAnswered, ResetView, FlagInv
  <2> QED
    BY <2>1, <2>2, <2>3, <2>4, <2>5, <2>6, <2>7, Steps
<1>2. scanMode' \in {"oneByOne"} \cup Actions
  <2>1. QueueMove
    BY QueueMoves
  <2> QED
    BY <1>0, <2>1 DEF QueueMove, FlagInv, Told, Rejoins
<1>3. bypasses' \in 0 .. MaxBypasses
  <2>1. bypasses' = bypasses \/ (bypasses < MaxBypasses /\ bypasses' = bypasses + 1)
    <3>1. ASSUME NEW c \in Code, ScanBegins(c) PROVE bypasses' = bypasses \/ GetsAround
      BY <3>1 DEF ScanBegins, Scan, OpenCorrection
    <3>2. ASSUME ScanEnds PROVE bypasses' = bypasses
      BY <3>2 DEF ScanEnds, Answered, Queued, LookupFails, LookupRefused, LookupDropped
    <3>3. ASSUME NEW j \in Job, Submits(j) \/ BulkSubmit(j) \/ IsAnswered(j)
          PROVE  bypasses' = bypasses
      BY <3>3 DEF Submits, Assign, RecordEvent, Correct, Administer, Begin, BulkSubmit,
                  IsAnswered, AssignDone, EventDone, CorrectDone
    <3>4. ASSUME NEW j \in Job, Returns(j) \/ Overtaken(j) \/ Finished(j)
          PROVE  bypasses' = bypasses
      BY <3>4 DEF Returns, BulkDone, Refreshed, Overtaken, Finished, Reloaded, JobFails,
                  JobRefused
    <3>5. ASSUME UserStep \/ PollRefused \/ LogoutAnswered PROVE bypasses' = bypasses
      BY <3>5, UserShape DEF PollRefused, LogoutAnswered
    <3>6. ASSUME Logout PROVE GetsAround
      BY <3>6 DEF Logout
    <3> QED
      BY <3>1, <3>2, <3>3, <3>4, <3>5, <3>6, Steps DEF GetsAround
  <2> QED
    BY <1>0, <2>1, ControllerAssumption DEF FlagInv, ControllerAssumption
<1> QED
  BY <1>1, <1>2, <1>3 DEF FlagInv

LEMMA TypeInvStep == TypeInv /\ [Next]_vars => TypeInv'
<1> SUFFICES ASSUME TypeInv, [Next]_vars PROVE TypeInv'
  OBVIOUS
<1>0. ShapeInv'
  BY ShapeStep DEF TypeInv
<1>1. CASE Next
  <2>1. QueueInv'
    BY <1>1, QueueMoves, QueueInvMove DEF TypeInv, FlagInv
  <2> QED
    BY <1>0, <1>1, <2>1, SoundStep, CardInvStep, FlagStep DEF TypeInv
<1>2. CASE UNCHANGED vars
  <2>1. QueueInv'
    BY <1>2 DEF vars, TypeInv, QueueInv, Copied, Suited
  <2>2. SoundInv' /\ CardInv' /\ FlagInv'
    BY <1>2 DEF vars, TypeInv, SoundInv, CardInv, FlagInv, Answerable, Looking
  <2> QED
    BY <1>0, <2>1, <2>2 DEF TypeInv
<1> QED
  BY <1>1, <1>2

LEMMA TypeInit == Init => TypeInv
<1> SUFFICES ASSUME Init PROVE TypeInv
  OBVIOUS
<1>0. "label" \in Actions
  BY DEF Actions
<1>1. QueueInv
  BY <1>0, EmptyConsistent DEF Init, QueueInv, Copied, Suited, AllFit
<1>2. SoundInv
  BY SoundStages DEF Init, SoundInv
<1>3. CardInv
  <2>1. NoScreen \in ScreenOf
    <3> DEFINE Cards == {Shown(answer, c) : answer \in Answers, c \in Code}
    <3>1. ScreenOf = Cards \cup {NoScreen}
      BY DEF ScreenOf
    <3> HIDE DEF Cards
    <3> QED
      BY <3>1
  <2> QED
    BY <2>1 DEF Init, CardInv, NoLookup, Answerable, Looking
<1>4. FlagInv
  <2>1. leaving \in BOOLEAN
    BY DEF Init
  <2>2. bypasses \in 0 .. MaxBypasses
    BY ControllerAssumption DEF Init, ControllerAssumption
  <2> QED
    BY <2>1, <2>2 DEF Init, FlagInv
<1> QED
  BY <1>1, <1>2, <1>3, <1>4, ShapeInit DEF TypeInv

LEMMA TypeInvariant == Spec => []TypeInv
  BY TypeInit, TypeInvStep, PTL DEF Spec

\* Every part of the controller's state keeps its type, and the queue machine's states
\* agree with its rows, whatever events reach it from scans, steppers and submissions.
THEOREM Typed == Spec => []TypeOK
<1>1. TypeInv => TypeOK
  <2> SUFFICES ASSUME TypeInv PROVE TypeOK
    OBVIOUS
  <2>1. view.rows \subseteq Row
    BY DEF TypeInv, QueueInv, Copied, Drawn, EmptyView, Consistent
  <2>2. \A j \in Job : jobs[j].stage \in {"idle", "sent", "rescan", "refresh", "reload"}
    BY DEF TypeInv, SoundInv, Sound
  <2>3. lookup.use = "silent" => jobs[lookup.job].stage = "rescan"
    BY DEF TypeInv, ShapeInv, Awaited
  <2> QED
    BY <2>1, <2>2, <2>3 DEF TypeInv, TypeOK, QueueInv, Consistent, CardInv, ScreenOf,
                        FlagInv
<1> QED
  BY <1>1, TypeInvariant, PTL

\* A bulk request only carries rows its action was offered for, whatever the user
\* switched meanwhile (buildBulkQueueRow, handleBulkSubmit).
THEOREM RowsFit == Spec => []RowsFitRequest
<1>1. TypeInv => RowsFitRequest
  BY DEF TypeInv, SoundInv, Sound, RowsFitRequest
<1> QED
  BY <1>1, TypeInvariant, PTL

-----------------------------------------------------------------------------
(* A bulk submission holds its queue.                                         *)

Holds(j) == SendsBulk(j) => queue.state = "submitting" /\ queue.rows = jobs[j].rows

HoldInv ==
    /\ AloneInv /\ TypeInv
    /\ bypasses = 0 => \A j \in Job : Holds(j)

\* A machine that is submitting hears nothing but the outcome.
LEMMA Deaf ==
    ASSUME NEW q, q.state = "submitting"
    PROVE  /\ \A a : ActionChanged(q, a) = q
           /\ Cleared(q) = q /\ RowRejected(q) = q
           /\ \A row : RowAccepted(q, row) = q
           /\ \A rows : RowsBecome(q, rows) = q
  BY DEF ActionChanged, Cleared, RowRejected, RowAccepted, RowsBecome

\* While the lock is respected nothing reaches the queue but the end of its submission.
LEMMA QueueHeld ==
    ASSUME HoldInv, Next, bypasses = 0, NEW k \in Job, SendsBulk(k), SendsBulk(k)'
    PROVE  jobs'[k] = jobs[k] /\ queue' = queue
<1>0. /\ ShapeInv /\ AloneInv /\ queue.state = "submitting"
      /\ jobs[k].stage = "sent" /\ jobs[k].kind = "bulk" /\ jobs'[k].stage = "sent"
  BY DEF HoldInv, AloneInv, Holds, SendsBulk
<1>1. /\ DrawsApp => pending # "none"
      /\ \A j \in Job \ {k} : jobs[j].stage = "idle"
  BY <1>0, OnlyOne
<1>2. ~Unlocked
  BY <1>1 DEF Unlocked
<1>3. ASSUME NEW c \in Code, ScanBegins(c) PROVE jobs'[k] = jobs[k] /\ queue' = queue
  BY <1>3, BeginsScan
<1>4. CASE ScanEnds
  <2>1. jobs' = jobs
    BY <1>0, <1>1, <1>4, EndsScan, EndsPut DEF ShapeInv, Awaited
  <2>2. \/ queue' = queue \/ queue' = RowRejected(queue) \/ queue' = Cleared(queue)
        \/ \E row : queue' = RowAccepted(queue, row)
    BY <1>4 DEF ScanEnds, Answered, Queued, LookupFails, LookupRefused, LookupDropped, Send,
                ResetView
  <2> QED
    BY <1>0, <2>1, <2>2, Deaf
<1>5. ASSUME NEW j \in Job, Submits(j) \/ BulkSubmit(j) PROVE FALSE
  <2>1. Unlocked
    BY <1>5 DEF Submits, Assign, RecordEvent, Correct, Administer, Begin, BulkSubmit,
                DrawsQueueForm
  <2> QED
    BY <1>2, <2>1
<1>6. ASSUME NEW j \in Job, IsAnswered(j) \/ Returns(j) \/ Overtaken(j) \/ Finished(j) PROVE FALSE
  <2>1. jobs[j].stage # "idle"
    BY <1>6 DEF IsAnswered, AssignDone, EventDone, CorrectDone, Returns, BulkDone, Refreshed,
                Overtaken, Finished, Reloaded, JobFails, JobRefused
  <2>2. j = k
    BY <1>1, <2>1
  <2>3. ~IsAnswered(k) /\ ~Overtaken(k) /\ ~Reloaded(k) /\ \A m : ~Refreshed(k, m)
    BY <1>0, Answering DEF IsAnswered, Overtaken, Reloaded, Refreshed
  <2>4. \E s \in {"reload", "idle"} : Put(k, At(s))
    BY <1>0, <1>6, <2>2, <2>3, Answering DEF Returns, Finished
  <2> QED
    BY <1>0, <2>4, HandlersAre DEF Put
<1>7. CASE UserStep
  <2>1. jobs' = jobs
    BY <1>7, UserShape
  <2>2. \/ queue' = queue
        \/ \E a : queue' = ActionChanged(queue, a)
        \/ \E rows : queue' = RowsBecome(queue, rows)
    BY <1>7 DEF UserStep, ScanNext, RegisterUnknown, SetOneByOne, SetBulk, ClearQueue,
                SetBulkAction, StepRow, ClearBulkQueue, Send
  <2> QED
    BY <1>0, <2>1, <2>2, Deaf
<1>8. CASE PollRefused \/ Logout \/ LogoutAnswered
  <2>1. jobs' = jobs /\ (queue' = queue \/ queue' = Cleared(queue))
    BY <1>8 DEF PollRefused, Logout, LogoutAnswered, ResetView
  <2> QED
    BY <1>0, <2>1, Deaf
<1> QED
  BY <1>3, <1>4, <1>5, <1>6, <1>7, <1>8, Steps

\* Only handleBulkSubmit sends the queue.
LEMMA OnlyBulkSubmit ==
    ASSUME ShapeInv, Next, NEW k \in Job, ~SendsBulk(k), SendsBulk(k)'
    PROVE  BulkSubmit(k)
<1>0. jobs'[k].stage = "sent" /\ jobs'[k].kind = "bulk" /\ jobs'[k] # jobs[k]
  BY DEF SendsBulk
<1>1. ASSUME NEW j \in Job, NEW h, Put(j, h), h.stage # "sent" \/ h.kind # "bulk" PROVE FALSE
  BY <1>0, <1>1 DEF Put
<1>2. \A s : At(s).kind = "none"
  BY HandlersAre
<1>3. ASSUME NEW c \in Code, ScanBegins(c) PROVE FALSE
  BY <1>0, <1>3, BeginsScan
<1>4. CASE ScanEnds
  BY <1>0, <1>1, <1>2, <1>4, EndsScan, EndsPut
<1>5. ASSUME NEW j \in Job, Submits(j) PROVE FALSE
  BY <1>1, <1>5, Beginning DEF Submits, Starting, Begun
<1>6. ASSUME NEW j \in Job, BulkSubmit(j) PROVE j = k
  BY <1>0, <1>6, BulkBeginning DEF Starting, Put
<1>7. ASSUME NEW j \in Job, IsAnswered(j) PROVE FALSE
  <2>1. [jobs[j] EXCEPT !.stage = "refresh"].stage = "refresh"
    BY Refreshing DEF ShapeInv, Handlers
  <2> QED
    BY <1>1, <1>2, <1>7, <2>1, Answering DEF IsAnswered
<1>8. ASSUME NEW j \in Job, Returns(j) \/ Overtaken(j) \/ Finished(j) PROVE FALSE
  BY <1>1, <1>2, <1>8, Answering DEF Returns, Finished
<1>9. CASE UserStep
  BY <1>0, <1>9, UserShape
<1>10. CASE PollRefused \/ Logout \/ LogoutAnswered
  BY <1>0, <1>10 DEF PollRefused, Logout, LogoutAnswered
<1> QED
  BY <1>3, <1>4, <1>5, <1>6, <1>7, <1>8, <1>9, <1>10, Steps

\* All the rows of a queue are of the kind its action is offered for, so all are sent.
LEMMA SendsAll ==
    ASSUME TypeInv, NEW j \in Job, BulkSubmit(j), SendsBulk(j)'
    PROVE  Holds(j)'
<1>0. /\ ShapeInv /\ view.action = scanMode /\ view.rows # {} /\ jobs[j].stage = "idle"
      /\ scanMode \in Actions
  BY DEF TypeInv, BulkSubmit, DrawsQueueForm
<1>1. PICK h : queue' = SubmitRequested(queue) /\ Put(j, h) /\ Carries(h)
  BY <1>0, BulkBeginning DEF Starting, SendsBulk
<1>2. queue.action = scanMode /\ Consistent(queue) /\ queue.rows # {}
  BY <1>0, ViewTypes DEF TypeInv, QueueInv, Drawn
<1>3. AllFit(queue)
  BY <1>2 DEF TypeInv, QueueInv, Suited
<1>4. queue'.state = "submitting" /\ queue'.rows = queue.rows
  BY <1>1, <1>2, Marking
<1>5. h.rows = queue.rows
  <2>1. scanMode # "label" => \A r \in queue.rows : r.kind = "assigned"
    BY <1>2, <1>3 DEF AllFit, Fits
  <2>2. SubmitRequested(queue).rows = queue.rows
    BY <1>2, Marking
  <2> QED
    BY <1>1, <2>1, <2>2 DEF Carries
<1> QED
  BY <1>1, <1>4, <1>5 DEF Holds, Put

LEMMA HoldInvStep == HoldInv /\ [Next]_vars => HoldInv'
<1> SUFFICES ASSUME HoldInv, [Next]_vars PROVE HoldInv'
  OBVIOUS
<1>0. AloneInv' /\ TypeInv'
  BY AloneInvStep, TypeInvStep DEF HoldInv
<1>1. CASE Next
  <2>1. bypasses' = 0 => bypasses = 0
    BY <1>1, Bypasses DEF HoldInv, AloneInv
  <2>2. ASSUME bypasses = 0, NEW k \in Job, SendsBulk(k)' PROVE Holds(k)'
    <3>1. CASE SendsBulk(k)
      BY <1>1, <2>2, <3>1, QueueHeld DEF HoldInv, Holds
    <3>2. CASE ~SendsBulk(k)
      BY <1>1, <2>2, <3>2, OnlyBulkSubmit, SendsAll DEF HoldInv, TypeInv
    <3> QED
      BY <3>1, <3>2
  <2> QED
    BY <1>0, <2>1, <2>2 DEF HoldInv, Holds
<1>2. CASE UNCHANGED vars
  BY <1>0, <1>2 DEF vars, HoldInv, Holds, SendsBulk
<1> QED
  BY <1>1, <1>2

\* As long as the user does not go around the lock, what a successful bulk submission
\* clears, and a failed one offers again, is what was sent (bulk-queue-machine.ts's
\* submitting state, which hears nothing but the outcome).
THEOREM QueueIsHeld == Spec => []SubmissionHoldsQueue
<1>1. Init => HoldInv
  BY AloneInit, TypeInit, HandlersAre DEF Init, HoldInv, Holds, SendsBulk
<1>2. HoldInv => SubmissionHoldsQueue
  BY DEF HoldInv, Holds, SendsBulk, SubmissionHoldsQueue
<1> QED
  BY <1>1, <1>2, HoldInvStep, PTL DEF Spec
=============================================================================
