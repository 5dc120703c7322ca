------------------------------ MODULE Requests ------------------------------
(***************************************************************************)
(* The HTTP layer of the middleware: how a browser signs in and out, how a  *)
(* mutation is let in (requireAuth), and how createIdempotencyHooks makes a *)
(* mutation that is sent again with its key take effect once.               *)
(*                                                                          *)
(* A mutation passes requireAuth, the preHandler, its handler and onSend in *)
(* steps of their own: others may run in between, and the process may die.  *)
(* The handler's transaction is one step, that commits or is refused; after *)
(* a commit the handler may still throw.  The sessions and the rows of      *)
(* idempotency_keys outlive the process, but not a reset of the inventory.  *)
(***************************************************************************)
EXTENDS FiniteSets

CONSTANTS
    Request,    \* mutations; each is sent once, a retry is a request of its own
    Key,        \* x-idempotency-key with the URL and the body it is hashed with
    NoKey,      \* a request without the header
    Session,    \* ids of sessions; an id is given out once
    Tab,        \* sign-ins; each tab of the browser signs in once
    None

ASSUME RequestsAssumption ==
    None \notin Session \cup Tab \cup Request \cup Key /\ NoKey \notin Key

VARIABLES
    sessions,   \* auth_sessions; "past": the row is there but past its expires_at
    cookie,     \* the browser's session cookie
    authCookie, \* the browser's cookie of the sign-in it last started
    logins,     \* what each tab waits for
    rows,       \* idempotency_keys, by the session and the key they are hashed from
    reqs,       \* the mutations
    leaving,    \* the answer to a sign-out is on its way
    out,        \* history: the sessions that were signed out
    ran,        \* history: the requests that took effect since a row last lapsed
    adrift      \* history: the requests whose row a reset or another's answer took away

vars == <<sessions, cookie, authCookie, logins, rows, reqs, leaving, out, ran, adrift>>

Row == [state : {"absent", "pending", "stored"}, of : Request \cup {None}, old : BOOLEAN]
NoRow == [state |-> "absent", of |-> None, old |-> FALSE]

\* phase: where the request is; owns: it made the reservation; late: it was sent after its
\* session was signed out; of: whose answer it gave.
Mutation == [phase : {"unsent", "sent", "admitted", "reserved", "done", "threw", "refused",
                      "answered", "rejected", "lost"},
             session : Session \cup {None}, key : Key \cup {NoKey}, owns : BOOLEAN,
             effect : BOOLEAN, late : BOOLEAN,
             reply : {"none", "ok", "error", "conflict", "unauthenticated"},
             of : Request \cup {None}]
Unsent == [phase |-> "unsent", session |-> None, key |-> NoKey, owns |-> FALSE,
           effect |-> FALSE, late |-> FALSE, reply |-> "none", of |-> None]

Running(r) == reqs[r].phase \in {"admitted", "reserved", "done", "threw", "refused"}

Init ==
    /\ sessions = [s \in Session |-> "new"]
    /\ cookie = None /\ authCookie = None
    /\ logins = [t \in Tab |-> "idle"]
    /\ rows = [i \in Session \X Key |-> NoRow]
    /\ reqs = [r \in Request |-> Unsent]
    /\ leaving = FALSE /\ out = {}
    /\ ran = [i \in Session \X Key |-> {}]
    /\ adrift = {}

-----------------------------------------------------------------------------
(* Signing in and out.                                                      *)

\* GET /api/auth/login: the cookie of an earlier sign-in is replaced.
StartLogin(t) ==
    /\ logins[t] = "idle"
    /\ logins' = [logins EXCEPT ![t] = "atProvider"]
    /\ authCookie' = t
    /\ UNCHANGED <<sessions, cookie, rows, reqs, leaving, out, ran, adrift>>

\* The cookie lives ten minutes, as long as completeLogin accepts what it says.
AuthRequestExpires ==
    /\ authCookie # None /\ authCookie' = None
    /\ UNCHANGED <<sessions, cookie, logins, rows, reqs, leaving, out, ran, adrift>>

\* GET /api/auth/callback: completeLogin compares the cookie's state with the query's and
\* waits for exchangeAuthorizationCode, or fails; every failure clears the cookie.
Callback(t) ==
    /\ logins[t] = "atProvider"
    /\ \/ /\ authCookie = t
          /\ logins' = [logins EXCEPT ![t] = "exchanging"] /\ UNCHANGED authCookie
       \/ /\ authCookie # t
          /\ logins' = [logins EXCEPT ![t] = "failed"] /\ authCookie' = None
    /\ UNCHANGED <<sessions, cookie, rows, reqs, leaving, out, ran, adrift>>

\* deleteExpired, which create and get call when five minutes have passed.
Swept(sweep) ==
    [s \in Session |-> IF sweep /\ sessions[s] = "past" THEN "gone" ELSE sessions[s]]

\* The provider's answer: a session is created, or not.
LoginCompletes(t, s, sweep) ==
    /\ logins[t] = "exchanging" /\ sessions[s] = "new"
    /\ sessions' = [Swept(sweep) EXCEPT ![s] = "live"]
    /\ cookie' = s /\ authCookie' = None
    /\ logins' = [logins EXCEPT ![t] = "done"]
    /\ UNCHANGED <<rows, reqs, leaving, out, ran, adrift>>

LoginFails(t) ==
    /\ logins[t] = "exchanging"
    /\ authCookie' = None
    /\ logins' = [logins EXCEPT ![t] = "failed"]
    /\ UNCHANGED <<sessions, cookie, rows, reqs, leaving, out, ran, adrift>>

Expire(s) ==
    /\ sessions[s] = "live"
    /\ sessions' = [sessions EXCEPT ![s] = "past"]
    /\ UNCHANGED <<cookie, authCookie, logins, rows, reqs, leaving, out, ran, adrift>>

KeepsRow(s) ==                                                       \* mutant
    /\ cookie = s /\ s \notin out /\ ~leaving
    /\ leaving' = TRUE /\ out' = out \cup {s}
    /\ UNCHANGED <<sessions, cookie, authCookie, logins, rows, reqs, ran, adrift>>

\* POST /api/auth/logout deletes the row of the session; its answer clears the cookie,
\* whichever session the cookie names by then.
Logout(s) ==
    /\ cookie = s /\ s \notin out /\ ~leaving
    /\ sessions' = [sessions EXCEPT ![s] = "gone"]
    /\ leaving' = TRUE /\ out' = out \cup {s}
    /\ UNCHANGED <<cookie, authCookie, logins, rows, reqs, ran, adrift>>

LogoutAnswered ==
    /\ leaving /\ leaving' = FALSE /\ cookie' = None
    /\ UNCHANGED <<sessions, authCookie, logins, rows, reqs, out, ran, adrift>>

-----------------------------------------------------------------------------
(* A mutation.                                                              *)

\* The browser sends it with its cookie.
Send(r, k) ==
    /\ reqs[r].phase = "unsent"
    /\ reqs' = [reqs EXCEPT ![r] = [Unsent EXCEPT !.phase = "sent", !.key = k,
                                     !.session = cookie, !.late = (cookie \in out)]]
    /\ UNCHANGED <<sessions, cookie, authCookie, logins, rows, leaving, out, ran, adrift>>

\* requireAuth. SessionStore.get deletes a session it finds past its expiry.
Admit(r, sweep) ==
    /\ reqs[r].phase = "sent"
    /\ LET s == reqs[r].session
       IN  /\ sessions' = IF s # None /\ sessions[s] = "past"
                          THEN [sessions EXCEPT ![s] = "gone"] ELSE Swept(sweep)
           /\ reqs' = [reqs EXCEPT ![r].phase =
                  IF s # None /\ sessions[s] = "live" THEN "admitted" ELSE "rejected"]
    /\ UNCHANGED <<cookie, authCookie, logins, rows, leaving, out, ran, adrift>>

KeyOnly(r) == <<CHOOSE s \in Session : TRUE, reqs[r].key>>           \* mutant

\* storageKey: the row of a request is its own session's.
StorageKey(r) == <<reqs[r].session, reqs[r].key>>

ForgetsAnswers(table) ==                                             \* mutant
    [i \in Session \X Key |-> IF table[i].old THEN [table[i] EXCEPT !.of = None] ELSE table[i]]

\* cleanup, which every onSend of a request with a key runs: rows a day old go.
Cleaned(table) == [i \in Session \X Key |-> IF table[i].old THEN NoRow ELSE table[i]]

CleanUp(table) ==
    /\ rows' = Cleaned(table)
    /\ ran' = [i \in Session \X Key |-> IF table[i].old THEN {} ELSE ran[i]]

\* A request that does not own its reservation is answered by the preHandler.
Reply(r, what, of) ==
    /\ reqs' = [reqs EXCEPT ![r] = [@ EXCEPT !.phase = "answered", !.reply = what, !.of = of]]
    /\ CleanUp(rows)
    /\ UNCHANGED <<sessions, cookie, authCookie, logins, leaving, out, adrift>>

\* The answer to a request that was not let in clears the session cookie too.
Unauthenticated(r) ==
    /\ reqs[r].phase = "rejected"
    /\ reqs' = [reqs EXCEPT ![r] = [@ EXCEPT !.phase = "answered", !.reply = "unauthenticated"]]
    /\ cookie' = None
    /\ IF reqs[r].key \in Key THEN CleanUp(rows) ELSE UNCHANGED <<rows, ran>>
    /\ UNCHANGED <<sessions, authCookie, logins, leaving, out, adrift>>

TakesPendingOver(r) ==                                               \* mutant
    /\ reqs[r].phase = "admitted" /\ reqs[r].key \in Key
    /\ LET i == StorageKey(r)
       IN  \/ /\ rows[i].state \in {"absent", "pending"}
              /\ rows' = [rows EXCEPT ![i] = [state |-> "pending", of |-> r, old |-> FALSE]]
              /\ reqs' = [reqs EXCEPT ![r] = [@ EXCEPT !.phase = "reserved", !.owns = TRUE]]
              /\ UNCHANGED <<sessions, cookie, authCookie, logins, leaving, out, ran, adrift>>
           \/ /\ rows[i].state = "stored"
              /\ Reply(r, "ok", rows[i].of)

\* preHandler of a request with a key.
Reserve(r) ==
    /\ reqs[r].phase = "admitted" /\ reqs[r].key \in Key
    /\ LET i == StorageKey(r)
       IN  \/ /\ rows[i].state = "absent"
              /\ rows' = [rows EXCEPT ![i] = [state |-> "pending", of |-> r, old |-> FALSE]]
              /\ reqs' = [reqs EXCEPT ![r] = [@ EXCEPT !.phase = "reserved", !.owns = TRUE]]
              /\ UNCHANGED <<sessions, cookie, authCookie, logins, leaving, out, ran, adrift>>
           \/ /\ rows[i].state = "pending"
              /\ Reply(r, "conflict", None)
           \/ /\ rows[i].state = "stored"
              /\ Reply(r, "ok", rows[i].of)

\* preHandler of a request without one.
PassKeyless(r) ==
    /\ reqs[r].phase = "admitted" /\ reqs[r].key = NoKey
    /\ reqs' = [reqs EXCEPT ![r].phase = "reserved"]
    /\ UNCHANGED <<sessions, cookie, authCookie, logins, rows, leaving, out, ran, adrift>>

Took(r) == IF reqs[r].owns THEN [ran EXCEPT ![StorageKey(r)] = @ \cup {r}] ELSE ran

\* The handler: its transaction commits, or the command is refused.  voidQrCode of a code
\* in another spelling commits and then throws, which is answered as a refusal is.
Handle(r) ==
    /\ reqs[r].phase = "reserved"
    /\ \/ /\ reqs' = [reqs EXCEPT ![r] = [@ EXCEPT !.phase = "done", !.effect = TRUE]]
          /\ ran' = Took(r)
       \/ /\ reqs' = [reqs EXCEPT ![r] = [@ EXCEPT !.phase = "threw", !.effect = TRUE]]
          /\ ran' = Took(r)
       \/ /\ reqs' = [reqs EXCEPT ![r].phase = "refused"]
          /\ UNCHANGED ran
    /\ UNCHANGED <<sessions, cookie, authCookie, logins, rows, leaving, out, adrift>>

\* The handler of a reset deletes every row with the inventory, its own request's too.
HandleReset(r) ==
    /\ reqs[r].phase = "reserved"
    /\ reqs' = [reqs EXCEPT ![r] = [@ EXCEPT !.phase = "done", !.effect = TRUE]]
    /\ rows' = [i \in Session \X Key |-> NoRow]
    /\ ran' = [i \in Session \X Key |->
                  IF reqs[r].owns /\ i = StorageKey(r) THEN {r} ELSE {}]
    /\ adrift' = adrift \cup {q \in Request : \E i \in Session \X Key : rows[i].of = q}
    /\ UNCHANGED <<sessions, cookie, authCookie, logins, leaving, out>>

\* The row of the owner as onSend leaves it.
KeepsReservation(r) ==                                               \* mutant
    IF reqs[r].phase = "done" THEN [state |-> "stored", of |-> r, old |-> FALSE]
    ELSE rows[StorageKey(r)]

\* The UPDATE finds no row if a reset deleted it.
Settled(r) ==
    IF reqs[r].phase = "done" /\ rows[StorageKey(r)].state # "absent"
    THEN [state |-> "stored", of |-> r, old |-> FALSE] ELSE NoRow

\* onSend of a request the handler has seen. With a key it has made a reservation: it stores
\* its answer, or deletes the row, whoever's it is by then; then the rows a day old go.
Answer(r) ==
    /\ reqs[r].phase \in {"done", "threw", "refused"}
    /\ reqs' = [reqs EXCEPT ![r] = [@ EXCEPT !.phase = "answered", !.of = r,
                   !.reply = IF reqs[r].phase = "done" THEN "ok" ELSE "error"]]
    /\ IF reqs[r].key \in Key
       THEN /\ CleanUp([rows EXCEPT ![StorageKey(r)] = Settled(r)])
            /\ adrift' = adrift \cup ({rows[StorageKey(r)].of} \ {r, None})
       ELSE UNCHANGED <<rows, ran, adrift>>
    /\ UNCHANGED <<sessions, cookie, authCookie, logins, leaving, out>>

\* The process dies and is started again.
Crash ==
    /\ \E r \in Request : Running(r)
    /\ reqs' = [r \in Request |-> IF Running(r) THEN [reqs[r] EXCEPT !.phase = "lost"]
                                  ELSE reqs[r]]
    /\ logins' = [t \in Tab |-> IF logins[t] = "exchanging" THEN "failed" ELSE logins[t]]
    /\ UNCHANGED <<sessions, cookie, authCookie, rows, leaving, out, ran, adrift>>

\* No request runs for a day.
DayPasses ==
    /\ \A r \in Request : ~Running(r)
    /\ rows' = [i \in Session \X Key |-> [rows[i] EXCEPT !.old = (rows[i].state # "absent")]]
    /\ rows' # rows
    /\ UNCHANGED <<sessions, cookie, authCookie, logins, reqs, leaving, out, ran, adrift>>

-----------------------------------------------------------------------------
SigningIn ==
    \/ AuthRequestExpires \/ LogoutAnswered
    \/ \E t \in Tab : \/ StartLogin(t) \/ Callback(t) \/ LoginFails(t)
                      \/ \E s \in Session, sweep \in BOOLEAN : LoginCompletes(t, s, sweep)
    \/ \E s \in Session : Expire(s) \/ Logout(s)

Mutating ==
    \/ \E r \in Request :
          \/ \E k \in Key \cup {NoKey} : Send(r, k)
          \/ \E sweep \in BOOLEAN : Admit(r, sweep)
          \/ Unauthenticated(r) \/ Reserve(r) \/ PassKeyless(r) \/ Handle(r)
          \/ HandleReset(r) \/ Answer(r)
    \/ Crash \/ DayPasses

Next == SigningIn \/ Mutating

Spec == Init /\ [][Next]_vars

-----------------------------------------------------------------------------
(* Properties.                                                              *)

TypeOK ==
    /\ sessions \in [Session -> {"new", "live", "past", "gone"}]
    /\ cookie \in Session \cup {None} /\ authCookie \in Tab \cup {None}
    /\ logins \in [Tab -> {"idle", "atProvider", "exchanging", "done", "failed"}]
    /\ rows \in [Session \X Key -> Row]
    /\ \A i \in Session \X Key : rows[i].state = "absent" <=> rows[i].of = None
    /\ reqs \in [Request -> Mutation]
    /\ \A r \in Request : Running(r) => reqs[r].session \in Session
    /\ leaving \in BOOLEAN /\ out \subseteq Session
    /\ ran \in [Session \X Key -> SUBSET Request]
    /\ adrift \subseteq Request

\* Its handler committed and threw afterwards, so that its answer was an error.
Threw(r) == reqs[r].phase = "threw" \/ (reqs[r].effect /\ reqs[r].reply = "error")

\* However often a mutation is sent again with its key, and whatever crashes, it takes
\* effect once until its row lapses a day later.  Two things are excused: that its handler
\* threw after its commit, and that its row was deleted by a reset, or was overwritten by
\* the late answer of a request whose own row a reset had deleted.
TakesEffectOnce ==
    \A i \in Session \X Key : \A q, r \in ran[i] \ adrift : Threw(q) \/ Threw(r) \/ q = r

\* An answer that says a mutation was done is the answer of a request that did it, for
\* the same session and the same key: a replay never answers for something else.
AnswersAreTrue ==
    \A r \in Request : reqs[r].reply = "ok" =>
        LET q == reqs[r].of
        IN  q # None /\ reqs[q].effect
            /\ reqs[q].session = reqs[r].session /\ reqs[q].key = reqs[r].key

\* A key is refused as in progress only while its request is, or after a crash cut it
\* short: a refused command, a conflict or a replay leaves no reservation behind.
ReservationsHaveOwners ==
    \A i \in Session \X Key : rows[i].state = "pending" =>
        \E r \in Request : /\ reqs[r].owns /\ StorageKey(r) = i
                           /\ reqs[r].phase \in {"reserved", "done", "threw", "refused", "lost"}

\* What is sent with a session after its sign-out, by a tab whose cookie is not cleared
\* yet, takes no effect.
SignOutHolds == \A r \in Request : reqs[r].late => ~reqs[r].effect

=============================================================================
