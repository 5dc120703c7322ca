--------------------------- MODULE RequestsProofs ---------------------------
(***************************************************************************)
(* Proofs about Requests, for any number of mutations, keys, sessions and   *)
(* sign-ins.                                                                *)
(***************************************************************************)
EXTENDS Requests, TLAPS

Slot == Session \X Key

\* Requests whose handler has not committed.
Early == {"unsent", "sent", "admitted", "reserved", "refused", "rejected"}

\* Requests that hold the reservation of their key, unless they lost it.
Holding == {"reserved", "done", "threw", "refused"}

\* Lost its row, or answered an error although it took effect.
Excused(q) == q \in adrift \/ reqs[q].reply = "error"

\* A row names the request that reserved it and did what the row answers; what else took
\* effect under its key had lost its row, or answered an error after its commit.
RowTrue(i) ==
    /\ rows[i].state = "pending" =>
          /\ rows[i].of \in Request
          /\ reqs[rows[i].of].owns /\ reqs[rows[i].of].phase \in Holding \cup {"lost"}
          /\ StorageKey(rows[i].of) = i
    /\ rows[i].state = "stored" =>
          /\ rows[i].of \in Request /\ reqs[rows[i].of].effect /\ StorageKey(rows[i].of) = i
    /\ \A q \in ran[i] : Excused(q) \/ q = rows[i].of

\* A request that runs with a key has its row; one whose handler has not committed has no
\* effect; and what it answered is true.
RequestTrue(r) ==
    /\ reqs[r].phase \in Early => ~reqs[r].effect
    /\ reqs[r].phase \in {"unsent", "sent", "admitted", "rejected"} => ~reqs[r].owns
    /\ reqs[r].phase # "answered" => reqs[r].reply = "none"
    /\ reqs[r].phase \in {"done", "threw"} => reqs[r].effect
    /\ reqs[r].owns => reqs[r].key \in Key
    /\ reqs[r].phase \in Holding /\ reqs[r].key \in Key =>
          /\ reqs[r].owns
          /\ \/ r \in adrift
             \/ rows[StorageKey(r)] = [state |-> "pending", of |-> r, old |-> FALSE]
    /\ \A i \in Slot : r \in ran[i] => reqs[r].effect
    /\ reqs[r].reply = "ok" =>
          /\ reqs[r].of \in Request /\ reqs[reqs[r].of].effect
          /\ StorageKey(reqs[r].of) = StorageKey(r)

Inv == (\A i \in Slot : RowTrue(i)) /\ (\A r \in Request : RequestTrue(r))

-----------------------------------------------------------------------------
(* Type correctness.                                                        *)

LEMMA NoRowType == NoRow \in Row /\ NoRow.of = None /\ NoRow.state = "absent"
  BY DEF NoRow, Row

LEMMA UnsentType == Unsent \in Mutation
  BY DEF Unsent, Mutation

Rows(table) == /\ table \in [Slot -> Row]
               /\ \A i \in Slot : table[i].state = "absent" <=> table[i].of = None

LEMMA CleanUpType ==
    ASSUME TypeOK, NEW table, Rows(table), CleanUp(table)
    PROVE  Rows(rows') /\ ran' \in [Slot -> SUBSET Request]
  BY NoRowType DEF Rows, CleanUp, Cleaned, Slot, TypeOK

Phases == {"unsent", "sent", "admitted", "reserved", "done", "threw", "refused", "answered",
           "rejected", "lost"}

LEMMA MovedType ==
    ASSUME NEW m \in Mutation, NEW p \in Phases PROVE [m EXCEPT !.phase = p] \in Mutation
  BY DEF Mutation, Phases

LEMMA OwningType ==
    ASSUME NEW m \in Mutation, NEW p \in Phases, NEW b \in BOOLEAN
    PROVE  [m EXCEPT !.phase = p, !.owns = b] \in Mutation
  BY DEF Mutation, Phases

LEMMA EffectiveType ==
    ASSUME NEW m \in Mutation, NEW p \in Phases, NEW b \in BOOLEAN
    PROVE  [m EXCEPT !.phase = p, !.effect = b] \in Mutation
  BY DEF Mutation, Phases

LEMMA RepliedType ==
    ASSUME NEW m \in Mutation, NEW p \in Phases,
           NEW what \in {"ok", "error", "conflict", "unauthenticated"},
           NEW of \in Request \cup {None}
    PROVE  /\ [m EXCEPT !.phase = p, !.reply = what] \in Mutation
           /\ [m EXCEPT !.phase = p, !.reply = what, !.of = of] \in Mutation
           /\ [m EXCEPT !.phase = p, !.of = of, !.reply = what] \in Mutation
<1>1. ASSUME NEW n \in Mutation
      PROVE  [n EXCEPT !.reply = what] \in Mutation /\ [n EXCEPT !.of = of] \in Mutation
  BY DEF Mutation
<1>2. /\ [m EXCEPT !.phase = p, !.reply = what]
            = [[m EXCEPT !.phase = p] EXCEPT !.reply = what]
      /\ [m EXCEPT !.phase = p, !.reply = what, !.of = of]
            = [[[m EXCEPT !.phase = p] EXCEPT !.reply = what] EXCEPT !.of = of]
      /\ [m EXCEPT !.phase = p, !.of = of, !.reply = what]
            = [[[m EXCEPT !.phase = p] EXCEPT !.of = of] EXCEPT !.reply = what]
  OBVIOUS
<1> QED
  BY <1>1, <1>2, MovedType

LEMMA SentType ==
    ASSUME NEW m \in Mutation, NEW k \in Key \cup {NoKey}, NEW s \in Session \cup {None},
           NEW b \in BOOLEAN
    PROVE  [m EXCEPT !.phase = "sent", !.key = k, !.session = s, !.late = b] \in Mutation
<1>1. ASSUME NEW n \in Mutation
      PROVE  /\ [n EXCEPT !.key = k] \in Mutation /\ [n EXCEPT !.session = s] \in Mutation
             /\ [n EXCEPT !.late = b] \in Mutation
  BY DEF Mutation
<1>2. [m EXCEPT !.phase = "sent", !.key = k, !.session = s, !.late = b]
        = [[[[m EXCEPT !.phase = "sent"] EXCEPT !.key = k] EXCEPT !.session = s]
              EXCEPT !.late = b]
  OBVIOUS
<1>3. [m EXCEPT !.phase = "sent"] \in Mutation
  BY MovedType DEF Phases
<1> QED
  BY <1>1, <1>2, <1>3

\* A request that runs was let in for a session.
LetIn == \A r \in Request : Running(r) => reqs[r].session \in Session

LEMMA OneType ==
    ASSUME TypeOK, NEW r \in Request, NEW m \in Mutation
    PROVE  [reqs EXCEPT ![r] = m] \in [Request -> Mutation]
  BY DEF TypeOK

LEMMA SigningInType ==
    ASSUME TypeOK, SigningIn PROVE TypeOK' /\ UNCHANGED <<rows, reqs, ran, adrift>>
  BY DEF SigningIn, TypeOK, Running, AuthRequestExpires, LogoutAnswered, StartLogin, Callback,
         LoginFails, LoginCompletes, Swept, Expire, Logout

LEMMA MutatingLetIn ==
    ASSUME TypeOK, Mutating PROVE LetIn'
<1>0. reqs \in [Request -> Mutation] /\ LetIn
      /\ \A r \in Request : reqs[r].session \in Session \cup {None}
  BY DEF TypeOK, LetIn, Mutation
<1>1. ASSUME NEW r \in Request, NEW m, reqs' = [reqs EXCEPT ![r] = m],
             m.phase \in {"admitted", "reserved", "done", "threw", "refused"} =>
                m.session \in Session
      PROVE LetIn'
  BY <1>0, <1>1 DEF LetIn, Running
<1>2. ASSUME NEW r \in Request, NEW k \in Key \cup {NoKey}, Send(r, k) PROVE LetIn'
  BY <1>1, <1>2, UnsentType DEF Send, Mutation
<1>3. ASSUME NEW r \in Request, NEW sweep \in BOOLEAN, Admit(r, sweep) PROVE LetIn'
  <2>1. reqs' = [reqs EXCEPT ![r] = [reqs[r] EXCEPT !.phase =
            IF reqs[r].session # None /\ sessions[reqs[r].session] = "live"
            THEN "admitted" ELSE "rejected"]]
    BY <1>0, <1>3 DEF Admit
  <2>2. reqs[r].session # None => reqs[r].session \in Session
    BY <1>0
  <2> DEFINE m == [reqs[r] EXCEPT !.phase =
            IF reqs[r].session # None /\ sessions[reqs[r].session] = "live"
            THEN "admitted" ELSE "rejected"]
  <2>3. m.session = reqs[r].session /\ (reqs[r].session = None => m.phase = "rejected")
    BY <1>0 DEF Mutation
  <2>4. reqs' = [reqs EXCEPT ![r] = m]
    BY <2>1
  <2> HIDE DEF m
  <2> QED
    BY <1>1, <2>2, <2>3, <2>4
<1>4. ASSUME NEW r \in Request, Unauthenticated(r) \/ Reserve(r) \/ Answer(r) PROVE LetIn'
  <2>1. CASE Unauthenticated(r)
    BY <1>0, <1>1, <2>1 DEF Unauthenticated, Mutation
  <2>2. CASE Reserve(r)
    BY <1>0, <1>1, <2>2 DEF Reserve, Reply, Mutation, LetIn, Running
  <2>3. CASE Answer(r)
    <3> DEFINE m == [reqs[r] EXCEPT !.phase = "answered", !.of = r,
                       !.reply = IF reqs[r].phase = "done" THEN "ok" ELSE "error"]
    <3>1. reqs' = [reqs EXCEPT ![r] = m]
      BY <1>0, <2>3 DEF Answer
    <3>2. m.phase = "answered"
      BY <1>0 DEF Mutation
    <3> HIDE DEF m
    <3> QED
      BY <1>1, <3>1, <3>2
  <2> QED
    BY <1>4, <2>1, <2>2, <2>3
<1>5. ASSUME NEW r \in Request, PassKeyless(r) \/ Handle(r) \/ HandleReset(r) PROVE LetIn'
  <2>1. PICK m : /\ reqs' = [reqs EXCEPT ![r] = m]
                 /\ m.session = reqs[r].session /\ reqs[r].session \in Session
    BY <1>0, <1>5 DEF PassKeyless, Handle, HandleReset, LetIn, Running, Mutation
  <2> QED
    BY <1>1, <2>1
<1>6. CASE Crash
  BY <1>0, <1>6 DEF Crash, LetIn, Running, Mutation
<1>7. CASE DayPasses
  BY <1>0, <1>7 DEF DayPasses, LetIn, Running
<1> QED
  BY <1>2, <1>3, <1>4, <1>5, <1>6, <1>7 DEF Mutating

LEMMA MutatingType ==
    ASSUME TypeOK, Mutating PROVE TypeOK'
<1>10. LetIn'
  BY MutatingLetIn
<1>0. /\ reqs \in [Request -> Mutation] /\ Rows(rows) /\ ran \in [Slot -> SUBSET Request]
      /\ \A r \in Request : /\ reqs[r].session \in Session \cup {None}
                            /\ reqs[r].key \in Key \cup {NoKey}
  BY DEF TypeOK, Rows, Slot, Mutation
<1>1. ASSUME NEW r \in Request, NEW k \in Key \cup {NoKey}, Send(r, k) PROVE TypeOK'
  <2>1. [Unsent EXCEPT !.phase = "sent", !.key = k, !.session = cookie,
                       !.late = (cookie \in out)] \in Mutation
    <3>1. (cookie \in out) \in BOOLEAN /\ cookie \in Session \cup {None}
      BY DEF TypeOK
    <3> QED
      BY <3>1, SentType, UnsentType
  <2> QED
    BY <1>10, <1>1, <2>1, OneType DEF Send, TypeOK, LetIn
<1>2. ASSUME NEW r \in Request, NEW sweep \in BOOLEAN, Admit(r, sweep) PROVE TypeOK'
  <2>1. reqs' \in [Request -> Mutation]
    BY <1>0, <1>2, MovedType DEF Admit, Phases
  <2>2. sessions' \in [Session -> {"new", "live", "past", "gone"}]
    BY <1>2 DEF Admit, TypeOK, Swept
  <2> QED
    BY <1>10, <1>2, <2>1, <2>2 DEF Admit, TypeOK, LetIn
<1>3. ASSUME NEW r \in Request, Unauthenticated(r) PROVE TypeOK'
  <2>1. reqs' \in [Request -> Mutation]
    BY <1>0, <1>3, RepliedType DEF Unauthenticated, Phases
  <2>2. Rows(rows') /\ ran' \in [Slot -> SUBSET Request]
    BY <1>0, <1>3, CleanUpType DEF Unauthenticated
  <2> QED
    BY <1>10, <1>3, <2>1, <2>2 DEF Unauthenticated, TypeOK, Rows, Slot, LetIn
<1>4. ASSUME NEW r \in Request, Reserve(r) PROVE TypeOK'
  <2>1. CASE /\ rows' = [rows EXCEPT ![StorageKey(r)] =
                            [state |-> "pending", of |-> r, old |-> FALSE]]
             /\ reqs' = [reqs EXCEPT ![r] = [@ EXCEPT !.phase = "reserved", !.owns = TRUE]]
             /\ UNCHANGED <<sessions, cookie, authCookie, logins, leaving, out, ran, adrift>>
    <3>1. reqs' \in [Request -> Mutation]
      BY <1>0, <2>1, OwningType DEF Phases
    <3>2. Rows(rows')
      BY <1>0, <2>1, RequestsAssumption DEF Rows, Row
    <3> QED
      BY <1>10, <2>1, <3>1, <3>2 DEF TypeOK, Rows, Slot, LetIn
  <2>2. ASSUME NEW what \in {"ok", "conflict"}, NEW of \in Request \cup {None},
               Reply(r, what, of)
        PROVE TypeOK'
    <3>1. reqs' \in [Request -> Mutation]
      BY <1>0, <2>2, RepliedType DEF Reply, Phases
    <3>2. Rows(rows') /\ ran' \in [Slot -> SUBSET Request]
      BY <1>0, <2>2, CleanUpType DEF Reply
    <3> QED
      BY <1>10, <2>2, <3>1, <3>2 DEF Reply, TypeOK, Rows, Slot, LetIn
  <2>3. CASE rows[StorageKey(r)].state = "stored" /\ Reply(r, "ok", rows[StorageKey(r)].of)
    <3>1. rows[StorageKey(r)] \in Row
      <4>1. reqs[r].session \in Session
        BY <1>4 DEF Reserve, TypeOK, Running
      <4> QED
        BY <1>0, <1>4, <4>1 DEF Reserve, StorageKey, Rows, Slot
    <3>2. rows[StorageKey(r)].of \in Request \cup {None}
      BY <3>1 DEF Row
    <3> QED
      BY <2>2, <2>3, <3>2
  <2> QED
    BY <1>4, <2>1, <2>2, <2>3 DEF Reserve
<1>5. ASSUME NEW r \in Request, PassKeyless(r) PROVE TypeOK'
  BY <1>10, <1>0, <1>5, MovedType DEF PassKeyless, TypeOK, Phases, LetIn
<1>6. ASSUME NEW r \in Request, Handle(r) PROVE TypeOK'
  <2>1. reqs' \in [Request -> Mutation]
    <3>1. /\ [reqs[r] EXCEPT !.phase = "done", !.effect = TRUE] \in Mutation
          /\ [reqs[r] EXCEPT !.phase = "threw", !.effect = TRUE] \in Mutation
          /\ [reqs[r] EXCEPT !.phase = "refused"] \in Mutation
      BY <1>0, MovedType, EffectiveType DEF Phases
    <3> QED
      BY <1>0, <1>6, <3>1 DEF Handle
  <2>2. ran' \in [Slot -> SUBSET Request]
    BY <1>0, <1>6 DEF Handle, Took
  <2> QED
    BY <1>10, <1>6, <2>1, <2>2 DEF Handle, TypeOK, Slot, LetIn
<1>7. ASSUME NEW r \in Request, Answer(r) PROVE TypeOK'
  <2>1. reqs' \in [Request -> Mutation]
    BY <1>0, <1>7, RepliedType DEF Answer, Phases
  <2>2. Rows([rows EXCEPT ![StorageKey(r)] = Settled(r)])
    BY <1>0, NoRowType, RequestsAssumption DEF Rows, Row, Settled
  <2>3. Rows(rows') /\ ran' \in [Slot -> SUBSET Request]
    BY <1>0, <1>7, <2>2, CleanUpType DEF Answer
  <2>4. adrift' \subseteq Request
    <3>1. CASE reqs[r].key \in Key
      <4>1. rows[StorageKey(r)].of \in Request \cup {None}
        <5>1. reqs[r].session \in Session
          BY <1>7 DEF Answer, TypeOK, Running
        <5> QED
          BY <1>0, <3>1, <5>1 DEF StorageKey, Rows, Slot, Row
      <4> QED
        BY <1>7, <3>1, <4>1 DEF Answer, TypeOK
    <3>2. CASE reqs[r].key \notin Key
      BY <1>7, <3>2 DEF Answer, TypeOK
    <3> QED
      BY <3>1, <3>2
  <2> QED
    BY <1>10, <1>7, <2>1, <2>3, <2>4 DEF Answer, TypeOK, Rows, Slot, LetIn
<1>8. CASE Crash
  <2>1. reqs' \in [Request -> Mutation]
    BY <1>0, <1>8, MovedType DEF Crash, Phases
  <2> QED
    BY <1>10, <1>8, <2>1 DEF Crash, TypeOK, LetIn
<1>9. CASE DayPasses
  <2>1. Rows(rows')
    BY <1>0, <1>9 DEF DayPasses, Rows, Row, Slot
  <2> QED
    BY <1>10, <1>9, <2>1 DEF DayPasses, TypeOK, Rows, Slot, LetIn
<1>11. ASSUME NEW r \in Request, HandleReset(r) PROVE TypeOK'
  <2>1. reqs' \in [Request -> Mutation]
    BY <1>0, <1>11, EffectiveType DEF HandleReset, Phases
  <2>2. Rows(rows') /\ ran' \in [Slot -> SUBSET Request] /\ adrift' \subseteq Request
    BY <1>11, NoRowType DEF HandleReset, Rows, Slot, TypeOK
  <2> QED
    BY <1>10, <1>11, <2>1, <2>2 DEF HandleReset, TypeOK, Rows, Slot, LetIn
<1> QED
  BY <1>1, <1>2, <1>3, <1>4, <1>5, <1>6, <1>7, <1>8, <1>9, <1>11 DEF Mutating

\* The sessions, the reservations and the requests only ever hold what their columns allow.
THEOREM Typing == Spec => []TypeOK
<1>1. Init => TypeOK
  <2> SUFFICES ASSUME Init PROVE TypeOK
    OBVIOUS
  <2>1. rows \in [Session \X Key -> Row]
        /\ \A i \in Session \X Key : rows[i].state = "absent" <=> rows[i].of = None
    BY NoRowType DEF Init
  <2>2. reqs \in [Request -> Mutation] /\ ran \in [Session \X Key -> SUBSET Request]
    BY UnsentType DEF Init
  <2> QED
    BY <2>1, <2>2 DEF Init, TypeOK, Running, Unsent
<1>2. TypeOK /\ [Next]_vars => TypeOK'
  <2>1. TypeOK /\ UNCHANGED vars => TypeOK'
    BY DEF TypeOK, vars, Running
  <2> QED
    BY <2>1, SigningInType, MutatingType DEF Next
<1> QED
  BY <1>1, <1>2, PTL DEF Spec

-----------------------------------------------------------------------------
(* The invariant.                                                           *)

\* What the type invariant gives of a request and its slot.
LEMMA Fields ==
    ASSUME TypeOK
    PROVE  /\ reqs \in [Request -> Mutation] /\ rows \in [Slot -> Row]
           /\ ran \in [Slot -> SUBSET Request]
           /\ \A r \in Request : Running(r) /\ reqs[r].key \in Key => StorageKey(r) \in Slot
           /\ \A i \in Slot : rows[i].state = "absent" => rows[i].of = None
           /\ \A i \in Slot : rows[i].state \in {"absent", "pending", "stored"}
           /\ None \notin Request
  BY RequestsAssumption DEF TypeOK, Slot, StorageKey, Row

\* A step that changes one request m and no row: nothing names a request that neither
\* reserved a row nor took effect, so such a request may change its session and key.
LEMMA OneRequest ==
    ASSUME TypeOK, Inv, NEW r \in Request, UNCHANGED <<rows, ran, adrift>>,
           reqs[r].reply = "none",
           \A q \in Request : q # r => reqs'[q] = reqs[q],
           reqs[r].owns \/ reqs[r].effect =>
              reqs'[r].session = reqs[r].session /\ reqs'[r].key = reqs[r].key,
           reqs[r].effect => reqs'[r].effect,
           reqs[r].owns /\ reqs[r].phase \in Holding \cup {"lost"} =>
              reqs'[r].owns /\ reqs'[r].phase \in Holding \cup {"lost"},
           RequestTrue(r)'
    PROVE  Inv'
<1>1. ASSUME NEW i \in Slot PROVE RowTrue(i)'
  <2>1. RowTrue(i) /\ rows'[i] = rows[i] /\ ran'[i] = ran[i] /\ adrift' = adrift
    BY DEF Inv
  <2>3. ran'[i] \subseteq Request
    BY <2>1, Fields
  <2>4. \A q \in ran'[i] : Excused(q)' \/ q = rows'[i].of
    BY <2>1, <2>3 DEF RowTrue, Excused
  <2> QED
    BY <2>1, <2>4 DEF RowTrue, StorageKey
<1>2. ASSUME NEW q \in Request, q # r PROVE RequestTrue(q)'
  <2>1. RequestTrue(q) /\ reqs'[q] = reqs[q] /\ UNCHANGED <<rows, ran, adrift>>
    BY <1>2 DEF Inv
  <2>2. reqs[q].reply = "ok" =>
           /\ reqs[q].of \in Request /\ reqs'[reqs[q].of].effect
           /\ StorageKey(reqs[q].of)' = StorageKey(reqs[q].of)
    BY <2>1 DEF RequestTrue, StorageKey
  <2> QED
    BY <2>1, <2>2 DEF RequestTrue, StorageKey
<1> QED
  BY <1>1, <1>2 DEF Inv

LEMMA SendInv ==
    ASSUME TypeOK, Inv, NEW r \in Request, NEW k \in Key \cup {NoKey}, Send(r, k) PROVE Inv'
<1>1. /\ reqs'[r].phase = "sent" /\ reqs'[r].reply = "none"
      /\ ~reqs'[r].owns /\ ~reqs'[r].effect
  BY Fields DEF Send, Unsent
<1>2. ~reqs[r].owns /\ ~reqs[r].effect /\ reqs[r].reply = "none" /\ UNCHANGED <<rows, ran, adrift>>
  BY DEF Send, Inv, RequestTrue, Early
<1>3. \A i \in Slot : r \notin ran[i]
  BY <1>2 DEF Inv, RequestTrue
<1>4. \A q \in Request : q # r => reqs'[q] = reqs[q]
  BY Fields DEF Send
<1>5. RequestTrue(r)'
  BY <1>1, <1>2, <1>3 DEF RequestTrue, Holding
<1> QED
  BY <1>2, <1>4, <1>5, OneRequest

LEMMA AdmitInv ==
    ASSUME TypeOK, Inv, NEW r \in Request, NEW sweep \in BOOLEAN, Admit(r, sweep) PROVE Inv'
<1>1. /\ reqs'[r].phase \in {"admitted", "rejected"} /\ reqs'[r].reply = reqs[r].reply
      /\ reqs'[r].owns = reqs[r].owns /\ reqs'[r].effect = reqs[r].effect
      /\ UNCHANGED <<rows, ran, adrift>> /\ reqs[r].phase = "sent"
      /\ \A q \in Request : q # r => reqs'[q] = reqs[q]
  BY Fields DEF Admit, Mutation
<1>2. ~reqs[r].owns /\ ~reqs[r].effect /\ reqs[r].reply = "none"
  BY <1>1 DEF Inv, RequestTrue, Early
<1>3. RequestTrue(r)'
  BY <1>1, <1>2 DEF RequestTrue, Holding, Inv
<1> QED
  BY <1>1, <1>2, <1>3, OneRequest

LEMMA PassKeylessInv ==
    ASSUME TypeOK, Inv, NEW r \in Request, PassKeyless(r) PROVE Inv'
<1>1. /\ reqs'[r].phase = "reserved" /\ reqs'[r].reply = reqs[r].reply
      /\ reqs'[r].owns = reqs[r].owns /\ reqs'[r].effect = reqs[r].effect
      /\ reqs'[r].key = NoKey
      /\ UNCHANGED <<rows, ran, adrift>> /\ reqs[r].phase = "admitted"
      /\ \A q \in Request : q # r => reqs'[q] = reqs[q]
  BY Fields DEF PassKeyless, Mutation
<1>2. ~reqs[r].owns /\ ~reqs[r].effect /\ reqs[r].reply = "none"
  BY <1>1 DEF Inv, RequestTrue, Early
<1>3. RequestTrue(r)'
  BY <1>1, <1>2, RequestsAssumption DEF RequestTrue, Holding, Inv
<1> QED
  BY <1>1, <1>2, <1>3, OneRequest

LEMMA HandleInv ==
    ASSUME TypeOK, Inv, NEW r \in Request, Handle(r) PROVE Inv'
<1>1. /\ reqs[r].phase = "reserved" /\ UNCHANGED <<rows, adrift>>
      /\ \A q \in Request : q # r => reqs'[q] = reqs[q]
      /\ reqs'[r].owns = reqs[r].owns /\ reqs'[r].key = reqs[r].key
      /\ reqs'[r].session = reqs[r].session /\ reqs'[r].reply = reqs[r].reply
      /\ \/ reqs'[r].phase \in {"done", "threw"} /\ reqs'[r].effect /\ ran' = Took(r)
         \/ reqs'[r].phase = "refused" /\ reqs'[r].effect = reqs[r].effect /\ ran' = ran
  <2>0. reqs \in [Request -> Mutation] /\ reqs[r] \in Mutation
    BY Fields
  <2>1. CASE /\ reqs' = [reqs EXCEPT ![r] = [@ EXCEPT !.phase = "done", !.effect = TRUE]]
             /\ ran' = Took(r)
    BY <2>0, <2>1 DEF Handle, Mutation
  <2>2. CASE /\ reqs' = [reqs EXCEPT ![r] = [@ EXCEPT !.phase = "threw", !.effect = TRUE]]
             /\ ran' = Took(r)
    BY <2>0, <2>2 DEF Handle, Mutation
  <2>3. CASE reqs' = [reqs EXCEPT ![r].phase = "refused"] /\ UNCHANGED ran
    BY <2>0, <2>3 DEF Handle, Mutation
  <2> QED
    BY <2>1, <2>2, <2>3 DEF Handle
<1>2. /\ ~reqs[r].effect /\ reqs[r].reply = "none"
      /\ reqs[r].owns => reqs[r].key \in Key
      /\ reqs[r].key \in Key =>
            /\ reqs[r].owns /\ StorageKey(r) \in Slot
            /\ \/ r \in adrift
               \/ rows[StorageKey(r)] = [state |-> "pending", of |-> r, old |-> FALSE]
  <2>1. RequestTrue(r) /\ Running(r)
    BY <1>1 DEF Inv, Running
  <2>2. reqs[r].key \in Key => StorageKey(r) \in Slot
    BY <2>1, Fields
  <2> QED
    BY <1>1, <2>1, <2>2 DEF RequestTrue, Early, Holding
<1>3. \A i \in Slot :
         \/ ran'[i] = ran[i]
         \/ /\ i = StorageKey(r) /\ ran'[i] = ran[i] \cup {r} /\ reqs[r].owns
            /\ reqs'[r].effect
  <2>1. CASE reqs'[r].effect /\ ran' = Took(r)
    BY <2>1, Fields DEF Took
  <2> QED
    BY <1>1, <2>1
<1>6. \A q \in Request : /\ StorageKey(q)' = StorageKey(q) /\ (Excused(q) => Excused(q)')
                         /\ (reqs[q].effect => reqs'[q].effect)
  BY <1>1, <1>2 DEF StorageKey, Excused
<1>4. ASSUME NEW i \in Slot PROVE RowTrue(i)'
  <2>1. RowTrue(i) /\ ran[i] \subseteq Request /\ rows'[i] = rows[i]
    BY <1>1, Fields DEF Inv
  <2>2. ASSUME NEW q \in ran'[i] PROVE Excused(q)' \/ q = rows'[i].of
    <3>1. CASE q \in ran[i]
      BY <1>6, <2>1, <3>1 DEF RowTrue
    <3>2. CASE q \notin ran[i]
      <4>1. i = StorageKey(r) /\ reqs[r].owns /\ q = r
        BY <1>3, <2>2, <3>2
      <4>2. r \in adrift \/ rows[i].of = r
        BY <1>2, <4>1
      <4> QED
        BY <1>1, <2>1, <4>1, <4>2 DEF Excused
    <3> QED
      BY <3>1, <3>2
  <2>3. /\ reqs[r].phase \in Holding /\ reqs'[r].phase \in Holding
        /\ \A q \in Request : reqs'[q].owns = reqs[q].owns
    BY <1>1 DEF Holding
  <2>4. \A q \in Request : reqs[q].phase \in Holding \cup {"lost"} =>
                           reqs'[q].phase \in Holding \cup {"lost"}
    BY <1>1, <2>3
  <2> QED
    BY <1>6, <2>1, <2>2, <2>3, <2>4 DEF RowTrue
<1>5. ASSUME NEW q \in Request PROVE RequestTrue(q)'
  <2>1. \A i \in Slot : q \in ran'[i] => reqs'[q].effect
    <3>1. \A i \in Slot : q \in ran[i] => q # r /\ reqs[q].effect
      BY <1>2 DEF Inv, RequestTrue
    <3> QED
      BY <1>1, <1>3, <3>1
  <2>2. CASE q = r
    <3>1. StorageKey(r)' = StorageKey(r)
      BY <1>6
    <3>2. reqs'[r].phase \in {"done", "threw", "refused"} /\ reqs'[r].reply = "none"
      BY <1>1, <1>2
    <3>3. reqs'[r].phase = "refused" => ~reqs'[r].effect
      BY <1>1, <1>2
    <3>4. reqs'[r].phase \in {"done", "threw"} => reqs'[r].effect
      BY <1>1
    <3> QED
      BY <1>1, <1>2, <2>1, <2>2, <3>1, <3>2, <3>3, <3>4 DEF RequestTrue, Holding, Early
  <2>3. CASE q # r
    <3>1. RequestTrue(q) /\ reqs'[q] = reqs[q]
      BY <1>1, <2>3 DEF Inv
    <3>2. reqs[q].reply = "ok" =>
             reqs'[reqs[q].of].effect /\ StorageKey(reqs[q].of)' = StorageKey(reqs[q].of)
      BY <1>6, <3>1 DEF RequestTrue
    <3>3. StorageKey(q)' = StorageKey(q) /\ UNCHANGED <<rows, adrift>>
      BY <1>1, <1>6
    <3> QED
      BY <2>1, <3>1, <3>2, <3>3 DEF RequestTrue
  <2> QED
    BY <2>2, <2>3
<1> QED
  BY <1>4, <1>5 DEF Inv

\* What the clean-up of a table leaves: a row that is not a day old, or none.
LEMMA CleanUpFacts ==
    ASSUME NEW table, table \in [Slot -> Row], CleanUp(table)
    PROVE  \A i \in Slot :
              \/ rows'[i] = table[i] /\ ran'[i] = ran[i] /\ ~table[i].old
              \/ rows'[i] = NoRow /\ ran'[i] = {} /\ table[i].old
  BY DEF CleanUp, Cleaned, Slot, Row

\* A step that answers r, whose row is not its own, and cleans up.
LEMMA AnsweredInv ==
    ASSUME TypeOK, Inv, NEW r \in Request, CleanUp(rows) \/ UNCHANGED <<rows, ran>>,
           \A q \in Request : q # r => reqs'[q] = reqs[q],
           ~reqs[r].owns, reqs[r].reply = "none", UNCHANGED adrift,
           reqs'[r].owns = reqs[r].owns, reqs'[r].effect = reqs[r].effect,
           reqs'[r].session = reqs[r].session, reqs'[r].key = reqs[r].key,
           reqs'[r].phase = "answered",
           reqs'[r].reply = "ok" =>
              /\ reqs'[r].of \in Request /\ reqs[reqs'[r].of].effect
              /\ StorageKey(reqs'[r].of) = StorageKey(r)
    PROVE  Inv'
<1>1. \A i \in Slot : \/ rows'[i] = rows[i] /\ ran'[i] = ran[i]
                      \/ rows'[i] = NoRow /\ ran'[i] = {} /\ rows[i].old
  BY Fields, CleanUpFacts
<1>2. \A q \in Request : /\ StorageKey(q)' = StorageKey(q) /\ reqs'[q].effect = reqs[q].effect
                         /\ reqs'[q].owns = reqs[q].owns
  BY DEF StorageKey
<1>3. ASSUME NEW i \in Slot PROVE RowTrue(i)'
  <2>1. CASE rows'[i] = rows[i] /\ ran'[i] = ran[i]
    <3>1. /\ RowTrue(i) /\ ran[i] \subseteq Request /\ adrift' = adrift
          /\ \A q \in Request : reqs[q].reply = "error" => reqs'[q].reply = "error"
      BY Fields DEF Inv
    <3>2. \A q \in ran'[i] : Excused(q)' \/ q = rows'[i].of
      BY <2>1, <3>1 DEF RowTrue, Excused
    <3>3. rows[i].state = "pending" => rows[i].of # r
      BY <3>1 DEF RowTrue
    <3> QED
      BY <1>2, <2>1, <3>1, <3>2, <3>3 DEF RowTrue
  <2>2. CASE rows'[i] = NoRow /\ ran'[i] = {}
    BY <2>2 DEF RowTrue, NoRow
  <2> QED
    BY <1>1, <2>1, <2>2
<1>4. ASSUME NEW q \in Request PROVE RequestTrue(q)'
  <2>1. /\ \A i \in Slot : q \in ran'[i] => reqs'[q].effect
        /\ reqs'[q].owns => reqs'[q].key \in Key
    BY <1>1, <1>2 DEF Inv, RequestTrue
  <2>2. CASE q = r
    BY <1>2, <2>1, <2>2 DEF RequestTrue, Early, Holding
  <2>3. CASE q # r
    <3>1. RequestTrue(q) /\ reqs'[q] = reqs[q]
      BY <2>3 DEF Inv
    <3>2. ASSUME reqs[q].phase \in Holding, reqs[q].key \in Key, q \notin adrift
          PROVE  rows'[StorageKey(q)] = rows[StorageKey(q)]
      <4>1. StorageKey(q) \in Slot
        BY <3>2, Fields DEF Running, Holding
      <4>2. ~rows[StorageKey(q)].old
        BY <3>1, <3>2 DEF RequestTrue
      <4> QED
        BY <1>1, <4>1, <4>2
    <3> QED
      BY <1>2, <2>1, <3>1, <3>2 DEF RequestTrue
  <2> QED
    BY <2>2, <2>3
<1> QED
  BY <1>3, <1>4 DEF Inv

LEMMA UnauthenticatedInv ==
    ASSUME TypeOK, Inv, NEW r \in Request, Unauthenticated(r) PROVE Inv'
<1>1. /\ reqs[r].phase = "rejected" /\ \A q \in Request : q # r => reqs'[q] = reqs[q]
      /\ reqs'[r].owns = reqs[r].owns /\ reqs'[r].effect = reqs[r].effect
      /\ reqs'[r].session = reqs[r].session /\ reqs'[r].key = reqs[r].key
      /\ reqs'[r].phase = "answered" /\ reqs'[r].reply = "unauthenticated"
      /\ CleanUp(rows) \/ UNCHANGED <<rows, ran>>
  BY Fields DEF Unauthenticated, Mutation
<1>2. ~reqs[r].owns /\ reqs[r].reply = "none" /\ UNCHANGED adrift
  BY <1>1 DEF Inv, RequestTrue, Unauthenticated
<1> QED
  BY <1>1, <1>2, AnsweredInv

LEMMA ReserveInv ==
    ASSUME TypeOK, Inv, NEW r \in Request, Reserve(r) PROVE Inv'
<1>1. /\ reqs[r].phase = "admitted" /\ reqs[r].key \in Key /\ StorageKey(r) \in Slot
      /\ ~reqs[r].owns /\ ~reqs[r].effect /\ reqs[r].reply = "none"
      /\ \A i \in Slot : r \notin ran[i]
  <2>1. reqs[r].phase = "admitted" /\ reqs[r].key \in Key /\ RequestTrue(r)
    BY DEF Reserve, Inv
  <2>2. StorageKey(r) \in Slot
    BY <2>1, Fields DEF Running
  <2> QED
    BY <2>1, <2>2 DEF RequestTrue, Early
<1>2. ASSUME NEW what \in {"ok", "conflict"}, NEW of, Reply(r, what, of),
             what = "ok" => rows[StorageKey(r)].state = "stored" /\ of = rows[StorageKey(r)].of
      PROVE Inv'
  <2>1. /\ \A q \in Request : q # r => reqs'[q] = reqs[q]
        /\ reqs'[r].owns = reqs[r].owns /\ reqs'[r].effect = reqs[r].effect
        /\ reqs'[r].session = reqs[r].session /\ reqs'[r].key = reqs[r].key
        /\ reqs'[r].phase = "answered" /\ reqs'[r].reply = what /\ reqs'[r].of = of
    BY <1>2, Fields DEF Reply, Mutation
  <2>2. CleanUp(rows) /\ UNCHANGED adrift
    BY <1>2 DEF Reply
  <2>3. what = "ok" => /\ of \in Request /\ reqs[of].effect /\ StorageKey(of) = StorageKey(r)
    BY <1>1, <1>2 DEF Inv, RowTrue
  <2> QED
    BY <1>1, <2>1, <2>2, <2>3, AnsweredInv
<1>3. CASE /\ rows[StorageKey(r)].state = "absent"
           /\ rows' = [rows EXCEPT ![StorageKey(r)] =
                          [state |-> "pending", of |-> r, old |-> FALSE]]
           /\ reqs' = [reqs EXCEPT ![r] = [@ EXCEPT !.phase = "reserved", !.owns = TRUE]]
           /\ UNCHANGED <<ran, adrift>>
  <2>1. /\ \A q \in Request : q # r => reqs'[q] = reqs[q]
        /\ reqs'[r].owns /\ reqs'[r].effect = reqs[r].effect
        /\ reqs'[r].session = reqs[r].session /\ reqs'[r].key = reqs[r].key
        /\ reqs'[r].phase = "reserved" /\ reqs'[r].reply = reqs[r].reply
    BY <1>3, Fields DEF Mutation
  <2>0. /\ ran' = ran /\ adrift' = adrift /\ rows[StorageKey(r)].state = "absent"
    BY <1>3
  <2>2. /\ rows'[StorageKey(r)] = [state |-> "pending", of |-> r, old |-> FALSE]
        /\ \A i \in Slot : i # StorageKey(r) => rows'[i] = rows[i]
    BY <1>1, <1>3, Fields
  <2>3. \A q \in Request : StorageKey(q)' = StorageKey(q)
    BY <2>1 DEF StorageKey
  <2>4. \A i \in Slot : RowTrue(i)
    BY DEF Inv
  <2>8. /\ \A i \in Slot : ran[i] \subseteq Request
        /\ \A i \in Slot : rows[i].state = "absent" => rows[i].of = None
    BY Fields
  <2>7. ASSUME NEW i \in Slot, NEW q \in ran'[i] PROVE Excused(q)' \/ q = rows[i].of
    <3>1. q \in Request /\ q \in ran[i]
      BY <2>0, <2>8
    <3>2. Excused(q) => Excused(q)'
      BY <2>0, <2>1, <3>1 DEF Excused
    <3>3. Excused(q) \/ q = rows[i].of
      <4>1. RowTrue(i)
        BY <2>4
      <4> QED
        BY <3>1, <4>1 DEF RowTrue
    <3> QED
      BY <3>2, <3>3
  <2>9. None \notin Request
    BY RequestsAssumption
  <2>5. ASSUME NEW i \in Slot PROVE RowTrue(i)'
    <3>1. CASE i = StorageKey(r)
      <4>1. ASSUME NEW q \in ran'[i] PROVE Excused(q)'
        <5>1. q \in Request /\ rows[i].of = None
          BY <2>0, <2>8, <3>1
        <5> QED
          BY <2>7, <2>9, <5>1
      <4>2. rows'[i].state = "pending" /\ rows'[i].of = r
        BY <2>2, <3>1
      <4>3. /\ reqs'[rows'[i].of].owns /\ reqs'[rows'[i].of].phase \in Holding
            /\ StorageKey(rows[i].of)' = i
        <5>1. StorageKey(r)' = i
          BY <2>3, <3>1
        <5> QED
          BY <2>1, <4>2, <5>1 DEF Holding, StorageKey
      <4> QED
        BY <4>1, <4>2, <4>3 DEF RowTrue
    <3>2. CASE i # StorageKey(r)
      <4>1. rows'[i] = rows[i] /\ ran'[i] = ran[i] /\ RowTrue(i)
        BY <2>0, <2>2, <3>2 DEF Inv
      <4>2. rows[i].state \in {"pending", "stored"} => rows[i].of # r
        BY <1>1, <4>1 DEF RowTrue
      <4> QED
        BY <2>1, <2>3, <2>7, <4>1, <4>2 DEF RowTrue
    <3> QED
      BY <3>1, <3>2
  <2>6. ASSUME NEW q \in Request PROVE RequestTrue(q)'
    <3>1. CASE q = r
      BY <1>1, <2>0, <2>1, <2>2, <2>3, <3>1 DEF RequestTrue, Early, Holding
    <3>2. CASE q # r
      <4>1. RequestTrue(q) /\ reqs'[q] = reqs[q] /\ ran' = ran /\ adrift' = adrift
        BY <2>0, <2>1, <3>2 DEF Inv
      <4>2. ASSUME reqs[q].phase \in Holding, reqs[q].key \in Key, q \notin adrift
            PROVE  rows'[StorageKey(q)] = rows[StorageKey(q)]
        <5>1. StorageKey(q) \in Slot /\ rows[StorageKey(q)].state = "pending"
          BY <4>1, <4>2, Fields DEF RequestTrue, Running, Holding
        <5> QED
          BY <2>0, <2>2, <5>1
      <4>3. reqs[q].reply = "ok" => reqs'[reqs[q].of].effect
        BY <2>1, <4>1 DEF RequestTrue
      <4> QED
        BY <2>3, <4>1, <4>2, <4>3 DEF RequestTrue
    <3> QED
      BY <3>1, <3>2
  <2> QED
    BY <2>5, <2>6 DEF Inv
<1> QED
  BY <1>2, <1>3 DEF Reserve

LEMMA AnswerInv ==
    ASSUME TypeOK, Inv, NEW r \in Request, Answer(r) PROVE Inv'
<1> DEFINE outcome == IF reqs[r].phase = "done" THEN "ok" ELSE "error"
<1>1. /\ reqs[r].phase \in {"done", "threw", "refused"} /\ reqs[r].reply = "none"
      /\ reqs[r].phase \in {"done", "threw"} => reqs[r].effect
      /\ reqs[r].phase = "refused" => ~reqs[r].effect
      /\ reqs[r].key \in Key =>
            /\ StorageKey(r) \in Slot
            /\ \/ r \in adrift
               \/ rows[StorageKey(r)] = [state |-> "pending", of |-> r, old |-> FALSE]
      /\ reqs[r].owns => reqs[r].key \in Key
  <2>1. reqs[r].phase \in {"done", "threw", "refused"} /\ RequestTrue(r)
    BY DEF Answer, Inv
  <2>2. reqs[r].key \in Key => StorageKey(r) \in Slot
    BY <2>1, Fields DEF Running
  <2> QED
    BY <2>1, <2>2 DEF RequestTrue, Early, Holding
<1>2. /\ \A q \in Request : q # r => reqs'[q] = reqs[q]
      /\ reqs'[r] = [reqs[r] EXCEPT !.phase = "answered", !.of = r, !.reply = outcome]
  BY Fields DEF Answer
<1>3. /\ reqs'[r].owns = reqs[r].owns /\ reqs'[r].effect = reqs[r].effect
      /\ reqs'[r].session = reqs[r].session /\ reqs'[r].key = reqs[r].key
      /\ reqs'[r].phase = "answered" /\ reqs'[r].reply = outcome /\ reqs'[r].of = r
  <2>1. reqs[r] \in Mutation
    BY Fields
  <2> QED
    BY <1>2, <2>1 DEF Mutation
<1>4. \A q \in Request : StorageKey(q)' = StorageKey(q) /\ reqs'[q].effect = reqs[q].effect
  <2> HIDE DEF outcome
  <2>1. \A q \in Request : q # r => reqs'[q] = reqs[q]
    BY <1>2
  <2> QED
    BY <1>3, <2>1 DEF StorageKey
<1>7. outcome = "ok" => reqs[r].phase = "done"
  OBVIOUS
<1>8. reqs[r].phase = "threw" => outcome = "error"
  OBVIOUS
<1>9. \A q \in Request : q # r => reqs'[q] = reqs[q]
  BY <1>2
<1> HIDE DEF outcome
<1>5. CASE reqs[r].key \notin Key
  <2>1. UNCHANGED <<rows, ran, adrift>>
    BY <1>5 DEF Answer
  <2>2. RequestTrue(r)'
    <3>1. \A i \in Slot : r \in ran'[i] => reqs'[r].effect
      BY <1>3, <2>1 DEF Inv, RequestTrue
    <3> QED
      BY <1>1, <1>3, <1>4, <1>5, <1>7, <3>1 DEF RequestTrue, Early, Holding
  <2> QED
    BY <1>1, <1>3, <1>5, <1>9, <2>1, <2>2, OneRequest
<1>6. CASE reqs[r].key \in Key
  <2> DEFINE table == [rows EXCEPT ![StorageKey(r)] = Settled(r)]
  <2>0. Settled(r) \in Row
    BY NoRowType DEF Settled, Row
  <2>1. CleanUp(table) /\ table \in [Slot -> Row]
        /\ adrift' = adrift \cup ({rows[StorageKey(r)].of} \ {r, None})
    BY <1>1, <1>6, <2>0, Fields DEF Answer
  <2>2. \A i \in Slot : \/ rows'[i] = table[i] /\ ran'[i] = ran[i]
                        \/ rows'[i] = NoRow /\ ran'[i] = {} /\ table[i].old
    BY <2>1, CleanUpFacts
  <2>3. table[StorageKey(r)] = Settled(r) /\ ~Settled(r).old
    BY <1>1, <1>6, Fields DEF Settled, NoRow
  <2>4. \A i \in Slot : i # StorageKey(r) => table[i] = rows[i]
    BY Fields
  <2> HIDE DEF table
  <2>5. rows'[StorageKey(r)] = Settled(r) /\ ran'[StorageKey(r)] = ran[StorageKey(r)]
    BY <1>1, <1>6, <2>2, <2>3
  <2>6. \A i \in Slot : i # StorageKey(r) =>
            \/ rows'[i] = rows[i] /\ ran'[i] = ran[i]
            \/ rows'[i] = NoRow /\ ran'[i] = {} /\ rows[i].old
    BY <2>2, <2>4
  <2>9. \A q \in Request : Excused(q) => Excused(q)'
    <3>1. adrift \subseteq adrift'
      BY <2>1
    <3> QED
      BY <1>1, <1>9, <3>1 DEF Excused
  <2>7. ASSUME NEW i \in Slot PROVE RowTrue(i)'
    <3>0. RowTrue(i) /\ ran[i] \subseteq Request /\ None \notin Request
          /\ (r \in ran[i] => reqs[r].effect)
      BY Fields DEF Inv, RequestTrue
    <3>1. CASE i = StorageKey(r)
      <4>1. ASSUME NEW q \in ran'[i] PROVE Excused(q)' \/ q = rows'[i].of
        <5>0. q \in ran[i] /\ q \in Request
          BY <2>5, <3>0, <3>1
        <5>1. CASE Excused(q)
          BY <2>9, <5>0, <5>1
        <5>2. CASE q = rows[i].of /\ q # r
          BY <2>1, <3>0, <3>1, <5>0, <5>2 DEF Excused
        <5>3. CASE q = r /\ rows[i].of = r
          <6>1. reqs[r].phase \in {"done", "threw"}
            BY <1>1, <3>0, <5>0, <5>3
          <6>2. CASE reqs[r].phase = "threw"
            BY <1>3, <1>8, <5>3, <6>2 DEF Excused
          <6>3. CASE reqs[r].phase = "done"
            <7>1. rows[i].state # "absent"
              BY <3>0, <5>0, <5>3, Fields
            <7>2. rows'[i].of = r
              BY <2>5, <3>1, <6>3, <7>1 DEF Settled
            <7> QED
              BY <5>3, <7>2
          <6> QED
            BY <6>1, <6>2, <6>3
        <5> QED
          BY <3>0, <5>0, <5>1, <5>2, <5>3 DEF RowTrue
      <4>2. rows'[i].state # "absent" =>
               /\ rows'[i].state = "stored" /\ rows'[i].of = r /\ reqs[r].phase = "done"
        BY <2>5, <3>1 DEF Settled, NoRow
      <4>3. rows'[i].state = "stored" =>
               /\ rows'[i].of \in Request /\ reqs'[rows'[i].of].effect
               /\ StorageKey(rows[i].of)' = i
        <5>1. StorageKey(r)' = StorageKey(r)
          BY <1>4
        <5> QED
          BY <1>1, <1>3, <3>1, <4>2, <5>1 DEF StorageKey
      <4>4. rows'[i].state # "pending"
        BY <4>2
      <4> QED
        BY <4>1, <4>3, <4>4 DEF RowTrue
    <3>2. CASE i # StorageKey(r) /\ rows'[i] = rows[i] /\ ran'[i] = ran[i]
      <4>2. rows[i].state = "pending" => rows[i].of # r
        BY <3>0, <3>2 DEF RowTrue
      <4>3. ASSUME NEW q \in ran'[i] PROVE Excused(q)' \/ q = rows'[i].of
        BY <2>9, <3>0, <3>2 DEF RowTrue
      <4>4. ASSUME NEW p \in Request, p = rows[i].of
            PROVE  /\ StorageKey(rows[i].of)' = StorageKey(rows[i].of)
                   /\ reqs'[p].effect = reqs[p].effect
                   /\ p # r => reqs'[p] = reqs[p]
        <5>1. StorageKey(p)' = StorageKey(p) /\ p = rows'[i].of
          BY <1>4, <3>2, <4>4
        <5> QED
          BY <1>4, <1>9, <4>4, <5>1 DEF StorageKey
      <4> QED
        BY <3>0, <3>2, <4>2, <4>3, <4>4 DEF RowTrue
    <3>3. CASE rows'[i] = NoRow /\ ran'[i] = {}
      BY <3>3 DEF RowTrue, NoRow
    <3> QED
      BY <2>6, <3>1, <3>2, <3>3
  <2>8. ASSUME NEW q \in Request PROVE RequestTrue(q)'
    <3>0. RequestTrue(q) /\ adrift \subseteq adrift'
      BY <2>1 DEF Inv
    <3>1. \A i \in Slot : q \in ran'[i] => reqs'[q].effect
      BY <1>4, <2>5, <2>6, <3>0 DEF RequestTrue
    <3>2. CASE q = r
      BY <1>1, <1>3, <1>4, <1>6, <1>7, <3>0, <3>1, <3>2 DEF RequestTrue, Early, Holding
    <3>3. CASE q # r
      <4>1. reqs'[q] = reqs[q]
        BY <1>9, <3>3
      <4>2. ASSUME reqs[q].phase \in Holding, reqs[q].key \in Key, q \notin adrift'
            PROVE  rows'[StorageKey(q)] = [state |-> "pending", of |-> q, old |-> FALSE]
        <5>1. /\ StorageKey(q) \in Slot
              /\ rows[StorageKey(q)] = [state |-> "pending", of |-> q, old |-> FALSE]
          BY <3>0, <4>2, Fields DEF RequestTrue, Running, Holding
        <5>2. StorageKey(q) # StorageKey(r)
          <6>1. None \notin Request
            BY Fields
          <6> QED
            BY <2>1, <3>3, <4>2, <5>1, <6>1
        <5> QED
          BY <2>6, <5>1, <5>2
      <4>3. reqs[q].reply = "ok" =>
               /\ reqs[q].of \in Request /\ reqs'[reqs[q].of].effect
               /\ StorageKey(reqs[q].of)' = StorageKey(q)
        <5>1. ASSUME NEW p \in Request, p = reqs[q].of
              PROVE  StorageKey(reqs[q].of)' = StorageKey(p) /\ reqs'[p].effect = reqs[p].effect
          <6>1. StorageKey(p)' = StorageKey(p) /\ reqs'[p].effect = reqs[p].effect
            BY <1>4
          <6> QED
            BY <4>1, <5>1, <6>1 DEF StorageKey
        <5> QED
          BY <3>0, <5>1 DEF RequestTrue
      <4>4. StorageKey(q)' = StorageKey(q)
        BY <1>4
      <4> QED
        BY <3>0, <3>1, <4>1, <4>2, <4>3, <4>4 DEF RequestTrue
    <3> QED
      BY <3>2, <3>3
  <2> QED
    BY <2>7, <2>8 DEF Inv
<1> QED
  BY <1>5, <1>6

\* A reset leaves no row: what held one is adrift.
LEMMA HandleResetInv ==
    ASSUME TypeOK, Inv, NEW r \in Request, HandleReset(r) PROVE Inv'
<1>1. /\ reqs[r].phase = "reserved" /\ \A q \in Request : q # r => reqs'[q] = reqs[q]
      /\ reqs'[r].phase = "done" /\ reqs'[r].effect /\ reqs'[r].owns = reqs[r].owns
      /\ reqs'[r].key = reqs[r].key /\ reqs'[r].session = reqs[r].session
      /\ reqs'[r].reply = reqs[r].reply /\ reqs'[r].of = reqs[r].of
  <2>1. reqs[r] \in Mutation
    BY Fields
  <2> QED
    BY <2>1, Fields DEF HandleReset, Mutation
<1>2. \A q \in Request : StorageKey(q)' = StorageKey(q) /\ (reqs[q].effect => reqs'[q].effect)
  BY <1>1 DEF StorageKey
<1>3. /\ \A i \in Slot : rows'[i] = NoRow /\ ran'[i] \subseteq {r}
      /\ adrift \subseteq adrift'
      /\ \A q \in Request, i \in Slot : rows[i].of = q => q \in adrift'
      /\ \A i \in Slot : r \in ran'[i] => reqs[r].owns
  BY DEF HandleReset, Slot
<1>4. /\ ~reqs[r].effect /\ reqs[r].reply = "none"
      /\ reqs[r].owns => reqs[r].key \in Key
      /\ reqs[r].key \in Key => reqs[r].owns /\ r \in adrift'
  <2>1. RequestTrue(r) /\ Running(r)
    BY <1>1 DEF Inv, Running
  <2>2. reqs[r].key \in Key => StorageKey(r) \in Slot
    BY <2>1, Fields
  <2> QED
    BY <1>1, <1>3, <2>1, <2>2 DEF RequestTrue, Early, Holding
<1>5. ASSUME NEW i \in Slot PROVE RowTrue(i)'
  BY <1>3, <1>4 DEF RowTrue, NoRow, Excused
<1>6. ASSUME NEW q \in Request PROVE RequestTrue(q)'
  <2>1. RequestTrue(q)
    BY DEF Inv
  <2>2. \A i \in Slot : q \in ran'[i] => reqs'[q].effect
    BY <1>1, <1>3
  <2>3. reqs'[q].phase \in Holding /\ reqs'[q].key \in Key => reqs'[q].owns /\ q \in adrift'
    <3>1. CASE q = r
      BY <1>1, <1>4, <3>1
    <3>2. CASE q # r
      <4>1. reqs'[q] = reqs[q]
        BY <1>1, <3>2
      <4>2. reqs[q].phase \in Holding /\ reqs[q].key \in Key => StorageKey(q) \in Slot
        BY Fields DEF Running, Holding
      <4> QED
        BY <1>3, <2>1, <4>1, <4>2 DEF RequestTrue
    <3> QED
      BY <3>1, <3>2
  <2>4. reqs'[q].reply = "ok" =>
           /\ reqs'[q].of \in Request /\ reqs'[reqs'[q].of].effect
           /\ StorageKey(reqs[q].of)' = StorageKey(q)'
    <3>1. reqs'[q].reply = reqs[q].reply /\ reqs'[q].of = reqs[q].of
      BY <1>1
    <3> QED
      <4>1. ASSUME NEW p \in Request, p = reqs[q].of
            PROVE  /\ StorageKey(reqs[q].of)' = StorageKey(p)
                   /\ reqs[p].effect => reqs'[p].effect
        <5>1. StorageKey(p)' = StorageKey(p) /\ (reqs[p].effect => reqs'[p].effect)
          BY <1>2
        <5> QED
          BY <3>1, <4>1, <5>1 DEF StorageKey
      <4>2. StorageKey(q)' = StorageKey(q)
        BY <1>2
      <4> QED
        BY <2>1, <3>1, <4>1, <4>2 DEF RequestTrue
  <2>5. /\ reqs'[q].phase \in Early => ~reqs'[q].effect
        /\ reqs'[q].phase \in {"unsent", "sent", "admitted", "rejected"} => ~reqs'[q].owns
        /\ reqs'[q].phase # "answered" => reqs'[q].reply = "none"
        /\ reqs'[q].phase \in {"done", "threw"} => reqs'[q].effect
        /\ reqs'[q].owns => reqs'[q].key \in Key
    <3>1. CASE q = r
      BY <1>1, <1>4, <3>1 DEF Early
    <3>2. CASE q # r
      <4>1. reqs'[q] = reqs[q]
        BY <1>1, <3>2
      <4> QED
        BY <2>1, <4>1 DEF RequestTrue
    <3> QED
      BY <3>1, <3>2
  <2> QED
    BY <2>2, <2>3, <2>4, <2>5 DEF RequestTrue
<1> QED
  BY <1>5, <1>6 DEF Inv

LEMMA CrashInv == ASSUME TypeOK, Inv, Crash PROVE Inv'
<1>1. /\ UNCHANGED <<rows, ran, adrift>>
      /\ \A q \in Request :
            IF Running(q) THEN reqs'[q] = [reqs[q] EXCEPT !.phase = "lost"]
            ELSE reqs'[q] = reqs[q]
  BY DEF Crash
<1>2. \A q \in Request :
         /\ reqs'[q].phase = IF Running(q) THEN "lost" ELSE reqs[q].phase
         /\ reqs'[q].owns = reqs[q].owns /\ reqs'[q].effect = reqs[q].effect
         /\ reqs'[q].session = reqs[q].session /\ reqs'[q].key = reqs[q].key
         /\ reqs'[q].reply = reqs[q].reply /\ reqs'[q].of = reqs[q].of
  BY <1>1, Fields DEF Mutation
<1>3. \A q \in Request : StorageKey(q)' = StorageKey(q) /\ (Excused(q) => Excused(q)')
  BY <1>1, <1>2 DEF StorageKey, Excused
<1>6. UNCHANGED <<rows, ran, adrift>>
  BY <1>1
<1>4. ASSUME NEW i \in Slot PROVE RowTrue(i)'
  <2>1. RowTrue(i) /\ ran[i] \subseteq Request
    BY Fields DEF Inv
  <2>2. ASSUME NEW q \in ran'[i] PROVE Excused(q)' \/ q = rows'[i].of
    BY <1>3, <1>6, <2>1 DEF RowTrue
  <2> QED
    BY <1>2, <1>3, <1>6, <2>1, <2>2 DEF RowTrue, Holding, Running
<1>5. ASSUME NEW q \in Request PROVE RequestTrue(q)'
  <2>1. RequestTrue(q)
    BY DEF Inv
  <2> QED
    BY <1>2, <1>3, <1>6, <2>1 DEF RequestTrue, Early, Holding, Running
<1> QED
  BY <1>4, <1>5 DEF Inv

LEMMA DayPassesInv == ASSUME TypeOK, Inv, DayPasses PROVE Inv'
<1>1. /\ UNCHANGED <<reqs, ran, adrift>> /\ \A r \in Request : ~Running(r)
      /\ \A i \in Slot : rows'[i].state = rows[i].state /\ rows'[i].of = rows[i].of
  BY Fields DEF DayPasses, Row, Slot
<1>2. \A q : StorageKey(q)' = StorageKey(q) /\ Excused(q)' = Excused(q)
  BY <1>1 DEF StorageKey, Excused
<1>3. ASSUME NEW i \in Slot PROVE RowTrue(i)'
  <2>1. RowTrue(i)
    BY DEF Inv
  <2> QED
    BY <1>1, <1>2, <2>1 DEF RowTrue
<1>4. ASSUME NEW q \in Request PROVE RequestTrue(q)'
  <2>1. RequestTrue(q)
    BY DEF Inv
  <2> QED
    BY <1>1, <1>2, <2>1 DEF RequestTrue, Running, Holding
<1> QED
  BY <1>3, <1>4 DEF Inv

LEMMA InvStep == ASSUME TypeOK, Inv, [Next]_vars PROVE Inv'
<1>1. CASE UNCHANGED <<rows, reqs, ran, adrift>>
  BY <1>1 DEF Inv, RowTrue, RequestTrue, StorageKey, Excused
<1>2. CASE SigningIn
  BY <1>1, <1>2, SigningInType
<1>3. CASE Mutating
  BY <1>3, SendInv, AdmitInv, UnauthenticatedInv, ReserveInv, PassKeylessInv, HandleInv,
     HandleResetInv, AnswerInv, CrashInv, DayPassesInv DEF Mutating
<1> QED
  BY <1>1, <1>2, <1>3 DEF Next, vars

LEMMA InitInv == Init => Inv
  BY DEF Init, Inv, RowTrue, RequestTrue, NoRow, Unsent, Early, Holding, Slot

LEMMA Invariant == Spec => [](TypeOK /\ Inv)
<1>1. TypeOK /\ Inv /\ [Next]_vars => Inv'
  BY InvStep
<1> QED
  BY <1>1, Typing, InitInv, PTL DEF Spec

\* A mutation takes effect once under its key and session, with any number of duplicates,
\* crashes, resets and clean-ups between them, unless its handler threw after its commit or
\* its row was taken away by a reset or by the late answer of a request a reset had cut off.
THEOREM Once == Spec => []TakesEffectOnce
<1>1. TypeOK /\ Inv => TakesEffectOnce
  <2> SUFFICES ASSUME TypeOK, Inv, NEW i \in Slot,
                      NEW q \in ran[i] \ adrift, NEW r \in ran[i] \ adrift
               PROVE  Threw(q) \/ Threw(r) \/ q = r
    BY DEF TakesEffectOnce, Slot
  <2>1. ASSUME NEW p \in ran[i] \ adrift PROVE Threw(p) \/ p = rows[i].of
    <3>0. p \in Request /\ p \in ran[i] /\ RowTrue(i)
      BY <2>1, Fields DEF Inv
    <3>1. RequestTrue(p)
      BY <3>0 DEF Inv
    <3>2. reqs[p].effect
      BY <3>0, <3>1 DEF RequestTrue
    <3> QED
      BY <2>1, <3>0, <3>2 DEF RowTrue, Excused, Threw
  <2> QED
    BY <2>1
<1> QED
  BY <1>1, Invariant, PTL

\* Every answer that says "done" is the answer of the request that did it.
THEOREM TrueAnswers == Spec => []AnswersAreTrue
<1>1. TypeOK /\ Inv => AnswersAreTrue
  <2> SUFFICES ASSUME Inv, NEW r \in Request, reqs[r].reply = "ok"
               PROVE  /\ reqs[r].of # None /\ reqs[reqs[r].of].effect
                      /\ reqs[reqs[r].of].session = reqs[r].session
                      /\ reqs[reqs[r].of].key = reqs[r].key
    BY DEF AnswersAreTrue
  <2>1. /\ reqs[r].of \in Request /\ reqs[reqs[r].of].effect
        /\ StorageKey(reqs[r].of) = StorageKey(r)
    BY DEF Inv, RequestTrue
  <2>2. reqs[r].of # None
    BY <2>1, RequestsAssumption
  <2> QED
    BY <2>1, <2>2 DEF StorageKey
<1> QED
  BY <1>1, Invariant, PTL

\* A reservation is that of a request still running, or lost in a crash.
THEOREM OwnedReservations == Spec => []ReservationsHaveOwners
<1>1. Inv => ReservationsHaveOwners
  BY DEF Inv, RowTrue, ReservationsHaveOwners, Holding, Slot
<1> QED
  BY <1>1, Invariant, PTL
-----------------------------------------------------------------------------
(* Sign-out.                                                                *)

\* A session that was signed out is gone for good, and what was sent with it afterwards
\* is refused at the door.
Gone == \A s \in out : sessions[s] = "gone"
Barred(r) == reqs[r].late =>
    /\ reqs[r].session \in out
    /\ reqs[r].phase \in {"sent", "rejected", "answered"}
    /\ ~reqs[r].effect

SignOutInv == Gone /\ \A r \in Request : Barred(r)

LEMMA SigningInKeepsOut ==
    ASSUME TypeOK, SignOutInv, SigningIn PROVE SignOutInv'
<1>0. /\ sessions \in [Session -> {"new", "live", "past", "gone"}] /\ out \subseteq Session
      /\ UNCHANGED reqs
  BY SigningInType DEF TypeOK
<1>1. ASSUME \A s \in Session : sessions[s] = "gone" => sessions'[s] = "gone", out' = out
      PROVE  SignOutInv'
  BY <1>0, <1>1 DEF SignOutInv, Gone, Barred
<1>2. ASSUME NEW t \in Tab, NEW s \in Session, NEW sweep \in BOOLEAN,
             LoginCompletes(t, s, sweep)
      PROVE  SignOutInv'
  BY <1>0, <1>1, <1>2 DEF LoginCompletes, Swept
<1>3. ASSUME NEW s \in Session, Logout(s) PROVE SignOutInv'
  BY <1>0, <1>3 DEF Logout, SignOutInv, Gone, Barred
<1>4. ASSUME NEW s \in Session, Expire(s) PROVE SignOutInv'
  BY <1>0, <1>1, <1>4 DEF Expire
<1> QED
  BY <1>1, <1>2, <1>3, <1>4
     DEF SigningIn, AuthRequestExpires, LogoutAnswered, StartLogin, Callback, LoginFails

LEMMA MutatingKeepsOut ==
    ASSUME TypeOK, SignOutInv, Mutating PROVE SignOutInv'
<1>0. /\ sessions \in [Session -> {"new", "live", "past", "gone"}] /\ out \subseteq Session
      /\ reqs \in [Request -> Mutation]
  BY DEF TypeOK

\* A step that moves requests which are not late.
<1>1. ASSUME UNCHANGED <<sessions, out>>,
             \A q \in Request : \/ reqs'[q] = reqs[q]
                                \/ ~reqs[q].late /\ reqs'[q].late = reqs[q].late
      PROVE  SignOutInv'
  BY <1>1 DEF SignOutInv, Gone, Barred
<1>2. ASSUME NEW r \in Request, NEW k \in Key \cup {NoKey}, Send(r, k) PROVE SignOutInv'
  <2>1. /\ reqs'[r].late = (cookie \in out) /\ reqs'[r].session = cookie
        /\ reqs'[r].phase = "sent" /\ reqs'[r].effect = FALSE
        /\ \A q \in Request \ {r} : reqs'[q] = reqs[q]
    BY <1>0, <1>2 DEF Send, Unsent
  <2>2. Barred(r)'
    <3>1. out' = out
      BY <1>2 DEF Send
    <3> QED
      BY <2>1, <3>1 DEF Barred
  <2>3. UNCHANGED <<sessions, out>>
    BY <1>2 DEF Send
  <2> QED
    BY <2>1, <2>2, <2>3 DEF SignOutInv, Gone, Barred
<1>3. ASSUME NEW r \in Request, NEW sweep \in BOOLEAN, Admit(r, sweep) PROVE SignOutInv'
  <2>1. \A s \in Session : sessions[s] = "gone" => sessions'[s] = "gone"
    BY <1>0, <1>3 DEF Admit, Swept
  <2>2. reqs[r].late => sessions[reqs[r].session] = "gone"
    BY DEF SignOutInv, Gone, Barred
  <2>3. /\ reqs'[r].late = reqs[r].late /\ reqs'[r].session = reqs[r].session
        /\ reqs'[r].effect = reqs[r].effect
        /\ reqs[r].late => reqs'[r].phase = "rejected"
        /\ \A q \in Request \ {r} : reqs'[q] = reqs[q]
    BY <1>0, <1>3, <2>2 DEF Admit, Mutation
  <2> QED
    BY <1>0, <1>3, <2>1, <2>3 DEF Admit, SignOutInv, Gone, Barred
<1>4. ASSUME NEW r \in Request, Unauthenticated(r) PROVE SignOutInv'
  <2>1. /\ reqs'[r].late = reqs[r].late /\ reqs'[r].session = reqs[r].session
        /\ reqs'[r].effect = reqs[r].effect /\ reqs'[r].phase = "answered"
        /\ \A q \in Request \ {r} : reqs'[q] = reqs[q]
    BY <1>0, <1>4 DEF Unauthenticated, Mutation
  <2> QED
    BY <1>4, <2>1 DEF Unauthenticated, SignOutInv, Gone, Barred
<1>5. ASSUME NEW r \in Request,
             Reserve(r) \/ PassKeyless(r) \/ Handle(r) \/ HandleReset(r) \/ Answer(r)
      PROVE SignOutInv'
  <2>1. ~reqs[r].late
    BY <1>5 DEF Reserve, PassKeyless, Handle, HandleReset, Answer, SignOutInv, Barred
  <2>2. /\ reqs'[r].late = reqs[r].late
        /\ \A q \in Request \ {r} : reqs'[q] = reqs[q]
    <3>1. CASE Reserve(r)
      <4>1. PICK m :
               /\ reqs' = [reqs EXCEPT ![r] = m]
               /\ \/ m = [reqs[r] EXCEPT !.phase = "reserved", !.owns = TRUE]
                  \/ \E what, of : m = [reqs[r] EXCEPT !.phase = "answered", !.reply = what,
                                                        !.of = of]
        <5>1. ASSUME NEW what, NEW of, Reply(r, what, of)
              PROVE  \E m :
                        /\ reqs' = [reqs EXCEPT ![r] = m]
                        /\ \/ m = [reqs[r] EXCEPT !.phase = "reserved", !.owns = TRUE]
                           \/ \E w, o : m = [reqs[r] EXCEPT !.phase = "answered",
                                                            !.reply = w, !.of = o]
          BY <1>0, <5>1 DEF Reply
        <5> QED
          BY <1>0, <3>1, <5>1 DEF Reserve
      <4>2. m.late = reqs[r].late
        BY <1>0, <4>1 DEF Mutation
      <4> QED
        BY <1>0, <4>1, <4>2
    <3>2. CASE PassKeyless(r) \/ Handle(r) \/ HandleReset(r)
      <4>1. reqs[r] \in Mutation
        BY <1>0
      <4>2. CASE PassKeyless(r)
        BY <1>0, <4>1, <4>2 DEF PassKeyless, Mutation
      <4>3. CASE Handle(r)
        <5>1. CASE reqs' = [reqs EXCEPT ![r] = [@ EXCEPT !.phase = "done", !.effect = TRUE]]
          BY <1>0, <4>1, <5>1 DEF Mutation
        <5>2. CASE reqs' = [reqs EXCEPT ![r] = [@ EXCEPT !.phase = "threw", !.effect = TRUE]]
          BY <1>0, <4>1, <5>2 DEF Mutation
        <5>3. CASE reqs' = [reqs EXCEPT ![r].phase = "refused"]
          BY <1>0, <4>1, <5>3 DEF Mutation
        <5> QED
          BY <4>3, <5>1, <5>2, <5>3 DEF Handle
      <4>4. CASE HandleReset(r)
        BY <1>0, <4>1, <4>4 DEF HandleReset, Mutation
      <4> QED
        BY <3>2, <4>2, <4>3, <4>4
    <3>3. CASE Answer(r)
      <4> DEFINE m == [reqs[r] EXCEPT !.phase = "answered", !.of = r,
                         !.reply = IF reqs[r].phase = "done" THEN "ok" ELSE "error"]
      <4>1. reqs' = [reqs EXCEPT ![r] = m]
        BY <1>0, <3>3 DEF Answer
      <4>2. m.late = reqs[r].late
        BY <1>0 DEF Mutation
      <4> HIDE DEF m
      <4> QED
        BY <1>0, <4>1, <4>2
    <3> QED
      BY <1>5, <3>1, <3>2, <3>3
  <2>3. UNCHANGED <<sessions, out>>
    BY <1>5 DEF Reserve, Reply, PassKeyless, Handle, HandleReset, Answer
  <2> QED
    BY <1>1, <2>1, <2>2, <2>3
<1>6. CASE Crash
  <2>1. \A q \in Request : \/ reqs'[q] = reqs[q]
                           \/ Running(q) /\ reqs'[q].late = reqs[q].late
    BY <1>0, <1>6 DEF Crash, Mutation
  <2>2. \A q \in Request : Running(q) => ~reqs[q].late
    BY DEF Running, SignOutInv, Barred
  <2> QED
    BY <1>1, <1>6, <2>1, <2>2 DEF Crash
<1>7. CASE DayPasses
  BY <1>1, <1>7 DEF DayPasses
<1> QED
  BY <1>2, <1>3, <1>4, <1>5, <1>6, <1>7 DEF Mutating

\* Nothing sent after a sign-out takes effect, although the browser keeps the cookie until
\* the answer arrives: the row of the session is gone and never comes back.
THEOREM SignedOut == Spec => []SignOutHolds
<1>1. Init => SignOutInv
  BY DEF Init, SignOutInv, Gone, Barred, Unsent
<1>2. SignOutInv => SignOutHolds
  BY DEF SignOutInv, Barred, SignOutHolds
<1>3. TypeOK /\ SignOutInv /\ [Next]_vars => SignOutInv'
  <2>1. SignOutInv /\ UNCHANGED vars => SignOutInv'
    BY DEF SignOutInv, Gone, Barred, vars
  <2> QED
    BY <2>1, SigningInKeepsOut, MutatingKeepsOut DEF Next
<1> QED
  BY <1>1, <1>2, <1>3, Typing, PTL DEF Spec

=============================================================================
