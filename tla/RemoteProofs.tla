---------------------------- MODULE RemoteProofs -----------------------------
(* Theorems of Remote, for any number of part types, items, paths and ticks: ids  *)
(* name objects of their kind, what is filed lies where its path leads, no node   *)
(* is created twice without a race, and the reconciler forgets only what is gone. *)
EXTENDS Remote, TLAPS, WellFoundedInduction, SequenceTheorems

Stages == {"idle", "find", "create", "call", "settle"}

-----------------------------------------------------------------------------
(* Paths and what the resolvers make of them.                                  *)

LEMMA Least ==
    ASSUME NEW S \in SUBSET Nat, S # {}
    PROVE  \E m \in S : \A n \in S : m <= n
<1>1. \E m \in S : \A n \in S : ~(<<n, m>> \in OpToRel(<, Nat))
  BY NatLessThanWellFounded, WFMin
<1>2. PICK m \in S : \A n \in S : <<n, m>> \notin OpToRel(<, Nat)
  BY <1>1
<1>3. \A n \in S : ~(n < m)
  BY <1>2 DEF OpToRel
<1> QED
  BY <1>3

LEMMA PathsAre ==
    ASSUME NEW path \in Paths
    PROVE  /\ path \in Seq(Name) /\ path # <<>>
           /\ Len(path) \in Nat \ {0} /\ DOMAIN path = 1 .. Len(path)
  BY RemoteAssumption DEF RemoteAssumption, Paths

LEMMA KeyKnown ==
    ASSUME NEW path \in Paths, NEW d \in DOMAIN path
    PROVE  Lowered(SubSeq(path, 1, d)) \in PathKey
  BY DEF PathKey, Paths

LEMMA KeyIs ==
    ASSUME NEW path \in Paths, NEW d \in DOMAIN path
    PROVE  Lowered(SubSeq(path, 1, d)) = [e \in 1 .. d |-> Lower[path[e]]]
<1>1. DOMAIN SubSeq(path, 1, d) = 1 .. d /\ \A e \in 1 .. d : SubSeq(path, 1, d)[e] = path[e]
  BY PathsAre, SubSeqProperties, LenProperties
<1> QED
  BY <1>1 DEF Lowered

\* One key is the key of paths that agree as far as it goes, up to case.
LEMMA SameKey ==
    ASSUME NEW path \in Paths, NEW d \in DOMAIN path,
           NEW other \in Paths, NEW e \in DOMAIN other,
           Lowered(SubSeq(path, 1, d)) = Lowered(SubSeq(other, 1, e))
    PROVE  d = e /\ \A c \in 1 .. d : Lower[path[c]] = Lower[other[c]]
<1>1. /\ Lowered(SubSeq(path, 1, d)) = [c \in 1 .. d |-> Lower[path[c]]]
      /\ Lowered(SubSeq(other, 1, e)) = [c \in 1 .. e |-> Lower[other[c]]]
  BY KeyIs
<1>2. [c \in 1 .. d |-> Lower[path[c]]] = [c \in 1 .. e |-> Lower[other[c]]]
  BY <1>1
<1>3. 1 .. d = 1 .. e
  BY <1>2
<1>4. d \in Nat \ {0} /\ e \in Nat \ {0}
  BY PathsAre
<1>5. d = e
  BY <1>3, <1>4
<1> QED
  BY <1>2, <1>5

At(x, stage, d, i) == [on |-> x, stage |-> stage, depth |-> d, at |-> i]

\* resolveOrCreate ends with the node it was given or the cached one of the whole path, or
\* waits for the answer to a search under the node it was given or a cached one.
Resolution(x, c, path, d, at) ==
    LET r == Resolving(x, c, path, d, at)
        tree == TreeOf(x)
    IN  \/ d = Len(path) + 1 /\ r = At(x, "call", 0, at)
        \/ /\ Cached(c, tree, path, Len(path)) # NoId
           /\ r = At(x, "call", 0, Cached(c, tree, path, Len(path)))
        \/ d \in DOMAIN path /\ r = At(x, "find", d, at)
        \/ \E e \in DOMAIN path :
              /\ e - 1 \in DOMAIN path /\ Cached(c, tree, path, e - 1) # NoId
              /\ r = At(x, "find", e, Cached(c, tree, path, e - 1))

LEMMA Resolutions ==
    ASSUME NEW x, NEW c, NEW path \in Paths, NEW d \in 1 .. Len(path) + 1, NEW at
    PROVE  Resolution(x, c, path, d, at)
<1> DEFINE tree == TreeOf(x)
           n == Len(path)
           missing == {e \in d .. n : Cached(c, tree, path, e) = NoId}
           first == CHOOSE e \in missing : \A f \in missing : e <= f
           r == Resolving(x, c, path, d, at)
<1>0. path # <<>> /\ n \in Nat \ {0} /\ DOMAIN path = 1 .. n
  BY PathsAre
<1>1. CASE d > n
  BY <1>0, <1>1 DEF Resolving, Resolution, At
<1>2. CASE d <= n /\ (missing = {} \/ (d = 1 /\ Cached(c, tree, path, n) # NoId))
  <2>1. r = At(x, "call", 0, Cached(c, tree, path, n))
    BY <1>0, <1>2 DEF Resolving, At
  <2>2. Cached(c, tree, path, n) # NoId
    BY <1>0, <1>2
  <2> QED
    BY <2>1, <2>2 DEF Resolution
<1>3. CASE d <= n /\ ~(missing = {} \/ (d = 1 /\ Cached(c, tree, path, n) # NoId))
  <2>1. r = At(x, "find", first, IF first = d THEN at ELSE Cached(c, tree, path, first - 1))
    BY <1>0, <1>3 DEF Resolving, At
  <2>2. \E m \in missing : \A f \in missing : m <= f
    <3>1. missing \in SUBSET Nat /\ missing # {}
      BY <1>0, <1>3
    <3> QED
      BY <3>1, Least
  <2>3. first \in missing /\ \A f \in missing : first <= f
    BY <2>2
  <2> HIDE DEF first
  <2>4. first \in d .. n /\ (first # d => first - 1 \in d .. n /\ first - 1 \notin missing)
    BY <1>0, <2>3
  <2>5. first # d => Cached(c, tree, path, first - 1) # NoId
    BY <2>4
  <2>6. CASE first = d
    BY <1>0, <2>1, <2>4, <2>6 DEF Resolution
  <2>7. CASE first # d
    <3>1. first \in DOMAIN path /\ first - 1 \in DOMAIN path
      BY <1>0, <2>4, <2>7
    <3>2. r = At(x, "find", first, Cached(c, tree, path, first - 1))
      BY <2>1, <2>7
    <3> HIDE DEF r
    <3>3. \E e \in DOMAIN path :
             /\ e - 1 \in DOMAIN path /\ Cached(c, tree, path, e - 1) # NoId
             /\ r = At(x, "find", e, Cached(c, tree, path, e - 1))
      BY <2>5, <2>7, <3>1, <3>2
    <3> QED
      BY <3>3 DEF Resolution, r
  <2> QED
    BY <2>6, <2>7
<1> QED
  BY <1>0, <1>1, <1>2, <1>3

-----------------------------------------------------------------------------
(* Types.  Ids name objects of the right kind.                                 *)

IsRef(x, i) == i \in DOMAIN remote /\ Names(x, i)
PartRef(i) == i \in DOMAIN remote /\ remote[i].kind = "part"
LotRef(i) == i \in DOMAIN remote /\ remote[i].kind = "lot"

Ops == [kind : {"none", "create", "update"}, path : Paths \cup {<<>>}, ref : Nat,
        of : PartRow \cup {NoTarget}]
Ticks == [on : Target \cup {NoTarget}, stage : Stages, depth : Nat, at : Nat]

ObjInv == remote \in Seq(Object) /\ Len(remote) <= MaxObjects

CacheInv == cache \in [Trees -> [PathKey -> Nat]]
            /\ \A tree \in Trees, key \in PathKey : cache[tree][key] <= Len(remote)

ItemInv ==
    /\ part \in [Item -> Part \cup {NoTarget}]
    /\ place \in [Item -> Places \cup {<<>>}]
    /\ live \subseteq Part /\ def \in [Part -> Definition]
    /\ \A x \in Item : part[x] # NoTarget => place[x] \in Places
    /\ \A x \in Item : part[x] = NoTarget => op[x] = NoOp /\ column[x] = NoId

RefInv ==
    /\ column \in [Target -> Nat] /\ \A x \in Target : column[x] # NoId => IsRef(x, column[x])
    /\ made \in [PartRow -> Nat] /\ \A row \in PartRow : made[row] # NoId => PartRef(made[row])
    /\ \A i \in drops : LotRef(i)
    /\ \A i \in DOMAIN remote : IF remote[i].kind = "lot" THEN PartRef(remote[i].of)
                                ELSE remote[i].of = NoId

\* A row o of target x, open or dead.
Fits(x, o) ==
    /\ o \in Ops /\ o.path \in Paths
    /\ x \in Part =>
          o.of \in PartRow /\ (o.kind = "create" \/ (o.kind = "update" /\ PartRef(o.ref)))
    /\ x \in Item =>
          \/ o.kind = "create" /\ o.ref = NoId /\ o.of \in PartRow
          \/ o.kind = "create" /\ PartRef(o.ref)
          \/ o.kind = "update" /\ LotRef(o.ref)

OpInv == op \in [Target -> Ops] /\ \A x \in Target : op[x] = NoOp \/ Fits(x, op[x])

\* A dead row may be put back.
DeadFits(x, o) == x \in Target /\ Fits(x, o) /\ (x \in Item => part[x] # NoTarget)

DeadInv == \A row \in dead : DeadFits(row[1], row[2])

TickFits(t) ==
    LET x == work[t].on IN
    \/ work[t] = IdleTick
    \/ /\ x \in Target /\ op[x].kind # "none"
       /\ work[t].stage # "idle" /\ work[t].at <= Len(remote)
       /\ work[t].stage \in {"find", "create"} => work[t].depth \in DOMAIN op[x].path
       /\ work[t].stage = "settle" => IsRef(x, work[t].at)
       /\ x \in Item => PartOf(x) # NoId

WorkInv ==
    /\ work \in [Tick -> Ticks]
    /\ \A t \in Tick : TickFits(t)
    /\ \A t, u \in Tick : work[t].on = work[u].on /\ work[t].on # NoTarget => t = u

EntryFits(e) == e[1] \in Target /\ IsRef(e[1], e[2])

PassInv ==
    /\ pass = [phase |-> pass.phase, todo |-> pass.todo, gone |-> pass.gone]
    /\ \A e \in pass.todo : EntryFits(e)
    /\ pass.gone # NoEntry => EntryFits(pass.gone)

ShapeInv ==
    /\ ObjInv /\ CacheInv /\ ItemInv /\ RefInv /\ OpInv /\ DeadInv /\ WorkInv /\ PassInv
    /\ raced \in BOOLEAN

-----------------------------------------------------------------------------
(* Objects stay what they are.                                                 *)

Kept ==
    /\ Len(remote) <= Len(remote')
    /\ \A i \in DOMAIN remote :
          /\ i \in DOMAIN remote'
          /\ remote'[i].kind = remote[i].kind /\ remote'[i].name = remote[i].name
          /\ remote'[i].of = remote[i].of
          /\ remote[i].kind \in Trees => remote'[i].under = remote[i].under
          /\ remote'[i].exists => remote[i].exists

Objects == Len(remote) \in Nat /\ DOMAIN remote = 1 .. Len(remote)
           /\ \A i \in DOMAIN remote : remote[i] \in Object

LEMMA ObjectsAre == ASSUME ObjInv PROVE Objects
  BY DEF ObjInv, Objects

\* A new object comes last.
Adds(e) ==
    /\ DOMAIN remote' = 1 .. Len(remote) + 1 /\ Len(remote') = Len(remote) + 1
    /\ \A i \in DOMAIN remote : remote'[i] = remote[i]
    /\ remote'[Len(remote) + 1] = e

LEMMA Added ==
    ASSUME ObjInv, HasRoom, NEW e \in Object, remote' = Append(remote, e)
    PROVE  ObjInv' /\ Kept /\ Adds(e)
<1>1. MaxObjects \in Nat
  BY RemoteAssumption DEF RemoteAssumption
<1>2. Objects
  BY ObjectsAre
<1>3. remote' \in Seq(Object) /\ Adds(e)
  BY DEF ObjInv, Adds
<1>4. ObjInv'
  BY <1>1, <1>2, <1>3 DEF ObjInv, Adds, HasRoom, Objects
<1>5. Kept
  BY <1>2, <1>3 DEF Kept, Adds, Objects
<1> QED
  BY <1>3, <1>4, <1>5

\* Objects change without losing their kind, name, part, or their place in a tree.
LEMMA Altered ==
    ASSUME ObjInv, Objects, remote' = [i \in DOMAIN remote |-> remote'[i]],
           \A i \in DOMAIN remote :
              /\ remote'[i] \in Object
              /\ remote'[i].kind = remote[i].kind /\ remote'[i].name = remote[i].name
              /\ remote'[i].of = remote[i].of
              /\ remote[i].kind \in Trees => remote'[i].under = remote[i].under
              /\ remote'[i].exists => remote[i].exists
    PROVE  ObjInv' /\ Kept /\ Len(remote') = Len(remote) /\ DOMAIN remote' = DOMAIN remote
<1>1. remote' \in Seq(Object) /\ Len(remote') = Len(remote)
  BY DEF Objects
<1>2. Kept
  BY <1>1 DEF Kept, Objects
<1> QED
  BY <1>1, <1>2 DEF ObjInv

Hide(e) == [e EXCEPT !.exists = FALSE]
Refile(e, i, path) == [e EXCEPT !.under = i, !.path = path]
Settled(w, i) == [w EXCEPT !.stage = "settle", !.at = i]

LEMMA Hidden ==
    ASSUME NEW e \in Object
    PROVE  /\ Hide(e) \in Object /\ Hide(e).kind = e.kind /\ Hide(e).name = e.name
           /\ Hide(e).of = e.of /\ Hide(e).under = e.under /\ Hide(e).path = e.path
           /\ Hide(e).exists = FALSE
  BY DEF Object, Hide

LEMMA Refiled ==
    ASSUME NEW e \in Object, NEW i \in Id \cup {NoId}, NEW path \in Paths \cup {<<>>}
    PROVE  /\ Refile(e, i, path) \in Object
           /\ Refile(e, i, path).kind = e.kind /\ Refile(e, i, path).name = e.name
           /\ Refile(e, i, path).of = e.of /\ Refile(e, i, path).exists = e.exists
           /\ Refile(e, i, path).under = i /\ Refile(e, i, path).path = path
  BY DEF Object, Paths, Refile

LEMMA Settling ==
    ASSUME NEW w \in Ticks, NEW i \in Nat
    PROVE  /\ Settled(w, i) \in Ticks /\ Settled(w, i).on = w.on
           /\ Settled(w, i).stage = "settle" /\ Settled(w, i).at = i
  BY DEF Settled, Ticks, Stages

\* What a tick that resolves a path asks for, and what one that is done creates.
LEMMA NodeType ==
    ASSUME ShapeInv, NEW t \in Tick, work[t].stage \in {"find", "create"}
    PROVE  /\ NodeWanted(t) \in Object
           /\ NodeWanted(t).kind = TreeOf(work[t].on) /\ NodeWanted(t).kind \in Trees
           /\ NodeWanted(t).name = op[work[t].on].path[work[t].depth]
           /\ NodeWanted(t).under = work[t].at /\ NodeWanted(t).exists = TRUE
           /\ work[t].on \in Target /\ op[work[t].on].path \in Paths
           /\ work[t].depth \in DOMAIN op[work[t].on].path
<1> DEFINE x == work[t].on
<1>1. /\ x \in Target /\ op[x].kind # "none" /\ work[t].at <= Len(remote)
      /\ work[t].depth \in DOMAIN op[x].path
  BY DEF ShapeInv, WorkInv, TickFits, IdleTick
<1>2. op[x].path \in Paths
  BY <1>1 DEF ShapeInv, OpInv, Fits, NoOp
<1>3. op[x].path[work[t].depth] \in Name
  BY <1>1, <1>2, PathsAre
<1>4. work[t].at \in Id \cup {NoId}
  <2>1. MaxObjects \in Nat /\ Objects
    BY RemoteAssumption, ObjectsAre DEF RemoteAssumption, ShapeInv
  <2> QED
    BY <1>1, <2>1 DEF ShapeInv, WorkInv, Ticks, Id, NoId, ObjInv, Objects
<1>5. TreeOf(x) \in {"category", "location"}
  BY DEF TreeOf
<1> HIDE DEF x
<1>6. NodeWanted(t) = Node(TreeOf(x), op[x].path[work[t].depth], work[t].at)
  BY DEF NodeWanted, x
<1> QED
  BY <1>1, <1>2, <1>3, <1>4, <1>5, <1>6 DEF Node, Object, Trees, Paths, x

LEMMA SameObjects == ASSUME ObjInv, remote' = remote PROVE ObjInv' /\ Kept
  BY DEF ObjInv, Kept

\* A tick whose operation resolved its path, or was carried out.
LEMMA TickAre ==
    ASSUME ShapeInv, NEW t \in Tick, work[t].stage # "idle"
    PROVE  LET x == work[t].on IN
           /\ x \in Target /\ work[t].at \in Nat /\ work[t].at <= Len(remote)
           /\ work[t].at \in Id \cup {NoId}
           /\ Fits(x, op[x])
           /\ op[x].kind = "update" => IsRef(x, op[x].ref)
           /\ x \in Item => PartOf(x) # NoId
           /\ x \in Item /\ op[x].kind = "create" => PartRef(PartOf(x))
<1>0. PICK x : x = work[t].on
  OBVIOUS
<1>1. /\ x \in Target /\ op[x].kind # "none" /\ work[t].at <= Len(remote)
      /\ x \in Item => PartOf(x) # NoId
  BY <1>0 DEF ShapeInv, WorkInv, TickFits, IdleTick
<1>2. work[t].at \in Nat
  BY DEF ShapeInv, WorkInv, Ticks
<1>3. work[t].at \in Id \cup {NoId}
  <2>1. MaxObjects \in Nat /\ Objects
    BY RemoteAssumption, ObjectsAre DEF RemoteAssumption, ShapeInv
  <2> QED
    BY <1>0, <1>1, <1>2, <2>1 DEF ShapeInv, Id, NoId, ObjInv, Objects
<1>4. Fits(x, op[x])
  BY <1>1 DEF ShapeInv, OpInv, NoOp
<1>5. Part \cap Item = {} /\ Target = Part \cup Item
  BY RemoteAssumption DEF RemoteAssumption, Target
<1>6. op[x].kind = "update" => IsRef(x, op[x].ref)
  BY <1>1, <1>4, <1>5 DEF Fits, IsRef, Names, PartRef, LotRef
<1>7. x \in Item /\ op[x].kind = "create" => PartRef(PartOf(x))
  <2>1. PICK o : o = op[x]
    OBVIOUS
  <2>2. \A i \in DOMAIN remote : i # NoId
    BY ObjectsAre DEF ShapeInv, Objects, NoId
  <2>3. ASSUME x \in Item, o.kind = "create", o.ref = NoId PROVE PartRef(PartOf(x))
    <3>1. o.of \in PartRow
      BY <1>4, <2>1, <2>2, <2>3 DEF Fits, PartRef
    <3> QED
      BY <1>1, <2>1, <2>3, <3>1 DEF PartOf, ShapeInv, RefInv
  <2>4. ASSUME x \in Item, o.kind = "create", o.ref # NoId PROVE PartRef(PartOf(x))
    BY <1>4, <2>1, <2>4 DEF Fits, PartOf
  <2> QED
    BY <2>1, <2>3, <2>4
<1> QED
  BY <1>0, <1>1, <1>2, <1>3, <1>4, <1>6, <1>7

\* The last call of an operation: a new part or lot, or one that moves.
CallAdds(t) ==
    LET x == work[t].on IN
    /\ op[x].kind = "create" /\ Adds(Created(t)) /\ HasRoom
    /\ Created(t).kind = (IF x \in Part THEN "part" ELSE "lot")
    /\ Created(t).of = (IF x \in Part THEN NoId ELSE PartOf(x))
    /\ Created(t).under = work[t].at /\ Created(t).path = op[x].path
    /\ work' = [work EXCEPT ![t] = Settled(@, Len(remote) + 1)]

CallMoves(t) ==
    LET x == work[t].on
        i == op[x].ref
    IN  /\ op[x].kind = "update" /\ IsRef(x, i)
        /\ Len(remote') = Len(remote) /\ DOMAIN remote' = DOMAIN remote
        /\ \A j \in DOMAIN remote \ {i} : remote'[j] = remote[j]
        /\ remote'[i].kind = remote[i].kind /\ remote'[i].of = remote[i].of
        /\ remote'[i].exists = remote[i].exists
        /\ remote'[i].under = work[t].at /\ remote'[i].path = op[x].path
        /\ work' = [work EXCEPT ![t] = Settled(@, i)]

LEMMA Calls ==
    ASSUME ShapeInv, NEW t \in Tick, Call(t)
    PROVE  ObjInv' /\ Kept /\ Possible(work[t].on) /\ (CallAdds(t) \/ CallMoves(t))
<1> DEFINE x == work[t].on
           i == op[x].ref
<1>1. /\ x \in Target /\ work[t].at \in Id \cup {NoId} /\ op[x].path \in Paths
      /\ op[x].kind \in {"create", "update"}
      /\ op[x].kind = "update" => IsRef(x, op[x].ref)
      /\ x \in Item /\ op[x].kind = "create" => PartRef(PartOf(x))
  BY TickAre DEF Call, Fits, Target
<1>2. Objects /\ ObjInv
  BY ObjectsAre DEF ShapeInv
<1>4. Possible(x)
  BY DEF Call
<1>5. CASE op[x].kind = "create"
  <2>1. HasRoom /\ remote' = Append(remote, Created(t))
        /\ work' = [work EXCEPT ![t] = [@ EXCEPT !.stage = "settle", !.at = Len(remote) + 1]]
    BY <1>5 DEF Call
  <2>3. work' = [work EXCEPT ![t] = Settled(@, Len(remote) + 1)]
    BY <2>1 DEF Settled
  <2>4. x \notin Part => PartOf(x) \in Id
    <3>1. MaxObjects \in Nat
      BY RemoteAssumption DEF RemoteAssumption
    <3> QED
      BY <1>1, <1>2, <1>5, <3>1 DEF Objects, ObjInv, PartRef, Id, Target
  <2>5. /\ Created(t) \in Object
        /\ Created(t).kind = (IF x \in Part THEN "part" ELSE "lot")
        /\ Created(t).of = (IF x \in Part THEN NoId ELSE PartOf(x))
        /\ Created(t).under = work[t].at /\ Created(t).path = op[x].path
    <3> HIDE DEF x
    <3>1. Created(t) = [kind |-> IF x \in Part THEN "part" ELSE "lot", name |-> NoTarget,
                        under |-> work[t].at, of |-> IF x \in Part THEN NoId ELSE PartOf(x),
                        path |-> op[x].path, exists |-> TRUE]
      BY DEF Created, x
    <3> QED
      BY <1>1, <2>4, <3>1 DEF Object, Paths
  <2>6. ObjInv' /\ Kept /\ Adds(Created(t))
    BY <1>2, <2>1, <2>5, Added
  <2>7. CallAdds(t)
    BY <1>5, <2>1, <2>3, <2>5, <2>6 DEF CallAdds
  <2> QED
    BY <1>4, <2>6, <2>7
<1>6. CASE op[x].kind # "create"
  <2>1. op[x].kind = "update" /\ IsRef(x, i)
    BY <1>1, <1>6
  <2>2. /\ remote' = [remote EXCEPT ![i].under = work[t].at, ![i].path = op[x].path]
        /\ work' = [work EXCEPT ![t] = [@ EXCEPT !.stage = "settle", !.at = i]]
    BY <1>6 DEF Call
  <2>4. work' = [work EXCEPT ![t] = Settled(@, i)]
    BY <2>2 DEF Settled
  <2>5. i \in DOMAIN remote /\ remote[i] \in Object /\ remote[i].kind \notin Trees
    BY <1>2, <2>1 DEF Objects, IsRef, Names, Trees
  <2> DEFINE h == Refile(remote[i], work[t].at, op[x].path)
  <2>6. /\ h \in Object /\ h.kind = remote[i].kind /\ h.name = remote[i].name
        /\ h.of = remote[i].of
        /\ h.under = work[t].at /\ h.path = op[x].path /\ h.exists = remote[i].exists
    <3>1. work[t].at \in Id \cup {NoId} /\ op[x].path \in Paths \cup {<<>>}
      BY <1>1
    <3> HIDE DEF i, x
    <3> QED
      BY <2>5, <3>1, Refiled
  <2>7. remote' = [remote EXCEPT ![i] = h]
    BY <2>2, <2>5 DEF Refile
  <2> HIDE DEF h, i
  <2>8. remote' = [j \in DOMAIN remote |-> IF j = i THEN h ELSE remote[j]]
    BY <2>7
  <2>9. remote' = [j \in DOMAIN remote |-> remote'[j]] /\ remote'[i] = h
        /\ \A j \in DOMAIN remote \ {i} : remote'[j] = remote[j]
    BY <2>5, <2>8
  <2>10. ObjInv' /\ Kept /\ Len(remote') = Len(remote) /\ DOMAIN remote' = DOMAIN remote
    <3>1. \A j \in DOMAIN remote :
              /\ remote'[j] \in Object
              /\ remote'[j].kind = remote[j].kind /\ remote'[j].name = remote[j].name
              /\ remote'[j].of = remote[j].of
              /\ remote[j].kind \in Trees => remote'[j].under = remote[j].under
              /\ remote'[j].exists => remote[j].exists
      <4> TAKE j \in DOMAIN remote
      <4>1. CASE j = i
        BY <2>5, <2>6, <2>9, <4>1
      <4>2. CASE j # i
        BY <1>2, <2>9, <4>2 DEF Objects
      <4> QED
        BY <4>1, <4>2
    <3> QED
      BY <1>2, <2>9, <3>1, Altered
  <2>11. CallMoves(t)
    BY <2>1, <2>4, <2>6, <2>9, <2>10 DEF CallMoves, i
  <2> QED
    BY <1>4, <2>10, <2>11
<1> QED
  BY <1>5, <1>6

\* A deletion takes objects away and moves none.
LEMMA Deletions ==
    ASSUME ShapeInv,
           (\E i \in drops : DropLot(i)) \/ (\E i \in DOMAIN remote : DeletedByHand(i))
    PROVE  /\ ObjInv' /\ Kept /\ Len(remote') = Len(remote) /\ DOMAIN remote' = DOMAIN remote
           /\ \A i \in DOMAIN remote : remote'[i].under = remote[i].under
                                       /\ remote'[i].path = remote[i].path
           /\ \A i \in DOMAIN remote :
                 ~remote'[i].exists /\ remote[i].exists /\ remote[i].kind = "part" =>
                    \A j \in DOMAIN remote : remote[j].of = i => ~remote'[j].exists
<1>0. Objects /\ ObjInv
  BY ObjectsAre DEF ShapeInv
<1> DEFINE Hides(S) == remote' = [j \in DOMAIN remote |->
                          IF j \in S THEN Hide(remote[j]) ELSE remote[j]]
<1>1. ASSUME NEW S, Hides(S)
      PROVE  /\ ObjInv' /\ Kept /\ Len(remote') = Len(remote) /\ DOMAIN remote' = DOMAIN remote
             /\ \A i \in DOMAIN remote : remote'[i].under = remote[i].under
                                         /\ remote'[i].path = remote[i].path
             /\ \A i \in DOMAIN remote : remote'[i].exists = (remote[i].exists /\ i \notin S)
  <2>1. remote' = [j \in DOMAIN remote |-> remote'[j]]
    BY <1>1
  <2>2. \A i \in DOMAIN remote :
           /\ remote'[i] \in Object
           /\ remote'[i].kind = remote[i].kind /\ remote'[i].name = remote[i].name
           /\ remote'[i].of = remote[i].of
           /\ remote'[i].under = remote[i].under /\ remote'[i].path = remote[i].path
           /\ remote'[i].exists = (remote[i].exists /\ i \notin S)
    <3> TAKE i \in DOMAIN remote
    <3>1. remote[i] \in Object
      BY <1>0 DEF Objects
    <3>2. CASE i \in S
      <4>1. remote'[i] = Hide(remote[i])
        BY <1>1, <3>2
      <4> QED
        BY <3>1, <3>2, <4>1, Hidden
    <3>3. CASE i \notin S
      <4>1. remote'[i] = remote[i]
        BY <1>1, <3>3
      <4>2. remote[i].exists \in BOOLEAN
        BY <3>1 DEF Object
      <4> QED
        BY <3>1, <3>3, <4>1, <4>2
    <3> QED
      BY <3>2, <3>3
  <2>3. ObjInv' /\ Kept /\ Len(remote') = Len(remote) /\ DOMAIN remote' = DOMAIN remote
    <3>1. \A i \in DOMAIN remote : remote'[i].exists => remote[i].exists
      BY <2>2
    <3> QED
      BY <1>0, <2>1, <2>2, <3>1, Altered
  <2> QED
    BY <2>2, <2>3
<1> HIDE DEF Hides
<1>2. ASSUME NEW i \in drops, DropLot(i)
      PROVE  Hides({i}) /\ remote[i].kind = "lot"
  <2>1. i \in DOMAIN remote /\ remote[i].kind = "lot"
    BY <1>2 DEF ShapeInv, RefInv, LotRef
  <2>2. remote' = [remote EXCEPT ![i] = Hide(remote[i])]
    BY <1>2, <2>1 DEF DropLot, Hide
  <2> QED
    BY <2>1, <2>2 DEF Hides
<1>3. ASSUME NEW i \in DOMAIN remote, DeletedByHand(i)
      PROVE  LET S == {j \in DOMAIN remote :
                         j = i \/ (remote[i].kind = "part" /\ remote[j].of = i)}
             IN  Hides(S) /\ remote[i].kind \in {"part", "lot"}
  BY <1>3 DEF DeletedByHand, Hides, Hide
<1>4. \A i \in DOMAIN remote : remote[i].kind = "part" \/ remote[i].exists \in BOOLEAN
  BY <1>0 DEF Objects, Object
<1>5. CASE \E i \in drops : DropLot(i)
  <2>1. PICK i \in drops : Hides({i}) /\ remote[i].kind = "lot"
    BY <1>2, <1>5
  <2>2. /\ ObjInv' /\ Kept /\ Len(remote') = Len(remote) /\ DOMAIN remote' = DOMAIN remote
        /\ \A k \in DOMAIN remote : remote'[k].under = remote[k].under
                                    /\ remote'[k].path = remote[k].path
    BY <1>1, <2>1
  <2>3. \A k \in DOMAIN remote : remote'[k].exists = (remote[k].exists /\ k \notin {i})
    BY <1>1, <2>1
  <2>4. ASSUME NEW k \in DOMAIN remote, ~remote'[k].exists, remote[k].exists
        PROVE  remote[k].kind # "part"
    BY <2>1, <2>3, <2>4
  <2> QED
    BY <2>2, <2>4
<1>6. CASE \E i \in DOMAIN remote : DeletedByHand(i)
  <2>1. PICK i \in DOMAIN remote : DeletedByHand(i)
    BY <1>6
  <2> DEFINE S == {j \in DOMAIN remote :
                     j = i \/ (remote[i].kind = "part" /\ remote[j].of = i)}
  <2>2. Hides(S) /\ remote[i].kind \in {"part", "lot"}
    BY <1>3, <2>1
  <2>3. \A j \in DOMAIN remote : remote'[j].exists = (remote[j].exists /\ j \notin S)
    BY <1>1, <2>2
  <2>4. ASSUME NEW k \in DOMAIN remote, ~remote'[k].exists, remote[k].exists,
               remote[k].kind = "part", NEW j \in DOMAIN remote, remote[j].of = k
        PROVE  ~remote'[j].exists
    <3>1. k \in S
      BY <2>3, <2>4
    <3>2. k = i
      <4>1. k # i => remote[k].of = i
        BY <3>1
      <4>2. remote[k].of = NoId /\ i # NoId
        BY <1>0, <2>4 DEF ShapeInv, RefInv, NoId, Objects
      <4> QED
        BY <4>1, <4>2
    <3> QED
      BY <2>3, <2>4, <3>2
  <2> QED
    BY <1>1, <2>2, <2>4
<1> QED
  BY <1>5, <1>6

\* The ids of a cache do not go beyond n.
CacheFits(c, n) ==
    c \in [Trees -> [PathKey -> Nat]] /\ \A tree \in Trees, key \in PathKey : c[tree][key] <= n

LEMMA CachedType ==
    ASSUME NEW c, NEW n, CacheFits(c, n), NEW x, NEW path \in Paths, NEW d \in DOMAIN path
    PROVE  /\ TreeOf(x) \in Trees
           /\ Cached(c, TreeOf(x), path, d) \in Nat /\ Cached(c, TreeOf(x), path, d) <= n
<1>1. TreeOf(x) \in Trees
  BY DEF TreeOf, Trees
<1> QED
  BY <1>1, KeyKnown DEF CacheFits, Cached

LEMMA ResolvedType ==
    ASSUME NEW x \in Target, NEW c, NEW n \in Nat, CacheFits(c, n), NEW path \in Paths,
           NEW d \in 1 .. Len(path) + 1, NEW at \in Nat, at <= n
    PROVE  LET r == Resolving(x, c, path, d, at) IN
           /\ r \in Ticks /\ r.on = x /\ r.stage \in {"find", "call"} /\ r.at <= n
           /\ r.stage = "find" => r.depth \in DOMAIN path
<1> DEFINE r == Resolving(x, c, path, d, at)
           tree == TreeOf(x)
<1>1. Resolution(x, c, path, d, at)
  BY Resolutions
<1>2. Len(path) \in DOMAIN path /\ DOMAIN path \subseteq Nat
  BY PathsAre
<1>3. \/ r = At(x, "call", 0, at)
      \/ \E e \in DOMAIN path : r = At(x, "call", 0, Cached(c, tree, path, e))
      \/ \E e \in DOMAIN path : r = At(x, "find", e, at)
      \/ \E e, f \in DOMAIN path : r = At(x, "find", e, Cached(c, tree, path, f))
  BY <1>1, <1>2 DEF Resolution
<1>4. \A e \in DOMAIN path : Cached(c, tree, path, e) \in Nat /\ Cached(c, tree, path, e) <= n
  BY CachedType
<1>5. r = At(r.on, r.stage, r.depth, r.at) /\ r.on = x
      /\ \/ r.stage = "call" /\ r.depth = 0
         \/ r.stage = "find" /\ r.depth \in DOMAIN path
      /\ r.at \in Nat /\ r.at <= n
  <2> HIDE DEF r, tree
  <2> QED
    BY <1>3, <1>4 DEF At
<1> HIDE DEF r
<1>6. r.depth \in Nat /\ r.stage \in {"find", "call"}
  BY <1>2, <1>5
<1>7. r \in Ticks
  BY <1>5, <1>6 DEF At, Ticks, Stages
<1> QED
  BY <1>5, <1>6, <1>7 DEF r

\* The tick's new record.
Puts(t, w) == work' = [work EXCEPT ![t] = w]

\* A tick goes on with its path.
LEMMA Descending ==
    ASSUME ShapeInv, ObjInv', Kept, NEW t \in Tick, work[t].stage \in {"find", "create"},
           NEW i \in DOMAIN remote', Descends(t, i)
    PROVE  LET x == work[t].on
               d == work[t].depth
               r == Resolving(x, cache', op[x].path, d + 1, i)
           IN  /\ CacheInv' /\ Puts(t, r) /\ i \in Nat \ {0} /\ i <= Len(remote')
               /\ r \in Ticks /\ r.on = x /\ r.stage \in {"find", "call"}
               /\ r.at <= Len(remote') /\ (r.stage = "find" => r.depth \in DOMAIN op[x].path)
               /\ Resolution(x, cache', op[x].path, d + 1, i)
               /\ \A tree \in Trees, key \in PathKey : cache'[tree][key] =
                     IF tree = TreeOf(x) /\ key = Lowered(SubSeq(op[x].path, 1, d)) THEN i
                     ELSE cache[tree][key]
<1> DEFINE x == work[t].on
           d == work[t].depth
           path == op[x].path
           tree == TreeOf(x)
           key == Lowered(SubSeq(path, 1, d))
           r == Resolving(x, cache', path, d + 1, i)
<1>1. x \in Target /\ path \in Paths /\ d \in DOMAIN path
  BY NodeType
<1>2. tree \in Trees /\ key \in PathKey
  BY <1>1, KeyKnown DEF TreeOf, Trees
<1>3. cache' = [cache EXCEPT ![tree][key] = i] /\ Puts(t, r)
  BY DEF Descends, WithEntry, Puts
<1>4. Len(remote') \in Nat /\ Len(remote) \in Nat /\ Len(remote) <= Len(remote')
      /\ i \in Nat \ {0} /\ i <= Len(remote')
  BY ObjectsAre DEF Kept, ObjInv, ShapeInv, Objects
<1>5. CacheFits(cache, Len(remote))
  BY DEF ShapeInv, CacheInv, CacheFits
<1>6. d + 1 \in 1 .. Len(path) + 1
  BY <1>1, PathsAre
<1> HIDE DEF tree, key, path, d, x
<1>7. /\ cache' \in [Trees -> [PathKey -> Nat]]
      /\ \A s \in Trees, k \in PathKey :
            cache'[s][k] = IF s = tree /\ k = key THEN i ELSE cache[s][k]
  BY <1>2, <1>3, <1>4, <1>5 DEF CacheFits
<1>8. CacheFits(cache', Len(remote'))
  <2> SUFFICES ASSUME NEW s \in Trees, NEW k \in PathKey PROVE cache'[s][k] <= Len(remote')
    BY <1>7 DEF CacheFits
  <2>1. cache[s][k] \in Nat /\ cache[s][k] <= Len(remote)
    BY <1>5 DEF CacheFits
  <2> QED
    BY <1>4, <1>7, <2>1
<1>9. /\ r \in Ticks /\ r.on = x /\ r.stage \in {"find", "call"} /\ r.at <= Len(remote')
      /\ r.stage = "find" => r.depth \in DOMAIN path
  BY <1>1, <1>4, <1>6, <1>8, ResolvedType
<1>10. Resolution(x, cache', path, d + 1, i)
  BY <1>1, <1>6, Resolutions
<1>11. CacheInv'
  BY <1>8 DEF CacheInv, CacheFits
<1> QED
  BY <1>3, <1>4, <1>7, <1>9, <1>10, <1>11 DEF tree, key, path, d, x

\* A search that found something goes on with a node Part-DB has.
LEMMA Finds ==
    ASSUME ShapeInv, NEW t \in Tick, Find(t)
    PROVE  LET found == Matches(NodeWanted(t).kind, NodeWanted(t).name, work[t].at) IN
           /\ remote' = remote
           /\ \/ /\ found = {} /\ cache' = cache
                 /\ work' = [work EXCEPT ![t] = [@ EXCEPT !.stage = "create"]]
              \/ \E i \in found : i \in DOMAIN remote' /\ Descends(t, i)
<1> DEFINE found == Matches(NodeWanted(t).kind, NodeWanted(t).name, work[t].at)
           i == CHOOSE i \in found : \A j \in found : i <= j
<1>1. CASE found = {}
  BY <1>1 DEF Find
<1>2. CASE found # {}
  <2>1. Descends(t, i) /\ remote' = remote
    BY <1>2 DEF Find
  <2>2. found \subseteq DOMAIN remote /\ DOMAIN remote \subseteq Nat
    BY ObjectsAre DEF Matches, ShapeInv, Objects
  <2>3. \E m \in found : \A j \in found : m <= j
    BY <1>2, <2>2, Least
  <2>4. i \in found
    BY <2>3
  <2> HIDE DEF found, i
  <2>5. \E k \in found : k \in DOMAIN remote' /\ Descends(t, k)
    BY <2>1, <2>2, <2>4
  <2> QED
    BY <2>1, <2>5 DEF found
<1> QED
  BY <1>1, <1>2

\* The POST of a node, answered or not.
LEMMA Creates ==
    ASSUME ShapeInv, NEW t \in Tick,
           work[t].stage = "create" /\ HasRoom /\ remote' = Append(remote, NodeWanted(t))
    PROVE  ObjInv' /\ Kept /\ Adds(NodeWanted(t)) /\ Len(remote') = Len(remote) + 1
           /\ Len(remote') \in DOMAIN remote'
<1>1. NodeWanted(t) \in Object
  BY NodeType
<1>2. ObjInv' /\ Kept /\ Adds(NodeWanted(t))
  BY <1>1, Added DEF ShapeInv
<1> QED
  BY <1>2, ObjectsAre DEF Adds, ShapeInv, Objects

Retries == \E row \in dead : Retry(row[1], row[2])

Quiet == Command \/ Reconciler \/ Retries \/ UNCHANGED vars

LEMMA QuietSteps == ASSUME Quiet PROVE UNCHANGED <<remote, cache, made, work, raced>>
<1>1. CASE Command
  BY <1>1 DEF Command, Move, AssignQr, ReassignPartType, MergePartTypes, EditPartType,
              ApprovePartType, table, inventory
<1>2. CASE Reconciler
  BY <1>2 DEF Reconciler, StartPass, Clear, PassGoesOn, PassFails, Ask, table
<1>3. CASE Retries
  BY <1>3 DEF Retries, Retry
<1> QED
  BY <1>1, <1>2, <1>3 DEF Quiet, vars

Deletes == (\E i \in drops : DropLot(i)) \/ (\E i \in DOMAIN remote : DeletedByHand(i))

LEMMA ObjectStep ==
    ASSUME ShapeInv, [Next]_vars
    PROVE  ObjInv' /\ Kept
<1>0. ObjInv
  BY DEF ShapeInv
<1>1. CASE Quiet
  BY <1>0, <1>1, QuietSteps, SameObjects
<1>2. CASE Deletes
  BY <1>2, Deletions DEF Deletes
<1>3. ASSUME NEW t \in Tick, Worker(t) PROVE ObjInv' /\ Kept
  <2>1. CASE Create(t) \/ \E again \in BOOLEAN : CreateUnanswered(t, again)
    BY <2>1, Creates DEF Create, CreateUnanswered
  <2>2. CASE Call(t)
    BY <2>2, Calls
  <2>3. CASE (\E x \in Target : Take(t, x)) \/ Find(t) \/ Settle(t) \/ Fails(t) \/ GivesUp(t)
    <3>1. remote' = remote
      BY <2>3 DEF Take, Find, Settle, Fails, GivesUp
    <3> QED
      BY <1>0, <3>1, SameObjects
  <2> QED
    BY <1>3, <2>1, <2>2, <2>3 DEF Worker
<1> QED
  BY <1>1, <1>2, <1>3 DEF Next, Quiet, Retries, Deletes

LEMMA RefsStay ==
    ASSUME Kept
    PROVE  /\ \A x, i : IsRef(x, i) => IsRef(x, i)'
           /\ \A i : PartRef(i) => PartRef(i)'
           /\ \A i : LotRef(i) => LotRef(i)'
           /\ \A x, o : Fits(x, o) => Fits(x, o)'
  BY DEF Kept, IsRef, PartRef, LotRef, Names, Fits

LEMMA Constants ==
    /\ NoTarget \notin Target /\ Part \cap Item = {} /\ Target = Part \cup Item
    /\ Places \subseteq Paths /\ <<>> \notin Paths
    /\ \A d \in Definition : Category[d] \in Paths
  BY RemoteAssumption DEF RemoteAssumption, Paths, Target

-----------------------------------------------------------------------------
(* What the commands open.                                                     *)

LEMMA Enqueueing ==
    ASSUME NEW ops \in [Target -> Ops], NEW x \in Target, NEW o \in Ops
    PROVE  /\ Enqueued(ops, x, o) \in [Target -> Ops]
           /\ \A y \in Target : Enqueued(ops, x, o)[y] =
                 IF y = x /\ KeyOf(x, o) \notin keys THEN o ELSE ops[y]
  BY DEF Enqueued

LEMMA OpType ==
    ASSUME NEW kind \in {"create", "update"}, NEW path \in Paths, NEW i \in Nat,
           NEW row \in PartRow \cup {NoTarget}
    PROVE  /\ Op(kind, path, i, row) \in Ops /\ Op(kind, path, i, row).kind = kind
           /\ Op(kind, path, i, row).path = path /\ Op(kind, path, i, row).ref = i
           /\ Op(kind, path, i, row).of = row
  BY DEF Op, Ops

LEMMA CreateType ==
    ASSUME NEW p \in Part, NEW d \in Definition
    PROVE  LET o == CreatePart(p, d) IN
           Fits(p, o) /\ o.of = <<p, d, NoId>> /\ o.of \in PartRow
<1>1. <<p, d, NoId>> \in PartRow /\ NoId \in Nat
  BY DEF PartRow, NoId
<1>2. Category[d] \in Paths /\ p \notin Item
  BY Constants
<1> QED
  BY <1>1, <1>2, OpType DEF CreatePart, Fits

\* A command opens a row only for a target without one, and the row is about it.
Opens(x) ==
    op'[x] # op[x] =>
       op[x] = NoOp /\ Fits(x, op'[x]) /\ (x \in Item => part'[x] # NoTarget)

OpensAll == op' \in [Target -> Ops] /\ \A x \in Target : Opens(x)

LEMMA LotOpens ==
    ASSUME ShapeInv, NEW x \in Item, NEW p \in Part, NEW path \in Places,
           op[x] = NoOp, part'[x] = p, CreatesLot(x, p, path)
    PROVE  OpensAll
<1> DEFINE partOp == CreatePart(p, def[p])
           row == IF column[p] # NoId THEN NoTarget
                  ELSE IF op[p] # NoOp THEN op[p].of ELSE partOp.of
           lotOp == Op("create", path, column[p], row)
           first == IF Ensures(p) THEN Enqueued(op, p, partOp) ELSE op
<1>1. op' = Enqueued(first, x, lotOp)
  BY DEF CreatesLot
<1>2. x \in Target /\ p \in Target /\ x # p /\ x \notin Part /\ column[p] \in Nat
      /\ op \in [Target -> Ops] /\ def[p] \in Definition /\ path \in Paths /\ NoTarget # p
      /\ (column[p] # NoId => PartRef(column[p]))
  BY Constants DEF ShapeInv, RefInv, OpInv, ItemInv, IsRef, Names, PartRef
<1>3. Fits(p, partOp) /\ partOp.of \in PartRow /\ partOp \in Ops
  BY <1>2, CreateType DEF Fits
<1>4. row \in PartRow \cup {NoTarget} /\ (column[p] = NoId => row \in PartRow)
  <2>1. op[p] # NoOp => op[p].of \in PartRow
    BY <1>2 DEF ShapeInv, OpInv, Fits
  <2> QED
    BY <1>3, <2>1
<1> HIDE DEF partOp, row
<1>5. lotOp \in Ops /\ Fits(x, lotOp)
  BY <1>2, <1>4, OpType DEF Fits
<1> HIDE DEF lotOp
<1>6. first \in [Target -> Ops]
      /\ \A y \in Target : first[y] = op[y] \/ (y = p /\ op[p] = NoOp /\ first[y] = partOp)
  BY <1>2, <1>3, Enqueueing DEF Ensures
<1> HIDE DEF first
<1>7. op' \in [Target -> Ops]
      /\ \A y \in Target : op'[y] = first[y] \/ (y = x /\ op'[y] = lotOp)
  <2>1. /\ Enqueued(first, x, lotOp) \in [Target -> Ops]
        /\ \A y \in Target : Enqueued(first, x, lotOp)[y] =
              IF y = x /\ KeyOf(x, lotOp) \notin keys THEN lotOp ELSE first[y]
    <3>1. x \in Target /\ lotOp \in Ops /\ first \in [Target -> Ops]
      BY <1>2, <1>5, <1>6
    <3>2. ASSUME NEW f \in [Target -> Ops], NEW o \in Ops
          PROVE  /\ Enqueued(f, x, o) \in [Target -> Ops]
                 /\ \A y \in Target : Enqueued(f, x, o)[y] =
                       IF y = x /\ KeyOf(x, o) \notin keys THEN o ELSE f[y]
      BY <3>1, Enqueueing
    <3> QED
      BY <3>1, <3>2
  <2> QED
    BY <1>1, <2>1
<1>8. ASSUME NEW y \in Target PROVE Opens(y)
  <2>1. CASE op'[y] = op[y]
    BY <2>1 DEF Opens
  <2>2. CASE y = p /\ op[p] = NoOp /\ op'[y] = partOp
    BY <1>3, <2>2, Constants DEF Opens
  <2>3. CASE y = x /\ op'[y] = lotOp
    BY <1>2, <1>5, <2>3 DEF Opens
  <2> QED
    BY <1>6, <1>7, <2>1, <2>2, <2>3
<1> QED
  BY <1>7, <1>8 DEF OpensAll

\* One more row at most.
LEMMA RowOpens ==
    ASSUME ShapeInv, NEW x \in Target, NEW o, Fits(x, o), op[x] = NoOp,
           op' = Enqueued(op, x, o), x \in Item => part'[x] # NoTarget
    PROVE  OpensAll
<1>1. op \in [Target -> Ops] /\ o \in Ops
  BY DEF ShapeInv, OpInv, Fits
<1>2. op' \in [Target -> Ops]
      /\ \A y \in Target : op'[y] = op[y] \/ (y = x /\ op'[y] = o)
  BY <1>1, Enqueueing
<1>3. ASSUME NEW y \in Target PROVE Opens(y)
  BY <1>2 DEF Opens
<1> QED
  BY <1>2, <1>3 DEF OpensAll

LEMMA NothingOpens ==
    ASSUME ShapeInv, op' = op
    PROVE  OpensAll
  BY DEF ShapeInv, OpInv, OpensAll, Opens

LEMMA CommandOps ==
    ASSUME ShapeInv, Command
    PROVE  OpensAll
<1>0. /\ part \in [Item -> Part \cup {NoTarget}] /\ column \in [Target -> Nat]
      /\ \A x \in Item : part[x] # NoTarget => place[x] \in Places /\ part[x] \in Part
      /\ \A x \in Item : part[x] = NoTarget => op[x] = NoOp
      /\ live \subseteq Part
      /\ \A x \in Target : column[x] # NoId => IsRef(x, column[x])
  BY DEF ShapeInv, ItemInv, RefInv
<1>1. ASSUME NEW x \in Item, NEW path \in Places, Move(x, path) PROVE OpensAll
  <2>1. part[x] # NoTarget /\ op[x] = NoOp /\ part' = part
    BY <1>0, <1>1 DEF Move
  <2>2. CASE column[x] = NoId
    BY <1>1, <2>2, NothingOpens DEF Move
  <2>3. CASE column[x] # NoId
    <3> DEFINE o == Op("update", path, column[x], NoTarget)
    <3>1. op' = Enqueued(op, x, o)
      BY <1>1, <2>3 DEF Move
    <3>2. x \in Target /\ x \notin Part /\ column[x] \in Nat /\ path \in Paths
          /\ LotRef(column[x])
      BY <1>0, <2>3, Constants DEF IsRef, Names, LotRef
    <3>3. Fits(x, o)
      BY <3>2, OpType DEF Fits
    <3> HIDE DEF o
    <3> QED
      BY <2>1, <3>1, <3>2, <3>3, RowOpens
  <2> QED
    BY <2>2, <2>3
<1>2. ASSUME NEW x \in Item, NEW path \in Places, NEW p \in Part, AssignQr(x, p, path)
      PROVE  OpensAll
  <2>1. op[x] = NoOp /\ part'[x] = p /\ CreatesLot(x, p, path)
    BY <1>0, <1>2 DEF AssignQr
  <2> QED
    BY <2>1, LotOpens
<1>3. ASSUME NEW x \in Item, NEW p \in Part, ReassignPartType(x, p) PROVE OpensAll
  <2>1. op[x] = NoOp /\ part'[x] = p /\ place[x] \in Places
    BY <1>0, <1>3 DEF ReassignPartType
  <2>2. CASE column[x] = NoId
    BY <1>3, <2>2, NothingOpens DEF ReassignPartType
  <2>3. CASE column[x] # NoId
    BY <1>3, <2>1, <2>3, LotOpens DEF ReassignPartType
  <2> QED
    BY <2>2, <2>3
<1>4. ASSUME NEW p \in Part, NEW d \in Definition,
             ApprovePartType(p, d) \/ \E q \in Part : MergePartTypes(p, q, d)
      PROVE  OpensAll
  BY <1>4, NothingOpens DEF MergePartTypes, ApprovePartType, table
<1>5. ASSUME NEW p \in Part, NEW d \in Definition, EditPartType(p, d) PROVE OpensAll
  <2> DEFINE o == IF column[p] = NoId THEN CreatePart(p, d) ELSE UpdatePart(p, d, column[p])
  <2>1. op[p] = NoOp /\ op' = Enqueued(op, p, o)
    BY <1>5 DEF EditPartType
  <2>2. p \in Target /\ p \notin Item
    BY Constants
  <2>3. Fits(p, o)
    <3>1. CASE column[p] = NoId
      BY <3>1, CreateType
    <3>2. CASE column[p] # NoId
      <4>1. PartRef(column[p]) /\ column[p] \in Nat /\ Category[d] \in Paths
        BY <1>0, <2>2, <3>2, Constants DEF IsRef, Names, PartRef
      <4>2. column[p] \in Id
        <5>1. Objects /\ MaxObjects \in Nat
          BY ObjectsAre, RemoteAssumption DEF ShapeInv, RemoteAssumption
        <5> QED
          BY <4>1, <5>1 DEF PartRef, Objects, Id, ShapeInv, ObjInv
      <4>3. <<p, d, column[p]>> \in PartRow
        BY <4>2 DEF PartRow
      <4>4. Fits(p, UpdatePart(p, d, column[p]))
        BY <2>2, <4>1, <4>3, OpType DEF Fits, UpdatePart
      <4> QED
        BY <3>2, <4>4
    <3> QED
      BY <3>1, <3>2
  <2> HIDE DEF o
  <2> QED
    BY <2>1, <2>2, <2>3, RowOpens
<1> QED
  BY <1>1, <1>2, <1>3, <1>4, <1>5 DEF Command

-----------------------------------------------------------------------------
(* Items and references.                                                       *)

Forgets == column' \in [Target -> Nat] /\ \A x \in Target : column'[x] \in {column[x], NoId}

LEMMA CommandItems ==
    ASSUME ShapeInv, Command
    PROVE  /\ part' \in [Item -> Part \cup {NoTarget}]
           /\ place' \in [Item -> Places \cup {<<>>}]
           /\ live' \subseteq Part /\ def' \in [Part -> Definition]
           /\ \A x \in Item : part'[x] # NoTarget => place'[x] \in Places
           /\ \A x \in Item : part'[x] = NoTarget => part[x] = NoTarget
           /\ Forgets
           /\ \A i \in drops' : i \in drops \/ \E x \in Item : column[x] # NoId /\ i = column[x]
           /\ pass' = pass /\ dead' = dead
<1>0. /\ part \in [Item -> Part \cup {NoTarget}] /\ column \in [Target -> Nat]
      /\ place \in [Item -> Places \cup {<<>>}]
      /\ \A x \in Item : part[x] # NoTarget => place[x] \in Places
      /\ live \subseteq Part /\ def \in [Part -> Definition]
      /\ NoTarget \notin Part /\ Item \subseteq Target /\ NoId \in Nat
  BY Constants DEF ShapeInv, ItemInv, RefInv, NoId
<1>1. CASE \E x \in Item, path \in Places : Move(x, path)
  BY <1>0, <1>1 DEF Move, Forgets
<1>2. CASE \E x \in Item, path \in Places, p \in Part : AssignQr(x, p, path)
  BY <1>0, <1>2 DEF AssignQr, Forgets
<1>3. ASSUME NEW x \in Item, NEW p \in Part, ReassignPartType(x, p)
      PROVE  /\ part' \in [Item -> Part \cup {NoTarget}]
             /\ UNCHANGED <<place, live, def, dead, pass>>
             /\ \A y \in Item : part[y] = NoTarget <=> part'[y] = NoTarget
             /\ Forgets
             /\ \A i \in drops' : i \in drops \/ (column[x] # NoId /\ i = column[x])
  BY <1>0, <1>3 DEF ReassignPartType, Forgets
<1>4. CASE \E p, q \in Part, d \in Definition : MergePartTypes(p, q, d)
  BY <1>0, <1>4, Constants DEF MergePartTypes, Forgets, table
<1>5. CASE \E p \in Part, d \in Definition : EditPartType(p, d) \/ ApprovePartType(p, d)
  <2>1. PICK p \in Part, d \in Definition : EditPartType(p, d) \/ ApprovePartType(p, d)
    BY <1>5
  <2>2. def' = [def EXCEPT ![p] = d] /\ UNCHANGED <<column, part, place, live, dead, drops, pass>>
    BY <2>1 DEF EditPartType, ApprovePartType, table
  <2> QED
    BY <1>0, <2>2 DEF Forgets
<1>6. CASE \E x \in Item, p \in Part : ReassignPartType(x, p)
  BY <1>0, <1>3, <1>6
<1> QED
  BY <1>1, <1>2, <1>4, <1>5, <1>6 DEF Command

\* What a step of a tick leaves alone.
LEMMA WorkerSteps ==
    ASSUME NEW t \in Tick, Worker(t)
    PROVE  UNCHANGED <<part, place, def, live, drops, keys, pass>>
<1>1. CASE (\E x \in Target : Take(t, x)) \/ Find(t) \/ Create(t) \/ Call(t)
  BY <1>1 DEF Take, Find, Create, Call, inventory, table
<1>2. CASE (\E again \in BOOLEAN : CreateUnanswered(t, again)) \/ Fails(t)
  BY <1>2 DEF CreateUnanswered, Fails, inventory, table
<1>3. CASE Settle(t) \/ GivesUp(t)
  BY <1>3 DEF Settle, GivesUp, inventory
<1> QED
  BY <1>1, <1>2, <1>3 DEF Worker

\* Only the end of an operation changes the rows and the answers.
Ends(t) == Settle(t) \/ GivesUp(t)

LEMMA WorkerOps ==
    ASSUME NEW t \in Tick, Worker(t)
    PROVE  Ends(t) \/ UNCHANGED <<op, made, column>>
<1>1. CASE (\E x \in Target : Take(t, x)) \/ Find(t) \/ Create(t) \/ Call(t)
  BY <1>1 DEF Take, Find, Create, Call, table
<1>2. CASE (\E again \in BOOLEAN : CreateUnanswered(t, again)) \/ Fails(t)
  BY <1>2 DEF CreateUnanswered, Fails, table
<1> QED
  BY <1>1, <1>2 DEF Worker, Ends

\* An operation ends: its row is closed, and an answer goes into the column.
Ended(t) ==
    LET x == work[t].on IN
    /\ x \in Target /\ op[x].kind # "none" /\ work[t].stage # "idle"
    /\ op' = [op EXCEPT ![x] = NoOp] /\ Puts(t, IdleTick)
    /\ \/ column' = column /\ made' = made
       \/ /\ work[t].stage = "settle" /\ IsRef(x, work[t].at)
          /\ column' = [column EXCEPT ![x] = IF x \in live \cup Item THEN work[t].at ELSE @]
          /\ made' = IF x \in Part THEN [made EXCEPT ![op[x].of] = work[t].at] ELSE made
    /\ UNCHANGED <<remote, cache, part, place, def, live, drops, keys, pass, raced>>

LEMMA Endings ==
    ASSUME ShapeInv, NEW t \in Tick, Ends(t)
    PROVE  Ended(t)
<1> DEFINE x == work[t].on
<1>1. work[t].stage # "idle"
  BY DEF Ends, Settle, GivesUp
<1>2. x \in Target /\ op[x].kind # "none" /\ (work[t].stage = "settle" => IsRef(x, work[t].at))
  BY <1>1 DEF ShapeInv, WorkInv, TickFits, IdleTick
<1>3. CASE Settle(t)
  BY <1>1, <1>2, <1>3 DEF Settle, Ended, AnswerIri, inventory, Puts
<1>4. CASE GivesUp(t)
  BY <1>1, <1>2, <1>4 DEF GivesUp, Ended, inventory, Puts
<1> QED
  BY <1>3, <1>4 DEF Ends

LEMMA Afterwards ==
    ASSUME ShapeInv, NEW t \in Tick, Ended(t)
    PROVE  /\ op' \in [Target -> Ops] /\ column' \in [Target -> Nat] /\ made' \in [PartRow -> Nat]
           /\ op'[work[t].on] = NoOp
           /\ \A x \in Target \ {work[t].on} : op'[x] = op[x] /\ column'[x] = column[x]
           /\ LET x == work[t].on IN
              /\ column'[x] = column[x] \/ (IsRef(x, work[t].at) /\ column'[x] = work[t].at)
              /\ \A row \in PartRow : made'[row] = made[row] \/ PartRef(made'[row])
<1> DEFINE x == work[t].on
<1>1. op \in [Target -> Ops] /\ column \in [Target -> Nat] /\ made \in [PartRow -> Nat]
      /\ work[t].at \in Nat /\ NoOp \in Ops
  BY DEF ShapeInv, OpInv, RefInv, WorkInv, Ticks, NoOp, Ops, NoId
<1> HIDE DEF x
<1>2. x \in Target /\ op' = [op EXCEPT ![x] = NoOp]
  BY DEF Ended, x
<1>3. op' \in [Target -> Ops] /\ op'[x] = NoOp /\ \A y \in Target \ {x} : op'[y] = op[y]
  BY <1>1, <1>2
<1>4. CASE column' = column /\ made' = made
  BY <1>1, <1>3, <1>4 DEF x
<1>5. CASE /\ IsRef(x, work[t].at)
           /\ column' = [column EXCEPT ![x] = IF x \in live \cup Item THEN work[t].at ELSE @]
           /\ made' = IF x \in Part THEN [made EXCEPT ![op[x].of] = work[t].at] ELSE made
  <2>1. /\ column' \in [Target -> Nat] /\ \A y \in Target \ {x} : column'[y] = column[y]
        /\ column'[x] = column[x] \/ column'[x] = work[t].at
    BY <1>1, <1>2, <1>5
  <2>2. /\ made' \in [PartRow -> Nat]
        /\ \A row \in PartRow : made'[row] = made[row] \/ PartRef(made'[row])
    <3>1. x \in Part => PartRef(work[t].at)
      BY <1>5 DEF IsRef, Names, PartRef
    <3> QED
      BY <1>1, <1>5, <3>1
  <2> QED
    BY <1>3, <1>5, <2>1, <2>2 DEF x
<1> QED
  BY <1>4, <1>5 DEF Ended, x

LEMMA OpStep ==
    ASSUME ShapeInv, [Next]_vars
    PROVE  OpInv'
<1>1. Kept
  BY ObjectStep
<1>2. OpInv
  BY DEF ShapeInv
<1>3. ASSUME op' \in [Target -> Ops],
             \A x \in Target : op'[x] = NoOp \/ Fits(x, op'[x])
      PROVE  OpInv'
  <2>1. ASSUME NEW x \in Target, NEW o, o = op'[x], o # NoOp PROVE Fits(x, o)'
    BY <1>1, <1>3, <2>1, RefsStay
  <2> QED
    BY <1>3, <2>1 DEF OpInv, Fits
<1>4. CASE op' = op
  BY <1>2, <1>3, <1>4 DEF OpInv
<1>5. CASE Command
  <2>1. OpensAll
    BY <1>5, CommandOps
  <2> QED
    BY <1>2, <1>3, <2>1 DEF OpInv, OpensAll, Opens
<1>6. ASSUME NEW t \in Tick, Ends(t) PROVE OpInv'
  <2>1. Ended(t)
    BY <1>6, Endings
  <2>2. /\ op' \in [Target -> Ops] /\ op'[work[t].on] = NoOp
        /\ \A x \in Target \ {work[t].on} : op'[x] = op[x]
    BY <2>1, Afterwards
  <2>3. \A x \in Target : op'[x] = NoOp \/ Fits(x, op'[x])
    BY <1>2, <2>2 DEF OpInv
  <2> QED
    BY <1>3, <2>2, <2>3
<1>7. CASE Retries
  <2>1. PICK row \in dead : Retry(row[1], row[2])
    BY <1>7 DEF Retries
  <2>2. PICK x, o : x = row[1] /\ o = row[2]
    OBVIOUS
  <2>3. x \in Target /\ Fits(x, o) /\ o \in Ops
    BY <2>2 DEF ShapeInv, DeadInv, DeadFits, Fits
  <2>4. op' = [op EXCEPT ![x] = o]
    BY <2>1, <2>2 DEF Retry
  <2>5. op' \in [Target -> Ops] /\ \A y \in Target : op'[y] = IF y = x THEN o ELSE op[y]
    BY <1>2, <2>3, <2>4 DEF OpInv
  <2>6. \A y \in Target : op'[y] = NoOp \/ Fits(y, op'[y])
    BY <1>2, <2>3, <2>5 DEF OpInv
  <2> QED
    BY <1>3, <2>5, <2>6
<1>8. CASE Reconciler
  BY <1>4, <1>8 DEF Reconciler, StartPass, Clear, PassGoesOn, PassFails, Ask, table
<1>9. CASE Deletes
  BY <1>4, <1>9 DEF Deletes, DropLot, DeletedByHand, table
<1> QED
  BY <1>4, <1>5, <1>6, <1>7, <1>8, <1>9, WorkerOps DEF Next, Deletes, Retries, vars

\* A row dies when its operation gives up.
LEMMA DeadStep ==
    ASSUME ShapeInv, [Next]_vars
    PROVE  DeadInv'
<1>1. Kept /\ DeadInv
  BY ObjectStep DEF ShapeInv
<1>2. ASSUME \A x \in Item : part'[x] = NoTarget => part[x] = NoTarget,
             \A row \in dead' : row \in dead \/ DeadFits(row[1], row[2])
      PROVE  DeadInv'
  <2>1. ASSUME NEW row \in dead', NEW x, x = row[1], NEW o, o = row[2]
        PROVE  DeadFits(x, o)'
    <3>1. DeadFits(x, o)
      BY <1>1, <1>2, <2>1 DEF DeadInv
    <3>2. Fits(x, o)'
      BY <1>1, <3>1, RefsStay DEF DeadFits
    <3> QED
      BY <1>2, <3>1, <3>2 DEF DeadFits
  <2> QED
    BY <2>1 DEF DeadInv
<1>3. ASSUME part' = part, dead' \subseteq dead PROVE DeadInv'
  BY <1>2, <1>3
<1>4. CASE Command
  BY <1>2, <1>4, CommandItems
<1>5. CASE Retries
  BY <1>3, <1>5 DEF Retries, Retry, inventory
<1>6. CASE Reconciler
  BY <1>3, <1>6 DEF Reconciler, StartPass, Clear, PassGoesOn, PassFails, Ask, table, inventory
<1>7. CASE Deletes
  BY <1>3, <1>7 DEF Deletes, DropLot, DeletedByHand, table, inventory
<1>8. ASSUME NEW t \in Tick, Worker(t), ~GivesUp(t) PROVE DeadInv'
  <2>1. dead' = dead
    BY <1>8 DEF Worker, Take, Find, Create, CreateUnanswered, Call, Settle, Fails, table
  <2> QED
    BY <1>3, <1>8, <2>1, WorkerSteps
<1>9. ASSUME NEW t \in Tick, GivesUp(t) PROVE DeadInv'
  <2>1. PICK x : x = work[t].on
    OBVIOUS
  <2>2. dead' = dead \cup {<<x, op[x]>>} /\ part' = part /\ work[t].stage # "idle"
    BY <1>9, <2>1 DEF GivesUp, inventory
  <2>3. x \in Target /\ op[x].kind # "none" /\ Fits(x, op[x])
    BY <2>1, <2>2, TickAre DEF ShapeInv, WorkInv, TickFits, IdleTick
  <2>4. x \in Item => part[x] # NoTarget
    BY <2>3 DEF ShapeInv, ItemInv, NoOp
  <2>5. DeadFits(x, op[x])
    BY <2>3, <2>4 DEF DeadFits
  <2> QED
    BY <1>2, <2>2, <2>5
<1> QED
  BY <1>3, <1>4, <1>5, <1>6, <1>7, <1>8, <1>9 DEF Next, Deletes, Retries, vars

LEMMA ItemStep ==
    ASSUME ShapeInv, [Next]_vars
    PROVE  ItemInv'
<1>0. ItemInv
  BY DEF ShapeInv
<1>1. CASE Command
  <2>1. /\ part' \in [Item -> Part \cup {NoTarget}] /\ place' \in [Item -> Places \cup {<<>>}]
        /\ live' \subseteq Part /\ def' \in [Part -> Definition]
        /\ \A x \in Item : part'[x] # NoTarget => place'[x] \in Places
        /\ \A x \in Item : part'[x] = NoTarget => part[x] = NoTarget
        /\ Forgets
    BY <1>1, CommandItems
  <2>2. ASSUME NEW x \in Item, part'[x] = NoTarget PROVE op'[x] = NoOp /\ column'[x] = NoId
    <3>1. op[x] = NoOp /\ column[x] = NoId /\ x \in Target
      BY <1>0, <2>1, <2>2, Constants DEF ItemInv
    <3>2. Opens(x)
      BY <1>1, <3>1, CommandOps DEF OpensAll
    <3>3. op'[x] = op[x]
      BY <2>2, <3>2, Constants DEF Opens, Target
    <3> QED
      BY <2>1, <3>1, <3>3 DEF Forgets
  <2> QED
    BY <2>1, <2>2 DEF ItemInv
<1>2. ASSUME NEW t \in Tick, Ends(t) PROVE ItemInv'
  <2>1. Ended(t)
    BY <1>2, Endings
  <2>2. ASSUME NEW x \in Item, part[x] = NoTarget PROVE op'[x] = NoOp /\ column'[x] = NoId
    <3>1. op[x] = NoOp /\ column[x] = NoId /\ x \in Target
      BY <1>0, <2>2, Constants DEF ItemInv
    <3>2. x # work[t].on
      BY <2>1, <3>1 DEF Ended, NoOp
    <3> QED
      BY <2>1, <3>1, <3>2, Afterwards
  <2>3. UNCHANGED <<part, place, def, live>>
    BY <2>1 DEF Ended
  <2> QED
    BY <1>0, <2>2, <2>3 DEF ItemInv
<1>3. ASSUME UNCHANGED <<part, place, def, live, op>>,
             \A x \in Item : column'[x] \in {column[x], NoId}
      PROVE  ItemInv'
  BY <1>0, <1>3 DEF ItemInv
<1>4. CASE Reconciler
  <2>1. UNCHANGED <<part, place, def, live, op>>
    BY <1>4 DEF Reconciler, StartPass, Clear, PassGoesOn, PassFails, Ask, table, inventory
  <2>2. \A x \in Item : column'[x] \in {column[x], NoId}
    BY <1>4, Constants DEF Reconciler, StartPass, Clear, PassGoesOn, PassFails, Ask
  <2> QED
    BY <1>3, <2>1, <2>2
<1>5. CASE Deletes
  BY <1>3, <1>5 DEF Deletes, DropLot, DeletedByHand, table, inventory
<1>6. ASSUME NEW t \in Tick, Worker(t), ~Ends(t) PROVE ItemInv'
  BY <1>3, <1>6, WorkerSteps, WorkerOps
<1>7. CASE UNCHANGED vars
  BY <1>3, <1>7 DEF vars
<1>8. CASE Retries
  <2>1. UNCHANGED <<part, place, def, live, column>>
    BY <1>8 DEF Retries, Retry, inventory
  <2>2. \A x \in Item : part[x] = NoTarget => op'[x] = op[x]
    <3>1. PICK row \in dead : Retry(row[1], row[2])
      BY <1>8 DEF Retries
    <3>2. row[1] \in Item => part[row[1]] # NoTarget
      BY DEF ShapeInv, DeadInv, DeadFits
    <3>3. PICK y, o : y = row[1] /\ o = row[2]
      OBVIOUS
    <3>4. op' = [op EXCEPT ![y] = o] /\ (y \in Item => part[y] # NoTarget)
      BY <3>1, <3>2, <3>3 DEF Retry
    <3> QED
      BY <3>4, Constants DEF ShapeInv, OpInv
  <2> QED
    BY <1>0, <2>1, <2>2 DEF ItemInv
<1> QED
  BY <1>1, <1>2, <1>4, <1>5, <1>6, <1>7, <1>8 DEF Next, Deletes, Retries

\* Objects that were not there before: a node that was asked for, or what an operation was
\* for.
LEMMA NewObjects ==
    ASSUME ShapeInv, [Next]_vars, NEW i \in DOMAIN remote', i \notin DOMAIN remote
    PROVE  \E t \in Tick :
              /\ Worker(t)
              /\ \/ work[t].stage = "create" /\ remote'[i] = NodeWanted(t) /\ Adds(NodeWanted(t))
                 \/ work[t].stage = "call" /\ remote'[i] = Created(t) /\ CallAdds(t)
<1>0. Objects
  BY ObjectsAre DEF ShapeInv
<1>1. remote' # remote
  OBVIOUS
<1>2. ~Quiet
  BY <1>1, QuietSteps
<1>3. ~Deletes
  BY Deletions DEF Deletes
<1>4. PICK t \in Tick : Worker(t)
  BY <1>2, <1>3 DEF Next, Quiet, Retries, Deletes
<1>5. ASSUME NEW e, Adds(e) PROVE remote'[i] = e
  <2>1. i = Len(remote) + 1
    BY <1>0, <1>5 DEF Adds, Objects
  <2> QED
    BY <1>5, <2>1 DEF Adds
<1>6. CASE Create(t) \/ \E again \in BOOLEAN : CreateUnanswered(t, again)
  <2>1. work[t].stage = "create" /\ HasRoom /\ remote' = Append(remote, NodeWanted(t))
    BY <1>6 DEF Create, CreateUnanswered
  <2>2. Adds(NodeWanted(t))
    BY <2>1, Creates
  <2> QED
    BY <1>4, <1>5, <2>1, <2>2
<1>7. CASE Call(t)
  <2>1. CallAdds(t) \/ CallMoves(t)
    BY <1>7, Calls
  <2>2. CallAdds(t)
    BY <2>1 DEF CallMoves
  <2>3. Adds(Created(t)) /\ work[t].stage = "call"
    BY <1>7, <2>2 DEF CallAdds, Call
  <2> QED
    BY <1>4, <1>5, <2>2, <2>3
<1>8. CASE (\E x \in Target : Take(t, x)) \/ Find(t) \/ Settle(t) \/ Fails(t) \/ GivesUp(t)
  BY <1>1, <1>8 DEF Take, Find, Settle, Fails, GivesUp
<1> QED
  BY <1>4, <1>6, <1>7, <1>8 DEF Worker

\* What is written into a column, or taken from it.
LEMMA ColumnStep ==
    ASSUME ShapeInv, [Next]_vars
    PROVE  /\ column' \in [Target -> Nat] /\ made' \in [PartRow -> Nat]
           /\ \/ Forgets /\ made' = made
              \/ \E t \in Tick : Ended(t)
<1>0. column \in [Target -> Nat] /\ made \in [PartRow -> Nat] /\ NoId \in Nat
  BY DEF ShapeInv, RefInv, NoId
<1>1. CASE Command
  BY <1>0, <1>1, CommandItems, QuietSteps DEF Quiet, Forgets
<1>2. CASE Reconciler
  <2>1. made' = made
    BY <1>2, QuietSteps DEF Quiet
  <2>2. Forgets
    <3>1. CASE Clear
      BY <1>0, <3>1 DEF Clear, Forgets
    <3>2. CASE ~Clear
      BY <1>0, <1>2, <3>2 DEF Reconciler, StartPass, PassGoesOn, PassFails, Ask, Forgets
    <3> QED
      BY <3>1, <3>2
  <2> QED
    BY <1>0, <2>1, <2>2 DEF Forgets
<1>3. ASSUME column' = column, made' = made PROVE Forgets
  BY <1>0, <1>3 DEF Forgets
<1>4. ASSUME NEW t \in Tick, Worker(t)
      PROVE  Ended(t) \/ (column' = column /\ made' = made)
  BY <1>4, WorkerOps, Endings
<1>5. CASE Deletes
  <2>1. column' = column /\ made' = made
    BY <1>5 DEF Deletes, DropLot, DeletedByHand, table
  <2> QED
    BY <1>0, <1>3, <2>1
<1>6. CASE UNCHANGED vars
  BY <1>0, <1>3, <1>6 DEF vars
<1>7. ASSUME NEW t \in Tick, Ended(t)
      PROVE  column' \in [Target -> Nat] /\ made' \in [PartRow -> Nat]
  BY <1>7, Afterwards
<1>8. CASE Retries
  <2>1. column' = column /\ made' = made
    BY <1>8 DEF Retries, Retry
  <2> QED
    BY <1>0, <1>3, <2>1
<1> QED
  BY <1>0, <1>1, <1>2, <1>3, <1>4, <1>5, <1>6, <1>7, <1>8 DEF Next, Deletes, Retries

LEMMA RefStep ==
    ASSUME ShapeInv, [Next]_vars
    PROVE  RefInv'
<1>0. RefInv /\ Objects /\ Kept
  BY ObjectsAre, ObjectStep DEF ShapeInv
<1>1. /\ \A x, i : IsRef(x, i) => IsRef(x, i)'
      /\ \A i : PartRef(i) => PartRef(i)'
      /\ \A i : LotRef(i) => LotRef(i)'
  BY <1>0, RefsStay
<1>2. column' \in [Target -> Nat] /\ made' \in [PartRow -> Nat]
  BY ColumnStep
<1>3. /\ \A x \in Target : \A i : i = column'[x] /\ i # NoId => IsRef(x, i)'
      /\ \A row \in PartRow : \A i : i = made'[row] /\ i # NoId => PartRef(i)'
  <2>1. CASE Forgets /\ made' = made
    <3>1. \A x \in Target : column'[x] # NoId => IsRef(x, column'[x])
      BY <1>0, <2>1 DEF RefInv, Forgets
    <3>2. \A row \in PartRow : made'[row] # NoId => PartRef(made'[row])
      BY <1>0, <2>1 DEF RefInv
    <3> QED
      BY <1>1, <3>1, <3>2
  <2>2. ASSUME NEW t \in Tick, Ended(t)
        PROVE  /\ \A x \in Target : \A i : i = column'[x] /\ i # NoId => IsRef(x, i)'
               /\ \A row \in PartRow : \A i : i = made'[row] /\ i # NoId => PartRef(i)'
    <3>1. \A x \in Target : column'[x] # NoId => IsRef(x, column'[x])
      BY <1>0, <2>2, Afterwards DEF RefInv
    <3>2. \A row \in PartRow : made'[row] # NoId => PartRef(made'[row])
      BY <1>0, <2>2, Afterwards DEF RefInv
    <3> QED
      BY <1>1, <3>1, <3>2
  <2> QED
    BY <2>1, <2>2, ColumnStep
<1>4. \A i \in drops' : LotRef(i)'
  <2>1. CASE Command
    <3>1. \A x \in Item : column[x] # NoId => LotRef(column[x])
      BY <1>0, Constants DEF RefInv, IsRef, Names, LotRef
    <3>2. \A i \in drops' : i \in drops \/ \E x \in Item : column[x] # NoId /\ i = column[x]
      BY <2>1, CommandItems
    <3> QED
      BY <1>0, <1>1, <3>1, <3>2 DEF RefInv
  <2>2. ASSUME drops' \subseteq drops PROVE \A i \in drops' : LotRef(i)'
    BY <1>0, <1>1, <2>2 DEF RefInv
  <2>3. CASE Reconciler
    BY <2>2, <2>3 DEF Reconciler, StartPass, Clear, PassGoesOn, PassFails, Ask, table
  <2>4. CASE Deletes
    BY <2>2, <2>4 DEF Deletes, DropLot, DeletedByHand, table
  <2>5. CASE \E t \in Tick : Worker(t)
    BY <2>2, <2>5, WorkerSteps
  <2>6. CASE Retries
    BY <2>2, <2>6 DEF Retries, Retry
  <2> QED
    BY <2>1, <2>2, <2>3, <2>4, <2>5, <2>6 DEF Next, Deletes, Retries, vars
<1>5. ASSUME NEW i \in DOMAIN remote', NEW j, j = remote'[i].of
      PROVE  IF remote'[i].kind = "lot" THEN PartRef(j)' ELSE j = NoId
  <2>1. CASE i \in DOMAIN remote
    BY <1>0, <1>1, <1>5, <2>1 DEF Kept, RefInv
  <2>2. CASE i \notin DOMAIN remote
    <3>1. PICK t \in Tick :
             \/ work[t].stage = "create" /\ remote'[i] = NodeWanted(t)
             \/ work[t].stage = "call" /\ remote'[i] = Created(t) /\ CallAdds(t)
      BY <2>2, NewObjects
    <3>2. CASE work[t].stage = "create" /\ remote'[i] = NodeWanted(t)
      BY <1>5, <3>2 DEF NodeWanted, Node, TreeOf
    <3>3. CASE work[t].stage = "call" /\ remote'[i] = Created(t) /\ CallAdds(t)
      <4>1. work[t].on \in Item => PartRef(PartOf(work[t].on))
        BY <3>3, TickAre DEF CallAdds
      <4>2. work[t].on \in Target
        BY <3>3, TickAre
      <4>3. IF remote'[i].kind = "lot" THEN PartRef(remote'[i].of) ELSE remote'[i].of = NoId
        BY <3>3, <4>1, <4>2, Constants DEF CallAdds
      <4> QED
        BY <1>1, <1>5, <4>3
    <3> QED
      BY <3>1, <3>2, <3>3
  <2> QED
    BY <2>1, <2>2
<1> QED
  BY <1>2, <1>3, <1>4, <1>5 DEF RefInv

-----------------------------------------------------------------------------
(* Ticks.                                                                      *)

\* What a tick is about is nobody else's to change.
Undisturbed ==
    /\ \A u \in Tick : work'[u] = work[u] /\ work[u].stage # "idle" =>
                          op'[work[u].on] = op[work[u].on]
    /\ \A row \in PartRow : made[row] # NoId => made'[row] # NoId

LEMMA Undisturbing ==
    ASSUME ShapeInv, [Next]_vars
    PROVE  Undisturbed
<1>0. \A u \in Tick : work[u].stage # "idle" => work[u].on \in Target /\ op[work[u].on] # NoOp
  BY DEF ShapeInv, WorkInv, TickFits, IdleTick, NoOp
<1>1. CASE op' = op /\ made' = made
  BY <1>1 DEF Undisturbed
<1>2. CASE Command
  <2>1. \A x \in Target : op[x] # NoOp => op'[x] = op[x]
    BY <1>2, CommandOps DEF OpensAll, Opens
  <2>2. made' = made
    BY <1>2, QuietSteps DEF Quiet
  <2> QED
    BY <1>0, <2>1, <2>2 DEF Undisturbed
<1>3. ASSUME NEW t \in Tick, Ends(t) PROVE Undisturbed
  <2>1. Ended(t)
    BY <1>3, Endings
  <2>2. work[t].on # NoTarget /\ work'[t] # work[t]
    BY <2>1, Constants DEF Ended, Puts, IdleTick, ShapeInv, WorkInv
  <2>3. ASSUME NEW u \in Tick, work'[u] = work[u], work[u].stage # "idle"
        PROVE  op'[work[u].on] = op[work[u].on]
    <3>1. u # t
      BY <2>2, <2>3
    <3>2. work[u].on # work[t].on
      BY <2>2, <3>1 DEF ShapeInv, WorkInv
    <3> QED
      BY <1>0, <2>1, <2>3, <3>2, Afterwards
  <2>4. ASSUME NEW row \in PartRow, made[row] # NoId PROVE made'[row] # NoId
    <3>1. made'[row] = made[row] \/ PartRef(made'[row])
      BY <2>1, Afterwards
    <3>2. \A i \in DOMAIN remote : i # NoId
      BY ObjectsAre DEF ShapeInv, Objects, NoId
    <3> QED
      BY <2>4, <3>1, <3>2 DEF PartRef
  <2> QED
    BY <2>3, <2>4 DEF Undisturbed
<1>4. CASE Reconciler
  BY <1>1, <1>4 DEF Reconciler, StartPass, Clear, PassGoesOn, PassFails, Ask, table
<1>5. CASE Deletes
  BY <1>1, <1>5 DEF Deletes, DropLot, DeletedByHand, table
<1>6. ASSUME NEW t \in Tick, Worker(t), ~Ends(t) PROVE Undisturbed
  BY <1>1, <1>6, WorkerOps
<1>7. CASE UNCHANGED vars
  BY <1>1, <1>7 DEF vars
<1>8. CASE Retries
  <2>1. PICK x, o : Retry(x, o)
    BY <1>8 DEF Retries
  <2>2. op[x] = NoOp /\ op' = [op EXCEPT ![x] = o] /\ made' = made
    BY <2>1 DEF Retry
  <2>3. \A y \in Target : op[y] # NoOp => op'[y] = op[y]
    BY <2>2 DEF ShapeInv, OpInv
  <2> QED
    BY <1>0, <2>2, <2>3 DEF Undisturbed
<1> QED
  BY <1>2, <1>3, <1>4, <1>5, <1>6, <1>7, <1>8 DEF Next, Deletes, Retries

LEMMA Unmoved ==
    ASSUME ShapeInv, Kept, Undisturbed, NEW u \in Tick, work'[u] = work[u]
    PROVE  TickFits(u)'
<1>0. PICK x : x = work[u].on
  OBVIOUS
<1>1. CASE work[u] = IdleTick
  BY <1>1 DEF TickFits
<1>2. CASE work[u] # IdleTick
  <2>1. /\ x \in Target /\ op[x].kind # "none"
        /\ work[u].stage # "idle" /\ work[u].at <= Len(remote)
        /\ work[u].stage \in {"find", "create"} => work[u].depth \in DOMAIN op[x].path
        /\ work[u].stage = "settle" => IsRef(x, work[u].at)
        /\ x \in Item => PartOf(x) # NoId
    BY <1>0, <1>2 DEF ShapeInv, WorkInv, TickFits
  <2>2. op'[x] = op[x] /\ work'[u].on = x
    BY <1>0, <2>1 DEF Undisturbed
  <2>3. work[u].at <= Len(remote')
    <3>1. Len(remote) \in Nat /\ Len(remote') \in Nat /\ work[u].at \in Nat
      BY <2>1, ObjectsAre DEF ShapeInv, Objects, Kept, WorkInv, Ticks, ObjInv
    <3> QED
      BY <2>1, <3>1 DEF Kept
  <2>4. work[u].stage = "settle" => IsRef(x, work[u].at)'
    BY <2>1, RefsStay
  <2>5. x \in Item => (IF op[x].ref # NoId THEN op[x].ref ELSE made'[op[x].of]) # NoId
    <3>1. x \in Item => op[x].ref # NoId \/ op[x].of \in PartRow
      <4>1. Fits(x, op[x]) /\ \A i \in DOMAIN remote : i # NoId
        BY <1>0, <2>1, TickAre, ObjectsAre DEF ShapeInv, Objects, NoId
      <4> QED
        BY <4>1 DEF Fits, PartRef, LotRef
    <3> QED
      BY <1>0, <2>1, <3>1 DEF PartOf, Undisturbed
  <2>6. x \in Item => PartOf(x)' # NoId
    BY <2>2, <2>5 DEF PartOf
  <2> QED
    BY <1>0, <2>1, <2>2, <2>3, <2>4, <2>6 DEF TickFits
<1> QED
  BY <1>1, <1>2

LEMMA CacheStep ==
    ASSUME ShapeInv, [Next]_vars
    PROVE  CacheInv'
<1>0. ObjInv' /\ Kept
  BY ObjectStep
<1>1. CASE cache' = cache
  <2>1. \A tree \in Trees, key \in PathKey :
           cache[tree][key] \in Nat /\ cache[tree][key] <= Len(remote)
    BY DEF ShapeInv, CacheInv
  <2>2. Len(remote) \in Nat /\ Len(remote') \in Nat /\ Len(remote) <= Len(remote')
    BY <1>0, ObjectsAre DEF ShapeInv, Objects, Kept, ObjInv
  <2>3. \A tree \in Trees, key \in PathKey : cache[tree][key] <= Len(remote')
    BY <2>1, <2>2
  <2> QED
    BY <1>1, <2>3 DEF ShapeInv, CacheInv
<1>2. ASSUME NEW t \in Tick, Find(t) PROVE CacheInv'
  <2>1. work[t].stage = "find"
    BY <1>2 DEF Find
  <2>2. cache' = cache \/ \E i \in DOMAIN remote' : Descends(t, i)
    BY <1>2, Finds
  <2> QED
    BY <1>0, <1>1, <2>1, <2>2, Descending
<1>3. ASSUME NEW t \in Tick, Create(t) PROVE CacheInv'
  <2>1. work[t].stage = "create" /\ Len(remote') \in DOMAIN remote' /\ Descends(t, Len(remote'))
    BY <1>3, Creates DEF Create
  <2> QED
    BY <1>0, <2>1, Descending
<1>4. ASSUME NEW t \in Tick, Worker(t), ~Find(t), ~Create(t) PROVE cache' = cache
  <2>1. CASE Ends(t)
    BY <2>1, Endings DEF Ended
  <2>2. CASE ~Ends(t)
    BY <1>4, <2>2 DEF Worker, Ends, Take, Call, Fails, CreateUnanswered
  <2> QED
    BY <2>1, <2>2
<1>5. CASE Quiet
  BY <1>1, <1>5, QuietSteps
<1>6. CASE Deletes
  BY <1>1, <1>6 DEF Deletes, DropLot, DeletedByHand
<1> QED
  BY <1>1, <1>2, <1>3, <1>4, <1>5, <1>6 DEF Next, Deletes, Quiet, Retries

LEMMA Moving ==
    ASSUME ShapeInv, Kept, Undisturbed, NEW t \in Tick, NEW w \in Ticks, Puts(t, w), TickFits(t)',
           w.on = NoTarget \/ \A u \in Tick \ {t} : work[u].on # w.on
    PROVE  WorkInv'
<1>1. work \in [Tick -> Ticks]
      /\ \A u, v \in Tick : work[u].on = work[v].on /\ work[u].on # NoTarget => u = v
  BY DEF ShapeInv, WorkInv
<1>2. work' \in [Tick -> Ticks] /\ work'[t] = w /\ \A u \in Tick \ {t} : work'[u] = work[u]
  BY <1>1 DEF Puts
<1>3. ASSUME NEW u \in Tick PROVE TickFits(u)'
  BY <1>2, Unmoved
<1>4. ASSUME NEW u \in Tick, NEW v \in Tick, work'[u].on = work'[v].on, work'[u].on # NoTarget
      PROVE  u = v
  BY <1>1, <1>2, <1>4
<1> QED
  BY <1>2, <1>3, <1>4 DEF WorkInv

LEMMA IdleType == IdleTick \in Ticks /\ IdleTick.on = NoTarget /\ IdleTick.stage = "idle"
  BY DEF IdleTick, Ticks, Stages, NoId

LEMMA Stopping ==
    ASSUME ShapeInv, Kept, Undisturbed, NEW t \in Tick, Puts(t, IdleTick)
    PROVE  WorkInv'
<1>1. work'[t] = IdleTick
  BY DEF Puts, ShapeInv, WorkInv
<1>2. TickFits(t)'
  BY <1>1 DEF TickFits
<1> QED
  BY <1>2, IdleType, Moving

\* A tick that goes on, or takes up an operation nobody works on.
LEMMA GoingOn ==
    ASSUME ShapeInv, Kept, Undisturbed, NEW t \in Tick, NEW w \in Ticks, Puts(t, w),
           UNCHANGED <<op, made>>,
           NEW x \in Target, op[x].kind # "none", x \in Item => PartOf(x) # NoId,
           w.on = x, w.stage # "idle", w.at <= Len(remote'),
           w.stage \in {"find", "create"} => w.depth \in DOMAIN op[x].path,
           w.stage = "settle" => IsRef(x, w.at)',
           \A u \in Tick \ {t} : work[u].on # x
    PROVE  WorkInv'
<1>1. work'[t] = w
  BY DEF Puts, ShapeInv, WorkInv
<1>2. PartOf(x)' = PartOf(x)
  BY DEF PartOf
<1>3. w.stage = "settle" => IsRef(x, work[t].at)'
  BY <1>1 DEF IsRef, Names
<1>4. TickFits(t)'
  BY <1>1, <1>2, <1>3 DEF TickFits
<1> QED
  BY <1>4, Moving

LEMMA Others ==
    ASSUME ShapeInv, NEW t \in Tick, work[t].stage # "idle"
    PROVE  LET x == work[t].on IN
           /\ x \in Target /\ op[x].kind # "none" /\ (x \in Item => PartOf(x) # NoId)
           /\ \A u \in Tick \ {t} : work[u].on # x
           /\ work[t] \in Ticks
<1> DEFINE x == work[t].on
<1>1. x \in Target /\ op[x].kind # "none" /\ (x \in Item => PartOf(x) # NoId)
  BY DEF ShapeInv, WorkInv, TickFits, IdleTick
<1>2. x # NoTarget
  BY <1>1, Constants
<1>3. \A u \in Tick \ {t} : work[u].on # x
  BY <1>2 DEF ShapeInv, WorkInv
<1>4. work[t] \in Ticks
  BY DEF ShapeInv, WorkInv
<1> QED
  BY <1>1, <1>3, <1>4

LEMMA DescendingOn ==
    ASSUME ShapeInv, ObjInv', Kept, Undisturbed, NEW t \in Tick,
           work[t].stage \in {"find", "create"}, UNCHANGED <<op, made>>,
           NEW i \in DOMAIN remote', Descends(t, i)
    PROVE  WorkInv'
<1>1. PICK x : x = work[t].on
  OBVIOUS
<1>2. PICK r : r = Resolving(x, cache', op[x].path, work[t].depth + 1, i)
  OBVIOUS
<1>3. /\ Puts(t, r) /\ r \in Ticks /\ r.on = x /\ r.stage \in {"find", "call"}
      /\ r.at <= Len(remote') /\ (r.stage = "find" => r.depth \in DOMAIN op[x].path)
  BY <1>1, <1>2, Descending
<1>4. /\ x \in Target /\ op[x].kind # "none" /\ (x \in Item => PartOf(x) # NoId)
      /\ \A u \in Tick \ {t} : work[u].on # x
  BY <1>1, Others
<1> QED
  BY <1>3, <1>4, GoingOn

LEMMA WorkStep ==
    ASSUME ShapeInv, [Next]_vars
    PROVE  WorkInv'
<1>0. ObjInv' /\ Kept /\ Undisturbed
  BY ObjectStep, Undisturbing
<1>1. CASE work' = work
  <2>1. \A u \in Tick : TickFits(u)'
    BY <1>0, <1>1, Unmoved
  <2> QED
    BY <1>1, <2>1 DEF ShapeInv, WorkInv
<1>2. ASSUME NEW t \in Tick, NEW x \in Target, Take(t, x) PROVE WorkInv'
  <2>1. /\ op[x].kind # "none" /\ (\A u \in Tick : work[u].on # x)
        /\ (x \in Item => PartOf(x) # NoId) /\ UNCHANGED <<remote, op, made>>
    BY <1>2 DEF Take, table
  <2>2. PICK r : r = Resolving(x, cache, op[x].path, 1, NoId)
    OBVIOUS
  <2>3. Puts(t, r)
    BY <1>2, <2>2 DEF Take, Puts
  <2>4. op[x].path \in Paths
    BY <2>1 DEF ShapeInv, OpInv, NoOp, Fits
  <2>5. CacheFits(cache, Len(remote)) /\ Len(remote) \in Nat /\ 1 \in 1 .. Len(op[x].path) + 1
        /\ NoId \in Nat /\ NoId <= Len(remote)
    BY <2>4, PathsAre, ObjectsAre DEF ShapeInv, CacheInv, CacheFits, Objects, NoId
  <2>6. /\ r \in Ticks /\ r.on = x /\ r.stage \in {"find", "call"} /\ r.at <= Len(remote')
        /\ r.stage = "find" => r.depth \in DOMAIN op[x].path
    <3>1. /\ r \in Ticks /\ r.on = x /\ r.stage \in {"find", "call"} /\ r.at <= Len(remote)
          /\ r.stage = "find" => r.depth \in DOMAIN op[x].path
      <4>1. PICK path, n : path = op[x].path /\ n = Len(remote)
        OBVIOUS
      <4>2. r = Resolving(x, cache, path, 1, NoId)
        BY <2>2, <4>1
      <4>3. n \in Nat /\ CacheFits(cache, n) /\ path \in Paths /\ 1 \in 1 .. Len(path) + 1
            /\ NoId <= n
        BY <2>4, <2>5, <4>1
      <4>4. /\ r \in Ticks /\ r.on = x /\ r.stage \in {"find", "call"} /\ r.at <= n
            /\ r.stage = "find" => r.depth \in DOMAIN path
        <5>1. LET q == Resolving(x, cache, path, 1, NoId) IN
              /\ q \in Ticks /\ q.on = x /\ q.stage \in {"find", "call"} /\ q.at <= n
              /\ q.stage = "find" => q.depth \in DOMAIN path
          BY <2>5, <4>3, ResolvedType
        <5> QED
          BY <4>2, <5>1
      <4> QED
        BY <4>1, <4>4
    <3> QED
      BY <2>1, <3>1
  <2> QED
    BY <1>0, <2>1, <2>3, <2>6, GoingOn
<1>3. ASSUME NEW t \in Tick, Find(t) PROVE WorkInv'
  <2>1. work[t].stage = "find" /\ remote' = remote /\ UNCHANGED <<op, made>>
    BY <1>3 DEF Find, table
  <2>2. ASSUME NEW i \in DOMAIN remote', Descends(t, i) PROVE WorkInv'
    BY <1>0, <2>1, <2>2, DescendingOn
  <2>3. CASE work' = [work EXCEPT ![t] = [@ EXCEPT !.stage = "create"]]
    <3>1. PICK w : w = [work[t] EXCEPT !.stage = "create"]
      OBVIOUS
    <3>2. PICK x : x = work[t].on
      OBVIOUS
    <3>3. work[t] \in Ticks /\ work[t].at <= Len(remote) /\ work[t].depth \in DOMAIN op[x].path
          /\ x \in Target /\ op[x].kind # "none" /\ (x \in Item => PartOf(x) # NoId)
          /\ \A u \in Tick \ {t} : work[u].on # x
      BY <2>1, <3>2, TickAre, NodeType, Others
    <3>4. /\ w \in Ticks /\ w.on = x /\ w.stage = "create" /\ w.at = work[t].at
          /\ w.depth = work[t].depth
      BY <3>1, <3>2, <3>3 DEF Ticks, Stages
    <3>5. Puts(t, w)
      BY <2>3, <3>1 DEF Puts
    <3> QED
      BY <1>0, <2>1, <3>3, <3>4, <3>5, GoingOn
  <2> QED
    BY <1>3, <2>2, <2>3, Finds
<1>4. ASSUME NEW t \in Tick, Create(t) PROVE WorkInv'
  <2>1. work[t].stage = "create" /\ Len(remote') \in DOMAIN remote' /\ Descends(t, Len(remote'))
        /\ UNCHANGED <<op, made>>
    BY <1>4, Creates DEF Create, table
  <2> QED
    BY <1>0, <2>1, DescendingOn
<1>5. ASSUME NEW t \in Tick, NEW again \in BOOLEAN, CreateUnanswered(t, again) PROVE WorkInv'
  BY <1>0, <1>1, <1>5, Stopping DEF CreateUnanswered, Puts
<1>6. ASSUME NEW t \in Tick, Call(t) PROVE WorkInv'
  <2>1. PICK x : x = work[t].on
    OBVIOUS
  <2>2. work[t].stage = "call" /\ UNCHANGED <<op, made>>
    BY <1>6 DEF Call, table
  <2>3. work[t] \in Ticks /\ x \in Target /\ op[x].kind # "none" /\ (x \in Item => PartOf(x) # NoId)
        /\ \A u \in Tick \ {t} : work[u].on # x
    BY <2>1, <2>2, Others
  <2>4. Objects /\ Objects'
    BY <1>0, ObjectsAre DEF ShapeInv, Objects, ObjInv
  <2>5. \E i \in DOMAIN remote' : Puts(t, Settled(work[t], i)) /\ IsRef(x, i)'
    <3>1. CASE CallAdds(t)
      <4>1. PICK i : i = Len(remote) + 1
        OBVIOUS
      <4>2. i \in DOMAIN remote' /\ remote'[i].kind = IF x \in Part THEN "part" ELSE "lot"
        BY <2>1, <2>4, <3>1, <4>1 DEF CallAdds, Adds, Objects
      <4>3. Puts(t, Settled(work[t], i))
        BY <3>1, <4>1 DEF CallAdds, Puts
      <4> QED
        BY <4>2, <4>3 DEF IsRef, Names
    <3>2. CASE CallMoves(t)
      <4>1. PICK i : i = op[x].ref
        OBVIOUS
      <4>2. i \in DOMAIN remote' /\ remote'[i].kind = IF x \in Part THEN "part" ELSE "lot"
        BY <2>1, <3>2, <4>1 DEF CallMoves, IsRef, Names
      <4>3. Puts(t, Settled(work[t], i))
        BY <2>1, <3>2, <4>1 DEF CallMoves, Puts
      <4> QED
        BY <4>2, <4>3 DEF IsRef, Names
    <3> QED
      BY <1>6, <3>1, <3>2, Calls
  <2>6. PICK i \in DOMAIN remote' : Puts(t, Settled(work[t], i)) /\ IsRef(x, i)'
    BY <2>5
  <2>7. i \in Nat /\ i <= Len(remote')
    BY <2>4, <2>6 DEF Objects
  <2>8. PICK w : w = Settled(work[t], i)
    OBVIOUS
  <2>9. w \in Ticks /\ w.on = x /\ w.stage = "settle" /\ w.at = i
    BY <2>1, <2>3, <2>7, <2>8, Settling
  <2> QED
    BY <1>0, <2>2, <2>3, <2>6, <2>7, <2>8, <2>9, GoingOn
<1>7. ASSUME NEW t \in Tick, Ends(t) PROVE WorkInv'
  BY <1>0, <1>7, Endings, Stopping DEF Ended
<1>8. ASSUME NEW t \in Tick, Fails(t) PROVE WorkInv'
  BY <1>0, <1>8, Stopping DEF Fails, Puts
<1>9. CASE Quiet
  BY <1>1, <1>9, QuietSteps
<1>10. CASE Deletes
  BY <1>1, <1>10 DEF Deletes, DropLot, DeletedByHand
<1> QED
  BY <1>2, <1>3, <1>4, <1>5, <1>6, <1>7, <1>8, <1>9, <1>10
     DEF Next, Worker, Ends, Quiet, Retries, Deletes

LEMMA ReferencesFit ==
    ASSUME ShapeInv, NEW X \in SUBSET Target
    PROVE  \A e \in References(X) : EntryFits(e) /\ e[1] \in X /\ e[2] = column[e[1]]
                                    /\ column[e[1]] # NoId
<1>1. \A x \in X : column[x] # NoId => IsRef(x, column[x])
  BY DEF ShapeInv, RefInv
<1>2. ASSUME NEW x \in X, column[x] # NoId
      PROVE  LET e == <<x, column[x]>> IN
             EntryFits(e) /\ e[1] \in X /\ e[2] = column[e[1]] /\ column[e[1]] # NoId
  BY <1>1, <1>2 DEF EntryFits
<1> QED
  BY <1>2 DEF References

\* The fields of a pass are what the reconciler made them.
PassIs(phase, todo, gone) == pass' = [phase |-> phase, todo |-> todo, gone |-> gone]

LEMMA Passing ==
    ASSUME ShapeInv, Reconciler
    PROVE  \/ PassIs("idle", {}, NoEntry)
           \/ PassIs("parts", References(live), NoEntry)
           \/ PassIs("items", References(Item), NoEntry)
           \/ PassIs(pass.phase, pass.todo, NoEntry)
           \/ \E e \in pass.todo : /\ PassIs(pass.phase, pass.todo \ {e}, NoEntry)
           \/ \E e \in pass.todo : /\ PassIs(pass.phase, pass.todo \ {e}, e)
                                   /\ ~remote[e[2]].exists
<1>0. pass = [phase |-> pass.phase, todo |-> pass.todo, gone |-> pass.gone]
  BY DEF ShapeInv, PassInv
<1>1. CASE StartPass
  BY <1>1 DEF StartPass, NoPass, PassIs
<1>2. CASE Clear
  BY <1>0, <1>2 DEF Clear, PassIs
<1>3. CASE PassGoesOn
  BY <1>3 DEF PassGoesOn, NoPass, PassIs
<1>4. CASE PassFails
  BY <1>4 DEF PassFails, NoPass, PassIs
<1>5. ASSUME NEW e \in pass.todo, Ask(e)
      PROVE  \/ PassIs(pass.phase, pass.todo \ {e}, NoEntry)
             \/ PassIs(pass.phase, pass.todo \ {e}, e) /\ ~remote[e[2]].exists
  <2>1. PICK g : g \in Verdict(e) /\ pass' = [[pass EXCEPT !.todo = @ \ {e}] EXCEPT !.gone = g]
    BY <1>5 DEF Ask
  <2>2. PassIs(pass.phase, pass.todo \ {e}, g)
    BY <1>0, <2>1 DEF PassIs
  <2>3. g = NoEntry \/ (g = e /\ ~remote[e[2]].exists)
    BY <2>1 DEF Verdict
  <2> QED
    BY <2>2, <2>3
<1> QED
  BY <1>1, <1>2, <1>3, <1>4, <1>5 DEF Reconciler

LEMMA PassStep ==
    ASSUME ShapeInv, [Next]_vars
    PROVE  PassInv'
<1>0. Kept /\ PassInv
  BY ObjectStep DEF ShapeInv
<1>1. ASSUME NEW e, EntryFits(e) PROVE EntryFits(e)'
  <2>1. \A x, i : IsRef(x, i) => IsRef(x, i)'
    BY <1>0, RefsStay
  <2>2. PICK x, i : x = e[1] /\ i = e[2]
    OBVIOUS
  <2> QED
    BY <1>1, <2>1, <2>2 DEF EntryFits
<1>2. CASE pass' = pass
  BY <1>0, <1>1, <1>2 DEF PassInv
<1>3. ASSUME NEW phase, NEW todo, NEW gone, PassIs(phase, todo, gone),
             \A e \in todo : EntryFits(e), gone # NoEntry => EntryFits(gone)
      PROVE  PassInv'
  BY <1>1, <1>3 DEF PassInv, PassIs
<1>4. CASE Reconciler
  <2>1. /\ \A e \in pass.todo : EntryFits(e)
        /\ \A e \in References(live) : EntryFits(e)
        /\ \A e \in References(Item) : EntryFits(e)
    BY <1>0, ReferencesFit, Constants DEF PassInv, ShapeInv, ItemInv
  <2>2. \A e : \A d \in pass.todo \ {e} : EntryFits(d)
    BY <2>1
  <2>3. CASE PassIs("idle", {}, NoEntry)
    BY <1>3, <2>3
  <2>4. CASE PassIs("parts", References(live), NoEntry)
    BY <1>3, <2>1, <2>4
  <2>5. CASE PassIs("items", References(Item), NoEntry)
    BY <1>3, <2>1, <2>5
  <2>6. CASE PassIs(pass.phase, pass.todo, NoEntry)
    BY <1>3, <2>1, <2>6
  <2>7. ASSUME NEW e \in pass.todo, NEW g \in {NoEntry, e}, PassIs(pass.phase, pass.todo \ {e}, g)
        PROVE  PassInv'
    BY <1>3, <2>1, <2>2, <2>7
  <2> QED
    BY <1>4, <2>3, <2>4, <2>5, <2>6, <2>7, Passing
<1>5. CASE Command
  BY <1>2, <1>5, CommandItems
<1>6. CASE Deletes
  BY <1>2, <1>6 DEF Deletes, DropLot, DeletedByHand
<1>7. CASE Retries
  BY <1>2, <1>7 DEF Retries, Retry
<1> QED
  BY <1>2, <1>4, <1>5, <1>6, <1>7, WorkerSteps DEF Next, Deletes, Retries, vars

LEMMA RacedStep ==
    ASSUME ShapeInv, [Next]_vars
    PROVE  raced' \in BOOLEAN /\ (raced => raced')
<1>0. raced \in BOOLEAN
  BY DEF ShapeInv
<1>1. ASSUME NEW t \in Tick, NEW x \in Target, Take(t, x)
      PROVE  raced' \in BOOLEAN /\ (raced => raced')
  BY <1>1 DEF Take
<1>2. ASSUME NEW t \in Tick, NEW again \in BOOLEAN, CreateUnanswered(t, again)
      PROVE  raced' \in BOOLEAN /\ (raced => raced')
  BY <1>2 DEF CreateUnanswered
<1>3. ASSUME raced' = raced PROVE raced' \in BOOLEAN /\ (raced => raced')
  BY <1>0, <1>3
<1>4. ASSUME NEW t \in Tick, Find(t) \/ Create(t) \/ Call(t) \/ Settle(t) \/ Fails(t) \/ GivesUp(t)
      PROVE  raced' = raced
  BY <1>4 DEF Find, Create, Call, Settle, Fails, GivesUp
<1>5. CASE Quiet
  BY <1>3, <1>5, QuietSteps
<1>6. CASE Deletes
  BY <1>3, <1>6 DEF Deletes, DropLot, DeletedByHand
<1> QED
  BY <1>1, <1>2, <1>3, <1>4, <1>5, <1>6 DEF Next, Worker, Quiet, Retries, Deletes

LEMMA ShapeInit == Init => ShapeInv
<1> SUFFICES ASSUME Init PROVE ShapeInv
  OBVIOUS
<1>0. NoId \in Nat /\ NoId = 0
  BY DEF NoId
<1>1. ObjInv /\ Len(remote) = 0 /\ DOMAIN remote = {}
  BY RemoteAssumption DEF Init, ObjInv, RemoteAssumption
<1>2. CacheInv
  BY <1>0, <1>1 DEF Init, CacheInv
<1>3. ItemInv
  BY <1>0, Constants DEF Init, ItemInv
<1>4. RefInv
  BY <1>0, <1>1, Constants DEF Init, RefInv
<1>5. OpInv
  BY <1>0 DEF Init, OpInv, NoOp, Ops
<1>6. WorkInv
  BY IdleType DEF Init, WorkInv, TickFits
<1>7. PassInv
  BY DEF Init, PassInv, NoPass
<1>8. DeadInv
  BY DEF Init, DeadInv
<1> QED
  BY <1>1, <1>2, <1>3, <1>4, <1>5, <1>6, <1>7, <1>8 DEF ShapeInv, Init

LEMMA ShapeStep == ShapeInv /\ [Next]_vars => ShapeInv'
  BY ObjectStep, CacheStep, ItemStep, RefStep, OpStep, DeadStep, WorkStep, PassStep, RacedStep
     DEF ShapeInv

LEMMA Shape == Spec => []ShapeInv
  BY ShapeInit, ShapeStep, PTL DEF Spec

\* Whatever ticks, commands, deletions and the reconciler do to it meanwhile, an id in a
\* column, in an open delete, in an answer or in the reconciler's list names an object of
\* the right kind, and every tick is at a place of its operation's path.
THEOREM Typed == Spec => []TypeOK
<1>1. ShapeInv => TypeOK
  <2> SUFFICES ASSUME ShapeInv PROVE TypeOK
    OBVIOUS
  <2>1. \A tree \in Trees, key \in PathKey : cache[tree][key] \in 0 .. Len(remote)
    BY ObjectsAre DEF ShapeInv, CacheInv, Objects
  <2>2. /\ \A x \in Target : column[x] # NoId => Names(x, column[x])
        /\ \A row \in PartRow : made[row] # NoId => Names(row[1], made[row])
    BY DEF ShapeInv, RefInv, IsRef, PartRef, Names, PartRow
  <2>3. \A e \in pass.todo \cup ({pass.gone} \ {NoEntry}) : Names(e[1], e[2])
    BY DEF ShapeInv, PassInv, EntryFits, IsRef
  <2>4. drops \subseteq {i \in DOMAIN remote : remote[i].kind = "lot"}
    BY DEF ShapeInv, RefInv, LotRef
  <2>5. \A t \in Tick : work[t].stage \in {"find", "create"} =>
           work[t].depth \in DOMAIN op[work[t].on].path
    BY NodeType
  <2> QED
    BY <2>1, <2>2, <2>3, <2>4, <2>5 DEF TypeOK, ShapeInv, ObjInv
<1> QED
  BY <1>1, Shape, PTL

-----------------------------------------------------------------------------
(* Where the paths of the operations lead.                                   *)

Reached(tree, path, d, i) == IF d = 0 THEN i = NoId ELSE LeadsTo(tree, path, d, i)

CacheLeads ==
    \A tree \in Trees, path \in Paths : \A d \in DOMAIN path :
        Cached(cache, tree, path, d) # NoId => LeadsTo(tree, path, d, Cached(cache, tree, path, d))

TickLeads(t) ==
    LET x == work[t].on IN
    /\ work[t].stage \in {"find", "create"} =>
          Reached(TreeOf(x), op[x].path, work[t].depth - 1, work[t].at)
    /\ work[t].stage = "call" => LeadsTo(TreeOf(x), op[x].path, Len(op[x].path), work[t].at)

PathInv == CacheLeads /\ FiledUnderPath /\ \A t \in Tick : TickLeads(t)

\* What chain is a chain of nodes from the root along the first d names of a path.
IsChain(chain, tree, path, d) ==
    \A e \in 1 .. d : /\ remote[chain[e]].kind = tree
                      /\ Lower[remote[chain[e]].name] = Lower[path[e]]
                      /\ remote[chain[e]].under = IF e = 1 THEN NoId ELSE chain[e - 1]

LEMMA LeadsIs ==
    ASSUME NEW tree, NEW path, NEW d, NEW i
    PROVE  LeadsTo(tree, path, d, i) <=>
              \E chain \in [1 .. d -> DOMAIN remote] : chain[d] = i /\ IsChain(chain, tree, path, d)
  BY DEF LeadsTo, IsChain

LEMMA LeadsIsNext ==
    ASSUME NEW tree, NEW path, NEW d, NEW i
    PROVE  LeadsTo(tree, path, d, i)' <=>
              \E chain \in [1 .. d -> DOMAIN remote'] :
                 chain[d] = i /\ IsChain(chain, tree, path, d)'
  BY DEF LeadsTo, IsChain

LEMMA LeadsStay ==
    ASSUME Kept, NEW tree \in Trees, NEW path, NEW d, NEW i, LeadsTo(tree, path, d, i)
    PROVE  LeadsTo(tree, path, d, i)'
<1>1. PICK chain \in [1 .. d -> DOMAIN remote] : chain[d] = i /\ IsChain(chain, tree, path, d)
  BY LeadsIs
<1>2. chain \in [1 .. d -> DOMAIN remote']
  BY DEF Kept
<1>3. IsChain(chain, tree, path, d)'
  BY <1>1 DEF Kept, IsChain
<1> QED
  BY <1>1, <1>2, <1>3, LeadsIsNext

LEMMA LeadsOn ==
    ASSUME NEW tree, NEW path, NEW d \in Nat \ {0}, NEW at, (Reached(tree, path, d - 1, at))',
           NEW i \in DOMAIN remote', remote'[i].kind = tree,
           Lower[remote'[i].name] = Lower[path[d]], remote'[i].under = at
    PROVE  LeadsTo(tree, path, d, i)'
<1>1. CASE d = 1
  <2> DEFINE chain == [e \in 1 .. d |-> i]
  <2>1. chain \in [1 .. d -> DOMAIN remote'] /\ chain[d] = i
    OBVIOUS
  <2>2. at = NoId
    BY <1>1 DEF Reached
  <2>3. IsChain(chain, tree, path, d)'
    BY <1>1, <2>2 DEF IsChain
  <2> HIDE DEF chain
  <2> QED
    BY <2>1, <2>3, LeadsIsNext
<1>2. CASE d # 1
  <2>1. d - 1 \in Nat /\ d - 1 # 0 /\ LeadsTo(tree, path, d - 1, at)'
    BY <1>2 DEF Reached
  <2>2. PICK start \in [1 .. d - 1 -> DOMAIN remote'] :
           start[d - 1] = at /\ IsChain(start, tree, path, d - 1)'
    BY <2>1, LeadsIsNext
  <2> DEFINE chain == [e \in 1 .. d |-> IF e = d THEN i ELSE start[e]]
  <2>3. chain \in [1 .. d -> DOMAIN remote'] /\ chain[d] = i /\ chain[d - 1] = at
        /\ \A e \in 1 .. d - 1 : chain[e] = start[e]
    BY <1>2, <2>2
  <2> HIDE DEF chain
  <2>4. ASSUME NEW e \in 1 .. d
        PROVE  /\ remote'[chain[e]].kind = tree
               /\ Lower[remote'[chain[e]].name] = Lower[path[e]]
               /\ remote'[chain[e]].under = IF e = 1 THEN NoId ELSE chain[e - 1]
    <3>1. CASE e = d
      BY <1>2, <2>3, <3>1
    <3>2. CASE e # d
      <4>1. e \in 1 .. d - 1 /\ (e # 1 => e - 1 \in 1 .. d - 1)
        BY <3>2
      <4>2. chain[e] = start[e] /\ (e # 1 => chain[e - 1] = start[e - 1])
        BY <2>3, <4>1
      <4> QED
        BY <2>2, <4>1, <4>2 DEF IsChain
    <3> QED
      BY <3>1, <3>2
  <2>5. IsChain(chain, tree, path, d)'
    BY <2>4 DEF IsChain
  <2> QED
    BY <2>3, <2>5, LeadsIsNext
<1> QED
  BY <1>1, <1>2

LEMMA CacheGrows ==
    ASSUME ShapeInv, CacheLeads, Kept,
           NEW tree \in Trees, NEW path \in Paths, NEW d \in DOMAIN path,
           NEW i, LeadsTo(tree, path, d, i)',
           \A s \in Trees, key \in PathKey : cache'[s][key] =
              IF s = tree /\ key = Lowered(SubSeq(path, 1, d)) THEN i ELSE cache[s][key]
    PROVE  CacheLeads'
<1>1. ASSUME NEW s \in Trees, NEW other \in Paths, NEW e \in DOMAIN other,
             NEW j, j = Cached(cache', s, other, e), j # NoId
      PROVE  LeadsTo(s, other, e, j)'
  <2>1. PICK key : key = Lowered(SubSeq(other, 1, e))
    OBVIOUS
  <2>2. key \in PathKey
    BY <2>1, KeyKnown
  <2>3. CASE s = tree /\ key = Lowered(SubSeq(path, 1, d))
    <3>1. j = i
      BY <1>1, <2>1, <2>2, <2>3 DEF Cached
    <3>2. d = e /\ \A c \in 1 .. d : Lower[path[c]] = Lower[other[c]]
      BY <2>1, <2>3, SameKey
    <3>3. PICK chain \in [1 .. d -> DOMAIN remote'] : chain[d] = i /\ IsChain(chain, tree, path, d)'
      BY LeadsIsNext
    <3>4. IsChain(chain, tree, other, d)'
      BY <3>2, <3>3 DEF IsChain
    <3> QED
      BY <2>3, <3>1, <3>2, <3>3, <3>4, LeadsIsNext
  <2>4. CASE ~(s = tree /\ key = Lowered(SubSeq(path, 1, d)))
    <3>1. j = Cached(cache, s, other, e)
      BY <1>1, <2>1, <2>2, <2>4 DEF Cached
    <3>2. LeadsTo(s, other, e, j)
      BY <1>1, <3>1 DEF CacheLeads
    <3> QED
      BY <3>2, LeadsStay
  <2> QED
    BY <2>3, <2>4
<1> QED
  BY <1>1 DEF CacheLeads, Cached

\* A tick that was sent on from a place of its path is at a place of it.
LEMMA ResolvesOn ==
    ASSUME NEW t \in Tick, NEW x \in Target, NEW path \in Paths, NEW d \in 1 .. Len(path) + 1,
           NEW at, op'[x].path = path, (Reached(TreeOf(x), path, d - 1, at))', CacheLeads',
           NEW r, r = Resolving(x, cache', path, d, at), r.on = x, work'[t] = r,
           r.stage = "find" => r.depth \in DOMAIN path
    PROVE  TickLeads(t)'
<1>1. PICK tree : tree = TreeOf(x) /\ tree \in Trees
  BY DEF TreeOf, Trees
<1>2. op'[work'[t].on].path = path /\ TreeOf(work'[t].on) = tree
  BY <1>1
<1>3. ASSUME NEW e \in DOMAIN path, NEW j, j = Cached(cache', tree, path, e), j # NoId
      PROVE  LeadsTo(tree, path, e, j)'
  BY <1>1, <1>3 DEF CacheLeads, Cached
<1>4. Len(path) \in Nat \ {0} /\ DOMAIN path = 1 .. Len(path)
  BY PathsAre
<1>5. (Reached(tree, path, d - 1, at))'
  BY <1>1
<1>6. Resolution(x, cache', path, d, at)
  BY Resolutions
<1>7. ASSUME r.stage = "call", LeadsTo(tree, path, Len(path), r.at)' PROVE TickLeads(t)'
  BY <1>1, <1>2, <1>7 DEF TickLeads
<1>8. ASSUME r.stage = "find", (Reached(tree, path, r.depth - 1, r.at))' PROVE TickLeads(t)'
  BY <1>1, <1>2, <1>8 DEF TickLeads, Reached
<1>9. CASE d = Len(path) + 1 /\ r = At(x, "call", 0, at)
  <2>1. d - 1 = Len(path) /\ d - 1 # 0 /\ r.stage = "call" /\ r.at = at
    BY <1>4, <1>9 DEF At
  <2>2. LeadsTo(tree, path, Len(path), r.at)'
    BY <1>5, <2>1 DEF Reached
  <2> QED
    BY <1>7, <2>1, <2>2
<1>10. CASE /\ Cached(cache', tree, path, Len(path)) # NoId
            /\ r = At(x, "call", 0, Cached(cache', tree, path, Len(path)))
  <2>1. r.stage = "call" /\ r.at = Cached(cache', tree, path, Len(path)) /\ r.at # NoId
    BY <1>10 DEF At
  <2>2. LeadsTo(tree, path, Len(path), r.at)'
    BY <1>3, <1>4, <2>1
  <2> QED
    BY <1>7, <2>1, <2>2
<1>11. CASE d \in DOMAIN path /\ r = At(x, "find", d, at)
  <2>1. r.stage = "find" /\ r.depth = d /\ r.at = at
    BY <1>11 DEF At
  <2>2. (Reached(tree, path, r.depth - 1, r.at))'
    BY <1>5, <2>1
  <2> QED
    BY <1>8, <2>1, <2>2
<1>12. ASSUME NEW e \in DOMAIN path, e - 1 \in DOMAIN path,
              Cached(cache', tree, path, e - 1) # NoId,
              r = At(x, "find", e, Cached(cache', tree, path, e - 1))
       PROVE  TickLeads(t)'
  <2>1. /\ r.stage = "find" /\ r.depth = e /\ r.at = Cached(cache', tree, path, e - 1)
        /\ e - 1 # 0
    BY <1>4, <1>12 DEF At
  <2>2. LeadsTo(tree, path, e - 1, r.at)'
    BY <1>3, <1>12, <2>1
  <2>3. (Reached(tree, path, r.depth - 1, r.at))'
    BY <2>1, <2>2 DEF Reached
  <2> QED
    BY <1>8, <2>1, <2>3
<1> QED
  BY <1>1, <1>6, <1>9, <1>10, <1>11, <1>12 DEF Resolution

\* A tick that goes on with the node it was looking for.
LEMMA DescendingLeads ==
    ASSUME ShapeInv, PathInv, ObjInv', Kept, NEW t \in Tick,
           work[t].stage \in {"find", "create"}, op' = op,
           NEW i \in DOMAIN remote', Descends(t, i),
           /\ remote'[i].kind = NodeWanted(t).kind /\ remote'[i].name = NodeWanted(t).name
           /\ remote'[i].under = work[t].at
    PROVE  CacheLeads' /\ TickLeads(t)'
<1>1. PICK x, d, path, tree, at : /\ x = work[t].on /\ d = work[t].depth /\ path = op[x].path
                                  /\ tree = TreeOf(x) /\ at = work[t].at
  OBVIOUS
<1>2. PICK r : r = Resolving(x, cache', path, d + 1, i)
  OBVIOUS
<1>3. x \in Target /\ path \in Paths /\ d \in DOMAIN path /\ tree \in Trees /\ d \in Nat \ {0}
      /\ d + 1 \in 1 .. Len(path) + 1
      /\ NodeWanted(t).kind = tree /\ NodeWanted(t).name = path[d]
  <2>1. x \in Target /\ path \in Paths /\ d \in DOMAIN path /\ NodeWanted(t).kind = tree
        /\ NodeWanted(t).name = path[d] /\ tree \in Trees
    BY <1>1, NodeType
  <2>2. DOMAIN path = 1 .. Len(path) /\ Len(path) \in Nat
    BY <2>1, PathsAre
  <2> QED
    BY <2>1, <2>2
<1>4. /\ Puts(t, r) /\ r.on = x /\ (r.stage = "find" => r.depth \in DOMAIN path)
      /\ \A s \in Trees, key \in PathKey : cache'[s][key] =
            IF s = tree /\ key = Lowered(SubSeq(path, 1, d)) THEN i ELSE cache[s][key]
  BY <1>1, <1>2, Descending
<1>5. Reached(tree, path, d - 1, at)
  BY <1>1 DEF PathInv, TickLeads
<1>6. (Reached(tree, path, d - 1, at))'
  BY <1>3, <1>5, LeadsStay DEF Reached
<1>7. LeadsTo(tree, path, d, i)'
  BY <1>1, <1>3, <1>6, LeadsOn
<1>8. CacheLeads'
  BY <1>3, <1>4, <1>7, CacheGrows DEF PathInv
<1>9. work'[t] = r
  BY <1>4 DEF Puts, ShapeInv, WorkInv
<1>10. (Reached(TreeOf(x), path, (d + 1) - 1, i))'
  BY <1>1, <1>3, <1>7 DEF Reached
<1>11. op'[x].path = path
  BY <1>1
<1> QED
  BY <1>2, <1>3, <1>4, <1>8, <1>9, <1>10, <1>11, ResolvesOn

LEMMA LeadsUnmoved ==
    ASSUME ShapeInv, PathInv, Kept, Undisturbed, NEW u \in Tick, work'[u] = work[u]
    PROVE  TickLeads(u)'
<1>1. CASE work[u].stage = "idle"
  BY <1>1 DEF TickLeads
<1>2. CASE work[u].stage # "idle"
  <2>1. PICK x, path, tree, d, at : /\ x = work[u].on /\ path = op[x].path /\ tree = TreeOf(x)
                                    /\ d = work[u].depth /\ at = work[u].at
    OBVIOUS
  <2>2. op'[x].path = path /\ tree \in Trees
    BY <1>2, <2>1 DEF Undisturbed, TreeOf, Trees
  <2>3. /\ work[u].stage \in {"find", "create"} => Reached(tree, path, d - 1, at)
        /\ work[u].stage = "call" => LeadsTo(tree, path, Len(path), at)
    BY <2>1 DEF PathInv, TickLeads
  <2>4. /\ work[u].stage \in {"find", "create"} => (Reached(tree, path, d - 1, at))'
        /\ work[u].stage = "call" => LeadsTo(tree, path, Len(path), at)'
    BY <2>2, <2>3, LeadsStay DEF Reached
  <2>5. TreeOf(work'[u].on) = tree /\ op'[work'[u].on].path = path
    BY <2>1, <2>2
  <2> QED
    BY <2>1, <2>4, <2>5 DEF TickLeads
<1> QED
  BY <1>1, <1>2

LEMMA CacheStays ==
    ASSUME CacheLeads, Kept, cache' = cache
    PROVE  CacheLeads'
<1>1. ASSUME NEW s \in Trees, NEW other \in Paths, NEW e \in DOMAIN other,
             NEW j, j = Cached(cache, s, other, e), j # NoId
      PROVE  LeadsTo(s, other, e, j)'
  BY <1>1, LeadsStay DEF CacheLeads
<1> QED
  BY <1>1 DEF CacheLeads, Cached

LEMMA CacheLeadsStep ==
    ASSUME ShapeInv, PathInv, [Next]_vars
    PROVE  CacheLeads' /\ \A t \in Tick : Find(t) \/ Create(t) => TickLeads(t)'
<1>0. ObjInv' /\ Kept /\ Undisturbed
  BY ObjectStep, Undisturbing
<1>1. cache' = cache => CacheLeads'
  BY <1>0, CacheStays DEF PathInv
<1>2. ASSUME NEW t \in Tick, Find(t) PROVE CacheLeads' /\ TickLeads(t)'
  <2>1. work[t].stage = "find" /\ remote' = remote /\ op' = op
    BY <1>2 DEF Find, table
  <2>2. ASSUME NEW i \in DOMAIN remote', Descends(t, i),
               i \in Matches(NodeWanted(t).kind, NodeWanted(t).name, work[t].at)
        PROVE  CacheLeads' /\ TickLeads(t)'
    BY <1>0, <2>1, <2>2, DescendingLeads DEF Matches
  <2>3. CASE cache' = cache /\ work' = [work EXCEPT ![t] = [@ EXCEPT !.stage = "create"]]
    <3>1. work'[t].on = work[t].on /\ work'[t].depth = work[t].depth
          /\ work'[t].at = work[t].at /\ work'[t].stage = "create"
      BY <2>3 DEF ShapeInv, WorkInv, Ticks
    <3>2. TickLeads(t)'
      <4>1. PICK x, path, tree, d, at : /\ x = work[t].on /\ path = op[x].path /\ tree = TreeOf(x)
                                        /\ d = work[t].depth /\ at = work[t].at
        OBVIOUS
      <4>2. Reached(tree, path, d - 1, at) /\ tree \in Trees
        BY <2>1, <4>1 DEF PathInv, TickLeads, TreeOf, Trees
      <4>3. (Reached(tree, path, d - 1, at))'
        BY <1>0, <4>2, LeadsStay DEF Reached
      <4>4. TreeOf(work'[t].on) = tree /\ op'[work'[t].on].path = path
        BY <2>1, <3>1, <4>1
      <4> QED
        BY <3>1, <4>1, <4>3, <4>4 DEF TickLeads
    <3> QED
      BY <1>1, <2>3, <3>2
  <2> QED
    BY <1>2, <2>2, <2>3, Finds
<1>3. ASSUME NEW t \in Tick, Create(t) PROVE CacheLeads' /\ TickLeads(t)'
  <2>1. /\ work[t].stage = "create" /\ Descends(t, Len(remote')) /\ op' = op
        /\ HasRoom /\ remote' = Append(remote, NodeWanted(t))
    BY <1>3 DEF Create, table
  <2>2. Adds(NodeWanted(t)) /\ Len(remote') \in DOMAIN remote' /\ Len(remote') = Len(remote) + 1
    BY <2>1, Creates
  <2>3. remote'[Len(remote')] = NodeWanted(t) /\ NodeWanted(t).under = work[t].at
    BY <2>1, <2>2, NodeType DEF Adds
  <2> QED
    BY <1>0, <2>1, <2>2, <2>3, DescendingLeads
<1>4. ASSUME NEW t \in Tick, Worker(t), ~Find(t), ~Create(t) PROVE cache' = cache
  <2>1. CASE Ends(t)
    BY <2>1, Endings DEF Ended
  <2>2. CASE ~Ends(t)
    BY <1>4, <2>2 DEF Worker, Ends, Take, Call, Fails, CreateUnanswered
  <2> QED
    BY <2>1, <2>2
<1>5. Quiet => cache' = cache
  BY QuietSteps
<1>6. Deletes => cache' = cache
  BY DEF Deletes, DropLot, DeletedByHand
<1>7. cache' = cache \/ \E t \in Tick : Find(t) \/ Create(t)
  BY <1>4, <1>5, <1>6 DEF Next, Deletes, Quiet, Retries
<1> QED
  BY <1>1, <1>2, <1>3, <1>7

\* Only the tick that takes a step moves.
LEMMA OneActs ==
    ASSUME ShapeInv, [Next]_vars, NEW u \in Tick, work'[u] # work[u]
    PROVE  Worker(u)
<1>1. work' # work
  OBVIOUS
<1>2. ~Quiet /\ ~Deletes
  BY <1>1, QuietSteps DEF Deletes, DropLot, DeletedByHand
<1>3. PICK t \in Tick : Worker(t)
  BY <1>2 DEF Next, Quiet, Retries, Deletes
<1>4. \E w : work' = [work EXCEPT ![t] = w]
  <2>1. CASE Find(t) \/ Create(t)
    <3>1. CASE \E i : Descends(t, i)
      BY <3>1 DEF Descends
    <3>2. CASE ~\E i : Descends(t, i)
      BY <2>1, <3>2 DEF Find, Create
    <3> QED
      BY <3>1, <3>2
  <2>2. CASE (\E x \in Target : Take(t, x)) \/ Call(t) \/ Settle(t) \/ Fails(t) \/ GivesUp(t)
    BY <2>2 DEF Take, Call, Settle, Fails, GivesUp
  <2>3. ASSUME NEW again \in BOOLEAN, CreateUnanswered(t, again)
        PROVE  \E w : work' = [work EXCEPT ![t] = w]
    BY <1>1, <2>3 DEF CreateUnanswered
  <2> QED
    BY <1>3, <2>1, <2>2, <2>3 DEF Worker
<1>5. u = t
  BY <1>4 DEF ShapeInv, WorkInv
<1> QED
  BY <1>3, <1>5

LEMMA TickLeadsStep ==
    ASSUME ShapeInv, PathInv, [Next]_vars, NEW t \in Tick
    PROVE  TickLeads(t)'
<1>0. Kept /\ Undisturbed /\ CacheLeads'
  BY ObjectStep, Undisturbing, CacheLeadsStep
<1>1. CASE work'[t] = work[t]
  BY <1>0, <1>1, LeadsUnmoved
<1>2. CASE Find(t) \/ Create(t)
  BY <1>2, CacheLeadsStep
<1>3. ASSUME work'[t].stage \in {"idle", "settle"} PROVE TickLeads(t)'
  BY <1>3 DEF TickLeads
<1>4. ASSUME NEW x \in Target, Take(t, x) PROVE TickLeads(t)'
  <2>1. op[x].kind # "none" /\ UNCHANGED <<remote, cache, op, made>>
    BY <1>4 DEF Take, table
  <2>2. PICK r, path : path = op[x].path /\ r = Resolving(x, cache', path, 1, NoId)
    OBVIOUS
  <2>3. path \in Paths
    BY <2>1, <2>2 DEF ShapeInv, OpInv, NoOp, Fits
  <2>4. work'[t] = r
    BY <1>4, <2>1, <2>2 DEF Take, ShapeInv, WorkInv
  <2>5. PICK n : n = Len(remote)
    OBVIOUS
  <2>6. n \in Nat /\ CacheFits(cache', n) /\ 1 \in 1 .. Len(path) + 1 /\ NoId \in Nat /\ NoId <= n
    BY <2>1, <2>3, <2>5, PathsAre, ObjectsAre DEF ShapeInv, CacheInv, CacheFits, Objects, NoId
  <2>7. r.on = x /\ (r.stage = "find" => r.depth \in DOMAIN path)
    BY <2>2, <2>3, <2>6, ResolvedType
  <2>8. (Reached(TreeOf(x), path, 1 - 1, NoId))'
    BY DEF Reached
  <2>9. op'[x].path = path
    BY <2>1, <2>2
  <2> QED
    BY <1>0, <2>2, <2>3, <2>4, <2>6, <2>7, <2>8, <2>9, ResolvesOn
<1>5. ASSUME Ends(t) PROVE TickLeads(t)'
  <2>1. work'[t] = IdleTick
    BY <1>5, Endings DEF Ended, Puts, ShapeInv, WorkInv
  <2> QED
    BY <1>3, <2>1, IdleType
<1>6. CASE Fails(t)
  <2>1. work'[t] = IdleTick
    BY <1>6 DEF Fails, ShapeInv, WorkInv
  <2> QED
    BY <1>3, <2>1, IdleType
<1>7. CASE Call(t)
  <2>1. work'[t].stage = "settle"
    <3>1. \E i \in Nat : work'[t] = Settled(work[t], i)
      <4>1. Objects
        BY ObjectsAre DEF ShapeInv
      <4> QED
        BY <1>7, <4>1, Calls DEF CallAdds, CallMoves, ShapeInv, WorkInv, IsRef, Objects
    <3> QED
      BY <3>1, Settling DEF ShapeInv, WorkInv
  <2> QED
    BY <1>3, <2>1
<1>8. ASSUME NEW again \in BOOLEAN, CreateUnanswered(t, again), work'[t] # work[t]
      PROVE  TickLeads(t)'
  <2>1. work'[t] = IdleTick
    BY <1>8 DEF CreateUnanswered, ShapeInv, WorkInv
  <2> QED
    BY <1>3, <2>1, IdleType
<1> QED
  BY <1>1, <1>2, <1>4, <1>5, <1>6, <1>7, <1>8, OneActs DEF Worker, Ends

\* A part or lot changes its place only when its operation's last call moves it.
LEMMA PlacesStay ==
    ASSUME ShapeInv, [Next]_vars, NEW i \in DOMAIN remote
    PROVE  \/ remote'[i].under = remote[i].under /\ remote'[i].path = remote[i].path
           \/ \E t \in Tick : Call(t) /\ CallMoves(t) /\ i = op[work[t].on].ref
<1>1. ASSUME NEW e, Adds(e) PROVE remote'[i] = remote[i]
  BY <1>1 DEF Adds
<1>2. ASSUME NEW t \in Tick, Create(t) \/ \E again \in BOOLEAN : CreateUnanswered(t, again)
      PROVE  remote'[i] = remote[i]
  <2>1. work[t].stage = "create" /\ HasRoom /\ remote' = Append(remote, NodeWanted(t))
    BY <1>2 DEF Create, CreateUnanswered
  <2> QED
    BY <1>1, <2>1, Creates
<1>3. ASSUME NEW t \in Tick, Call(t)
      PROVE  remote'[i] = remote[i] \/ (CallMoves(t) /\ i = op[work[t].on].ref)
  BY <1>1, <1>3, Calls DEF CallAdds, CallMoves
<1>4. ASSUME NEW t \in Tick,
             (\E x \in Target : Take(t, x)) \/ Find(t) \/ Settle(t) \/ Fails(t) \/ GivesUp(t)
      PROVE  remote' = remote
  BY <1>4 DEF Take, Find, Settle, Fails, GivesUp
<1>5. CASE Quiet
  BY <1>5, QuietSteps
<1>6. CASE Deletes
  BY <1>6, Deletions DEF Deletes
<1>7. ASSUME NEW t \in Tick, Worker(t)
      PROVE  remote'[i] = remote[i] \/ (Call(t) /\ CallMoves(t) /\ i = op[work[t].on].ref)
  BY <1>2, <1>3, <1>4, <1>7 DEF Worker
<1> QED
  BY <1>5, <1>6, <1>7 DEF Next, Quiet, Retries, Deletes

LEMMA FiledStep ==
    ASSUME ShapeInv, PathInv, [Next]_vars
    PROVE  FiledUnderPath'
<1>0. Kept
  BY ObjectStep
<1>1. ASSUME NEW i \in DOMAIN remote', remote'[i].kind \in {"part", "lot"},
             NEW tree, tree = TreeFor(remote'[i].kind),
             NEW path, path = remote'[i].path, NEW at, at = remote'[i].under
      PROVE  LeadsTo(tree, path, Len(path), at)'
  <2>0. tree \in Trees
    BY <1>1 DEF TreeFor, Trees
  <2>1. ASSUME NEW t \in Tick, work[t].stage = "call", path = op[work[t].on].path,
               at = work[t].at, tree = TreeOf(work[t].on)
        PROVE  LeadsTo(tree, path, Len(path), at)'
    <3>1. LeadsTo(tree, path, Len(path), at)
      BY <2>1 DEF PathInv, TickLeads
    <3> QED
      BY <1>0, <2>0, <3>1, LeadsStay
  <2>2. CASE i \in DOMAIN remote
    <3>1. remote'[i].kind = remote[i].kind
      BY <1>0, <2>2 DEF Kept
    <3>2. CASE at = remote[i].under /\ path = remote[i].path
      <4>1. LeadsTo(tree, path, Len(path), at)
        BY <1>1, <2>2, <3>1, <3>2 DEF PathInv, FiledUnderPath
      <4> QED
        BY <1>0, <2>0, <4>1, LeadsStay
    <3>3. ASSUME NEW t \in Tick, Call(t), CallMoves(t), i = op[work[t].on].ref
          PROVE  LeadsTo(tree, path, Len(path), at)'
      <4>1. /\ path = op[work[t].on].path /\ at = work[t].at
            /\ remote'[i].kind = IF work[t].on \in Part THEN "part" ELSE "lot"
        BY <1>1, <3>3 DEF CallMoves, IsRef, Names
      <4>2. tree = TreeOf(work[t].on) /\ work[t].stage = "call"
        BY <1>1, <3>3, <4>1 DEF TreeOf, TreeFor, Call
      <4> QED
        BY <2>1, <4>1, <4>2
    <3> QED
      BY <1>1, <2>2, <3>2, <3>3, PlacesStay
  <2>3. CASE i \notin DOMAIN remote
    <3>1. PICK t \in Tick :
              \/ work[t].stage = "create" /\ remote'[i] = NodeWanted(t)
              \/ work[t].stage = "call" /\ remote'[i] = Created(t) /\ CallAdds(t)
      BY <2>3, NewObjects
    <3>2. CASE work[t].stage = "create" /\ remote'[i] = NodeWanted(t)
      BY <1>1, <3>2, NodeType DEF Trees
    <3>3. CASE work[t].stage = "call" /\ remote'[i] = Created(t) /\ CallAdds(t)
      <4>1. path = op[work[t].on].path /\ at = work[t].at /\ tree = TreeOf(work[t].on)
        BY <1>1, <3>3 DEF CallAdds, TreeFor, TreeOf
      <4> QED
        BY <2>1, <3>3, <4>1
    <3> QED
      BY <3>1, <3>2, <3>3
  <2> QED
    BY <2>2, <2>3
<1> QED
  BY <1>1 DEF FiledUnderPath

\* Whatever ticks resolve at once, whatever is cached, whichever answers are lost and however
\* deep the paths are, a part or lot lies where its last operation's path leads, up to case.
THEOREM Filed == Spec => []FiledUnderPath
<1>1. Init => PathInv
  <2> SUFFICES ASSUME Init PROVE PathInv
    OBVIOUS
  <2>1. ASSUME NEW s \in Trees, NEW path \in Paths, NEW d \in DOMAIN path
        PROVE  Cached(cache, s, path, d) = NoId
    BY KeyKnown DEF Init, Cached
  <2>2. FiledUnderPath
    BY DEF Init, FiledUnderPath
  <2>3. \A t \in Tick : TickLeads(t)
    BY IdleType DEF Init, TickLeads
  <2> QED
    BY <2>1, <2>2, <2>3 DEF PathInv, CacheLeads
<1>2. ShapeInv /\ PathInv /\ [Next]_vars => PathInv'
  BY CacheLeadsStep, TickLeadsStep, FiledStep DEF PathInv
<1> QED
  BY <1>1, <1>2, Shape, PTL DEF Spec, PathInv

-----------------------------------------------------------------------------
(* No node twice.                                                            *)

Resolves(t) == work[t].stage \in {"find", "create"}

\* Unless ticks raced, a tree has one tick that looks for nodes or creates them, and the node
\* it is about to create is not there.
OnePerTree ==
    \A t, u \in Tick :
        Resolves(t) /\ Resolves(u) /\ TreeOf(work[t].on) = TreeOf(work[u].on) => t = u

CreatesMissing ==
    \A t \in Tick : work[t].stage = "create" =>
        Matches(NodeWanted(t).kind, NodeWanted(t).name, work[t].at) = {}

SingleNodes ==
    \A i, j \in DOMAIN remote :
        remote[i].kind \in Trees /\ remote[j].kind = remote[i].kind
            /\ remote[j].name = remote[i].name /\ remote[j].under = remote[i].under => i = j

NodeInv == ~raced => SingleNodes /\ OnePerTree /\ CreatesMissing

\* How a tick came to look for a node or to create one.
LEMMA ResolvedBefore ==
    ASSUME ShapeInv, [Next]_vars, ~raced', NEW t \in Tick, Resolves(t)'
    PROVE  \/ work'[t] = work[t] /\ ~\E again \in BOOLEAN : CreateUnanswered(t, again)
           \/ /\ Resolves(t) /\ work'[t].on = work[t].on /\ work'[t] # work[t]
              /\ work'[t].stage = "create" => Find(t) /\ work'[t].at = work[t].at
                                              /\ work'[t].depth = work[t].depth
                                              /\ Matches(NodeWanted(t).kind, NodeWanted(t).name,
                                                         work[t].at) = {}
           \/ /\ work'[t].stage = "find"
              /\ \E x \in Target : Take(t, x) /\ work'[t].on = x /\ ~Busy(TreeOf(x))
<1>0. work \in [Tick -> Ticks] /\ ObjInv' /\ Kept
  BY ObjectStep DEF ShapeInv, WorkInv
<1>1. ASSUME NEW again \in BOOLEAN, CreateUnanswered(t, again) PROVE FALSE
  <2>1. ~again
    BY <1>1 DEF CreateUnanswered
  <2>2. work'[t] = IdleTick
    BY <1>0, <1>1, <2>1 DEF CreateUnanswered
  <2> QED
    BY <2>2, IdleType DEF Resolves
<1>2. ASSUME NEW x \in Target, Take(t, x)
      PROVE  work'[t].stage = "find" /\ work'[t].on = x /\ ~Busy(TreeOf(x))
  <2>1. PICK r, path : path = op[x].path /\ r = Resolving(x, cache, path, 1, NoId)
    OBVIOUS
  <2>2. path \in Paths
    BY <1>2, <2>1 DEF ShapeInv, OpInv, NoOp, Take, Fits
  <2>3. work'[t] = r
    BY <1>0, <1>2, <2>1 DEF Take
  <2>4. PICK n : n = Len(remote)
    OBVIOUS
  <2>5. n \in Nat /\ CacheFits(cache, n) /\ 1 \in 1 .. Len(path) + 1 /\ NoId \in Nat /\ NoId <= n
    BY <2>2, <2>4, PathsAre, ObjectsAre DEF ShapeInv, CacheInv, CacheFits, Objects, NoId
  <2>6. r.on = x /\ r.stage \in {"find", "call"}
    BY <2>1, <2>2, <2>5, ResolvedType
  <2>7. r.stage = "find"
    BY <2>3, <2>6 DEF Resolves
  <2>8. ~Busy(TreeOf(x))
    BY <1>2, <2>3, <2>7 DEF Take
  <2> QED
    BY <2>3, <2>6, <2>7, <2>8
<1>3. ASSUME NEW i \in DOMAIN remote', Descends(t, i), Resolves(t)
      PROVE  work'[t].on = work[t].on /\ work'[t].stage # "create"
  <2>1. PICK x, r : x = work[t].on
                    /\ r = Resolving(x, cache', op[x].path, work[t].depth + 1, i)
    OBVIOUS
  <2>2. Puts(t, r) /\ r.on = x /\ r.stage \in {"find", "call"}
    BY <1>0, <1>3, <2>1, Descending DEF Resolves
  <2> QED
    BY <1>0, <2>1, <2>2 DEF Puts
<1>4. CASE Find(t)
  <2>1. Resolves(t) /\ work[t].stage = "find"
    BY <1>4 DEF Find, Resolves
  <2>2. CASE \E i \in DOMAIN remote' : Descends(t, i)
    BY <1>1, <1>3, <2>1, <2>2
  <2>3. CASE /\ Matches(NodeWanted(t).kind, NodeWanted(t).name, work[t].at) = {}
             /\ work' = [work EXCEPT ![t] = [@ EXCEPT !.stage = "create"]]
    <3>1. work'[t].on = work[t].on /\ work'[t].depth = work[t].depth
          /\ work'[t].at = work[t].at /\ work'[t].stage = "create"
      BY <1>0, <2>3 DEF Ticks
    <3> QED
      BY <1>4, <2>1, <2>3, <3>1
  <2> QED
    BY <1>4, <2>2, <2>3, Finds
<1>5. CASE Create(t)
  <2>1. Resolves(t) /\ Descends(t, Len(remote')) /\ Len(remote') \in DOMAIN remote'
    BY <1>5, Creates DEF Create, Resolves
  <2> QED
    BY <1>1, <1>3, <2>1
<1>6. CASE Call(t)
  <2>1. \E i \in Nat : work'[t] = Settled(work[t], i)
    <3>1. Objects
      BY ObjectsAre DEF ShapeInv
    <3> QED
      BY <1>0, <1>6, <3>1, Calls DEF CallAdds, CallMoves, IsRef, Objects
  <2> QED
    BY <1>0, <2>1, Settling DEF Resolves
<1>7. CASE Settle(t) \/ Fails(t) \/ GivesUp(t)
  <2>1. work'[t] = IdleTick
    BY <1>0, <1>7 DEF Settle, Fails, GivesUp
  <2> QED
    BY <2>1, IdleType DEF Resolves
<1> QED
  BY <1>1, <1>2, <1>4, <1>5, <1>6, <1>7, OneActs DEF Worker

LEMMA OnePerTreeStep ==
    ASSUME ShapeInv, OnePerTree, [Next]_vars, ~raced'
    PROVE  OnePerTree'
<1> DEFINE Was(t) == Resolves(t) /\ work'[t].on = work[t].on
           Takes(t) == \E x \in Target : Take(t, x) /\ work'[t].on = x /\ ~Busy(TreeOf(x))
<1>2. ASSUME NEW t \in Tick, Resolves(t)' PROVE Was(t) \/ Takes(t)
  <2>1. work'[t] = work[t] => Was(t)
    BY <1>2 DEF Resolves
  <2> QED
    BY <1>2, <2>1, ResolvedBefore
<1>3. ASSUME NEW t \in Tick, NEW u \in Tick, Was(u), Takes(t),
             TreeOf(work'[t].on) = TreeOf(work'[u].on)
      PROVE  FALSE
  BY <1>3 DEF Busy, Resolves
<1>4. ASSUME NEW t \in Tick, NEW u \in Tick, Takes(t), Takes(u) PROVE t = u
  <2>1. PICK x \in Target : Take(t, x) /\ work'[t].on = x
    BY <1>4
  <2>2. PICK y \in Target : Take(u, y) /\ work'[u].on = y
    BY <1>4
  <2>3. work[u] = IdleTick /\ work \in [Tick -> Ticks]
    BY <2>2 DEF Take, ShapeInv, WorkInv
  <2>4. t # u => work'[u] = work[u]
    BY <2>1, <2>3 DEF Take
  <2> QED
    BY <2>2, <2>3, <2>4, IdleType, Constants
<1>5. ASSUME NEW t \in Tick, NEW u \in Tick, Resolves(t)', Resolves(u)',
             TreeOf(work'[t].on) = TreeOf(work'[u].on)
      PROVE  t = u
  <2>1. CASE Was(t) /\ Was(u)
    BY <1>5, <2>1 DEF OnePerTree
  <2> HIDE DEF Was, Takes
  <2> QED
    BY <1>2, <1>3, <1>4, <1>5, <2>1
<1> QED
  BY <1>5 DEF OnePerTree

LEMMA CreatesMissingStep ==
    ASSUME ShapeInv, OnePerTree, CreatesMissing, [Next]_vars, ~raced'
    PROVE  CreatesMissing'
<1>0. Kept /\ Undisturbed
  BY ObjectStep, Undisturbing
<1>1. ASSUME NEW t \in Tick, work'[t].stage = "create",
             NEW x, x = work'[t].on, NEW name, name = op'[x].path[work'[t].depth],
             NEW at, at = work'[t].at,
             NEW i \in DOMAIN remote', remote'[i].kind = TreeOf(x), remote'[i].name = name,
             remote'[i].under = at
      PROVE  FALSE
  <2>0. Resolves(t)'
    BY <1>1 DEF Resolves
  <2>1. Resolves(t) /\ work[t].on = x /\ work[t].depth = work'[t].depth /\ work[t].at = at
        /\ Matches(NodeWanted(t).kind, NodeWanted(t).name, work[t].at) = {}
        /\ (Find(t) \/ (work'[t] = work[t] /\ ~\E again \in BOOLEAN : CreateUnanswered(t, again)))
    BY <1>1, <2>0, ResolvedBefore DEF CreatesMissing, Resolves
  <2>2. op'[x] = op[x]
    <3>1. CASE Find(t)
      BY <3>1 DEF Find, table
    <3>2. CASE work'[t] = work[t]
      BY <1>0, <2>1, <3>2 DEF Undisturbed, Resolves
    <3> QED
      BY <2>1, <3>1, <3>2
  <2>3. NodeWanted(t).kind = TreeOf(x) /\ NodeWanted(t).name = name /\ TreeOf(x) \in Trees
    BY <1>1, <2>1, <2>2, NodeType DEF Resolves
  <2>4. CASE i \in DOMAIN remote
    <3>1. remote[i].kind = TreeOf(x) /\ remote[i].name = name /\ remote[i].under = at
      BY <1>0, <1>1, <2>3, <2>4 DEF Kept, Trees, TreeOf
    <3> QED
      BY <2>1, <2>3, <2>4, <3>1 DEF Matches
  <2>5. CASE i \notin DOMAIN remote
    <3>1. PICK u \in Tick :
              /\ Worker(u)
              /\ \/ work[u].stage = "create" /\ remote'[i] = NodeWanted(u)
                 \/ work[u].stage = "call" /\ remote'[i] = Created(u) /\ CallAdds(u)
      BY <2>5, NewObjects
    <3>2. work[u].stage = "create" /\ remote'[i] = NodeWanted(u)
      BY <1>1, <3>1 DEF CallAdds, TreeOf
    <3>3. TreeOf(work[u].on) = TreeOf(work[t].on)
      BY <1>1, <2>1, <3>2, NodeType
    <3>4. u = t
      BY <2>1, <3>2, <3>3 DEF OnePerTree, Resolves
    <3>5. remote' # remote
      BY <2>5
    <3>6. ~Find(t)
      BY <3>5 DEF Find
    <3>7. work'[t] = work[t] /\ Create(t)
      BY <2>1, <3>1, <3>2, <3>4, <3>5, <3>6 DEF Worker, Take, Call, Settle, Fails, GivesUp
    <3>8. PICK r : r = Resolving(work[t].on, cache', op[work[t].on].path, work[t].depth + 1,
                                 Len(remote'))
      OBVIOUS
    <3>9. Puts(t, r) /\ r.stage \in {"find", "call"}
      BY <3>7, <3>8, Creates, Descending DEF Create
    <3>10. work'[t] = r
      BY <3>9 DEF Puts, ShapeInv, WorkInv
    <3> QED
      BY <1>1, <3>9, <3>10
  <2> QED
    BY <2>4, <2>5
<1> QED
  <2>1. ASSUME NEW t \in Tick, work'[t].stage = "create"
        PROVE  Matches(NodeWanted(t).kind, NodeWanted(t).name, work[t].at)' = {}
    BY <1>1, <2>1 DEF Matches, NodeWanted, Node
  <2> QED
    BY <2>1 DEF CreatesMissing

LEMMA SingleNodesStep ==
    ASSUME ShapeInv, SingleNodes, CreatesMissing, [Next]_vars
    PROVE  SingleNodes'
<1>0. Kept /\ Objects
  BY ObjectStep, ObjectsAre DEF ShapeInv
<1> DEFINE Same(i, j) == /\ remote'[i].kind \in Trees /\ remote'[j].kind = remote'[i].kind
                         /\ remote'[j].name = remote'[i].name
                         /\ remote'[j].under = remote'[i].under
<1>1. ASSUME NEW i \in DOMAIN remote, NEW j \in DOMAIN remote, Same(i, j) PROVE i = j
  BY <1>0, <1>1 DEF Kept, SingleNodes
<1>2. ASSUME NEW i \in DOMAIN remote', i \notin DOMAIN remote, NEW j \in DOMAIN remote', Same(i, j)
      PROVE  i = j
  <2>1. PICK t \in Tick :
              \/ work[t].stage = "create" /\ remote'[i] = NodeWanted(t) /\ Adds(NodeWanted(t))
              \/ work[t].stage = "call" /\ remote'[i] = Created(t) /\ CallAdds(t)
    BY <1>2, NewObjects
  <2>2. work[t].stage = "create" /\ remote'[i] = NodeWanted(t) /\ Adds(NodeWanted(t))
    BY <1>2, <2>1 DEF CallAdds, Trees
  <2>3. CASE j \in DOMAIN remote
    <3>1. remote'[j] = remote[j]
      BY <2>2, <2>3 DEF Adds
    <3>2. j \in Matches(NodeWanted(t).kind, NodeWanted(t).name, work[t].at)
      BY <1>2, <2>2, <2>3, <3>1, NodeType DEF Matches
    <3> QED
      BY <2>2, <3>2 DEF CreatesMissing
  <2>4. CASE j \notin DOMAIN remote
    BY <1>0, <1>2, <2>2, <2>4 DEF Adds, Objects
  <2> QED
    BY <2>3, <2>4
<1>3. ASSUME NEW i \in DOMAIN remote', NEW j \in DOMAIN remote', Same(i, j) PROVE i = j
  <2>1. Same(j, i)
    BY <1>3
  <2> HIDE DEF Same
  <2> QED
    BY <1>1, <1>2, <1>3, <2>1
<1> QED
  BY <1>3 DEF SingleNodes

\* No category or location is created twice, however many operations fail and are tried again
\* and whatever the caches hold, unless two ticks resolved paths at once or a POST was resent.
THEOREM Single == Spec => []OneNodePerPath
<1>1. Init => NodeInv
  BY IdleType DEF Init, NodeInv, SingleNodes, OnePerTree, CreatesMissing, Resolves
<1>2. ShapeInv /\ NodeInv /\ [Next]_vars => NodeInv'
  <2> SUFFICES ASSUME ShapeInv, NodeInv, [Next]_vars, ~raced'
               PROVE  SingleNodes' /\ OnePerTree' /\ CreatesMissing'
    BY DEF NodeInv
  <2>1. ~raced
    BY RacedStep
  <2>2. SingleNodes /\ OnePerTree /\ CreatesMissing
    BY <2>1 DEF NodeInv
  <2> QED
    BY <2>2, OnePerTreeStep, CreatesMissingStep, SingleNodesStep
<1>3. NodeInv => OneNodePerPath
  BY DEF NodeInv, OneNodePerPath, SingleNodes
<1> QED
  BY <1>1, <1>2, <1>3, Shape, PTL DEF Spec

-----------------------------------------------------------------------------
(* What is gone.                                                             *)

\* A lot that is there lies under a part that is there, and what the reconciler is about to
\* clear was gone when it asked.
LotsGo ==
    \A i \in DOMAIN remote : remote[i].kind = "lot" /\ remote[i].exists =>
        remote[remote[i].of].exists

GoneInv == LotsGo /\ (pass.gone # NoEntry => ~remote[pass.gone[2]].exists)

LEMMA ExistsStays ==
    ASSUME ShapeInv, [Next]_vars, ~Deletes, NEW i \in DOMAIN remote
    PROVE  remote'[i].exists = remote[i].exists
<1>1. ASSUME NEW e, Adds(e) PROVE remote'[i] = remote[i]
  BY <1>1 DEF Adds
<1>2. ASSUME NEW t \in Tick, Create(t) \/ \E again \in BOOLEAN : CreateUnanswered(t, again)
      PROVE  remote'[i] = remote[i]
  <2>1. work[t].stage = "create" /\ HasRoom /\ remote' = Append(remote, NodeWanted(t))
    BY <1>2 DEF Create, CreateUnanswered
  <2> QED
    BY <1>1, <2>1, Creates
<1>3. ASSUME NEW t \in Tick, Call(t) PROVE remote'[i].exists = remote[i].exists
  BY <1>1, <1>3, Calls DEF CallAdds, CallMoves
<1>4. ASSUME NEW t \in Tick,
             (\E x \in Target : Take(t, x)) \/ Find(t) \/ Settle(t) \/ Fails(t) \/ GivesUp(t)
      PROVE  remote' = remote
  BY <1>4 DEF Take, Find, Settle, Fails, GivesUp
<1>5. CASE Quiet
  BY <1>5, QuietSteps
<1> QED
  BY <1>2, <1>3, <1>4, <1>5 DEF Next, Worker, Quiet, Retries, Deletes

LEMMA LotsGoStep ==
    ASSUME ShapeInv, LotsGo, [Next]_vars
    PROVE  LotsGo'
<1>0. Kept /\ ObjInv' /\ Objects
  BY ObjectStep, ObjectsAre DEF ShapeInv
<1>1. ASSUME NEW i \in DOMAIN remote', remote'[i].kind = "lot", remote'[i].exists,
             NEW j, j = remote'[i].of
      PROVE  remote'[j].exists
  <2>1. CASE i \in DOMAIN remote
    <3>1. /\ remote[i].kind = "lot" /\ remote[i].exists /\ remote[i].of = j
      BY <1>0, <1>1, <2>1 DEF Kept
    <3>2. PartRef(j) /\ remote[j].exists
      BY <2>1, <3>1 DEF LotsGo, ShapeInv, RefInv
    <3>3. CASE Deletes
      BY <1>1, <2>1, <3>1, <3>2, <3>3, Deletions DEF Deletes, PartRef
    <3>4. CASE ~Deletes
      BY <3>2, <3>4, ExistsStays DEF PartRef
    <3> QED
      BY <3>3, <3>4
  <2>2. CASE i \notin DOMAIN remote
    <3>1. PICK t \in Tick :
              \/ work[t].stage = "create" /\ remote'[i] = NodeWanted(t)
              \/ work[t].stage = "call" /\ remote'[i] = Created(t) /\ CallAdds(t) /\ Worker(t)
      BY <2>2, NewObjects
    <3>2. CASE work[t].stage = "create" /\ remote'[i] = NodeWanted(t)
      BY <1>1, <3>2, NodeType DEF Trees
    <3>3. CASE work[t].stage = "call" /\ remote'[i] = Created(t) /\ CallAdds(t) /\ Worker(t)
      <4>1. PICK x : x = work[t].on
        OBVIOUS
      <4>2. x \in Item /\ j = PartOf(x) /\ op[x].kind = "create"
        <5>1. x \in Target /\ x \notin Part
          BY <1>1, <3>3, <4>1, TickAre DEF CallAdds
        <5> QED
          BY <1>1, <3>3, <4>1, <5>1, Constants DEF CallAdds
      <4>3. Call(t)
        <5>1. Len(remote') # Len(remote)
          <6>1. Len(remote') = Len(remote) + 1
            BY <3>3 DEF CallAdds, Adds
          <6> QED
            <7>1. Len(remote) \in Nat
              BY <1>0 DEF Objects
            <7> QED
              BY <6>1, <7>1
        <5> QED
          BY <3>3, <5>1 DEF Worker, Take, Find, Create, CreateUnanswered, Settle, Fails, GivesUp,
                            IdleTick
      <4>4. Possible(x)
        BY <4>1, <4>3, Calls
      <4>5. j \in DOMAIN remote /\ remote[j].exists
        BY <3>3, <4>1, <4>2, <4>4, TickAre DEF Possible, PartRef
      <4> QED
        BY <3>3, <4>5 DEF CallAdds, Adds
    <3> QED
      BY <3>1, <3>2, <3>3
  <2> QED
    BY <2>1, <2>2
<1> QED
  BY <1>1 DEF LotsGo

LEMMA GoneStep ==
    ASSUME ShapeInv, GoneInv, [Next]_vars
    PROVE  (pass.gone # NoEntry => ~remote[pass.gone[2]].exists)'
<1>0. Kept
  BY ObjectStep
<1>1. ASSUME NEW e, e[2] \in DOMAIN remote, ~remote[e[2]].exists PROVE ~remote'[e[2]].exists
  BY <1>0, <1>1 DEF Kept
<1>2. pass.gone # NoEntry => pass.gone[2] \in DOMAIN remote
  BY DEF ShapeInv, PassInv, EntryFits, IsRef
<1>3. CASE pass' = pass
  BY <1>1, <1>2, <1>3 DEF GoneInv
<1>4. CASE Reconciler
  <2>1. \A e \in pass.todo : e[2] \in DOMAIN remote
    BY DEF ShapeInv, PassInv, EntryFits, IsRef
  <2>2. pass'.gone = NoEntry \/ \E e \in pass.todo : pass'.gone = e /\ ~remote[e[2]].exists
    BY <1>4, Passing DEF PassIs
  <2> QED
    BY <1>1, <2>1, <2>2
<1>5. CASE Command
  BY <1>3, <1>5, CommandItems
<1>6. CASE Deletes
  BY <1>3, <1>6 DEF Deletes, DropLot, DeletedByHand
<1>7. CASE Retries
  BY <1>3, <1>7 DEF Retries, Retry
<1> QED
  BY <1>3, <1>4, <1>5, <1>6, <1>7, WorkerSteps DEF Next, Deletes, Retries, vars

\* The reconciler clears no reference to an object that Part-DB has, whatever commands, ticks,
\* retries and deletions do between its reads and writes, but one that changed under it and
\* one to a lot of another part than the one that is gone.
THEOREM Forgotten == Spec => ForgetsOnlyTheGone
<1>1. Init => GoneInv
  BY RemoteAssumption DEF Init, GoneInv, LotsGo, NoPass
<1>2. ShapeInv /\ GoneInv /\ [Next]_vars => GoneInv'
  BY LotsGoStep, GoneStep DEF GoneInv
<1>3. ShapeInv /\ GoneInv /\ [Next]_vars =>
         [Clear => \A x \in Target : column'[x] # column[x] =>
             \/ ~remote[column[x]].exists
             \/ x = pass.gone[1] /\ column[x] # pass.gone[2]
             \/ x # pass.gone[1] /\ remote[column[x]].of # pass.gone[2]]_vars
  <2> SUFFICES ASSUME ShapeInv, GoneInv, Clear, NEW x \in Target, column'[x] # column[x]
               PROVE  \/ ~remote[column[x]].exists
                      \/ x = pass.gone[1] /\ column[x] # pass.gone[2]
                      \/ x # pass.gone[1] /\ remote[column[x]].of # pass.gone[2]
    OBVIOUS
  <2>1. ~remote[pass.gone[2]].exists
    BY DEF Clear, GoneInv
  <2>2. x # pass.gone[1] => x \in Item /\ column[x] # NoId
    BY Constants DEF Clear
  <2>3. x # pass.gone[1] => LotRef(column[x])
    BY <2>2, Constants DEF ShapeInv, RefInv, IsRef, Names, LotRef
  <2>4. x # pass.gone[1] /\ remote[column[x]].exists => remote[remote[column[x]].of].exists
    BY <2>3 DEF GoneInv, LotsGo, LotRef
  <2> QED
    BY <2>1, <2>4
<1> QED
  BY <1>1, <1>2, <1>3, Shape, PTL DEF Spec, ForgetsOnlyTheGone
=============================================================================
