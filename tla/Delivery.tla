------------------------------ MODULE Delivery ------------------------------
(***************************************************************************)
(* What the outbox promises to those who enqueue, without leases, ticks,    *)
(* timers or lost answers: an operation is carried out while it is queued,  *)
(* after the one it depends on is done, and is done only once it has been   *)
(* carried out; what is done stays done, and what was given up is taken up  *)
(* again only by hand.                                                      *)
(***************************************************************************)
EXTENDS Naturals

CONSTANTS Id, None

VARIABLES
    stage,   \* where each operation is
    after,   \* the operation it depends on
    times    \* how often it has been carried out

delivery == <<stage, after, times>>

Stages == {"absent", "queued", "done", "given up"}

Init == /\ stage = [o \in Id |-> "absent"]
        /\ after = [o \in Id |-> None]
        /\ times = [o \in Id |-> 0]

Ready(o) == stage[o] = "queued" /\ (after[o] = None \/ stage[after[o]] = "done")

Submit(o, d) == /\ stage[o] = "absent"
                /\ d = None \/ stage[d] # "absent"
                /\ stage' = [stage EXCEPT ![o] = "queued"]
                /\ after' = [after EXCEPT ![o] = d]
                /\ UNCHANGED times

CarryOut(o) == /\ Ready(o)
               /\ times' = [times EXCEPT ![o] = @ + 1]
               /\ UNCHANGED <<stage, after>>

Finish(o) == /\ Ready(o) /\ times[o] > 0
             /\ stage' = [stage EXCEPT ![o] = "done"]
             /\ UNCHANGED <<after, times>>

GiveUp(o) == /\ Ready(o)
             /\ stage' = [stage EXCEPT ![o] = "given up"]
             /\ UNCHANGED <<after, times>>

TakeUp(o) == /\ stage[o] = "given up"
             /\ stage' = [stage EXCEPT ![o] = "queued"]
             /\ UNCHANGED <<after, times>>

Next == \E o \in Id : \/ \E d \in Id \cup {None} : Submit(o, d)
                      \/ CarryOut(o) \/ Finish(o) \/ GiveUp(o) \/ TakeUp(o)

Spec == Init /\ [][Next]_delivery
=============================================================================
