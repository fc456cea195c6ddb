---------------------------- MODULE ExecutionGate ----------------------------
(***************************************************************************)
(* What the execution control promises, without processes, statements or   *)
(* time (docs/receipt_semantics.md, sections 2 to 5): a binding of receipt,*)
(* plan and nonce is offered once, grants one execution, and an execution  *)
(* is announced to one client, after it was granted.                       *)
(***************************************************************************)
CONSTANTS Rid, Plan, Nonce, Decision

VARIABLES
    offered,    \* bindings issued
    granted,    \* bindings consumed
    announced   \* answers that told a client it may execute a binding

vars == <<offered, granted, announced>>

Binding == [receipt_id : Rid, plan_hash : Plan, nonce : Nonce]

Init == offered = {} /\ granted = {} /\ announced = {}

(* A receipt id is bound to one plan and one nonce for ever.               *)
Offer(b) ==
    /\ \A o \in offered : o.receipt_id # b.receipt_id
    /\ offered' = offered \cup {b}
    /\ UNCHANGED <<granted, announced>>

Grant(b) ==
    /\ b \in offered \ granted
    /\ granted' = granted \cup {b}
    /\ UNCHANGED <<offered, announced>>

Announce(d, b) ==
    /\ b \in granted
    /\ \A a \in announced : a[1] # d /\ a[2] # b
    /\ announced' = announced \cup {<<d, b>>}
    /\ UNCHANGED <<offered, granted>>

Next == \E b \in Binding :
    \/ Offer(b) \/ Grant(b)
    \/ \E d \in Decision : Announce(d, b)

Spec == Init /\ [][Next]_vars
=============================================================================
