------------------------------ MODULE OnceCells ------------------------------
(***************************************************************************)
(* What the four caches of navigationResolver promise their callers: the   *)
(* work behind a key is begun at most once, it settles on one outcome, and *)
(* every caller of that key is handed that outcome.  Threads, markers and  *)
(* wait channels are absent; ResolverCache implements this module.         *)
(***************************************************************************)
CONSTANTS Keys, Outcomes, Unsettled

VARIABLES begun,      \* the keys whose work was begun
          outcome,    \* key |-> the outcome it settled on, or Unsettled
          delivered   \* key |-> the outcomes handed to callers

vars == <<begun, outcome, delivered>>

Init == /\ begun = {}
        /\ outcome = [k \in Keys |-> Unsettled]
        /\ delivered = [k \in Keys |-> {}]

Begin(k) == /\ k \notin begun
            /\ begun' = begun \union {k}
            /\ UNCHANGED <<outcome, delivered>>

(* The one who did the work receives the outcome it settles. *)
Settle(k) == /\ k \in begun
             /\ outcome[k] = Unsettled
             /\ \E o \in Outcomes :
                  /\ outcome' = [outcome EXCEPT ![k] = o]
                  /\ delivered' = [delivered EXCEPT ![k] = {o}]
             /\ UNCHANGED begun

Deliver(k) == /\ outcome[k] # Unsettled
              /\ delivered' = [delivered EXCEPT ![k] = @ \union {outcome[k]}]
              /\ UNCHANGED <<begun, outcome>>

Next == \E k \in Keys : Begin(k) \/ Settle(k) \/ Deliver(k)

Spec == Init /\ [][Next]_vars /\ \A k \in Keys : WF_vars(Settle(k))
==============================================================================
