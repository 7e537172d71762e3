---------------------------- MODULE StripedUpload ----------------------------
(***************************************************************************)
(* What an upload promises: every part is settled once, as recorded (its   *)
(* Drive file id is in the metadata) or as lost, and the user is told      *)
(* "complete" or "failed" only when every part is settled, truthfully.     *)
(* Threads, queue, slots and counters do not appear here.                  *)
(***************************************************************************)
CONSTANT Parts

VARIABLES outcome, verdict

vars == <<outcome, verdict>>

Init ==
    /\ outcome = [p \in Parts |-> "pending"]
    /\ verdict = "none"

Settle(p) ==
    /\ outcome[p] = "pending"
    /\ \E o \in {"recorded", "lost"} : outcome' = [outcome EXCEPT ![p] = o]
    /\ UNCHANGED verdict

Tell ==
    /\ verdict = "none"
    /\ \A p \in Parts : outcome[p] # "pending"
    /\ verdict' = IF \A p \in Parts : outcome[p] = "recorded"
                  THEN "complete" ELSE "failed"
    /\ UNCHANGED outcome

Next == Tell \/ \E p \in Parts : Settle(p)

Spec == Init /\ [][Next]_vars
==============================================================================
