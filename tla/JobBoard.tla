------------------------------ MODULE JobBoard ------------------------------
(***************************************************************************)
(* What a queue promises its producers: one piece of work per job id.      *)
(* Submitting an id the board knows changes nothing, accepted work ends    *)
(* done or dead, only done work is ever forgotten, and dead work stays for *)
(* an operator to look at.                                                 *)
(***************************************************************************)
CONSTANT Jobs

VARIABLE status

Statuses == {"absent", "pending", "done", "dead"}

TypeOK == status \in [Jobs -> Statuses]

Init == status = [j \in Jobs |-> "absent"]

Move(j, from, to) == status[j] = from /\ status' = [status EXCEPT ![j] = to]

Submit(j) == Move(j, "absent", "pending")
Settle(j) == Move(j, "pending", "done") \/ Move(j, "pending", "dead")
Forget(j) == Move(j, "done", "absent")

Next == \E j \in Jobs : Submit(j) \/ Settle(j) \/ Forget(j)

SafetySpec == Init /\ [][Next]_status

Spec == SafetySpec /\ \A j \in Jobs : WF_status(Settle(j))
=============================================================================
