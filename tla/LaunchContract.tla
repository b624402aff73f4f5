--------------------------- MODULE LaunchContract ---------------------------
(***************************************************************************)
(* What Linux::launch() promises its caller, without saying how: it        *)
(* returns Ok or an error once; the target starts at most once and only    *)
(* confined; it never starts, and no longer runs, after an error; and it   *)
(* does not outlive a caller that is killed.  Module Launch implements     *)
(* this specification under the mapping given there.                       *)
(***************************************************************************)

VARIABLES
    outcome,    \* pending, ok, err, or crashed: the caller was killed
    target      \* absent, confined, exposed (running without a mandatory
                \* layer) or gone (exited, or with a SIGKILL pending)

contractVars == <<outcome, target>>

ContractInit == outcome = "pending" /\ target = "absent"

StopTarget == target' = IF target = "confined" THEN "gone" ELSE target

Start ==
    /\ outcome # "err"
    /\ target = "absent"
    /\ target' = "confined"
    /\ UNCHANGED outcome

End ==
    /\ target = "confined"
    /\ StopTarget
    /\ UNCHANGED outcome

ReturnOk ==
    /\ outcome = "pending"
    /\ outcome' = "ok"
    /\ UNCHANGED target

ReturnErr ==
    /\ outcome = "pending"
    /\ outcome' = "err"
    /\ StopTarget

CallerKilled ==
    /\ outcome \in {"pending", "ok"}
    /\ outcome' = "crashed"
    /\ UNCHANGED target \/ StopTarget

ContractNext == Start \/ End \/ ReturnOk \/ ReturnErr \/ CallerKilled

(* launch() returns, and a target whose caller was killed ends.            *)
ContractFairness ==
    /\ WF_contractVars(ReturnOk \/ ReturnErr)
    /\ WF_contractVars(outcome = "crashed" /\ End)

ContractSpec == ContractInit /\ [][ContractNext]_contractVars
FairContract == ContractSpec /\ ContractFairness
=============================================================================
