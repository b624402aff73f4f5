----------------------------- MODULE VmContract -----------------------------
(***************************************************************************)
(* What the lock file of one VM name promises, with no files, probes or    *)
(* file descriptors: the sessions of a VM follow each other.  A session    *)
(* begins when it gets the name, records itself in vm.json, boots at most  *)
(* once, and gives the name back only when its VM is gone or has lost the  *)
(* lock.                                                                   *)
(***************************************************************************)
CONSTANTS Starts, None

VARIABLES
    owners,   \* the session that has the name, as a set of at most one
    conf,     \* the session vm.json describes
    up        \* the sessions whose daemon is alive and has the lock

Init == owners = {} /\ conf = None /\ up = {}

Acquire(s) == owners = {} /\ owners' = {s} /\ UNCHANGED <<conf, up>>

Record(s) == owners = {s} /\ up = {} /\ conf' = s /\ UNCHANGED <<owners, up>>

Boot(s) ==
    owners = {s} /\ conf = s /\ up = {} /\ up' = {s} /\ UNCHANGED <<owners, conf>>

(* The VM ends, or loses the lock; the name is free unless vm start still  *)
(* waits for the agent.                                                    *)
PowerOff(s) ==
    /\ up = {s} /\ up' = {}
    /\ owners' \in {owners, {}}
    /\ UNCHANGED conf

Release(s) == owners = {s} /\ up = {} /\ owners' = {} /\ UNCHANGED <<conf, up>>

Next == \E s \in Starts :
    Acquire(s) \/ Record(s) \/ Boot(s) \/ PowerOff(s) \/ Release(s)

Spec == Init /\ [][Next]_<<owners, conf, up>>

=============================================================================
