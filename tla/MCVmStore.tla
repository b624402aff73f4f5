----------------------------- MODULE MCVmStore -----------------------------
(***************************************************************************)
(* Small instances of VmStore for TLC: the sets of commands are model      *)
(* values, given in the configuration files.  A run takes a few of its     *)
(* commands at a time; the others have ended before they began.            *)
(***************************************************************************)
EXTENDS VmStore, TLC

StartSymmetry == Permutations(Starts)

CrewInit(crews) ==
    /\ NoVm
    /\ \E crew \in crews :
        pc = [c \in Cmds |-> IF c \in crew THEN FirstPc(c) ELSE "done"]

(* Two starts beside a stop, and beside a remove; and one start beside a   *)
(* stop and a prune.                                                       *)
RaceCrews == {Starts \cup Stops, Starts \cup Removes}
             \cup {{s} \cup Stops \cup Prunes : s \in Starts}

RaceSpec == CrewInit(RaceCrews) /\ [][Next]_vars

(* A start that may be interrupted, beside a stop and a reset, beside a    *)
(* list, and beside another start and a prune.  Nothing is removed here.   *)
KeepCrews == {Interruptible \cup Stops \cup Resets, Interruptible \cup Lists,
              Starts \cup Prunes}

KeepSpec == CrewInit(KeepCrews) /\ [][Next]_vars /\ Fairness
=============================================================================
