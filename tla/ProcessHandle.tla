---------------------------- MODULE ProcessHandle ----------------------------
(***************************************************************************)
(* A Process, the handle that launch() returns (process.rs): wait(),       *)
(* cleanup() and Drop, the processes they act on and what the kernel does  *)
(* with them.  The module starts where Launch ends.  The caller's thread   *)
(* is the variable pc; RunCommand adds what `arapuca run' does around it.  *)
(*                                                                         *)
(* "child" is the process launch() spawned.  In a PID namespace it is the  *)
(* relay and "target" is the namespace's init; otherwise "child" is the    *)
(* target itself.  "k1" and "k2" are descendants of the target and         *)
(* "proxy" is the CONNECT proxy.  A PID or process group number that was   *)
(* freed may be given to a foreign process: "other" stands for it.         *)
(***************************************************************************)
EXTENDS Integers, FiniteSets

CONSTANTS Configs,      \* the command lines and systems to consider
          Faults,       \* the system calls that may fail
          MaxTries      \* DESTROY_RETRIES

VARIABLES cfg,      \* the configuration of this execution
          pc,       \* the main thread
          live,     \* process -> "none", "live", "zombie" or "reaped"
          status,   \* exit status of "child" and "target"
          pend,     \* pending signals, <<process, signal>>
          group,    \* the processes of the child's process group
          foreign,  \* the number pid() returned is a foreign process's now
          waited,   \* Process::waited
          cgroup,   \* the sandbox's cgroup directory
          list,     \* the content of cgroup.procs that kill_procs has read
          tries,    \* rounds of destroy()
          tmp,      \* the sandbox's temporary directory
          taken,    \* cleanup() has taken cgroup_path out of the handle
          ret,      \* what wait() returned
          sockdir   \* the directory of the CONNECT proxy's socket

procVars == <<live, status, pend, group, foreign>>
handleVars == <<waited, cgroup, list, tries, tmp, taken, ret, sockdir>>

Kids == {"k1", "k2"}
Procs == {"child", "target", "proxy"} \cup Kids
Sandboxed == Procs \ {"proxy"}

(* The process whose PID pid() returns: the relay reports the target's.    *)
HasTargetPid == cfg.pidns /\ cfg.reported
Named == IF HasTargetPid THEN "target" ELSE "child"
Init1 == IF cfg.pidns THEN "target" ELSE "child"

Live(p) == live[p] = "live"
Goto(l) == pc' = l

-----------------------------------------------------------------------------
(* The kernel.                                                             *)

(* SIGKILLs that the death of p sends: parent-death signals, and the       *)
(* collapse of a PID namespace with its init.                              *)
Bereaved(p) ==
    CASE p = "child" /\ cfg.pidns -> {"target"}
      [] p = "target"             -> Kids
      [] OTHER                    -> {}

Killed(S) == {<<q, "KILL">> : q \in {r \in S : Live(r)}}

(* A process whose parent is gone is reaped by the init it falls to.       *)
Die(p, how) ==
    /\ live' = [q \in Procs |->
           CASE q = p -> IF p \in Kids \/ (p = "target" /\ ~Live("child")) THEN "reaped" ELSE "zombie"
             [] q = "target" /\ p = "child" /\ live[q] = "zombie" -> "reaped"
             [] OTHER -> live[q]]
    /\ status' = [status EXCEPT ![p] = how]
    /\ pend' = {m \in pend : m[1] # p} \cup Killed(Bereaved(p))
    /\ group' = group \ (Kids \cap {p})

(* The target, or the relay or the proxy by accident, ends by itself.      *)
ProcessEnds(p) ==
    /\ Live(p)
    /\ \/ p = Init1 /\ \E how \in {"zero", "code"} : Die(p, how)
       \/ p \in Kids /\ Die(p, "zero")
       \/ p \in {"child", "proxy"} /\ "oom" \in Faults /\ Die(p, "signal")
    /\ UNCHANGED <<cfg, pc, foreign, handleVars>>

ProcessKilled(p) ==
    /\ Live(p) /\ <<p, "KILL">> \in pend
    /\ Die(p, "signal")
    /\ UNCHANGED <<cfg, pc, foreign, handleVars>>

(* A process that gets SIGTERM dies of it or carries on; the relay sends   *)
(* it on to the target, once its handlers are installed.                   *)
ProcessTermed(p) ==
    /\ Live(p) /\ <<p, "TERM">> \in pend
    /\ \/ Die(p, "signal")
       \/ /\ pend' = (pend \ {<<p, "TERM">>}) \cup
                     (IF p = "child" /\ cfg.pidns /\ Live("target")
                      THEN {<<"target", "TERM">>} ELSE {})
          /\ UNCHANGED <<live, status, group>>
    /\ UNCHANGED <<cfg, pc, foreign, handleVars>>

(* parent_relay reaps the namespace's init and ends with its status.       *)
RelayReaps ==
    /\ cfg.pidns /\ Live("child") /\ live["target"] = "zombie"
    /\ live' = [live EXCEPT !["target"] = "reaped", !["child"] = "zombie"]
    /\ status' = [status EXCEPT !["child"] = status["target"]]
    /\ pend' = {m \in pend : m[1] # "child"}
    /\ UNCHANGED <<cfg, pc, group, foreign, handleVars>>

(* The target forks k1 and k1 forks k2, in the group or in a session of    *)
(* its own.  A process with a SIGKILL pending, or in a namespace that has  *)
(* lost its init, does not fork.                                           *)
Forks(p, k) ==
    /\ \/ p = Init1 /\ k = "k1"
       \/ p = "k1" /\ k = "k2"
    /\ cfg.kids /\ Live(p) /\ live[k] = "none"
    /\ <<p, "KILL">> \notin pend /\ (cfg.pidns => Live("target"))
    /\ live' = [live EXCEPT ![k] = "live"]
    /\ \E G \in {{}, {k}} : (G # {} => p = Init1 \/ p \in group) /\ group' = group \cup G
    /\ UNCHANGED <<cfg, pc, status, pend, foreign, handleVars>>

(* A number is in use until it is neither a PID nor a group.               *)
NumberFree ==
    /\ live[Named] = "reaped"
    /\ Named = "child" => \A p \in group : live[p] = "reaped"

Recycle ==
    /\ NumberFree /\ ~foreign
    /\ foreign' = TRUE
    /\ UNCHANGED <<cfg, pc, live, status, pend, group, handleVars>>

Kernel ==
    \/ \E p \in Procs : ProcessEnds(p) \/ ProcessKilled(p) \/ ProcessTermed(p)
    \/ RelayReaps
    \/ \E p \in Procs, k \in Kids : Forks(p, k)
    \/ Recycle

-----------------------------------------------------------------------------
(* Sending signals.                                                        *)

(* pidfd_send_signal: it reaches the process the descriptor was opened on. *)
ToTarget(sig) == IF Live(Named) THEN {<<Named, sig>>} ELSE {}

(* kill() of the number pid() returned: it reaches whoever has it now.     *)
ToNumber(sig) == IF foreign THEN {<<"other", sig>>} ELSE ToTarget(sig)

(* kill() of the child's process group, by the number it had.              *)
ToGroup ==
    Killed(group) \cup
    (IF foreign /\ ~HasTargetPid THEN {<<"othergroup", "KILL">>} ELSE {})

Send(S) == pend' = pend \cup S

-----------------------------------------------------------------------------
(* CgroupManager::destroy, called by cleanup() or, without it, by Drop.    *)

Members == {p \in Sandboxed : Live(p)}
AfterDestroy == IF taken THEN "c_tmp" ELSE "d_tmp"

(* cgroup.kill reaches every member at once; without it kill_procs reads   *)
(* the list ...                                                            *)
CgroupKill ==
    /\ pc = "cg_kill"
    /\ tries' = 0
    /\ IF cfg.cgkill
       THEN Send(Killed(Members)) /\ Goto("cg_rmdir") /\ UNCHANGED list
       ELSE list' = Members /\ Goto("cg_procs") /\ UNCHANGED pend
    /\ UNCHANGED <<cfg, live, status, group, foreign, waited, cgroup, tmp,
                   taken, ret, sockdir>>

(* ... and then kills what is on it.                                       *)
CgroupKillProcs ==
    /\ pc = "cg_procs"
    /\ Send(Killed(list))
    /\ list' = {}
    /\ Goto("cg_rmdir")
    /\ UNCHANGED <<cfg, live, status, group, foreign, waited, cgroup, tries,
                   tmp, taken, ret, sockdir>>

(* rmdir succeeds once no member is alive; destroy() gives up silently.    *)
CgroupRmdir ==
    /\ pc = "cg_rmdir"
    /\ \/ /\ Members = {}
          /\ cgroup' = "removed"
          /\ Goto(AfterDestroy)
          /\ UNCHANGED tries
       \/ /\ Members # {} /\ tries < MaxTries
          /\ tries' = tries + 1
          /\ Goto(IF tries' = MaxTries THEN AfterDestroy ELSE "cg_rmdir")
          /\ UNCHANGED cgroup
    /\ UNCHANGED <<cfg, procVars, waited, list, tmp, taken, ret, sockdir>>

-----------------------------------------------------------------------------
(* Process::wait, cleanup and Drop.                                        *)

AfterWait == IF cfg.caller = "cli" THEN "done" ELSE "held"

(* Child::wait.  It fails only where the kernel reaps children by itself   *)
(* (SIGCHLD ignored), and then once the child is gone.                     *)
Wait ==
    /\ pc = "wait" /\ live["child"] = "zombie"
    /\ live' = [live EXCEPT !["child"] = "reaped"]
    /\ \/ waited' = TRUE /\ Goto("group") /\ UNCHANGED ret
       \/ "wait" \in Faults /\ ret' = "error" /\ Goto(AfterWait) /\ UNCHANGED waited
    /\ UNCHANGED <<cfg, status, pend, group, foreign, cgroup, list, tries,
                   tmp, taken, sockdir>>

(* Mutant of WaitGroup: orphans are left alone.                            *)
WaitGroupForgotten ==
    pc = "group" /\ Goto("collect") /\ UNCHANGED <<cfg, procVars, handleVars>>

(* Orphans in the child's process group are killed, by its number.         *)
WaitGroup ==
    /\ pc = "group"
    /\ Send(IF HasTargetPid THEN {} ELSE ToGroup)
    /\ Goto("collect")
    /\ UNCHANGED <<cfg, live, status, group, foreign, handleVars>>

(* The audit pipes are drained, which takes a bounded time whoever holds   *)
(* them, statistics are read and the events are emitted.                   *)
WaitCollect ==
    /\ pc = "collect"
    /\ ret' = status["child"]
    /\ Goto(AfterWait)
    /\ UNCHANGED <<cfg, procVars, waited, cgroup, list, tries, tmp, taken, sockdir>>

HasCgroup == cgroup = "present"

(* cleanup() takes the cgroup out of the handle before it destroys it.     *)
Cleanup ==
    /\ pc = "cleanup"
    /\ taken' = TRUE
    /\ Goto(IF HasCgroup THEN "cg_kill" ELSE "c_tmp")
    /\ UNCHANGED <<cfg, procVars, waited, cgroup, list, tries, tmp, ret,
                   sockdir>>

RemoveTmp ==
    tmp' \in {"removed"} \cup (IF "tmp" \in Faults THEN {tmp} ELSE {})

CleanupTmp ==
    /\ pc = "c_tmp"
    /\ RemoveTmp
    /\ Goto("d_kill")
    /\ UNCHANGED <<cfg, procVars, waited, cgroup, list, tries, taken, ret, sockdir>>

(* Drop kills through the pidfd, or the child by its number.               *)
DropKill ==
    /\ pc = "d_kill"
    /\ \/ waited /\ Goto("d_proxy") /\ UNCHANGED pend
       \/ /\ ~waited
          /\ Send(CASE cfg.pidfd -> ToTarget("KILL")
                    [] ~cfg.pidfd /\ foreign /\ ~HasTargetPid -> {<<"other", "KILL">>}
                    [] OTHER -> Killed({"child"}))
          /\ Goto("d_wait")
    /\ UNCHANGED <<cfg, live, status, group, foreign, handleVars>>

DropWait ==
    /\ pc = "d_wait" /\ live["child"] \in {"zombie", "reaped"}
    /\ live' = [live EXCEPT !["child"] = "reaped"]
    /\ Goto("d_group")
    /\ UNCHANGED <<cfg, status, pend, group, foreign, handleVars>>

DropGroup ==
    /\ pc = "d_group"
    /\ Send(IF HasTargetPid THEN {} ELSE ToGroup)
    /\ Goto("d_proxy")
    /\ UNCHANGED <<cfg, live, status, group, foreign, handleVars>>

(* cleanup_connect_proxy for a proxy of launch(), then what is left of the *)
(* cgroup and of the directory.                                            *)
DropProxy ==
    /\ pc = "d_proxy"
    /\ Goto(IF cfg.proxy = "lib" THEN "p_kill" ELSE "d_cgroup")
    /\ UNCHANGED <<cfg, procVars, handleVars>>

DropCgroup ==
    /\ pc = "d_cgroup"
    /\ Goto(IF HasCgroup /\ ~taken THEN "cg_kill" ELSE "d_tmp")
    /\ UNCHANGED <<cfg, procVars, handleVars>>

DropTmp ==
    /\ pc = "d_tmp"
    /\ IF tmp = "present" THEN RemoveTmp ELSE UNCHANGED tmp
    /\ Goto(IF cfg.caller = "lib" THEN "exit"
            ELSE IF cfg.proxy = "cli" THEN "p_kill" ELSE "exit")
    /\ UNCHANGED <<cfg, procVars, waited, cgroup, list, tries, taken, ret, sockdir>>

(* cleanup_connect_proxy: SIGKILL and a waitpid that blocks.  The PID is   *)
(* a child's that was not waited for, so its number cannot be recycled.    *)
ProxyKill ==
    /\ pc = "p_kill"
    /\ Send(Killed({"proxy"}))
    /\ Goto("p_reap")
    /\ UNCHANGED <<cfg, live, status, group, foreign, handleVars>>

AfterProxy == IF cfg.proxy = "lib" THEN "d_cgroup" ELSE "exit"

ProxyReap ==
    /\ pc = "p_reap" /\ live["proxy"] \in {"zombie", "reaped"}
    /\ live' = [live EXCEPT !["proxy"] = "reaped"]
    /\ sockdir' = "removed"
    /\ Goto(AfterProxy)
    /\ UNCHANGED <<cfg, status, pend, group, foreign, waited, cgroup, list,
                   tries, tmp, taken, ret>>

Handle ==
    \/ CgroupKill \/ CgroupKillProcs \/ CgroupRmdir
    \/ Wait \/ WaitGroup \/ WaitCollect
    \/ Cleanup \/ CleanupTmp
    \/ DropKill \/ DropWait \/ DropGroup \/ DropProxy \/ DropCgroup \/ DropTmp
    \/ ProxyKill \/ ProxyReap
=============================================================================
