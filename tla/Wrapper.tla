------------------------------ MODULE Wrapper ------------------------------
(***************************************************************************)
(* The wrapper process, from the exec of the wrapper binary to the exec of *)
(* the target, with the helpers it forks.  Each action is one step of the  *)
(* wrapper path of bin/arapuca.rs (main) or, when SelfExec holds, of       *)
(* selfexec.rs (run_wrapper_path); the two differ only in the order of the *)
(* resolv.conf override and the supervisor's fork.                         *)
(***************************************************************************)
EXTENDS SandboxState

Wrappers == {"wrap", "inner"}
Helpers == {"proxy", "sup", "bridge"}

WrapperPc == {"off", "preexec", "ppid", "sync", "pdeath", "nnp",
              "resolv", "sup", "landlock", "bridge", "bridgewait", "pidns",
              "hostpid", "arm", "aliveness", "seccomp", "filter", "rlimit",
              "closefds", "exec", "target", "relay_host", "relay_pid",
              "relay_close", "relay_wait"}

HelperPc == {"off", "h_close", "h_arm", "h_check", "h_init", "listen", "serve"}

Goto(p, l) == pc' = [pc EXCEPT ![p] = l]

(* wrapper::audit_layer: one line on the audit pipe, when there is one.    *)
Log(layer, status) ==
    report' = IF "audit" \in made
              THEN report \cup {<<layer, status>>} ELSE report

Confine(p, layer) == layers' = [layers EXCEPT ![p] = @ \cup {layer}]

(* A step that fails with no line on the audit pipe.                       *)
FailsSilently(p) ==
    /\ Exits(p)
    /\ UNCHANGED <<launchVars, pc, pdeath, made, msg, report, layers, cgroup,
                   members>>

(* A step that reports its failure and exits.                              *)
FailsReported(p, layer) ==
    /\ Exits(p)
    /\ Log(layer, "failed")
    /\ UNCHANGED <<launchVars, pc, pdeath, made, msg, layers, cgroup,
                   members>>

(* A step that applies a layer, reports it and goes on.                    *)
Applies(p, layer, next) ==
    /\ Confine(p, layer)
    /\ Log(layer, "applied")
    /\ Goto(p, next)
    /\ UNCHANGED <<launchVars, live, doomed, pdeath, made, wends, msg, cgroup,
                   members>>

(* A step with no effect on the shared state.                              *)
Skips(p, next) ==
    /\ Goto(p, next)
    /\ UNCHANGED <<launchVars, live, doomed, pdeath, made, wends, msg, report,
                   layers, cgroup, members>>

-----------------------------------------------------------------------------
(* Start-up.                                                               *)

(* Mutant of WaitForCgroup: the wrapper does not wait.                     *)
WaitForgotten == At("wrap", "sync") /\ Skips("wrap", "pdeath")

(* Resolve the command, then block on the sync pipe until launch() has put *)
(* this process into the cgroup; end of file without a byte means it has   *)
(* not.                                                                    *)
WaitForCgroup ==
    /\ At("wrap", "sync")
    /\ \/ /\ "sync" \in made => "sync" \in msg
          /\ Skips("wrap", "pdeath")
       \/ /\ \/ Fault("layer")
             \/ "sync" \in made /\ "sync" \notin msg /\ wends["sync"] = {}
          /\ FailsSilently("wrap")

(* setsid, PR_SET_PDEATHSIG and the getppid check.                         *)
SetPdeathsig ==
    /\ At("wrap", "pdeath")
    /\ \/ /\ Arm("wrap")
          /\ Confine("wrap", "Pdeathsig")
          /\ Log("Pdeathsig", "applied")
          /\ Goto("wrap", "nnp")
          /\ UNCHANGED <<launchVars, live, doomed, made, wends, msg, cgroup,
                         members>>
       \/ Fault("layer") /\ FailsSilently("wrap")

SetNoNewPrivs ==
    /\ At("wrap", "nnp")
    /\ \/ /\ Confine("wrap", "NoNewPrivs")
          /\ Goto("wrap", IF SelfExec THEN "sup" ELSE "resolv")
          /\ UNCHANGED <<launchVars, live, doomed, pdeath, made, wends, msg,
                         report, cgroup, members>>
       \/ Fault("layer") /\ FailsSilently("wrap")

(* A failed override is reported and the wrapper goes on.                  *)
OverrideResolvConf ==
    LET next == IF SelfExec THEN "landlock" ELSE "sup"
    IN  /\ At("wrap", "resolv")
        /\ \/ "dns" \notin made /\ Skips("wrap", next)
           \/ "dns" \in made /\ Applies("wrap", "ResolvConf", next)
           \/ /\ "dns" \in made /\ Fault("layer")
              /\ Log("ResolvConf", "failed")
              /\ Goto("wrap", next)
              /\ UNCHANGED <<launchVars, live, doomed, pdeath, made, wends,
                             msg, layers, cgroup, members>>

(* A kernel without the feature is skipped silently; a failed fork is      *)
(* reported; both go on without a supervisor.                              *)
ForkSupervisor ==
    LET next == IF SelfExec THEN "resolv" ELSE "landlock"
    IN  /\ At("wrap", "sup")
        /\ \/ /\ "unotify" \notin made \/ Fault("layer")
              /\ Skips("wrap", next)
           \/ /\ "unotify" \in made
              /\ live' = [live EXCEPT !["sup"] = "alive"]
              /\ wends' = [q \in Pipes |->
                    IF q = "sp" THEN {"wrap"}
                    ELSE IF "wrap" \in wends[q] THEN wends[q] \cup {"sup"}
                    ELSE wends[q]]
              /\ members' = IF "wrap" \in members
                            THEN members \cup {"sup"} ELSE members
              /\ pc' = [pc EXCEPT !["wrap"] = next, !["sup"] = "h_close"]
              /\ Log("Unotify", "applied")
              /\ UNCHANGED <<launchVars, doomed, pdeath, made, msg, layers,
                             cgroup>>
           \/ /\ "unotify" \in made /\ Fault("layer")
              /\ Log("Unotify", "failed")
              /\ Goto("wrap", next)
              /\ UNCHANGED <<launchVars, live, doomed, pdeath, made, wends,
                             msg, layers, cgroup, members>>

ApplyLandlock ==
    /\ At("wrap", "landlock")
    /\ \/ Applies("wrap", "Landlock", "bridge")
       \/ Fault("layer") /\ FailsReported("wrap", "Landlock")

(* fork_bridge up to the fork: a failure before it is reported and fatal.  *)
ForkBridge ==
    /\ At("wrap", "bridge")
    /\ \/ ~BridgeForked /\ Skips("wrap", "pidns")
       \/ /\ BridgeForked
          /\ Fork("wrap", "bridge")
          /\ pc' = [pc EXCEPT !["wrap"] = "bridgewait", !["bridge"] = "h_close"]
          /\ UNCHANGED <<launchVars, doomed, made, msg, report, layers,
                         cgroup>>
       \/ BridgeForked /\ Fault("layer") /\ FailsReported("wrap", "Bridge")

(* The 5 s readiness poll.  On a timeout, or when the bridge dies without  *)
(* a byte, the bridge is killed and the wrapper reports and exits.         *)
WaitForBridge ==
    /\ At("wrap", "bridgewait")
    /\ \/ "bridge_ready" \in msg /\ Applies("wrap", "Bridge", "pidns")
       \/ /\ "bridge_ready" \notin msg
          /\ ~Alive("bridge") \/ Fault("timeout")
          /\ live' = [live EXCEPT !["wrap"] = "zombie"]
          /\ wends' = [q \in Pipes |-> wends[q] \ {"wrap"}]
          /\ doomed' = doomed \cup Bereaved("wrap")
                        \cup {c \in {"bridge"} : Alive(c)}
          /\ Log("Bridge", "failed")
          /\ UNCHANGED <<launchVars, pc, pdeath, made, msg, layers, cgroup,
                         members>>

-----------------------------------------------------------------------------
(* The PID namespace.                                                      *)

(* unshare(CLONE_NEWPID) and fork: the wrapper becomes the relay and the   *)
(* child goes on as PID 1.  The layer is reported before the fork, so a    *)
(* failed pipe2 or fork exits after an "applied" line.                     *)
EnterPidns ==
    /\ At("wrap", "pidns")
    /\ \/ ~cfg.pidns /\ Skips("wrap", "seccomp")
       \/ /\ cfg.pidns
          /\ Log("PidNs", "applied")
          /\ Fork("wrap", "inner")
          /\ layers' = [layers EXCEPT
                !["inner"] = (layers["wrap"] \ {"Pdeathsig"}) \cup {"PidNs"}]
          /\ pc' = [pc EXCEPT !["wrap"] = "relay_host", !["inner"] = "hostpid"]
          /\ UNCHANGED <<launchVars, doomed, made, msg, cgroup>>
       \/ cfg.pidns /\ Fault("layer") /\ FailsReported("wrap", "PidNs")
       \/ /\ cfg.pidns /\ Fault("layer")
          /\ Exits("wrap")
          /\ Log("PidNs", "applied")
          /\ UNCHANGED <<launchVars, pc, pdeath, made, msg, layers, cgroup,
                         members>>

(* Mutant of ReadHostPid: the child closes its audit descriptors as well.  *)
ReadHostPidClosing ==
    /\ At("inner", "hostpid")
    /\ "hostpid" \in msg \/ ~Alive("wrap")
    /\ wends' = [q \in Pipes |-> wends[q] \ {"inner"}]
    /\ Goto("inner", "arm")
    /\ UNCHANGED <<launchVars, live, doomed, pdeath, made, msg, report,
                   layers, cgroup, members>>

(* The child drops the report pipe and reads its host PID: the relay's     *)
(* message, or end of file when the relay is gone.                         *)
ReadHostPid ==
    /\ At("inner", "hostpid")
    /\ \/ "pid" \in made /\ "inner" \in wends["pid"]
          /\ wends' = [wends EXCEPT !["pid"] = @ \ {"inner"}]
          /\ UNCHANGED <<launchVars, pc, live, doomed, pdeath, made, msg,
                         report, layers, cgroup, members>>
       \/ /\ "inner" \notin wends["pid"]
          /\ "hostpid" \in msg \/ ~Alive("wrap")
          /\ Skips("inner", "arm")

(* Mutant of RearmPdeathsig: the signal is not armed again.                *)
RearmForgotten == At("inner", "arm") /\ Skips("inner", "aliveness")

(* fork cleared the parent-death signal: arm it again.                     *)
RearmPdeathsig ==
    /\ At("inner", "arm")
    /\ \/ /\ Arm("inner")
          /\ Confine("inner", "Pdeathsig")
          /\ Goto("inner", "aliveness")
          /\ UNCHANGED <<launchVars, live, doomed, made, wends, msg, report,
                         cgroup, members>>
       \/ Fault("layer") /\ FailsSilently("inner")

(* Mutant of CheckParentLiveness: the pipe is not looked at.               *)
LivenessAssumed == At("inner", "aliveness") /\ Skips("inner", "seccomp")

(* End of file on the liveness pipe: the relay died before the signal was  *)
(* armed.                                                                  *)
CheckParentLiveness ==
    /\ At("inner", "aliveness")
    /\ \/ Alive("wrap") /\ Skips("inner", "seccomp")
       \/ ~Alive("wrap") /\ FailsSilently("inner")

(* The relay sends the host PID, publishes it on the report pipe, closes   *)
(* its audit descriptors, then waits for the child and exits with it.      *)
RelayHostPid ==
    /\ At("wrap", "relay_host")
    /\ msg' = msg \cup {"hostpid"}
    /\ Goto("wrap", "relay_pid")
    /\ UNCHANGED <<launchVars, live, doomed, pdeath, made, wends, report,
                   layers, cgroup, members>>

RelayReportPid ==
    /\ At("wrap", "relay_pid")
    /\ msg' = IF "pid" \in made THEN msg \cup {"pid"} ELSE msg
    /\ wends' = [wends EXCEPT !["pid"] = @ \ {"wrap"}]
    /\ Goto("wrap", "relay_close")
    /\ UNCHANGED <<launchVars, live, doomed, pdeath, made, report, layers,
                   cgroup, members>>

RelayClose ==
    /\ At("wrap", "relay_close")
    /\ wends' = [q \in Pipes |->
            IF q \in {"audit", "dns", "unotify"} THEN wends[q] \ {"wrap"}
            ELSE wends[q]]
    /\ Goto("wrap", "relay_wait")
    /\ UNCHANGED <<launchVars, live, doomed, pdeath, made, msg, report,
                   layers, cgroup, members>>

RelayReap ==
    /\ At("wrap", "relay_wait")
    /\ live["inner"] = "zombie"
    /\ live' = [live EXCEPT !["inner"] = "reaped", !["wrap"] = "zombie"]
    /\ wends' = [q \in Pipes |-> wends[q] \ {"wrap"}]
    /\ doomed' = doomed \cup Bereaved("wrap")
    /\ UNCHANGED <<launchVars, pc, pdeath, made, msg, report, layers, cgroup,
                   members>>

-----------------------------------------------------------------------------
(* From seccomp to the target, in the wrapper or in the namespace's init.  *)

ApplySeccomp(p) ==
    /\ At(p, "seccomp")
    /\ \/ Applies(p, "Seccomp", "filter")
       \/ Fault("layer") /\ FailsReported(p, "Seccomp")

(* Wait for the supervisor's readiness byte, install the user-notification *)
(* filter and send the listener.  A timeout, a supervisor that died first  *)
(* and a failed installation are skipped; a failed send is fatal.          *)
InstallUnotifyFilter(p) ==
    /\ At(p, "filter")
    /\ \/ live["sup"] = "none" /\ Skips(p, "rlimit")
       \/ /\ "sup_ready" \in msg /\ Alive("sup")
          /\ Confine(p, "Unotify")
          /\ msg' = msg \cup {"listener"}
          /\ wends' = [wends EXCEPT !["sp"] = @ \ {p}]
          /\ Goto(p, "rlimit")
          /\ UNCHANGED <<launchVars, live, doomed, pdeath, made, report,
                         cgroup, members>>
       \/ /\ "sup_ready" \in msg /\ ~Alive("sup")
          /\ FailsSilently(p)
       \/ /\ live["sup"] # "none"
          /\ IF "sup_ready" \in msg THEN Fault("layer")
             ELSE ~Alive("sup") \/ Fault("timeout")
          /\ wends' = [wends EXCEPT !["sp"] = @ \ {p}]
          /\ Goto(p, "rlimit")
          /\ UNCHANGED <<launchVars, live, doomed, pdeath, made, msg, report,
                         layers, cgroup, members>>

(* Mutant of ApplyRlimits: a failure is not fatal.                         *)
RlimitsBestEffort(p) ==
    /\ At(p, "rlimit")
    /\ \/ Applies(p, "Rlimit", "closefds")
       \/ Fault("layer") /\ Skips(p, "closefds")

ApplyRlimits(p) ==
    /\ At(p, "rlimit")
    /\ \/ Applies(p, "Rlimit", "closefds")
       \/ Fault("layer") /\ FailsReported(p, "Rlimit")

CloseAuditFds(p) ==
    /\ At(p, "closefds")
    /\ wends' = [q \in Pipes |->
            IF q \in {"audit", "dns", "unotify"} THEN wends[q] \ {p}
            ELSE wends[q]]
    /\ Goto(p, "exec")
    /\ UNCHANGED <<launchVars, live, doomed, pdeath, made, msg, report,
                   layers, cgroup, members>>

(* execve is one of the notified calls: with the filter installed it waits *)
(* for the supervisor's answer, and the process itself keeps the listener  *)
(* open, so nobody else ends the wait.                                     *)
ExecTarget(p) ==
    /\ At(p, "exec")
    /\ "Unotify" \in layers[p] => Alive("sup") /\ pc["sup"] = "serve"
    /\ \/ /\ wends' = [q \in Pipes |-> wends[q] \ {p}]
          /\ Goto(p, "target")
          /\ UNCHANGED <<launchVars, live, doomed, pdeath, made, msg, report,
                         layers, cgroup, members>>
       \/ Fault("layer") /\ FailsSilently(p)

TargetExits(p) == At(p, "target") /\ FailsSilently(p)

(* The kernel's OOM killer, a crash, or a signal from outside.             *)
Killed(p) == Fault("oom") /\ CanRun(p) /\ FailsSilently(p)

-----------------------------------------------------------------------------
(* The helpers: the proxy, the supervisor and the bridge start alike.      *)

Kept(h) == CASE h = "sup" -> {"unotify"} [] h = "bridge" -> {"dns"}
             [] OTHER -> {}

Ready(h) == CASE h = "sup" -> "sup_ready" [] h = "bridge" -> "bridge_ready"
              [] OTHER -> "proxy_ready"

(* close_fds_except: every descriptor but the ones the helper works with.  *)
HelperCloseFds(h) ==
    /\ At(h, "h_close")
    /\ wends' = [q \in Pipes |-> IF q \in Kept(h) THEN wends[q]
                                 ELSE wends[q] \ {h}]
    /\ Goto(h, "h_arm")
    /\ UNCHANGED <<launchVars, live, doomed, pdeath, made, msg, report,
                   layers, cgroup, members>>

(* Mutant of HelperArm: prctl is not called.                               *)
HelperUnarmed(h) == At(h, "h_arm") /\ Skips(h, "h_check")

HelperArm(h) ==
    /\ At(h, "h_arm")
    /\ Arm(h)
    /\ Goto(h, "h_check")
    /\ UNCHANGED <<launchVars, live, doomed, made, wends, msg, report, layers,
                   cgroup, members>>

(* The getppid check closes the window between fork and prctl.             *)
HelperCheck(h) ==
    /\ At(h, "h_check")
    /\ \/ ~ParentGone(h) /\ Skips(h, "h_init")
       \/ ParentGone(h) /\ FailsSilently(h)

(* Own confinement, then the readiness byte.                               *)
HelperReady(h) ==
    /\ At(h, "h_init")
    /\ msg' = msg \cup {Ready(h)}
    /\ Goto(h, IF h = "sup" THEN "listen" ELSE "serve")
    /\ UNCHANGED <<launchVars, live, doomed, pdeath, made, wends, report,
                   layers, cgroup, members>>

(* Mutant of TakeListener: the listener's number is read as a partial      *)
(* message, and the read goes on.                                          *)
TakeListenerReadsOn ==
    /\ At("sup", "listen")
    /\ "listener" \notin msg /\ wends["sp"] = {} /\ FailsSilently("sup")

(* The supervisor reads the PID and the listener's number and duplicates   *)
(* the listener; end of file on the socketpair ends it.                    *)
TakeListener ==
    /\ At("sup", "listen")
    /\ \/ "listener" \in msg /\ Skips("sup", "serve")
       \/ "listener" \notin msg /\ wends["sp"] = {} /\ FailsSilently("sup")

HelperDies(h) == Fault("helper") /\ CanRun(h) /\ FailsSilently(h)

-----------------------------------------------------------------------------

HelperStep(h) ==
    HelperCloseFds(h) \/ HelperArm(h) \/ HelperCheck(h) \/ HelperReady(h)

ExecStep(p) ==
    \/ ApplySeccomp(p) \/ InstallUnotifyFilter(p) \/ ApplyRlimits(p)
    \/ CloseAuditFds(p) \/ ExecTarget(p)

WrapStep ==
    \/ WaitForCgroup \/ SetPdeathsig \/ SetNoNewPrivs \/ OverrideResolvConf
    \/ ForkSupervisor \/ ApplyLandlock \/ ForkBridge \/ WaitForBridge
    \/ EnterPidns \/ RelayHostPid \/ RelayReportPid \/ RelayClose \/ RelayReap
    \/ ExecStep("wrap")

InnerStep ==
    \/ ReadHostPid \/ RearmPdeathsig \/ CheckParentLiveness
    \/ ExecStep("inner")
=============================================================================
