------------------------------- MODULE Launch -------------------------------
(***************************************************************************)
(* Linux::launch() (platform/linux.rs) together with the processes it      *)
(* starts: the orchestrator prepares the sandbox, spawns the wrapper, puts *)
(* it into the cgroup, waits for the wrapper's report, learns the target's *)
(* PID and returns a Process, or returns an error and takes back what it   *)
(* had set up.  Its steps interleave with those of module Wrapper and with *)
(* its own crash.                                                          *)
(***************************************************************************)
EXTENDS Wrapper

OrchPc == {"start", "proxy", "proxywait", "setup", "pipes", "cgroup", "sync",
           "spawn", "spawning", "addpid", "audit", "pid", "started", "done"}

Resources == {"tmpdir", "proxydir", "ptymaster", "ptyslave"} \cup Pipes

Events == {"SandboxInit", "SandboxReady", "ProcessStarted", "LayerFailed"}

TypeOK ==
    /\ SandboxTypeOK
    /\ pc \in [Procs -> OrchPc \cup WrapperPc \cup HelperPc]
    /\ held \subseteq Resources
    /\ applied \subseteq Layers \cup {"ConnectProxy", "Netns", "Cgroup", "Pty"}
    /\ events \subseteq Events
    /\ pidfd \in {"none", "wrap", "inner", "other"}
    /\ result \in {"pending", "ok", "err"}

Init ==
    /\ cfg \in Configs
    /\ pc = [p \in Procs |-> IF p = "orch" THEN "start" ELSE "off"]
    /\ live = [p \in Procs |-> IF p = "orch" THEN "alive" ELSE "none"]
    /\ doomed = {}
    /\ pdeath = {}
    /\ made = {}
    /\ wends = [q \in Pipes |-> {}]
    /\ msg = {}
    /\ report = {}
    /\ layers = [p \in Procs |-> {}]
    /\ cgroup = "absent"
    /\ members = {}
    /\ held = {}
    /\ applied = {}
    /\ events = {}
    /\ pidfd = "none"
    /\ result = "pending"

-----------------------------------------------------------------------------
(* Returning an error.                                                     *)

Audited == cfg.sink # "none"

(* AuditContext::emit fails only for a mandatory sink.                     *)
EmitFails == cfg.sink = "mandatory" /\ Fault("sink")

LayerEvents(ls) == applied' = IF Audited THEN applied \cup ls ELSE applied
Emits(e) == events' = IF Audited THEN events \cup {e} ELSE events

(* SIGKILL to the processes ps.                                            *)
Signalled(ps) == doomed' = doomed \cup {p \in ps : Alive(p)}

(* cleanup_connect_proxy: SIGKILL, then a waitpid that does not block, so  *)
(* a proxy that has not died yet stays behind as a zombie.                 *)
ProxyReaped == IF live["proxy"] = "zombie"
               THEN [live EXCEPT !["proxy"] = "reaped"] ELSE live

(* `?` before the spawn: the guards remove the temporary directory, clean  *)
(* up the proxy and close the pipes.  No guard owns the PTY or the cgroup. *)
ReturnEarly ==
    /\ held' = held \ ({"tmpdir", "proxydir"} \cup Pipes)
    /\ wends' = [q \in Pipes |-> wends[q] \ {"orch"}]
    /\ Signalled({"proxy"})
    /\ live' = ProxyReaped
    /\ Goto("orch", "done")
    /\ result' = "err"
    /\ UNCHANGED <<cfg, pdeath, made, msg, report, layers, applied, events,
                   pidfd>>

(* Mutant of Victims: the members of the cgroup are not killed.            *)
VictimsSpared == {"proxy"} \cup Bereaved("wrap")

(* The processes that get a SIGKILL besides the child: the proxy, the      *)
(* child's armed children and, from CgroupManager::destroy, the members.   *)
Victims == {"proxy"} \cup Bereaved("wrap") \cup members

(* The error handlers after the spawn: every descriptor, the PTY included, *)
(* is closed, the child killed and reaped, the cgroup destroyed.           *)
(* CgroupManager::destroy gives up on the directory after a bounded number *)
(* of attempts.                                                            *)
TearDown ==
    /\ held' = {}
    /\ wends' = [q \in Pipes |-> wends[q] \ {"orch", "wrap"}]
    /\ doomed' = (doomed \cup {p \in Victims : Alive(p)}) \ {"wrap"}
    /\ live' = [ProxyReaped EXCEPT !["wrap"] = "reaped"]
    /\ cgroup' \in IF \E p \in members \ {"wrap"} : Alive(p)
                   THEN {"absent", cgroup} ELSE {"absent"}
    /\ Goto("orch", "done")
    /\ result' = "err"
    /\ UNCHANGED <<cfg, pdeath, made, msg, report, layers, members, applied,
                   pidfd>>

-----------------------------------------------------------------------------
(* Before the spawn.                                                       *)

(* Validate, make the temporary directory, emit SandboxInit and the layers *)
(* the wrapper will apply.                                                 *)
Begin ==
    /\ At("orch", "start")
    /\ \/ /\ held' = {"tmpdir"}
          /\ Emits("SandboxInit")
          /\ LayerEvents({"Landlock", "Rlimit", "NoNewPrivs", "Seccomp"})
          /\ Goto("orch", "proxy")
          /\ UNCHANGED <<cfg, live, doomed, pdeath, made, wends, msg, report,
                         layers, cgroup, members, pidfd, result>>
       \/ /\ Fault("setup") \/ EmitFails
          /\ ReturnEarly
          /\ UNCHANGED <<cgroup, members>>

(* fork_connect_proxy, when hosts are allowed.                             *)
ForkConnectProxy ==
    /\ At("orch", "proxy")
    /\ \/ /\ ~cfg.hosts
          /\ Goto("orch", "setup")
          /\ UNCHANGED <<launchVars, live, doomed, pdeath, made, wends, msg,
                         report, layers, cgroup, members>>
       \/ /\ cfg.hosts
          /\ Fork("orch", "proxy")
          /\ pc' = [pc EXCEPT !["orch"] = "proxywait", !["proxy"] = "h_close"]
          /\ held' = held \cup {"proxydir"}
          /\ UNCHANGED <<cfg, doomed, made, msg, report, layers, cgroup,
                         applied, events, pidfd, result>>
       \/ /\ cfg.hosts /\ Fault("setup")
          /\ ReturnEarly
          /\ UNCHANGED <<cgroup, members>>

(* The proxy's readiness byte, or fail_proxy after 5 s or end of file.     *)
WaitForProxy ==
    /\ At("orch", "proxywait")
    /\ \/ /\ "proxy_ready" \in msg
          /\ Goto("orch", "setup")
          /\ UNCHANGED <<launchVars, live, doomed, pdeath, made, wends, msg,
                         report, layers, cgroup, members>>
       \/ /\ "proxy_ready" \notin msg
          /\ ~Alive("proxy") \/ Fault("timeout")
          /\ ReturnEarly
          /\ UNCHANGED <<cgroup, members>>

(* Namespace arguments, environment, EnvPolicy, descriptor validation and, *)
(* last, the PTY.                                                          *)
Setup ==
    /\ At("orch", "setup")
    /\ \/ /\ held' = held \cup (IF cfg.tty THEN {"ptymaster", "ptyslave"}
                                ELSE {})
          /\ LayerEvents((IF UseNetns THEN {"Netns"} ELSE {})
                \cup (IF cfg.hosts THEN {"ConnectProxy"} ELSE {})
                \cup (IF BridgeWanted THEN {"Bridge"} ELSE {}))
          /\ Goto("orch", "pipes")
          /\ UNCHANGED <<cfg, live, doomed, pdeath, made, wends, msg, report,
                         layers, cgroup, members, events, pidfd, result>>
       \/ /\ Fault("setup") \/ EmitFails
          /\ ReturnEarly
          /\ UNCHANGED <<cgroup, members>>

WantedPipes ==
    (IF Audited THEN {"audit"} ELSE {})
    \cup (IF DnsActive THEN {"dns"} ELSE {})
    \cup (IF cfg.unotify THEN {"unotify"} ELSE {})
    \cup (IF cfg.pidns THEN {"pid"} ELSE {})

(* The audit, DNS, unotify and PID report pipes: one that cannot be made   *)
(* is done without.                                                        *)
MakePipes ==
    /\ At("orch", "pipes")
    /\ \/ \E ps \in SUBSET WantedPipes :
            /\ ps = WantedPipes \/ Fault("pipe")
            /\ made' = ps
            /\ wends' = [q \in Pipes |-> IF q \in ps THEN {"orch"} ELSE {}]
            /\ held' = held \cup ps
            /\ LayerEvents((IF "dns" \in ps THEN {"Bridge"} ELSE {})
                  \cup (IF "unotify" \in ps THEN {"Unotify"} ELSE {}))
            /\ Goto("orch", "cgroup")
            /\ UNCHANGED <<cfg, live, doomed, pdeath, msg, report, layers,
                           cgroup, members, events, pidfd, result>>
       \/ EmitFails /\ ReturnEarly /\ UNCHANGED <<cgroup, members>>

(* The cgroup and, if there is one, the sync pipe.                         *)
NoCgroup ==
    \/ cfg.limits = "none"
    \/ cfg.limits = "besteffort" /\ (~cfg.mgr \/ Fault("setup"))

CgroupRefused ==
    \/ cfg.limits = "required" /\ ~cfg.mgr
    \/ cfg.limits # "none" /\ cfg.mgr /\ Fault("setup")
    \/ cfg.limits # "none" /\ NoCgroup /\ EmitFails

HasCgroup == cgroup = "present"

MakeCgroup ==
    /\ At("orch", "cgroup")
    /\ \/ /\ NoCgroup
          /\ Goto("orch", "sync")
          /\ UNCHANGED <<launchVars, live, doomed, pdeath, made, wends, msg,
                         report, layers, cgroup, members>>
       \/ /\ cfg.limits # "none" /\ cfg.mgr
          /\ cgroup' = "present"
          /\ LayerEvents({"Cgroup"})
          /\ Goto("orch", "sync")
          /\ UNCHANGED <<cfg, live, doomed, pdeath, made, wends, msg, report,
                         layers, members, held, events, pidfd, result>>
       \/ CgroupRefused /\ ReturnEarly /\ UNCHANGED <<cgroup, members>>
       \/ /\ cfg.limits # "none" /\ cfg.mgr /\ EmitFails
          /\ ReturnEarly
          /\ cgroup' = "present"
          /\ UNCHANGED members

(* The sync pipe, the events for the layers pre_exec will apply, the       *)
(* policies, and SandboxReady.                                             *)
MakeSyncPipe ==
    /\ At("orch", "sync")
    /\ \/ \E ps \in SUBSET (IF HasCgroup THEN {"sync"} ELSE {}) :
            /\ HasCgroup /\ ps = {} => Fault("pipe")
            /\ made' = made \cup ps
            /\ wends' = [q \in Pipes |->
                            IF q \in ps THEN {"orch"} ELSE wends[q]]
            /\ held' = held \cup ps
            /\ LayerEvents({"Pdeathsig"}
                  \cup (IF "pid" \in made THEN {"PidNs"} ELSE {})
                  \cup (IF cfg.tty THEN {"Pty"} ELSE {}))
            /\ Emits("SandboxReady")
            /\ Goto("orch", "spawn")
            /\ UNCHANGED <<cfg, live, doomed, pdeath, msg, report, layers,
                           cgroup, members, pidfd, result>>
       \/ EmitFails /\ ReturnEarly /\ UNCHANGED <<cgroup, members>>

-----------------------------------------------------------------------------
(* Spawn.                                                                  *)

(* fork: Command::spawn then waits for the child's exec or its error.      *)
Spawn ==
    /\ At("orch", "spawn")
    /\ Fork("orch", "wrap")
    /\ pc' = [pc EXCEPT !["orch"] = "spawning", !["wrap"] = "preexec"]
    /\ UNCHANGED <<launchVars, doomed, made, msg, report, layers, cgroup>>

(* A failed step of pre_exec, or a failed exec: the error goes back over   *)
(* spawn's own pipe.                                                       *)
ChildFails ==
    /\ Fault("spawn")
    /\ Exits("wrap")
    /\ msg' = msg \cup {"spawn_error"}
    /\ UNCHANGED <<launchVars, pc, pdeath, made, report, layers, cgroup,
                   members>>

(* pre_exec in the child: setsid and PR_SET_PDEATHSIG, ...                 *)
PreExecArm ==
    /\ At("wrap", "preexec")
    /\ \/ /\ Arm("wrap")
          /\ Goto("wrap", "ppid")
          /\ UNCHANGED <<launchVars, live, doomed, made, wends, msg, report,
                         layers, cgroup, members>>
       \/ ChildFails

(* ... the getppid check, which exits without an error, the descriptor     *)
(* remapping, and the exec, which closes the copy of the sync pipe's       *)
(* write end.                                                              *)
PreExecRest ==
    /\ At("wrap", "ppid")
    /\ \/ /\ ~ParentGone("wrap")
          /\ wends' = [wends EXCEPT !["sync"] = @ \ {"wrap"}]
          /\ Goto("wrap", "sync")
          /\ UNCHANGED <<launchVars, live, doomed, pdeath, made, msg, report,
                         layers, cgroup, members>>
       \/ ~ParentGone("wrap") /\ ChildFails
       \/ ParentGone("wrap") /\ FailsSilently("wrap")

(* Command::spawn returns the child's error, or the child once it has      *)
(* exec'd or exited without one; then pidfd_open on it.                    *)
SpawnReturns ==
    /\ At("orch", "spawning")
    /\ \/ /\ "spawn_error" \notin msg
          /\ pc["wrap"] \notin {"preexec", "ppid"} \/ ~Alive("wrap")
          /\ Goto("orch", "addpid")
          /\ pidfd' = "wrap"
          /\ UNCHANGED <<cfg, live, doomed, pdeath, made, wends, msg, report,
                         layers, cgroup, members, held, applied, events,
                         result>>
       \/ /\ "spawn_error" \in msg
          /\ Emits("LayerFailed")
          /\ TearDown

-----------------------------------------------------------------------------
(* After the spawn.                                                        *)

(* Put the child into the cgroup and release it: the PTY slave and the     *)
(* sync pipe's read end are closed first, the byte is written after        *)
(* add_pid, and the audit pipe's write end is closed before reading.       *)
AddPid ==
    /\ At("orch", "addpid")
    /\ \/ /\ members' = IF HasCgroup /\ Alive("wrap")
                        THEN members \cup {"wrap"} ELSE members
          /\ msg' = IF "sync" \in made THEN msg \cup {"sync"} ELSE msg
          /\ wends' = [q \in Pipes |->
                IF q \in {"sync", "audit"} THEN wends[q] \ {"orch"}
                ELSE wends[q]]
          /\ held' = held \ {"ptyslave", "sync"}
          /\ Goto("orch", "audit")
          /\ UNCHANGED <<cfg, live, doomed, pdeath, made, report, layers,
                         cgroup, applied, events, pidfd, result>>
       \/ /\ HasCgroup /\ (Fault("addpid") \/ ~Alive("wrap"))
          /\ TearDown
          /\ UNCHANGED events

(* validate_wrapper_audit: it found no line, or a line with "failed".      *)
WrapperFailed ==
    report = {} \/ \E l \in Layers : <<l, "failed">> \in report

(* Read the report to the end of file.                                     *)
ReadReport ==
    /\ At("orch", "audit")
    /\ "audit" \in made => wends["audit"] = {}
    /\ \/ /\ "audit" \notin made \/ ~WrapperFailed
          /\ held' = held \ {"audit"}
          /\ Goto("orch", "pid")
          /\ UNCHANGED <<cfg, live, doomed, pdeath, made, wends, msg, report,
                         layers, cgroup, members, applied, events, pidfd,
                         result>>
       \/ /\ "audit" \in made /\ WrapperFailed
          /\ TearDown
          /\ UNCHANGED events

(* pidfd_open on the reported PID: the namespace's init, nothing once it   *)
(* has been reaped, or another process once the number can be reused, that *)
(* is, once the relay and its own pidfd are gone as well.                  *)
TargetPidfds ==
    IF live["inner"] # "reaped" THEN {"inner"}
    ELSE IF Alive("wrap") THEN {"none"} ELSE {"none", "other"}

(* Read the PID report, then close the DNS and unotify write ends.         *)
ReadPidReport ==
    /\ At("orch", "pid")
    /\ "pid" \in made => "pid" \in msg \/ wends["pid"] \subseteq {"orch"}
    /\ pidfd' \in IF "pid" \in msg THEN TargetPidfds ELSE {pidfd}
    /\ held' = held \ {"pid"}
    /\ wends' = [q \in Pipes |-> wends[q] \ {"orch"}]
    /\ Goto("orch", "started")
    /\ UNCHANGED <<cfg, live, doomed, pdeath, made, msg, report, layers,
                   cgroup, members, applied, events, result>>

(* Emit ProcessStarted and return the Process, which takes over what is    *)
(* still held.  When the emit fails the guards of ReturnEarly are all that *)
(* runs; the two audit pipes are owned by then and close too.              *)
Started ==
    /\ At("orch", "started")
    /\ \/ /\ Emits("ProcessStarted")
          /\ Goto("orch", "done")
          /\ result' = "ok"
          /\ UNCHANGED <<cfg, live, doomed, pdeath, made, wends, msg, report,
                         layers, cgroup, members, held, applied, pidfd>>
       \/ EmitFails /\ ReturnEarly /\ UNCHANGED <<cgroup, members>>

(* The orchestrator is killed: nothing of its clean-up runs.               *)
Crash ==
    /\ Fault("crash")
    /\ CanRun("orch")
    /\ Exits("orch")
    /\ UNCHANGED <<launchVars, pc, pdeath, made, msg, report, layers, cgroup,
                   members>>

-----------------------------------------------------------------------------

OrchStep ==
    \/ Begin \/ ForkConnectProxy \/ WaitForProxy \/ Setup \/ MakePipes
    \/ MakeCgroup \/ MakeSyncPipe \/ Spawn \/ SpawnReturns \/ AddPid
    \/ ReadReport \/ ReadPidReport \/ Started

ChildStep == PreExecArm \/ PreExecRest \/ WrapStep

SupStep == HelperStep("sup") \/ TakeListener

(* What may happen at any time.                                            *)
Environment ==
    \/ Crash
    \/ \E p \in Wrappers : TargetExits(p) \/ Killed(p)
    \/ \E h \in Helpers : HelperDies(h)

(* execve is a notified call and nobody is left to answer it.              *)
StuckInExec(p) ==
    pc[p] = "exec" /\ "Unotify" \in layers[p] /\ ~Alive("sup")

(* Nothing is left to do: launch() has returned or its process is gone,    *)
(* and every process left serves, waits for its child, is the target, or   *)
(* waits for an answer from a dead supervisor.                             *)
Settled ==
    /\ pc["orch"] = "done" \/ ~Alive("orch")
    /\ doomed = {}
    /\ \A p \in Procs \ {"orch"} : Alive(p) =>
          \/ pc[p] \in {"target", "relay_wait", "serve"}
          \/ p = "sup" /\ pc[p] = "listen"
          \/ p \in Wrappers /\ StuckInExec(p)
    /\ UNCHANGED vars

Next ==
    \/ OrchStep
    \/ ChildStep
    \/ InnerStep
    \/ SupStep
    \/ HelperStep("bridge")
    \/ HelperStep("proxy")
    \/ \E p \in Procs : Die(p)
    \/ Environment
    \/ Settled

(* Every process is scheduled and every pending SIGKILL is delivered.      *)
Fairness ==
    /\ WF_vars(OrchStep)
    /\ WF_vars(ChildStep)
    /\ WF_vars(InnerStep)
    /\ WF_vars(SupStep)
    /\ WF_vars(HelperStep("bridge"))
    /\ WF_vars(HelperStep("proxy"))
    /\ \A p \in Procs : WF_vars(Die(p))

Spec == Init /\ [][Next]_vars
FairSpec == Spec /\ Fairness

-----------------------------------------------------------------------------
(* Safety.                                                                 *)

(* The layers without which a target must not run.                         *)
Mandatory ==
    {"Pdeathsig", "NoNewPrivs", "Landlock", "Seccomp", "Rlimit"}
    \cup (IF BridgeForked THEN {"Bridge"} ELSE {})
    \cup (IF cfg.pidns THEN {"PidNs"} ELSE {})

(* The target only ever runs confined: whatever failed, was killed or      *)
(* timed out before, a process that has exec'd the target has every        *)
(* mandatory layer, re-armed parent-death signal included.                 *)
FailClosed ==
    \A p \in Wrappers : pc[p] = "target" => Mandatory \subseteq layers[p]

Relaying == {"relay_host", "relay_pid", "relay_close", "relay_wait"}

(* When launch() has read the report to its end and returned Ok, no        *)
(* process of the sandbox that is on its way to the target still lacks a   *)
(* mandatory layer: the end of file cannot be seen too early.              *)
OkMeansConfined ==
    result = "ok" /\ "audit" \in made =>
        \A p \in Wrappers : Alive(p) /\ pc[p] \notin Relaying =>
            Mandatory \subseteq layers[p]

(* With the sync pipe, the wrapper and everything it forks are in the      *)
(* cgroup from the first step they take on their own.                      *)
CgroupCoversSandbox ==
    "sync" \in made =>
        \A p \in {"wrap", "inner", "sup", "bridge"} :
            Alive(p) /\ pc[p] \notin {"preexec", "ppid", "sync"} => p \in members

(* The steps before a process has made sure that its parent is alive.      *)
Unchecked == {"preexec", "ppid", "hostpid", "arm", "aliveness",
              "h_close", "h_arm", "h_check"}

(* A process that outlives its parent has a SIGKILL pending or has yet to  *)
(* check for its parent; no crash leaves one that would live on.           *)
OrphansDoomed ==
    \A p \in Procs \ {"orch"} :
        Alive(p) /\ ParentGone(p) => p \in doomed \/ pc[p] \in Unchecked

(* An error returned at any point of launch(), a failing mandatory sink    *)
(* included, removes the directories, closes every pipe end the            *)
(* orchestrator holds and kills the proxy: ConnectProxyGuard, PipeGuard    *)
(* and the explicit clean-up after the spawn leave no gap.  Unless a       *)
(* mandatory sink may have caused it, it also leaves no sandbox behind:    *)
(* the child is reaped, the members of a cgroup that could not be removed  *)
(* are being killed, and a cgroup is left only if it had members.  The PTY *)
(* descriptors of an early error are left open by the code.                *)
ErrGivesBack ==
    result = "err" =>
        /\ held \subseteq {"ptymaster", "ptyslave"}
        /\ \A q \in Pipes : "orch" \notin wends[q]
        /\ Alive("proxy") => "proxy" \in doomed
        /\ cfg.sink # "mandatory" =>
              /\ live["wrap"] \in {"none", "reaped"}
              /\ \A p \in members : Alive(p) => p \in doomed
              /\ HasCgroup => \E p \in members : live[p] # "none"

-----------------------------------------------------------------------------
(* Liveness.                                                               *)

(* When the orchestrator is killed, every process of the sandbox dies.     *)
CrashEndsSandbox == ~Alive("orch") ~> \A p \in Procs : ~Alive(p)

(* After Ok the target starts, unless its process or the supervisor that   *)
(* has to answer the notified execve dies first.                           *)
TargetStarts ==
    result = "ok" ~> \/ ~Alive("wrap")
                     \/ live["sup"] \in {"zombie", "reaped"}
                     \/ \E p \in Wrappers : pc[p] = "target"

-----------------------------------------------------------------------------
(* Refinement.                                                             *)

Running(p) == CanRun(p) /\ pc[p] = "target"

MappedOutcome ==
    IF result = "err" THEN "err" ELSE IF Alive("orch") THEN result ELSE "crashed"

MappedTarget ==
    IF \E p \in Wrappers : Running(p)
    THEN IF \A p \in Wrappers : Running(p) => Mandatory \subseteq layers[p]
         THEN "confined" ELSE "exposed"
    ELSE IF \E p \in Wrappers : pc[p] = "target" THEN "gone" ELSE "absent"

Contract == INSTANCE LaunchContract
                WITH outcome <- MappedOutcome, target <- MappedTarget

(* launch() implements its contract: the safety part, ...                  *)
ImplementsContract == Contract!ContractSpec

(* ... and the promise that it returns and that a crash ends the target.   *)
ImplementsFairContract == Contract!FairContract

-----------------------------------------------------------------------------
(* What a comment says that the code does not do.                          *)

(* audit.rs, is_mandatory: "audit failure (emit panic) aborts the sandbox  *)
(* launch".                                                                *)
ErrEndsSandbox ==
    result = "err" => \A p \in Procs \ {"orch"} :
        Alive(p) => p \in doomed \/ ParentGone(p)
=============================================================================
