---------------------------- MODULE SandboxState ----------------------------
(***************************************************************************)
(* The state that the processes of one sandbox launch share, and what the  *)
(* kernel does with it: who is alive, which parent-death signal is armed,  *)
(* which process holds the write end of which pipe, which layers confine   *)
(* which process, and who is in the cgroup.                                *)
(*                                                                         *)
(* The processes are                                                       *)
(*   orch    the caller of Linux::launch() (platform/linux.rs)             *)
(*   proxy   the CONNECT proxy it forks (bridge.rs, fork_connect_proxy)    *)
(*   wrap    the wrapper, which execs the target or becomes the PID        *)
(*           namespace relay (bin/arapuca.rs, selfexec.rs, pidns.rs)       *)
(*   inner   PID 1 of the new PID namespace (pidns.rs, fork_into_pidns)    *)
(*   sup     the seccomp user-notification supervisor (unotify.rs)         *)
(*   bridge  the TCP-to-UDS and DNS bridge (bridge.rs, fork_bridge)        *)
(*                                                                         *)
(* A process with a SIGKILL pending ("doomed") runs no more of its own     *)
(* code; a system call it was in counts as finished before the signal.     *)
(***************************************************************************)
EXTENDS Naturals, FiniteSets

CONSTANTS
    Configs,    \* the launch configurations explored
    Faults,     \* the kinds of failure that may happen
    SelfExec    \* TRUE: selfexec.rs is the wrapper; FALSE: bin/arapuca.rs

ConfigSpace ==
    [sink    : {"none", "besteffort", "mandatory"},  \* cfg.audit_sink
     hosts   : BOOLEAN,      \* cfg.allowed_hosts is not empty
     netns   : BOOLEAN,      \* profile.use_netns
     sock    : BOOLEAN,      \* cfg.network_proxy_socket is given
     dns     : BOOLEAN,      \* profile.dns_capture, mount namespaces available
     unotify : BOOLEAN,      \* profile.audit_file_access
     pidns   : BOOLEAN,      \* profile.use_pidns
     tty     : BOOLEAN,      \* cfg.tty
     limits  : {"none", "besteffort", "required"},    \* limits, cgroup_policy
     mgr     : BOOLEAN]      \* a CgroupManager is available

FaultKinds ==
    {"sink",      \* an audit sink's emit panics
     "setup",     \* a step of launch() before the spawn fails
     "pipe",      \* pipe2 fails
     "spawn",     \* fork, pre_exec or exec of the wrapper fails
     "addpid",    \* writing cgroup.procs fails
     "layer",     \* a step of the wrapper fails
     "helper",    \* a helper process (proxy, sup, bridge) dies
     "oom",       \* the wrapper or the target's process is killed
     "timeout",   \* a 5 s readiness poll expires
     "crash"}     \* the orchestrator is killed

ASSUME ConfigsAssumption == Configs \subseteq ConfigSpace
ASSUME FaultsAssumption == Faults \subseteq FaultKinds
ASSUME SelfExecAssumption == SelfExec \in BOOLEAN

Procs == {"orch", "proxy", "wrap", "inner", "sup", "bridge"}

ParentOf == [p \in Procs |->
    CASE p \in {"proxy", "wrap"} -> "orch"
      [] p \in {"inner", "sup", "bridge"} -> "wrap"
      [] OTHER -> "none"]

(* Pipes a process may hold the write end of.  "sp" is the wrapper's side  *)
(* of the supervisor's socketpair.                                         *)
Pipes == {"audit", "dns", "unotify", "pid", "sync", "sp"}

Layers == {"Pdeathsig", "NoNewPrivs", "ResolvConf", "Landlock", "Bridge",
           "PidNs", "Seccomp", "Unotify", "Rlimit"}

(* One-shot messages: the spawn error, the sync byte, the reported PID,    *)
(* the host PID sent to the namespace's init, the listener descriptor, and *)
(* the readiness bytes.                                                    *)
Messages == {"spawn_error", "sync", "pid", "hostpid", "listener",
             "sup_ready", "bridge_ready", "proxy_ready"}

VARIABLES
    cfg,        \* the launch configuration
    pc,         \* where each process is
    live,       \* none, alive, zombie or reaped
    doomed,     \* the processes with a SIGKILL pending
    pdeath,     \* the processes with PR_SET_PDEATHSIG armed
    made,       \* the pipes launch() created and named in the environment
    wends,      \* the holders of each pipe's write end
    msg,        \* the one-shot messages sent so far
    report,     \* what the wrapper wrote to the audit pipe
    layers,     \* the layers that confine each process
    cgroup,     \* the sandbox's cgroup directory: absent or present
    members,    \* the processes in it
    held,       \* what the orchestrator must give back: the temporary
                \* directory, the proxy's socket directory, the two PTY
                \* descriptors and the read ends of the pipes
    applied,    \* the layers LayerApplied events were emitted for
    events,     \* the lifecycle events emitted
    pidfd,      \* the process the stored pidfd refers to
    result      \* what launch() returned

(* The configuration and what only the orchestrator changes.               *)
launchVars == <<cfg, held, applied, events, pidfd, result>>

vars == <<launchVars, pc, live, doomed, pdeath, made, wends, msg, report,
          layers, cgroup, members>>

-----------------------------------------------------------------------------
(* What the kernel does.                                                   *)

Fault(k) == k \in Faults

Alive(p) == live[p] = "alive"

CanRun(p) == Alive(p) /\ p \notin doomed

At(p, l) == CanRun(p) /\ pc[p] = l

(* The children of p that get a SIGKILL when p dies: the ones that had     *)
(* armed PR_SET_PDEATHSIG by then.                                         *)
Bereaved(p) == {c \in Procs : ParentOf[c] = p /\ Alive(c) /\ c \in pdeath}

(* The end of process p: its descriptors close and its armed children are  *)
(* killed.                                                                 *)
Exits(p) ==
    /\ live' = [live EXCEPT ![p] = "zombie"]
    /\ wends' = [q \in Pipes |-> wends[q] \ {p}]
    /\ doomed' = (doomed \ {p}) \cup Bereaved(p)

(* SIGKILL takes effect.                                                   *)
Die(p) ==
    /\ Alive(p)
    /\ p \in doomed
    /\ Exits(p)
    /\ UNCHANGED <<launchVars, pc, pdeath, made, msg, report, layers, cgroup,
                   members>>

(* fork(): the child gets the parent's descriptors, layers and cgroup but  *)
(* no parent-death signal.                                                 *)
Fork(p, c) ==
    /\ live' = [live EXCEPT ![c] = "alive"]
    /\ pdeath' = pdeath \ {c}
    /\ wends' = [q \in Pipes |->
                    IF p \in wends[q] THEN wends[q] \cup {c} ELSE wends[q]]
    /\ members' = IF p \in members THEN members \cup {c} ELSE members

(* prctl(PR_SET_PDEATHSIG, SIGKILL).                                       *)
Arm(p) == pdeath' = pdeath \cup {p}

ParentGone(p) == ~Alive(ParentOf[p])

-----------------------------------------------------------------------------
(* What the configuration asks for.                                        *)

UseNetns == cfg.netns \/ cfg.hosts

DnsActive == cfg.dns /\ UseNetns

(* env::bridge_env: a bridge needs the network namespace and a socket.     *)
BridgeWanted == UseNetns /\ (cfg.hosts \/ cfg.sock)

(* The wrapper forks a bridge for the relay, for DNS capture, or for both. *)
BridgeForked == BridgeWanted \/ "dns" \in made

SandboxTypeOK ==
    /\ cfg \in Configs
    /\ live \in [Procs -> {"none", "alive", "zombie", "reaped"}]
    /\ doomed \subseteq Procs
    /\ pdeath \subseteq Procs
    /\ made \subseteq Pipes
    /\ wends \in [Pipes -> SUBSET Procs]
    /\ msg \subseteq Messages
    /\ report \subseteq Layers \X {"applied", "failed"}
    /\ layers \in [Procs -> SUBSET Layers]
    /\ cgroup \in {"absent", "present"}
    /\ members \subseteq Procs
=============================================================================
