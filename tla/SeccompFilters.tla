--------------------------- MODULE SeccompFilters ---------------------------
(* The seccomp programs of seccomp.rs, bridge.rs and unotify.rs, and the   *)
(* verdict the kernel takes from a stack of them.                          *)
(*                                                                         *)
(* A call is its number and the features of its arguments that some rule   *)
(* or the kernel tells apart: a flag that is set, the constant an argument *)
(* equals, or "hi" when bits above the argument's C type are set, which    *)
(* the kernel ignores.  A rule asks for features that are there and for    *)
(* features that are not; the rules of a filter are alternatives.          *)
EXTENDS Integers, Sequences

Rule(nr, has, lacks) == [nr |-> nr, has |-> has, lacks |-> lacks]
Always(names) == {Rule(n, {}, {}) : n \in names}
Having(nr, features) == {Rule(nr, {f}, {}) : f \in features}
Filter(rules, match, mismatch) ==
    [rules |-> rules, match |-> match, mismatch |-> mismatch]

Answer(f, call) ==
    IF \E r \in f.rules : /\ r.nr = call.nr
                          /\ r.has \subseteq call.arg
                          /\ r.lacks \cap call.arg = {}
    THEN f.match ELSE f.mismatch

Severity(a) ==
    CASE a = "ALLOW" -> 0 [] a = "NOTIFY" -> 1 [] a \in {"EPERM", "ENOSYS"} -> 2
      [] a = "TRAP" -> 3 [] OTHER -> 4

NsFlags == {"NEWNS", "NEWCGROUP", "NEWUTS", "NEWIPC", "NEWUSER", "NEWPID", "NEWNET", "NEWTIME"}

-----------------------------------------------------------------------------
(* The sandboxed program: everything is allowed but what a rule matches.   *)
tier1_kill_syscalls ==
    {"ptrace", "mount", "umount2", "reboot", "kexec_load", "kexec_file_load",
     "pivot_root", "chroot", "init_module", "finit_module", "delete_module",
     "unshare", "setns", "personality", "memfd_create", "process_vm_readv",
     "process_vm_writev", "userfaultfd", "kcmp", "bpf", "mount_setattr",
     "move_mount", "open_tree", "fsopen", "fsconfig", "fsmount", "fspick",
     "pidfd_getfd", "pidfd_send_signal", "process_madvise", "memfd_secret",
     "landlock_create_ruleset", "landlock_add_rule", "landlock_restrict_self",
     "quotactl", "quotactl_fd", "swapon", "swapoff", "acct", "add_key",
     "request_key", "keyctl", "lsm_get_self_attr", "lsm_set_self_attr",
     "lsm_list_modules"}

tier2_eperm_syscalls == {"symlinkat", "linkat", "perf_event_open", "symlink", "link"}

SocketRules == Having("socket", {"AF_INET", "AF_INET6"})
PrctlRules ==
    {Rule("prctl", {"PR_SET_PDEATHSIG"}, {}),
     Rule("prctl", {"PR_SET_DUMPABLE", "nonzero"}, {})}
ExecveatRules == Having("execveat", {"AT_EMPTY_PATH"})
IoctlRules == Having("ioctl", {"TIOCSTI", "TIOCLINUX"})

KillRules == Having("kill", {"zero", "bit31"})

CloneRules == Having("clone", NsFlags)

Enosys ==
    Filter(Always({"clone3", "io_uring_setup", "io_uring_enter", "io_uring_register"}),
           "ENOSYS", "ALLOW")
StrictEperm ==
    Filter(Always(tier2_eperm_syscalls \cup {"tkill"}) \cup SocketRules \cup PrctlRules
             \cup ExecveatRules \cup IoctlRules \cup KillRules \cup CloneRules,
           "EPERM", "ALLOW")

StrictKill == Filter(Always(tier1_kill_syscalls), "KILL", "ALLOW")

baseline_kill_syscalls ==
    {"ptrace", "mount", "umount2", "pivot_root", "chroot", "mount_setattr",
     "move_mount", "open_tree", "fsopen", "fsconfig", "fsmount", "fspick",
     "unshare", "setns", "personality", "init_module", "finit_module",
     "delete_module", "kexec_load", "kexec_file_load", "reboot", "bpf",
     "process_vm_readv", "process_vm_writev", "landlock_create_ruleset",
     "landlock_add_rule", "landlock_restrict_self", "userfaultfd",
     "lsm_set_self_attr", "memfd_create", "pidfd_getfd", "pidfd_send_signal",
     "kcmp", "process_madvise", "memfd_secret", "quotactl", "quotactl_fd",
     "swapon", "swapoff", "acct", "add_key", "request_key", "keyctl",
     "lsm_get_self_attr", "lsm_list_modules"}

BaselineClone == Filter(Having("clone", NsFlags), "EPERM", "ALLOW")
BaselineEperm ==
    Filter({Rule("prctl", {"PR_SET_PDEATHSIG"}, {}),
            Rule("prctl", {"PR_SET_DUMPABLE", "nonzero"}, {})}
             \cup Having("execveat", {"AT_EMPTY_PATH"})
             \cup Having("ioctl", {"TIOCSTI", "TIOCLINUX"})
             \cup Having("kill", {"zero", "bit31"})
             \cup Always({"tkill", "perf_event_open"}), "EPERM", "ALLOW")
BaselineKill == Filter(Always(baseline_kill_syscalls), "KILL", "ALLOW")

-----------------------------------------------------------------------------
(* The helpers: everything is refused but what a rule allows, and clone3   *)
(* is allowed there so that the answer of the second filter counts.        *)
Clone3 == Filter(Always({"clone3"}), "ENOSYS", "ALLOW")
ThreadClone == {Rule("clone", {"thread"}, NsFlags)}

BridgeIo ==
    {"accept4", "connect", "read", "write", "writev", "recvfrom", "sendto", "close",
     "shutdown", "ppoll", "epoll_pwait", "epoll_ctl", "epoll_create1", "poll", "epoll_wait"}
BridgeThreads ==
    {"futex", "set_robust_list", "sched_yield", "sched_getaffinity", "gettid",
     "getpid", "tgkill"}
BridgeRuntime ==
    {"mmap", "munmap", "brk", "mremap", "madvise", "rt_sigaction", "rt_sigprocmask",
     "rt_sigreturn", "sigaltstack", "exit", "exit_group"}
BridgeMisc ==
    {"openat", "newfstatat", "fstat", "lseek", "pread64", "getrandom", "clock_gettime",
     "clock_nanosleep", "nanosleep", "setsockopt", "getsockopt", "fcntl", "prlimit64", "rseq"}

BridgePrctl == Having("prctl", {"PR_SET_VMA", "PR_SET_NAME"})

BridgeRules ==
    Always(BridgeIo \cup BridgeThreads \cup {"clone3"} \cup BridgeRuntime \cup BridgeMisc)
      \cup ThreadClone \cup {Rule("mprotect", {}, {"PROT_EXEC"})}
      \cup Having("socket", {"AF_UNIX"}) \cup BridgePrctl

ProxyIo ==
    {"accept4", "connect", "read", "write", "writev", "recvfrom", "sendto", "close",
     "shutdown", "ppoll", "epoll_pwait", "epoll_ctl", "epoll_create1", "poll", "epoll_wait"}
ProxyResolver ==
    {"sendmmsg", "recvmmsg", "recvmsg", "bind", "getsockname", "getpeername", "openat",
     "newfstatat", "fstat", "lseek", "pread64"}
ProxyIoctl == Having("ioctl", {"FIONREAD", "FIONBIO"})
ProxyThreads ==
    {"futex", "set_robust_list", "sched_yield", "sched_getaffinity", "gettid",
     "getpid", "tgkill"}
ProxyRuntime ==
    {"mmap", "munmap", "brk", "mremap", "madvise", "rt_sigaction", "rt_sigprocmask",
     "rt_sigreturn", "sigaltstack", "exit", "exit_group"}
ProxySocket == Having("socket", {"AF_UNIX", "AF_INET", "AF_INET6"})
ProxyMisc ==
    {"getrandom", "clock_gettime", "clock_nanosleep", "nanosleep", "setsockopt",
     "getsockopt", "fcntl", "prlimit64", "rseq", "getuid", "getgid", "geteuid",
     "getegid", "uname"}
ProxyPrctl == Having("prctl", {"PR_SET_VMA", "PR_SET_NAME"})
ProxyRules ==
    Always(ProxyIo \cup ProxyResolver \cup ProxyThreads \cup {"clone3"} \cup ProxyRuntime
             \cup ProxyMisc)
      \cup ProxyIoctl \cup ThreadClone \cup {Rule("mprotect", {}, {"PROT_EXEC"})}
      \cup ProxySocket \cup ProxyPrctl

SupervisorIo ==
    {"openat", "read", "pread64", "write", "close", "writev", "lseek", "ppoll", "fcntl",
     "pidfd_open", "pidfd_getfd", "poll"}
SupervisorIoctl == Having("ioctl", {"RECV", "SEND", "ID_VALID", "ID_VALID_OLD"})
SupervisorRuntime ==
    {"mmap", "munmap", "brk", "mremap", "madvise", "rt_sigaction", "rt_sigprocmask",
     "rt_sigreturn", "sigaltstack", "exit", "exit_group", "futex", "set_robust_list",
     "sched_yield", "sched_getaffinity", "gettid", "getpid", "tgkill", "getrandom",
     "clock_gettime", "prlimit64", "rseq", "newfstatat", "fstat", "nanosleep"}
SupervisorRules ==
    Always(SupervisorIo \cup SupervisorRuntime \cup {"clone3"}) \cup SupervisorIoctl
      \cup {Rule("mprotect", {}, {"PROT_EXEC"})} \cup Having("prctl", {"PR_SET_VMA", "PR_SET_NAME"})

-----------------------------------------------------------------------------
(* The audit of the sandboxed program: the supervisor is asked, and lets   *)
(* the call go on.                                                         *)
target_syscalls(files, network) ==
    (IF files THEN {"openat", "openat2", "open", "execve", "execveat"} ELSE {})
      \cup (IF network THEN {"connect", "sendto", "sendmsg", "sendmmsg"} ELSE {})

(* The filters by name.  "own" and "errno" are filters that the sandboxed  *)
(* program installs itself.                                                *)
FilterOf(f, mode) ==
    CASE f = "enosys" -> Enosys
      [] f = "eperm" -> StrictEperm
      [] f = "kill" -> StrictKill
      [] f = "clone" -> BaselineClone
      [] f = "beperm" -> BaselineEperm
      [] f = "bkill" -> BaselineKill
      [] f = "clone3" -> Clone3
      [] f = "bridge" -> Filter(BridgeRules, "ALLOW", IF mode.debug THEN "TRAP" ELSE "KILL")
      [] f = "proxy" -> Filter(ProxyRules, "ALLOW", IF mode.debug THEN "TRAP" ELSE "KILL")
      [] f = "supervisor" ->
             Filter(SupervisorRules, "ALLOW", IF mode.debug THEN "TRAP" ELSE "KILL")
      [] f = "notify" -> Filter(Always(target_syscalls(mode.files, mode.network)), "NOTIFY", "ALLOW")
      [] f = "own" -> Filter(Always({"getpid"}), "KILL", "ALLOW")
      [] OTHER -> Filter(Always({"symlinkat", "clone3"}), "EPERM", "ALLOW")

(* What a profile installs, in this order.                                 *)
Programs(profile) ==
    CASE profile = "strict" -> <<"enosys", "eperm", "kill">>
      [] profile = "baseline" -> <<"enosys", "clone", "beperm", "bkill">>
      [] profile = "bridge" -> <<"clone3", "bridge">>
      [] profile = "supervisor" -> <<"clone3", "supervisor">>
      [] OTHER -> <<"clone3", "proxy">>

(* The kernel runs every filter of a stack and takes the most severe       *)
(* answer.                                                                 *)
Answers(fs, mode, call) == {Answer(FilterOf(fs[i], mode), call) : i \in DOMAIN fs}
Verdict(fs, mode, call) ==
    LET answers == Answers(fs, mode, call)
    IN  IF fs = <<>> THEN "ALLOW"
        ELSE CHOOSE a \in answers : \A b \in answers : Severity(b) <= Severity(a)
=============================================================================
