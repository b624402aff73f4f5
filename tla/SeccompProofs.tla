---------------------------- MODULE SeccompProofs ---------------------------
(***************************************************************************)
(* Proofs about module Seccomp, for any number of processes and threads    *)
(* and every configuration: what the filters answer, how they stack, and   *)
(* what the SIGSYS handlers report.                                        *)
(***************************************************************************)
EXTENDS Seccomp, TLAPS

(* A leaf goes to Zenon unless it names another prover.                    *)
USE Zenon

-----------------------------------------------------------------------------
(* What a stack of filters answers.                                        *)

Hit(rules, call) ==
    \E r \in rules : r.nr = call.nr /\ r.has \subseteq call.arg /\ r.lacks \cap call.arg = {}

LEMMA HitAlways ==
    ASSUME NEW call, NEW names
    PROVE  Hit(Always(names), call) <=> call.nr \in names
<1>1. \A n : /\ Rule(n, {}, {}).nr = n /\ Rule(n, {}, {}).has \subseteq call.arg
             /\ Rule(n, {}, {}).lacks \cap call.arg = {}
    BY DEF Rule
<1>2. ASSUME Hit(Always(names), call) PROVE call.nr \in names
    <2>1. PICK r \in Always(names) : r.nr = call.nr
        BY <1>2 DEF Hit
    <2>2. PICK n \in names : r = Rule(n, {}, {})
        BY DEF Always
    <2> QED BY <1>1, <2>1, <2>2
<1>3. ASSUME call.nr \in names PROVE Hit(Always(names), call)
    <2>1. Rule(call.nr, {}, {}) \in Always(names)
        BY <1>3 DEF Always
    <2> QED BY <1>1, <2>1 DEF Hit
<1> QED BY <1>2, <1>3

LEMMA HitHaving ==
    ASSUME NEW call, NEW nr, NEW fs
    PROVE  Hit(Having(nr, fs), call) <=> call.nr = nr /\ call.arg \cap fs # {}
<1>1. \A f : /\ Rule(nr, {f}, {}).nr = nr /\ Rule(nr, {f}, {}).lacks \cap call.arg = {}
             /\ Rule(nr, {f}, {}).has \subseteq call.arg <=> f \in call.arg
    BY DEF Rule
<1>2. ASSUME Hit(Having(nr, fs), call) PROVE call.nr = nr /\ call.arg \cap fs # {}
    <2>1. PICK r \in Having(nr, fs) : r.nr = call.nr /\ r.has \subseteq call.arg
        BY <1>2 DEF Hit
    <2>2. PICK f \in fs : r = Rule(nr, {f}, {})
        BY DEF Having
    <2> QED BY <1>1, <2>1, <2>2
<1>3. ASSUME call.nr = nr, call.arg \cap fs # {} PROVE Hit(Having(nr, fs), call)
    <2>1. PICK f \in fs : f \in call.arg
        BY <1>3
    <2>2. Rule(nr, {f}, {}) \in Having(nr, fs)
        BY DEF Having
    <2> QED BY <1>1, <1>3, <2>1, <2>2 DEF Hit
<1> QED BY <1>2, <1>3

(* The most severe answer exists: there are five degrees.                  *)
LEMMA Degrees == \A a : Severity(a) \in 0..4
BY SMT DEF Severity

LEMMA MostSevere ==
    ASSUME NEW S, S # {}
    PROVE  \E a \in S : \A b \in S : Severity(b) <= Severity(a)
<1>1. CASE \E a \in S : Severity(a) = 4
    BY SMT, <1>1, Degrees
<1>2. CASE (\A a \in S : Severity(a) # 4) /\ \E a \in S : Severity(a) = 3
    BY SMT, <1>2, Degrees
<1>3. CASE (\A a \in S : Severity(a) \notin {3, 4}) /\ \E a \in S : Severity(a) = 2
    BY SMT, <1>3, Degrees
<1>4. CASE (\A a \in S : Severity(a) \notin {2, 3, 4}) /\ \E a \in S : Severity(a) = 1
    BY SMT, <1>4, Degrees
<1>5. CASE \A a \in S : Severity(a) \notin {1, 2, 3, 4}
    BY SMT, <1>5, Degrees
<1> QED BY <1>1, <1>2, <1>3, <1>4, <1>5

LEMMA VerdictIs ==
    ASSUME NEW S, NEW fs \in Seq(S), fs # <<>>, NEW mode, NEW call
    PROVE  /\ \E i \in DOMAIN fs : Verdict(fs, mode, call) = Answer(FilterOf(fs[i], mode), call)
           /\ \A i \in DOMAIN fs :
                 Severity(Answer(FilterOf(fs[i], mode), call)) <= Severity(Verdict(fs, mode, call))
<1>1. 1 \in DOMAIN fs
    BY SMT
<1>2. Answers(fs, mode, call) # {}
    BY <1>1 DEF Answers
<1>3. /\ Verdict(fs, mode, call) \in Answers(fs, mode, call)
      /\ \A b \in Answers(fs, mode, call) : Severity(b) <= Severity(Verdict(fs, mode, call))
    BY <1>2, MostSevere DEF Verdict
<1> QED BY <1>3 DEF Answers

(* A call that every filter lets pass.                                     *)
LEMMA VerdictAllow ==
    ASSUME NEW S, NEW fs \in Seq(S), NEW mode, NEW call,
           \A i \in DOMAIN fs : Answer(FilterOf(fs[i], mode), call) = "ALLOW"
    PROVE  Verdict(fs, mode, call) = "ALLOW"
<1>1. CASE fs = <<>>
    BY <1>1 DEF Verdict
<1>2. CASE fs # <<>>
    BY <1>2, VerdictIs
<1> QED BY <1>1, <1>2

-----------------------------------------------------------------------------
(* What each filter answers, from its rules.                               *)

(* What each filter answers.                                               *)
Says(f, mode, call) == Answer(FilterOf(f, mode), call)

BadClone(call) == call.nr = "clone" /\ call.arg \cap NsFlags # {}
BadArgs(call) ==
    \/ call.nr = "prctl" /\ ("PR_SET_PDEATHSIG" \in call.arg
                              \/ {"PR_SET_DUMPABLE", "nonzero"} \subseteq call.arg)
    \/ call.nr = "execveat" /\ call.arg \cap {"AT_EMPTY_PATH"} # {}
    \/ call.nr = "ioctl" /\ call.arg \cap {"TIOCSTI", "TIOCLINUX"} # {}
    \/ call.nr = "kill" /\ call.arg \cap {"zero", "bit31"} # {}

LEMMA PrctlHit ==
    ASSUME NEW call
    PROVE  Hit({Rule("prctl", {"PR_SET_PDEATHSIG"}, {}),
                Rule("prctl", {"PR_SET_DUMPABLE", "nonzero"}, {})}, call) <=>
           call.nr = "prctl" /\ ("PR_SET_PDEATHSIG" \in call.arg
                                  \/ {"PR_SET_DUMPABLE", "nonzero"} \subseteq call.arg)
<1> DEFINE r == Rule("prctl", {"PR_SET_PDEATHSIG"}, {})
           s == Rule("prctl", {"PR_SET_DUMPABLE", "nonzero"}, {})
<1>1. Hit({r, s}, call) <=> Hit({r}, call) \/ Hit({s}, call)
    BY DEF Hit
<1>2. Hit({r}, call) <=> call.nr = "prctl" /\ {"PR_SET_PDEATHSIG"} \subseteq call.arg
    BY SMT DEF Hit, Rule
<1>3. Hit({s}, call) <=> call.nr = "prctl" /\ {"PR_SET_DUMPABLE", "nonzero"} \subseteq call.arg
    BY SMT DEF Hit, Rule
<1>4. {"PR_SET_PDEATHSIG"} \subseteq call.arg <=> "PR_SET_PDEATHSIG" \in call.arg
    OBVIOUS
<1> HIDE DEF r, s
<1>5. Hit({r, s}, call) <=>
         call.nr = "prctl" /\ ("PR_SET_PDEATHSIG" \in call.arg
                                \/ {"PR_SET_DUMPABLE", "nonzero"} \subseteq call.arg)
    BY <1>1, <1>2, <1>3, <1>4
<1> QED BY <1>5 DEF r, s

LEMMA EnosysSays ==
    ASSUME NEW mode, NEW call
    PROVE  Says("enosys", mode, call) =
           IF call.nr \in {"clone3", "io_uring_setup", "io_uring_enter", "io_uring_register"}
           THEN "ENOSYS" ELSE "ALLOW"
<1> DEFINE S == {"clone3", "io_uring_setup", "io_uring_enter", "io_uring_register"}
<1>1. Hit(Always(S), call) <=> call.nr \in S
    BY HitAlways
<1>2. Says("enosys", mode, call) = IF Hit(Always(S), call) THEN "ENOSYS" ELSE "ALLOW"
    BY DEF Says, FilterOf, Enosys, Answer, Filter, Hit
<1> QED BY <1>1, <1>2

LEMMA StrictSays ==
    ASSUME NEW mode, NEW call
    PROVE  /\ Says("eperm", mode, call) =
              IF \/ call.nr \in tier2_eperm_syscalls \cup {"tkill"} \/ BadArgs(call) \/ BadClone(call)
                 \/ call.nr = "socket" /\ call.arg \cap {"AF_INET", "AF_INET6"} # {}
              THEN "EPERM" ELSE "ALLOW"
           /\ Says("kill", mode, call) = IF call.nr \in tier1_kill_syscalls THEN "KILL" ELSE "ALLOW"
<1>1. Hit(StrictEperm.rules, call) <=>
         \/ call.nr \in tier2_eperm_syscalls \cup {"tkill"} \/ BadArgs(call) \/ BadClone(call)
         \/ call.nr = "socket" /\ call.arg \cap {"AF_INET", "AF_INET6"} # {}
    <2>1. StrictEperm.rules =
             Always(tier2_eperm_syscalls \cup {"tkill"}) \cup SocketRules \cup PrctlRules
               \cup ExecveatRules \cup IoctlRules \cup KillRules \cup CloneRules
        BY DEF StrictEperm, Filter
    <2>2. Hit(StrictEperm.rules, call) <=>
             \/ Hit(Always(tier2_eperm_syscalls \cup {"tkill"}), call) \/ Hit(SocketRules, call)
             \/ Hit(PrctlRules, call) \/ Hit(ExecveatRules, call) \/ Hit(IoctlRules, call)
             \/ Hit(KillRules, call) \/ Hit(CloneRules, call)
        BY <2>1 DEF Hit
    <2>3. Hit(Always(tier2_eperm_syscalls \cup {"tkill"}), call) <=>
             call.nr \in tier2_eperm_syscalls \cup {"tkill"}
        BY HitAlways, HitHaving
    <2>4. /\ Hit(SocketRules, call) <=> call.nr = "socket" /\ call.arg \cap {"AF_INET", "AF_INET6"} # {}
          /\ Hit(ExecveatRules, call) <=> call.nr = "execveat" /\ call.arg \cap {"AT_EMPTY_PATH"} # {}
          /\ Hit(IoctlRules, call) <=> call.nr = "ioctl" /\ call.arg \cap {"TIOCSTI", "TIOCLINUX"} # {}
          /\ Hit(KillRules, call) <=> call.nr = "kill" /\ call.arg \cap {"zero", "bit31"} # {}
          /\ Hit(CloneRules, call) <=> BadClone(call)
        BY HitAlways, HitHaving DEF SocketRules, ExecveatRules, IoctlRules, KillRules, CloneRules, BadClone
    <2> QED BY <2>2, <2>3, <2>4, PrctlHit DEF PrctlRules, BadArgs
<1>2. /\ Says("eperm", mode, call) = IF Hit(StrictEperm.rules, call) THEN "EPERM" ELSE "ALLOW"
      /\ Says("kill", mode, call) = IF Hit(Always(tier1_kill_syscalls), call) THEN "KILL" ELSE "ALLOW"
    BY DEF Says, FilterOf, Answer, Hit, StrictEperm, StrictKill, Filter
<1>3. Hit(Always(tier1_kill_syscalls), call) <=> call.nr \in tier1_kill_syscalls
    BY HitAlways, HitHaving
<1> QED BY <1>1, <1>2, <1>3

LEMMA BaselineSays ==
    ASSUME NEW mode, NEW call
    PROVE  /\ Says("clone", mode, call) = IF BadClone(call) THEN "EPERM" ELSE "ALLOW"
           /\ Says("beperm", mode, call) =
              IF call.nr \in {"tkill", "perf_event_open"} \/ BadArgs(call) THEN "EPERM" ELSE "ALLOW"
           /\ Says("bkill", mode, call) =
              IF call.nr \in baseline_kill_syscalls THEN "KILL" ELSE "ALLOW"
<1> DEFINE P == {Rule("prctl", {"PR_SET_PDEATHSIG"}, {}),
                 Rule("prctl", {"PR_SET_DUMPABLE", "nonzero"}, {})}
<1>1. Hit(BaselineEperm.rules, call) <=> call.nr \in {"tkill", "perf_event_open"} \/ BadArgs(call)
    <2>1. BaselineEperm.rules =
             P \cup Having("execveat", {"AT_EMPTY_PATH"}) \cup Having("ioctl", {"TIOCSTI", "TIOCLINUX"})
               \cup Having("kill", {"zero", "bit31"}) \cup Always({"tkill", "perf_event_open"})
        BY DEF BaselineEperm, Filter
    <2> HIDE DEF P
    <2>2. Hit(BaselineEperm.rules, call) <=>
             \/ Hit(P, call) \/ Hit(Having("execveat", {"AT_EMPTY_PATH"}), call)
             \/ Hit(Having("ioctl", {"TIOCSTI", "TIOCLINUX"}), call)
             \/ Hit(Having("kill", {"zero", "bit31"}), call)
             \/ Hit(Always({"tkill", "perf_event_open"}), call)
        BY <2>1 DEF Hit
    <2>3. /\ Hit(Having("execveat", {"AT_EMPTY_PATH"}), call) <=>
                call.nr = "execveat" /\ call.arg \cap {"AT_EMPTY_PATH"} # {}
          /\ Hit(Having("ioctl", {"TIOCSTI", "TIOCLINUX"}), call) <=>
                call.nr = "ioctl" /\ call.arg \cap {"TIOCSTI", "TIOCLINUX"} # {}
          /\ Hit(Having("kill", {"zero", "bit31"}), call) <=>
                call.nr = "kill" /\ call.arg \cap {"zero", "bit31"} # {}
          /\ Hit(Always({"tkill", "perf_event_open"}), call) <=> call.nr \in {"tkill", "perf_event_open"}
        BY HitAlways, HitHaving
    <2> QED BY <2>2, <2>3, PrctlHit DEF BadArgs, P
<1>2. /\ Says("clone", mode, call) = IF Hit(Having("clone", NsFlags), call) THEN "EPERM" ELSE "ALLOW"
      /\ Says("beperm", mode, call) = IF Hit(BaselineEperm.rules, call) THEN "EPERM" ELSE "ALLOW"
      /\ Says("bkill", mode, call) =
            IF Hit(Always(baseline_kill_syscalls), call) THEN "KILL" ELSE "ALLOW"
    BY DEF Says, FilterOf, Answer, Hit, BaselineClone, BaselineEperm, BaselineKill, Filter
<1>3. /\ Hit(Having("clone", NsFlags), call) <=> BadClone(call)
      /\ Hit(Always(baseline_kill_syscalls), call) <=> call.nr \in baseline_kill_syscalls
    BY HitAlways, HitHaving DEF BadClone
<1> QED BY <1>1, <1>2, <1>3

LEMMA OtherSays ==
    ASSUME NEW mode, NEW call
    PROVE  /\ Says("notify", mode, call) =
              IF call.nr \in target_syscalls(mode.files, mode.network) THEN "NOTIFY" ELSE "ALLOW"
           /\ Says("own", mode, call) = IF call.nr = "getpid" THEN "KILL" ELSE "ALLOW"
           /\ Says("errno", mode, call) =
              IF call.nr \in {"symlinkat", "clone3"} THEN "EPERM" ELSE "ALLOW"
           /\ Says("clone3", mode, call) = IF call.nr = "clone3" THEN "ENOSYS" ELSE "ALLOW"
<1>1. /\ Says("notify", mode, call) =
            IF Hit(Always(target_syscalls(mode.files, mode.network)), call) THEN "NOTIFY" ELSE "ALLOW"
      /\ Says("own", mode, call) = IF Hit(Always({"getpid"}), call) THEN "KILL" ELSE "ALLOW"
      /\ Says("errno", mode, call) = IF Hit(Always({"symlinkat", "clone3"}), call) THEN "EPERM" ELSE "ALLOW"
      /\ Says("clone3", mode, call) = IF Hit(Always({"clone3"}), call) THEN "ENOSYS" ELSE "ALLOW"
    BY DEF Says, FilterOf, Answer, Hit, Filter, Clone3
<1> QED BY <1>1, HitAlways

-----------------------------------------------------------------------------
(* The helpers' filters.                                                   *)

(* The helpers' filters let pass what they list.                           *)
ThreadCall(call) == call.nr = "clone" /\ "thread" \in call.arg /\ NsFlags \cap call.arg = {}
DataCall(call) == call.nr = "mprotect" /\ "PROT_EXEC" \notin call.arg

BridgeNames == BridgeIo \cup BridgeThreads \cup {"clone3"} \cup BridgeRuntime \cup BridgeMisc
ProxyNames ==
    ProxyIo \cup ProxyResolver \cup ProxyThreads \cup {"clone3"} \cup ProxyRuntime \cup ProxyMisc
SupervisorNames == SupervisorIo \cup SupervisorRuntime \cup {"clone3"}

LEMMA ThreadHit ==
    ASSUME NEW call
    PROVE  /\ ThreadCall(call) => Hit(ThreadClone, call)
           /\ DataCall(call) => Hit({Rule("mprotect", {}, {"PROT_EXEC"})}, call)
BY DEF Hit, Rule, ThreadClone, ThreadCall, DataCall

LEMMA BridgeSays ==
    ASSUME NEW mode, NEW call,
           \/ call.nr \in BridgeNames \/ ThreadCall(call) \/ DataCall(call)
           \/ call.nr = "socket" /\ call.arg \cap {"AF_UNIX"} # {}
           \/ call.nr = "prctl" /\ call.arg \cap {"PR_SET_VMA", "PR_SET_NAME"} # {}
    PROVE  Says("bridge", mode, call) = "ALLOW"
<1>1. Hit(BridgeRules, call) <=>
         \/ Hit(Always(BridgeNames), call) \/ Hit(ThreadClone, call)
         \/ Hit({Rule("mprotect", {}, {"PROT_EXEC"})}, call)
         \/ Hit(Having("socket", {"AF_UNIX"}), call) \/ Hit(BridgePrctl, call)
    BY DEF Hit, BridgeRules, BridgeNames
<1>2. /\ Hit(Always(BridgeNames), call) <=> call.nr \in BridgeNames
      /\ Hit(Having("socket", {"AF_UNIX"}), call) <=> call.nr = "socket" /\ call.arg \cap {"AF_UNIX"} # {}
      /\ Hit(BridgePrctl, call) <=>
            call.nr = "prctl" /\ call.arg \cap {"PR_SET_VMA", "PR_SET_NAME"} # {}
    BY HitAlways, HitHaving DEF BridgePrctl
<1>3. Hit(BridgeRules, call)
    BY <1>1, <1>2, ThreadHit
<1> QED BY <1>3 DEF Says, FilterOf, Answer, Filter, Hit

LEMMA ProxySays ==
    ASSUME NEW mode, NEW call,
           \/ call.nr \in ProxyNames \/ ThreadCall(call) \/ DataCall(call)
           \/ call.nr = "ioctl" /\ call.arg \cap {"FIONREAD", "FIONBIO"} # {}
           \/ call.nr = "socket" /\ call.arg \cap {"AF_UNIX", "AF_INET", "AF_INET6"} # {}
           \/ call.nr = "prctl" /\ call.arg \cap {"PR_SET_VMA", "PR_SET_NAME"} # {}
    PROVE  Says("proxy", mode, call) = "ALLOW"
<1>1. Hit(ProxyRules, call) <=>
         \/ Hit(Always(ProxyNames), call) \/ Hit(ProxyIoctl, call) \/ Hit(ThreadClone, call)
         \/ Hit({Rule("mprotect", {}, {"PROT_EXEC"})}, call)
         \/ Hit(ProxySocket, call) \/ Hit(ProxyPrctl, call)
    BY DEF Hit, ProxyRules, ProxyNames
<1>2. /\ Hit(Always(ProxyNames), call) <=> call.nr \in ProxyNames
      /\ Hit(ProxyIoctl, call) <=> call.nr = "ioctl" /\ call.arg \cap {"FIONREAD", "FIONBIO"} # {}
      /\ Hit(ProxySocket, call) <=>
            call.nr = "socket" /\ call.arg \cap {"AF_UNIX", "AF_INET", "AF_INET6"} # {}
      /\ Hit(ProxyPrctl, call) <=>
            call.nr = "prctl" /\ call.arg \cap {"PR_SET_VMA", "PR_SET_NAME"} # {}
    BY HitAlways, HitHaving DEF ProxyIoctl, ProxySocket, ProxyPrctl
<1>3. Hit(ProxyRules, call)
    BY <1>1, <1>2, ThreadHit
<1> QED BY <1>3 DEF Says, FilterOf, Answer, Filter, Hit

LEMMA SupervisorSays ==
    ASSUME NEW mode, NEW call,
           \/ call.nr \in SupervisorNames
           \/ call.nr = "ioctl" /\ call.arg \cap {"RECV", "SEND", "ID_VALID", "ID_VALID_OLD"} # {}
    PROVE  Says("supervisor", mode, call) = "ALLOW"
<1>1. \/ Hit(Always(SupervisorNames), call) \/ Hit(SupervisorIoctl, call)
    BY HitAlways, HitHaving DEF SupervisorIoctl
<1>2. Hit(SupervisorRules, call)
    BY <1>1 DEF Hit, SupervisorRules, SupervisorNames
<1> QED BY <1>2 DEF Says, FilterOf, Answer, Filter, Hit

(* A helper's two filters together.                                        *)
LEMMA HelperVerdict ==
    ASSUME NEW h \in {"bridge", "proxy", "supervisor"}, NEW mode, NEW call,
           Says(h, mode, call) = "ALLOW", call.nr # "clone3"
    PROVE  Verdict(Programs(h), mode, call) = "ALLOW"
<1>1. Programs(h) = <<"clone3", h>>
    BY DEF Programs
<1>2. Says("clone3", mode, call) = "ALLOW"
    BY OtherSays
<1>3. \A i \in DOMAIN <<"clone3", h>> : Says(<<"clone3", h>>[i], mode, call) = "ALLOW"
    BY SMT, <1>2
<1>4. <<"clone3", h>> \in Seq({"clone3", h})
    BY SMT
<1> QED BY <1>1, <1>3, <1>4, VerdictAllow DEF Says

-----------------------------------------------------------------------------
(* The sandboxed program's filters.                                        *)

SandboxNames == {"enosys", "eperm", "kill", "clone", "beperm", "bkill", "notify", "own", "errno"}

(* What arapuca itself needs on the way to execve.                         *)
LEMMA WrapperPasses ==
    ASSUME NEW mode, NEW f \in SandboxNames \ {"own", "errno"},
           NEW call \in InstallCalls \cup {Bare(nr) : nr \in {"openat", "read", "close", "fcntl",
                                                              "write", "prlimit64", "execve"}}
    PROVE  /\ f # "notify" => Says(f, mode, call) = "ALLOW"
           /\ Says("notify", mode, call) =
              IF mode.files /\ call.nr \in {"openat", "execve"} THEN "NOTIFY" ELSE "ALLOW"
<1>1. \/ call.nr = "prctl" /\ call.arg = {"PR_SET_NO_NEW_PRIVS"}
      \/ call.nr \in {"seccomp", "openat", "read", "close", "fcntl", "write", "prlimit64", "execve"}
    BY SMT DEF InstallCalls, Bare, With
<1>2. ~BadArgs(call) /\ ~BadClone(call)
    BY <1>1 DEF BadArgs, BadClone
<1>3. /\ call.nr \notin tier1_kill_syscalls /\ call.nr \notin baseline_kill_syscalls
      /\ call.nr \notin tier2_eperm_syscalls
    BY SMT, <1>1 DEF tier1_kill_syscalls, baseline_kill_syscalls, tier2_eperm_syscalls
<1>4. call.nr \notin {"clone3", "io_uring_setup", "io_uring_enter", "io_uring_register", "tkill",
                      "socket", "perf_event_open"}
    BY <1>1
<1>5. f # "notify" => Says(f, mode, call) = "ALLOW"
    BY SMT, <1>2, <1>3, <1>4, EnosysSays, StrictSays, BaselineSays DEF SandboxNames
<1>6. Says("notify", mode, call) =
         IF call.nr \in target_syscalls(mode.files, mode.network) THEN "NOTIFY" ELSE "ALLOW"
    BY OtherSays
<1>7. call.nr \in target_syscalls(mode.files, mode.network)
         <=> mode.files /\ call.nr \in {"openat", "execve"}
    BY <1>1 DEF target_syscalls
<1> QED BY <1>5, <1>6, <1>7

(* What a program falls back on passes every filter of its stack, what it  *)
(* probes is answered by the filter for that.                              *)
LEMMA FallbackPasses ==
    ASSUME NEW mode, NEW f \in SandboxNames
    PROVE  /\ Says(f, mode, With("clone", {"thread"})) = "ALLOW"
           /\ Says(f, mode, With("socket", {"AF_UNIX"})) = "ALLOW"
           /\ \A nr \in {"clone3", "io_uring_setup"} :
                 Says(f, mode, Bare(nr)) =
                    IF f = "enosys" THEN "ENOSYS"
                    ELSE IF f = "errno" /\ nr = "clone3" THEN "EPERM" ELSE "ALLOW"
<1>1. ASSUME NEW call, call.nr \in {"clone", "socket"},
             call.nr = "clone" => call.arg = {"thread"}, call.nr = "socket" => call.arg = {"AF_UNIX"}
      PROVE  Says(f, mode, call) = "ALLOW"
    <2>1. ~BadArgs(call) /\ ~BadClone(call) /\ call.arg \cap {"AF_INET", "AF_INET6"} = {}
        BY <1>1 DEF BadArgs, BadClone, NsFlags
    <2>2. /\ call.nr \notin tier1_kill_syscalls /\ call.nr \notin baseline_kill_syscalls
          /\ call.nr \notin tier2_eperm_syscalls
        BY <1>1 DEF tier1_kill_syscalls, baseline_kill_syscalls, tier2_eperm_syscalls
    <2>3. call.nr \notin target_syscalls(mode.files, mode.network)
        BY <1>1 DEF target_syscalls
    <2> QED BY SMT, <1>1, <2>1, <2>2, <2>3, EnosysSays, StrictSays, BaselineSays, OtherSays DEF SandboxNames
<1>2. ASSUME NEW call, call.nr \in {"clone3", "io_uring_setup"}
      PROVE  Says(f, mode, call) = IF f = "enosys" THEN "ENOSYS"
                                   ELSE IF f = "errno" /\ call.nr = "clone3" THEN "EPERM" ELSE "ALLOW"
    <2>1. ~BadArgs(call) /\ ~BadClone(call)
        BY <1>2 DEF BadArgs, BadClone
    <2>2. /\ call.nr \notin tier1_kill_syscalls /\ call.nr \notin baseline_kill_syscalls
          /\ call.nr \notin tier2_eperm_syscalls
        BY <1>2 DEF tier1_kill_syscalls, baseline_kill_syscalls, tier2_eperm_syscalls
    <2>3. call.nr \notin target_syscalls(mode.files, mode.network)
        BY <1>2 DEF target_syscalls
    <2> QED BY SMT, <1>2, <2>1, <2>2, <2>3, EnosysSays, StrictSays, BaselineSays, OtherSays DEF SandboxNames
<1>3. /\ With("clone", {"thread"}).nr = "clone" /\ With("clone", {"thread"}).arg = {"thread"}
      /\ With("socket", {"AF_UNIX"}).nr = "socket" /\ With("socket", {"AF_UNIX"}).arg = {"AF_UNIX"}
      /\ \A nr : Bare(nr).nr = nr
    BY DEF With, Bare
<1> QED BY SMT, <1>1, <1>2, <1>3

-----------------------------------------------------------------------------
(* The stacks of filters, and the handlers.                                *)

FilterNames == SandboxNames \cup {"clone3", "bridge", "proxy", "supervisor"}
WrapperNames == SandboxNames \ {"own", "errno"}
Phases == {"none", "setup", "audit", "program", "serving", "killed", "exited"}

Under(p) ==
    /\ Len(Programs(how.profile)) <= Len(stack[p])
    /\ \A i \in 1..Len(Programs(how.profile)) : stack[p][i] = Programs(how.profile)[i]
Uses(p, names) == \A i \in DOMAIN stack[p] : stack[p][i] \in names

(* The stacks that the phases go with, and where the listener may be.      *)
StackInv ==
    /\ how \in HowShapes
    /\ phase \in [Procs -> Phases] /\ stack \in [Procs -> Seq(FilterNames)]
    /\ phase[First] # "none"
    /\ \A p \in Procs :
          /\ phase[p] = "none" => stack[p] = <<>>
          /\ p # First => phase[p] \in {"none", "program", "killed"}
          /\ p # First /\ phase[First] \in {"setup", "audit", "serving"} => phase[p] = "none"
          /\ phase[p] = "program" =>
                /\ how.profile \in Sandboxes /\ Under(p) /\ Uses(p, SandboxNames)
                /\ how.files => listener \in {"held", "failed"}
    /\ phase[First] = "setup" =>
          /\ Len(stack[First]) < Len(Programs(how.profile))
          /\ \A i \in DOMAIN stack[First] : stack[First][i] = Programs(how.profile)[i]
          /\ listener = "none"
    /\ phase[First] = "audit" =>
          /\ how.profile \in Sandboxes /\ Under(First) /\ Uses(First, WrapperNames)
          /\ listener \in {"none", "here", "sent", "held", "failed"}
          /\ listener \in {"none", "failed"} => Uses(First, WrapperNames \ {"notify"})
          /\ listener \in {"here", "sent", "held"} => ~Uses(First, WrapperNames \ {"notify"})
    /\ phase[First] = "serving" =>
          how.profile \notin Sandboxes /\ stack[First] = Programs(how.profile)

(* One thread at a time is past HANDLER_ACTIVE; a number without its bit   *)
(* has not been printed, and who is about to print has just set the bit.   *)
Busy(t) == th[t].pc \in {"mark", "print", "leave"}
ThreadShapes == [pc : {"run", "enter", "mark", "print", "leave"}, nr : Unlisted \cup {"none"}, traps : Int]
HandlerInv ==
    /\ th \in [Threads -> ThreadShapes] /\ printed \in [Unlisted -> Int]
    /\ \A t \in Threads :
          /\ th[t].pc # "run" => th[t].nr \in Unlisted /\ phase[First] = "serving"
          /\ Busy(t) => active
          /\ \A u \in Threads : Busy(t) /\ Busy(u) => t = u
          /\ th[t].pc = "print" /\ th[t].nr \notin Beyond => th[t].nr \in reported /\ printed[th[t].nr] = 0
    /\ \A nr \in Unlisted \ Beyond : printed[nr] \in {0, 1} /\ (nr \notin reported => printed[nr] = 0)

-----------------------------------------------------------------------------
(* The stacks, step by step.                                               *)

LEMMA HowFacts ==
    ASSUME how \in HowShapes
    PROVE  /\ how.profile \in {"strict", "baseline", "bridge", "proxy", "supervisor"}
           /\ how.files \in BOOLEAN /\ how.network \in BOOLEAN /\ how.debug \in BOOLEAN
BY SeccompConstants

LEMMA ProgramNames ==
    ASSUME NEW profile \in {"strict", "baseline", "bridge", "proxy", "supervisor"}
    PROVE  /\ Programs(profile) \in Seq(FilterNames) /\ Len(Programs(profile)) \in Nat \ {0}
           /\ profile \in Sandboxes => Programs(profile) \in Seq(WrapperNames \ {"notify"})
           /\ profile \notin Sandboxes => Len(Programs(profile)) = 2 /\ Programs(profile)[1] = "clone3"
<1>1. CASE profile = "strict"
    BY SMT, <1>1 DEF Programs, Sandboxes, FilterNames, WrapperNames, SandboxNames
<1>2. CASE profile = "baseline"
    BY SMT, <1>2 DEF Programs, Sandboxes, FilterNames, WrapperNames, SandboxNames
<1>3. CASE profile = "bridge"
    BY SMT, <1>3 DEF Programs, Sandboxes, FilterNames
<1>4. CASE profile = "proxy"
    BY SMT, <1>4 DEF Programs, Sandboxes, FilterNames
<1>5. CASE profile = "supervisor"
    BY SMT, <1>5 DEF Programs, Sandboxes, FilterNames
<1> QED BY <1>1, <1>2, <1>3, <1>4, <1>5

LEMMA StackInit == SeccompInit => StackInv
<1> SUFFICES ASSUME SeccompInit PROVE StackInv
    OBVIOUS
<1>1. how \in HowShapes /\ Len(Programs(how.profile)) > 0
    BY SMT, HowFacts, ProgramNames DEF SeccompInit
<1>2. /\ First \in Procs /\ phase \in [Procs -> Phases] /\ stack \in [Procs -> Seq(FilterNames)]
      /\ \A p \in Procs : stack[p] = <<>> /\ phase[p] = IF p = First THEN "setup" ELSE "none"
    BY SMT, SeccompConstants DEF SeccompInit, Phases
<1>3. stack[First] = <<>> /\ Len(stack[First]) = 0 /\ DOMAIN stack[First] = {} /\ phase[First] = "setup"
    BY SMT, <1>2
<1> QED BY <1>1, <1>2, <1>3 DEF StackInv, SeccompInit

LEMMA StackApply == StackInv /\ ApplyFilter => StackInv'
<1> SUFFICES ASSUME StackInv, ApplyFilter PROVE StackInv'
    OBVIOUS
<1> DEFINE P == Programs(how.profile)
           s == stack[First]
           n == Len(s) + 1
<1>0. /\ First \in Procs /\ how' = how /\ how \in HowShapes /\ listener' = listener
      /\ phase[First] = "setup" /\ listener = "none" /\ \A p \in Procs : p # First => phase[p] = "none"
      /\ phase \in [Procs -> Phases] /\ stack \in [Procs -> Seq(FilterNames)]
      /\ \A p \in Procs : phase[p] = "none" => stack[p] = <<>>
    BY SeccompConstants DEF StackInv, ApplyFilter, Own
<1>1. /\ P \in Seq(FilterNames) /\ Len(P) \in Nat /\ s \in Seq(FilterNames) /\ Len(s) < Len(P)
      /\ \A i \in 1..Len(s) : s[i] = P[i]
      /\ how.profile \in Sandboxes => P \in Seq(WrapperNames \ {"notify"})
    BY SMT, <1>0, HowFacts, ProgramNames DEF StackInv
<1>2. n \in 1..Len(P) /\ P[n] \in FilterNames
    BY SMT, <1>1
<1>3. CASE stack' = [stack EXCEPT ![First] = Append(@, P[n])]
           /\ Enter(First, CASE n < Len(P) -> "setup"
                             [] n = Len(P) /\ how.profile \in Sandboxes -> "audit"
                             [] OTHER -> "serving")
    <2>1. /\ stack'[First] = Append(s, P[n]) /\ stack'[First] \in Seq(FilterNames)
          /\ Len(stack'[First]) = n /\ \A i \in 1..n : stack'[First][i] = P[i]
        BY SMT, <1>0, <1>1, <1>2, <1>3
    <2>2. /\ stack' \in [Procs -> Seq(FilterNames)] /\ phase' \in [Procs -> Phases]
          /\ \A p \in Procs : p # First => stack'[p] = <<>> /\ phase'[p] = "none"
          /\ phase'[First] = CASE n < Len(P) -> "setup"
                               [] n = Len(P) /\ how.profile \in Sandboxes -> "audit"
                               [] OTHER -> "serving"
        BY <1>0, <1>3, <2>1 DEF Enter, Phases
    <2>3. DOMAIN stack'[First] = 1..n
        BY SMT, <2>1
    <2> HIDE DEF P
    <2>4. CASE n < Len(P)
        <3>1. phase'[First] = "setup"
            BY SMT, <2>2, <2>4
        <3> QED BY <1>0, <2>1, <2>2, <2>3, <2>4, <3>1 DEF StackInv, P
    <2>5. CASE n = Len(P) /\ how.profile \in Sandboxes
        <3>1. phase'[First] = "audit"
            BY SMT, <2>2, <2>5
        <3>2. Under(First)'
            BY SMT, <1>0, <2>1, <2>5 DEF Under, P
        <3>3. Uses(First, WrapperNames \ {"notify"})'
            <4>1. \A i \in 1..Len(P) : P[i] \in WrapperNames \ {"notify"}
                BY SMT, <1>1, <2>5
            <4> QED BY <4>1, <2>1, <2>3, <2>5 DEF Uses
        <3>4. Uses(First, WrapperNames)'
            BY <3>3 DEF Uses
        <3> QED BY <1>0, <2>2, <2>5, <3>1, <3>2, <3>3, <3>4 DEF StackInv
    <2>6. CASE n = Len(P) /\ how.profile \notin Sandboxes
        <3>1. phase'[First] = "serving"
            BY SMT, <2>2, <2>6
        <3>2. stack'[First] = P
            BY SMT, <1>1, <2>1, <2>6
        <3> QED BY <1>0, <2>2, <2>6, <3>1, <3>2 DEF StackInv, P
    <2> QED BY SMT, <1>2, <2>4, <2>5, <2>6
<1>4. CASE Enter(First, "exited") /\ UNCHANGED stack
    <2>1. phase' \in [Procs -> Phases] /\ phase'[First] = "exited"
          /\ \A p \in Procs : p # First => phase'[p] = "none"
        BY <1>0, <1>4 DEF Enter, Phases
    <2> QED BY <1>0, <1>4, <2>1 DEF StackInv
<1> QED BY <1>3, <1>4 DEF ApplyFilter

WrapperCalls == InstallCalls \cup {Bare(nr) : nr \in {"openat", "read", "close", "fcntl",
                                                      "write", "prlimit64", "execve"}}

(* The wrapper's own calls are held where the audit filter holds them, and *)
(* pass otherwise.                                                         *)
LEMMA WrapperVerdict ==
    ASSUME StackInv, phase[First] = "audit", NEW call \in WrapperCalls
    PROVE  Outcome(First, call) = IF /\ how.files /\ call.nr \in {"openat", "execve"}
                                     /\ ~Uses(First, WrapperNames \ {"notify"})
                                  THEN "NOTIFY" ELSE "ALLOW"
<1> DEFINE s == stack[First]
           H == how.files /\ call.nr \in {"openat", "execve"}
<1>1. s \in Seq(FilterNames) /\ \A i \in DOMAIN s : s[i] \in WrapperNames
    BY SeccompConstants DEF StackInv, Uses
<1>2. ASSUME NEW i \in DOMAIN s
      PROVE  Says(s[i], how, call) = IF s[i] = "notify" /\ H THEN "NOTIFY" ELSE "ALLOW"
    <2>1. s[i] \in WrapperNames
        BY <1>1
    <2> QED BY SMT, <2>1, WrapperPasses DEF WrapperCalls, WrapperNames
<1>3. Uses(First, WrapperNames \ {"notify"}) <=> \A i \in DOMAIN s : s[i] # "notify"
    BY <1>1 DEF Uses
<1>4. CASE ~H \/ \A i \in DOMAIN s : s[i] # "notify"
    <2>1. \A i \in DOMAIN s : Answer(FilterOf(s[i], how), call) = "ALLOW"
        BY <1>2, <1>4 DEF Says
    <2>2. Verdict(s, how, call) = "ALLOW"
        BY <1>1, <2>1, VerdictAllow
    <2> QED BY <1>3, <1>4, <2>2 DEF Outcome
<1>5. CASE H /\ \E i \in DOMAIN s : s[i] = "notify"
    <2>1. PICK i \in DOMAIN s : s[i] = "notify"
        BY <1>5
    <2>2. s # <<>>
        BY SMT, <2>1
    <2>3. Says(s[i], how, call) = "NOTIFY"
        BY <1>2, <1>5, <2>1
    <2>4. /\ \E j \in DOMAIN s : Verdict(s, how, call) = Says(s[j], how, call)
          /\ Severity(Says(s[i], how, call)) <= Severity(Verdict(s, how, call))
        BY <1>1, <2>2, VerdictIs DEF Says
    <2>5. Verdict(s, how, call) \in {"ALLOW", "NOTIFY"}
        BY <1>2, <2>4
    <2>6. Severity("NOTIFY") = 1 /\ Severity("ALLOW") = 0
        BY DEF Severity
    <2>7. Verdict(s, how, call) = "NOTIFY"
        BY SMT, <2>3, <2>4, <2>5, <2>6
    <2> QED BY <1>3, <1>5, <2>7 DEF Outcome
<1> QED BY <1>4, <1>5

LEMMA StackNotify == StackInv /\ InstallNotify => StackInv'
<1> SUFFICES ASSUME StackInv, InstallNotify PROVE StackInv'
    OBVIOUS
<1>0. /\ First \in Procs /\ how' = how /\ phase' = phase /\ phase[First] = "audit" /\ listener = "none"
      /\ how \in HowShapes /\ phase \in [Procs -> Phases] /\ stack \in [Procs -> Seq(FilterNames)]
      /\ \A p \in Procs : p # First => phase[p] = "none" /\ stack[p] = <<>>
      /\ how.profile \in Sandboxes /\ Under(First) /\ Uses(First, WrapperNames \ {"notify"})
    BY SeccompConstants DEF StackInv, InstallNotify, Own
<1>1. CASE stack' = [stack EXCEPT ![First] = Append(@, "notify")] /\ listener' = "here"
    <2>1. /\ "notify" \in FilterNames /\ "notify" \in WrapperNames
        BY DEF FilterNames, SandboxNames, WrapperNames
    <2>2. /\ stack'[First] = Append(stack[First], "notify") /\ stack[First] \in Seq(FilterNames)
          /\ stack' \in [Procs -> Seq(FilterNames)]
          /\ \A p \in Procs : p # First => stack'[p] = stack[p]
        BY SMT, <1>0, <1>1, <2>1
    <2>3. /\ Len(stack'[First]) = Len(stack[First]) + 1 /\ Len(stack[First]) \in Nat
          /\ \A i \in 1..Len(stack[First]) : stack'[First][i] = stack[First][i]
          /\ stack'[First][Len(stack[First]) + 1] = "notify"
          /\ DOMAIN stack'[First] = 1..(Len(stack[First]) + 1)
          /\ DOMAIN stack[First] = 1..Len(stack[First])
        BY SMT, <2>2
    <2>4. Len(Programs(how.profile)) \in Nat
        BY <1>0, HowFacts, ProgramNames
    <2>5. Under(First)'
        <3>1. Len(Programs(how.profile)) <= Len(stack[First])
            BY <1>0 DEF Under
        <3>2. ASSUME NEW i \in 1..Len(Programs(how.profile))
              PROVE  stack'[First][i] = Programs(how.profile)[i]
            <4>1. i \in 1..Len(stack[First])
                BY SMT, <2>3, <2>4, <3>1
            <4>2. stack[First][i] = Programs(how.profile)[i]
                BY <1>0 DEF Under
            <4> QED BY <2>3, <4>1, <4>2
        <3>3. Len(Programs(how.profile)) <= Len(stack'[First])
            BY SMT, <2>3, <2>4, <3>1
        <3> QED BY <1>0, <3>2, <3>3 DEF Under
    <2>6. Uses(First, WrapperNames)' /\ ~Uses(First, WrapperNames \ {"notify"})'
        <3>1. \A i \in 1..Len(stack[First]) : stack[First][i] \in WrapperNames
            BY <1>0, <2>3 DEF Uses
        <3>2. \A i \in 1..(Len(stack[First]) + 1) : stack'[First][i] \in WrapperNames
            <4> TAKE i \in 1..(Len(stack[First]) + 1)
            <4>1. i \in 1..Len(stack[First]) \/ i = Len(stack[First]) + 1
                BY SMT, <2>3
            <4> QED BY <2>1, <2>3, <3>1, <4>1
        <3>3. Uses(First, WrapperNames)'
            BY <2>3, <3>2 DEF Uses
        <3>4. Len(stack[First]) + 1 \in DOMAIN stack'[First]
            BY SMT, <2>3
        <3>5. ~Uses(First, WrapperNames \ {"notify"})'
            BY <2>3, <3>4 DEF Uses
        <3> QED BY <3>3, <3>5
    <2> QED BY <1>0, <1>1, <2>2, <2>5, <2>6 DEF StackInv
<1>2. CASE listener' = "failed" /\ UNCHANGED stack
    BY <1>0, <1>2 DEF StackInv, Under, Uses
<1> QED BY <1>1, <1>2 DEF InstallNotify

LEMMA StackListener == StackInv /\ (SendListener \/ TakeListener) => StackInv'
<1> SUFFICES ASSUME StackInv, SendListener \/ TakeListener PROVE StackInv'
    OBVIOUS
<1>0. /\ First \in Procs /\ how' = how /\ stack' = stack /\ phase[First] = "audit"
      /\ listener \in {"here", "sent"}
    BY SeccompConstants DEF StackInv, SendListener, TakeListener, Own
<1>1. CASE phase' = phase /\ listener' \in {"sent", "held"}
    BY <1>0, <1>1 DEF StackInv, Under, Uses
<1>2. CASE Enter(First, "exited") /\ listener' = listener
    <2>1. phase' \in [Procs -> Phases] /\ phase'[First] = "exited"
          /\ \A p \in Procs : p # First => phase'[p] = phase[p]
        BY <1>0, <1>2 DEF Enter, Phases, StackInv
    <2> QED BY <1>0, <1>2, <2>1 DEF StackInv, Under, Uses
<1> QED BY <1>1, <1>2 DEF SendListener, TakeListener

LEMMA StackExec == StackInv /\ Exec => StackInv'
<1> SUFFICES ASSUME StackInv, Exec PROVE StackInv'
    OBVIOUS
<1>0. /\ First \in Procs /\ how' = how /\ stack' = stack /\ phase[First] = "audit"
      /\ how \in HowShapes /\ phase \in [Procs -> Phases] /\ stack \in [Procs -> Seq(FilterNames)]
      /\ \A p \in Procs : p # First => phase[p] = "none" /\ stack[p] = <<>>
      /\ how.profile \in Sandboxes /\ Under(First) /\ Uses(First, WrapperNames)
    BY SeccompConstants DEF StackInv, Exec, Own
<1>1. /\ phase' \in [Procs -> Phases] /\ phase'[First] = "program"
      /\ \A p \in Procs : p # First => phase'[p] = "none"
    BY <1>0 DEF Exec, Enter, Phases
<1>2. Uses(First, SandboxNames)
    BY <1>0 DEF Uses, WrapperNames
<1>3. Bare("execve") \in WrapperCalls /\ Bare("execve").nr = "execve"
    BY DEF WrapperCalls, Bare
<1>4. how.files => listener \in {"held", "failed"}
    <2>1. how.files => listener \in {"sent", "held", "failed"}
        BY DEF Exec, Audited
    <2>2. ASSUME how.files, listener = "sent" PROVE FALSE
        <3>1. ~Uses(First, WrapperNames \ {"notify"})
            BY <1>0, <2>2 DEF StackInv
        <3>2. Outcome(First, Bare("execve")) = "NOTIFY"
            BY <1>0, <1>3, <2>2, <3>1, WrapperVerdict
        <3> QED BY <2>2, <3>2 DEF Exec
    <2> QED BY <2>1, <2>2
<1>5. how.files => listener' \in {"held", "failed"}
    BY <1>4 DEF Exec
<1>6. Under(First)' /\ Uses(First, SandboxNames)'
    BY <1>0, <1>2 DEF Under, Uses
<1> QED BY <1>0, <1>1, <1>5, <1>6 DEF StackInv

LEMMA StackTry == ASSUME StackInv, NEW p \in Procs, Try(p) PROVE StackInv'
<1>1. /\ First \in Procs /\ how' = how /\ stack' = stack /\ listener' = listener
      /\ phase[p] = "program" /\ \E to \in {"killed", "program"} : phase' = [phase EXCEPT ![p] = to]
    BY SeccompConstants DEF Try, Enter
<1>2. /\ phase' \in [Procs -> Phases] /\ phase'[p] \in {"killed", "program"}
      /\ \A q \in Procs : q # p => phase'[q] = phase[q]
    BY <1>1 DEF StackInv, Phases
<1>3. phase[First] \notin {"setup", "audit", "serving"}
    BY <1>1 DEF StackInv
<1>4. phase'[First] \notin {"setup", "audit", "serving", "none"}
    BY <1>1, <1>2, <1>3 DEF StackInv
<1> QED BY SMT, <1>1, <1>2, <1>4 DEF StackInv, Under, Uses

LEMMA StackTighten == ASSUME StackInv, NEW p \in Procs, Tighten(p) PROVE StackInv'
<1>1. PICK f \in {"own", "errno"} : stack' = [stack EXCEPT ![p] = Append(@, f)]
    BY DEF Tighten
<1>2. /\ First \in Procs /\ how' = how /\ phase' = phase /\ listener' = listener
      /\ phase[p] = "program" /\ how \in HowShapes /\ stack[p] \in Seq(FilterNames)
      /\ Under(p) /\ Uses(p, SandboxNames)
    BY SeccompConstants DEF Tighten, StackInv
<1>3. f \in SandboxNames /\ f \in FilterNames
    BY DEF SandboxNames, FilterNames
<1> DEFINE s == stack[p]
<1>4. /\ stack' \in [Procs -> Seq(FilterNames)] /\ stack'[p] = Append(s, f)
      /\ \A q \in Procs : q # p => stack'[q] = stack[q]
    BY SMT, <1>1, <1>2, <1>3 DEF StackInv
<1>5. /\ Len(stack'[p]) = Len(s) + 1 /\ Len(s) \in Nat
      /\ \A i \in 1..Len(s) : stack'[p][i] = s[i]
      /\ stack'[p][Len(s) + 1] = f
      /\ DOMAIN stack'[p] = 1..(Len(s) + 1) /\ DOMAIN s = 1..Len(s)
    BY SMT, <1>2, <1>4
<1>6. Len(Programs(how.profile)) \in Nat
    BY <1>2, HowFacts, ProgramNames
<1>7. Under(p)'
    <2>1. Len(Programs(how.profile)) <= Len(s)
        BY <1>2 DEF Under
    <2>2. ASSUME NEW i \in 1..Len(Programs(how.profile))
          PROVE  stack'[p][i] = Programs(how.profile)[i]
        <3>1. i \in 1..Len(s)
            BY SMT, <1>5, <1>6, <2>1
        <3>2. s[i] = Programs(how.profile)[i]
            BY <1>2 DEF Under
        <3> QED BY <1>5, <3>1, <3>2
    <2>3. Len(Programs(how.profile)) <= Len(stack'[p])
        BY SMT, <1>5, <1>6, <2>1
    <2> QED BY <1>2, <2>2, <2>3 DEF Under
<1>8. Uses(p, SandboxNames)'
    <2>1. \A i \in 1..Len(s) : s[i] \in SandboxNames
        BY <1>2, <1>5 DEF Uses
    <2>2. ASSUME NEW i \in 1..(Len(s) + 1) PROVE stack'[p][i] \in SandboxNames
        <3>1. i \in 1..Len(s) \/ i = Len(s) + 1
            BY SMT, <1>5
        <3> QED BY <1>3, <1>5, <2>1, <3>1
    <2> QED BY <1>5, <2>2 DEF Uses
<1>9. phase[First] \notin {"setup", "audit", "serving"}
    BY <1>2 DEF StackInv
<1>10. \A q \in Procs : q # p => (Under(q)' <=> Under(q)) /\ (Uses(q, SandboxNames)' <=> Uses(q, SandboxNames))
    BY <1>2, <1>4 DEF Under, Uses
<1> HIDE DEF s
<1> QED BY <1>2, <1>4, <1>7, <1>8, <1>9, <1>10 DEF StackInv

LEMMA StackFork == ASSUME StackInv, NEW p \in Procs, Fork(p) PROVE StackInv'
<1>1. PICK q \in Procs : /\ phase[q] = "none" /\ phase' = [phase EXCEPT ![q] = "program"]
                         /\ stack' = [stack EXCEPT ![q] = stack[p]]
    BY DEF Fork, Enter
<1>2. /\ First \in Procs /\ how' = how /\ listener' = listener /\ q # First /\ q # p
      /\ phase[p] = "program" /\ how \in HowShapes /\ stack[p] \in Seq(FilterNames)
      /\ how.profile \in Sandboxes /\ Under(p) /\ Uses(p, SandboxNames)
      /\ how.files => listener \in {"held", "failed"}
    BY <1>1, SeccompConstants DEF Fork, StackInv
<1>3. /\ phase' \in [Procs -> Phases] /\ stack' \in [Procs -> Seq(FilterNames)]
      /\ phase'[q] = "program" /\ stack'[q] = stack[p]
      /\ \A r \in Procs : r # q => phase'[r] = phase[r] /\ stack'[r] = stack[r]
    BY <1>1, <1>2 DEF StackInv, Phases
<1>4. Under(q)' /\ Uses(q, SandboxNames)'
    BY <1>2, <1>3 DEF Under, Uses
<1>5. phase[First] \notin {"setup", "audit", "serving"}
    BY <1>2 DEF StackInv
<1>6. \A r \in Procs : r # q => (Under(r)' <=> Under(r)) /\ (Uses(r, SandboxNames)' <=> Uses(r, SandboxNames))
    BY <1>2, <1>3 DEF Under, Uses
<1> QED BY <1>2, <1>3, <1>4, <1>5, <1>6 DEF StackInv

LEMMA StackSame ==
    ASSUME StackInv, UNCHANGED <<how, phase, stack, listener>>
    PROVE  StackInv'
BY DEF StackInv, Under, Uses

LEMMA StackNext == StackInv /\ [SeccompNext]_seccompVars => StackInv'
<1> SUFFICES ASSUME StackInv, [SeccompNext]_seccompVars PROVE StackInv'
    OBVIOUS
<1>1. CASE UNCHANGED seccompVars
    BY <1>1, StackSame DEF seccompVars, procVars
<1>2. ASSUME NEW t \in Threads, Trap(t) \/ Handler(t) PROVE StackInv'
    BY <1>2, StackSame DEF Trap, Handler, HandlerEnter, HandlerMark, HandlerPrint, HandlerLeave, procVars
<1>3. ASSUME NEW p \in Procs, Try(p) \/ Tighten(p) \/ Fork(p) PROVE StackInv'
    BY <1>3, StackTry, StackTighten, StackFork
<1>4. CASE Setup
    BY <1>4, StackApply, StackNotify, StackListener, StackExec DEF Setup
<1>5. SeccompNext \/ UNCHANGED seccompVars
    OBVIOUS
<1> QED BY <1>1, <1>2, <1>3, <1>4, <1>5 DEF SeccompNext

LEMMA StackHolds == SeccompSpec => []StackInv
BY StackInit, StackNext, PTL DEF SeccompSpec

-----------------------------------------------------------------------------
(* What a program under a profile can do.                                  *)

LEMMA Degree ==
    /\ Severity("ALLOW") = 0 /\ Severity("NOTIFY") = 1 /\ Severity("EPERM") = 2
    /\ Severity("ENOSYS") = 2 /\ Severity("TRAP") = 3 /\ Severity("KILL") = 4
BY DEF Severity

(* Every call of Escapes is answered by one filter of the profile.         *)
LEMMA EscapesAnswered ==
    ASSUME how.profile \in Sandboxes, NEW call, Escapes(call)
    PROVE  \E i \in 1..Len(Programs(how.profile)) :
              Severity(Says(Programs(how.profile)[i], how, call)) >= 2
<1> DEFINE K == {"unshare", "setns", "mount", "pivot_root", "chroot", "ptrace",
                 "process_vm_writev", "init_module", "bpf"}
<1>1. \/ call.nr \in {"clone3", "io_uring_setup"} \/ call.nr \in K
      \/ BadArgs(call) \/ BadClone(call)
      \/ /\ how.profile = "strict"
         /\ \/ call.nr = "socket" /\ call.arg \cap {"AF_INET", "AF_INET6"} # {}
            \/ call.nr \in tier2_eperm_syscalls
    BY DEF Escapes, BadArgs, BadClone, tier2_eperm_syscalls
<1>2. K \subseteq tier1_kill_syscalls /\ K \subseteq baseline_kill_syscalls
    BY SMT DEF tier1_kill_syscalls, baseline_kill_syscalls
<1> HIDE DEF K
<1>3. CASE how.profile = "strict"
    <2>1. Programs(how.profile) = <<"enosys", "eperm", "kill">>
        BY <1>3 DEF Programs
    <2>2. \/ Says("enosys", how, call) = "ENOSYS" \/ Says("eperm", how, call) = "EPERM"
          \/ Says("kill", how, call) = "KILL"
        BY <1>1, <1>2, EnosysSays, StrictSays
    <2>3. \/ Severity(Says("enosys", how, call)) >= 2 \/ Severity(Says("eperm", how, call)) >= 2
          \/ Severity(Says("kill", how, call)) >= 2
        BY SMT, <2>2, Degree
    <2>4. /\ Len(<<"enosys", "eperm", "kill">>) = 3 /\ <<"enosys", "eperm", "kill">>[1] = "enosys"
          /\ <<"enosys", "eperm", "kill">>[2] = "eperm" /\ <<"enosys", "eperm", "kill">>[3] = "kill"
        OBVIOUS
    <2>5. 1 \in 1..3 /\ 2 \in 1..3 /\ 3 \in 1..3
        BY SMT
    <2> QED BY <2>1, <2>3, <2>4, <2>5
<1>4. CASE how.profile = "baseline"
    <2> DEFINE Q == <<"enosys", "clone", "beperm", "bkill">>
    <2>1. Programs(how.profile) = Q
        BY <1>4 DEF Programs
    <2>2. \/ Says("enosys", how, call) = "ENOSYS" \/ Says("clone", how, call) = "EPERM"
          \/ Says("beperm", how, call) = "EPERM" \/ Says("bkill", how, call) = "KILL"
        BY <1>1, <1>2, <1>4, EnosysSays, BaselineSays
    <2>3. \/ Severity(Says("enosys", how, call)) >= 2 \/ Severity(Says("clone", how, call)) >= 2
          \/ Severity(Says("beperm", how, call)) >= 2 \/ Severity(Says("bkill", how, call)) >= 2
        BY SMT, <2>2, Degree
    <2>4. Len(Q) = 4 /\ Q[1] = "enosys" /\ Q[2] = "clone" /\ Q[3] = "beperm" /\ Q[4] = "bkill"
        OBVIOUS
    <2>5. 1 \in 1..4 /\ 2 \in 1..4 /\ 3 \in 1..4 /\ 4 \in 1..4
        BY SMT
    <2> HIDE DEF Q
    <2> QED BY <2>1, <2>3, <2>4, <2>5
<1> QED BY <1>3, <1>4 DEF Sandboxes

(* The filters of a profile never give one call two different errors.      *)
LEMMA NoOverlap ==
    ASSUME how.profile \in Sandboxes, NEW call
    PROVE  ~({"EPERM", "ENOSYS"} \subseteq Answers(Programs(how.profile), how, call))
<1> DEFINE E == {"clone3", "io_uring_setup", "io_uring_enter", "io_uring_register"}
           P == Programs(how.profile)
<1> SUFFICES ASSUME NEW i \in DOMAIN P, NEW j \in DOMAIN P,
                    Says(P[i], how, call) = "EPERM", Says(P[j], how, call) = "ENOSYS"
             PROVE  FALSE
    BY DEF Answers, Says
<1>1. /\ P[i] \in {"enosys", "eperm", "kill", "clone", "beperm", "bkill"}
      /\ P[j] \in {"enosys", "eperm", "kill", "clone", "beperm", "bkill"}
    BY SMT DEF Programs, Sandboxes
<1> HIDE DEF P
<1>2. call.nr \in E
    BY <1>1, EnosysSays, StrictSays, BaselineSays
<1>3. ~BadArgs(call) /\ ~BadClone(call) /\ call.nr \notin tier2_eperm_syscalls \cup {"tkill"}
      /\ call.nr \notin {"socket", "perf_event_open"}
    BY <1>2 DEF BadArgs, BadClone, tier2_eperm_syscalls
<1> QED BY <1>1, <1>3, EnosysSays, StrictSays, BaselineSays

LEMMA ProgramStack ==
    ASSUME StackInv, NEW p \in Procs, phase[p] = "program"
    PROVE  /\ stack[p] \in Seq(FilterNames) /\ stack[p] # <<>> /\ Uses(p, SandboxNames)
           /\ how.profile \in Sandboxes /\ Under(p)
           /\ DOMAIN stack[p] = 1..Len(stack[p]) /\ 1 \in DOMAIN stack[p] /\ stack[p][1] = "enosys"
           /\ 1..Len(Programs(how.profile)) \subseteq DOMAIN stack[p]
<1>1. /\ stack[p] \in Seq(FilterNames) /\ Uses(p, SandboxNames) /\ how.profile \in Sandboxes
      /\ Under(p) /\ how \in HowShapes
    BY DEF StackInv
<1>2. Len(Programs(how.profile)) \in Nat \ {0} /\ Len(Programs(how.profile)) <= Len(stack[p])
    BY <1>1, HowFacts, ProgramNames DEF Under
<1>3. Programs(how.profile)[1] = "enosys"
    BY <1>1 DEF Sandboxes, Programs
<1>4. DOMAIN stack[p] = 1..Len(stack[p]) /\ Len(stack[p]) \in Nat
    BY SMT, <1>1
<1>5. 1 \in DOMAIN stack[p] /\ 1 \in 1..Len(Programs(how.profile))
      /\ 1..Len(Programs(how.profile)) \subseteq DOMAIN stack[p]
    BY SMT, <1>2, <1>4
<1>6. stack[p][1] = "enosys"
    BY <1>1, <1>3, <1>5 DEF Under
<1>7. stack[p] # <<>>
    BY SMT, <1>5
<1> QED BY <1>1, <1>4, <1>5, <1>6, <1>7

LEMMA EscapesStopped ==
    ASSUME StackInv, NEW p \in Procs, phase[p] = "program", NEW call, Escapes(call)
    PROVE  Severity(Outcome(p, call)) >= Severity("EPERM")
<1>1. PICK i \in 1..Len(Programs(how.profile)) :
         Severity(Says(Programs(how.profile)[i], how, call)) >= 2
    BY ProgramStack, EscapesAnswered
<1>2. i \in DOMAIN stack[p] /\ stack[p][i] = Programs(how.profile)[i]
    BY ProgramStack DEF Under
<1>3. /\ stack[p] \in Seq(FilterNames) /\ stack[p] # <<>>
    BY ProgramStack
<1>4. Severity(Says(stack[p][i], how, call)) <= Severity(Outcome(p, call))
    BY <1>2, <1>3, VerdictIs DEF Says, Outcome
<1>5. Severity(Says(stack[p][i], how, call)) \in 0..4 /\ Severity(Outcome(p, call)) \in 0..4
    BY Degrees
<1> QED BY SMT, <1>1, <1>2, <1>4, <1>5, Degree

LEMMA Fallbacks ==
    ASSUME StackInv, NEW p \in Procs, phase[p] = "program"
    PROVE  /\ \A nr \in {"clone3", "io_uring_setup"} : Outcome(p, Bare(nr)) \in {"ENOSYS", "EPERM"}
           /\ (\A i \in DOMAIN stack[p] : stack[p][i] # "errno")
                 => Outcome(p, Bare("clone3")) = "ENOSYS"
           /\ Outcome(p, With("clone", {"thread"})) = "ALLOW"
           /\ Outcome(p, With("socket", {"AF_UNIX"})) = "ALLOW"
<1> DEFINE s == stack[p]
<1>1. /\ s \in Seq(FilterNames) /\ s # <<>> /\ 1 \in DOMAIN s /\ s[1] = "enosys"
      /\ \A i \in DOMAIN s : s[i] \in SandboxNames
    BY ProgramStack DEF Uses
<1> HIDE DEF s
<1>2. ASSUME NEW nr \in {"clone3", "io_uring_setup"}
      PROVE  /\ Verdict(s, how, Bare(nr)) \in {"ENOSYS", "EPERM"}
             /\ (\A i \in DOMAIN s : s[i] # "errno") => Verdict(s, how, Bare(nr)) = "ENOSYS"
    <2>1. PICK j \in DOMAIN s : Verdict(s, how, Bare(nr)) = Says(s[j], how, Bare(nr))
        BY <1>1, VerdictIs DEF Says
    <2>2. s[j] \in SandboxNames
        BY <1>1
    <2>3. Says(s[j], how, Bare(nr)) =
             IF s[j] = "enosys" THEN "ENOSYS"
             ELSE IF s[j] = "errno" /\ nr = "clone3" THEN "EPERM" ELSE "ALLOW"
        BY <2>2, FallbackPasses
    <2>4. Says(s[1], how, Bare(nr)) = "ENOSYS"
        <3>1. "enosys" \in SandboxNames
            BY DEF SandboxNames
        <3>2. Says("enosys", how, Bare(nr)) = "ENOSYS"
            BY <3>1, FallbackPasses
        <3> QED BY <1>1, <3>2
    <2>5. Severity(Says(s[1], how, Bare(nr))) <= Severity(Verdict(s, how, Bare(nr)))
        BY <1>1, VerdictIs DEF Says
    <2>6. 2 <= Severity(Verdict(s, how, Bare(nr)))
        BY <2>4, <2>5, Degree
    <2>7. Verdict(s, how, Bare(nr)) # "ALLOW"
        BY SMT, <2>6, Degree
    <2> QED BY <2>1, <2>3, <2>7
<1>3. ASSUME NEW call \in {With("clone", {"thread"}), With("socket", {"AF_UNIX"})}
      PROVE  Verdict(s, how, call) = "ALLOW"
    <2>1. ASSUME NEW i \in DOMAIN s PROVE Answer(FilterOf(s[i], how), call) = "ALLOW"
        <3>1. s[i] \in SandboxNames
            BY <1>1
        <3> QED BY SMT, <1>3, <3>1, FallbackPasses DEF Says
    <2> QED BY <1>1, <2>1, VerdictAllow
<1> QED BY <1>2, <1>3 DEF Outcome, s

LastInv == Escapes(last.call) => Severity(last.out) >= Severity("EPERM")

LEMMA LastInit == SeccompInit => LastInv
<1> SUFFICES ASSUME SeccompInit, Escapes(last.call) PROVE FALSE
    BY DEF LastInv
<1>1. last.call.nr = "none"
    BY DEF SeccompInit, Bare
<1> QED BY <1>1 DEF Escapes

LEMMA LastNext == StackInv /\ LastInv /\ [SeccompNext]_seccompVars => LastInv'
<1> SUFFICES ASSUME StackInv, LastInv, [SeccompNext]_seccompVars PROVE LastInv'
    OBVIOUS
<1>1. CASE UNCHANGED <<how, last>>
    BY <1>1 DEF LastInv, Escapes
<1>2. ASSUME NEW p \in Procs, Try(p) PROVE LastInv'
    <2>1. PICK call \in Calls : last' = [call |-> call, out |-> Outcome(p, call)]
        BY <1>2 DEF Try
    <2>2. phase[p] = "program" /\ how' = how
        BY <1>2 DEF Try
    <2>3. last'.call = call /\ last'.out = Outcome(p, call)
        BY <2>1
    <2>4. Escapes(call) => Severity(Outcome(p, call)) >= Severity("EPERM")
        BY <2>2, EscapesStopped
    <2>5. Escapes(last.call)' <=> Escapes(call)
        BY <2>2, <2>3 DEF Escapes
    <2> QED BY <2>3, <2>4, <2>5 DEF LastInv
<1>3. ASSUME NEW p \in Procs, Tighten(p) \/ Fork(p) PROVE UNCHANGED <<how, last>>
    BY <1>3 DEF Tighten, Fork
<1>4. ASSUME NEW t \in Threads, Trap(t) \/ Handler(t) PROVE UNCHANGED <<how, last>>
    BY <1>4 DEF Trap, Handler, HandlerEnter, HandlerMark, HandlerPrint, HandlerLeave, procVars
<1>5. CASE Setup
    BY <1>1, <1>5 DEF Setup, ApplyFilter, InstallNotify, SendListener, TakeListener, Exec
<1>6. CASE UNCHANGED seccompVars
    BY <1>1, <1>6 DEF seccompVars, procVars
<1> QED BY <1>1, <1>2, <1>3, <1>4, <1>5, <1>6 DEF SeccompNext

LEMMA ConfinedImplied == StackInv /\ LastInv => ProgramConfined
<1> SUFFICES ASSUME StackInv, LastInv PROVE ProgramConfined
    OBVIOUS
<1>1. ASSUME NEW p \in Procs, phase[p] = "program"
      PROVE  /\ Len(Programs(how.profile)) <= Len(stack[p])
             /\ \A i \in 1..Len(Programs(how.profile)) : stack[p][i] = Programs(how.profile)[i]
             /\ how.files => listener \in {"held", "failed"}
    BY <1>1 DEF StackInv, Under
<1>2. ASSUME NEW p \in Procs, phase[p] = "program", NEW call \in Calls
      PROVE  ~({"EPERM", "ENOSYS"} \subseteq Answers(Programs(how.profile), how, call))
    BY <1>2, ProgramStack, NoOverlap
<1> QED BY <1>1, <1>2, Fallbacks DEF ProgramConfined, LastInv

(* Whatever the program calls, installs or forks, it and its descendants   *)
(* run under every filter of the profile; no call that would let it out    *)
(* takes effect; what runtimes probe and fall back on stays as meant.      *)
THEOREM ConfinementHolds == SeccompSpec => []ProgramConfined
BY StackHolds, LastInit, LastNext, ConfinedImplied, PTL DEF SeccompSpec

-----------------------------------------------------------------------------
(* The SIGSYS handlers.                                                    *)

LEMMA ThreadFields ==
    ASSUME NEW q \in ThreadShapes
    PROVE  /\ \A pc \in {"run", "enter", "mark", "print", "leave"} : [q EXCEPT !.pc = pc] \in ThreadShapes
           /\ q.nr \in Unlisted \cup {"none"} /\ q.traps \in Int
<1>1. \A pc \in {"run", "enter", "mark", "print", "leave"} : [q EXCEPT !.pc = pc] \in ThreadShapes
    BY DEF ThreadShapes
<1>2. q.nr \in Unlisted \cup {"none"} /\ q.traps \in Int
    BY DEF ThreadShapes
<1> QED BY <1>1, <1>2

LEMMA HandlerInit == SeccompInit => HandlerInv
<1> SUFFICES ASSUME SeccompInit PROVE HandlerInv
    OBVIOUS
<1>1. th = [t \in Threads |-> [pc |-> "run", nr |-> "none", traps |-> 0]]
    BY DEF SeccompInit
<1>2. [pc |-> "run", nr |-> "none", traps |-> 0] \in ThreadShapes
    BY SMT DEF ThreadShapes
<1>3. th \in [Threads -> ThreadShapes] /\ \A t \in Threads : th[t].pc = "run"
    BY <1>1, <1>2
<1>4. printed \in [Unlisted -> Int] /\ \A nr \in Unlisted : printed[nr] = 0
    BY SMT DEF SeccompInit
<1> QED BY <1>3, <1>4 DEF HandlerInv, Busy

(* A step of thread t to place pc, which leaves the others where they are. *)
LEMMA ThreadMoves ==
    ASSUME HandlerInv, NEW t \in Threads, NEW pc \in {"run", "enter", "mark", "print", "leave"},
           th' = [th EXCEPT ![t].pc = pc]
    PROVE  /\ th' \in [Threads -> ThreadShapes]
           /\ th'[t].pc = pc /\ th'[t].nr = th[t].nr
           /\ \A u \in Threads : u # t => th'[u] = th[u]
<1>1. th \in [Threads -> ThreadShapes] /\ th[t] \in ThreadShapes
    BY DEF HandlerInv
<1>2. [th[t] EXCEPT !.pc = pc] \in ThreadShapes
    BY <1>1, ThreadFields
<1>3. th' = [th EXCEPT ![t] = [th[t] EXCEPT !.pc = pc]]
    OBVIOUS
<1>4. [th[t] EXCEPT !.pc = pc].pc = pc /\ [th[t] EXCEPT !.pc = pc].nr = th[t].nr
    BY <1>1 DEF ThreadShapes
<1> QED BY <1>1, <1>2, <1>3, <1>4

LEMMA HandlerTrap == ASSUME HandlerInv, NEW t \in Threads, Trap(t) PROVE HandlerInv'
<1>1. PICK nr \in Unlisted : th' = [th EXCEPT ![t] = [pc |-> "enter", nr |-> nr, traps |-> th[t].traps + 1]]
    BY DEF Trap
<1>2. /\ UNCHANGED <<how, phase, active, reported, printed>> /\ phase[First] = "serving"
      /\ th[t].pc = "run" /\ th \in [Threads -> ThreadShapes]
    BY DEF Trap, HandlerInv, procVars
<1>3. [pc |-> "enter", nr |-> nr, traps |-> th[t].traps + 1] \in ThreadShapes
    BY SMT, <1>2, ThreadFields DEF ThreadShapes
<1>4. /\ th' \in [Threads -> ThreadShapes] /\ th'[t].pc = "enter" /\ th'[t].nr \in Unlisted
      /\ \A u \in Threads : u # t => th'[u] = th[u]
    BY <1>1, <1>2, <1>3
<1> QED BY <1>2, <1>4 DEF HandlerInv, Busy

LEMMA HandlerKeeps == ASSUME HandlerInv, NEW t \in Threads, Handler(t) PROVE HandlerInv'
<1>0. UNCHANGED <<how, phase>>
    BY DEF Handler, HandlerEnter, HandlerMark, HandlerPrint, HandlerLeave, procVars
<1>1. CASE HandlerEnter(t)
    <2>1. PICK pc \in {"run", "mark"} : /\ th' = [th EXCEPT ![t].pc = pc]
                                        /\ pc = "mark" => ~active
        BY <1>1 DEF HandlerEnter
    <2>2. /\ th[t].pc = "enter" /\ active' /\ UNCHANGED <<reported, printed>>
        BY <1>1 DEF HandlerEnter
    <2>3. /\ th' \in [Threads -> ThreadShapes] /\ th'[t].pc = pc /\ th'[t].nr = th[t].nr
          /\ \A u \in Threads : u # t => th'[u] = th[u]
        BY <2>1, ThreadMoves
    <2> QED BY SMT, <1>0, <2>1, <2>2, <2>3 DEF HandlerInv, Busy
<1>2. CASE HandlerMark(t)
    <2>1. PICK pc \in {"leave", "print"} : /\ th' = [th EXCEPT ![t].pc = pc]
                                           /\ pc = "print" => th[t].nr \notin reported
        BY <1>2 DEF HandlerMark
    <2>2. /\ th[t].pc = "mark" /\ UNCHANGED <<active, printed>>
          /\ reported' = reported \cup ({th[t].nr} \ Beyond)
        BY <1>2 DEF HandlerMark
    <2>3. /\ th' \in [Threads -> ThreadShapes] /\ th'[t].pc = pc /\ th'[t].nr = th[t].nr
          /\ \A u \in Threads : u # t => th'[u] = th[u]
        BY <2>1, ThreadMoves
    <2>4. pc = "print" /\ th[t].nr \notin Beyond => th[t].nr \in reported' /\ printed[th[t].nr] = 0
        BY <2>1, <2>2 DEF HandlerInv
    <2> QED BY SMT, <1>0, <2>1, <2>2, <2>3, <2>4 DEF HandlerInv, Busy
<1>3. CASE HandlerPrint(t)
    <2>1. /\ th[t].pc = "print" /\ th' = [th EXCEPT ![t].pc = "leave"] /\ UNCHANGED <<active, reported>>
          /\ printed' = [printed EXCEPT ![th[t].nr] = @ + 1]
        BY <1>3 DEF HandlerPrint
    <2>2. /\ th' \in [Threads -> ThreadShapes] /\ th'[t].pc = "leave" /\ th'[t].nr = th[t].nr
          /\ \A u \in Threads : u # t => th'[u] = th[u]
        BY <2>1, ThreadMoves
    <2>3. /\ th[t].nr \in Unlisted /\ printed \in [Unlisted -> Int]
          /\ \A u \in Threads : u # t => th[u].pc # "print"
        BY <2>1 DEF HandlerInv, Busy
    <2>4. /\ printed' \in [Unlisted -> Int] /\ printed'[th[t].nr] = printed[th[t].nr] + 1
          /\ \A nr \in Unlisted : nr # th[t].nr => printed'[nr] = printed[nr]
        BY SMT, <2>1, <2>3
    <2>5. th[t].nr \notin Beyond => th[t].nr \in reported /\ printed[th[t].nr] = 0
        BY <2>1 DEF HandlerInv
    <2> QED BY SMT, <1>0, <2>1, <2>2, <2>3, <2>4, <2>5 DEF HandlerInv, Busy
<1>4. CASE HandlerLeave(t)
    <2>1. /\ th[t].pc = "leave" /\ th' = [th EXCEPT ![t].pc = "run"] /\ UNCHANGED <<reported, printed>>
        BY <1>4 DEF HandlerLeave
    <2>2. /\ th' \in [Threads -> ThreadShapes] /\ th'[t].pc = "run"
          /\ \A u \in Threads : u # t => th'[u] = th[u]
        BY <2>1, ThreadMoves
    <2>3. \A u \in Threads : u # t => ~Busy(u)
        BY <2>1 DEF HandlerInv, Busy
    <2> QED BY <1>0, <2>1, <2>2, <2>3 DEF HandlerInv, Busy
<1> QED BY <1>1, <1>2, <1>3, <1>4 DEF Handler

(* A helper that serves goes on serving.                                   *)
LEMMA ServingStays == StackInv /\ [SeccompNext]_seccompVars => (phase[First] = "serving" => phase'[First] = "serving")
<1> SUFFICES ASSUME StackInv, [SeccompNext]_seccompVars, phase[First] = "serving" PROVE phase'[First] = "serving"
    OBVIOUS
<1>0. First \in Procs /\ phase \in [Procs -> Phases] /\ \A p \in Procs : phase[p] # "program"
    BY SeccompConstants DEF StackInv
<1>1. CASE Setup
    BY <1>1 DEF Setup, ApplyFilter, InstallNotify, SendListener, TakeListener, Exec, Own
<1>2. ASSUME NEW p \in Procs, Try(p) \/ Tighten(p) \/ Fork(p) PROVE FALSE
    BY <1>0, <1>2 DEF Try, Tighten, Fork
<1>3. ASSUME NEW t \in Threads, Trap(t) \/ Handler(t) PROVE phase' = phase
    BY <1>3 DEF Trap, Handler, HandlerEnter, HandlerMark, HandlerPrint, HandlerLeave, procVars
<1>4. CASE UNCHANGED seccompVars
    BY <1>4 DEF seccompVars, procVars
<1> QED BY <1>1, <1>2, <1>3, <1>4 DEF SeccompNext

LEMMA HandlerNext == StackInv /\ HandlerInv /\ [SeccompNext]_seccompVars => HandlerInv'
<1> SUFFICES ASSUME StackInv, HandlerInv, [SeccompNext]_seccompVars PROVE HandlerInv'
    OBVIOUS
<1>1. CASE UNCHANGED handlerVars
    <2>1. phase[First] = "serving" => phase'[First] = "serving"
        BY ServingStays
    <2> QED BY <1>1, <2>1 DEF HandlerInv, handlerVars, Busy
<1>2. ASSUME NEW p \in Procs, Try(p) \/ Tighten(p) \/ Fork(p) PROVE UNCHANGED handlerVars
    BY <1>2 DEF Try, Tighten, Fork
<1>3. ASSUME NEW t \in Threads, Trap(t) \/ Handler(t) PROVE HandlerInv'
    BY <1>3, HandlerTrap, HandlerKeeps
<1>4. CASE Setup
    BY <1>1, <1>4 DEF Setup, ApplyFilter, InstallNotify, SendListener, TakeListener, Exec
<1>5. CASE UNCHANGED seccompVars
    BY <1>1, <1>5 DEF seccompVars
<1> QED BY <1>1, <1>2, <1>3, <1>4, <1>5 DEF SeccompNext

LEMMA HandlerHolds == SeccompSpec => []HandlerInv
BY StackHolds, HandlerInit, HandlerNext, PTL DEF SeccompSpec

(* A number with a bit in REPORTED_SYSCALLS is printed at most once, and   *)
(* only once the bit is set, however the threads' handlers interleave: the *)
(* safety part of ReportsExact.                                            *)
THEOREM ReportedOnce ==
    SeccompSpec => [](\A nr \in Unlisted \ Beyond : printed[nr] <= 1 /\ (printed[nr] = 1 => nr \in reported))
<1>1. HandlerInv => \A nr \in Unlisted \ Beyond : printed[nr] <= 1 /\ (printed[nr] = 1 => nr \in reported)
    BY SMT DEF HandlerInv
<1> QED BY <1>1, HandlerHolds, PTL

-----------------------------------------------------------------------------
(* What arapuca's own code calls.                                          *)

(* What the first process calls itself.                                    *)
LEMMA SetupPasses ==
    ASSUME StackInv, phase[First] = "setup", NEW call \in InstallCalls
    PROVE  Outcome(First, call) = "ALLOW"
<1> DEFINE s == stack[First]
           P == Programs(how.profile)
<1>1. /\ s \in Seq(FilterNames) /\ P \in Seq(FilterNames) /\ Len(s) < Len(P)
      /\ \A i \in DOMAIN s : s[i] = P[i]
      /\ how.profile \in {"strict", "baseline", "bridge", "proxy", "supervisor"}
    BY HowFacts, ProgramNames, SeccompConstants DEF StackInv
<1>2. call \in WrapperCalls /\ call.nr # "clone3"
    BY SMT DEF WrapperCalls, InstallCalls, Bare, With
<1>3. ASSUME NEW i \in DOMAIN s PROVE Answer(FilterOf(s[i], how), call) = "ALLOW"
    <2>0. s[i] = P[i] /\ Len(s) \in Nat /\ Len(P) \in Nat /\ i \in 1..Len(s)
        BY SMT, <1>1
    <2>1. i \in 1..Len(P) /\ i < Len(P)
        BY SMT, <1>1, <2>0
    <2>2. CASE how.profile \in Sandboxes
        <3>1. P \in Seq(WrapperNames \ {"notify"})
            BY <1>1, <2>2, ProgramNames
        <3>2. P[i] \in WrapperNames \ {"notify"}
            BY SMT, <2>1, <3>1
        <3>3. s[i] \in WrapperNames \ {"notify"}
            BY <2>0, <3>2
        <3> QED BY <1>2, <3>3, WrapperPasses DEF WrapperCalls, WrapperNames, Says
    <2>3. CASE how.profile \notin Sandboxes
        <3>1. Len(P) = 2 /\ P[1] = "clone3"
            BY <1>1, <2>3, ProgramNames
        <3>2. i = 1
            BY SMT, <2>0, <2>1, <3>1
        <3>3. s[i] = "clone3"
            BY <2>0, <3>1, <3>2
        <3> QED BY <1>2, <3>3, OtherSays DEF Says
    <2> QED BY <2>2, <2>3
<1> QED BY <1>1, <1>3, VerdictAllow DEF Outcome

LEMMA ServingPasses ==
    ASSUME StackInv, phase[First] = "serving", NEW call, call.nr # "clone3",
           Says(how.profile, how, call) = "ALLOW"
    PROVE  Outcome(First, call) = "ALLOW"
<1>1. how.profile \in {"bridge", "proxy", "supervisor"} /\ stack[First] = Programs(how.profile)
    BY HowFacts DEF StackInv, Sandboxes
<1> QED BY <1>1, HelperVerdict DEF Outcome

LEMMA WritePasses ==
    ASSUME StackInv, phase[First] = "serving"
    PROVE  Outcome(First, Bare("write")) = "ALLOW"
<1>1. how.profile \in {"bridge", "proxy", "supervisor"}
    BY HowFacts DEF StackInv, Sandboxes
<1>2. Bare("write").nr = "write"
    BY DEF Bare
<1>3. "write" \in BridgeNames /\ "write" \in ProxyNames /\ "write" \in SupervisorNames
    BY DEF BridgeNames, BridgeIo, ProxyNames, ProxyIo, SupervisorNames, SupervisorIo
<1>4. Says(how.profile, how, Bare("write")) = "ALLOW"
    BY <1>1, <1>2, <1>3, BridgeSays, ProxySays, SupervisorSays
<1> QED BY <1>2, <1>4, ServingPasses

LEMMA SupervisorPasses ==
    ASSUME StackInv, NEW call \in SupervisorCalls
    PROVE  Outcome(First, call) = "ALLOW"
<1>1. phase[First] = "serving" /\ how.profile = "supervisor"
    BY DEF SupervisorCalls
<1>2. \/ call.nr \in {"fcntl", "write", "close", "read", "pidfd_open", "pidfd_getfd",
                      "openat", "pread64", "mmap", "munmap", "exit_group"}
      \/ call.nr = "ioctl" /\ call.arg \cap {"RECV", "SEND", "ID_VALID", "ID_VALID_OLD"} # {}
    BY SMT DEF SupervisorCalls, Bare, With
<1>3. {"fcntl", "write", "close", "read", "pidfd_open", "pidfd_getfd",
       "openat", "pread64", "mmap", "munmap", "exit_group"} \subseteq SupervisorNames
    BY DEF SupervisorNames, SupervisorIo, SupervisorRuntime
<1>4. call.nr # "clone3"
    BY <1>2
<1>5. Says("supervisor", how, call) = "ALLOW"
    BY <1>2, <1>3, SupervisorSays
<1> QED BY <1>1, <1>4, <1>5, ServingPasses

LEMMA OwnPasses == StackInv => Passes(First, OwnCalls)
<1> SUFFICES ASSUME StackInv, NEW call \in OwnCalls
             PROVE  \/ Outcome(First, call) = "ALLOW"
                    \/ Outcome(First, call) = "NOTIFY" /\ listener \in {"sent", "held"}
    BY DEF Passes
<1>1. CASE phase[First] = "setup"
    BY <1>1, SetupPasses DEF OwnCalls
<1>2. CASE phase[First] = "audit"
    <2>0. listener \in {"none", "here", "sent", "held", "failed"}
        BY <1>2 DEF StackInv
    <2>1. CASE listener = "none" \/ listener = "failed"
        <3>1. Uses(First, WrapperNames \ {"notify"})
            BY <1>2, <2>1 DEF StackInv
        <3>2. call \in WrapperCalls
            BY <1>2, <2>1 DEF OwnCalls, WrapperCalls
        <3> QED BY <1>2, <3>1, <3>2, WrapperVerdict
    <2>2. CASE listener = "here"
        <3>1. call \in WrapperCalls /\ call.nr \notin {"openat", "execve"}
            BY SMT, <1>2, <2>2 DEF OwnCalls, WrapperCalls, Bare
        <3> QED BY <1>2, <3>1, WrapperVerdict
    <2>3. CASE listener \in {"sent", "held"}
        <3>1. call \in WrapperCalls
            BY <1>2, <2>3 DEF OwnCalls, WrapperCalls
        <3> QED BY <1>2, <2>3, <3>1, WrapperVerdict
    <2> QED BY <2>0, <2>1, <2>2, <2>3
<1>3. CASE phase[First] \notin {"setup", "audit"}
    <2>1. call \in SupervisorCalls
        BY <1>3 DEF OwnCalls
    <2> QED BY <2>1, SupervisorPasses
<1> QED BY <1>1, <1>2, <1>3
=============================================================================
