------------------------------ MODULE Seccomp ------------------------------
(* A process that arapuca confines: the wrapper on its way to execve and   *)
(* the program after it, or one of the helpers with its threads.  The      *)
(* filters go on one by one and bind the process's own next steps too.     *)
EXTENDS SeccompFilters, FiniteSets

CONSTANTS
    Procs, First,  \* processes; First is the one arapuca forked
    Threads,       \* threads of a helper that meet calls outside its list
    Calls,         \* calls that the program tries
    Unlisted,      \* numbers that the helper's threads use, not in its list
    Beyond,        \* those that REPORTED_SYSCALLS has no bit for
    MaxOwn,        \* filters that the program adds to a stack
    MaxTraps,      \* such calls per thread
    HowShapes      \* the configurations to start from

ASSUME SeccompConstants ==
    /\ First \in Procs /\ Beyond \subseteq Unlisted /\ MaxOwn \in Nat /\ MaxTraps \in Nat
    /\ HowShapes \subseteq [profile : {"strict", "baseline", "bridge", "proxy", "supervisor"},
                            debug : BOOLEAN, files : BOOLEAN, network : BOOLEAN,
                            fails : BOOLEAN, conns : Nat, chunks : Nat]

VARIABLES
    how,       \* how the process is configured, and whether installing fails
    phase,     \* of each process
    stack,     \* of each process, the names of its filters
    listener,  \* the audit filter's listener: where it is
    last,      \* the program's last call and what came of it
    th,        \* the helper's threads and the SIGSYS handler they are in
    active,    \* HANDLER_ACTIVE
    reported,  \* REPORTED_SYSCALLS
    printed    \* how often each number has been printed

procVars == <<phase, stack, listener, last>>
handlerVars == <<th, active, reported, printed>>
seccompVars == <<how, procVars, handlerVars>>

Sandboxes == {"strict", "baseline"}
Bare(nr) == [nr |-> nr, arg |-> {}]
With(nr, features) == [nr |-> nr, arg |-> features]

Outcome(p, call) == Verdict(stack[p], how, call)

(* A call that the audit filter holds goes on once the supervisor has the  *)
(* listener; before, nobody answers it.                                    *)
Passes(p, calls) ==
    \A call \in calls :
        LET v == Outcome(p, call)
        IN  v = "ALLOW" \/ (v = "NOTIFY" /\ listener \in {"sent", "held"})

Enter(p, to) == phase' = [phase EXCEPT ![p] = to]

Audited == how.files \/ how.network
InstallCalls == {With("prctl", {"PR_SET_NO_NEW_PRIVS"}), Bare("seccomp")}

(* What the supervisor does once its filter is on: it takes the listener   *)
(* out of the wrapper, and answers.                                        *)
SupervisorCalls ==
    IF phase[First] # "serving" \/ how.profile # "supervisor" THEN {}
    ELSE {Bare(nr) : nr \in {"fcntl", "write", "close", "read", "pidfd_open", "pidfd_getfd",
                              "openat", "pread64", "mmap", "munmap", "exit_group"}}
           \cup {With("ioctl", {cmd}) : cmd \in {"RECV", "ID_VALID", "ID_VALID_OLD", "SEND"}}

(* The host's pid read only when it is to be sent.                         *)
OwnCallsPidLate ==
    CASE phase[First] = "setup" -> InstallCalls
      [] phase[First] = "audit" /\ Audited /\ listener = "none" -> InstallCalls
      [] phase[First] = "audit" /\ listener = "here" ->
             {Bare("openat"), Bare("read"), Bare("fcntl"), Bare("write"), Bare("close")}
      [] phase[First] = "audit" /\ listener # "here" /\ (Audited => listener # "none") ->
             {Bare("prlimit64"), Bare("write"), Bare("close"), Bare("execve")}
      [] OTHER -> SupervisorCalls

(* The calls that arapuca's own next step makes.  The host's pid is read   *)
(* from a file, before the filter that would hold the opening of it.       *)
OwnCalls ==
    CASE phase[First] = "setup" -> InstallCalls
      [] phase[First] = "audit" /\ Audited /\ listener = "none" ->
             {Bare("openat"), Bare("read"), Bare("close")} \cup InstallCalls
      [] phase[First] = "audit" /\ listener = "here" -> {Bare("fcntl"), Bare("write"), Bare("close")}
      [] phase[First] = "audit" /\ listener # "here" /\ (Audited => listener # "none") ->
             {Bare("prlimit64"), Bare("write"), Bare("close"), Bare("execve")}
      [] OTHER -> SupervisorCalls

(* A step of its own that is refused or held is the last one.              *)
Own(st) == phase[First] = st /\ Passes(First, OwnCalls)

(* apply_filter, for the next program of the profile; an error ends the    *)
(* process.                                                                *)
ApplyFilter ==
    LET programs == Programs(how.profile)
        n == Len(stack[First]) + 1
    IN  /\ Own("setup")
        /\ \/ /\ stack' = [stack EXCEPT ![First] = Append(@, programs[n])]
              /\ Enter(First, CASE n < Len(programs) -> "setup"
                                [] n = Len(programs) /\ how.profile \in Sandboxes -> "audit"
                                [] OTHER -> "serving")
           \/ how.fails /\ Enter(First, "exited") /\ UNCHANGED stack
        /\ UNCHANGED <<how, listener, last, handlerVars>>

(* With an audit, the notifying filter comes last; without it the program  *)
(* runs unaudited.                                                         *)
InstallNotify ==
    /\ Own("audit") /\ Audited /\ listener = "none"
    /\ \/ stack' = [stack EXCEPT ![First] = Append(@, "notify")] /\ listener' = "here"
       \/ how.fails /\ listener' = "failed" /\ UNCHANGED stack
    /\ UNCHANGED <<how, phase, last, handlerVars>>

(* The listener's number goes through the socket pair to the supervisor.   *)
SendListener ==
    /\ Own("audit") /\ listener = "here"
    /\ \/ listener' = "sent" /\ UNCHANGED phase
       \/ how.fails /\ Enter(First, "exited") /\ UNCHANGED listener
    /\ UNCHANGED <<how, stack, last, handlerVars>>

(* The supervisor duplicates the listener out of the wrapper's table.      *)
TakeListener ==
    /\ phase[First] = "audit" /\ listener = "sent"
    /\ listener' = "held"
    /\ UNCHANGED <<how, phase, stack, last, handlerVars>>

(* execve does not wait for the supervisor.                                *)
ExecAtOnce ==
    /\ Own("audit") /\ (Audited => listener \in {"sent", "held", "failed"})
    /\ Enter(First, "program")
    /\ listener' = IF listener = "sent" THEN "lost" ELSE listener
    /\ UNCHANGED <<how, stack, last, handlerVars>>

(* The resource limits, the audit descriptors, and execve, which closes    *)
(* the wrapper's own copy of the listener.  When execve is audited itself, *)
(* it waits for the supervisor.                                            *)
Exec ==
    /\ Own("audit") /\ (Audited => listener \in {"sent", "held", "failed"})
    /\ Outcome(First, Bare("execve")) = "NOTIFY" => listener = "held"
    /\ Enter(First, "program")
    /\ listener' = IF listener = "sent" THEN "lost" ELSE listener
    /\ UNCHANGED <<how, stack, last, handlerVars>>

-----------------------------------------------------------------------------
(* The program tries a call.                                               *)
Try(p) ==
    /\ phase[p] = "program"
    /\ \E call \in Calls :
          /\ last' = [call |-> call, out |-> Outcome(p, call)]
          /\ Enter(p, IF Outcome(p, call) = "KILL" THEN "killed" ELSE "program")
    /\ UNCHANGED <<how, stack, listener, handlerVars>>

(* It installs a filter of its own, which is not refused.                  *)
Tighten(p) ==
    /\ phase[p] = "program" /\ Len(stack[p]) < Len(stack[First]) + MaxOwn
    /\ Passes(p, {Bare("seccomp")})
    /\ \E f \in {"own", "errno"} :
          /\ \A i \in DOMAIN stack[p] : stack[p][i] # f
          /\ stack' = [stack EXCEPT ![p] = Append(@, f)]
    /\ UNCHANGED <<how, phase, listener, last, handlerVars>>

(* A child inherits the stack.                                             *)
Fork(p) ==
    /\ phase[p] = "program" /\ Passes(p, {Bare("clone")})
    /\ \E q \in Procs : /\ phase[q] = "none" /\ Enter(q, "program")
                        /\ stack' = [stack EXCEPT ![q] = stack[p]]
    /\ UNCHANGED <<how, listener, last, handlerVars>>

-----------------------------------------------------------------------------
(* A thread of a helper in debug mode makes a call outside the list, and   *)
(* SIGSYS takes it to the handler.                                         *)
Trap(t) ==
    /\ phase[First] = "serving" /\ how.debug /\ th[t].pc = "run" /\ th[t].traps < MaxTraps
    /\ \E nr \in Unlisted :
          /\ Outcome(First, Bare(nr)) = "TRAP"
          /\ th' = [th EXCEPT ![t] = [pc |-> "enter", nr |-> nr, traps |-> @.traps + 1]]
    /\ UNCHANGED <<how, procVars, active, reported, printed>>

(* HANDLER_ACTIVE is one for the process: a handler that runs turns every  *)
(* other one away, that of another thread too.                             *)
HandlerEnter(t) ==
    /\ th[t].pc = "enter"
    /\ th' = [th EXCEPT ![t].pc = IF active THEN "run" ELSE "mark"]
    /\ active' = TRUE
    /\ UNCHANGED <<how, procVars, reported, printed>>

(* A return that leaves HANDLER_ACTIVE set.                                *)
HandlerMarkReturns(t) ==
    /\ th[t].pc = "mark"
    /\ th' = [th EXCEPT ![t].pc = IF th[t].nr \in reported THEN "run" ELSE "print"]
    /\ reported' = reported \cup ({th[t].nr} \ Beyond)
    /\ UNCHANGED <<how, procVars, active, printed>>

(* fetch_or: whoever sets the bit reports the number.                      *)
HandlerMark(t) ==
    /\ th[t].pc = "mark"
    /\ th' = [th EXCEPT ![t].pc = IF th[t].nr \in reported THEN "leave" ELSE "print"]
    /\ reported' = reported \cup ({th[t].nr} \ Beyond)
    /\ UNCHANGED <<how, procVars, active, printed>>

HandlerPrint(t) ==
    /\ th[t].pc = "print" /\ Passes(First, {Bare("write")})
    /\ th' = [th EXCEPT ![t].pc = "leave"]
    /\ printed' = [printed EXCEPT ![th[t].nr] = @ + 1]
    /\ UNCHANGED <<how, procVars, active, reported>>

HandlerLeave(t) ==
    /\ th[t].pc = "leave"
    /\ th' = [th EXCEPT ![t].pc = "run"]
    /\ active' = FALSE
    /\ UNCHANGED <<how, procVars, reported, printed>>

Handler(t) == HandlerEnter(t) \/ HandlerMark(t) \/ HandlerPrint(t) \/ HandlerLeave(t)

-----------------------------------------------------------------------------
SeccompInit ==
    /\ how \in HowShapes
    /\ phase = [p \in Procs |-> IF p = First THEN "setup" ELSE "none"]
    /\ stack = [p \in Procs |-> <<>>]
    /\ listener = "none"
    /\ last = [call |-> Bare("none"), out |-> "ALLOW"]
    /\ th = [t \in Threads |-> [pc |-> "run", nr |-> "none", traps |-> 0]]
    /\ active = FALSE /\ reported = {}
    /\ printed = [nr \in Unlisted |-> 0]

Setup == ApplyFilter \/ InstallNotify \/ SendListener \/ TakeListener \/ Exec
SeccompNext ==
    \/ Setup
    \/ \E p \in Procs : Try(p) \/ Tighten(p) \/ Fork(p)
    \/ \E t \in Threads : Trap(t) \/ Handler(t)
SeccompSpec == SeccompInit /\ [][SeccompNext]_seccompVars

-----------------------------------------------------------------------------
(* What a program is kept from, by the effect of the call: another         *)
(* namespace or root, other processes' memory, the kernel's modules, a     *)
(* signal to a group, input in a terminal, its own parent-death signal, an *)
(* image without a path and, in the strict profile, the network and links. *)
Escapes(call) ==
    \/ call.nr \in {"unshare", "setns", "clone3", "mount", "pivot_root", "chroot", "ptrace",
                    "process_vm_writev", "init_module", "bpf", "io_uring_setup"}
    \/ call.nr = "clone" /\ call.arg \cap NsFlags # {}
    \/ call.nr = "kill" /\ call.arg \cap {"zero", "bit31"} # {}
    \/ call.nr = "ioctl" /\ call.arg \cap {"TIOCSTI", "TIOCLINUX"} # {}
    \/ call.nr = "prctl" /\ ("PR_SET_PDEATHSIG" \in call.arg
                              \/ {"PR_SET_DUMPABLE", "nonzero"} \subseteq call.arg)
    \/ call.nr = "execveat" /\ "AT_EMPTY_PATH" \in call.arg
    \/ how.profile = "strict" /\ call.nr = "socket" /\ call.arg \cap {"AF_INET", "AF_INET6"} # {}
    \/ how.profile = "strict" /\ call.nr \in {"symlinkat", "linkat"}

(* A program runs in the sandbox with every filter of its profile, in the  *)
(* order they were installed, under whatever it or its parents added; and  *)
(* under the audit of files only when the supervisor has the listener, so  *)
(* that its calls are answered.  No call of the above ever takes effect,   *)
(* whatever else is in the argument registers.  What runtimes probe is     *)
(* answered ENOSYS, so that they fall back ("no overlap" of two errors),   *)
(* and what they fall back on is let through: a thread by clone, a local   *)
(* socket.  A filter that the program adds itself may change that.         *)
ProgramConfined ==
    /\ Escapes(last.call) => Severity(last.out) >= Severity("EPERM")
    /\ \A p \in Procs : phase[p] = "program" =>
        LET programs == Programs(how.profile) IN
        /\ Len(programs) <= Len(stack[p])
        /\ \A i \in 1..Len(programs) : stack[p][i] = programs[i]
        /\ how.files => listener \in {"held", "failed"}
        /\ \A call \in Calls : ~({"EPERM", "ENOSYS"} \subseteq Answers(programs, how, call))
        /\ \A nr \in {"clone3", "io_uring_setup"} : Outcome(p, Bare(nr)) \in {"ENOSYS", "EPERM"}
        /\ (\A i \in DOMAIN stack[p] : stack[p][i] # "errno")
               => Outcome(p, Bare("clone3")) = "ENOSYS"
        /\ Outcome(p, With("clone", {"thread"})) = "ALLOW"
        /\ Outcome(p, With("socket", {"AF_UNIX"})) = "ALLOW"

(* A number that has a bit is printed at most once, when the bit is set    *)
(* ("Each blocked syscall number is reported only once"); whoever sets the *)
(* bit prints the line, and the handler becomes free.                      *)
ReportsExact ==
    /\ [](\A nr \in Unlisted \ Beyond : printed[nr] <= 1 /\ (printed[nr] = 1 => nr \in reported))
    /\ \A nr \in Unlisted : nr \in reported ~> printed[nr] = 1
    /\ []<>~active
=============================================================================
