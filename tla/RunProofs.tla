------------------------------ MODULE RunProofs ------------------------------
(***************************************************************************)
(* Proofs about module RunCommand, for every command line, every set of    *)
(* system calls that may fail and every number of signals: the terminal is *)
(* given back, no signal goes astray, nothing of the sandbox is left, and  *)
(* all the output the target wrote is shown.                               *)
(***************************************************************************)
EXTENDS RunCommand, TLAPS

(* A leaf goes to Zenon unless it names another prover.                    *)
USE Zenon

-----------------------------------------------------------------------------
(* The inductive invariants.                                               *)

(* Before the launch has returned and the handlers are set up.             *)
Early == {"start", "mkproxy", "await", "launch", "pid", "fd"}

(* The places of the main thread where the terminal may be in raw mode,    *)
(* and those that run_pty_loop passes at all.                              *)
RawPcs == {"poll", "in", "hup", "out", "stdin", "restore", "cooked"}
TtyPcs == RawPcs \cup {"raw", "rawset", "disarm"}

(* Raw mode is only entered with the handlers in place.                    *)
TermInv ==
    /\ term \in {"cooked", "raw"}
    /\ pc \in TtyPcs => cfg.tty /\ handlers
    /\ term = "raw" => pc \in RawPcs

(* What has been dropped after a hang-up stays dropped.                    *)
ShownInv ==
    /\ pc \in Early => rev = {} /\ left = "no"
    /\ "hup" \in rev \/ left = "hup" => Hungup
    /\ left = "hup" => outq = 0

(* The processes and the process group.                                    *)
Typed ==
    /\ live \in [Procs -> ProcStates] /\ group \subseteq Sandboxed
    /\ \A k \in Kids : live[k] = "none" => k \notin group

(* The handlers and the timer start when the child's PID and its pidfd     *)
(* have been stored, and the child is not reaped before that.              *)
ProcInv ==
    /\ Typed /\ list \subseteq Sandboxed /\ childFd \in {"none", "ours", "other"}
    /\ hpc \in [Threads -> {"idle", "load", "ours", "other", "pid", "none", "record"}]
    /\ sel \in [Threads -> {"none", "ours", "other", "pid"}]
    /\ pc \in Early => /\ live["child"] # "reaped"
                       /\ ~handlers /\ tpc = "off"
                       /\ \A h \in Threads : hpc[h] = "idle"

(* With a pidfd of our own child, who may load the number of that child?   *)
AimInv ==
    cfg.pidfd /\ ~HasTargetPid =>
        /\ foreign => live["child"] = "reaped"
        /\ childFd \in {"none", "ours"}
        /\ pc = "clearfd" => ~childPid
        /\ childPid => childFd = "ours" \/ pc \in {"fd", "dead"}
        /\ \A h \in Threads : sel[h] \in {"none", "ours"}
        /\ \A h \in Threads : hpc[h] \in {"idle", "load", "ours", "none", "record"}

Launched == tmp # "none"

(* Places that are reached only with the child reaped.                     *)
ReapedPcs == {"group", "collect", "done", "clearpid", "clearfd", "closefd", "cleanup",
              "cg_kill", "cg_procs", "cg_rmdir", "c_tmp", "d_group", "d_proxy",
              "d_cgroup", "d_tmp"}

(* After the orphans in the group have been dealt with.                    *)
GroupDone ==
    \/ waited /\ pc \notin {"group", "dead", "quit"}
    \/ pc \in {"d_proxy", "d_cgroup", "d_tmp", "exit", "p_kill", "p_reap"}
    \/ pc \in {"cg_kill", "cg_procs", "cg_rmdir"} /\ ~taken

(* After cgroup.kill, where there is one.                                  *)
CgroupDone ==
    /\ cfg.cgroup /\ cfg.cgkill
    /\ \/ cgroup # "present"
       \/ taken /\ pc \notin {"cg_kill", "dead", "quit"}
       \/ pc \in {"cg_rmdir", "d_tmp", "exit"}
       \/ pc \in {"p_kill", "p_reap"} /\ cfg.proxy # "lib"

Condemned(k) == Live(k) => <<k, "KILL">> \in pend

(* Who has reaped the child, and whom a SIGKILL has reached.               *)
LeftInv ==
    /\ pc \in Early \ {"pid", "fd"} => ~Launched /\ ~taken /\ ~waited /\ ret = "none"
    /\ ~Launched => \A p \in Sandboxed : live[p] = "none"
    /\ waited \/ ret # "none" \/ pc \in ReapedPcs => live["child"] = "reaped"
    /\ Launched /\ pc \in {"p_kill", "p_reap", "exit"} => live["child"] = "reaped"
    /\ cfg.proxy = "lib" /\ pc \in {"p_kill", "p_reap"} => live["child"] = "reaped"
    /\ pc = "cg_procs" => ~cfg.cgkill
    /\ Live("target") => cfg.pidns /\ (Live("child") \/ <<"target", "KILL">> \in pend)
    /\ cfg.pidns /\ ~Live("target") => \A k \in Kids : Condemned(k)
    /\ ~cfg.pidns /\ Launched /\ GroupDone => \A k \in Kids \cap group : Condemned(k)
    /\ ~cfg.pidns /\ Launched /\ CgroupDone =>
           live["child"] = "reaped" /\ \A k \in Kids : Condemned(k)

ProxyGone == live["proxy"] \in {"none", "reaped"} /\ sockdir # "present"

(* Whether there is a proxy, and who ends it.                              *)
ProxyInv ==
    /\ pc = "start" => cfg.caller = "cli"
    /\ pc \in {"mkproxy", "await"} => cfg.caller = "cli" /\ cfg.proxy = "cli"
    /\ cfg.proxy # "lib" /\ ~(cfg.caller = "cli" /\ cfg.proxy = "cli") => ProxyGone
    /\ cfg.proxy = "lib" /\ Launched =>
           /\ pc \in {"d_cgroup", "d_tmp"} => ProxyGone
           /\ pc \in {"cg_kill", "cg_procs", "cg_rmdir"} /\ ~taken => ProxyGone
    /\ Launched /\ pc = "exit" => ProxyGone

-----------------------------------------------------------------------------
(* The terminal.                                                           *)

LEMMA InitTerm == Init => TermInv
BY DEF Init, TermInv, TtyPcs, RawPcs

LEMMA StepTerm == TermInv /\ [Next]_vars => TermInv'
<1>. SUFFICES ASSUME TermInv, [Next]_vars PROVE TermInv'
    OBVIOUS
<1>. USE DEF TermInv, TtyPcs, RawPcs, Goto
<1>1. CASE Start \/ MakeProxy \/ AwaitProxy \/ Launches \/ LaunchFails
    BY <1>1 DEF Start, MakeProxy, AwaitProxy, Launches, LaunchFails, rest, ptyVars, ttyVars,
                frontVars
<1>2. CASE StorePid \/ OpenFd \/ SetNonblock \/ SpawnTimer \/ InstallHandlers
    BY <1>2 DEF StorePid, OpenFd, SetNonblock, SpawnTimer, InstallHandlers, rest, ptyVars,
                ttyVars, frontVars
<1>3. CASE SetDone \/ ClearPid \/ ClearFd \/ CloseFd \/ LibSignal \/ LibCall
    BY <1>3 DEF SetDone, ClearPid, ClearFd, CloseFd, LibSignal, LibCall, rest, ptyVars,
                ttyVars, frontVars
<1>4. CASE Loop /\ UNCHANGED frontVars
    BY <1>4 DEF Loop, RawArm, RawSet, Poll, LoopIn, LoopHup, LoopOut, LoopStdin,
                RestoreFlags, RestoreTerm, Disarm, Quit, ttyVars, frontVars
<1>5. CASE Handle /\ UNCHANGED <<ptyVars, frontVars>>
    BY <1>5 DEF Handle, CgroupKill, CgroupKillProcs, CgroupRmdir, AfterDestroy, Wait, AfterWait,
                WaitGroup, WaitCollect, Cleanup, CleanupTmp, DropKill, DropWait, DropGroup,
                DropProxy, DropCgroup, DropTmp, ProxyKill, ProxyReap, AfterProxy, ptyVars,
                ttyVars, frontVars
<1>6. CASE Timer \/ (\E h \in Threads : Handler(h))
    BY <1>6 DEF Timer, TimerWakes, TimerLoads, TimerSends, Handler, HandlerLoads, HandlerSends,
                HandlerRecords, rest, ptyVars, ttyVars, frontVars
<1>7. CASE Unhandled \/ (\E h \in Threads : HandlerStarts(h))
    BY <1>7 DEF Unhandled, HandlerStarts, ptyVars, ttyVars, frontVars
<1>8. CASE Kernel /\ UNCHANGED <<ttyVars, frontVars>>
    BY <1>8 DEF Kernel, ProcessEnds, ProcessKilled, ProcessTermed, RelayReaps, Forks, Recycle,
                ttyVars, frontVars
<1>9. CASE TtyTarget /\ UNCHANGED frontVars
    BY <1>9 DEF TtyTarget, TargetAnswers, TargetCloses, ttyVars, frontVars
<1>10. CASE Over \/ UNCHANGED vars
    BY <1>10 DEF Over, vars, rest, ptyVars, ttyVars, frontVars
<1>. QED
    BY <1>1, <1>2, <1>3, <1>4, <1>5, <1>6, <1>7, <1>8, <1>9, <1>10 DEF Next, Main, World

(* The user gets the terminal back in cooked mode, however the command     *)
(* ends: run_pty_loop and RawModeGuard, the handlers and the early errors  *)
(* leave no way out with raw mode on.                                      *)
THEOREM TerminalHolds == Spec => []TerminalRestored
<1>1. TermInv => TerminalRestored
    BY DEF TermInv, TerminalRestored, RawPcs, Ended
<1>. QED  BY <1>1, InitTerm, StepTerm, PTL DEF Spec

-----------------------------------------------------------------------------
(* What a step of the kernel does to the processes: the facts about Die,   *)
(* RelayReaps, Forks and Recycle that the invariants rest on.              *)

(* k is a new process, of a parent that was not about to be killed.        *)
Born(k) ==
    /\ live[k] = "none" /\ pend' = pend
    /\ cfg.pidns => Live("target")
    /\ \E p \in {Init1, "k1"} : /\ Live(p) /\ <<p, "KILL">> \notin pend
                                /\ k \in group' => p = Init1 \/ p \in group

Settles ==
    /\ UNCHANGED <<cfg, pc, handleVars>>
    /\ Typed'
    /\ \A p \in Procs \ Kids : /\ live'[p] = "live" => Live(p)
                               /\ live[p] = "none" => live'[p] = "none"
    /\ live[Named] = "reaped" \/ (foreign' => foreign)
    /\ live["proxy"] = "reaped" => live'["proxy"] = "reaped"
    /\ live'["child"] = "reaped" <=> live["child"] = "reaped"
    /\ \A k \in Kids : live'[k] = "live" => (Live(k) /\ (k \in group' => k \in group)) \/ Born(k)
    /\ \A p \in Procs : <<p, "KILL">> \in pend /\ live'[p] = "live" => <<p, "KILL">> \in pend'
    /\ Live("target") /\ live'["target"] # "live" =>
           \A k \in Kids : live'[k] = "live" => <<k, "KILL">> \in pend'
    /\ cfg.pidns /\ Live("child") /\ live'["child"] # "live" /\ live'["target"] = "live" =>
           <<"target", "KILL">> \in pend'
    /\ \A sig : <<"other", sig>> \in pend' => <<"other", sig>> \in pend
    /\ (\A p \in Sandboxed : live[p] = "none") => \A p \in Sandboxed : live'[p] = "none"

(* The end of a process.                                                   *)
LEMMA DieSettles ==
    ASSUME Typed, NEW p \in Procs, NEW how, Live(p), Die(p, how),
           UNCHANGED <<cfg, pc, foreign, handleVars>>
    PROVE  Settles
<1>1. \A q \in Procs : live'[q] =
          CASE q = p -> IF p \in Kids \/ (p = "target" /\ ~Live("child")) THEN "reaped" ELSE "zombie"
            [] q = "target" /\ p = "child" /\ live[q] = "zombie" -> "reaped"
            [] OTHER -> live[q]
    BY DEF Die
<1>2. live'[p] \in {"reaped", "zombie"} /\ (p \in {"child", "proxy"} => live'[p] = "zombie")
    BY <1>1 DEF Kids
<1>3. \A q \in Procs \ {p} :
          live'[q] = IF q = "target" /\ p = "child" /\ live[q] = "zombie" THEN "reaped" ELSE live[q]
    BY <1>1
<1>4. Typed'
    BY <1>1, <1>2, <1>3 DEF Die, Typed, ProcStates, Kids, Procs
<1>5. \A q \in Procs \ {p} : \A sig : <<q, sig>> \in pend => <<q, sig>> \in pend'
    BY DEF Die
<1>6. \A sig : <<"other", sig>> \in pend' => <<"other", sig>> \in pend
    BY DEF Die, Killed, Bereaved, Kids
<1>7. p = "target" => \A k \in Kids : Live(k) => <<k, "KILL">> \in pend'
    BY DEF Die, Killed, Bereaved
<1>8. p = "child" /\ cfg.pidns /\ Live("target") => <<"target", "KILL">> \in pend'
    BY DEF Die, Killed, Bereaved
<1>9. group' \subseteq group
    BY DEF Die
<1>. QED
    BY <1>2, <1>3, <1>4, <1>5, <1>6, <1>7, <1>8, <1>9
    DEF Settles, Live, Kids, Procs, Sandboxed, Typed, handleVars

(* Every step of the kernel.                                               *)
LEMMA KernelSettles == Typed /\ Kernel => Settles
<1>. SUFFICES ASSUME Typed, Kernel PROVE Settles
    OBVIOUS
<1>1. ASSUME NEW p \in Procs, ProcessEnds(p) \/ ProcessKilled(p) PROVE Settles
    BY <1>1, DieSettles DEF ProcessEnds, ProcessKilled
<1>2. ASSUME NEW p \in Procs, ProcessTermed(p) PROVE Settles
    <2>1. CASE Die(p, "signal")
        BY <1>2, <2>1, DieSettles DEF ProcessTermed
    <2>2. CASE ~Die(p, "signal")
        <3>1. UNCHANGED <<cfg, pc, live, group, foreign, handleVars>>
            BY <1>2, <2>2 DEF ProcessTermed
        <3>2. \A q : <<q, "KILL">> \in pend => <<q, "KILL">> \in pend'
            BY <1>2, <2>2 DEF ProcessTermed
        <3>3. \A sig : <<"other", sig>> \in pend' => <<"other", sig>> \in pend
            BY SMT, <1>2, <2>2 DEF ProcessTermed
        <3>. QED  BY <3>1, <3>2, <3>3 DEF Settles, Live, Kids, Procs, Sandboxed, Typed, handleVars
    <2>. QED  BY <2>1, <2>2
<1>3. CASE RelayReaps
    BY <1>3 DEF RelayReaps, Settles, Live, Kids, Procs, ProcStates, Sandboxed, Typed, handleVars
<1>4. ASSUME NEW p \in Procs, NEW k \in Kids, Forks(p, k) PROVE Settles
    <2>1. /\ live' = [live EXCEPT ![k] = "live"] /\ UNCHANGED <<cfg, pc, pend, foreign, handleVars>>
          /\ group' = group \/ group' = group \cup {k}
        BY <1>4 DEF Forks
    <2>2. Born(k)
        BY <1>4 DEF Forks, Born, Typed
    <2>3. Typed'
        BY <2>1 DEF Typed, Procs, ProcStates, Sandboxed, Kids
    <2>4. \E p0 \in Sandboxed : live[p0] # "none"
        BY <1>4 DEF Forks, Live, Init1, Sandboxed, Procs, Kids
    <2>. QED
        BY <2>1, <2>2, <2>3, <2>4 DEF Settles, Live, Kids, Procs, Typed
<1>5. CASE Recycle
    BY <1>5 DEF Recycle, NumberFree, Settles, Live, Kids, Procs, Sandboxed, Typed, handleVars
<1>. QED  BY <1>1, <1>2, <1>3, <1>4, <1>5 DEF Kernel

-----------------------------------------------------------------------------
(* The output of the target.                                               *)

LEMMA InitShown == Init => ShownInv
BY DEF Init, ShownInv, Early

LEMMA StepShown == Typed /\ ShownInv /\ [Next]_vars => ShownInv'
<1>. SUFFICES ASSUME Typed, ShownInv, [Next]_vars PROVE ShownInv'
    OBVIOUS
<1>. USE DEF ShownInv, Early, Goto, Hungup, Live
<1>1. CASE Start \/ MakeProxy \/ AwaitProxy \/ Launches \/ LaunchFails
    BY <1>1 DEF Start, MakeProxy, AwaitProxy, Launches, LaunchFails, rest, ptyVars, flowVars, queueVars,
                procVars, Typed, Procs
<1>2. CASE StorePid \/ OpenFd \/ SetNonblock \/ SpawnTimer \/ InstallHandlers
    BY <1>2 DEF StorePid, OpenFd, SetNonblock, SpawnTimer, InstallHandlers, rest, ptyVars,
                flowVars, queueVars, procVars
<1>3. CASE SetDone \/ ClearPid \/ ClearFd \/ CloseFd \/ LibSignal \/ LibCall
    BY <1>3 DEF SetDone, ClearPid, ClearFd, CloseFd, LibSignal, LibCall, rest, ptyVars,
                flowVars, queueVars, procVars
<1>4. CASE Loop
    <2>1. "hup" \in Events => Hungup
        BY DEF Events
    <2>2. CASE Poll
        BY <1>4, <2>1, <2>2 DEF Poll, procVars
    <2>3. CASE RawArm \/ RawSet \/ LoopIn \/ LoopHup \/ LoopOut \/ LoopStdin
        BY SMT, <2>3 DEF RawArm, RawSet, LoopIn, LoopHup, LoopOut, LoopStdin, Quit, procVars, flowVars, queueVars
    <2>4. CASE RestoreFlags \/ RestoreTerm \/ Disarm
        BY <2>4 DEF RestoreFlags, RestoreTerm, Disarm, procVars, flowVars, queueVars
    <2>. QED  BY <1>4, <2>2, <2>3, <2>4 DEF Loop
<1>5. CASE Handle /\ UNCHANGED ptyVars
    BY <1>5 DEF Handle, CgroupKill, CgroupKillProcs, CgroupRmdir, AfterDestroy, Wait, AfterWait,
                WaitGroup, WaitCollect, Cleanup, CleanupTmp, DropKill, DropWait, DropGroup,
                DropProxy, DropCgroup, DropTmp, ProxyKill, ProxyReap, AfterProxy, ptyVars,
                flowVars, queueVars, procVars, Typed, Procs
<1>6. CASE Timer \/ (\E h \in Threads : Handler(h))
    BY <1>6 DEF Timer, TimerWakes, TimerLoads, TimerSends, Handler, HandlerLoads, HandlerSends,
                HandlerRecords, rest, ptyVars, flowVars, queueVars, procVars
<1>7. CASE Unhandled \/ (\E h \in Threads : HandlerStarts(h))
    BY <1>7 DEF Unhandled, HandlerStarts, ptyVars, flowVars, queueVars, procVars
<1>8. CASE Kernel /\ SlaveFollows /\ UNCHANGED queueVars
    BY <1>8, KernelSettles DEF SlaveFollows, Settles, queueVars
<1>9. CASE TtyTarget
    BY <1>9 DEF TtyTarget, TargetAnswers, TargetCloses, procVars
<1>10. CASE Over \/ UNCHANGED vars
    BY <1>10 DEF Over, vars, rest, ptyVars, flowVars, queueVars, procVars
<1>. QED
    BY <1>1, <1>2, <1>3, <1>4, <1>5, <1>6, <1>7, <1>8, <1>9, <1>10 DEF Next, Main, World

-----------------------------------------------------------------------------
(* Whom a signal may reach.                                                *)

LEMMA InitProc == Init => ProcInv
BY SMT DEF Init, ProcInv, Typed, Early, Procs, Kids, Sandboxed, ProcStates, Threads

LEMMA StepProc == ProcInv /\ [Next]_vars => ProcInv'
<1>. SUFFICES ASSUME ProcInv, [Next]_vars PROVE ProcInv'
    OBVIOUS
<1>. USE DEF ProcInv, Early, Goto
<1>1. CASE Start \/ MakeProxy \/ AwaitProxy \/ Launches \/ LaunchFails
    <2>1. CASE Launches
        BY <2>1 DEF Launches, frontVars, threadVars, Typed, Procs, Kids, Sandboxed, ProcStates
    <2>2. CASE MakeProxy
        BY <2>2 DEF MakeProxy, threadVars, Typed, Procs, Kids, ProcStates
    <2>3. CASE Start \/ AwaitProxy \/ LaunchFails
        BY SMT, <2>3 DEF Start, AwaitProxy, LaunchFails, rest, procVars, handleVars, frontVars,
                    threadVars, Typed
    <2>. QED  BY <1>1, <2>1, <2>2, <2>3
<1>2. CASE StorePid \/ OpenFd \/ SetNonblock \/ SpawnTimer \/ InstallHandlers
    BY SMT, <1>2 DEF StorePid, OpenFd, SetNonblock, SpawnTimer, InstallHandlers, rest, procVars,
                handleVars, frontVars, threadVars, Typed
<1>3. CASE SetDone \/ ClearPid \/ ClearFd \/ CloseFd \/ LibSignal \/ LibCall
    BY <1>3 DEF SetDone, ClearPid, ClearFd, CloseFd, LibSignal, LibCall, rest, procVars,
                handleVars, frontVars, threadVars, Typed
<1>4. CASE Loop /\ UNCHANGED <<frontVars, threadVars>>
    BY <1>4 DEF Loop, RawArm, RawSet, Poll, LoopIn, LoopHup, LoopOut, LoopStdin,
                RestoreFlags, RestoreTerm, Disarm, Quit, procVars, handleVars, frontVars,
                threadVars, Typed
<1>5. CASE Handle /\ UNCHANGED <<frontVars, threadVars>>
    BY <1>5 DEF Handle, CgroupKill, CgroupKillProcs, CgroupRmdir, AfterDestroy, Wait, AfterWait,
                WaitGroup, WaitCollect, Cleanup, CleanupTmp, DropKill, DropWait, DropGroup,
                DropProxy, DropCgroup, DropTmp, ProxyKill, ProxyReap, AfterProxy, Members,
                procVars, handleVars, frontVars, threadVars, Typed, Procs, Kids, ProcStates
<1>6. CASE Timer \/ (\E h \in Threads : Handler(h))
    <2>1. CASE Timer
        BY <2>1 DEF Timer, TimerWakes, TimerLoads, TimerSends, Loaded, rest, procVars, handleVars,
                    frontVars, threadVars, Typed
    <2>2. ASSUME NEW h \in Threads, Handler(h) PROVE ProcInv'
        BY <2>2 DEF Handler, HandlerLoads, HandlerSends, HandlerRecords, Loaded, rest, procVars,
                    handleVars, frontVars, Typed
    <2>. QED  BY <1>6, <2>1, <2>2
<1>7. CASE Unhandled \/ (\E h \in Threads : HandlerStarts(h))
    BY <1>7 DEF Unhandled, HandlerStarts, procVars, handleVars, frontVars, Typed
<1>8. CASE Kernel /\ UNCHANGED <<frontVars, threadVars>>
    BY <1>8, KernelSettles DEF Settles, handleVars, frontVars, threadVars
<1>9. CASE TtyTarget /\ UNCHANGED <<frontVars, threadVars>>
    BY <1>9 DEF TtyTarget, TargetAnswers, TargetCloses, procVars, handleVars, frontVars,
                threadVars, Typed
<1>10. CASE Over \/ UNCHANGED vars
    BY SMT, <1>10 DEF Over, vars, rest, procVars, handleVars, frontVars, threadVars, Typed
<1>. QED
    BY <1>1, <1>2, <1>3, <1>4, <1>5, <1>6, <1>7, <1>8, <1>9, <1>10 DEF Next, Main, World

LEMMA InitAim == Init => AimInv /\ NoStraySignal
BY DEF Init, AimInv, NoStraySignal, Threads

(* Signals to processes that the model knows by name are no stray ones.    *)
LEMMA OursOnly ==
    ASSUME Typed, list \subseteq Sandboxed, NEW sig
    PROVE  /\ \A S \in SUBSET Procs : \A x : <<"other", x>> \notin Killed(S)
           /\ \A x : <<"other", x>> \notin ToTarget(sig)
           /\ \A x : <<"other", x>> \notin ToGroup
           /\ Members \subseteq Procs /\ group \subseteq Procs /\ list \subseteq Procs
BY DEF Typed, Killed, Procs, Kids, ToTarget, Named, ToGroup, Members, Sandboxed

(* Handlers and timer: whoever loads the addressee finds the pidfd, or     *)
(* nothing at all; and the pidfd was opened on our own child.              *)
LEMMA StepAim ==
    ProcInv /\ AimInv /\ NoStraySignal /\ [Next]_vars => AimInv' /\ NoStraySignal'
<1>. SUFFICES ASSUME ProcInv, AimInv, NoStraySignal, [Next]_vars, cfg'.pidfd, ~HasTargetPid'
              PROVE  AimInv' /\ NoStraySignal'
    BY DEF AimInv, NoStraySignal
<1>0. cfg' = cfg
    BY DEF Next, Main, Start, MakeProxy, AwaitProxy, Launches, LaunchFails, StorePid, OpenFd,
           SetNonblock, SpawnTimer, InstallHandlers, SetDone, ClearPid, ClearFd, CloseFd,
           LibSignal, LibCall, Loop, RawArm, RawSet, Poll, LoopIn, LoopHup, LoopOut, LoopStdin,
           RestoreFlags, RestoreTerm, Disarm, Handle, CgroupKill, CgroupKillProcs, CgroupRmdir,
           Wait, WaitGroup, WaitCollect, Cleanup, CleanupTmp, DropKill, DropWait, DropGroup,
           DropProxy, DropCgroup, DropTmp, ProxyKill, ProxyReap, Timer, TimerWakes, TimerLoads,
           TimerSends, Handler, HandlerLoads, HandlerSends, HandlerRecords, World, Unhandled,
           HandlerStarts, Kernel, ProcessEnds, ProcessKilled, ProcessTermed, RelayReaps, Forks,
           Recycle, TtyTarget, TargetAnswers, TargetCloses, Over, vars
<1>a. cfg.pidfd /\ ~HasTargetPid /\ Named = "child"
    BY <1>0 DEF HasTargetPid, Named
<1>b. /\ foreign => live["child"] = "reaped"
      /\ childFd \in {"none", "ours"}
      /\ pc = "clearfd" => ~childPid
      /\ childPid => childFd = "ours" \/ pc \in {"fd", "dead"}
      /\ \A h \in Threads : sel[h] \in {"none", "ours"}
      /\ \A h \in Threads : hpc[h] \in {"idle", "load", "ours", "none", "record"}
      /\ \A sig \in {"TERM", "KILL"} : <<"other", sig>> \notin pend
    BY <1>a DEF AimInv, NoStraySignal
<1>c. /\ Typed /\ list \subseteq Sandboxed
      /\ pc \in Early => live["child"] # "reaped" /\ tpc = "off"
                         /\ \A h \in Threads : hpc[h] = "idle"
    BY DEF ProcInv
<1>d. /\ \A S \in SUBSET Procs : \A x : <<"other", x>> \notin Killed(S)
      /\ \A sig, x : <<"other", x>> \notin ToTarget(sig)
      /\ \A x : <<"other", x>> \notin ToGroup
      /\ Members \subseteq Procs /\ group \subseteq Procs /\ list \subseteq Procs
    BY <1>c, OursOnly
<1>e. ASSUME UNCHANGED <<childFd, childPid, sel, hpc, foreign>>,
             live'["child"] = "reaped" \/ live'["child"] = live["child"],
             \A x \in {"TERM", "KILL"} : <<"other", x>> \notin pend' \ pend,
             pc' \notin {"clearfd"}, pc \notin {"fd", "dead"}
      PROVE  AimInv' /\ NoStraySignal'
    BY <1>b, <1>e DEF AimInv, NoStraySignal
<1>f. UNCHANGED <<childFd, childPid, sel, hpc, foreign, live, pend, pc>> => AimInv' /\ NoStraySignal'
    BY SMT, <1>b DEF AimInv, NoStraySignal
<1>. USE DEF Goto, Send
<1>1. CASE Start \/ MakeProxy \/ AwaitProxy \/ Launches \/ LaunchFails
    <2>1. UNCHANGED <<childFd, childPid, sel, hpc, foreign>> /\ pc \notin {"fd", "dead"}
          /\ pc' # "clearfd"
        BY <1>1 DEF Start, MakeProxy, AwaitProxy, Launches, LaunchFails, rest, procVars,
                    frontVars, threadVars
    <2>2. \A x \in {"TERM", "KILL"} : <<"other", x>> \notin pend' \ pend
        BY <1>1, <1>d DEF Start, MakeProxy, AwaitProxy, Launches, LaunchFails, rest, procVars, Procs
    <2>3. ~foreign
        BY <1>1, <1>b, <1>c DEF Start, MakeProxy, AwaitProxy, Launches, LaunchFails, Early
    <2>. QED  BY <1>b, <2>1, <2>2, <2>3 DEF AimInv, NoStraySignal
<1>2. CASE StorePid \/ OpenFd \/ SetNonblock \/ SpawnTimer \/ InstallHandlers
    <2>1. CASE OpenFd
        <3>1. childFd' = "ours" /\ pc' # "clearfd"
            BY <1>a, <1>b, <1>c, <2>1 DEF OpenFd, Early
        <3>. QED
            BY <1>b, <2>1, <3>1 DEF OpenFd, AimInv, NoStraySignal, rest, procVars, threadVars
    <2>2. CASE StorePid
        BY <1>b, <2>2 DEF StorePid, AimInv, NoStraySignal, rest, procVars, threadVars
    <2>3. CASE SetNonblock \/ SpawnTimer \/ InstallHandlers
        BY <1>e, <2>3 DEF SetNonblock, SpawnTimer, InstallHandlers, rest, procVars, frontVars,
                          threadVars
    <2>. QED  BY <1>2, <2>1, <2>2, <2>3
<1>3. CASE SetDone \/ ClearPid \/ ClearFd \/ CloseFd \/ LibSignal \/ LibCall
    <2>1. CASE SetDone \/ CloseFd \/ LibCall
        BY <1>e, <2>1 DEF SetDone, CloseFd, LibCall, rest, procVars, frontVars, threadVars
    <2>2. CASE LibSignal
        <3>1. \A x \in {"TERM", "KILL"} : <<"other", x>> \notin pend' \ pend
            BY <1>a, <1>d, <2>2 DEF LibSignal
        <3>. QED  BY <1>e, <2>2, <3>1 DEF LibSignal, frontVars, threadVars
    <2>3. CASE ClearPid \/ ClearFd
        BY SMT, <1>b, <2>3 DEF ClearPid, ClearFd, AimInv, NoStraySignal, rest, procVars, threadVars
    <2>. QED  BY <1>3, <2>1, <2>2, <2>3
<1>4. CASE Loop /\ UNCHANGED <<frontVars, threadVars>>
    <2>1. \A x \in {"TERM", "KILL"} : <<"other", x>> \notin pend' \ pend
        BY <1>4, <1>d DEF Loop, RawArm, RawSet, Poll, LoopIn, LoopHup, LoopOut, LoopStdin,
                          RestoreFlags, RestoreTerm, Disarm, Quit, procVars, Procs
    <2>2. UNCHANGED <<live, foreign>> /\ pc' # "clearfd" /\ pc \notin {"fd", "dead"}
        BY <1>4 DEF Loop, RawArm, RawSet, Poll, LoopIn, LoopHup, LoopOut, LoopStdin,
                    RestoreFlags, RestoreTerm, Disarm, Quit, procVars
    <2>. QED  BY <1>4, <1>e, <2>1, <2>2 DEF frontVars, threadVars
<1>5. CASE Handle /\ UNCHANGED <<frontVars, threadVars>>
    <2>1. /\ pc \notin {"fd", "dead"} /\ pc' # "clearfd" /\ UNCHANGED foreign
          /\ live'["child"] = "reaped" \/ live'["child"] = live["child"]
        BY <1>5, <1>c
        DEF Handle, CgroupKill, CgroupKillProcs, CgroupRmdir, AfterDestroy, Wait, AfterWait,
            WaitGroup, WaitCollect, Cleanup, CleanupTmp, DropKill, DropWait, DropGroup,
            DropProxy, DropCgroup, DropTmp, ProxyKill, ProxyReap, AfterProxy, procVars,
            Typed, Procs
    <2>2. pend' = pend \/ \E S \in SUBSET Procs :
              Send(Killed(S)) \/ Send(ToTarget("KILL")) \/ Send(ToGroup) \/ Send({})
        <3>1. CASE DropKill
            BY <1>a, <3>1 DEF DropKill, Procs
        <3>2. CASE CgroupKill \/ CgroupKillProcs \/ ProxyKill
            BY <1>d, <3>2 DEF CgroupKill, CgroupKillProcs, ProxyKill, Procs
        <3>3. CASE WaitGroup \/ DropGroup
            BY <3>3 DEF WaitGroup, DropGroup
        <3>4. CASE \/ CgroupRmdir \/ Wait \/ WaitCollect \/ Cleanup \/ CleanupTmp \/ DropWait
                   \/ DropProxy \/ DropCgroup \/ DropTmp \/ ProxyReap
            BY <3>4 DEF CgroupRmdir, Wait, WaitCollect, Cleanup, CleanupTmp, DropWait, DropProxy,
                        DropCgroup, DropTmp, ProxyReap, procVars
        <3>. QED  BY <1>5, <3>1, <3>2, <3>3, <3>4 DEF Handle
    <2>3. \A x \in {"TERM", "KILL"} : <<"other", x>> \notin pend' \ pend
        BY <1>d, <2>2
    <2>. QED  BY <1>5, <1>e, <2>1, <2>3 DEF frontVars, threadVars
<1>6. CASE Timer \/ (\E h \in Threads : Handler(h))
    <2>1. pc \notin Early \cup {"dead"}
        BY <1>6, <1>c DEF Timer, TimerWakes, TimerLoads, TimerSends, Handler, HandlerLoads,
                          HandlerSends, HandlerRecords, Ended, Runs
    <2>2. Loaded \in {"none", "ours"}
        BY <1>b, <2>1 DEF Loaded, Early
    <2>3. \A h \in Threads : \A sig, x :
              /\ <<"other", x>> \notin Delivered(sel[h], sig)
              /\ hpc[h] \in {"ours", "none"} => <<"other", x>> \notin Delivered(hpc[h], sig)
        BY <1>b, <1>d DEF Delivered
    <2>4. CASE TimerWakes \/ TimerLoads \/ (\E h \in Threads : HandlerLoads(h) \/ HandlerRecords(h))
        BY SMT, <1>b, <2>2, <2>4
        DEF TimerWakes, TimerLoads, HandlerLoads, HandlerRecords, AimInv, NoStraySignal, rest,
            procVars, frontVars, threadVars, ProcInv
    <2>5. CASE TimerSends
        <3>1. \A x \in {"TERM", "KILL"} : <<"other", x>> \notin pend'
            <4>1. PICK sig : pend' = pend \cup Delivered(sel["timer"], sig)
                BY <2>5 DEF TimerSends
            <4>2. \A x : <<"other", x>> \notin Delivered(sel["timer"], sig)
                BY <2>3 DEF Threads
            <4>. QED  BY <1>b, <4>1, <4>2
        <3>. QED  BY <1>b, <2>5, <3>1 DEF TimerSends, AimInv, NoStraySignal, frontVars, ProcInv
    <2>6. ASSUME NEW h \in Threads, HandlerSends(h) PROVE AimInv' /\ NoStraySignal'
        <3>1. \A x \in {"TERM", "KILL"} : <<"other", x>> \notin pend'
            <4>1. PICK sig : pend' = pend \cup Delivered(hpc[h], sig)
                BY <2>6 DEF HandlerSends
            <4>2. hpc[h] \in {"ours", "none"}
                BY <1>b, <2>6 DEF HandlerSends
            <4>3. \A x : <<"other", x>> \notin Delivered(hpc[h], sig)
                BY <2>3, <2>6, <4>2
            <4>. QED  BY <1>b, <4>1, <4>3
        <3>. QED  BY <1>b, <2>6, <3>1 DEF HandlerSends, AimInv, NoStraySignal, frontVars, ProcInv
    <2>. QED  BY <1>6, <2>4, <2>5, <2>6 DEF Timer, Handler
<1>7. CASE Unhandled \/ (\E h \in Threads : HandlerStarts(h))
    <2>1. CASE Unhandled
        <3>1. \A x \in {"TERM", "KILL"} : <<"other", x>> \notin pend'
            BY <1>b, <1>d, <2>1 DEF Unhandled, Procs
        <3>. QED  BY <1>b, <2>1, <3>1 DEF Unhandled, AimInv, NoStraySignal, frontVars
    <2>2. ASSUME NEW h \in Threads, HandlerStarts(h) PROVE AimInv' /\ NoStraySignal'
        BY <1>b, <2>2 DEF HandlerStarts, AimInv, NoStraySignal, procVars, ProcInv
    <2>. QED  BY <1>7, <2>1, <2>2
<1>8. CASE Kernel /\ UNCHANGED <<frontVars, threadVars>>
    BY <1>8, <1>a, <1>b, <1>c, KernelSettles
    DEF Settles, AimInv, NoStraySignal, frontVars, threadVars
<1>9. CASE TtyTarget /\ UNCHANGED <<frontVars, threadVars>>
    BY <1>9, <1>f DEF TtyTarget, TargetAnswers, TargetCloses, procVars, frontVars, threadVars
<1>10. CASE Over \/ UNCHANGED vars
    BY <1>10, <1>f DEF Over, vars, rest, procVars, frontVars, threadVars
<1>. QED
    BY <1>1, <1>2, <1>3, <1>4, <1>5, <1>6, <1>7, <1>8, <1>9, <1>10 DEF Next, Main, World

(* A timeout, a handler, signal() or Drop that comes late does not hit a   *)
(* process that has taken over the number of the target: with pidfds the   *)
(* number is never used, in any order of the threads' loads and sends.     *)
THEOREM NoStrayHolds == Spec => []NoStraySignal
<1>1. Init => ProcInv /\ AimInv /\ NoStraySignal
    BY InitProc, InitAim
<1>2. ProcInv /\ AimInv /\ NoStraySignal /\ [Next]_vars
      => (ProcInv /\ AimInv /\ NoStraySignal)'
    BY StepProc, StepAim
<1>. QED  BY <1>1, <1>2, PTL DEF Spec

(* What the target wrote before it hung up has been shown when the PTY     *)
(* loop ends: nothing comes after the last read of run_pty_loop.           *)
THEOREM OutputShown == Spec => [](left = "hup" => outq = 0)
<1>1. Init => ProcInv /\ ShownInv
    BY InitProc, InitShown
<1>2. ProcInv /\ ShownInv /\ [Next]_vars => (ProcInv /\ ShownInv)'
    BY StepProc, StepShown DEF ProcInv
<1>3. ShownInv => (left = "hup" => outq = 0)
    BY DEF ShownInv
<1>. QED  BY <1>1, <1>2, <1>3, PTL DEF Spec

-----------------------------------------------------------------------------
(* What is left of the sandbox.                                            *)

LEMMA InitLeft == Init => LeftInv /\ ProxyInv
BY SMT DEF Init, LeftInv, ProxyInv, ProxyGone, Launched, Condemned, Live, Early,
       ReapedPcs, Procs, Kids, Sandboxed

(* Places of the main thread that say nothing about what has been done of  *)
(* the sandbox, and those after wait().                                    *)
Plain == {"pid", "fd", "nonblock", "timer", "handlers", "raw", "rawset", "poll", "in", "hup",
          "out", "stdin", "restore", "cooked", "disarm", "wait", "held", "d_kill", "d_wait"}
Later == {"done", "clearpid", "clearfd", "closefd", "cleanup"}

(* A step that changes nothing of the sandbox, but may send signals.       *)
Quiet ==
    /\ pend \subseteq pend'
    /\ UNCHANGED <<cfg, live, group, waited, cgroup, tmp, taken, ret>>
    /\ \/ pc' = pc
       \/ pc' \in {"dead", "quit"}
       \/ pc \in Plain /\ pc' \in Plain
       \/ pc \in Later /\ pc' \in Later

(* A thread, a handler, the PTY loop: such steps leave LeftInv alone.      *)
LEMMA QuietLeft == LeftInv /\ Quiet => LeftInv'
<1>. SUFFICES ASSUME LeftInv, Quiet PROVE LeftInv'
    OBVIOUS
<1>1. /\ pend \subseteq pend'
      /\ UNCHANGED <<cfg, live, group, waited, cgroup, tmp, taken, ret>>
    BY DEF Quiet
<1>2. /\ Launched' = Launched
      /\ \A p : Live(p)' = Live(p)
      /\ \A k : Condemned(k) => Condemned(k)'
    BY <1>1 DEF Launched, Live, Condemned
<1>3. /\ pc' \in Early \ {"pid", "fd"} => pc \in Early \ {"pid", "fd"}
      /\ pc' \in ReapedPcs => pc \in ReapedPcs
      /\ \A l \in {"p_kill", "p_reap", "exit", "cg_procs"} : pc' = l => pc = l
      /\ GroupDone' => GroupDone
      /\ CgroupDone' => CgroupDone
    <2>1. CASE pc' = pc
        BY <1>1, <2>1 DEF GroupDone, CgroupDone
    <2>2. CASE pc' \in {"dead", "quit"}
        BY <1>1, <2>2 DEF GroupDone, CgroupDone, Early, ReapedPcs
    <2>3. CASE pc \in Plain /\ pc' \in Plain
        BY <1>1, <2>3 DEF GroupDone, CgroupDone, Early, ReapedPcs, Plain
    <2>4. CASE pc \in Later /\ pc' \in Later
        BY <1>1, <2>4 DEF GroupDone, CgroupDone, Early, ReapedPcs, Later
    <2>. QED  BY <2>1, <2>2, <2>3, <2>4 DEF Quiet
<1>4. /\ pc' \in Early \ {"pid", "fd"} => ~Launched' /\ ~taken' /\ ~waited' /\ ret' = "none"
      /\ ~Launched' => \A p \in Sandboxed : live'[p] = "none"
      /\ waited' \/ ret' # "none" \/ pc' \in ReapedPcs => live'["child"] = "reaped"
      /\ Launched' /\ pc' \in {"p_kill", "p_reap", "exit"} => live'["child"] = "reaped"
      /\ cfg'.proxy = "lib" /\ pc' \in {"p_kill", "p_reap"} => live'["child"] = "reaped"
      /\ pc' = "cg_procs" => ~cfg'.cgkill
    BY <1>1, <1>2, <1>3 DEF LeftInv
<1>5. /\ Live("target")' => cfg'.pidns /\ (Live("child")' \/ <<"target", "KILL">> \in pend')
      /\ cfg'.pidns /\ ~Live("target")' => \A k \in Kids : Condemned(k)'
    BY <1>1, <1>2 DEF LeftInv
<1>6. /\ ~cfg'.pidns /\ Launched' /\ GroupDone' => \A k \in Kids \cap group' : Condemned(k)'
      /\ ~cfg'.pidns /\ Launched' /\ CgroupDone' =>
             live'["child"] = "reaped" /\ \A k \in Kids : Condemned(k)'
    BY <1>1, <1>2, <1>3 DEF LeftInv
<1>. QED  BY <1>4, <1>5, <1>6 DEF LeftInv

LEMMA StepLeft == ProcInv /\ LeftInv /\ [Next]_vars => LeftInv'
<1>. SUFFICES ASSUME ProcInv, LeftInv, [Next]_vars PROVE LeftInv'
    OBVIOUS
<1>t. Typed
    BY DEF ProcInv
<1>. USE DEF LeftInv, Early, ReapedPcs, Launched, GroupDone, CgroupDone, Condemned, Live, Goto, Send
<1>1. CASE Start \/ MakeProxy \/ AwaitProxy \/ Launches \/ LaunchFails
    <2>1. CASE Launches
        BY <1>t, <2>1 DEF Launches, frontVars, Typed, Procs, Kids, Sandboxed, ProcStates
    <2>2. CASE MakeProxy
        <3>1. /\ \A p \in Procs \ {"proxy"} : live'[p] = live[p]
              /\ pc = "mkproxy" /\ pc' \in {"await", "quit"}
              /\ UNCHANGED <<cfg, pend, group, waited, cgroup, tmp, taken, ret>>
            BY <1>t, <2>2 DEF MakeProxy, Typed
        <3>2. {"child", "target"} \cup Kids \subseteq Procs \ {"proxy"}
              /\ Sandboxed \subseteq Procs \ {"proxy"}
            BY DEF Procs, Kids, Sandboxed
        <3>. QED  BY <3>1, <3>2
    <2>3. CASE Start
        BY <2>3 DEF Start, rest, procVars, handleVars
    <2>4. CASE AwaitProxy
        BY <2>4 DEF AwaitProxy, rest, procVars, handleVars
    <2>5. CASE LaunchFails
        BY <2>5 DEF LaunchFails, rest, procVars, handleVars
    <2>. QED  BY <1>1, <2>1, <2>2, <2>3, <2>4, <2>5
<1>. HIDE DEF LeftInv, Early, ReapedPcs, Launched, GroupDone, CgroupDone, Condemned, Live
<1>2. CASE StorePid \/ OpenFd \/ SetNonblock \/ SpawnTimer \/ InstallHandlers
    <2>1. Quiet
        BY <1>2 DEF StorePid, OpenFd, SetNonblock, SpawnTimer, InstallHandlers, rest, procVars,
                    handleVars, Quiet, Plain
    <2>. QED  BY <2>1, QuietLeft
<1>3. CASE SetDone \/ ClearPid \/ ClearFd \/ CloseFd \/ LibSignal \/ LibCall
    <2>1. CASE SetDone \/ ClearPid \/ ClearFd \/ CloseFd
        <3>1. Quiet
            BY <2>1 DEF SetDone, ClearPid, ClearFd, CloseFd, rest, procVars, handleVars, Quiet,
                        Later
        <3>. QED  BY <3>1, QuietLeft
    <2>2. CASE LibSignal
        <3>1. Quiet
            BY <2>2 DEF LibSignal, handleVars, Quiet
        <3>. QED  BY <3>1, QuietLeft
    <2>3. CASE LibCall
        <3>1. CASE pc' = "cleanup"
            BY <2>3, <3>1 DEF LibCall, rest, procVars, handleVars, LeftInv, Early, ReapedPcs,
                              Launched, GroupDone, CgroupDone, Condemned, Live
        <3>2. CASE pc' # "cleanup"
            <4>1. Quiet
                BY <2>3, <3>2 DEF LibCall, rest, procVars, handleVars, Quiet, Plain
            <4>. QED  BY <4>1, QuietLeft
        <3>. QED  BY <3>1, <3>2
    <2>. QED  BY <1>3, <2>1, <2>2, <2>3
<1>4. CASE Loop
    <2>1. Quiet
        BY <1>4 DEF Loop, RawArm, RawSet, Poll, LoopIn, LoopHup, LoopOut, LoopStdin,
                    RestoreFlags, RestoreTerm, Disarm, Quit, procVars, handleVars, Quiet, Plain
    <2>. QED  BY <2>1, QuietLeft
<1>5. CASE Handle
    <2>. USE DEF LeftInv, Early, ReapedPcs, Launched, GroupDone, CgroupDone, Condemned, Live
    <2>1. CASE CgroupKill
        <3>1. pend \subseteq pend'
            BY <2>1 DEF CgroupKill
        <3>2. cfg.cgkill => \A k \in Kids : Live(k) => <<k, "KILL">> \in pend'
            BY <2>1 DEF CgroupKill, Members, Killed, Sandboxed, Procs, Kids
        <3>3. pc = "cg_kill" /\ pc' = IF cfg.cgkill THEN "cg_rmdir" ELSE "cg_procs"
            BY <2>1 DEF CgroupKill
        <3>4. UNCHANGED <<cfg, live, group, waited, cgroup, tmp, taken, ret>>
            BY <2>1 DEF CgroupKill
        <3>. QED  BY <3>1, <3>2, <3>3, <3>4
    <2>2. CASE CgroupKillProcs
        BY <2>2 DEF CgroupKillProcs
    <2>9. CASE CgroupRmdir
        BY <2>9 DEF CgroupRmdir, AfterDestroy, procVars
    <2>3. CASE Wait
        <3>1. /\ live["child"] = "zombie" /\ pc = "wait"
              /\ live' = [live EXCEPT !["child"] = "reaped"]
              /\ live \in [Procs -> ProcStates]
              /\ UNCHANGED <<cfg, pend, group, cgroup, tmp, taken>>
              /\ \/ waited' = TRUE /\ pc' = "group" /\ ret' = ret
                 \/ ret' = "error" /\ pc' \in {"done", "held"} /\ waited' = waited
            BY <1>t, <2>3 DEF Wait, AfterWait, Typed
        <3>2. /\ live'["child"] = "reaped"
              /\ \A p \in Procs \ {"child"} : live'[p] = live[p]
            BY <3>1 DEF Procs
        <3>3. Launched
            BY <3>1 DEF Sandboxed, Procs
        <3>. QED  BY SMT, <3>1, <3>2, <3>3 DEF Procs, Kids, Sandboxed
    <2>4. CASE WaitGroup \/ DropGroup
        <3>1. /\ pend \subseteq pend'
              /\ UNCHANGED <<cfg, live, group, waited, cgroup, tmp, taken, ret>>
              /\ \/ pc = "group" /\ pc' = "collect"
                 \/ pc = "d_group" /\ pc' = "d_proxy"
            BY <2>4 DEF WaitGroup, DropGroup, handleVars
        <3>2. ~cfg.pidns => \A k \in Kids \cap group : Live(k) => <<k, "KILL">> \in pend'
            BY <2>4 DEF WaitGroup, DropGroup, ToGroup, Killed, HasTargetPid
        <3>. QED  BY <3>1, <3>2
    <2>5. CASE WaitCollect
        BY <2>5 DEF WaitCollect, AfterWait, procVars
    <2>10. CASE Cleanup
        BY <2>10 DEF Cleanup, HasCgroup, procVars
    <2>11. CASE CleanupTmp
        BY <2>11 DEF CleanupTmp, RemoveTmp, procVars, Sandboxed, Procs, Kids
    <2>6. CASE DropKill
        BY <2>6 DEF DropKill, handleVars
    <2>7. CASE DropWait
        BY <1>t, <2>7 DEF DropWait, handleVars, Typed, Procs, Kids, Sandboxed
    <2>12. CASE ProxyReap
        BY <1>t, <2>12 DEF ProxyReap, AfterProxy, Typed, Procs, Kids, Sandboxed
    <2>8. CASE DropProxy \/ DropCgroup \/ DropTmp \/ ProxyKill
        BY SMT, <2>8 DEF DropProxy, DropCgroup, DropTmp, ProxyKill, HasCgroup, RemoveTmp, procVars,
                    handleVars
    <2>. QED  BY <1>5, <2>1, <2>2, <2>3, <2>4, <2>5, <2>6, <2>7, <2>8, <2>9, <2>10, <2>11,
                 <2>12 DEF Handle
<1>6. CASE Timer \/ (\E h \in Threads : Handler(h))
    <2>1. Quiet
        BY <1>6 DEF Timer, TimerWakes, TimerLoads, TimerSends, Handler, HandlerLoads,
                    HandlerSends, HandlerRecords, rest, procVars, handleVars, Quiet
    <2>. QED  BY <2>1, QuietLeft
<1>7. CASE Unhandled \/ (\E h \in Threads : HandlerStarts(h))
    <2>1. Quiet
        BY <1>7 DEF Unhandled, HandlerStarts, procVars, handleVars, Quiet
    <2>. QED  BY <2>1, QuietLeft
<1>8. CASE Kernel
    BY SMT, <1>8, <1>t, KernelSettles
    DEF Settles, Born, Init1, handleVars, Procs, Kids, Typed, LeftInv, Early, ReapedPcs, Launched,
        GroupDone, CgroupDone, Condemned, Live
<1>9. CASE TtyTarget
    <2>1. Quiet
        BY <1>9 DEF TtyTarget, TargetAnswers, TargetCloses, procVars, handleVars, Quiet
    <2>. QED  BY <2>1, QuietLeft
<1>10. CASE Over \/ UNCHANGED vars
    <2>1. Quiet
        BY <1>10 DEF Over, vars, rest, procVars, handleVars, Quiet
    <2>. QED  BY <2>1, QuietLeft
<1>. QED
    BY <1>1, <1>2, <1>3, <1>4, <1>5, <1>6, <1>7, <1>8, <1>9, <1>10 DEF Next, Main, World

LEMMA StepProxy == ProcInv /\ LeftInv /\ ProxyInv /\ [Next]_vars => ProxyInv'
<1>. SUFFICES ASSUME ProcInv, LeftInv, ProxyInv, [Next]_vars PROVE ProxyInv'
    OBVIOUS
<1>t. /\ live \in [Procs -> ProcStates] /\ Typed
      /\ pc \in Early \ {"pid", "fd"} => ~Launched
      /\ ~Launched => live["child"] = "none"
      /\ waited \/ ret # "none" \/ pc \in ReapedPcs => live["child"] = "reaped"
    BY DEF ProcInv, Typed, LeftInv, Sandboxed, Procs, Kids
<1>. USE DEF ProxyInv, ProxyGone, Launched, Early, ReapedPcs, Goto, Send
<1>1. CASE Start \/ MakeProxy \/ AwaitProxy \/ Launches \/ LaunchFails
    BY <1>t, <1>1 DEF Start, MakeProxy, AwaitProxy, Launches, LaunchFails, rest, procVars,
                      handleVars, Procs
<1>2. CASE StorePid \/ OpenFd \/ SetNonblock \/ SpawnTimer \/ InstallHandlers
    BY <1>2 DEF StorePid, OpenFd, SetNonblock, SpawnTimer, InstallHandlers, rest, procVars,
                handleVars
<1>3. CASE SetDone \/ ClearPid \/ ClearFd \/ CloseFd \/ LibSignal \/ LibCall
    BY <1>3 DEF SetDone, ClearPid, ClearFd, CloseFd, LibSignal, LibCall, rest, procVars,
                handleVars
<1>4. CASE Loop
    BY <1>4 DEF Loop, RawArm, RawSet, Poll, LoopIn, LoopHup, LoopOut, LoopStdin,
                RestoreFlags, RestoreTerm, Disarm, Quit, procVars, handleVars
<1>5. CASE Handle
    <2>1. CASE CgroupKill \/ CgroupKillProcs \/ CgroupRmdir \/ Cleanup \/ CleanupTmp
        BY <1>t, <2>1 DEF CgroupKill, CgroupKillProcs, CgroupRmdir, AfterDestroy, Cleanup,
                          CleanupTmp, RemoveTmp, procVars
    <2>2. CASE Wait \/ WaitGroup \/ WaitCollect \/ DropKill \/ DropWait \/ DropGroup
        BY <1>t, <2>2 DEF Wait, WaitGroup, WaitCollect, AfterWait, DropKill, DropWait, DropGroup,
                          procVars, handleVars, Procs
    <2>3. CASE DropProxy \/ DropCgroup \/ DropTmp \/ ProxyKill \/ ProxyReap
        BY <1>t, <2>3 DEF DropProxy, DropCgroup, DropTmp, RemoveTmp, ProxyKill, ProxyReap,
                          AfterProxy, procVars, handleVars, Procs
    <2>. QED  BY <1>5, <2>1, <2>2, <2>3 DEF Handle
<1>6. CASE Timer \/ (\E h \in Threads : Handler(h))
    BY <1>6 DEF Timer, TimerWakes, TimerLoads, TimerSends, Handler, HandlerLoads, HandlerSends,
                HandlerRecords, rest, procVars, handleVars
<1>7. CASE Unhandled \/ (\E h \in Threads : HandlerStarts(h))
    BY <1>7 DEF Unhandled, HandlerStarts, procVars, handleVars
<1>8. CASE Kernel
    BY <1>8, <1>t, KernelSettles DEF Settles, handleVars, Procs, Kids
<1>9. CASE TtyTarget
    BY <1>9 DEF TtyTarget, TargetAnswers, TargetCloses, procVars, handleVars
<1>10. CASE Over \/ UNCHANGED vars
    BY <1>10 DEF Over, vars, rest, procVars, handleVars
<1>. QED
    BY <1>1, <1>2, <1>3, <1>4, <1>5, <1>6, <1>7, <1>8, <1>9, <1>10 DEF Next, Main, World

(* When `arapuca run' or the owner of a Process is through, by wait() and  *)
(* cleanup() or just by dropping it, the child is reaped, the proxy and    *)
(* its directory are gone, and every process that the group, cgroup.kill   *)
(* or a PID namespace holds is dead or being killed.                       *)
THEOREM NothingLeftHolds == Spec => []NothingLeft
<1>. DEFINE Inv == ProcInv /\ LeftInv /\ ProxyInv
<1>1. Init => Inv
    BY InitProc, InitLeft
<1>2. Inv /\ [Next]_vars => Inv'
    BY StepProc, StepLeft, StepProxy
<1>3. Inv => NothingLeft
    <2>. SUFFICES ASSUME ProcInv, LeftInv, ProxyInv, pc = "exit", tmp # "none"
                  PROVE  /\ live["child"] = "reaped"
                         /\ Live("target") => Doomed("target")
                         /\ ProxyGone
                         /\ \A k \in Kids : Live(k) => Doomed(k) \/ Escaped(k)
        BY DEF NothingLeft, ProxyGone
    <2>1. live["child"] = "reaped" /\ ProxyGone
        BY DEF LeftInv, ProxyInv, Launched
    <2>2. Live("target") => <<"target", "KILL">> \in pend
        BY <2>1 DEF LeftInv, Live
    <2>3. ASSUME NEW k \in Kids, Live(k) PROVE Doomed(k) \/ Escaped(k)
        <3>1. CASE cfg.pidns
            BY <2>2, <2>3, <3>1 DEF LeftInv, Condemned, Doomed
        <3>2. CASE ~cfg.pidns
            BY <2>3, <3>2 DEF LeftInv, Condemned, Doomed, Escaped, Launched, GroupDone, CgroupDone
        <3>. QED  BY <3>1, <3>2
    <2>. QED  BY <2>1, <2>2, <2>3 DEF Doomed
<1>. QED  BY <1>1, <1>2, <1>3, PTL DEF Spec
=============================================================================
